------------------------ MODULE MarketProcess_proofs ------------------------
(***************************************************************************)
(* Facts about an advert for any number of takers, lost answers and        *)
(* crashes.  A row whose finalization has started stays open, so there is  *)
(* one such row at most; what the maker signs is the final bundle of its   *)
(* session, which is made for such a row and never changes; and every      *)
(* final bundle in a row, in a job, on the wire or signed by a taker is    *)
(* one that the maker has signed before.                                   *)
(***************************************************************************)
EXTENDS MarketProcess, TLAPS

Blobs == Seq(Nat)
Rows ==
    [status : {"NONE", "HELD", "BOUND", "EXPIRED", "RELEASED"}, offer : Blobs,
     accept : Blobs, started : BOOLEAN, final : Blobs]
Requests ==
    [op : {"post", "withdraw", "take", "offer", "accept", "finalize-start", "final",
           "taker-bind", "release"},
     res : Takers \cup {NoTaker}, blob : Blobs]
Shown ==
    {"POSTING", "ACTIVE", "RESERVING", "WAITING_MAKER", "OFFER_CREATED",
     "ACCEPTANCE_CREATED", "FINALIZATION_STARTED", "FINALIZED_MAKER", "HELD", "BOUND",
     "EXPIRED", "RELEASED", "WITHDRAWN"}
Jobs ==
    [state : Shown, withdraw : BOOLEAN, res : Takers \cup {NoTaker}, blob : Blobs,
     swap : Blobs]
Cycles ==
    [at : {"idle", "seen", "made", "pinned", "signed"}, job : Jobs,
     res : Takers \cup {NoTaker}, row : Rows]
Sessions == [offer : Blobs, accept : Blobs, final : Blobs]

Typed ==
    /\ advert \in {"NONE", "ACTIVE", "WITHDRAWN", "EXPIRED"}
    /\ res \in [Takers -> Rows]
    /\ proc \in [Parties -> Jobs]
    /\ session \in [Takers -> Sessions]
    /\ signed \in [Parties -> SUBSET (Takers \X Blobs)]
    /\ run \in [Parties -> Cycles]
    /\ wire \subseteq Requests

\* The rows: one is open at most, and the one whose finalization has started stays open.
StoreSound ==
    /\ \A t, u \in Open : t = u
    /\ Open # {} => advert = "ACTIVE"
    /\ advert = "NONE" => \A t \in Takers : res[t].status = "NONE"
    /\ \A t \in Takers :
          /\ res[t].started => res[t].status \in {"HELD", "BOUND"}
          /\ res[t].status = "BOUND" => res[t].started /\ res[t].final # Nothing
          /\ res[t].final # Nothing => res[t].started

\* What is signed: by the maker, what its session has for a row that stays open; by a
\* taker, what the maker has signed with it.
SignedSound ==
    /\ \A t \in Takers : session[t].final # Nothing => res[t].started
    /\ \A s \in signed[Maker] : s[2] # Nothing /\ s[2] = session[s[1]].final
    /\ \A t \in Takers : \A s \in signed[t] : s[1] = t /\ s \in signed[Maker]

\* What the rows say of it.
RowsSound ==
    \A t \in Takers :
        /\ res[t].final # Nothing => <<t, res[t].final>> \in signed[Maker]
        /\ res[t].status = "BOUND" => <<t, res[t].final>> \in signed[t]

\* A job of p with a swap: p has signed it with the taker of the job.
JobSound(p, j) ==
    /\ j.swap # Nothing => <<j.res, j.swap>> \in signed[p]
    /\ p # Maker => j.res \in {NoTaker, p}

\* What a cycle has read of its row is still so, if it is a start or a final bundle.
CycleSound(p) ==
    run[p].at # "idle" =>
        /\ run[p].res \in Takers /\ run[p].job.res = run[p].res
        /\ JobSound(p, run[p].job)
        /\ run[p].row.started => res[run[p].res].started
        /\ run[p].row.final # Nothing => res[run[p].res].final = run[p].row.final
        /\ run[p].at = "signed" => run[p].job.swap # Nothing
        /\ run[p].at = "pinned" => p = Maker /\ session[run[p].res].final # Nothing
        /\ res[run[p].res].status # "NONE"
        /\ run[p].job.state \notin Terminal \cup {"POSTING", "RESERVING"}

JobsSound == \A p \in Parties : JobSound(p, proc[p]) /\ CycleSound(p)

\* What may be asked of the store: nothing that was not signed first.
Good(q) ==
    /\ q \in Requests
    /\ q.op \notin {"post", "withdraw"} => q.res \in Takers
    /\ q.op = "final" => <<q.res, q.blob>> \in signed[Maker]
    /\ q.op = "taker-bind" => <<q.res, q.blob>> \in signed[q.res]
WireSound == \A q \in wire : Good(q)

\* What a process shows when it is done, or has a place in the market.
ShownSound ==
    /\ proc[Maker].state # "POSTING" => advert # "NONE"
    /\ \A t \in Takers : proc[t].state # "RESERVING" => res[t].status # "NONE"
    /\ \A t \in Takers : proc[t].state \in {"EXPIRED", "RELEASED"} =>
          res[t].status \in {"EXPIRED", "RELEASED"}
    /\ proc[Maker].state \in {"EXPIRED", "WITHDRAWN"} => Open = {} /\ advert # "ACTIVE"
    /\ \A p \in Parties : proc[p].state = "BOUND" =>
          /\ proc[p].res \in Takers /\ res[proc[p].res].status = "BOUND"
          /\ res[proc[p].res].final = proc[p].swap

Inv ==
    /\ Typed /\ StoreSound /\ SignedSound /\ RowsSound
    /\ JobsSound /\ WireSound /\ ShownSound

----------------------------------------------------------------------------
(* The store *)

\* What can happen to the row of t, as far as its status, start and final bundle go.
RowStep(t, r) ==
    \/ /\ res[t].status = "NONE" /\ Available
       /\ r.status = "HELD" /\ r.started = FALSE /\ r.final = Nothing
    \/ /\ res[t].status = "HELD" /\ ~res[t].started
       /\ r.status \in {"EXPIRED", "RELEASED"} /\ r.started = FALSE /\ r.final = res[t].final
    \/ /\ res[t].status = "HELD" /\ r.status = "HELD"
       /\ res[t].started => r.started
       /\ r.final = res[t].final
    \/ /\ res[t].status \in {"HELD", "BOUND"} /\ r.status = res[t].status
       /\ res[t].started /\ r.started
       /\ res[t].final \in {Nothing, r.final} /\ <<t, r.final>> \in signed[Maker]
    \/ /\ res[t].status \in {"HELD", "BOUND"} /\ r.status = "BOUND"
       /\ res[t].started /\ r.started
       /\ r.final = res[t].final /\ <<t, r.final>> \in signed[t]

StoreStep ==
    \/ UNCHANGED store
    \/ advert = "NONE" /\ advert' = "ACTIVE" /\ UNCHANGED res
    \/ Available /\ advert' \in {"WITHDRAWN", "EXPIRED"} /\ UNCHANGED res
    \/ /\ UNCHANGED advert
       /\ \E t \in Takers : \E r \in Rows : res' = [res EXCEPT ![t] = r] /\ RowStep(t, r)

\* What the row of t has once, it keeps.
Later ==
    /\ advert # "NONE" => advert' # "NONE"
    /\ advert \in {"WITHDRAWN", "EXPIRED"} => advert' = advert
    /\ Open = {} /\ advert # "ACTIVE" /\ advert # "NONE" => Open' = {}
    /\ \A t \in Takers :
          /\ res[t].started => res'[t].started
          /\ res[t].final # Nothing => res'[t].final = res[t].final
          /\ res[t].status # "NONE" => res'[t].status # "NONE"
          /\ res[t].status \in {"EXPIRED", "RELEASED", "BOUND"} => res'[t].status = res[t].status

LEMMA AppendGives ==
    ASSUME NEW a \in Seq(Nat) PROVE Append(a, 1) \in Seq(Nat) /\ Append(a, 1) # <<>>
<1>1. Len(Append(a, 1)) = Len(a) + 1 /\ Len(<<>>) = 0 /\ Len(a) \in Nat
  OBVIOUS
<1>2. QED  BY <1>1

LEMMA NothingIsBlob == Nothing \in Blobs
BY DEF Nothing, Blobs

LEMMA FilledIsRow ==
    ASSUME NEW q \in Requests, NEW row \in Rows, q.op \notin {"post", "withdraw", "take"}
    PROVE  Filled(q, row) \in Rows
<1>1. q.blob \in Blobs
  BY DEF Requests
<1>2. CASE q.op = "offer" \/ q.op = "accept" \/ q.op = "final"
  BY <1>1, <1>2 DEF Filled, Rows
<1>3. CASE q.op = "finalize-start" \/ q.op = "taker-bind" \/ q.op = "release"
  BY <1>3 DEF Filled, Rows
<1>4. QED  BY <1>2, <1>3 DEF Requests

\* A good request that is granted is a step of the store.
LEMMA GrantIsStep ==
    ASSUME Typed, StoreSound, NEW q, Good(q), Grants(q)
    PROVE StoreStep
<1>1. CASE Posts(q)
  BY <1>1 DEF Posts, StoreStep, store
<1>2. CASE Withdraws(q)
  BY <1>2 DEF Withdraws, StoreStep
<1>3. CASE Reserves(q)
  <2>1. q.res \in Takers
    BY <1>3 DEF Reserves, Good
  <2>2. [NoRow EXCEPT !.status = "HELD"] \in Rows
    BY NothingIsBlob DEF NoRow, Rows
  <2>3. CASE UNCHANGED res
    BY <1>3, <2>3 DEF Reserves, StoreStep, store
  <2>4. CASE ~UNCHANGED res
    <3>1. RowStep(q.res, [NoRow EXCEPT !.status = "HELD"])
      BY <1>3, <2>4 DEF Reserves, RowStep, NoRow
    <3>2. QED  BY <1>3, <2>4, <2>1, <2>2, <3>1 DEF Reserves, StoreStep
  <2>5. QED  BY <2>3, <2>4
<1>4. CASE Writes(q)
  <2>1. q \in Requests /\ q.res \in Takers /\ res[q.res] \in Rows
    BY <1>4 DEF Writes, Good, Typed
  <2> DEFINE r == Filled(q, res[q.res])
  <2>2. r \in Rows
    BY <1>4, <2>1, FilledIsRow DEF Writes
  <2>3. res' = [res EXCEPT ![q.res] = r] /\ UNCHANGED advert /\ Fits(q, res[q.res])
    BY <1>4, <2>1 DEF Writes, Typed
  <2>4. RowStep(q.res, r)
    <3>1. CASE q.op = "offer" \/ q.op = "accept" \/ q.op = "finalize-start"
      BY <2>1, <2>3, <3>1 DEF Fits, Filled, RowStep, Rows
    <3>2. CASE q.op = "release"
      BY <2>1, <2>3, <3>2 DEF Fits, Filled, RowStep, Rows
    <3>3. CASE q.op = "final"
      BY <2>1, <2>3, <3>3 DEF Fits, Filled, RowStep, Rows, Good, StoreSound
    <3>4. CASE q.op = "taker-bind"
      BY <2>1, <2>3, <3>4 DEF Fits, Filled, RowStep, Rows, Good
    <3>5. QED  BY <1>4, <2>1, <3>1, <3>2, <3>3, <3>4 DEF Writes, Requests
  <2>5. QED  BY <2>1, <2>2, <2>3, <2>4 DEF StoreStep
<1>5. QED  BY <1>1, <1>2, <1>3, <1>4 DEF Grants

LEMMA ExpiryIsStep ==
    ASSUME Typed, ExpireAdvert \/ \E t \in Takers : ExpireHold(t)
    PROVE StoreStep
<1>1. CASE ExpireAdvert
  BY <1>1 DEF ExpireAdvert, StoreStep
<1>2. CASE \E t \in Takers : ExpireHold(t)
  <2>1. PICK t \in Takers : ExpireHold(t)
    BY <1>2
  <2> DEFINE r == [res[t] EXCEPT !.status = "EXPIRED"]
  <2>2. r \in Rows
    BY DEF Typed, Rows
  <2>3. res' = [res EXCEPT ![t] = r] /\ UNCHANGED advert
    BY <2>1 DEF ExpireHold
  <2>4. RowStep(t, r)
    BY <2>1 DEF ExpireHold, MayExpire, RowStep, Typed, Rows
  <2>5. QED  BY <2>2, <2>3, <2>4 DEF StoreStep
<1>3. QED  BY <1>1, <1>2

LEMMA StepKeepsTypes ==
    ASSUME Typed, StoreStep
    PROVE  advert' \in {"NONE", "ACTIVE", "WITHDRAWN", "EXPIRED"} /\ res' \in [Takers -> Rows]
BY DEF Typed, StoreStep, store, Available

LEMMA StepIsLater ==
    ASSUME Typed, StoreSound, SignedSound, StoreStep
    PROVE  Later
<1>1. CASE UNCHANGED store
  BY <1>1 DEF store, Later, Open
<1>2. CASE advert = "NONE" /\ advert' = "ACTIVE" /\ UNCHANGED res
  BY <1>2 DEF Later, Open
<1>3. CASE Available /\ advert' \in {"WITHDRAWN", "EXPIRED"} /\ UNCHANGED res
  BY <1>3 DEF Later, Open, Available
<1>4. ASSUME UNCHANGED advert,
             NEW t \in Takers, NEW r \in Rows, res' = [res EXCEPT ![t] = r], RowStep(t, r)
      PROVE  Later
  <2>1. \A u \in Takers : res'[u] = IF u = t THEN r ELSE res[u]
    BY <1>4 DEF Typed
  <2>2. /\ res[t].started => r.started
        /\ res[t].final # Nothing => r.final = res[t].final
        /\ res[t].status # "NONE" => r.status # "NONE"
        /\ res[t].status \in {"EXPIRED", "RELEASED", "BOUND"} => r.status = res[t].status
        /\ res[t].status \notin {"HELD", "BOUND"} /\ advert # "ACTIVE" => r.status \notin {"HELD", "BOUND"}
    BY <1>4 DEF RowStep, StoreSound, Available, Nothing
  <2>3. Open = {} /\ advert # "ACTIVE" => Open' = {}
    BY <2>1, <2>2 DEF Open
  <2>4. QED  BY <1>4, <2>1, <2>2, <2>3 DEF Later
<1>5. QED  BY <1>1, <1>2, <1>3, <1>4 DEF StoreStep

LEMMA StepKeepsStore ==
    ASSUME Typed, StoreSound, SignedSound, RowsSound, StoreStep, UNCHANGED signed
    PROVE  StoreSound' /\ RowsSound'
<1>1. CASE UNCHANGED store
  BY <1>1 DEF store, StoreSound, RowsSound, Open
<1>2. CASE advert = "NONE" /\ advert' = "ACTIVE" /\ UNCHANGED res
  BY <1>2 DEF StoreSound, RowsSound, Open
<1>3. CASE Available /\ advert' \in {"WITHDRAWN", "EXPIRED"} /\ UNCHANGED res
  BY <1>3 DEF StoreSound, RowsSound, Open, Available
<1>4. ASSUME UNCHANGED advert,
             NEW t \in Takers, NEW r \in Rows, res' = [res EXCEPT ![t] = r], RowStep(t, r)
      PROVE  StoreSound' /\ RowsSound'
  <2>1. \A u \in Takers : res'[u] = IF u = t THEN r ELSE res[u]
    BY <1>4 DEF Typed
  <2>2. r.status \in {"HELD", "BOUND"} =>
           advert = "ACTIVE" /\ \A u \in Open : u = t
    <3>1. CASE Available
      BY <3>1 DEF Available
    <3>2. CASE ~Available
      <4>1. r.status \in {"HELD", "BOUND"} => t \in Open
        BY <1>4, <3>2 DEF RowStep, Open
      <4>2. QED  BY <4>1 DEF StoreSound
    <3>3. QED  BY <3>1, <3>2
  <2>3. \A u \in Open' : IF u = t THEN r.status \in {"HELD", "BOUND"} ELSE u \in Open
    BY <2>1 DEF Open
  <2>4. (\A u, v \in Open : u = v)'
    BY <2>2, <2>3 DEF StoreSound
  <2>5. (Open # {} => advert = "ACTIVE")'
    BY <1>4, <2>2, <2>3 DEF StoreSound
  <2>6. (advert = "NONE" => \A u \in Takers : res[u].status = "NONE")'
    <3>1. CASE advert = "NONE"
      BY <1>4, <3>1 DEF StoreSound, RowStep, Available
    <3>2. CASE advert # "NONE"
      BY <1>4, <3>2
    <3>3. QED  BY <3>1, <3>2
  <2>7. <<t, r.final>> \in signed[Maker] => r.final # Nothing
    BY DEF SignedSound
  <2>8. /\ r.started => r.status \in {"HELD", "BOUND"}
        /\ r.status = "BOUND" => r.started /\ r.final # Nothing
        /\ r.final # Nothing => r.started
        /\ r.final # Nothing => <<t, r.final>> \in signed[Maker]
        /\ r.status = "BOUND" => <<t, r.final>> \in signed[t]
    <3>1. CASE /\ res[t].status = "NONE" /\ Available
               /\ r.status = "HELD" /\ r.started = FALSE /\ r.final = Nothing
      BY <3>1
    <3>2. CASE /\ res[t].status = "HELD" /\ ~res[t].started
               /\ r.status \in {"EXPIRED", "RELEASED"} /\ r.started = FALSE
               /\ r.final = res[t].final
      BY <3>2 DEF StoreSound, RowsSound
    <3>3. CASE /\ res[t].status = "HELD" /\ r.status = "HELD"
               /\ res[t].started => r.started
               /\ r.final = res[t].final
      BY <3>3 DEF StoreSound, RowsSound
    <3>4. CASE /\ res[t].status \in {"HELD", "BOUND"} /\ r.status = res[t].status
               /\ res[t].started /\ r.started
               /\ res[t].final \in {Nothing, r.final} /\ <<t, r.final>> \in signed[Maker]
      BY <2>7, <3>4 DEF StoreSound, RowsSound
    <3>5. CASE /\ res[t].status \in {"HELD", "BOUND"} /\ r.status = "BOUND"
               /\ res[t].started /\ r.started
               /\ r.final = res[t].final /\ <<t, r.final>> \in signed[t]
      <4>1. <<t, r.final>> \in signed[Maker]
        BY <3>5 DEF SignedSound
      <4>2. QED  BY <2>7, <3>5, <4>1
    <3>6. QED  BY <1>4, <3>1, <3>2, <3>3, <3>4, <3>5 DEF RowStep
  <2>9. (\A u \in Takers :
          /\ res[u].started => res[u].status \in {"HELD", "BOUND"}
          /\ res[u].status = "BOUND" => res[u].started /\ res[u].final # Nothing
          /\ res[u].final # Nothing => res[u].started)'
    BY <2>1, <2>8 DEF StoreSound
  <2>10. RowsSound'
    BY <2>1, <2>8 DEF RowsSound
  <2>11. QED  BY <2>4, <2>5, <2>6, <2>9, <2>10 DEF StoreSound
<1>5. QED  BY <1>1, <1>2, <1>3, <1>4 DEF StoreStep
----------------------------------------------------------------------------
(* Jobs and cycles *)

\* What is signed stays, and a final bundle of a session does not change.
Grows ==
    /\ \A p \in Parties : signed[p] \subseteq signed'[p]
    /\ \A t \in Takers : session[t].final # Nothing => session'[t].final = session[t].final

\* A job that p may have when its cycle ends.
Fit(p, j) ==
    /\ j \in Jobs
    /\ j.swap # Nothing => <<j.res, j.swap>> \in signed[p]
    /\ p # Maker => j.res \in {NoTaker, p}
    /\ p = Maker /\ j.state # "POSTING" => advert' # "NONE"
    /\ p # Maker /\ j.state # "RESERVING" => res'[p].status # "NONE"
    /\ p # Maker /\ j.state \in {"EXPIRED", "RELEASED"} =>
          res'[p].status \in {"EXPIRED", "RELEASED"}
    /\ p = Maker /\ j.state \in {"EXPIRED", "WITHDRAWN"} => Open' = {} /\ advert' # "ACTIVE"
    /\ j.state = "BOUND" =>
          /\ j.res \in Takers /\ res'[j.res].status = "BOUND"
          /\ res'[j.res].final = j.swap

LEMMA IdleTyped == Idle \in Cycles /\ \A p \in Parties : NewJob(p) \in Jobs
<1>1. \A p : NewJob(p) \in Jobs
  BY NothingIsBlob DEF NewJob, Jobs, Shown
<1>2. NoRow \in Rows
  BY NothingIsBlob DEF NoRow, Rows
<1>3. QED  BY <1>1, <1>2 DEF Idle, Cycles

LEMMA CycleStays ==
    ASSUME NEW p \in Parties, CycleSound(p), run'[p] = run[p], Later, Grows
    PROVE  CycleSound(p)'
BY DEF CycleSound, JobSound, Later, Grows

LEMMA JobStays ==
    ASSUME NEW p \in Parties, JobSound(p, proc[p]), proc'[p] = proc[p], Grows
    PROVE  JobSound(p, proc[p])'
BY DEF JobSound, Grows

\* What is shown stays true while the store goes on.
LEMMA ShownStays ==
    ASSUME Typed, StoreSound, ShownSound, UNCHANGED proc, Later
    PROVE  ShownSound'
<1>1. (proc[Maker].state # "POSTING" => advert # "NONE")'
  BY DEF ShownSound, Later
<1>2. (\A t \in Takers : proc[t].state # "RESERVING" => res[t].status # "NONE")'
  BY DEF ShownSound, Later
<1>3. (\A t \in Takers : proc[t].state \in {"EXPIRED", "RELEASED"} =>
          res[t].status \in {"EXPIRED", "RELEASED"})'
  BY DEF ShownSound, Later
<1>4. (proc[Maker].state \in {"EXPIRED", "WITHDRAWN"} => Open = {} /\ advert # "ACTIVE")'
  <2>1. CASE proc[Maker].state \in {"EXPIRED", "WITHDRAWN"}
    <3>1. Open = {} /\ advert \in {"EXPIRED", "WITHDRAWN"}
      BY <2>1 DEF ShownSound, Typed
    <3>2. QED  BY <3>1 DEF Later
  <2>2. QED  BY <2>1
<1>5. (\A p \in Parties : proc[p].state = "BOUND" =>
          /\ proc[p].res \in Takers /\ res[proc[p].res].status = "BOUND"
          /\ res[proc[p].res].final = proc[p].swap)'
  BY DEF ShownSound, Later, StoreSound
<1>6. QED  BY <1>1, <1>2, <1>3, <1>4, <1>5 DEF ShownSound

\* The end of a cycle.
LEMMA Ending ==
    ASSUME Inv, NEW p \in Parties, NEW j, Ends(p, j), Fit(p, j), Later, Grows
    PROVE  /\ proc' \in [Parties -> Jobs] /\ run' \in [Parties -> Cycles]
           /\ JobsSound' /\ ShownSound'
<1>1. /\ proc' = [proc EXCEPT ![p] = j] /\ run' = [run EXCEPT ![p] = Idle]
      /\ proc \in [Parties -> Jobs] /\ run \in [Parties -> Cycles] /\ j \in Jobs
  BY DEF Ends, Inv, Typed, Fit
<1>2. \A u \in Parties : /\ proc'[u] = IF u = p THEN j ELSE proc[u]
                         /\ run'[u] = IF u = p THEN Idle ELSE run[u]
  BY <1>1
<1>3. proc' \in [Parties -> Jobs] /\ run' \in [Parties -> Cycles]
  BY <1>1, IdleTyped
<1>4. JobsSound'
  <2>1. JobSound(p, proc[p])' /\ CycleSound(p)'
    BY <1>2 DEF JobSound, CycleSound, Fit, Grows, Idle
  <2>2. ASSUME NEW u \in Parties, u # p PROVE JobSound(u, proc[u])' /\ CycleSound(u)'
    BY <1>2, <2>2, CycleStays, JobStays DEF Inv, JobsSound
  <2>3. QED  BY <2>1, <2>2 DEF JobsSound
<1>5. ShownSound'
  <2>1. (proc[Maker].state # "POSTING" => advert # "NONE")'
    BY <1>2 DEF Fit, Inv, ShownSound, Later, Parties
  <2>2. (\A t \in Takers : proc[t].state # "RESERVING" => res[t].status # "NONE")'
    BY <1>2, PartyAssumption DEF Fit, Inv, ShownSound, Later, Parties
  <2>3. (\A t \in Takers : proc[t].state \in {"EXPIRED", "RELEASED"} =>
          res[t].status \in {"EXPIRED", "RELEASED"})'
    BY <1>2, PartyAssumption DEF Fit, Inv, ShownSound, Later, Parties
  <2>4. (proc[Maker].state \in {"EXPIRED", "WITHDRAWN"} => Open = {} /\ advert # "ACTIVE")'
    <3>1. CASE p = Maker
      BY <1>2, <3>1 DEF Fit
    <3>2. CASE p # Maker /\ proc[Maker].state \in {"EXPIRED", "WITHDRAWN"}
      <4>1. Open = {} /\ advert \in {"EXPIRED", "WITHDRAWN"}
        BY <3>2 DEF Inv, ShownSound, Typed
      <4>2. QED  BY <4>1 DEF Later
    <3>3. QED  BY <1>2, <3>1, <3>2 DEF Parties
  <2>5. (\A u \in Parties : proc[u].state = "BOUND" =>
          /\ proc[u].res \in Takers /\ res[proc[u].res].status = "BOUND"
          /\ res[proc[u].res].final = proc[u].swap)'
    BY <1>2 DEF Fit, Inv, ShownSound, Later, StoreSound
  <2>6. QED  BY <2>1, <2>2, <2>3, <2>4, <2>5 DEF ShownSound
<1>6. QED  BY <1>3, <1>4, <1>5

\* A step within a cycle.
LEMMA Going ==
    ASSUME Inv, NEW p \in Parties, NEW c \in Cycles, run' = [run EXCEPT ![p] = c],
           UNCHANGED proc, CycleSound(p)', Later, Grows
    PROVE  /\ run' \in [Parties -> Cycles]
           /\ JobsSound' /\ ShownSound'
<1>1. run \in [Parties -> Cycles]
  BY DEF Inv, Typed
<1>2. \A u \in Parties : u # p => run'[u] = run[u]
  BY <1>1
<1>3. \A u \in Parties : JobSound(u, proc[u])' /\ CycleSound(u)'
  BY <1>2, CycleStays, JobStays DEF Inv, JobsSound
<1>4. QED  BY <1>1, <1>3, ShownStays DEF JobsSound, Inv
----------------------------------------------------------------------------
(* Steps that sign nothing *)

Unsigned == StoreStep /\ UNCHANGED <<session, signed>>

LEMMA UnsignedGives ==
    ASSUME Inv, Unsigned
    PROVE  /\ Later /\ Grows
           /\ advert' \in {"NONE", "ACTIVE", "WITHDRAWN", "EXPIRED"}
           /\ res' \in [Takers -> Rows]
           /\ session' \in [Takers -> Sessions]
           /\ signed' \in [Parties -> SUBSET (Takers \X Blobs)]
           /\ StoreSound' /\ RowsSound' /\ SignedSound'
<1>1. Later /\ Grows
  BY StepIsLater DEF Inv, Unsigned, Grows
<1>2. StoreSound' /\ RowsSound'
  BY StepKeepsStore DEF Inv, Unsigned
<1>3. SignedSound'
  BY <1>1 DEF Inv, Unsigned, SignedSound, Later
<1>4. QED  BY <1>1, <1>2, <1>3, StepKeepsTypes DEF Inv, Unsigned, Typed

LEMMA WireStays ==
    ASSUME WireSound, wire \subseteq Requests, UNCHANGED signed, NEW q, Good(q),
           wire' \subseteq wire \cup {q}
    PROVE  WireSound' /\ wire' \subseteq Requests
BY DEF WireSound, Good

\* A job that is not at its end.
Early(p, j) ==
    /\ j \in Jobs
    /\ j.swap # Nothing => <<j.res, j.swap>> \in signed[p]
    /\ p # Maker => j.res \in {NoTaker, p}
    /\ j.state \notin Terminal
    /\ p = Maker /\ j.state # "POSTING" => advert # "NONE"
    /\ p # Maker /\ j.state # "RESERVING" => res[p].status # "NONE"

LEMMA EarlyFits ==
    ASSUME NEW p \in Parties, NEW j, Early(p, j), Later
    PROVE  Fit(p, j)
BY DEF Early, Fit, Later, Terminal, Parties

LEMMA LoadedIsEarly ==
    ASSUME Inv, NEW p \in Parties, Loads(p) PROVE Early(p, proc[p])
<1>1. p # Maker => p \in Takers
  BY DEF Parties
<1>2. QED  BY <1>1 DEF Inv, JobsSound, JobSound, ShownSound, Typed, Loads, Early

LEMMA RunningIsEarly ==
    ASSUME Inv, NEW p \in Parties, run[p].at # "idle"
    PROVE  /\ Early(p, run[p].job) /\ run[p].res \in Takers /\ run[p] \in Cycles
           /\ run[p].job.res = run[p].res /\ (p # Maker => run[p].res = p)
<1>1. run[p] \in Cycles /\ CycleSound(p)
  BY DEF Inv, Typed, JobsSound
<1>2. /\ run[p].res \in Takers /\ run[p].job.res = run[p].res
      /\ JobSound(p, run[p].job) /\ run[p].job \in Jobs
      /\ res[run[p].res].status # "NONE"
      /\ run[p].job.state \notin Terminal \cup {"POSTING", "RESERVING"}
  BY <1>1 DEF CycleSound, Cycles
<1>3. p # Maker => run[p].res = p
  BY <1>2, PartyAssumption DEF JobSound
<1>4. advert # "NONE"
  BY <1>2 DEF Inv, StoreSound
<1>5. QED  BY <1>1, <1>2, <1>3, <1>4 DEF Early, JobSound

\* A call, with its answer or without.
LEMMA AskStep ==
    ASSUME Inv, NEW p \in Parties, NEW q, NEW saved, NEW done, Good(q),
           Asks(p, q, saved, done), Early(p, saved), Grants(q) => Fit(p, done)
    PROVE  Inv' /\ Unsigned
<1>1. Unsigned
  BY GrantIsStep DEF Asks, Unsigned, Inv, StoreStep
<1>2. \E j \in {saved, done} : Ends(p, j) /\ Fit(p, j)
  BY <1>1, EarlyFits, UnsignedGives DEF Asks
<1>3. wire' \subseteq wire \cup {q} /\ UNCHANGED signed
  BY DEF Asks
<1>4. QED  BY <1>1, <1>2, <1>3, UnsignedGives, Ending, WireStays DEF Inv, Typed

\* The end of a cycle that asked for nothing.
LEMMA RestStep ==
    ASSUME Inv, NEW p \in Parties, NEW j, Ends(p, j), Fit(p, j),
           UNCHANGED <<store, session, signed, wire>>
    PROVE  Inv' /\ Unsigned
<1>1. Unsigned
  BY DEF Unsigned, StoreStep
<1>2. WireSound' /\ wire' \subseteq Requests
  BY DEF Inv, WireSound, Good, Typed
<1>3. QED  BY <1>1, <1>2, UnsignedGives, Ending DEF Inv, Typed

\* Steps that no cycle takes.
LEMMA OutsideStep ==
    ASSUME Inv, UNCHANGED <<durable, run>>, StoreStep, wire' \subseteq wire
    PROVE  Inv' /\ Unsigned
<1>1. Unsigned
  BY DEF Unsigned, durable
<1>2. Later /\ Grows
  BY <1>1, UnsignedGives
<1>3. WireSound' /\ wire' \subseteq Requests
  BY DEF Inv, WireSound, Good, Typed, durable
<1>4. ShownSound'
  BY <1>2, ShownStays DEF Inv, durable
<1>5. JobsSound'
  BY <1>2, CycleStays, JobStays DEF Inv, JobsSound, durable
<1>6. QED  BY <1>1, <1>3, <1>4, <1>5, UnsignedGives DEF Inv, Typed, durable
----------------------------------------------------------------------------
(* The actions of a cycle *)

LEMMA RequestIsGood ==
    ASSUME NEW op \in {"post", "withdraw", "take", "offer", "accept", "finalize-start",
                        "final", "taker-bind", "release"},
           NEW t \in Takers \cup {NoTaker}, NEW blob \in Blobs,
           op \notin {"post", "withdraw"} => t \in Takers,
           op = "final" => <<t, blob>> \in signed[Maker],
           op = "taker-bind" => <<t, blob>> \in signed[t]
    PROVE  Good(Request(op, t, blob))
BY DEF Good, Request, Requests

LEMMA MakerIsParty == Maker \in Parties /\ \A t \in Takers : t \in Parties /\ t # Maker
BY PartyAssumption DEF Parties

\* A job that has taken up what it reads.
LEMMA TurnedIsEarly ==
    ASSUME Inv, NEW p \in Parties, NEW t \in Takers, Reads(p, t)
    PROVE  /\ Early(p, Turned(proc[p], t)) /\ Turned(proc[p], t).res = t
           /\ Turned(proc[p], t).state = proc[p].state
           /\ Turned(proc[p], t).swap = proc[p].swap
           /\ res[t].status # "NONE" /\ (p # Maker => t = p)
           /\ proc[p].state \notin {"POSTING", "RESERVING"}
<1>1. Early(p, proc[p]) /\ proc[p] \in Jobs
  BY LoadedIsEarly DEF Reads, Inv, Typed
<1>2. p # Maker => t = p
  BY DEF Reads
<1>3. res[t].status # "NONE"
  BY <1>1, <1>2 DEF Reads, Early, Open
<1>4. Turned(proc[p], t) \in Jobs
  BY <1>1, NothingIsBlob DEF Turned, Jobs
<1>5. /\ Turned(proc[p], t).res = t
      /\ Turned(proc[p], t).state = proc[p].state
      /\ Turned(proc[p], t).swap = proc[p].swap
  BY <1>1 DEF Turned, Jobs
<1>6. proc[p].swap # Nothing => <<t, proc[p].swap>> \in signed[p]
  BY <1>1, PartyAssumption DEF Reads, Early, Inv, Typed
<1>7. QED  BY <1>1, <1>2, <1>3, <1>4, <1>5, <1>6 DEF Early, Reads

LEMMA RestsStep ==
    ASSUME Inv, NEW p \in Parties, NEW t \in Takers, NEW s, Reads(p, t), Rests(p, t, s),
           s \in Shown \ (Terminal \cup {"POSTING", "RESERVING"})
    PROVE  Inv' /\ Unsigned
<1> DEFINE j == [Turned(proc[p], t) EXCEPT !.state = s]
<1>1. Early(p, j)
  BY TurnedIsEarly DEF Early, Jobs, Shown
<1>2. Ends(p, j) /\ UNCHANGED <<store, session, signed, wire>>
  BY DEF Rests
<1>3. Unsigned
  BY <1>2 DEF Unsigned, StoreStep
<1>4. QED  BY <1>1, <1>2, <1>3, EarlyFits, UnsignedGives, RestStep

LEMMA SeesClosedStep ==
    ASSUME Inv, NEW p \in Parties, SeesClosed(p)
    PROVE  Inv' /\ Unsigned
<1>1. PICK t \in Takers : /\ Reads(p, t) /\ res[t].status # "HELD"
                         /\ Rests(p, t, IF res[t].status = "BOUND" /\ proc[p].swap # res[t].final
                                        THEN proc[p].state ELSE res[t].status)
  BY DEF SeesClosed
<1>2. proc[p].state \in Shown \ (Terminal \cup {"POSTING", "RESERVING"})
  BY <1>1, TurnedIsEarly DEF Reads, Loads, Inv, Typed, Jobs
<1>3. CASE res[t].status = "BOUND" /\ proc[p].swap # res[t].final
  BY <1>1, <1>2, <1>3, RestsStep
<1>4. CASE ~(res[t].status = "BOUND" /\ proc[p].swap # res[t].final)
  <2> DEFINE j == [Turned(proc[p], t) EXCEPT !.state = res[t].status]
  <2>1. Ends(p, j) /\ UNCHANGED <<store, session, signed, wire>>
    BY <1>1, <1>4 DEF Rests
  <2>2. /\ Early(p, Turned(proc[p], t)) /\ Turned(proc[p], t).res = t
        /\ Turned(proc[p], t).state = proc[p].state
        /\ Turned(proc[p], t).swap = proc[p].swap
        /\ res[t].status # "NONE" /\ (p # Maker => t = p)
    BY <1>1, TurnedIsEarly
  <2>3. res[t].status \in {"BOUND", "EXPIRED", "RELEASED"}
    BY <1>1, <2>2 DEF Inv, Typed, Rows
  <2>4. p = Maker => res[t].status = "BOUND" /\ advert # "NONE"
    BY <1>1, <2>3 DEF Reads, Open, Inv, StoreSound
  <2>5. j \in Jobs /\ j.state = res[t].status /\ j.res = t /\ j.swap = proc[p].swap
    BY <2>2, <2>3 DEF Early, Jobs, Shown
  <2>6. UNCHANGED <<advert, res>>
    BY <2>1 DEF store
  <2>7. Fit(p, j)
    <3>1. j.swap # Nothing => <<j.res, j.swap>> \in signed[p]
      BY <2>2, <2>5 DEF Early
    <3> HIDE DEF j
    <3>2. QED  BY <1>4, <2>2, <2>3, <2>4, <2>5, <2>6, <3>1 DEF Fit
  <2> HIDE DEF j
  <2>8. QED  BY <2>1, <2>7, RestStep
<1>5. QED  BY <1>3, <1>4

LEMMA ShowAdvertStep ==
    ASSUME Inv, ShowAdvert
    PROVE  Inv' /\ Unsigned
<1> DEFINE j == [proc[Maker] EXCEPT !.state = advert]
<1>1. Ends(Maker, j) /\ UNCHANGED <<store, session, signed, wire>> /\ Open = {}
  BY DEF ShowAdvert
<1>2. Early(Maker, proc[Maker]) /\ advert # "NONE" /\ UNCHANGED <<advert, res>>
  BY <1>1, LoadedIsEarly, MakerIsParty DEF ShowAdvert, Early, store
<1>3. j \in Jobs /\ j.state = advert /\ j.swap = proc[Maker].swap /\ j.res = proc[Maker].res
  BY <1>2 DEF Early, Inv, Typed, Jobs, Shown
<1>4. advert \in {"ACTIVE", "WITHDRAWN", "EXPIRED"} /\ Open' = {}
  BY <1>1, <1>2 DEF Inv, Typed, Open
<1> HIDE DEF j
<1>5. Fit(Maker, j)
  BY <1>2, <1>3, <1>4 DEF Fit, Early
<1>6. QED  BY <1>1, <1>5, RestStep, MakerIsParty

LEMMA LooksStep ==
    ASSUME Inv, NEW p \in Parties, NEW t \in Takers, Reads(p, t), Looks(p, t)
    PROVE  Inv' /\ Unsigned
<1> DEFINE c == [at |-> "seen", job |-> Turned(proc[p], t), res |-> t, row |-> res[t]]
<1>1. run' = [run EXCEPT ![p] = c] /\ UNCHANGED <<store, proc, session, signed, wire>>
  BY DEF Looks, durable
<1>2. /\ Early(p, Turned(proc[p], t)) /\ Turned(proc[p], t).res = t
      /\ Turned(proc[p], t).state = proc[p].state
      /\ res[t].status # "NONE"
      /\ proc[p].state \notin Terminal \cup {"POSTING", "RESERVING"}
  BY TurnedIsEarly DEF Reads, Loads
<1>3. c \in Cycles
  BY <1>2 DEF Early, Cycles, Inv, Typed
<1>4. run'[p] = c
  BY <1>1 DEF Inv, Typed
<1>5. Unsigned
  BY <1>1 DEF Unsigned, StoreStep
<1>6. UNCHANGED <<advert, res, session, signed>>
  BY <1>1 DEF store
<1>7. CycleSound(p)'
  BY <1>2, <1>4, <1>6 DEF CycleSound, JobSound, Early
<1>8. WireSound' /\ wire' \subseteq Requests
  BY <1>1 DEF Inv, WireSound, Good, Typed
<1> HIDE DEF c
<1>9. QED  BY <1>1, <1>3, <1>5, <1>7, <1>8, Going, UnsignedGives DEF Inv, Typed

LEMMA FailsStep ==
    ASSUME Inv, NEW p \in Parties, run[p].at # "idle", Fails(p)
    PROVE  Inv' /\ Unsigned
<1>1. Unsigned
  BY DEF Fails, Unsigned, StoreStep
<1>2. QED  BY <1>1, RunningIsEarly, EarlyFits, UnsignedGives, RestStep DEF Fails
\* A call of a running cycle after which the job goes on.
LEMMA CallStep ==
    ASSUME Inv, NEW p \in Parties, run[p].at # "idle", NEW q, Good(q),
           NEW s \in Shown \ (Terminal \cup {"POSTING", "RESERVING"}),
           Asks(p, q, run[p].job, [run[p].job EXCEPT !.state = s])
    PROVE  Inv' /\ Unsigned
<1> DEFINE done == [run[p].job EXCEPT !.state = s]
<1>1. /\ Early(p, run[p].job) /\ run[p].res \in Takers /\ (p # Maker => run[p].res = p)
      /\ res[run[p].res].status # "NONE"
  BY RunningIsEarly DEF Inv, JobsSound, CycleSound
<1>2. advert # "NONE"
  BY <1>1 DEF Inv, StoreSound
<1>3. Early(p, done)
  BY <1>1, <1>2 DEF Early, Jobs, Shown
<1> HIDE DEF done
<1>4. Grants(q) => Fit(p, done)
  <2>1. Grants(q) /\ Asks(p, q, run[p].job, done) => Unsigned
    BY GrantIsStep DEF Asks, Unsigned, Inv, StoreStep
  <2>2. QED  BY <1>3, <2>1, EarlyFits, UnsignedGives DEF done
<1>5. QED  BY <1>1, <1>4, AskStep DEF done

LEMMA PostStep ==
    ASSUME Inv, Post
    PROVE  Inv' /\ Unsigned
<1> DEFINE q == Request("post", NoTaker, Nothing)
           done == [proc[Maker] EXCEPT !.state = "ACTIVE"]
<1>1. Good(q)
  BY RequestIsGood, NothingIsBlob
<1>2. Early(Maker, proc[Maker]) /\ Asks(Maker, q, proc[Maker], done)
  BY LoadedIsEarly, MakerIsParty DEF Post
<1>3. ASSUME Grants(q) PROVE advert' # "NONE"
  BY <1>3 DEF Grants, Posts, Withdraws, Reserves, Writes, Request
<1>4. done \in Jobs /\ done.state = "ACTIVE" /\ done.swap = proc[Maker].swap /\ done.res = proc[Maker].res
  BY <1>2 DEF Early, Jobs, Shown
<1> HIDE DEF done, q
<1>5. Grants(q) => Fit(Maker, done)
  BY <1>2, <1>3, <1>4 DEF Fit, Early
<1>6. QED  BY <1>1, <1>2, <1>5, AskStep, MakerIsParty

LEMMA WithdrawStep ==
    ASSUME Inv, Withdraw
    PROVE  Inv' /\ Unsigned
<1> DEFINE q == Request("withdraw", NoTaker, Nothing)
           done == [proc[Maker] EXCEPT !.state = "WITHDRAWN"]
<1>1. Good(q)
  BY RequestIsGood, NothingIsBlob
<1>2. Early(Maker, proc[Maker]) /\ Asks(Maker, q, proc[Maker], done)
  BY LoadedIsEarly, MakerIsParty DEF Withdraw
<1>3. ASSUME Grants(q) PROVE advert' = "WITHDRAWN" /\ Open' = {}
  BY <1>3 DEF Grants, Posts, Withdraws, Reserves, Writes, Request, Available, Open
<1>4. done \in Jobs /\ done.state = "WITHDRAWN" /\ done.swap = proc[Maker].swap /\ done.res = proc[Maker].res
  BY <1>2 DEF Early, Jobs, Shown
<1> HIDE DEF done, q
<1>5. Grants(q) => Fit(Maker, done)
  BY <1>2, <1>3, <1>4 DEF Fit, Early
<1>6. QED  BY <1>1, <1>2, <1>5, AskStep, MakerIsParty

LEMMA TakeStep ==
    ASSUME Inv, NEW t \in Takers, Take(t)
    PROVE  Inv' /\ Unsigned
<1> DEFINE q == Request("take", t, Nothing)
           done == [proc[t] EXCEPT !.state = "HELD", !.res = t]
<1>1. Good(q)
  BY RequestIsGood, NothingIsBlob
<1>2. Early(t, proc[t]) /\ Asks(t, q, proc[t], done)
  BY LoadedIsEarly, MakerIsParty DEF Take
<1>3. ASSUME Grants(q) PROVE res'[t].status # "NONE"
  <2>1. Reserves(q) /\ q.res = t
    BY <1>3 DEF Grants, Posts, Withdraws, Reserves, Writes, Request
  <2>2. CASE res[q.res].status # "NONE" /\ UNCHANGED res
    BY <2>1, <2>2
  <2>3. CASE res' = [res EXCEPT ![q.res] = [NoRow EXCEPT !.status = "HELD"]]
    BY <2>1, <2>3 DEF Inv, Typed, NoRow
  <2>4. QED  BY <2>1, <2>2, <2>3 DEF Reserves
<1>4. done \in Jobs /\ done.state = "HELD" /\ done.swap = proc[t].swap /\ done.res = t
  BY <1>2 DEF Early, Jobs, Shown
<1>5. proc[t].swap # Nothing => <<t, proc[t].swap>> \in signed[t]
  BY <1>2, MakerIsParty, PartyAssumption DEF Early, Inv, Typed
<1> HIDE DEF done, q
<1>6. Grants(q) => Fit(t, done)
  BY <1>2, <1>3, <1>4, <1>5, MakerIsParty DEF Fit
<1>7. QED  BY <1>1, <1>2, <1>6, AskStep, MakerIsParty

LEMMA SendOfferStep ==
    ASSUME Inv, SendOffer
    PROVE  Inv' /\ Unsigned
<1>1. run[Maker].at # "idle" /\ run[Maker].job.blob \in Blobs /\ run[Maker].res \in Takers
  BY RunningIsEarly, MakerIsParty DEF SendOffer, Cycles, Jobs
<1>2. Good(Request("offer", run[Maker].res, run[Maker].job.blob))
  BY <1>1, RequestIsGood
<1>3. "OFFER_CREATED" \in Shown \ (Terminal \cup {"POSTING", "RESERVING"})
  BY DEF Shown, Terminal
<1>4. QED  BY <1>1, <1>2, <1>3, CallStep, MakerIsParty DEF SendOffer

LEMMA StartFinalizationStep ==
    ASSUME Inv, StartFinalization
    PROVE  Inv' /\ Unsigned
<1>1. run[Maker].at # "idle" /\ run[Maker].res \in Takers
  BY RunningIsEarly, MakerIsParty DEF StartFinalization, Agreed, Sees
<1>2. Good(Request("finalize-start", run[Maker].res, Nothing))
  BY <1>1, RequestIsGood, NothingIsBlob
<1>3. "FINALIZATION_STARTED" \in Shown \ (Terminal \cup {"POSTING", "RESERVING"})
  BY DEF Shown, Terminal
<1>4. QED  BY <1>1, <1>2, <1>3, CallStep, MakerIsParty DEF StartFinalization

LEMMA SendFinalStep ==
    ASSUME Inv, SendFinal
    PROVE  Inv' /\ Unsigned
<1>1. /\ run[Maker].at # "idle" /\ run[Maker].job.swap \in Blobs /\ run[Maker].res \in Takers
      /\ run[Maker].job.res = run[Maker].res /\ Early(Maker, run[Maker].job)
      /\ run[Maker].job.swap # Nothing
  BY RunningIsEarly, MakerIsParty
     DEF SendFinal, SendsFinal, Agreed, Sees, Cycles, Jobs, Inv, JobsSound, CycleSound
<1>2. Good(Request("final", run[Maker].res, run[Maker].job.swap))
  BY <1>1, RequestIsGood DEF Early
<1>3. "FINALIZED_MAKER" \in Shown \ (Terminal \cup {"POSTING", "RESERVING"})
  BY DEF Shown, Terminal
<1>4. QED  BY <1>1, <1>2, <1>3, CallStep, MakerIsParty DEF SendFinal

LEMMA SendAcceptStep ==
    ASSUME Inv, NEW t \in Takers, SendAccept(t)
    PROVE  Inv' /\ Unsigned
<1>1. run[t].at # "idle" /\ run[t].job.blob \in Blobs
  BY RunningIsEarly, MakerIsParty DEF SendAccept, Sees, Cycles, Jobs
<1>2. Good(Request("accept", t, run[t].job.blob))
  BY <1>1, RequestIsGood
<1>3. "ACCEPTANCE_CREATED" \in Shown \ (Terminal \cup {"POSTING", "RESERVING"})
  BY DEF Shown, Terminal
<1>4. QED  BY <1>1, <1>2, <1>3, CallStep, MakerIsParty DEF SendAccept

\* The reservation is bound with the swap of the job.
LEMMA SendBindStep ==
    ASSUME Inv, NEW t \in Takers, SendBind(t)
    PROVE  Inv' /\ Unsigned
<1>1. /\ run[t].at # "idle" /\ run[t].job.swap \in Blobs /\ run[t].res = t
      /\ run[t].job.res = t /\ Early(t, run[t].job) /\ run[t].job.swap # Nothing
  BY RunningIsEarly, MakerIsParty
     DEF SendBind, Sees, Cycles, Jobs, Inv, JobsSound, CycleSound
<1>2. CASE run[t].job.swap # run[t].row.final
  BY <1>1, <1>2, FailsStep, MakerIsParty DEF SendBind
<1>3. CASE run[t].job.swap = run[t].row.final
  <2> DEFINE q == Request("taker-bind", t, run[t].job.swap)
             done == [run[t].job EXCEPT !.state = "BOUND"]
  <2>1. Asks(t, q, run[t].job, done)
    BY <1>3 DEF SendBind
  <2>2. Good(q)
    BY <1>1, RequestIsGood DEF Early
  <2>3. done \in Jobs /\ done.state = "BOUND" /\ done.swap = run[t].job.swap /\ done.res = t
    BY <1>1 DEF Early, Jobs, Shown
  <2>4. ASSUME Grants(q) PROVE res'[t].status = "BOUND" /\ res'[t].final = run[t].job.swap
    <3>1. Writes(q) /\ q.op = "taker-bind" /\ q.res = t /\ q.blob = run[t].job.swap
      BY <2>4 DEF Grants, Posts, Withdraws, Reserves, Writes, Request
    <3>2. res[t].final = run[t].job.swap /\ res' = [res EXCEPT ![t] = [res[t] EXCEPT !.status = "BOUND"]]
      BY <3>1 DEF Writes, Fits, Filled
    <3>3. QED  BY <3>2 DEF Inv, Typed, Rows
  <2> HIDE DEF q, done
  <2>5. Grants(q) => Fit(t, done)
    BY <1>1, <2>3, <2>4, MakerIsParty DEF Fit, Early
  <2>6. QED  BY <1>1, <2>1, <2>2, <2>5, AskStep, MakerIsParty
<1>4. QED  BY <1>2, <1>3
----------------------------------------------------------------------------
(* Steps that sign, or make what is to be signed *)

LEMMA SignStep ==
    ASSUME Inv, NEW p \in Parties, NEW c \in Cycles, run' = [run EXCEPT ![p] = c],
           UNCHANGED <<store, proc, wire>>,
           session' \in [Takers -> Sessions],
           signed' \in [Parties -> SUBSET (Takers \X Blobs)],
           Grows, SignedSound', CycleSound(p)'
    PROVE  Inv'
<1>1. UNCHANGED <<advert, res, proc, wire>>
  BY DEF store
<1>2. Later
  BY <1>1 DEF Later, Open
<1>3. StoreSound'
  BY <1>1 DEF Inv, StoreSound, Open
<1>4. RowsSound'
  BY <1>1 DEF Inv, RowsSound, Grows, Parties
<1>5. WireSound'
  BY <1>1 DEF Inv, WireSound, Good, Grows, Parties, Typed
<1>6. QED  BY <1>1, <1>2, <1>3, <1>4, <1>5, Going DEF Inv, Typed

\* Nothing is signed, and only offers and acceptances are new in a session.
LEMMA MadeStep ==
    ASSUME Inv, NEW p \in Parties, run[p].at = "seen", NEW t \in Takers,
           NEW j \in Jobs, NEW s \in Sessions, s.final = session[t].final,
           j.swap = run[p].job.swap, j.res = run[p].job.res, j.state = run[p].job.state,
           session' = [session EXCEPT ![t] = s], Continues(p, "made", j),
           UNCHANGED <<store, proc, signed, wire>>
    PROVE  Inv'
<1> DEFINE c == [run[p] EXCEPT !.at = "made", !.job = j]
<1>1. run[p] \in Cycles /\ run \in [Parties -> Cycles] /\ session \in [Takers -> Sessions]
  BY DEF Inv, Typed
<1>2. run' = [run EXCEPT ![p] = c] /\ c \in Cycles
  BY <1>1 DEF Continues, Cycles
<1>3. /\ run'[p].at = "made" /\ run'[p].job = j /\ run'[p].res = run[p].res
      /\ run'[p].row = run[p].row
  BY <1>1, <1>2 DEF Cycles
<1>4. session' \in [Takers -> Sessions] /\ \A u \in Takers : session'[u].final = session[u].final
  BY <1>1
<1>5. UNCHANGED <<advert, res, signed>>
  BY DEF store
<1>6. Grows
  BY <1>4, <1>5 DEF Grows
<1>7. SignedSound'
  BY <1>4, <1>5, MakerIsParty DEF Inv, SignedSound, Typed
<1>8. CycleSound(p)'
  BY <1>3, <1>5 DEF Inv, JobsSound, CycleSound, JobSound
<1>9. signed' \in [Parties -> SUBSET (Takers \X Blobs)]
  BY <1>5 DEF Inv, Typed
<1> HIDE DEF c
<1>10. QED  BY <1>2, <1>4, <1>6, <1>7, <1>8, <1>9, SignStep

LEMMA MakeOfferStep ==
    ASSUME Inv, MakeOffer
    PROVE  Inv' /\ UNCHANGED <<store, signed>>
<1> DEFINE t == run[Maker].res
           s == [session[t] EXCEPT !.offer = OfferFor(t)]
           j == [run[Maker].job EXCEPT !.blob = OfferFor(t)]
<1>1. t \in Takers /\ run[Maker].at = "seen" /\ run[Maker].job \in Jobs
  BY RunningIsEarly, MakerIsParty DEF MakeOffer, Sees, Early
<1>2. session[t] \in Sessions
  BY <1>1 DEF Inv, Typed
<1>3. OfferFor(t) \in Blobs
  BY <1>2 DEF OfferFor, Sessions, Blobs
<1>4. s \in Sessions /\ s.final = session[t].final
  BY <1>2, <1>3 DEF Sessions
<1>5. /\ j \in Jobs /\ j.swap = run[Maker].job.swap
      /\ j.res = run[Maker].job.res /\ j.state = run[Maker].job.state
  BY <1>1, <1>3 DEF Jobs
<1>6. /\ session' = [session EXCEPT ![t] = s] /\ Continues(Maker, "made", j)
      /\ UNCHANGED <<store, proc, signed, wire>>
  BY <1>1 DEF MakeOffer
<1> HIDE DEF s, j, t
<1>7. QED  BY <1>1, <1>4, <1>5, <1>6, MadeStep, MakerIsParty

LEMMA MakeAcceptStep ==
    ASSUME Inv, NEW t \in Takers, MakeAccept(t)
    PROVE  Inv' /\ UNCHANGED <<store, signed>>
<1> DEFINE a == IF session[t].accept = Nothing THEN Append(run[t].row.offer, 1)
                ELSE session[t].accept
           s == [session[t] EXCEPT !.accept = a]
           j == [run[t].job EXCEPT !.blob = a]
<1>1. run[t].at = "seen" /\ run[t].job \in Jobs /\ run[t].row \in Rows
  BY RunningIsEarly, MakerIsParty DEF MakeAccept, Sees, Early, Cycles
<1>2. session[t] \in Sessions
  BY DEF Inv, Typed
<1>3. a \in Blobs
  BY <1>1, <1>2 DEF Sessions, Rows, Blobs
<1>4. s \in Sessions /\ s.final = session[t].final
  BY <1>2, <1>3 DEF Sessions
<1>5. /\ j \in Jobs /\ j.swap = run[t].job.swap
      /\ j.res = run[t].job.res /\ j.state = run[t].job.state
  BY <1>1, <1>3 DEF Jobs
<1>6. /\ session' = [session EXCEPT ![t] = s] /\ Continues(t, "made", j)
      /\ UNCHANGED <<store, proc, signed, wire>>
  BY DEF MakeAccept
<1> HIDE DEF s, j, a
<1>7. QED  BY <1>1, <1>4, <1>5, <1>6, MadeStep, MakerIsParty

LEMMA PinFinalStep ==
    ASSUME Inv, PinFinal
    PROVE  Inv' /\ UNCHANGED <<store, signed>>
<1> DEFINE t == run[Maker].res
           f == FinalFor(t, run[Maker].row.accept)
           s == [session[t] EXCEPT !.final = f]
           c == [run[Maker] EXCEPT !.at = "pinned"]
<1>1. /\ t \in Takers /\ run[Maker].at = "seen" /\ run[Maker] \in Cycles
      /\ run[Maker].row.started
  BY RunningIsEarly, MakerIsParty DEF PinFinal, Agreed, Sees
<1>2. session[t] \in Sessions /\ session \in [Takers -> Sessions] /\ run \in [Parties -> Cycles]
  BY <1>1 DEF Inv, Typed
<1>3. CASE Fails(Maker)
  BY <1>1, <1>3, FailsStep, MakerIsParty DEF Fails, store, Inv, Typed
<1>4. CASE /\ session' = [session EXCEPT ![t].final = f]
           /\ Continues(Maker, "pinned", run[Maker].job)
           /\ UNCHANGED <<store, proc, signed, wire, lapsed, budget>>
  <2>1. run[Maker].row.accept \in Seq(Nat)
    BY <1>1 DEF Cycles, Rows, Blobs
  <2>2. f \in Blobs /\ f # Nothing /\ (session[t].final # Nothing => f = session[t].final)
    BY <1>2, <2>1, AppendGives DEF FinalFor, Sessions, Blobs, Nothing
  <2>3. s \in Sessions /\ s.final = f /\ session' = [session EXCEPT ![t] = s]
    BY <1>2, <1>4, <2>2 DEF Sessions
  <2> HIDE DEF f, s
  <2>4. /\ session' \in [Takers -> Sessions] /\ session'[t].final = f
        /\ \A u \in Takers : u # t => session'[u] = session[u]
    BY <1>1, <1>2, <2>3
  <2>5. UNCHANGED <<advert, res, signed>>
    BY <1>4 DEF store
  <2>6. Grows
    BY <2>2, <2>4, <2>5 DEF Grows
  <2>7. res[t].started
    BY <1>1, MakerIsParty DEF Inv, JobsSound, CycleSound
  <2>8. SignedSound'
    <3>1. (\A u \in Takers : session[u].final # Nothing => res[u].started)'
      BY <2>4, <2>5, <2>7 DEF Inv, SignedSound
    <3>2. (\A x \in signed[Maker] : x[2] # Nothing /\ x[2] = session[x[1]].final)'
      BY <2>4, <2>5, <2>6, MakerIsParty DEF Inv, SignedSound, Typed, Grows
    <3>3. (\A u \in Takers : \A x \in signed[u] : x[1] = u /\ x \in signed[Maker])'
      BY <2>5 DEF Inv, SignedSound
    <3>4. QED  BY <3>1, <3>2, <3>3 DEF SignedSound
  <2>9. run' = [run EXCEPT ![Maker] = c] /\ c \in Cycles
    BY <1>1, <1>2, <1>4 DEF Continues, Cycles
  <2>10. /\ run'[Maker].at = "pinned" /\ run'[Maker].job = run[Maker].job
         /\ run'[Maker].res = t /\ run'[Maker].row = run[Maker].row
    BY <1>1, <1>2, <2>9, MakerIsParty DEF Cycles
  <2> HIDE DEF c
  <2>11. CycleSound(Maker)'
    <3>1. CycleSound(Maker)
      BY MakerIsParty DEF Inv, JobsSound
    <3>2. session'[run'[Maker].res].final # Nothing
      BY <2>2, <2>4, <2>10
    <3>3. QED  BY <1>1, <2>5, <2>10, <3>1, <3>2 DEF CycleSound, JobSound
  <2>12. signed' \in [Parties -> SUBSET (Takers \X Blobs)]
    BY <2>5 DEF Inv, Typed
  <2>13. QED  BY <1>4, <2>4, <2>6, <2>8, <2>9, <2>11, <2>12, SignStep, MakerIsParty
<1>5. QED  BY <1>3, <1>4 DEF PinFinal
LEMMA SignedGives ==
    ASSUME Inv, NEW x \in signed[Maker]
    PROVE  /\ x[1] \in Open /\ res[x[1]].started
           /\ x = <<x[1], session[x[1]].final>>
<1>1. x \in Takers \X Blobs
  BY MakerIsParty DEF Inv, Typed
<1>2. x[1] \in Takers /\ x = <<x[1], x[2]>>
  BY <1>1
<1>3. res[x[1]].started /\ x[2] = session[x[1]].final
  BY <1>2 DEF Inv, SignedSound
<1>4. QED  BY <1>2, <1>3 DEF Inv, StoreSound, Open

\* The maker signs what it has signed before, or its first swap.
LEMMA MakerSignsStep ==
    ASSUME Inv, MakerSigns
    PROVE  /\ Inv'
           /\ UNCHANGED store
           /\ \/ UNCHANGED signed
              \/ \E x : /\ signed[Maker] = {} /\ signed' = [signed EXCEPT ![Maker] = {x}]
                        /\ \E t \in Open : res[t].started
<1> DEFINE t == run[Maker].res
           f == session[t].final
           c == [run[Maker] EXCEPT !.at = "signed", !.job = [run[Maker].job EXCEPT !.swap = f]]
<1>1. /\ t \in Takers /\ run[Maker].at = "pinned" /\ run[Maker] \in Cycles
      /\ run[Maker].job.res = t /\ f # Nothing
  BY RunningIsEarly, MakerIsParty DEF MakerSigns, Inv, JobsSound, CycleSound
<1>2. /\ run \in [Parties -> Cycles] /\ signed \in [Parties -> SUBSET (Takers \X Blobs)]
      /\ f \in Blobs /\ session \in [Takers -> Sessions]
  BY <1>1 DEF Inv, Typed, Sessions
<1>3. /\ signed' = [signed EXCEPT ![Maker] = signed[Maker] \cup {<<t, f>>}]
      /\ UNCHANGED <<store, proc, session, wire>>
      /\ run' = [run EXCEPT ![Maker] = c]
  BY <1>2 DEF MakerSigns, Continues
<1>4. res[t].started /\ t \in Open
  BY <1>1 DEF Inv, SignedSound, StoreSound, Open
<1>5. \A x \in signed[Maker] : x = <<t, f>>
  BY <1>4, SignedGives DEF Inv, StoreSound
<1>6. \/ UNCHANGED signed
      \/ signed[Maker] = {} /\ signed' = [signed EXCEPT ![Maker] = {<<t, f>>}]
  <2>1. CASE <<t, f>> \in signed[Maker]
    BY <1>2, <1>3, <2>1, MakerIsParty
  <2>2. CASE <<t, f>> \notin signed[Maker]
    BY <1>3, <1>5, <2>2
  <2>3. QED  BY <2>1, <2>2
<1>7. /\ signed'[Maker] = signed[Maker] \cup {<<t, f>>}
      /\ \A u \in Takers : signed'[u] = signed[u]
  BY <1>2, <1>3, MakerIsParty
<1>8. Grows
  BY <1>3, <1>7 DEF Grows, Parties
<1>9. SignedSound'
  <2>1. UNCHANGED <<advert, res, session>>
    BY <1>3 DEF store
  <2>2. (\A x \in signed[Maker] : x[2] # Nothing /\ x[2] = session[x[1]].final)'
    BY <1>1, <1>7, <2>1 DEF Inv, SignedSound
  <2>3. QED  BY <1>7, <2>1, <2>2 DEF Inv, SignedSound
<1>10. c \in Cycles /\ signed' \in [Parties -> SUBSET (Takers \X Blobs)]
  <2>1. c \in Cycles
    BY <1>1, <1>2 DEF Cycles, Jobs
  <2>2. {<<t, f>>} \in SUBSET (Takers \X Blobs)
    BY <1>1, <1>2
  <2> HIDE DEF f, t, c
  <2>3. QED  BY <1>2, <1>6, <2>1, <2>2
<1>11. /\ run'[Maker].at = "signed" /\ run'[Maker].res = t /\ run'[Maker].row = run[Maker].row
       /\ run'[Maker].job.res = t /\ run'[Maker].job.swap = f
       /\ run'[Maker].job.state = run[Maker].job.state
  <2>1. run'[Maker] = c /\ run[Maker].res = t /\ run[Maker].job \in Jobs
    BY <1>1, <1>2, <1>3, MakerIsParty DEF Cycles
  <2> HIDE DEF f, t
  <2>2. QED  BY <1>1, <2>1 DEF Cycles, Jobs
<1> HIDE DEF c, f, t
<1>12. CycleSound(Maker)'
  <2>1. UNCHANGED <<advert, res, session>>
    BY <1>3 DEF store
  <2>2. CycleSound(Maker) /\ run[Maker].res = t
    BY MakerIsParty DEF Inv, JobsSound, t
  <2>3. QED  BY <1>1, <1>7, <1>11, <2>1, <2>2 DEF CycleSound, JobSound
<1>13. Inv'
  BY <1>2, <1>3, <1>8, <1>9, <1>10, <1>12, SignStep, MakerIsParty
<1>14. QED  BY <1>3, <1>4, <1>6, <1>13

\* A taker signs what the maker has signed.
LEMMA TakerSignsStep ==
    ASSUME Inv, NEW t \in Takers, TakerSigns(t)
    PROVE  /\ Inv'
           /\ UNCHANGED store
           /\ \/ UNCHANGED signed
              \/ /\ t \in Open /\ res[t].started /\ signed[Maker] # {}
                 /\ signed' = [signed EXCEPT ![t] = signed[Maker]]
<1> DEFINE f == run[t].row.final
           c == [run[t] EXCEPT !.at = "signed", !.job = [run[t].job EXCEPT !.swap = f]]
<1>1. /\ run[t].res = t /\ run[t].at = "seen" /\ run[t] \in Cycles
      /\ run[t].job.res = t /\ f # Nothing /\ res[t].final = f
  BY RunningIsEarly, MakerIsParty DEF TakerSigns, Sees, Inv, JobsSound, CycleSound
<1>2. CASE Fails(t)
  BY <1>1, <1>2, FailsStep, MakerIsParty DEF Fails, store, Inv, Typed
<1>3. CASE ~Fails(t)
  <2>1. /\ run \in [Parties -> Cycles] /\ signed \in [Parties -> SUBSET (Takers \X Blobs)]
        /\ f \in Blobs /\ session \in [Takers -> Sessions] /\ t \in Parties
    BY <1>1, MakerIsParty DEF Inv, Typed, Cycles, Rows
  <2>2. /\ signed' = [signed EXCEPT ![t] = signed[t] \cup {<<t, f>>}]
        /\ UNCHANGED <<store, proc, session, wire>>
        /\ run' = [run EXCEPT ![t] = c]
    BY <1>3, <2>1 DEF TakerSigns, Continues
  <2>3. <<t, f>> \in signed[Maker]
    BY <1>1 DEF Inv, RowsSound
  <2>4. t \in Open /\ res[t].started /\ \A x \in signed[Maker] : x = <<t, f>>
    BY <2>3, SignedGives DEF Inv, StoreSound
  <2>5. signed[Maker] = {<<t, f>>} /\ signed[t] \subseteq signed[Maker]
    BY <2>3, <2>4 DEF Inv, SignedSound
  <2>6. signed' = [signed EXCEPT ![t] = signed[Maker]]
    BY <2>2, <2>5
  <2>7. /\ signed'[t] = {<<t, f>>} /\ signed'[Maker] = signed[Maker]
        /\ \A u \in Takers : u # t => signed'[u] = signed[u]
    BY <2>1, <2>5, <2>6, MakerIsParty
  <2>8. Grows
    BY <2>2, <2>5, <2>7 DEF Grows, Parties
  <2>9. UNCHANGED <<advert, res, session>>
    BY <2>2 DEF store
  <2>10. SignedSound'
    BY <2>3, <2>7, <2>9 DEF Inv, SignedSound
  <2>11. c \in Cycles /\ signed' \in [Parties -> SUBSET (Takers \X Blobs)]
    BY <1>1, <2>1, <2>6, MakerIsParty DEF Cycles, Jobs
  <2>12. /\ run'[t].at = "signed" /\ run'[t].res = t /\ run'[t].row = run[t].row
         /\ run'[t].job.res = t /\ run'[t].job.swap = f
         /\ run'[t].job.state = run[t].job.state
    BY <1>1, <2>1, <2>2 DEF Cycles, Jobs
  <2> HIDE DEF c, f
  <2>13. CycleSound(t)'
    <3>1. CycleSound(t)
      BY <2>1 DEF Inv, JobsSound
    <3>2. QED  BY <1>1, <2>7, <2>9, <2>12, <3>1 DEF CycleSound, JobSound
  <2>14. Inv'
    BY <2>1, <2>2, <2>8, <2>10, <2>11, <2>13, SignStep
  <2>15. QED  BY <2>2, <2>4, <2>5, <2>6, <2>14
<1>4. QED  BY <1>2, <1>3
----------------------------------------------------------------------------
(* All steps *)

\* A step that signs nothing, or one by which the maker or a taker signs.
Quiet == StoreStep /\ UNCHANGED signed
MakerSigned ==
    /\ UNCHANGED store
    /\ \E x : signed[Maker] = {} /\ signed' = [signed EXCEPT ![Maker] = {x}]
    /\ \E t \in Open : res[t].started
TakerSigned ==
    /\ UNCHANGED store
    /\ \E t \in Open : /\ res[t].started /\ signed[Maker] # {}
                      /\ signed' = [signed EXCEPT ![t] = signed[Maker]]

LEMMA MakerSteps ==
    ASSUME Inv, MakerStep
    PROVE  Inv' /\ (Quiet \/ MakerSigned)
<1>1. CASE MakerSigns
  BY <1>1, MakerSignsStep DEF Quiet, StoreStep, MakerSigned
<1>2. CASE MakeOffer \/ PinFinal
  BY <1>2, MakeOfferStep, PinFinalStep DEF Quiet, StoreStep
<1>3. CASE Post \/ Withdraw \/ SendOffer \/ StartFinalization \/ SendFinal
  BY <1>3, PostStep, WithdrawStep, SendOfferStep, StartFinalizationStep, SendFinalStep
     DEF Quiet, Unsigned
<1>4. CASE SeesClosed(Maker) \/ ShowAdvert
  BY <1>4, SeesClosedStep, ShowAdvertStep, MakerIsParty DEF Quiet, Unsigned
<1>5. CASE MakerLooks
  BY <1>5, LooksStep, MakerIsParty DEF MakerLooks, Quiet, Unsigned
<1>6. CASE AwaitAccept
  <2>1. PICK t \in Takers : /\ Reads(Maker, t)
                           /\ \/ Rests(Maker, t, "OFFER_CREATED")
                              \/ Rests(Maker, t, proc[Maker].state)
    BY <1>6 DEF AwaitAccept
  <2>2. {"OFFER_CREATED", proc[Maker].state} \subseteq
           Shown \ (Terminal \cup {"POSTING", "RESERVING"})
    BY <2>1, TurnedIsEarly, MakerIsParty DEF Reads, Loads, Inv, Typed, Jobs, Shown, Terminal
  <2>3. QED  BY <2>1, <2>2, RestsStep, MakerIsParty DEF Quiet, Unsigned
<1>7. QED  BY <1>1, <1>2, <1>3, <1>4, <1>5, <1>6 DEF MakerStep

LEMMA TakerSteps ==
    ASSUME Inv, NEW t \in Takers, TakerStep(t)
    PROVE  Inv' /\ (Quiet \/ TakerSigned)
<1>1. CASE TakerSigns(t)
  BY <1>1, TakerSignsStep DEF Quiet, StoreStep, TakerSigned
<1>2. CASE MakeAccept(t)
  BY <1>2, MakeAcceptStep DEF Quiet, StoreStep
<1>3. CASE Take(t) \/ SendAccept(t) \/ SendBind(t)
  BY <1>3, TakeStep, SendAcceptStep, SendBindStep DEF Quiet, Unsigned
<1>4. CASE SeesClosed(t)
  BY <1>4, SeesClosedStep, MakerIsParty DEF Quiet, Unsigned
<1>5. CASE TakerLooks(t)
  BY <1>5, LooksStep, MakerIsParty DEF TakerLooks, Quiet, Unsigned
<1>6. CASE Awaits(t)
  <2>1. /\ Reads(t, t)
        /\ \E s \in {"WAITING_MAKER", "ACCEPTANCE_CREATED", proc[t].state} : Rests(t, t, s)
    BY <1>6 DEF Awaits
  <2>2. {"WAITING_MAKER", "ACCEPTANCE_CREATED", proc[t].state} \subseteq
           Shown \ (Terminal \cup {"POSTING", "RESERVING"})
    BY <2>1, TurnedIsEarly, MakerIsParty DEF Reads, Loads, Inv, Typed, Jobs, Shown, Terminal
  <2>3. QED  BY <2>1, <2>2, RestsStep, MakerIsParty DEF Quiet, Unsigned
<1>7. QED  BY <1>1, <1>2, <1>3, <1>4, <1>5, <1>6 DEF TakerStep

LEMMA CrashStep ==
    ASSUME Inv, NEW p \in Parties, Crash(p)
    PROVE  Inv' /\ Unsigned
<1>1. run' = [run EXCEPT ![p] = Idle] /\ UNCHANGED <<store, proc, session, signed, wire>>
  BY DEF Crash, durable
<1>2. Unsigned
  BY <1>1 DEF Unsigned, StoreStep
<1>3. run'[p] = Idle
  BY <1>1 DEF Inv, Typed
<1>4. CycleSound(p)'
  BY <1>3 DEF CycleSound, Idle
<1>5. WireSound' /\ wire' \subseteq Requests
  BY <1>1 DEF Inv, WireSound, Good, Typed
<1>6. QED  BY <1>1, <1>2, <1>4, <1>5, IdleTyped, Going, UnsignedGives DEF Inv, Typed

LEMMA AskWithdrawStep ==
    ASSUME Inv, AskWithdraw
    PROVE  Inv' /\ Unsigned
<1> DEFINE j == [proc[Maker] EXCEPT !.withdraw = TRUE]
<1>1. /\ proc' = [proc EXCEPT ![Maker] = j]
      /\ UNCHANGED <<store, session, signed, run, wire>>
      /\ run[Maker].at = "idle"
  BY DEF AskWithdraw, Loads
<1>2. Early(Maker, proc[Maker]) /\ proc \in [Parties -> Jobs]
  BY LoadedIsEarly, MakerIsParty DEF AskWithdraw, Inv, Typed
<1>3. /\ j \in Jobs /\ j.state = proc[Maker].state /\ j.swap = proc[Maker].swap
      /\ j.res = proc[Maker].res
  BY <1>2 DEF Early, Jobs
<1> HIDE DEF j
<1>4. /\ proc'[Maker] = j /\ \A u \in Takers : proc'[u] = proc[u]
      /\ proc' \in [Parties -> Jobs]
  BY <1>1, <1>2, <1>3, MakerIsParty
<1>5. Unsigned
  BY <1>1 DEF Unsigned, StoreStep
<1>6. UNCHANGED <<advert, res, Open>>
  BY <1>1 DEF store, Open
<1>7. ShownSound'
  BY <1>3, <1>4, <1>6, MakerIsParty DEF Inv, ShownSound, Parties
<1>8. JobsSound'
  <2>1. \A u \in Parties : CycleSound(u)'
    BY <1>1, <1>5, CycleStays, UnsignedGives DEF Inv, JobsSound
  <2>2. \A u \in Parties : JobSound(u, proc[u])'
    BY <1>1, <1>3, <1>4 DEF Inv, JobsSound, JobSound, Parties
  <2>3. QED  BY <2>1, <2>2 DEF JobsSound
<1>9. WireSound' /\ wire' \subseteq Requests
  BY <1>1 DEF Inv, WireSound, Good, Typed
<1>10. QED  BY <1>1, <1>4, <1>5, <1>7, <1>8, <1>9, UnsignedGives DEF Inv, Typed

LEMMA AroundSteps ==
    ASSUME Inv, ServeLate \/ Expire \/ \E t \in Takers : Release(t) \/ Lapse(t)
    PROVE  Inv' /\ Unsigned
<1>1. CASE ServeLate
  <2>1. PICK q \in wire : /\ Grants(q) \/ UNCHANGED store
                         /\ wire' = wire \ {q} /\ UNCHANGED <<durable, run>>
    BY <1>1 DEF ServeLate
  <2>2. StoreStep
    BY <2>1, GrantIsStep DEF Inv, WireSound, StoreStep
  <2>3. QED  BY <2>1, <2>2, OutsideStep
<1>2. CASE Expire
  BY <1>2, ExpiryIsStep, OutsideStep DEF Expire, Inv
<1>3. ASSUME NEW t \in Takers, Release(t) PROVE Inv' /\ Unsigned
  <2>1. Good(Request("release", t, Nothing))
    BY RequestIsGood, NothingIsBlob
  <2>2. QED  BY <1>3, <2>1, GrantIsStep, OutsideStep DEF Release, Inv
<1>4. ASSUME NEW t \in Takers, Lapse(t) PROVE Inv' /\ Unsigned
  BY <1>4, OutsideStep DEF Lapse, StoreStep
<1>5. QED  BY <1>1, <1>2, <1>3, <1>4

LEMMA StepInv ==
    ASSUME Inv, [Next]_vars
    PROVE  Inv' /\ (Quiet \/ MakerSigned \/ TakerSigned)
<1>1. CASE MakerStep
  BY <1>1, MakerSteps
<1>2. CASE \E t \in Takers : TakerStep(t)
  BY <1>2, TakerSteps
<1>3. CASE AskWithdraw \/ \E p \in Parties : Crash(p)
  BY <1>3, AskWithdrawStep, CrashStep DEF Quiet, Unsigned
<1>4. CASE ServeLate \/ Expire \/ \E t \in Takers : Release(t) \/ Lapse(t)
  BY <1>4, AroundSteps DEF Quiet, Unsigned
<1>5. CASE UNCHANGED vars
  BY <1>5, OutsideStep DEF vars, Quiet, Unsigned, StoreStep
<1>6. QED  BY <1>1, <1>2, <1>3, <1>4, <1>5 DEF Next

LEMMA InitInv == Init => Inv
<1> SUFFICES ASSUME Init PROVE Inv
  OBVIOUS
<1>1. NoRow \in Rows /\ [offer |-> Nothing, accept |-> Nothing, final |-> Nothing] \in Sessions
  BY NothingIsBlob DEF NoRow, Rows, Sessions
<1>2. /\ advert = "NONE" /\ wire = {}
      /\ \A t \in Takers : res[t] = NoRow /\ session[t].final = Nothing
      /\ \A p \in Parties : proc[p] = NewJob(p) /\ signed[p] = {} /\ run[p] = Idle
  BY DEF Init, StoreInit
<1>3. Typed
  BY <1>1, IdleTyped DEF Typed, Init, StoreInit
<1>4. Open = {}
  BY <1>2 DEF Open, NoRow
<1>5. StoreSound /\ SignedSound /\ RowsSound /\ WireSound
  BY <1>2, <1>4, MakerIsParty DEF StoreSound, SignedSound, RowsSound, WireSound, NoRow
<1>6. JobsSound
  <2>1. ASSUME NEW p \in Parties
        PROVE  proc[p].swap = Nothing /\ proc[p].res = NoTaker /\ run[p].at = "idle"
    <3>1. proc[p] = NewJob(p) /\ run[p] = Idle
      BY <1>2
    <3>2. NewJob(p).swap = Nothing /\ NewJob(p).res = NoTaker
      BY DEF NewJob
    <3>3. Idle.at = "idle"
      BY DEF Idle
    <3>4. QED  BY <3>1, <3>2, <3>3
  <2>2. \A p \in Parties : JobSound(p, proc[p])
    BY <2>1 DEF JobSound
  <2>3. \A p \in Parties : CycleSound(p)
    BY <2>1 DEF CycleSound
  <2>4. QED  BY <2>2, <2>3 DEF JobsSound
<1>7. ShownSound
  <2>1. proc[Maker].state = "POSTING" /\ \A t \in Takers : proc[t].state = "RESERVING"
    <3>1. /\ NewJob(Maker).state = "POSTING"
          /\ \A t \in Takers : NewJob(t).state = "RESERVING"
      BY MakerIsParty DEF NewJob
    <3>2. QED  BY <1>2, <3>1, MakerIsParty
  <2>2. \A p \in Parties : proc[p].state # "BOUND"
    BY <2>1 DEF Parties
  <2>3. QED  BY <2>1, <2>2 DEF ShownSound
<1>8. QED  BY <1>3, <1>5, <1>6, <1>7 DEF Inv

LEMMA AlwaysInv == Spec => []Inv
BY InitInv, StepInv, PTL DEF Spec

----------------------------------------------------------------------------
(* What follows *)

\* What a process shows when it is done is the truth, whatever was lost: bound means that
\* both parties signed this swap and the market has it, anything else that nothing was
\* signed.
THEOREM ProcessesTellTheTruth == Spec => []ToldTruly
<1>1. Inv => ToldTruly
  <2> SUFFICES ASSUME Inv PROVE ToldTruly
    OBVIOUS
  <2>1. ASSUME NEW p \in Parties, proc[p].state = "BOUND"
        PROVE  LET t == proc[p].res
               IN  /\ res[t].status = "BOUND" /\ res[t].final = proc[p].swap
                   /\ <<t, proc[p].swap>> \in signed[Maker] \cap signed[t]
    BY <2>1 DEF Inv, ShownSound, RowsSound, SignedSound
  <2>2. ASSUME NEW t \in Takers, proc[t].state \in {"EXPIRED", "RELEASED"}
        PROVE  /\ signed[t] = {} /\ ~res[t].started
               /\ \A s \in signed[Maker] : s[1] # t
    <3>1. ~res[t].started
      BY <2>2 DEF Inv, ShownSound, StoreSound
    <3>2. \A s \in signed[Maker] : s[1] # t
      BY <3>1, SignedGives
    <3>3. signed[t] = {}
      BY <3>2 DEF Inv, SignedSound
    <3>4. QED  BY <3>1, <3>2, <3>3
  <2>3. ASSUME proc[Maker].state \in {"EXPIRED", "WITHDRAWN"}
        PROVE  signed[Maker] = {} /\ Open = {} /\ advert # "ACTIVE"
    BY <2>3, SignedGives DEF Inv, ShownSound
  <2>4. QED  BY <2>1, <2>2, <2>3 DEF ToldTruly
<1>2. QED  BY <1>1, AlwaysInv, PTL

Sealed == \E t \in Open : res[t].started
Bound == \E t \in Takers : res[t].status = "BOUND"

LEMMA HolderIs ==
    /\ Open = {} => Holder = NoTaker
    /\ \A t : Open = {t} => Holder = t
    /\ Open' = {} => Holder' = NoTaker
    /\ \A t : Open' = {t} => Holder' = t
BY DEF Holder

LEMMA OpenIs ==
    ASSUME Inv, NEW t \in Open PROVE Open = {t} /\ Holder = t /\ Holder # NoTaker
BY HolderIs, PartyAssumption DEF Inv, StoreSound, Open

\* With the rows the same, so is all that the deal sees of them.
LEMMA SameView ==
    ASSUME UNCHANGED res PROVE UNCHANGED <<Open, Holder, Sealed, Bound>>
<1>1. UNCHANGED Open
  BY DEF Open
<1>2. UNCHANGED Holder
  BY <1>1 DEF Holder
<1>3. UNCHANGED <<Sealed, Bound>>
  BY <1>1 DEF Sealed, Bound
<1>4. QED  BY <1>1, <1>2, <1>3

\* What the maker and the takers sign.
LEMMA SigningImplements ==
    ASSUME Inv, MakerSigned \/ TakerSigned
    PROVE  MD!DealNext
<1>1. UNCHANGED <<advert, res>> /\ Sealed
  BY DEF MakerSigned, TakerSigned, store, Sealed
<1>2. UNCHANGED <<advert, Holder, Sealed, Bound>>
  BY <1>1, SameView
<1>3. signed \in [Parties -> SUBSET (Takers \X Blobs)]
  BY DEF Inv, Typed
<1>4. CASE MakerSigned
  <2>1. PICK x : signed[Maker] = {} /\ signed' = [signed EXCEPT ![Maker] = {x}]
    BY <1>4 DEF MakerSigned
  <2>2. signed'[Maker] = {x}
    BY <1>3, <2>1, MakerIsParty
  <2>3. MD!MakerSigns
    BY <1>1, <1>2, <2>1, <2>2 DEF MD!MakerSigns, Sealed, Bound
  <2>4. QED  BY <2>3 DEF MD!DealNext
<1>5. CASE TakerSigned
  <2>1. PICK t \in Open : signed[Maker] # {} /\ signed' = [signed EXCEPT ![t] = signed[Maker]]
    BY <1>5 DEF TakerSigned
  <2>2. Holder = t
    BY OpenIs
  <2>3. MD!TakerSigns
    BY <1>1, <1>2, <2>1, <2>2 DEF MD!TakerSigns, Sealed, Bound
  <2>4. QED  BY <2>3 DEF MD!DealNext
<1>6. QED  BY <1>4, <1>5

\* What the deal sees when the row of t becomes r.
LEMMA RowView ==
    ASSUME Inv, StoreSound', NEW t \in Takers, NEW r \in Rows,
           res' = [res EXCEPT ![t] = r], RowStep(t, r)
    PROVE  /\ r.status \in {"HELD", "BOUND"} =>
                  Open' = {t} /\ Holder' = t /\ (Sealed' <=> r.started)
           /\ res[t].status \in {"HELD", "BOUND"} =>
                  Open = {t} /\ Holder = t /\ (Sealed <=> res[t].started)
           /\ r.status \in {"EXPIRED", "RELEASED"} =>
                  Open' = {} /\ Holder' = NoTaker /\ ~Sealed'
           /\ Available => Open = {} /\ Holder = NoTaker /\ ~Sealed
           /\ r.status = "BOUND" => Bound'
           /\ r.status # "BOUND" /\ res[t].status # "BOUND" => Bound' = Bound
           /\ r.status = "BOUND" /\ res[t].status = "BOUND" => Bound' = Bound
<1>1. \A u \in Takers : res'[u] = IF u = t THEN r ELSE res[u]
  BY DEF Inv, Typed
<1>2. r.status \in {"HELD", "BOUND"} =>
         Open' = {t} /\ Holder' = t /\ (Sealed' <=> r.started)
  <2>1. r.status \in {"HELD", "BOUND"} => Open' = {t}
    BY <1>1 DEF Open, StoreSound
  <2>2. QED  BY <1>1, <2>1, HolderIs DEF Sealed
<1>3. res[t].status \in {"HELD", "BOUND"} =>
         Open = {t} /\ Holder = t /\ (Sealed <=> res[t].started)
  <2>1. res[t].status \in {"HELD", "BOUND"} => Open = {t}
    BY DEF Open, Inv, StoreSound
  <2>2. QED  BY <2>1, HolderIs DEF Sealed
<1>4. r.status \in {"EXPIRED", "RELEASED"} => Open' = {} /\ Holder' = NoTaker /\ ~Sealed'
  <2>1. ASSUME r.status \in {"EXPIRED", "RELEASED"} PROVE Open' = {}
    <3>1. Open = {t}
      BY <2>1, <1>3 DEF RowStep
    <3>2. QED  BY <1>1, <2>1, <3>1 DEF Open
  <2>2. QED  BY <2>1, HolderIs DEF Sealed
<1>5. Available => Open = {} /\ Holder = NoTaker /\ ~Sealed
  BY HolderIs DEF Available, Sealed
<1>6. /\ r.status = "BOUND" => Bound'
      /\ r.status # "BOUND" /\ res[t].status # "BOUND" => Bound' = Bound
      /\ r.status = "BOUND" /\ res[t].status = "BOUND" => Bound' = Bound
  BY <1>1 DEF Bound
<1>7. QED  BY <1>2, <1>3, <1>4, <1>5, <1>6

\* A step of a row is a step of the deal, or none.
LEMMA RowImplements ==
    ASSUME Inv, Inv', UNCHANGED <<advert, signed>>, NEW t \in Takers, NEW r \in Rows,
           res' = [res EXCEPT ![t] = r], RowStep(t, r)
    PROVE  MD!DealNext \/ UNCHANGED <<advert, Holder, Sealed, signed, Bound>>
<1>1. StoreSound'
  BY DEF Inv
<1>2. CASE /\ res[t].status = "NONE" /\ Available
           /\ r.status = "HELD" /\ r.started = FALSE /\ r.final = Nothing
  <2>1. Holder' = t /\ ~Sealed' /\ Holder = NoTaker /\ ~Sealed /\ Bound' = Bound
    BY <1>1, <1>2, RowView
  <2>2. MD!Hold(t)
    BY <1>2, <2>1 DEF MD!Hold, Available, Sealed, Bound
  <2>3. QED  BY <2>2 DEF MD!DealNext
<1>3. CASE /\ res[t].status = "HELD" /\ ~res[t].started
           /\ r.status \in {"EXPIRED", "RELEASED"} /\ r.started = FALSE
           /\ r.final = res[t].final
  <2>1. Holder' = NoTaker /\ ~Sealed' /\ ~Sealed /\ Bound' = Bound
    BY <1>1, <1>3, RowView
  <2>2. MD!LetGo
    BY <2>1 DEF MD!LetGo, Sealed, Bound
  <2>3. QED  BY <2>2 DEF MD!DealNext
<1>4. CASE /\ res[t].status = "HELD" /\ r.status = "HELD"
           /\ res[t].started => r.started
           /\ r.final = res[t].final
  <2>1. /\ Holder = t /\ Holder' = t /\ Bound' = Bound
        /\ Sealed <=> res[t].started
        /\ Sealed' <=> r.started
    BY <1>1, <1>4, RowView
  <2>2. CASE r.started
    <3>1. MD!Seal
      BY <2>1, <2>2, PartyAssumption DEF MD!Seal, Sealed, Bound
    <3>2. QED  BY <3>1 DEF MD!DealNext
  <2>3. CASE ~r.started
    BY <1>4, <2>1, <2>3 DEF Sealed
  <2>4. QED  BY <2>2, <2>3
<1>5. CASE /\ res[t].status \in {"HELD", "BOUND"} /\ r.status = res[t].status
           /\ res[t].started /\ r.started
           /\ res[t].final \in {Nothing, r.final} /\ <<t, r.final>> \in signed[Maker]
  <2>1. Holder = t /\ Holder' = t /\ Sealed /\ Sealed' /\ Bound' = Bound
    BY <1>1, <1>5, RowView
  <2>2. QED  BY <2>1 DEF Sealed
<1>6. CASE /\ res[t].status \in {"HELD", "BOUND"} /\ r.status = "BOUND"
           /\ res[t].started /\ r.started
           /\ r.final = res[t].final /\ <<t, r.final>> \in signed[t]
  <2>1. Holder = t /\ Holder' = t /\ Sealed /\ Sealed' /\ Bound' /\ Open = {t}
    BY <1>1, <1>6, RowView
  <2>2. \A x \in signed[Maker] : x = <<t, session[t].final>>
    BY <2>1, SignedGives
  <2>3. /\ <<t, r.final>> \in signed[Maker]
        /\ \A x \in signed[t] : x \in signed[Maker]
    BY <1>6 DEF Inv, SignedSound
  <2>4. signed[Maker] = {<<t, r.final>>} /\ signed[t] = signed[Maker]
    BY <1>6, <2>2, <2>3
  <2>5. MD!Bind
    BY <2>1, <2>4 DEF MD!Bind, Sealed, Bound
  <2>6. QED  BY <2>5 DEF MD!DealNext
<1>7. QED  BY <1>2, <1>3, <1>4, <1>5, <1>6 DEF RowStep

\* A step of the store is a step of the deal, or none.
LEMMA QuietImplements ==
    ASSUME Inv, Inv', Quiet
    PROVE  MD!DealNext \/ UNCHANGED <<advert, Holder, Sealed, signed, Bound>>
<1>1. CASE UNCHANGED store
  BY <1>1, SameView DEF store, Quiet
<1>2. CASE advert = "NONE" /\ advert' = "ACTIVE" /\ UNCHANGED res
  <2>1. MD!Publish
    BY <1>2, SameView DEF MD!Publish, Quiet, Sealed, Bound
  <2>2. QED  BY <2>1 DEF MD!DealNext
<1>3. CASE Available /\ advert' \in {"WITHDRAWN", "EXPIRED"} /\ UNCHANGED res
  <2>1. Holder = NoTaker
    BY <1>3, HolderIs DEF Available
  <2>2. MD!Close
    BY <1>3, <2>1, SameView DEF MD!Close, Quiet, Available, Sealed, Bound
  <2>3. QED  BY <2>2 DEF MD!DealNext
<1>4. CASE /\ UNCHANGED advert
           /\ \E t \in Takers : \E r \in Rows : res' = [res EXCEPT ![t] = r] /\ RowStep(t, r)
  BY <1>4, RowImplements DEF Quiet
<1>5. QED  BY <1>1, <1>2, <1>3, <1>4 DEF Quiet, StoreStep

\* The advert leads to one swap at most, whatever is lost, late or restarted: every step of
\* the agents, of the requests that arrive late and of time is a step of MarketDeal or none
\* (mark_finalization_started, taker_bind, import_offer_v2).
THEOREM ProcessesImplementDeal == Spec => TradeImplemented
<1>1. Init => MD!DealInit
  <2> SUFFICES ASSUME Init PROVE MD!DealInit
    OBVIOUS
  <2>1. /\ advert = "NONE" /\ \A t \in Takers : res[t] = NoRow
        /\ signed = [p \in Takers \cup {Maker} |-> {}]
    BY DEF Init, StoreInit, Parties
  <2>2. Open = {}
    BY <2>1 DEF Open, NoRow
  <2>3. Holder = NoTaker /\ ~Sealed /\ ~Bound
    BY <2>1, <2>2, HolderIs DEF Sealed, Bound, NoRow
  <2>4. QED  BY <2>1, <2>3 DEF MD!DealInit, Sealed, Bound
<1>2. Inv /\ Inv' /\ [Next]_vars => [MD!DealNext]_(MD!deal)
  <2> SUFFICES ASSUME Inv, Inv', [Next]_vars
               PROVE  MD!DealNext \/ UNCHANGED <<advert, Holder, Sealed, signed, Bound>>
    BY DEF MD!deal, Sealed, Bound
  <2>1. Quiet \/ MakerSigned \/ TakerSigned
    BY StepInv
  <2>2. QED  BY <2>1, QuietImplements, SigningImplements
<1>3. QED  BY <1>1, <1>2, AlwaysInv, PTL DEF Spec, TradeImplemented, MD!Deal
=============================================================================
