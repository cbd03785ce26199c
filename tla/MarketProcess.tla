--------------------------- MODULE MarketProcess ---------------------------
(***************************************************************************)
(* The handshake processes of the agents (market_process_v1.py) around one *)
(* advert: the maker's, and one for each take, every one at an agent with  *)
(* a store, a node and a worker thread of its own.                         *)
(*                                                                         *)
(* A worker loads a process, works on the copy and saves it at the end of  *)
(* the cycle, and before what must not be repeated with other bytes.  A    *)
(* request that gets no answer may have reached the market, reach it at    *)
(* any later time, or never.  A read that fails changes nothing.           *)
(***************************************************************************)
EXTENDS MarketStore

CONSTANTS
    Imported,               \* takes that came from a browser, which has the token too
    MaxLost, MaxCrashes     \* bounds of the exploration

ASSUME RunAssumption == Imported \subseteq Takers /\ {MaxLost, MaxCrashes} \subseteq Nat

VARIABLES
    proc,           \* durable: market_processes, one job for each party
    session,        \* durable: offer_sessions, by reservation
    signed,         \* durable: swap records at each party's node, by reservation
    run,            \* the cycle under way at each party
    wire,           \* requests whose caller has given up
    lapsed,         \* reservations whose offer has passed its time
    budget          \* how many answers were lost and how many workers crashed

Terminal == {"BOUND", "EXPIRED", "RELEASED", "WITHDRAWN"}

\* A job: the state it shows, whether it is to be withdrawn, its reservation, the offer
\* or acceptance this party made, and with swapId the swap of its record.
NewJob(p) == [state |-> IF p = Maker THEN "POSTING" ELSE "RESERVING",
              withdraw |-> FALSE, res |-> NoTaker, blob |-> Nothing, swap |-> Nothing]

Idle == [at |-> "idle", job |-> NewJob(Maker), res |-> NoTaker, row |-> NoRow]

durable == <<proc, session, signed>>
vars == <<store, durable, run, wire, lapsed, budget>>

----------------------------------------------------------------------------
(* A cycle *)

\* The cycle of p ends with its job as j.
Ends(p, j) ==
    /\ proc' = [proc EXCEPT ![p] = j]
    /\ run' = [run EXCEPT ![p] = Idle]

\* p asks for q, having saved saved, and after the answer saves done.  A refusal or a
\* lost answer ends the cycle with an error and leaves what was saved before.
Asks(p, q, saved, done) ==
    /\ \/ Grants(q) /\ Ends(p, done) /\ UNCHANGED <<wire, budget>>
       \/ Refuses(q) /\ Ends(p, saved) /\ UNCHANGED <<store, wire, budget>>
       \/ /\ budget.lost < MaxLost
          /\ budget' = [budget EXCEPT !.lost = @ + 1]
          /\ wire' = wire \cup {q}
          /\ Ends(p, saved) /\ UNCHANGED store
    /\ UNCHANGED <<session, signed, lapsed>>

Continues(p, at, j) ==
    run' = [run EXCEPT ![p].at = at, ![p].job = j]

Loads(p) == run[p].at = "idle" /\ proc[p].state \notin Terminal

Post ==
    /\ Loads(Maker) /\ proc[Maker].state = "POSTING"
    /\ Asks(Maker, Request("post", NoTaker, Nothing), proc[Maker],
            [proc[Maker] EXCEPT !.state = "ACTIVE"])

\* A process that is to be withdrawn does nothing else any more.
Withdraw ==
    /\ Loads(Maker) /\ proc[Maker].withdraw
    /\ Asks(Maker, Request("withdraw", NoTaker, Nothing), proc[Maker],
            [proc[Maker] EXCEPT !.state = "WITHDRAWN"])

Take(t) ==
    /\ Loads(t) /\ proc[t].state = "RESERVING"
    /\ Asks(t, Request("take", t, Nothing), proc[t],
            [proc[t] EXCEPT !.state = "HELD", !.res = t])

\* The maker's job when the open reservation is t: another one than before makes it
\* forget the old handshake.
Turned(j, t) ==
    IF j.res \in {NoTaker, t} THEN [j EXCEPT !.res = t]
    ELSE [j EXCEPT !.res = t, !.blob = Nothing]

\* p reads the reservation t, which is its own or, for the maker, the open one.
Reads(p, t) ==
    /\ Loads(p) /\ proc[p].state \notin {"POSTING", "RESERVING"} /\ ~proc[p].withdraw
    /\ t \in IF p = Maker THEN Open ELSE {p}
    /\ proc[p].res \in {NoTaker, t} \/ proc[p].swap = Nothing

\* What it has read asks for nothing: it saves the state to show, and the cycle is over.
Rests(p, t, s) ==
    /\ Ends(p, [Turned(proc[p], t) EXCEPT !.state = s])
    /\ UNCHANGED <<store, session, signed, wire, lapsed, budget>>

\* The reservation is bound, or no longer held.
SeesClosed(p) ==
    \E t \in Takers :
       /\ Reads(p, t) /\ res[t].status # "HELD"
       /\ Rests(p, t, IF res[t].status = "BOUND" /\ proc[p].swap # res[t].final
                      THEN proc[p].state ELSE res[t].status)

\* Something is asked for: p goes on with what it has read, which may be old by then.
Looks(p, t) ==
    /\ run' = [run EXCEPT ![p] = [at |-> "seen", job |-> Turned(proc[p], t),
                                  res |-> t, row |-> res[t]]]
    /\ UNCHANGED <<store, durable, wire, lapsed, budget>>

\* No reservation is open: what the maker shows is the status of the advert.
ShowAdvert ==
    /\ Loads(Maker) /\ proc[Maker].state # "POSTING" /\ ~proc[Maker].withdraw
    /\ Open = {}
    /\ Ends(Maker, [proc[Maker] EXCEPT !.state = advert])
    /\ UNCHANGED <<store, session, signed, wire, lapsed, budget>>

Sees(p) == run[p].at = "seen"

\* A check does not hold.
Fails(p) ==
    /\ Ends(p, run[p].job)
    /\ UNCHANGED <<store, session, signed, wire, lapsed, budget>>

----------------------------------------------------------------------------
(* The maker *)

\* The offer of the relay is the one this maker made.
Mine(t) == Turned(proc[Maker], t).blob = res[t].offer

MakerLooks ==
    \E t \in Takers :
       /\ Reads(Maker, t) /\ res[t].status = "HELD"
       /\ res[t].offer = Nothing \/ (Mine(t) /\ res[t].accept # Nothing)
       /\ Looks(Maker, t)

AwaitAccept ==
    \E t \in Takers :
       /\ Reads(Maker, t) /\ res[t].status = "HELD" /\ res[t].offer # Nothing
       /\ \/ Mine(t) /\ res[t].accept = Nothing /\ Rests(Maker, t, "OFFER_CREATED")
          \/ ~Mine(t) /\ Rests(Maker, t, proc[Maker].state)

\* create_offer_v2: the offer made before for the same process key, if there is one.
OfferFor(t) == IF session[t].offer = Nothing THEN <<1>> ELSE session[t].offer

MakeOffer ==
    /\ Sees(Maker) /\ run[Maker].row.offer = Nothing
    /\ LET t == run[Maker].res
       IN  /\ session' = [session EXCEPT ![t].offer = OfferFor(t)]
           /\ Continues(Maker, "made", [run[Maker].job EXCEPT !.blob = OfferFor(t)])
    /\ UNCHANGED <<store, proc, signed, wire, lapsed, budget>>

SendOffer ==
    /\ run[Maker].at = "made"
    /\ LET j == run[Maker].job
       IN  Asks(Maker, Request("offer", run[Maker].res, j.blob), j,
                [j EXCEPT !.state = "OFFER_CREATED"])

Agreed == Sees(Maker) /\ run[Maker].row.offer # Nothing

\* The barrier: it is only passed in a cycle that finds it set.
StartFinalization ==
    /\ Agreed /\ ~run[Maker].row.started
    /\ LET j == run[Maker].job
       IN  Asks(Maker, Request("finalize-start", run[Maker].res, Nothing), j,
                [j EXCEPT !.state = "FINALIZATION_STARTED"])

\* Mutant: a final bundle is made anew, with a refund time of its own, at every import.
FinalFor_Anew(t, accept) ==
    Append(accept, IF session[t].final = Nothing THEN 1 ELSE session[t].final[3] + 1)

\* The final bundle of the session, or a new one.
FinalFor(t, accept) ==
    IF session[t].final = Nothing THEN Append(accept, 1) ELSE session[t].final

\* import_offer_v2 of an acceptance, up to the exact final bundle in the session.
PinFinal ==
    /\ Agreed /\ run[Maker].row.started /\ run[Maker].job.swap = Nothing
    /\ LET t == run[Maker].res
       IN  \/ /\ ~lapsed[t] \/ session[t].final # Nothing
              /\ session' = [session EXCEPT ![t].final = FinalFor(t, run[Maker].row.accept)]
              /\ Continues(Maker, "pinned", run[Maker].job)
              /\ UNCHANGED <<store, proc, signed, wire, lapsed, budget>>
           \/ lapsed[t] /\ session[t].final = Nothing /\ Fails(Maker)

\* The rest of it: swaprecordcreate, which finds the record when it is there.
MakerSigns ==
    /\ run[Maker].at = "pinned"
    /\ LET t == run[Maker].res
       IN  /\ signed' = [signed EXCEPT ![Maker] = @ \cup {<<t, session[t].final>>}]
           /\ Continues(Maker, "signed", [run[Maker].job EXCEPT !.swap = session[t].final])
    /\ UNCHANGED <<store, proc, session, wire, lapsed, budget>>

\* Mutant: the final bundle is only sent by the cycle that made it.
SendsFinal_Once == run[Maker].at = "signed"

\* It is sent until the reservation is bound.
SendsFinal ==
    \/ run[Maker].at = "signed"
    \/ Agreed /\ run[Maker].row.started /\ run[Maker].job.swap # Nothing

SendFinal ==
    /\ SendsFinal
    /\ LET j == run[Maker].job
       IN  Asks(Maker, Request("final", run[Maker].res, j.swap), j,
                [j EXCEPT !.state = "FINALIZED_MAKER"])

----------------------------------------------------------------------------
(* A taker *)

TakerLooks(t) ==
    /\ Reads(t, t) /\ res[t].status = "HELD" /\ res[t].offer # Nothing
    /\ \/ res[t].accept = Nothing
       \/ res[t].accept = proc[t].blob /\ res[t].final # Nothing
    /\ Looks(t, t)

Awaits(t) ==
    /\ Reads(t, t) /\ res[t].status = "HELD"
    /\ \/ res[t].offer = Nothing /\ Rests(t, t, "WAITING_MAKER")
       \/ /\ res[t].accept # Nothing
          /\ \/ /\ res[t].accept = proc[t].blob /\ res[t].final = Nothing
                /\ Rests(t, t, "ACCEPTANCE_CREATED")
             \/ res[t].accept # proc[t].blob /\ Rests(t, t, proc[t].state)

\* import_offer_v2 of an offer: the acceptance made before for it, if there is one.
MakeAccept(t) ==
    /\ Sees(t) /\ run[t].job.blob = Nothing
    /\ LET accept == IF session[t].accept = Nothing THEN Append(run[t].row.offer, 1)
                     ELSE session[t].accept
       IN  /\ session' = [session EXCEPT ![t].accept = accept]
           /\ Continues(t, "made", [run[t].job EXCEPT !.blob = accept])
    /\ UNCHANGED <<store, proc, signed, wire, lapsed, budget>>

SendAccept(t) ==
    /\ run[t].at = "made" \/ (Sees(t) /\ run[t].job.blob # Nothing)
    /\ run[t].row.accept = Nothing
    /\ LET j == run[t].job
       IN  Asks(t, Request("accept", t, j.blob), j,
                [j EXCEPT !.state = "ACCEPTANCE_CREATED"])

\* import_offer_v2 of a final bundle, which must follow from the session's acceptance.
TakerSigns(t) ==
    /\ Sees(t) /\ run[t].row.final # Nothing /\ run[t].job.swap = Nothing
    /\ LET final == run[t].row.final
       IN  \/ /\ SubSeq(final, 1, 2) = session[t].accept
              /\ signed' = [signed EXCEPT ![t] = @ \cup {<<t, final>>}]
              /\ Continues(t, "signed", [run[t].job EXCEPT !.swap = final])
              /\ UNCHANGED <<store, proc, session, wire, lapsed, budget>>
           \/ SubSeq(final, 1, 2) # session[t].accept /\ Fails(t)

SendBind(t) ==
    /\ \/ run[t].at = "signed"
       \/ Sees(t) /\ run[t].row.final # Nothing /\ run[t].job.swap # Nothing
    /\ LET j == run[t].job
       IN  IF j.swap = run[t].row.final
           THEN Asks(t, Request("taker-bind", t, j.swap), j, [j EXCEPT !.state = "BOUND"])
           ELSE Fails(t)

----------------------------------------------------------------------------
(* Around the workers *)

\* A request arrives that nobody waits for.
ServeLate ==
    /\ \E q \in wire :
          /\ Grants(q) \/ (Refuses(q) /\ UNCHANGED store)
          /\ wire' = wire \ {q}
    /\ UNCHANGED <<durable, run, lapsed, budget>>

\* The worker of p dies and starts again; one that has only read loses nothing.
Crash(p) ==
    /\ run[p].at \notin {"idle", "seen"} /\ budget.crashes < MaxCrashes
    /\ run' = [run EXCEPT ![p] = Idle]
    /\ budget' = [budget EXCEPT !.crashes = @ + 1]
    /\ UNCHANGED <<store, durable, wire, lapsed>>

\* The user asks for the advert to be withdrawn; the route waits for the lock of the
\* cycle.
AskWithdraw ==
    /\ Loads(Maker) /\ proc[Maker].state # "POSTING" /\ ~proc[Maker].withdraw
    /\ proc' = [proc EXCEPT ![Maker].withdraw = TRUE]
    /\ UNCHANGED <<store, session, signed, run, wire, lapsed, budget>>

\* A browser that kept the reservation's token gives it back.
Release(t) ==
    /\ t \in Imported /\ Grants(Request("release", t, Nothing))
    /\ UNCHANGED <<durable, run, wire, lapsed, budget>>

\* An offer lives for hours, a hold without the barrier for minutes; with the final
\* bundle in the session it no longer matters.
Lapse(t) ==
    /\ res[t].started /\ ~lapsed[t] /\ session[t].final = Nothing
    /\ lapsed' = [lapsed EXCEPT ![t] = TRUE]
    /\ UNCHANGED <<store, durable, run, wire, budget>>

Expire ==
    /\ ExpireAdvert \/ \E t \in Takers : ExpireHold(t)
    /\ UNCHANGED <<durable, run, wire, lapsed, budget>>

----------------------------------------------------------------------------

Init ==
    /\ StoreInit
    /\ proc = [p \in Parties |-> NewJob(p)]
    /\ session = [t \in Takers |-> [offer |-> Nothing, accept |-> Nothing, final |-> Nothing]]
    /\ signed = [p \in Parties |-> {}]
    /\ run = [p \in Parties |-> Idle]
    /\ wire = {}
    /\ lapsed = [t \in Takers |-> FALSE]
    /\ budget = [lost |-> 0, crashes |-> 0]

MakerStep ==
    \/ Post \/ Withdraw \/ SeesClosed(Maker) \/ ShowAdvert \/ MakerLooks \/ AwaitAccept
    \/ MakeOffer \/ SendOffer \/ StartFinalization
    \/ PinFinal \/ MakerSigns \/ SendFinal

TakerStep(t) ==
    \/ Take(t) \/ SeesClosed(t) \/ TakerLooks(t) \/ Awaits(t)
    \/ MakeAccept(t) \/ SendAccept(t) \/ TakerSigns(t) \/ SendBind(t)

Next ==
    \/ MakerStep \/ \E t \in Takers : TakerStep(t) \/ Release(t) \/ Lapse(t)
    \/ ServeLate \/ AskWithdraw \/ Expire
    \/ \E p \in Parties : Crash(p)

\* Every agent's worker comes back to its process, however often it failed.
Spec ==
    /\ Init /\ [][Next]_vars
    /\ WF_vars(MakerStep) /\ \A t \in Takers : WF_vars(TakerStep(t))

----------------------------------------------------------------------------
(* Properties *)

\* Whoever holds the advert.
Holder == IF Open = {} THEN NoTaker ELSE CHOOSE t \in Open : TRUE

MD == INSTANCE MarketDeal WITH
    book <- advert,
    holder <- Holder,
    sealed <- \E t \in Open : res[t].started,
    bound <- \E t \in Takers : res[t].status = "BOUND"

\* Through lost answers, requests that arrive late, crashes and expiries, the advert
\* leads to one swap at most: a deal on which a record may exist is never let go, both
\* parties sign the same, and it is bound when they have (the barrier of
\* mark_finalization_started, the sessions that replay their bytes, the store's checks).
TradeImplemented == MD!Deal

\* What a finished process shows is the truth: bound means that both parties have the
\* record of this swap and the market says so, and anything else that nothing was
\* signed and nothing will be (step's terminal states).
ToldTruly ==
    /\ \A p \in Parties : proc[p].state = "BOUND" =>
          LET t == proc[p].res
          IN  /\ res[t].status = "BOUND" /\ res[t].final = proc[p].swap
              /\ <<t, proc[p].swap>> \in signed[Maker] \cap signed[t]
    /\ \A t \in Takers : proc[t].state \in {"EXPIRED", "RELEASED"} =>
          /\ signed[t] = {} /\ ~res[t].started
          /\ \A s \in signed[Maker] : s[1] # t
    /\ proc[Maker].state \in {"EXPIRED", "WITHDRAWN"} =>
          signed[Maker] = {} /\ Open = {} /\ advert # "ACTIVE"

\* A deal whose finalization has started comes to its end at both parties, unless the
\* maker was told to withdraw, or its offer ran out, before the final bundle was sent.
SealedEnds ==
    \A t \in Takers : res[t].started ~>
        \/ /\ proc[t].state = "BOUND"
           /\ proc[Maker].state = "BOUND" \/ proc[Maker].withdraw
        \/ /\ res[t].final = Nothing
           /\ proc[Maker].withdraw \/ (lapsed[t] /\ session[t].final = Nothing)
=============================================================================
