-------------------------- MODULE SwapExits_proofs --------------------------
(***************************************************************************)
(* Facts about the exits of a swap for every deployment and any number of  *)
(* failures.  The records at the nodes, those that an engine is about to   *)
(* have written and those that a watcher read long ago are all true of the *)
(* chains, because a spend with its confirmations stays; the rest follows  *)
(* from that.  What is said of the last word holds until a funding has     *)
(* been saved over a record that had moved on.                             *)
(***************************************************************************)
EXTENDS SwapExits, TLAPS

USE DEF records, requests

Recs ==
    [state : States \cup {"none"}, funded : SUBSET Parties,
     claims : SUBSET Parties, refunds : SUBSET Parties]
Jobs == Active \cup {"none", "COMPLETE", "DISARMED"}
Steps == {"none", "read", "mark", "send", "wait", "persist", "finalize", "save",
          "ok", "failed"}

Works ==
    [at : Steps, kind : Kinds \cup {"none"}, rec : Recs,
     next : {"none", "send", "finalize", "ok"}]
Looks == [listed : Active \cup {"none"}, rec : Recs, kind : Kinds \cup {"none"}]

\* What a request to record a funding has read.
Readings ==
    [node : Parties, base : {r \in Recs : r.state \in {"CREATED", "ONE_SIDE_FUNDED"}}]

Typed ==
    /\ shared \in BOOLEAN /\ overtaken \in BOOLEAN
    /\ record \in [Parties -> Recs]
    /\ recording \subseteq Readings
    /\ spend \in [Parties -> Kinds \cup {"none"}]
    /\ offered \in [Parties -> SUBSET (Kinds \cup {"none"})]
    /\ job \in [Parties -> Jobs]
    /\ pc \in [Parties -> {"idle", "look", "decide", "start", "run"}]
    /\ local \in [Parties -> Looks]
    /\ engine \in [Parties -> Works]
    /\ entered \in [Parties -> Nat]

\* What a record says has happened on the chains, and its last word follows from it.
True(s, r) ==
    /\ \A l \in r.claims : s[l] = "claim"
    /\ \A l \in r.refunds : s[l] = "refund"
    /\ r.state \in Final => Outcome(r) = r.state

RecordsTrue ==
    \A p \in Parties :
        True(spend, record[p]) /\ True(spend, engine[p].rec) /\ True(spend, local[p].rec)

ReadingsTrue == \A r \in recording : True(spend, r.base)

\* An engine has a kind, and one that has waited has its spend in the chain.
Spent(p) == spend[LegOf(p, engine[p].kind)] = engine[p].kind
EnginesTrue ==
    \A p \in Parties :
        /\ engine[p].at # "none" => engine[p].kind \in Kinds
        /\ engine[p].at \in {"persist", "finalize", "ok"} => Spent(p)
        /\ engine[p].at = "save" /\ engine[p].next # "send" => Spent(p)

\* A watcher in the middle of a tick has a job, and one that starts an engine listed it
\* as armed.
TicksTrue ==
    \A p \in Parties :
        /\ pc[p] # "idle" => local[p].listed \in Active
        /\ pc[p] = "start" => local[p].listed = "ARMED" /\ local[p].kind \in Kinds

\* No engine was started for a job that is armed, or that a tick listed as armed.
Unspent ==
    \A p \in Parties :
        /\ entered[p] <= 1
        /\ job[p] \in {"none", "ARMED", "DISARMED"} => entered[p] = 0
        /\ pc[p] \in {"look", "decide", "start"} /\ local[p].listed = "ARMED"
              => entered[p] = 0

Inv ==
    /\ Typed /\ RecordsTrue /\ ReadingsTrue /\ EnginesTrue /\ TicksTrue /\ Unspent
    /\ CompleteIsOut
----------------------------------------------------------------------------
(* Operators *)

Evidences == [funded : SUBSET Parties, claims : SUBSET Parties, refunds : SUBSET Parties]

LEMMA MovedIsRecord ==
    ASSUME NEW r \in Recs, NEW to \in States, NEW new \in Evidences
    PROVE  Moved(r, to, new) \in Recs
  BY DEF Moved, Recs, Evidences

\* The leg that a funding brings to a record in its early states.
Leg(r) == [NoLegs EXCEPT !.funded = {IF r.state = "CREATED" THEN First ELSE Second}]
Onward(r) == IF r.state = "CREATED" THEN "ONE_SIDE_FUNDED" ELSE "BOTH_FUNDED"

LEMMA WithLegMoves ==
    ASSUME NEW r \in Recs, r.state \in {"CREATED", "ONE_SIDE_FUNDED"}
    PROVE  /\ WithLeg(r) = Moved(r, Onward(r), Leg(r)) /\ CanMove(r, Onward(r), Leg(r))
           /\ Leg(r) \in Evidences /\ Leg(r).claims = {} /\ Leg(r).refunds = {}
           /\ Onward(r) \in States /\ Onward(r) \notin Final
  <1>1. Leg(r) \in Evidences /\ Leg(r).claims = {} /\ Leg(r).refunds = {}
    BY DEF Leg, NoLegs, Evidences, Parties
  <1>2. WithLeg(r) = Moved(r, Onward(r), Leg(r))
    BY DEF WithLeg, Onward, Leg
  <1>3. Onward(r) \in States /\ Onward(r) \notin Final /\ <<r.state, Onward(r)>> \in Allowed
    BY DEF Onward, States, Final, Allowed
  <1> QED  BY <1>1, <1>2, <1>3 DEF CanMove

LEMMA WithLegGives ==
    ASSUME NEW r \in Recs, r.state \in {"CREATED", "ONE_SIDE_FUNDED"}
    PROVE  /\ WithLeg(r) \in Recs
           /\ WithLeg(r).claims = r.claims /\ WithLeg(r).refunds = r.refunds
           /\ WithLeg(r).state = Onward(r)
           /\ WithLeg(r).funded =
                  r.funded \cup {IF r.state = "CREATED" THEN First ELSE Second}
  <1>1. WithLeg(r) \in Recs
    BY WithLegMoves, MovedIsRecord
  <1>2. /\ WithLeg(r).state = Onward(r) /\ WithLeg(r).funded = r.funded \cup Leg(r).funded
        /\ WithLeg(r).claims = r.claims \cup Leg(r).claims
        /\ WithLeg(r).refunds = r.refunds \cup Leg(r).refunds
    BY WithLegMoves DEF Moved
  <1>3. Leg(r).funded = {IF r.state = "CREATED" THEN First ELSE Second}
    BY DEF Leg, NoLegs
  <1> QED  BY <1>1, <1>2, <1>3, WithLegMoves DEF Recs

LEMMA NoLegsIsEvidence == NoLegs \in Evidences
  BY DEF NoLegs, Evidences

LEMMA FreshIsRecord == Fresh \in Recs /\ NoRecord \in Recs
  BY DEF Fresh, NoRecord, Recs, States

LEMMA HomeIsParty == ASSUME NEW p \in Parties PROVE Home(p) \in Parties
  BY DEF Home, Parties

LEMMA OutcomeIsState ==
    ASSUME NEW r \in Recs PROVE Outcome(r) \in Final \cup {"none", "error"}
  BY DEF Outcome, Final

LEMMA FinalIsState == Final \subseteq States
  BY DEF Final, States

\* A record stays true when it moves on with what is true.
LEMMA MovedIsTrue ==
    ASSUME NEW s, NEW r \in Recs, NEW to \in States, NEW new \in Evidences,
           True(s, r), CanMove(r, to, new),
           \A l \in new.claims : s[l] = "claim",
           \A l \in new.refunds : s[l] = "refund"
    PROVE  True(s, Moved(r, to, new))
  <1> DEFINE m == Moved(r, to, new)
  <1>1. /\ m.state = to /\ m.funded = r.funded \cup new.funded
        /\ m.claims = r.claims \cup new.claims /\ m.refunds = r.refunds \cup new.refunds
    BY DEF Moved
  <1>2. to \in Final => Outcome(m) = to
    <2> SUFFICES ASSUME to \in Final PROVE Outcome(m) = to
      OBVIOUS
    <2>1. new = NoLegs /\ Outcome(r) = to
      BY DEF CanMove
    <2>2. m.funded = r.funded /\ m.claims = r.claims /\ m.refunds = r.refunds
      BY <1>1, <2>1 DEF NoLegs, Recs
    <2> HIDE DEF m
    <2> QED  BY <2>1, <2>2 DEF Outcome
  <1> HIDE DEF m
  <1>3. True(s, m)
    BY <1>1, <1>2 DEF True
  <1> QED  BY <1>3 DEF m

\* ... and when more is spent.
LEMMA TrueStays ==
    ASSUME NEW s, NEW t, NEW r \in Recs, True(s, r),
           \A l \in Parties : s[l] # "none" => t[l] = s[l]
    PROVE  True(t, r)
  BY DEF True, Recs

LEMMA WithLegIsTrue ==
    ASSUME NEW s, NEW r \in Recs, r.state \in {"CREATED", "ONE_SIDE_FUNDED"}, True(s, r)
    PROVE  True(s, WithLeg(r))
  BY WithLegMoves, MovedIsTrue

----------------------------------------------------------------------------
(* Types *)

LEMMA InitTyped == Init => Typed
  <1> SUFFICES ASSUME Init PROVE Typed
    OBVIOUS
  <1>1. shared \in BOOLEAN /\ overtaken \in BOOLEAN /\ recording \subseteq Readings
    BY DeploymentAssumption DEF Init, RecordInit
  <1>2. Nothing \in Looks /\ NoEngine \in Works
    BY FreshIsRecord DEF Nothing, Looks, NoEngine, Works, Steps
  <1>3. /\ record \in [Parties -> Recs] /\ spend \in [Parties -> Kinds \cup {"none"}]
        /\ offered \in [Parties -> SUBSET (Kinds \cup {"none"})]
    BY FreshIsRecord DEF Init, RecordInit
  <1> QED  BY <1>1, <1>2, <1>3 DEF Init, Typed, Jobs

LEMMA EngineToTyped ==
    ASSUME Typed, NEW p \in Parties, NEW step \in Steps, EngineTo(p, step)
    PROVE  engine' \in [Parties -> Works]
  <1>1. engine \in [Parties -> Works]
    BY DEF Typed
  <1>2. [engine[p] EXCEPT !.at = step] \in Works
    BY <1>1 DEF Works
  <1>3. engine' = [engine EXCEPT ![p] = [engine[p] EXCEPT !.at = step]]
    BY DEF EngineTo
  <1> QED  BY <1>1, <1>2, <1>3

LEMMA TransitionTyped ==
    ASSUME Typed, NEW p \in Parties, NEW to \in States, NEW new \in Evidences,
           NEW next \in {"send", "finalize", "ok"}, Transition(p, to, new, next)
    PROVE  engine' \in [Parties -> Works]
  <1> DEFINE m == Moved(Record(p), to, new)
  <1>1. Record(p) \in Recs
    BY HomeIsParty DEF Typed, Record
  <1>2. m \in Recs
    BY <1>1, MovedIsRecord
  <1>3. CASE EngineTo(p, "failed")
    BY <1>3, EngineToTyped DEF Steps
  <1>4. CASE engine' = [engine EXCEPT ![p].at = "save", ![p].next = next, ![p].rec = m]
    <2> DEFINE w == [engine[p] EXCEPT !.at = "save", !.next = next, !.rec = m]
    <2> HIDE DEF m
    <2>1. engine \in [Parties -> Works]
      BY DEF Typed
    <2>2. w \in Works
      BY <1>2, <2>1 DEF Works, Steps
    <2>3. engine' = [engine EXCEPT ![p] = w]
      BY <1>4, <2>1
    <2> HIDE DEF w
    <2> QED  BY <2>1, <2>2, <2>3
  <1> QED  BY <1>3, <1>4 DEF Transition

LEMMA IdleTyped ==
    ASSUME Typed, NEW p \in Parties, Idle(p)
    PROVE  /\ local' \in [Parties -> Looks]
           /\ pc' \in [Parties -> {"idle", "look", "decide", "start", "run"}]
  BY FreshIsRecord DEF Typed, Idle, Goto, Nothing, Looks, Kinds

LEMMA NoEngineTyped == NoEngine \in Works
  BY FreshIsRecord DEF NoEngine, Works, Steps

LEMMA TypedStep == Typed /\ [Next]_vars => Typed'
  <1> SUFFICES ASSUME Typed, [Next]_vars PROVE Typed'
    OBVIOUS
  <1> USE DEF Typed
  <1>0. CASE UNCHANGED vars
    BY <1>0 DEF vars, chains, watch
  <1>f. ASSUME NEW p \in Parties, FundReads(p), UNCHANGED outside PROVE Typed'
    <2>1. Home(p) \in Parties
      BY HomeIsParty
    <2>2. [node |-> Home(p), base |-> Record(p)] \in Readings
      BY <1>f, <2>1 DEF FundReads, Readings, Record
    <2> QED  BY <1>f, <2>2 DEF FundReads, chains, outside, watch
  <1>s. ASSUME NEW r \in recording, FundSaves(r), UNCHANGED <<watch, engine, entered>>
        PROVE  Typed'
    <2>1. r.node \in Parties /\ WithLeg(r.base) \in Recs
      BY WithLegGives DEF Readings
    <2>2. overtaken' \in BOOLEAN
      BY <1>s DEF FundSaves
    <2> QED  BY <1>s, <2>1, <2>2 DEF FundSaves, chains, watch
  <1> SUFFICES ASSUME NEW p \in Parties,
                      \/ Watcher(p) \/ Engine(p) \/ EngineFails(p) \/ Crash(p)
                      \/ Arm(p) \/ Disarm(p)
                      \/ Chain(p) /\ UNCHANGED outside
               PROVE  Typed'
    BY <1>0, <1>f, <1>s DEF Next
  <1>h. Home(p) \in Parties
    BY HomeIsParty
  <1>1. CASE EngineReads(p)
    <2>1. CASE EngineTo(p, "failed")
      BY <1>1, <2>1, EngineToTyped DEF EngineReads, chains, watch, Steps
    <2>2. ASSUME NEW step \in Steps,
                 engine' = [engine EXCEPT ![p].rec = Record(p), ![p].at = step]
          PROVE  engine' \in [Parties -> Works]
      <3> DEFINE w == [engine[p] EXCEPT !.rec = Record(p), !.at = step]
      <3>1. w \in Works
        BY <1>h DEF Works, Record
      <3>2. engine' = [engine EXCEPT ![p] = w]
        BY <2>2
      <3> HIDE DEF w
      <3> QED  BY <3>1, <3>2
    <2> QED  BY <1>1, <2>1, <2>2 DEF EngineReads, chains, watch, Steps
  <1>2. CASE EngineMarks(p)
    BY <1>2, TransitionTyped, NoLegsIsEvidence DEF EngineMarks, chains, watch, States
  <1>3. CASE EngineSends(p)
    <2>1. engine' \in [Parties -> Works]
      BY <1>3, EngineToTyped DEF EngineSends, Steps
    <2>2. engine[p].kind \in Kinds \cup {"none"}
      BY DEF Works
    <2>3. offered' \in [Parties -> SUBSET (Kinds \cup {"none"})]
      BY <1>3, <2>2 DEF EngineSends, LegOf, Peer, Parties
    <2> QED  BY <1>3, <2>1, <2>2, <2>3 DEF EngineSends, watch
  <1>4. CASE EngineWaits(p)
    BY <1>4, EngineToTyped DEF EngineWaits, chains, watch, Steps
  <1>5. CASE EnginePersists(p)
    <2>1. Evidence(p) \in Evidences /\ Target(p) \in States
      BY NoLegsIsEvidence DEF Evidence, Evidences, Target, States, LegOf, Parties, Peer
    <2>2. EngineTo(p, "failed") \/ Transition(p, Target(p), Evidence(p), "finalize")
      BY <1>5 DEF EnginePersists
    <2>3. engine' \in [Parties -> Works]
      BY <2>1, <2>2, TransitionTyped, EngineToTyped DEF Steps
    <2> QED  BY <1>5, <2>3 DEF EnginePersists, chains, watch
  <1>6. CASE EngineFinalizes(p)
    <2> DEFINE o == Outcome(engine[p].rec)
    <2>1. o \in Final \cup {"none", "error"}
      BY OutcomeIsState DEF Works
    <2>2. \/ EngineTo(p, "failed") \/ EngineTo(p, "ok")
          \/ o \in States /\ Transition(p, o, NoLegs, "ok")
      BY <1>6, <2>1, FinalIsState DEF EngineFinalizes
    <2> HIDE DEF o
    <2>3. engine' \in [Parties -> Works]
      BY <2>2, TransitionTyped, EngineToTyped, NoLegsIsEvidence DEF Steps
    <2> QED  BY <1>6, <2>3 DEF EngineFinalizes, chains, watch
  <1>7. CASE NodeSaves(p)
    <2>1. engine[p].next \in Steps /\ engine[p].rec \in Recs
      BY DEF Works, Steps
    <2>2. engine' \in [Parties -> Works]
      BY <1>7, <2>1, EngineToTyped DEF NodeSaves
    <2> QED  BY <1>7, <1>h, <2>1, <2>2 DEF NodeSaves, chains, watch
  <1>8. CASE EngineFails(p)
    BY <1>8, EngineToTyped DEF EngineFails, chains, watch, Steps
  <1>9. CASE List(p)
    <2>1. local' \in [Parties -> Looks]
      BY <1>9 DEF List, Looks
    <2> QED  BY <1>9, <2>1 DEF List, Goto, chains
  <1>10. CASE Look(p)
    <2>1. CASE Handle(p)
      <3>1. local[p].listed \in Jobs
        BY DEF Looks, Jobs
      <3> QED  BY <1>10, <2>1, <3>1, IdleTyped DEF Look, Handle, Finish, chains
    <2>2. CASE Goto(p, "decide") /\ local' = [local EXCEPT ![p].rec = Record(p)]
      <3>1. local' \in [Parties -> Looks]
        BY <2>2, <1>h DEF Looks, Record
      <3>2. UNCHANGED job
        BY <1>10, <2>2 DEF Look, Handle, Idle, Goto
      <3> QED  BY <1>10, <2>2, <3>1, <3>2 DEF Look, Goto, chains
    <2> QED  BY <1>10, <2>1, <2>2 DEF Look
  <1>11. CASE Resume(p)
    BY <1>11, IdleTyped DEF Resume, Finish, chains, Jobs, Active
  <1>12. CASE Decide(p)
    <2>1. ASSUME NEW kind \in Kinds, Choose(p, kind)
          PROVE  /\ local' \in [Parties -> Looks]
                 /\ pc' \in [Parties -> {"idle", "look", "decide", "start", "run"}]
      BY <2>1 DEF Choose, Goto, Looks
    <2> QED
      BY <1>12, <2>1, IdleTyped DEF Decide, Finish, chains, Jobs, Active, Kinds
  <1>13. CASE Start(p)
    <2>1. CASE Handle(p) /\ UNCHANGED <<engine, entered>>
      <3>1. local[p].listed \in Jobs
        BY DEF Looks, Jobs
      <3> QED  BY <1>13, <2>1, <3>1, IdleTyped DEF Start, Handle, Finish, chains
    <2>2. CASE ~(Handle(p) /\ UNCHANGED <<engine, entered>>)
      <3>1. engine' = [engine EXCEPT ![p] =
                          [NoEngine EXCEPT !.at = "read", !.kind = local[p].kind]]
        BY <1>13, <2>2 DEF Start
      <3>2. [NoEngine EXCEPT !.at = "read", !.kind = local[p].kind] \in Works
        BY FreshIsRecord DEF NoEngine, Works, Looks, Steps
      <3>3. engine' \in [Parties -> Works]
        BY <3>1, <3>2
      <3> QED
        BY <1>13, <2>2, <3>3 DEF Start, Intend, Finish, Goto, chains, Jobs, Active
    <2> QED  BY <2>1, <2>2
  <1>14. CASE End(p)
    BY <1>14, IdleTyped, NoEngineTyped
       DEF End, Finish, Failed, chains, Jobs, Active
  <1>15. CASE Crash(p)
    BY <1>15, IdleTyped, NoEngineTyped DEF Crash, chains
  <1>16. CASE Arm(p) \/ Disarm(p)
    BY <1>16 DEF Arm, Disarm, Finish, chains, Jobs, Active
  <1>17. CASE Chain(p) /\ UNCHANGED outside
    BY <1>17 DEF Chain, Mine, Pass, Mature, outside, watch
  <1> QED
    BY <1>1, <1>2, <1>3, <1>4, <1>5, <1>6, <1>7, <1>8, <1>9, <1>10, <1>11, <1>12, <1>13,
       <1>14, <1>15, <1>16, <1>17 DEF Watcher, Engine

----------------------------------------------------------------------------
(* What the steps of an engine change *)

LEMMA EngineToGives ==
    ASSUME Typed, NEW p \in Parties, NEW step, EngineTo(p, step), NEW q \in Parties
    PROVE  /\ engine'[q].kind = engine[q].kind /\ engine'[q].rec = engine[q].rec
           /\ engine'[q].next = engine[q].next
           /\ engine'[q].at = IF q = p THEN step ELSE engine[q].at
  <1>1. engine \in [Parties -> Works]
    BY DEF Typed
  <1>2. engine'[q] = IF q = p THEN [engine[p] EXCEPT !.at = step] ELSE engine[q]
    BY <1>1 DEF EngineTo
  <1> QED  BY <1>1, <1>2 DEF Works

LEMMA TransitionGives ==
    ASSUME Typed, NEW p \in Parties, NEW to, NEW new, NEW next,
           Transition(p, to, new, next), ~EngineTo(p, "failed"), NEW q \in Parties
    PROVE  /\ CanMove(Record(p), to, new)
           /\ engine'[q].kind = engine[q].kind
           /\ q = p => /\ engine'[q].at = "save" /\ engine'[q].next = next
                      /\ engine'[q].rec = Moved(Record(p), to, new)
           /\ q # p => engine'[q] = engine[q]
  <1> DEFINE m == Moved(Record(p), to, new)
  <1>1. engine \in [Parties -> Works]
    BY DEF Typed
  <1>2. /\ CanMove(Record(p), to, new)
        /\ engine' = [engine EXCEPT ![p].at = "save", ![p].next = next, ![p].rec = m]
    BY DEF Transition
  <1> HIDE DEF m
  <1> DEFINE w == [engine[p] EXCEPT !.at = "save", !.next = next, !.rec = m]
  <1>3. engine' = [engine EXCEPT ![p] = w]
    BY <1>2, <1>1
  <1>4. /\ w.at = "save" /\ w.next = next /\ w.rec = m /\ w.kind = engine[p].kind
    BY <1>1 DEF Works
  <1> HIDE DEF w
  <1>5. engine'[q] = IF q = p THEN w ELSE engine[q]
    BY <1>1, <1>3
  <1> QED  BY <1>2, <1>4, <1>5 DEF m

LEMMA SpendStays ==
    ASSUME Typed, [Next]_vars
    PROVE  \A l \in Parties : spend[l] # "none" => spend'[l] = spend[l]
  <1>1. CASE UNCHANGED spend
    BY <1>1
  <1>2. ASSUME NEW p \in Parties, Mine(p)
        PROVE  \A l \in Parties : spend[l] # "none" => spend'[l] = spend[l]
    BY <1>2 DEF Mine, Typed
  <1>3. UNCHANGED spend \/ \E p \in Parties : Mine(p)
    <2>1. CASE UNCHANGED vars
      BY <2>1 DEF vars, chains
    <2>2. ASSUME NEW p \in Parties, Watcher(p) \/ EngineFails(p) \/ Crash(p) \/ Arm(p) \/ Disarm(p)
          PROVE  UNCHANGED spend
      BY <2>2 DEF Watcher, EngineFails, Crash, Arm, Disarm, List, Look, Resume, Decide, Start,
                  End, chains
    <2>3. ASSUME NEW p \in Parties, Engine(p) PROVE UNCHANGED spend
      BY <2>3 DEF Engine, EngineReads, EngineMarks, EngineSends, EngineWaits, EnginePersists,
                  EngineFinalizes, NodeSaves, chains
    <2>4. ASSUME NEW p \in Parties, FundReads(p) \/ Chain(p)
          PROVE  UNCHANGED spend \/ Mine(p)
      BY <2>4 DEF FundReads, Chain, Pass, Mature, chains
    <2>5. ASSUME NEW r \in recording, FundSaves(r) PROVE UNCHANGED spend
      BY <2>5 DEF FundSaves, chains
    <2> QED  BY <2>1, <2>2, <2>3, <2>4, <2>5 DEF Next
  <1> QED  BY <1>1, <1>2, <1>3

----------------------------------------------------------------------------
(* The records are true *)

LEMMA HomeRecordTrue ==
    ASSUME Typed, RecordsTrue, NEW p \in Parties
    PROVE  Record(p) \in Recs /\ True(spend, Record(p))
  BY HomeIsParty DEF Typed, RecordsTrue, Record

LEMMA NoRecordTrue == True(spend, NoRecord)
  BY DEF True, NoRecord, Fresh, Final

\* Of the records that a step leaves, by the spends before it.
OldTrue(q) ==
    /\ True(spend, record'[q]) /\ True(spend, engine'[q].rec) /\ True(spend, local'[q].rec)

LEMMA TransitionTrue ==
    ASSUME Typed, RecordsTrue, NEW p \in Parties, NEW to \in States,
           NEW new \in Evidences, NEW next,
           \A l \in new.claims : spend[l] = "claim",
           \A l \in new.refunds : spend[l] = "refund",
           Transition(p, to, new, next), NEW q \in Parties
    PROVE  True(spend, engine'[q].rec)
  <1>1. CASE EngineTo(p, "failed")
    BY <1>1, EngineToGives DEF RecordsTrue
  <1>2. CASE ~EngineTo(p, "failed") /\ q # p
    BY <1>2, TransitionGives DEF RecordsTrue
  <1>3. CASE ~EngineTo(p, "failed") /\ q = p
    <2>1. CanMove(Record(p), to, new) /\ engine'[q].rec = Moved(Record(p), to, new)
      BY <1>3, TransitionGives
    <2>2. True(spend, Moved(Record(p), to, new))
      BY <2>1, HomeRecordTrue, MovedIsTrue
    <2> QED  BY <2>1, <2>2
  <1> QED  BY <1>1, <1>2, <1>3

LEMMA EngineRecordsTrue ==
    ASSUME Typed, RecordsTrue, EnginesTrue, NEW p \in Parties,
           Engine(p) \/ EngineFails(p), NEW q \in Parties
    PROVE  True(spend, engine'[q].rec)
  <1>0. ASSUME NEW step, EngineTo(p, step) PROVE True(spend, engine'[q].rec)
    BY <1>0, EngineToGives DEF RecordsTrue
  <1>1. CASE EngineReads(p)
    <2>1. ASSUME NEW step, engine' = [engine EXCEPT ![p].rec = Record(p), ![p].at = step]
          PROVE  True(spend, engine'[q].rec)
      <3>1. engine \in [Parties -> Works]
        BY DEF Typed
      <3>2. engine' = [engine EXCEPT ![p] = [engine[p] EXCEPT !.rec = Record(p), !.at = step]]
        BY <2>1, <3>1
      <3>3. engine'[q] = IF q = p THEN [engine[p] EXCEPT !.rec = Record(p), !.at = step]
                         ELSE engine[q]
        BY <3>1, <3>2
      <3>4. engine'[q].rec = IF q = p THEN Record(p) ELSE engine[q].rec
        BY <3>1, <3>3 DEF Works
      <3> QED  BY <3>4, HomeRecordTrue DEF RecordsTrue
    <2> QED  BY <1>0, <1>1, <2>1 DEF EngineReads
  <1>2. CASE EngineMarks(p)
    <2>1. NoLegs.claims = {} /\ NoLegs.refunds = {}
      BY DEF NoLegs
    <2> QED  BY <1>2, <2>1, TransitionTrue, NoLegsIsEvidence DEF EngineMarks, States
  <1>3. CASE EngineSends(p) \/ EngineWaits(p) \/ NodeSaves(p) \/ EngineFails(p)
    BY <1>0, <1>3 DEF EngineSends, EngineWaits, NodeSaves, EngineFails
  <1>4. CASE EnginePersists(p)
    <2>1. Evidence(p) \in Evidences /\ Target(p) \in States
      BY NoLegsIsEvidence DEF Evidence, Evidences, Target, States, LegOf, Parties, Peer
    <2>2. engine[p].kind \in Kinds /\ Spent(p)
      BY <1>4 DEF EnginesTrue, EnginePersists, At
    <2>3. /\ \A l \in Evidence(p).claims : spend[l] = "claim"
          /\ \A l \in Evidence(p).refunds : spend[l] = "refund"
      BY <2>2 DEF Evidence, NoLegs, Spent, Kinds
    <2>4. EngineTo(p, "failed") \/ Transition(p, Target(p), Evidence(p), "finalize")
      BY <1>4 DEF EnginePersists
    <2> QED  BY <1>0, <2>1, <2>3, <2>4, TransitionTrue
  <1>5. CASE EngineFinalizes(p)
    <2> DEFINE o == Outcome(engine[p].rec)
    <2>1. o \in Final \cup {"none", "error"}
      BY OutcomeIsState DEF Typed, Works
    <2>2. \/ EngineTo(p, "failed") \/ EngineTo(p, "ok")
          \/ o \in States /\ Transition(p, o, NoLegs, "ok")
      BY <1>5, <2>1, FinalIsState DEF EngineFinalizes
    <2>3. NoLegs.claims = {} /\ NoLegs.refunds = {}
      BY DEF NoLegs
    <2> HIDE DEF o
    <2> QED  BY <1>0, <2>2, <2>3, TransitionTrue, NoLegsIsEvidence
  <1> QED  BY <1>1, <1>2, <1>3, <1>4, <1>5 DEF Engine

LEMMA LocalGives ==
    ASSUME Typed, NEW p \in Parties,
           Watcher(p) \/ Engine(p) \/ EngineFails(p) \/ Crash(p) \/ Arm(p) \/ Disarm(p),
           NEW q \in Parties
    PROVE  local'[q].rec \in {local[q].rec, Record(p), NoRecord}
  <1>1. local \in [Parties -> Looks]
    BY DEF Typed
  <1>2. CASE Idle(p)
    BY <1>1, <1>2 DEF Idle, Nothing
  <1>3. CASE local' = [local EXCEPT ![p].rec = Record(p)]
    <2>1. local'[q] = IF q = p THEN [local[p] EXCEPT !.rec = Record(p)] ELSE local[q]
      BY <1>1, <1>3
    <2> QED  BY <1>1, <2>1 DEF Looks
  <1>4. ASSUME NEW kind, local' = [local EXCEPT ![p].kind = kind]
        PROVE  local'[q].rec = local[q].rec
    <2>1. local'[q] = IF q = p THEN [local[p] EXCEPT !.kind = kind] ELSE local[q]
      BY <1>1, <1>4
    <2> QED  BY <1>1, <2>1 DEF Looks
  <1>5. ASSUME NEW state, local' = [local EXCEPT ![p].listed = state]
        PROVE  local'[q].rec = local[q].rec
    <2>1. local'[q] = IF q = p THEN [local[p] EXCEPT !.listed = state] ELSE local[q]
      BY <1>1, <1>5
    <2> QED  BY <1>1, <2>1 DEF Looks
  <1>6. CASE UNCHANGED local
    BY <1>6
  <1>7. CASE Engine(p) \/ EngineFails(p)
    BY <1>6, <1>7
       DEF Engine, EngineFails, EngineReads, EngineMarks, EngineSends, EngineWaits,
           EnginePersists, EngineFinalizes, NodeSaves, watch
  <1>8. CASE Crash(p) \/ Arm(p) \/ Disarm(p) \/ Resume(p) \/ End(p)
    BY <1>2, <1>6, <1>8 DEF Crash, Arm, Disarm, Resume, End
  <1>9. CASE List(p)
    BY <1>5, <1>9 DEF List
  <1>10. CASE Look(p)
    BY <1>2, <1>3, <1>10 DEF Look, Handle
  <1>11. CASE Decide(p)
    BY <1>2, <1>4, <1>11 DEF Decide, Choose
  <1>12. CASE Start(p)
    BY <1>2, <1>6, <1>12 DEF Start, Handle
  <1> QED
    BY <1>7, <1>8, <1>9, <1>10, <1>11, <1>12 DEF Watcher

LEMMA WatcherEngineGives ==
    ASSUME Typed, NEW p \in Parties,
           Watcher(p) \/ Crash(p) \/ Arm(p) \/ Disarm(p), NEW q \in Parties
    PROVE  \/ engine'[q] = engine[q]
           \/ engine'[q] = NoEngine /\ ~Start(p)
           \/ /\ Start(p) /\ q = p
              /\ engine'[q] = [NoEngine EXCEPT !.at = "read", !.kind = local[p].kind]
  <1>1. engine \in [Parties -> Works]
    BY DEF Typed
  <1>2. CASE UNCHANGED engine
    BY <1>2
  <1>3. CASE engine' = [engine EXCEPT ![p] = NoEngine] /\ ~Start(p)
    BY <1>1, <1>3
  <1>4. CASE Start(p) /\ engine' = [engine EXCEPT ![p] =
                                  [NoEngine EXCEPT !.at = "read", !.kind = local[p].kind]]
    BY <1>1, <1>4
  <1>5. CASE Start(p)
    BY <1>2, <1>4, <1>5 DEF Start
  <1>6. CASE ~Start(p)
    BY <1>2, <1>3, <1>6 DEF Watcher, Crash, Arm, Disarm, List, Look, Resume, Decide, End
  <1> QED  BY <1>5, <1>6

LEMMA RecordsStep ==
    Typed /\ RecordsTrue /\ ReadingsTrue /\ EnginesTrue /\ [Next]_vars => RecordsTrue'
  <1> SUFFICES ASSUME Typed, RecordsTrue, ReadingsTrue, EnginesTrue, [Next]_vars
               PROVE  RecordsTrue'
    OBVIOUS
  <1>1. ASSUME NEW q \in Parties PROVE OldTrue(q)
    <2>0. CASE UNCHANGED <<record, engine, local>>
      BY <2>0 DEF RecordsTrue, OldTrue
    <2>1. ASSUME NEW p \in Parties, Watcher(p) \/ Crash(p) \/ Arm(p) \/ Disarm(p)
          PROVE  OldTrue(q)
      <3>1. UNCHANGED record
        BY <2>1 DEF Watcher, Crash, Arm, Disarm, List, Look, Resume, Decide, Start, End
      <3>2. NoEngine.rec = NoRecord
            /\ [NoEngine EXCEPT !.at = "read", !.kind = local[p].kind].rec = NoRecord
        BY DEF NoEngine
      <3>3. engine'[q].rec \in {engine[q].rec, NoRecord}
        BY <2>1, <3>2, WatcherEngineGives
      <3>4. local'[q].rec \in {local[q].rec, Record(p), NoRecord}
        BY <2>1, LocalGives
      <3> QED  BY <3>1, <3>3, <3>4, HomeRecordTrue, NoRecordTrue DEF RecordsTrue, OldTrue
    <2>2. ASSUME NEW p \in Parties, Engine(p) \/ EngineFails(p)
          PROVE  OldTrue(q)
      <3>1. True(spend, engine'[q].rec)
        BY <2>2, EngineRecordsTrue
      <3>2. record'[q] \in {record[q], engine[p].rec}
        BY <2>2, HomeIsParty
           DEF Engine, EngineFails, EngineReads, EngineMarks, EngineSends, EngineWaits,
               EnginePersists, EngineFinalizes, NodeSaves, Typed
      <3>3. local'[q].rec \in {local[q].rec, Record(p), NoRecord}
        BY <2>2, LocalGives
      <3> QED  BY <3>1, <3>2, <3>3, HomeRecordTrue, NoRecordTrue DEF RecordsTrue, OldTrue
    <2>3. ASSUME NEW r \in recording, FundSaves(r), UNCHANGED <<watch, engine, entered>>
          PROVE  OldTrue(q)
      <3>1. UNCHANGED <<engine, local>>
        BY <2>3 DEF watch
      <3>2. True(spend, WithLeg(r.base))
        BY WithLegIsTrue DEF ReadingsTrue, Typed, Readings
      <3>3. record'[q] \in {record[q], WithLeg(r.base)}
        BY <2>3 DEF FundSaves, Typed, Readings
      <3> QED  BY <3>1, <3>2, <3>3 DEF RecordsTrue, OldTrue
    <2>4. ASSUME NEW p \in Parties, Chain(p) \/ FundReads(p), UNCHANGED outside
          PROVE  UNCHANGED <<record, engine, local>>
      BY <2>4 DEF Chain, Mine, Pass, Mature, FundReads, outside, watch
    <2>5. UNCHANGED vars => UNCHANGED <<record, engine, local>>
      BY DEF vars, watch
    <2> QED  BY <2>0, <2>1, <2>2, <2>3, <2>4, <2>5 DEF Next
  <1>2. Typed'
    BY TypedStep
  <1>3. \A q \in Parties : record'[q] \in Recs /\ engine'[q].rec \in Recs /\ local'[q].rec \in Recs
    BY <1>2 DEF Typed, Works, Looks
  <1>4. \A l \in Parties : spend[l] # "none" => spend'[l] = spend[l]
    BY SpendStays
  <1> QED  BY <1>1, <1>3, <1>4, TrueStays DEF OldTrue, RecordsTrue

LEMMA ReadingsStep ==
    Typed /\ RecordsTrue /\ ReadingsTrue /\ [Next]_vars => ReadingsTrue'
  <1> SUFFICES ASSUME Typed, RecordsTrue, ReadingsTrue, [Next]_vars, NEW r \in recording'
               PROVE  True(spend', r.base)
    BY DEF ReadingsTrue
  <1>1. \A l \in Parties : spend[l] # "none" => spend'[l] = spend[l]
    BY SpendStays
  <1>2. ASSUME UNCHANGED recording PROVE True(spend', r.base)
    <2>1. r.base \in Recs /\ True(spend, r.base)
      BY <1>2 DEF ReadingsTrue, Typed, Readings
    <2> QED  BY <1>1, <2>1, TrueStays
  <1>3. ASSUME NEW p \in Parties, FundReads(p) PROVE True(spend', r.base)
    <2>1. r \in recording \/ r = [node |-> Home(p), base |-> Record(p)]
      BY <1>3 DEF FundReads
    <2>2. r.base \in Recs /\ True(spend, r.base)
      BY <2>1, HomeRecordTrue DEF ReadingsTrue, Typed, Readings
    <2> QED  BY <1>1, <2>2, TrueStays
  <1>4. ASSUME NEW p \in Parties, Watcher(p) \/ Engine(p) \/ EngineFails(p) \/ Crash(p)
        PROVE  UNCHANGED recording
    BY <1>4 DEF Watcher, EngineFails, Crash, List, Look, Resume, Decide, Start, End,
                Engine, EngineReads, EngineMarks, EngineSends, EngineWaits, EnginePersists,
                EngineFinalizes, NodeSaves
  <1>5. ASSUME NEW p \in Parties, Arm(p) \/ Disarm(p) \/ Chain(p) PROVE UNCHANGED recording
    BY <1>5 DEF Arm, Disarm, Chain, Mine, Pass, Mature
  <1>6. ASSUME NEW x \in recording, FundSaves(x) PROVE UNCHANGED recording
    BY <1>6 DEF FundSaves
  <1>7. UNCHANGED vars => UNCHANGED recording
    BY DEF vars
  <1> QED  BY <1>2, <1>3, <1>4, <1>5, <1>6, <1>7 DEF Next

----------------------------------------------------------------------------
(* The engines and the ticks *)

LEMMA SpentStays ==
    ASSUME Typed, [Next]_vars, NEW q \in Parties, engine[q].kind \in Kinds,
           engine'[q].kind = engine[q].kind, Spent(q)
    PROVE  Spent(q)'
  <1>1. LegOf(q, engine[q].kind) \in Parties
    BY DEF LegOf, Peer, Parties
  <1> QED  BY <1>1, SpendStays DEF Spent, Kinds, LegOf, Peer

LEMMA EnginesStep == Typed /\ EnginesTrue /\ TicksTrue /\ [Next]_vars => EnginesTrue'
  <1> SUFFICES ASSUME Typed, EnginesTrue, TicksTrue, [Next]_vars, NEW q \in Parties
               PROVE  /\ engine'[q].at # "none" => engine'[q].kind \in Kinds
                      /\ engine'[q].at \in {"persist", "finalize", "ok"} => Spent(q)'
                      /\ engine'[q].at = "save" /\ engine'[q].next # "send" => Spent(q)'
    BY DEF EnginesTrue
  <1> DEFINE Kept == /\ engine'[q].at # "none" => engine'[q].kind \in Kinds
                     /\ engine'[q].at \in {"persist", "finalize", "ok"} => Spent(q)'
                     /\ engine'[q].at = "save" /\ engine'[q].next # "send" => Spent(q)'
  <1>0. CASE engine'[q] = engine[q]
    BY <1>0, SpentStays DEF EnginesTrue
  <1>1. CASE engine'[q] = NoEngine
    BY <1>1 DEF NoEngine
  <1>2. ASSUME NEW p \in Parties, Watcher(p) \/ Crash(p) \/ Arm(p) \/ Disarm(p) PROVE Kept
    <2>1. CASE Start(p) /\ q = p /\ engine'[q] = [NoEngine EXCEPT !.at = "read", !.kind = local[p].kind]
      BY <2>1 DEF Start, TicksTrue, NoEngine
    <2> QED  BY <1>0, <1>1, <1>2, <2>1, WatcherEngineGives
  <1>3. ASSUME NEW p \in Parties, NEW step, EngineTo(p, step), engine[p].at # "none",
               step \in {"persist", "finalize", "ok"} => Spent(p), step # "save"
        PROVE  Kept
    BY <1>3, EngineToGives, SpentStays DEF EnginesTrue
  <1>4. ASSUME NEW p \in Parties, NEW to, NEW new, NEW next, Transition(p, to, new, next),
               engine[p].at # "none", next # "send" => Spent(p)
        PROVE  Kept
    <2>1. CASE EngineTo(p, "failed")
      BY <1>3, <1>4, <2>1
    <2>2. CASE ~EngineTo(p, "failed")
      BY <1>0, <1>4, <2>2, TransitionGives, SpentStays DEF EnginesTrue
    <2> QED  BY <2>1, <2>2
  <1>5. ASSUME NEW p \in Parties, Engine(p) \/ EngineFails(p) PROVE Kept
    <2>1. CASE EngineReads(p)
      <3>1. ASSUME NEW step \in {"send", "mark"},
                   engine' = [engine EXCEPT ![p].rec = Record(p), ![p].at = step]
            PROVE  Kept
        <4>1. engine \in [Parties -> Works]
          BY DEF Typed
        <4>2. engine' = [engine EXCEPT ![p] = [engine[p] EXCEPT !.rec = Record(p), !.at = step]]
          BY <3>1, <4>1
        <4>3. q = p => engine'[q].at = step /\ engine'[q].kind = engine[q].kind
          BY <4>1, <4>2 DEF Works
        <4>4. q # p => engine'[q] = engine[q]
          BY <4>1, <4>2
        <4> QED  BY <1>0, <2>1, <4>3, <4>4 DEF EngineReads, At, EnginesTrue
      <3> QED  BY <1>3, <2>1, <3>1 DEF EngineReads, At
    <2>2. CASE EngineMarks(p)
      BY <1>4, <2>2 DEF EngineMarks, At
    <2>3. CASE EngineSends(p)
      BY <1>3, <2>3 DEF EngineSends, At
    <2>4. CASE EngineWaits(p)
      BY <1>3, <2>4 DEF EngineWaits, At, Enough, Spent
    <2>5. CASE EnginePersists(p)
      BY <1>3, <1>4, <2>5 DEF EnginePersists, At, EnginesTrue
    <2>6. CASE EngineFinalizes(p)
      <3> DEFINE o == Outcome(engine[p].rec)
      <3>1. \/ EngineTo(p, "failed") \/ EngineTo(p, "ok") \/ Transition(p, o, NoLegs, "ok")
        BY <2>6 DEF EngineFinalizes
      <3> HIDE DEF o
      <3> QED  BY <1>3, <1>4, <2>6, <3>1 DEF EngineFinalizes, At, EnginesTrue
    <2>7. CASE NodeSaves(p)
      <3>1. engine[p].next \in {"none", "send", "finalize", "ok"}
        BY DEF Typed, Works
      <3> QED  BY <1>3, <2>7, <3>1 DEF NodeSaves, At, EnginesTrue
    <2>8. CASE EngineFails(p)
      BY <1>3, <2>8 DEF EngineFails, Running
    <2> QED  BY <1>5, <2>1, <2>2, <2>3, <2>4, <2>5, <2>6, <2>7, <2>8 DEF Engine
  <1>6. ASSUME UNCHANGED engine PROVE Kept
    BY <1>0, <1>6
  <1>7. UNCHANGED vars => Kept
    BY <1>0 DEF vars
  <1> QED  BY <1>2, <1>5, <1>6, <1>7 DEF Next, outside

\* The steps of others leave the jobs and the ticks alone.
LEMMA Elsewhere ==
    ASSUME [Next]_vars
    PROVE  \/ UNCHANGED <<watch, entered>>
           \/ \E p \in Parties : Watcher(p) \/ Crash(p) \/ Arm(p) \/ Disarm(p)
  <1>1. ASSUME NEW p \in Parties, Engine(p) \/ EngineFails(p)
        PROVE  UNCHANGED <<watch, entered>>
    BY <1>1 DEF Engine, EngineFails, EngineReads, EngineMarks, EngineSends, EngineWaits,
                EnginePersists, EngineFinalizes, NodeSaves
  <1> QED  BY <1>1 DEF Next, outside, vars

LEMMA TicksStep == Typed /\ TicksTrue /\ [Next]_vars => TicksTrue'
  <1> SUFFICES ASSUME Typed, TicksTrue, [Next]_vars, NEW q \in Parties
               PROVE  /\ pc'[q] # "idle" => local'[q].listed \in Active
                      /\ pc'[q] = "start" => local'[q].listed = "ARMED" /\ local'[q].kind \in Kinds
    BY DEF TicksTrue
  <1> DEFINE Kept == /\ pc'[q] # "idle" => local'[q].listed \in Active
                     /\ pc'[q] = "start" => local'[q].listed = "ARMED" /\ local'[q].kind \in Kinds
  <1>0. local \in [Parties -> Looks] /\ pc \in [Parties -> {"idle", "look", "decide", "start", "run"}]
    BY DEF Typed
  <1>1. CASE UNCHANGED <<pc, local>>
    BY <1>1 DEF TicksTrue
  <1>2. ASSUME NEW p \in Parties, Idle(p) PROVE Kept
    BY <1>0, <1>2 DEF Idle, Goto, TicksTrue
  <1>3. ASSUME NEW p \in Parties, List(p) PROVE Kept
    <2>1. local'[q] = IF q = p THEN [local[p] EXCEPT !.listed = job[p]] ELSE local[q]
      BY <1>0, <1>3 DEF List
    <2>2. q = p => local'[q].listed = job[p]
      BY <1>0, <2>1 DEF Looks
    <2> QED  BY <1>0, <1>3, <2>1, <2>2 DEF List, Goto, TicksTrue
  <1>4. ASSUME NEW p \in Parties, Goto(p, "decide"), pc[p] = "look",
               local' = [local EXCEPT ![p].rec = Record(p)]
        PROVE  Kept
    <2>1. local'[q] = IF q = p THEN [local[p] EXCEPT !.rec = Record(p)] ELSE local[q]
      BY <1>0, <1>4
    <2>2. q = p => local'[q].listed = local[q].listed
      BY <1>0, <2>1 DEF Looks
    <2> QED  BY <1>0, <1>4, <2>1, <2>2 DEF Goto, TicksTrue
  <1>5. ASSUME NEW p \in Parties, NEW kind \in Kinds, Choose(p, kind), local[p].listed = "ARMED"
        PROVE  Kept
    <2>1. local'[q] = IF q = p THEN [local[p] EXCEPT !.kind = kind] ELSE local[q]
      BY <1>0, <1>5 DEF Choose
    <2>2. q = p => local'[q].listed = local[q].listed /\ local'[q].kind = kind
      BY <1>0, <2>1 DEF Looks
    <2> QED  BY <1>0, <1>5, <2>1, <2>2 DEF Choose, Goto, TicksTrue, Active
  <1>6. ASSUME NEW p \in Parties, Start(p) PROVE Kept
    <2>1. CASE Goto(p, "run") /\ UNCHANGED local
      BY <1>0, <1>6, <2>1 DEF Start, Goto, TicksTrue
    <2> QED  BY <1>2, <1>6, <2>1 DEF Start, Handle
  <1>7. ASSUME NEW p \in Parties, Watcher(p) \/ Crash(p) \/ Arm(p) \/ Disarm(p) PROVE Kept
    <2>1. CASE Look(p)
      BY <1>2, <1>4, <2>1 DEF Look, Handle
    <2>2. CASE Decide(p)
      BY <1>2, <1>5, <2>2 DEF Decide, Kinds
    <2>3. CASE Resume(p) \/ End(p) \/ Crash(p) \/ Arm(p) \/ Disarm(p)
      BY <1>1, <1>2, <2>3 DEF Resume, End, Crash, Arm, Disarm
    <2> QED  BY <1>3, <1>6, <1>7, <2>1, <2>2, <2>3 DEF Watcher
  <1> QED  BY <1>1, <1>7, Elsewhere DEF watch

----------------------------------------------------------------------------
(* One engine, and the end of a job *)

LEMMA IdleUnspent ==
    ASSUME Typed, Unspent, NEW p \in Parties, Idle(p), UNCHANGED entered,
           \A q \in Parties : job'[q] \in {"none", "ARMED", "DISARMED"} => entered[q] = 0
    PROVE  Unspent'
  BY DEF Typed, Unspent, Idle, Goto, Nothing

LEMMA UnspentStep == Typed /\ TicksTrue /\ Unspent /\ [Next]_vars => Unspent'
  <1> SUFFICES ASSUME Typed, TicksTrue, Unspent, [Next]_vars PROVE Unspent'
    OBVIOUS
  <1>0. /\ local \in [Parties -> Looks] /\ job \in [Parties -> Jobs]
        /\ pc \in [Parties -> {"idle", "look", "decide", "start", "run"}]
        /\ entered \in [Parties -> Nat]
    BY DEF Typed
  <1>1. CASE UNCHANGED <<watch, entered>>
    BY <1>1 DEF watch, Unspent
  <1>2. ASSUME NEW p \in Parties, List(p) PROVE Unspent'
    <2>1. \A q \in Parties : local'[q].listed = IF q = p THEN job[p] ELSE local[q].listed
      <3>1. \A q \in Parties : local'[q] = IF q = p THEN [local[p] EXCEPT !.listed = job[p]] ELSE local[q]
        BY <1>0, <1>2 DEF List
      <3> QED  BY <1>0, <3>1 DEF Looks
    <2> QED  BY <1>0, <1>2, <2>1 DEF List, Goto, Unspent
  <1>3. ASSUME NEW p \in Parties, Look(p) PROVE Unspent'
    <2>1. CASE Handle(p)
      BY <1>0, <1>3, <2>1, IdleUnspent DEF Look, Handle, Finish, TicksTrue, Unspent, Active
    <2>2. CASE Goto(p, "decide") /\ local' = [local EXCEPT ![p].rec = Record(p)] /\ UNCHANGED job
      <3>1. \A q \in Parties : local'[q].listed = local[q].listed
        <4>1. \A q \in Parties : local'[q] = IF q = p THEN [local[p] EXCEPT !.rec = Record(p)] ELSE local[q]
          BY <1>0, <2>2
        <4> QED  BY <1>0, <4>1 DEF Looks
      <3> QED  BY <1>0, <1>3, <2>2, <3>1 DEF Look, Goto, Unspent
    <2> QED  BY <1>3, <2>1, <2>2 DEF Look
  <1>4. ASSUME NEW p \in Parties, Resume(p) PROVE Unspent'
    BY <1>0, <1>4, IdleUnspent DEF Resume, Finish, Unspent
  <1>5. ASSUME NEW p \in Parties, Decide(p) PROVE Unspent'
    <2>1. ASSUME NEW kind, Choose(p, kind), UNCHANGED job PROVE Unspent'
      <3>1. \A q \in Parties : local'[q].listed = local[q].listed
        <4>1. \A q \in Parties : local'[q] = IF q = p THEN [local[p] EXCEPT !.kind = kind] ELSE local[q]
          BY <1>0, <2>1 DEF Choose
        <4> QED  BY <1>0, <4>1 DEF Looks
      <3> QED  BY <1>0, <1>5, <2>1, <3>1 DEF Decide, Choose, Goto, Unspent
    <2>2. CASE Finish(p, "HOLD_UNKNOWN") /\ Idle(p)
      BY <1>0, <1>5, <2>2, IdleUnspent DEF Decide, Finish, Unspent
    <2>3. CASE Idle(p) /\ UNCHANGED job
      BY <1>5, <2>3, IdleUnspent DEF Decide, Unspent
    <2> QED  BY <1>5, <2>1, <2>2, <2>3 DEF Decide
  <1>6. ASSUME NEW p \in Parties, Start(p) PROVE Unspent'
    <2>1. CASE Handle(p) /\ UNCHANGED <<engine, entered>>
      BY <1>0, <1>6, <2>1, IdleUnspent DEF Start, Handle, Finish, TicksTrue, Unspent
    <2>2. CASE Intend(p) /\ Goto(p, "run") /\ UNCHANGED local
               /\ entered' = [entered EXCEPT ![p] = IF @ < 2 THEN @ + 1 ELSE @]
      <3>1. entered[p] = 0
        BY <1>6 DEF Start, TicksTrue, Unspent
      <3>2. \A q \in Parties : entered'[q] = IF q = p THEN 1 ELSE entered[q]
        BY <1>0, <2>2, <3>1
      <3> QED  BY <1>0, <2>2, <3>2 DEF Intend, Finish, Goto, Unspent
    <2> QED  BY <1>6, <2>1, <2>2 DEF Start
  <1>7. ASSUME NEW p \in Parties, End(p) PROVE Unspent'
    BY <1>0, <1>7, IdleUnspent DEF End, Finish, Failed, Unspent
  <1>8. ASSUME NEW p \in Parties, Crash(p) PROVE Unspent'
    BY <1>8, IdleUnspent DEF Crash, Unspent
  <1>9. ASSUME NEW p \in Parties, Arm(p) \/ Disarm(p) PROVE Unspent'
    BY <1>0, <1>9 DEF Arm, Disarm, Finish, Unspent
  <1> QED
    BY <1>1, <1>2, <1>3, <1>4, <1>5, <1>6, <1>7, <1>8, <1>9, Elsewhere DEF Watcher

LEMMA OutStep ==
    Typed /\ RecordsTrue /\ EnginesTrue /\ TicksTrue /\ CompleteIsOut /\ [Next]_vars
        => CompleteIsOut'
  <1> SUFFICES ASSUME Typed, RecordsTrue, EnginesTrue, TicksTrue, CompleteIsOut, [Next]_vars,
                      NEW q \in Parties, job'[q] = "COMPLETE"
               PROVE  spend'[Peer(q)] = "claim" \/ spend'[q] = "refund"
    BY DEF CompleteIsOut
  <1> DEFINE Out == spend[Peer(q)] = "claim" \/ spend[q] = "refund"
  <1>0. job \in [Parties -> Jobs] /\ Peer(q) \in Parties
    BY DEF Typed, Peer, Parties
  <1>1. CASE job'[q] = job[q]
    BY <1>0, <1>1, SpendStays DEF CompleteIsOut
  <1>2. ASSUME NEW p \in Parties, Watcher(p) \/ Crash(p) \/ Arm(p) \/ Disarm(p), job'[q] # job[q]
        PROVE  Out
    <2>1. CASE Handle(p)
      BY <1>0, <1>2, <2>1 DEF Handle, Finish, Typed, Looks, Active
    <2>2. CASE Look(p) \/ Start(p) \/ List(p)
      BY <1>0, <1>2, <2>1, <2>2 DEF Look, Start, List, Intend, Finish
    <2>3. CASE Resume(p)
      <3>1. Done(q) /\ p = q
        BY <1>0, <1>2, <2>3 DEF Resume, Finish
      <3> QED  BY <3>1 DEF Done, RecordsTrue, True
    <2>4. CASE Decide(p) \/ Crash(p) \/ Arm(p) \/ Disarm(p)
      BY <1>0, <1>2, <2>4 DEF Decide, Crash, Arm, Disarm, Finish
    <2>5. CASE End(p)
      <3>1. At(q, "ok") /\ p = q
        BY <1>0, <1>2, <2>5 DEF End, Finish, Failed
      <3>2. engine[q].kind \in Kinds /\ Spent(q)
        BY <3>1 DEF At, EnginesTrue
      <3> QED  BY <3>2 DEF Spent, LegOf, Kinds
    <2> QED  BY <1>2, <2>2, <2>3, <2>4, <2>5 DEF Watcher
  <1>3. Out => spend'[Peer(q)] = "claim" \/ spend'[q] = "refund"
    BY <1>0, SpendStays
  <1> QED  BY <1>1, <1>2, <1>3, Elsewhere DEF watch

----------------------------------------------------------------------------
(* Theorems *)

LEMMA InitInv == Init => Inv
  <1> SUFFICES ASSUME Init PROVE Inv
    OBVIOUS
  <1>1. Typed
    BY InitTyped
  <1>2. \A p \in Parties : /\ record[p] = Fresh /\ engine[p] = NoEngine /\ local[p] = Nothing
                          /\ job[p] = "none" /\ pc[p] = "idle" /\ entered[p] = 0
    BY DEF Init, RecordInit
  <1>3. True(spend, Fresh) /\ recording = {}
    BY DEF True, Fresh, Final, Init, RecordInit
  <1>4. NoEngine.rec = NoRecord /\ NoEngine.at = "none" /\ Nothing.rec = NoRecord
    BY DEF NoEngine, Nothing
  <1> QED
    BY <1>1, <1>2, <1>3, <1>4, NoRecordTrue
       DEF Inv, RecordsTrue, ReadingsTrue, EnginesTrue, TicksTrue, Unspent, CompleteIsOut

LEMMA StepInv == Inv /\ [Next]_vars => Inv'
  BY TypedStep, RecordsStep, ReadingsStep, EnginesStep, TicksStep, UnspentStep, OutStep DEF Inv

LEMMA AlwaysInv == Spec => []Inv
  BY InitInv, StepInv, PTL DEF Spec

\* A watcher never starts an engine a second time, over crashes and lost outcomes
\* (_set_action_started, tick_one).
THEOREM EngineEnteredOnce == Spec => []EnteredOnce
  <1>1. Inv => EnteredOnce
    BY DEF Inv, Unspent, EnteredOnce
  <1> QED  BY <1>1, AlwaysInv, PTL

\* The job of a party is complete only when the party has the other's leg or its own
\* again (tick_one, the end of the engine).
THEOREM CompleteMeansOut == Spec => []CompleteIsOut
  <1>1. Inv => CompleteIsOut
    BY DEF Inv
  <1> QED  BY <1>1, AlwaysInv, PTL

\* The last word of a record is true of both legs, as far as the record knows them funded:
\* after SETTLED they are claimed, after REFUNDED they are refunded, after
\* RESOLVED_MIXED one of each (transitionRecord, the check of a terminal state).
VerdictTrue ==
    \A p \in Parties : LET r == record[p] IN
        /\ r.state = "SETTLED" => \A l \in Parties : spend[l] = "claim"
        /\ r.state = "REFUNDED" => \A l \in r.funded : spend[l] = "refund"
        /\ r.state = "RESOLVED_MIXED" =>
              /\ \A l \in Parties : spend[l] # "none"
              /\ \E l \in Parties : spend[l] = "claim"
              /\ \E l \in Parties : spend[l] = "refund"

THEOREM VerdictsAreTrue == Spec => []VerdictTrue
  <1>1. ASSUME Inv, NEW p \in Parties
        PROVE  LET r == record[p] IN
                 /\ r.state = "SETTLED" => \A l \in Parties : spend[l] = "claim"
                 /\ r.state = "REFUNDED" => \A l \in r.funded : spend[l] = "refund"
                 /\ r.state = "RESOLVED_MIXED" =>
                       /\ \A l \in Parties : spend[l] # "none"
                       /\ \E l \in Parties : spend[l] = "claim"
                       /\ \E l \in Parties : spend[l] = "refund"
    <2> DEFINE r == record[p]
    <2>1. r \in Recs /\ True(spend, r)
      BY <1>1 DEF Inv, Typed, RecordsTrue
    <2> HIDE DEF r
    <2>2. r.state = "SETTLED" => \A l \in Parties : spend[l] = "claim"
      BY <2>1 DEF True, Final, Outcome, Recs
    <2>3. r.state = "REFUNDED" => \A l \in r.funded : spend[l] = "refund"
      BY <2>1 DEF True, Final, Outcome, Recs
    <2>4. r.state = "RESOLVED_MIXED" =>
             /\ \A l \in Parties : spend[l] # "none"
             /\ \E l \in Parties : spend[l] = "claim"
             /\ \E l \in Parties : spend[l] = "refund"
      BY <2>1 DEF True, Final, Outcome, Recs
    <2> QED  BY <2>2, <2>3, <2>4 DEF r
  <1>2. Inv => VerdictTrue
    BY <1>1 DEF VerdictTrue
  <1> QED  BY <1>2, AlwaysInv, PTL

----------------------------------------------------------------------------
(* The refinement of SwapOutcome, until a funding overtakes: the last word is said
   once, for two spent legs, and never changes, although the transitions of two
   engines cross at a shared node and evidence can be overwritten there.  A last word rests on the evidence of
   both parties, each brought by the only engine that the party ever has, so an
   engine that is still about to write its evidence excludes it. *)

Early == {"none", "CREATED", "ONE_SIDE_FUNDED"}

\* A job is only there when both legs are funded in the record.
Underway ==
    \A p \in Parties :
        /\ pc[p] # "idle" \/ engine[p].at # "none" => job[p] # "none"
        /\ job[p] # "none" => Record(p).state \notin Early
        /\ engine[p].at = "save" => engine[p].rec.state \notin Early
        /\ entered[p] = 0 => engine[p].at = "none"

Whole(r) ==
    /\ r.state \notin Early => r.funded = Parties
    /\ r.state = "ONE_SIDE_FUNDED" => First \in r.funded

\* The evidence that the engine of p brings.
By(p, r) == Peer(p) \in r.claims \/ p \in r.refunds
OneEach(r) == \A p \in Parties : ~(Peer(p) \in r.claims /\ p \in r.refunds)

RecordsWhole ==
    \A p \in Parties :
        /\ Whole(record[p]) /\ Whole(engine[p].rec)
        /\ OneEach(record[p]) /\ OneEach(engine[p].rec)

\* The engine of p has not written its evidence and may still do so.
Before(p) ==
    \/ entered[p] = 0
    \/ engine[p].at \in {"read", "mark", "send", "wait", "persist"}
    \/ engine[p].at = "save" /\ engine[p].next # "ok"

NotYet ==
    \A p \in Parties : Before(p) =>
        /\ \A h \in Parties : ~By(p, record[h])
        /\ ~By(p, engine[Peer(p)].rec)
        /\ engine[p].at = "save" /\ engine[p].next = "send" => ~By(p, engine[p].rec)

LastSaves ==
    \A p \in Parties : engine[p].at = "save" =>
        (engine[p].next = "ok" <=> engine[p].rec.state \in Final)

VerdictInv == Underway /\ RecordsWhole /\ NotYet /\ LastSaves

----------------------------------------------------------------------------
(* The shapes that a step can have, as far as the records can tell *)

Others == <<watch, entered>>

Moves(p) == \E step \in {"wait", "persist", "failed", "ok"} :
    /\ EngineTo(p, step) /\ engine[p].at # "none"
    /\ step \in {"wait", "persist"} => engine[p].at \in {"send", "wait"}
    /\ UNCHANGED <<record, Others>>
Reads(p) == \E step \in {"send", "mark"} :
    /\ engine[p].at = "read"
    /\ engine' = [engine EXCEPT ![p].rec = Record(p), ![p].at = step]
    /\ UNCHANGED <<record, Others>>
Asks(p) == \E to \in States \ Early, new \in Evidences, next \in {"send", "finalize", "ok"} :
    /\ Transition(p, to, new, next) /\ ~EngineTo(p, "failed")
    /\ engine[p].at = CASE next = "send" -> "mark" [] next = "finalize" -> "persist"
                         [] next = "ok" -> "finalize"
    /\ new = IF next = "finalize" THEN Evidence(p) ELSE NoLegs
    /\ next = "ok" <=> to \in Final
    /\ UNCHANGED <<record, Others>>
Watches(p) == Watcher(p) \/ Crash(p) \/ Arm(p) \/ Disarm(p)

LEMMA TransitionShape ==
    ASSUME NEW p \in Parties, NEW to \in States \ Early, NEW new \in Evidences,
           NEW next \in {"send", "finalize", "ok"}, Transition(p, to, new, next),
           engine[p].at = CASE next = "send" -> "mark" [] next = "finalize" -> "persist"
                            [] next = "ok" -> "finalize",
           new = IF next = "finalize" THEN Evidence(p) ELSE NoLegs,
           next = "ok" <=> to \in Final, UNCHANGED <<record, Others>>
    PROVE  Moves(p) \/ Asks(p)
  <1>1. CASE EngineTo(p, "failed")
    BY <1>1 DEF Moves
  <1>2. CASE ~EngineTo(p, "failed")
    BY <1>2 DEF Asks
  <1> QED  BY <1>1, <1>2

LEMMA EngineShape ==
    ASSUME Typed, NEW p \in Parties, Engine(p) \/ EngineFails(p)
    PROVE  Moves(p) \/ Reads(p) \/ Asks(p) \/ NodeSaves(p)
  <1>1. CASE EngineReads(p)
    BY <1>1 DEF EngineReads, Moves, Reads, At, Others
  <1>2. CASE EngineMarks(p)
    <2>1. "REFUND_PENDING" \in States \ Early /\ "REFUND_PENDING" \notin Final
      BY DEF States, Early, Final
    <2> QED  BY <1>2, <2>1, NoLegsIsEvidence, TransitionShape DEF EngineMarks, At, Others
  <1>3. CASE EngineSends(p)
    BY <1>3 DEF EngineSends, Moves, At, Others
  <1>4. CASE EngineWaits(p)
    BY <1>4 DEF EngineWaits, Moves, At, Others
  <1>5. CASE EnginePersists(p)
    <2>1. Target(p) \in States \ Early /\ Target(p) \notin Final
      BY DEF Target, States, Early, Final
    <2>2. Evidence(p) \in Evidences
      BY NoLegsIsEvidence DEF Evidence, Evidences, LegOf, Parties, Peer
    <2>3. CASE EngineTo(p, "failed")
      BY <1>5, <2>3 DEF EnginePersists, Moves, At, Others
    <2>4. CASE Transition(p, Target(p), Evidence(p), "finalize")
      BY <1>5, <2>1, <2>2, <2>4, TransitionShape DEF EnginePersists, At, Others
    <2> QED  BY <1>5, <2>3, <2>4 DEF EnginePersists
  <1>6. CASE EngineFinalizes(p)
    <2> DEFINE o == Outcome(engine[p].rec)
    <2>1. o \in Final \cup {"none", "error"}
      BY OutcomeIsState DEF Typed, Works
    <2>2. \/ EngineTo(p, "failed") \/ EngineTo(p, "ok")
          \/ o \in Final /\ Transition(p, o, NoLegs, "ok")
      BY <1>6, <2>1 DEF EngineFinalizes
    <2> HIDE DEF o
    <2>3. CASE EngineTo(p, "failed") \/ EngineTo(p, "ok")
      BY <1>6, <2>3 DEF EngineFinalizes, Moves, At, Others
    <2>4. CASE o \in Final /\ Transition(p, o, NoLegs, "ok")
      <3>1. o \in States \ Early
        BY <2>4 DEF Final, States, Early
      <3> QED
        BY <1>6, <2>4, <3>1, NoLegsIsEvidence, TransitionShape DEF EngineFinalizes, At, Others
    <2> QED  BY <2>2, <2>3, <2>4
  <1>7. CASE EngineFails(p)
    BY <1>7 DEF EngineFails, Moves, Running, Others
  <1> QED  BY <1>1, <1>2, <1>3, <1>4, <1>5, <1>6, <1>7 DEF Engine

\* A funding that does not overtake: it writes the successor of the record, or the record.
Funds(p) ==
    /\ record[p].state \in {"CREATED", "ONE_SIDE_FUNDED"}
    /\ record' = [record EXCEPT ![p] = WithLeg(record[p])]
    /\ UNCHANGED <<engine, Others>>

LEMMA FundShape ==
    ASSUME Typed, NEW r \in recording, FundSaves(r), UNCHANGED <<watch, engine, entered>>,
           ~overtaken'
    PROVE  UNCHANGED <<record, engine, Others>> \/ \E p \in Parties : Funds(p)
  <1>1. /\ r.node \in Parties /\ r.base.state \in {"CREATED", "ONE_SIDE_FUNDED"}
        /\ record \in [Parties -> Recs]
    BY DEF Typed, Readings
  <1>2. /\ record' = [record EXCEPT ![r.node] = WithLeg(r.base)]
        /\ record[r.node] \in {r.base, WithLeg(r.base)}
    BY DEF FundSaves
  <1>3. CASE record[r.node] = r.base
    <2>1. Funds(r.node)
      BY <1>1, <1>2, <1>3 DEF Funds, Others
    <2> QED  BY <1>1, <2>1
  <1>4. CASE record[r.node] = WithLeg(r.base)
    <2>1. record' = record
      BY <1>1, <1>2, <1>4
    <2> QED  BY <2>1 DEF Others
  <1> QED  BY <1>2, <1>3, <1>4

LEMMA Shapes ==
    ASSUME Typed, [Next]_vars, ~overtaken'
    PROVE  \/ UNCHANGED <<record, engine, Others>>
           \/ \E p \in Parties :
                 Moves(p) \/ Reads(p) \/ Asks(p) \/ NodeSaves(p) \/ Watches(p) \/ Funds(p)
  <1>1. ASSUME NEW p \in Parties, Chain(p) \/ FundReads(p), UNCHANGED outside
        PROVE  UNCHANGED <<record, engine, Others>>
    BY <1>1 DEF Chain, Mine, Pass, Mature, FundReads, outside, watch, Others
  <1>2. UNCHANGED vars => UNCHANGED <<record, engine, Others>>
    BY DEF vars, Others
  <1> QED  BY <1>1, <1>2, EngineShape, FundShape DEF Next, Watches

\* Of each shape, what becomes of the engines.
LEMMA ReadsGives ==
    ASSUME Typed, NEW p \in Parties, Reads(p), NEW q \in Parties
    PROVE  /\ q # p => engine'[q] = engine[q]
           /\ q = p => /\ engine'[q].at \in {"send", "mark"}
                      /\ engine'[q].rec = Record(p)
  <1>1. PICK step \in {"send", "mark"} :
              engine' = [engine EXCEPT ![p].rec = Record(p), ![p].at = step]
    BY DEF Reads
  <1> DEFINE w == [engine[p] EXCEPT !.rec = Record(p), !.at = step]
  <1>2. engine' = [engine EXCEPT ![p] = w] /\ engine \in [Parties -> Works]
    BY <1>1 DEF Typed
  <1>3. w.at = step /\ w.rec = Record(p)
    BY <1>2 DEF Works
  <1> HIDE DEF w
  <1> QED  BY <1>2, <1>3

LEMMA WatchesGives ==
    ASSUME Typed, NEW p \in Parties, Watches(p), NEW q \in Parties
    PROVE  /\ UNCHANGED record
           /\ \/ engine'[q] = engine[q]
              \/ engine'[q] = NoEngine /\ ~Start(p)
              \/ Start(p) /\ q = p /\ engine'[q].at = "read" /\ engine'[q].rec = NoRecord
  <1>1. UNCHANGED record
    BY DEF Watches, Watcher, Crash, Arm, Disarm, List, Look, Resume, Decide, Start, End
  <1>2. LET w == [NoEngine EXCEPT !.at = "read", !.kind = local[p].kind]
        IN  w.at = "read" /\ w.rec = NoRecord
    BY DEF NoEngine
  <1> QED  BY <1>1, <1>2, WatcherEngineGives DEF Watches

----------------------------------------------------------------------------
(* A job is only there when both legs are funded *)

LEMMA WatchesKeepJobs ==
    ASSUME Typed, TicksTrue, Underway, NEW p \in Parties, Watches(p), NEW q \in Parties
    PROVE  /\ job[q] # "none" => job'[q] # "none"
           /\ job[q] = "none" /\ job'[q] # "none" => Record(q).state \notin Early
           /\ pc'[q] # "idle" => job'[q] # "none"
           /\ engine'[q].at # "none" => job'[q] # "none"
           /\ entered'[q] = 0 => entered[q] = 0 /\ engine'[q].at = "none"
           /\ UNCHANGED shared
  <1>0. /\ job \in [Parties -> Jobs] /\ entered \in [Parties -> Nat]
        /\ pc \in [Parties -> {"idle", "look", "decide", "start", "run"}]
        /\ local \in [Parties -> Looks]
    BY DEF Typed
  <1>1. UNCHANGED shared
    BY DEF Watches, Watcher, Crash, Arm, Disarm, List, Look, Resume, Decide, Start, End, chains
  <1>2. job[q] # "none" => job'[q] # "none"
    <2>1. Handle(p) /\ local[p].listed \in Active /\ job[q] # "none" => job'[q] # "none"
      BY <1>0 DEF Handle, Finish, Active
    <2>2. (Look(p) \/ Start(p)) /\ job[q] # "none" => job'[q] # "none"
      BY <1>0, <2>1 DEF Look, Start, Intend, Finish, TicksTrue
    <2>3. ~(Look(p) \/ Start(p)) /\ job[q] # "none" => job'[q] # "none"
      BY <1>0 DEF Watches, Watcher, Crash, Arm, Disarm, List, Resume, Decide, End, Finish, Failed
    <2> QED  BY <2>2, <2>3
  <1>3. job[q] = "none" /\ job'[q] # "none" => Record(q).state \notin Early
    <2>1. Arm(p) /\ job[q] = "none" /\ job'[q] # "none" => Record(q).state \notin Early
      BY <1>0 DEF Arm, Finish, Claimable, Early
    <2>2. job[p] = "none" => pc[p] = "idle" /\ engine[p].at = "none"
      BY DEF Underway
    <2>3. q # p => job'[q] = job[q]
      BY <1>0 DEF Watches, Watcher, Crash, Arm, Disarm, List, Look, Resume, Decide, Start, End,
                  Handle, Finish, Intend
    <2>4. pc[p] = "idle" /\ job[p] = "none" /\ ~Arm(p) => job'[p] = "none"
      BY <1>0 DEF Watches, Watcher, Crash, Disarm, List, Look, Resume, Decide, Start, End, Active
    <2> QED  BY <2>1, <2>2, <2>3, <2>4
  <1>4. pc'[q] # "idle" => job'[q] # "none"
    <2>1. Idle(p) => (pc'[q] # "idle" => pc'[q] = pc[q])
      BY <1>0 DEF Idle, Goto
    <2>2. pc'[q] # "idle" => pc[q] # "idle" \/ job[q] # "none"
      BY <1>0, <2>1
         DEF Watches, Watcher, Crash, Arm, Disarm, List, Look, Resume, Decide, Start, End,
             Handle, Goto, Choose, Active
    <2> QED  BY <1>2, <2>2 DEF Underway
  <1>5. engine'[q].at # "none" => job'[q] # "none"
    <2>1. engine'[q].at # "none" => engine[q].at # "none" \/ (Start(p) /\ q = p)
      BY WatchesGives DEF NoEngine
    <2>2. Start(p) => pc[p] # "idle"
      BY DEF Start
    <2> QED  BY <1>2, <2>1, <2>2 DEF Underway
  <1>6. entered'[q] = 0 => entered[q] = 0 /\ engine'[q].at = "none"
    <2>1. CASE Start(p) /\ q = p
      BY <1>0, <2>1 DEF Start, Underway
    <2>2. CASE ~Start(p) \/ q # p
      <3>1. entered'[q] = entered[q]
        BY <1>0, <2>2 DEF Watches, Watcher, Crash, Arm, Disarm, List, Look, Resume, Decide, Start, End
      <3>2. engine[q].at = "none" => engine'[q].at = "none"
        BY <2>2, WatchesGives DEF NoEngine
      <3> QED  BY <3>1, <3>2 DEF Underway
    <2> QED  BY <2>1, <2>2
  <1> QED  BY <1>1, <1>2, <1>3, <1>4, <1>5, <1>6

LEMMA SharedStays == ASSUME [Next]_vars PROVE UNCHANGED shared
  <1>1. ASSUME NEW p \in Parties, Engine(p) \/ EngineFails(p) PROVE UNCHANGED shared
    BY <1>1 DEF Engine, EngineFails, EngineReads, EngineMarks, EngineSends, EngineWaits,
                EnginePersists, EngineFinalizes, NodeSaves, chains
  <1>2. ASSUME NEW p \in Parties, FundReads(p) \/ Chain(p) PROVE UNCHANGED shared
    BY <1>2 DEF FundReads, Chain, Mine, Pass, Mature, chains
  <1>3. ASSUME NEW p \in Parties, Watcher(p) \/ Crash(p) \/ Arm(p) \/ Disarm(p)
        PROVE  UNCHANGED shared
    BY <1>3 DEF Watcher, Crash, Arm, Disarm, List, Look, Resume, Decide, Start, End, chains
  <1>4. ASSUME NEW r \in recording, FundSaves(r) PROVE UNCHANGED shared
    BY <1>4 DEF FundSaves, chains
  <1> QED  BY <1>1, <1>2, <1>3, <1>4 DEF Next, vars, chains

\* A record that is no longer early stays so.
LEMMA LateStays ==
    ASSUME Typed, Underway, [Next]_vars, ~overtaken', NEW q \in Parties,
           Record(q).state \notin Early
    PROVE  Record(q)'.state \notin Early
  <1>1. UNCHANGED shared
    BY SharedStays
  <1>2. Home(q)' = Home(q) /\ Home(q) \in Parties
    BY <1>1, HomeIsParty DEF Home
  <1>3. CASE UNCHANGED record
    BY <1>2, <1>3 DEF Record
  <1>4. ASSUME NEW p \in Parties, NodeSaves(p) PROVE record'[Home(q)].state \notin Early
    BY <1>2, <1>4, HomeIsParty DEF NodeSaves, At, Underway, Record, Typed
  <1>5. ASSUME NEW p \in Parties, Funds(p) PROVE record'[Home(q)].state \notin Early
    BY <1>2, <1>5 DEF Funds, Early, Record, Typed
  <1>6. UNCHANGED record \/ \E p \in Parties : NodeSaves(p) \/ Funds(p)
    BY Shapes, WatchesGives DEF Moves, Reads, Asks
  <1> QED  BY <1>2, <1>3, <1>4, <1>5, <1>6 DEF Record

LEMMA UnderwayStep ==
    Typed /\ TicksTrue /\ Underway /\ [Next]_vars /\ ~overtaken' => Underway'
  <1> SUFFICES ASSUME Typed, TicksTrue, Underway, [Next]_vars, ~overtaken', NEW q \in Parties
               PROVE  /\ pc'[q] # "idle" \/ engine'[q].at # "none" => job'[q] # "none"
                      /\ job'[q] # "none" => Record(q)'.state \notin Early
                      /\ engine'[q].at = "save" => engine'[q].rec.state \notin Early
                      /\ entered'[q] = 0 => engine'[q].at = "none"
    BY DEF Underway
  <1> DEFINE Kept ==
        /\ pc'[q] # "idle" \/ engine'[q].at # "none" => job'[q] # "none"
        /\ job'[q] # "none" => Record(q)'.state \notin Early
        /\ engine'[q].at = "save" => engine'[q].rec.state \notin Early
        /\ entered'[q] = 0 => engine'[q].at = "none"
  <1>1. job[q] # "none" => Record(q)'.state \notin Early
    BY LateStays DEF Underway
  <1>2. ASSUME UNCHANGED Others, engine[q].at = "none" => engine'[q].at = "none",
               engine'[q].at = "save" => engine'[q].rec.state \notin Early
        PROVE  Kept
    BY <1>1, <1>2 DEF Others, watch, Underway
  <1>3. CASE UNCHANGED <<record, engine, Others>>
    BY <1>2, <1>3 DEF Underway
  <1>4. ASSUME NEW p \in Parties, Moves(p) PROVE Kept
    <2>1. PICK step \in {"wait", "persist", "failed", "ok"} : EngineTo(p, step)
      BY <1>4 DEF Moves
    <2>2. engine[q].at = "none" => engine'[q].at = "none"
      BY <1>4, <2>1, EngineToGives DEF Moves
    <2>3. engine'[q].at = "save" => engine'[q].rec.state \notin Early
      BY <2>1, EngineToGives DEF Underway
    <2> QED  BY <1>2, <1>4, <2>2, <2>3 DEF Moves
  <1>5. ASSUME NEW p \in Parties, Reads(p) PROVE Kept
    BY <1>2, <1>5, ReadsGives DEF Reads, Underway
  <1>6. ASSUME NEW p \in Parties, Asks(p) PROVE Kept
    <2>1. PICK to \in States \ Early, new \in Evidences, next \in {"send", "finalize", "ok"} :
                /\ Transition(p, to, new, next) /\ ~EngineTo(p, "failed")
                /\ engine[p].at # "none" /\ UNCHANGED Others
      BY <1>6 DEF Asks
    <2>2. Moved(Record(p), to, new).state = to
      BY DEF Moved
    <2>3. engine[q].at = "none" => engine'[q].at = "none"
      BY <2>1, TransitionGives
    <2>4. engine'[q].at = "save" => engine'[q].rec.state \notin Early
      BY <2>1, <2>2, TransitionGives DEF Underway
    <2> QED  BY <1>2, <2>1, <2>3, <2>4
  <1>7. ASSUME NEW p \in Parties, NodeSaves(p) PROVE Kept
    <2>1. engine'[q].at = IF q = p THEN engine[p].next ELSE engine[q].at
      BY <1>7, EngineToGives DEF NodeSaves
    <2>2. engine'[q].rec = engine[q].rec /\ engine[p].next # "save"
      BY <1>7, EngineToGives DEF NodeSaves, Typed, Works
    <2> QED  BY <1>2, <1>7, <2>1, <2>2 DEF NodeSaves, At, Others, Underway
  <1>8. ASSUME NEW p \in Parties, Watches(p) PROVE Kept
    <2>1. engine'[q].at = "save" => engine'[q].rec.state \notin Early
      BY <1>8, WatchesGives DEF Underway, NoEngine
    <2>2. job[q] = "none" /\ job'[q] # "none" => Record(q)'.state \notin Early
      BY <1>8, WatchesKeepJobs, LateStays
    <2> QED  BY <1>1, <1>8, <2>1, <2>2, WatchesKeepJobs
  <1>9. ASSUME NEW p \in Parties, Funds(p) PROVE Kept
    BY <1>2, <1>9 DEF Funds, Underway
  <1> QED  BY <1>3, <1>4, <1>5, <1>6, <1>7, <1>8, <1>9, Shapes

----------------------------------------------------------------------------
(* Each record has at most one piece of evidence of each party *)

LEMMA PeerFacts ==
    ASSUME NEW p \in Parties
    PROVE  /\ Peer(p) \in Parties /\ Peer(p) # p /\ Peer(Peer(p)) = p
           /\ \A q \in Parties : q = p \/ q = Peer(p)
  BY PartyAssumption DEF Peer, Parties

LEMMA EvidenceBy ==
    ASSUME NEW p \in Parties, engine[p].kind \in Kinds
    PROVE  /\ ~(Peer(p) \in Evidence(p).claims /\ p \in Evidence(p).refunds)
           /\ p \notin Evidence(p).claims /\ Peer(p) \notin Evidence(p).refunds
  BY PeerFacts DEF Evidence, LegOf, NoLegs, Kinds

\* What Asks(p) wants written: the record as it is, and perhaps evidence of p.
LEMMA AsksGives ==
    ASSUME Typed, EnginesTrue, Underway, RecordsWhole, NotYet, NEW p \in Parties, Asks(p)
    PROVE  /\ engine'[p].at = "save"
           /\ engine'[p].next = "ok" <=> engine'[p].rec.state \in Final
           /\ engine'[p].next # "ok" => engine[p].at \in {"mark", "persist"}
           /\ Whole(engine'[p].rec) /\ OneEach(engine'[p].rec)
           /\ By(Peer(p), engine'[p].rec) => By(Peer(p), Record(p))
           /\ engine'[p].next = "send" => ~By(p, engine'[p].rec)
           /\ engine[p].at # "none" /\ UNCHANGED <<record, Others>>
           /\ \A q \in Parties : q # p => engine'[q] = engine[q]
  <1>1. PICK to \in States \ Early, new \in Evidences, next \in {"send", "finalize", "ok"} :
              /\ Transition(p, to, new, next) /\ ~EngineTo(p, "failed")
              /\ engine[p].at = CASE next = "send" -> "mark" [] next = "finalize" -> "persist"
                                   [] next = "ok" -> "finalize"
              /\ new = IF next = "finalize" THEN Evidence(p) ELSE NoLegs
              /\ next = "ok" <=> to \in Final
              /\ UNCHANGED <<record, Others>>
    BY DEF Asks
  <1> DEFINE r == Record(p)
             m == engine'[p].rec
  <1>2. /\ engine'[p].at = "save" /\ engine'[p].next = next /\ m = Moved(r, to, new)
        /\ \A q \in Parties : q # p => engine'[q] = engine[q]
    BY <1>1, TransitionGives
  <1>3. /\ m.state = to /\ m.funded = r.funded \cup new.funded
        /\ m.claims = r.claims \cup new.claims /\ m.refunds = r.refunds \cup new.refunds
    BY <1>2 DEF Moved
  <1>4. engine[p].at \in {"mark", "persist", "finalize"} /\ engine[p].kind \in Kinds
    BY <1>1 DEF EnginesTrue
  <1>5. Home(p) \in Parties /\ r = record[Home(p)] /\ r.state \notin Early
    BY <1>4, HomeIsParty DEF Underway, Record
  <1>6. r \in Recs /\ Whole(r) /\ OneEach(r)
    BY <1>5 DEF Typed, RecordsWhole
  <1>7. Whole(m)
    BY <1>1, <1>3, <1>5, <1>6 DEF Whole, Evidences, Early
  <1>8. next # "ok" => ~By(p, r)
    BY <1>1, <1>5 DEF NotYet, Before
  <1>9. CASE new = NoLegs
    <2>1. m.claims = r.claims /\ m.refunds = r.refunds
      BY <1>3, <1>6, <1>9 DEF NoLegs, Recs
    <2> HIDE DEF r, m
    <2> QED  BY <1>1, <1>2, <1>3, <1>4, <1>6, <1>7, <1>8, <2>1 DEF OneEach, By, r, m
  <1>10. CASE next = "finalize" /\ new = Evidence(p)
    <2>1. OneEach(m)
      BY <1>3, <1>4, <1>6, <1>8, <1>10, EvidenceBy, PeerFacts DEF OneEach, By
    <2>2. By(Peer(p), m) => By(Peer(p), r)
      BY <1>3, <1>4, <1>10, EvidenceBy, PeerFacts DEF By
    <2> QED  BY <1>1, <1>2, <1>3, <1>4, <1>7, <1>10, <2>1, <2>2
  <1> QED  BY <1>1, <1>9, <1>10

LEMMA WholeStep ==
    Typed /\ EnginesTrue /\ Underway /\ RecordsWhole /\ NotYet /\ [Next]_vars /\ ~overtaken'
        => RecordsWhole'
  <1> SUFFICES ASSUME Typed, EnginesTrue, Underway, RecordsWhole, NotYet, [Next]_vars,
                      ~overtaken', NEW q \in Parties
               PROVE  /\ Whole(record'[q]) /\ Whole(engine'[q].rec)
                      /\ OneEach(record'[q]) /\ OneEach(engine'[q].rec)
    BY DEF RecordsWhole, Whole, OneEach
  <1> DEFINE Kept == /\ Whole(record'[q]) /\ Whole(engine'[q].rec)
                     /\ OneEach(record'[q]) /\ OneEach(engine'[q].rec)
  <1>0. Whole(NoRecord) /\ OneEach(NoRecord) /\ NoEngine.rec = NoRecord
    BY DEF Whole, OneEach, NoRecord, NoEngine, Fresh, Early
  <1>1. ASSUME UNCHANGED record,
               engine'[q].rec \in {engine[q].rec, NoRecord, Record(q)}
        PROVE  Kept
    BY <1>0, <1>1, HomeIsParty DEF RecordsWhole, Record
  <1>2. CASE UNCHANGED <<record, engine, Others>>
    BY <1>1, <1>2
  <1>3. ASSUME NEW p \in Parties, Moves(p) PROVE Kept
    BY <1>1, <1>3, EngineToGives DEF Moves
  <1>4. ASSUME NEW p \in Parties, Reads(p) PROVE Kept
    BY <1>1, <1>4, ReadsGives DEF Reads
  <1>5. ASSUME NEW p \in Parties, Asks(p) PROVE Kept
    BY <1>5, AsksGives DEF RecordsWhole
  <1>6. ASSUME NEW p \in Parties, NodeSaves(p) PROVE Kept
    <2>1. engine'[q].rec = engine[q].rec
      BY <1>6, EngineToGives DEF NodeSaves
    <2>2. record'[q] \in {record[q], engine[p].rec}
      BY <1>6, HomeIsParty DEF NodeSaves, Typed
    <2> QED  BY <2>1, <2>2 DEF RecordsWhole
  <1>7. ASSUME NEW p \in Parties, Watches(p) PROVE Kept
    BY <1>0, <1>1, <1>7, WatchesGives
  <1>8. ASSUME NEW p \in Parties, Funds(p) PROVE Kept
    <2>1. engine'[q].rec = engine[q].rec
      BY <1>8 DEF Funds
    <2>2. record'[q] = IF q = p THEN WithLeg(record[p]) ELSE record[q]
      BY <1>8 DEF Funds, Typed
    <2>3. /\ record[p] \in Recs /\ record[p].state \in {"CREATED", "ONE_SIDE_FUNDED"}
          /\ Whole(record[p]) /\ OneEach(record[p])
      BY <1>8 DEF Funds, Typed, RecordsWhole
    <2>4. Whole(WithLeg(record[p]))
      BY <2>3, WithLegGives DEF Whole, Early, Onward, Parties, Recs
    <2>5. OneEach(WithLeg(record[p]))
      BY <2>3, WithLegGives DEF OneEach
    <2> QED  BY <2>1, <2>2, <2>4, <2>5 DEF RecordsWhole
  <1> QED  BY <1>2, <1>3, <1>4, <1>5, <1>6, <1>7, <1>8, Shapes

LEMMA LastSavesStep ==
    Typed /\ EnginesTrue /\ Underway /\ RecordsWhole /\ NotYet /\ LastSaves /\ [Next]_vars
        /\ ~overtaken' => LastSaves'
  <1> SUFFICES ASSUME Typed, EnginesTrue, Underway, RecordsWhole, NotYet, LastSaves, [Next]_vars,
                      ~overtaken', NEW q \in Parties, engine'[q].at = "save"
               PROVE  engine'[q].next = "ok" <=> engine'[q].rec.state \in Final
    BY DEF LastSaves
  <1>1. ASSUME NEW p \in Parties, Moves(p) \/ NodeSaves(p)
        PROVE  engine'[q].next = "ok" <=> engine'[q].rec.state \in Final
    <2>1. PICK step \in {"wait", "persist", "failed", "ok", "none", "send", "finalize"} :
                EngineTo(p, step)
      BY <1>1 DEF Moves, NodeSaves, Typed, Works
    <2> QED  BY <2>1, EngineToGives DEF LastSaves
  <1>2. ASSUME NEW p \in Parties, Reads(p)
        PROVE  engine'[q].next = "ok" <=> engine'[q].rec.state \in Final
    BY <1>2, ReadsGives DEF LastSaves
  <1>3. ASSUME NEW p \in Parties, Asks(p)
        PROVE  engine'[q].next = "ok" <=> engine'[q].rec.state \in Final
    BY <1>3, AsksGives DEF LastSaves
  <1>4. ASSUME NEW p \in Parties, Watches(p)
        PROVE  engine'[q].next = "ok" <=> engine'[q].rec.state \in Final
    BY <1>4, WatchesGives DEF LastSaves, NoEngine
  <1>5. UNCHANGED engine => (engine'[q].next = "ok" <=> engine'[q].rec.state \in Final)
    BY DEF LastSaves
  <1> QED  BY <1>1, <1>2, <1>3, <1>4, <1>5, Shapes DEF Funds

LEMMA NotYetStep ==
    Typed /\ EnginesTrue /\ TicksTrue /\ Unspent /\ Underway /\ RecordsWhole /\ NotYet /\ [Next]_vars
        /\ ~overtaken' => NotYet'
  <1> SUFFICES ASSUME Typed, EnginesTrue, TicksTrue, Unspent, Underway, RecordsWhole, NotYet, [Next]_vars,
                      ~overtaken', NEW q \in Parties, Before(q)'
               PROVE  /\ \A h \in Parties : ~By(q, record'[h])
                      /\ ~By(q, engine'[Peer(q)].rec)
                      /\ engine'[q].at = "save" /\ engine'[q].next = "send"
                            => ~By(q, engine'[q].rec)
    BY DEF NotYet, By
  <1> DEFINE Kept == /\ \A h \in Parties : ~By(q, record'[h])
                     /\ ~By(q, engine'[Peer(q)].rec)
                     /\ engine'[q].at = "save" /\ engine'[q].next = "send"
                           => ~By(q, engine'[q].rec)
  <1>p. Peer(q) \in Parties /\ Peer(q) # q /\ Peer(Peer(q)) = q
    BY PeerFacts
  <1>b. Before(q)' <=> \/ entered'[q] = 0
                       \/ engine'[q].at \in {"read", "mark", "send", "wait", "persist"}
                       \/ engine'[q].at = "save" /\ engine'[q].next # "ok"
    BY DEF Before
  <1>n. ~By(q, NoRecord) /\ NoEngine.rec = NoRecord /\ NoEngine.at = "none"
    BY DEF By, NoRecord, NoEngine, Fresh
  <1>1. ASSUME UNCHANGED <<record, engine, entered>> PROVE Kept
    BY <1>1, <1>b DEF NotYet, Before
  <1>2. ASSUME NEW p \in Parties, Moves(p) PROVE Kept
    <2>1. PICK step \in {"wait", "persist", "failed", "ok"} :
                /\ EngineTo(p, step) /\ engine[p].at # "none"
                /\ step \in {"wait", "persist"} => engine[p].at \in {"send", "wait"}
                /\ UNCHANGED <<record, Others>>
      BY <1>2 DEF Moves
    <2>2. /\ engine'[q].rec = engine[q].rec /\ engine'[Peer(q)].rec = engine[Peer(q)].rec
          /\ engine'[q].next = engine[q].next
          /\ engine'[q].at = IF q = p THEN step ELSE engine[q].at
      BY <1>p, <2>1, EngineToGives
    <2>3. Before(q)
      BY <1>b, <2>1, <2>2 DEF Before, Others
    <2> QED  BY <2>1, <2>2, <2>3 DEF NotYet
  <1>3. ASSUME NEW p \in Parties, Reads(p) PROVE Kept
    <2>1. Before(q)
      <3>1. CASE q = p
        BY <1>3, <3>1 DEF Reads, Before
      <3>2. CASE q # p
        BY <1>3, <1>b, <3>2, ReadsGives DEF Reads, Before, Others
      <3> QED  BY <3>1, <3>2
    <2>2. \A h \in Parties : ~By(q, record[h])
      BY <2>1 DEF NotYet
    <2>3. ~By(q, Record(p))
      BY <2>2, HomeIsParty DEF Record
    <2>4. Peer(q) = p => ~By(q, engine'[Peer(q)].rec)
      BY <1>3, <1>p, <2>3, ReadsGives
    <2>5. Peer(q) # p => ~By(q, engine'[Peer(q)].rec)
      BY <1>3, <1>p, <2>1, ReadsGives DEF NotYet
    <2>6. engine'[q].at = "save" => q # p /\ engine'[q] = engine[q]
      BY <1>3, ReadsGives
    <2> QED  BY <1>3, <2>1, <2>2, <2>4, <2>5, <2>6 DEF Reads, NotYet
  <1>4. ASSUME NEW p \in Parties, Asks(p) PROVE Kept
    <2>1. Before(q)
      <3>1. CASE q = p
        BY <1>4, <1>b, <3>1, AsksGives DEF Before, Others, Underway
      <3>2. CASE q # p
        BY <1>4, <1>b, <3>2, AsksGives DEF Before, Others
      <3> QED  BY <3>1, <3>2
    <2>2. \A h \in Parties : ~By(q, record[h])
      BY <2>1 DEF NotYet
    <2>3. Peer(q) = p => ~By(q, engine'[Peer(q)].rec)
      BY <1>4, <1>p, <2>2, AsksGives, HomeIsParty DEF Record
    <2>4. Peer(q) # p => ~By(q, engine'[Peer(q)].rec)
      BY <1>4, <1>p, <2>1, AsksGives DEF NotYet
    <2>5. engine'[q].at = "save" /\ engine'[q].next = "send" => ~By(q, engine'[q].rec)
      BY <1>4, <2>1, AsksGives DEF NotYet
    <2>6. UNCHANGED record
      BY <1>4, AsksGives
    <2> QED  BY <2>2, <2>3, <2>4, <2>5, <2>6
  <1>5. ASSUME NEW p \in Parties, NodeSaves(p) PROVE Kept
    <2>1. /\ engine'[q].rec = engine[q].rec /\ engine'[Peer(q)].rec = engine[Peer(q)].rec
          /\ engine'[q].at = IF q = p THEN engine[p].next ELSE engine[q].at
          /\ engine'[q].next = engine[q].next
      BY <1>5, <1>p, EngineToGives DEF NodeSaves
    <2>2. engine[p].at = "save" /\ engine[p].next \in {"none", "send", "finalize", "ok"}
      BY <1>5 DEF NodeSaves, At, Typed, Works
    <2>3. Before(q)
      BY <1>5, <1>b, <2>1, <2>2 DEF Before, NodeSaves, Underway
    <2>4. \A h \in Parties : record'[h] \in {record[h], engine[p].rec}
      BY <1>5, HomeIsParty DEF NodeSaves, Typed
    <2>5. ~By(q, engine[p].rec)
      <3>1. CASE q = p
        <4>1. engine[p].next = "send"
          BY <1>5, <1>b, <2>1, <2>2, <3>1 DEF NodeSaves, Underway
        <4> QED  BY <2>2, <2>3, <3>1, <4>1 DEF NotYet
      <3>2. CASE q # p
        BY <2>3, <3>2, PeerFacts DEF NotYet
      <3> QED  BY <3>1, <3>2
    <2>6. engine'[q].at # "save" \/ q # p
      BY <2>1, <2>2
    <2> QED  BY <2>1, <2>3, <2>4, <2>5, <2>6 DEF NotYet
  <1>6. ASSUME NEW p \in Parties, Watches(p) PROVE Kept
    <2>1. entered'[q] = 0 => entered[q] = 0
      BY <1>6, WatchesKeepJobs
    <2>2. Start(p) /\ q = p => entered[q] = 0
      BY DEF Start, TicksTrue, Unspent
    <2>3. Before(q)
      BY <1>6, <1>b, <1>n, <2>1, <2>2, WatchesGives DEF Before
    <2>4. \A x \in Parties : engine'[x].rec = NoRecord \/ engine'[x] = engine[x]
      BY <1>6, <1>n, WatchesGives
    <2>5. engine'[Peer(q)].rec = NoRecord \/ engine'[Peer(q)] = engine[Peer(q)]
      BY <1>p, <2>4
    <2>6. engine'[q].rec = NoRecord \/ engine'[q] = engine[q]
      BY <2>4
    <2> QED  BY <1>6, <1>n, <2>3, <2>5, <2>6, WatchesGives DEF NotYet
  <1>7. ASSUME NEW p \in Parties, Funds(p) PROVE Kept
    <2>1. UNCHANGED <<engine, entered>>
      BY <1>7 DEF Funds, Others
    <2>2. record[p] \in Recs /\ record[p].state \in {"CREATED", "ONE_SIDE_FUNDED"}
      BY <1>7 DEF Funds, Typed
    <2>3. \A h \in Parties : record'[h] = IF h = p THEN WithLeg(record[p]) ELSE record[h]
      BY <1>7 DEF Funds, Typed
    <2>4. \A h \in Parties : record'[h].claims = record[h].claims /\ record'[h].refunds = record[h].refunds
      BY <2>2, <2>3, WithLegGives
    <2>5. Before(q)
      BY <1>b, <2>1 DEF Before
    <2> QED  BY <2>1, <2>4, <2>5 DEF NotYet, By
  <1> QED  BY <1>1, <1>2, <1>3, <1>4, <1>5, <1>6, <1>7, Shapes DEF Others

----------------------------------------------------------------------------
(* The refinement *)

\* A record with a last word has evidence of both parties and says what has happened.
LEMMA LastWord ==
    ASSUME NEW r \in Recs, True(spend, r), Whole(r), OneEach(r), r.state \in Final
    PROVE  /\ r.state = Resolution!Word
           /\ \A l \in Parties : spend[l] # "none"
           /\ \A p \in Parties : By(p, r)
  <1>1. Outcome(r) = r.state /\ r.state \in {"SETTLED", "REFUNDED", "RESOLVED_MIXED"}
    BY DEF True, Final
  <1>2. r.funded = Parties /\ r.claims \subseteq Parties /\ r.refunds \subseteq Parties
    BY DEF Whole, Early, Final, Recs
  <1>3. /\ \A l \in Parties : l \in r.claims \/ l \in r.refunds
        /\ r.state = "REFUNDED" => r.claims = {}
        /\ r.state = "SETTLED" => r.refunds = {}
        /\ r.state = "RESOLVED_MIXED" => r.refunds # {}
        /\ r.state # "REFUNDED" => r.claims # {}
    BY <1>1, <1>2 DEF Outcome
  <1>4. \A l \in r.claims : spend[l] = "claim"
    BY DEF True
  <1>e. \A l \in r.refunds : spend[l] = "refund"
    BY DEF True
  <1>f. \A l \in Parties : spend[l] # "none"
    <2>1. ASSUME NEW l \in Parties, l \in r.claims PROVE spend[l] # "none"
      <3>1. spend[l] = "claim"
        BY <1>4, <2>1
      <3> QED  BY <3>1
    <2>2. ASSUME NEW l \in Parties, l \in r.refunds PROVE spend[l] # "none"
      <3>1. spend[l] = "refund"
        BY <1>e, <2>2
      <3> QED  BY <3>1
    <2> QED  BY <1>3, <2>1, <2>2
  <1>a. r.state = "SETTLED" => \A l \in Parties : spend[l] = "claim"
    <2> SUFFICES ASSUME r.state = "SETTLED", NEW l \in Parties PROVE spend[l] = "claim"
      OBVIOUS
    <2>1. l \notin r.refunds
      BY <1>3
    <2>2. l \in r.claims
      BY <1>3, <2>1
    <2> QED  BY <1>4, <2>2
  <1>b. r.state = "REFUNDED" => \A l \in Parties : spend[l] = "refund"
    <2> SUFFICES ASSUME r.state = "REFUNDED", NEW l \in Parties PROVE spend[l] = "refund"
      OBVIOUS
    <2>1. l \notin r.claims
      BY <1>3
    <2>2. l \in r.refunds
      BY <1>3, <2>1
    <2> QED  BY <1>e, <2>2
  <1>c. r.state = "RESOLVED_MIXED" => /\ \E l \in Parties : spend[l] = "refund"
                                     /\ \E l \in Parties : spend[l] = "claim"
    <2> SUFFICES ASSUME r.state = "RESOLVED_MIXED"
                 PROVE  /\ \E l \in Parties : spend[l] = "refund"
                        /\ \E l \in Parties : spend[l] = "claim"
      OBVIOUS
    <2>1. r.refunds # {} /\ r.claims # {}
      BY <1>3
    <2>2. PICK l \in r.refunds : TRUE
      BY <2>1
    <2>3. PICK k \in r.claims : TRUE
      BY <2>1
    <2>4. l \in Parties /\ k \in Parties
      BY <1>2
    <2>5. spend[l] = "refund" /\ spend[k] = "claim"
      BY <1>4, <1>e, <2>2, <2>3
    <2> QED  BY <2>4, <2>5
  <1>d. First \in Parties
    BY DEF Parties
  <1>5. r.state = Resolution!Word
    <2>1. CASE r.state = "SETTLED"
      <3>1. \A l \in Parties : spend[l] = "claim"
        BY <1>a, <2>1
      <3>2. ~ \A l \in Parties : spend[l] = "refund"
        BY <1>d, <3>1
      <3>3. Resolution!Word = "SETTLED"
        BY <3>1, <3>2 DEF Resolution!Word
      <3> QED  BY <2>1, <3>3
    <2>2. CASE r.state = "REFUNDED"
      <3>1. \A l \in Parties : spend[l] = "refund"
        BY <1>b, <2>2
      <3>2. ~ \A l \in Parties : spend[l] = "claim"
        BY <1>d, <3>1
      <3>3. Resolution!Word = "REFUNDED"
        BY <3>1, <3>2 DEF Resolution!Word
      <3> QED  BY <2>2, <3>3
    <2>3. CASE r.state = "RESOLVED_MIXED"
      <3>1. ~ \A l \in Parties : spend[l] = "claim"
        BY <1>c, <2>3
      <3>2. ~ \A l \in Parties : spend[l] = "refund"
        BY <1>c, <2>3
      <3>3. Resolution!Word = "RESOLVED_MIXED"
        BY <3>1, <3>2 DEF Resolution!Word
      <3> QED  BY <2>3, <3>3
    <2> QED  BY <1>1, <2>1, <2>2, <2>3
  <1>6. \A p \in Parties : By(p, r)
    BY <1>3, PeerFacts DEF By, OneEach
  <1> QED  BY <1>f, <1>5, <1>6

LEMMA InitVerdict == Init => VerdictInv
  <1> SUFFICES ASSUME Init PROVE VerdictInv
    OBVIOUS
  <1>1. \A p \in Parties : /\ record[p] = Fresh /\ engine[p] = NoEngine
                          /\ job[p] = "none" /\ pc[p] = "idle" /\ entered[p] = 0
    BY DEF Init, RecordInit
  <1>2. /\ NoEngine.rec = NoRecord /\ NoEngine.at = "none"
        /\ Whole(Fresh) /\ Whole(NoRecord) /\ OneEach(Fresh) /\ OneEach(NoRecord)
        /\ \A p \in Parties : ~By(p, Fresh) /\ ~By(p, NoRecord)
    BY DEF NoEngine, NoRecord, Fresh, Whole, OneEach, By, Early
  <1> QED
    BY <1>1, <1>2, PeerFacts DEF VerdictInv, Underway, RecordsWhole, NotYet, LastSaves

LEMMA OvertakenStays ==
    ASSUME [Next]_vars, overtaken PROVE overtaken'
  <1>1. ASSUME NEW p \in Parties, Watcher(p) \/ Engine(p) \/ EngineFails(p) \/ Crash(p)
        PROVE  overtaken'
    BY <1>1 DEF Watcher, EngineFails, Crash, List, Look, Resume, Decide, Start, End,
                Engine, EngineReads, EngineMarks, EngineSends, EngineWaits, EnginePersists,
                EngineFinalizes, NodeSaves
  <1>2. ASSUME NEW p \in Parties, Arm(p) \/ Disarm(p) \/ Chain(p) \/ FundReads(p)
        PROVE  overtaken'
    BY <1>2 DEF Arm, Disarm, Chain, Mine, Pass, Mature, FundReads
  <1>3. ASSUME NEW r \in recording, FundSaves(r) PROVE overtaken'
    BY <1>3 DEF FundSaves
  <1> QED  BY <1>1, <1>2, <1>3 DEF Next, vars

\* The invariant, for as long as it is of use.
Sound == overtaken \/ VerdictInv

LEMMA AlwaysSound == Spec => [](Inv /\ Sound)
  <1>1. Init => Inv /\ Sound
    BY InitInv, InitVerdict DEF Sound
  <1>2. Inv /\ Sound /\ [Next]_vars => (Inv /\ Sound)'
    <2> SUFFICES ASSUME Inv, Sound, [Next]_vars, ~overtaken' PROVE Inv' /\ VerdictInv'
      BY StepInv DEF Sound
    <2>1. VerdictInv
      BY OvertakenStays DEF Sound
    <2> QED
      BY <2>1, StepInv, UnderwayStep, WholeStep, NotYetStep, LastSavesStep DEF Inv, VerdictInv
  <1> QED  BY <1>1, <1>2, PTL DEF Spec

Said == {record[p].state : p \in Parties} \cap Final

LEMMA SaveSays ==
    ASSUME Inv, VerdictInv, NEW p \in Parties, NodeSaves(p)
    PROVE  UNCHANGED Said \/ Resolution!Say
  <1> DEFINE h == Home(p)
             m == engine[p].rec
  <1>1. /\ Typed /\ RecordsTrue /\ RecordsWhole /\ NotYet /\ LastSaves
        /\ h \in Parties
    BY HomeIsParty DEF Inv, VerdictInv
  <1>2. /\ m \in Recs /\ True(spend, m) /\ Whole(m) /\ OneEach(m)
        /\ \A q \in Parties : /\ record[q] \in Recs /\ True(spend, record[q])
                              /\ Whole(record[q]) /\ OneEach(record[q])
    BY <1>1 DEF Typed, Works, RecordsTrue, RecordsWhole
  <1>3. record' = [record EXCEPT ![h] = m] /\ engine[p].at = "save" /\ UNCHANGED spend
    BY DEF NodeSaves, At, chains
  <1>4. \A q \in Parties : record'[q].state = IF q = h THEN m.state ELSE record[q].state
    BY <1>1, <1>3 DEF Typed
  <1>5. \A q \in Parties : record[q].state \in Final => record[q].state = Resolution!Word
    BY <1>2, LastWord
  <1>6. CASE m.state \notin Final
    <2>1. Before(p)
      BY <1>1, <1>3, <1>6 DEF LastSaves, Before
    <2>2. ~By(p, record[h])
      BY <1>1, <2>1 DEF NotYet
    <2>3. record[h].state \notin Final
      BY <1>1, <1>2, <2>2, LastWord
    <2>4. Said' = Said
      BY <1>4, <1>6, <2>3 DEF Said
    <2> QED  BY <2>4
  <1>7. CASE m.state \in Final
    <2>1. m.state = Resolution!Word /\ \A l \in Parties : spend[l] # "none"
      BY <1>2, <1>7, LastWord
    <2>2. Said' = {Resolution!Word}
      BY <1>1, <1>4, <1>5, <1>7, <2>1 DEF Said
    <2>3. Said = {} \/ Said = {Resolution!Word}
      BY <1>5 DEF Said
    <2> QED  BY <1>3, <2>1, <2>2, <2>3 DEF Resolution!Say, Said
  <1> QED  BY <1>6, <1>7

LEMMA NoSaveKeepsSaid ==
    ASSUME Typed, [Next]_vars, ~overtaken', \A p \in Parties : ~NodeSaves(p)
    PROVE  UNCHANGED Said
  <1>1. CASE UNCHANGED record
    BY <1>1 DEF Said
  <1>2. ASSUME NEW p \in Parties, Funds(p) PROVE UNCHANGED Said
    <2>1. record[p].state \notin Final /\ WithLeg(record[p]).state \notin Final
      BY <1>2, WithLegGives, WithLegMoves DEF Funds, Typed, Final
    <2>2. \A q \in Parties : record'[q] = IF q = p THEN WithLeg(record[p]) ELSE record[q]
      BY <1>2 DEF Funds, Typed
    <2> QED  BY <2>1, <2>2 DEF Said
  <1>3. UNCHANGED record \/ \E p \in Parties : Funds(p)
    BY Shapes, WatchesGives DEF Moves, Reads, Asks
  <1> QED  BY <1>1, <1>2, <1>3

\* Only a spend in the chain, or the time, moves the spends, and no record is written then.
LEMMA SpendsAlone ==
    ASSUME Typed, [Next]_vars
    PROVE  \/ UNCHANGED spend
           \/ UNCHANGED record /\ \E p \in Parties : Mine(p)
  <1>1. ASSUME NEW p \in Parties, Watcher(p) \/ EngineFails(p) \/ Crash(p) \/ Arm(p) \/ Disarm(p)
        PROVE  UNCHANGED spend
    BY <1>1 DEF Watcher, EngineFails, Crash, Arm, Disarm, List, Look, Resume, Decide, Start,
                End, chains
  <1>2. ASSUME NEW p \in Parties, Engine(p) PROVE UNCHANGED spend
    BY <1>2 DEF Engine, EngineReads, EngineMarks, EngineSends, EngineWaits, EnginePersists,
                EngineFinalizes, NodeSaves, chains
  <1>3. ASSUME NEW p \in Parties, FundReads(p) \/ Chain(p)
        PROVE  UNCHANGED spend \/ (UNCHANGED record /\ Mine(p))
    BY <1>3 DEF FundReads, Chain, Mine, Pass, Mature, chains
  <1>4. ASSUME NEW r \in recording, FundSaves(r) PROVE UNCHANGED spend
    BY <1>4 DEF FundSaves, chains
  <1> QED  BY <1>1, <1>2, <1>3, <1>4 DEF Next, vars, chains

\* The records implement SwapOutcome for every deployment, any number of requests that
\* record a funding and any number of failures, until a funding is saved over a record
\* that has moved on (transitionRecord, finalize_resolution).
THEOREM RecordsImplementOutcome == Spec => VerdictImplemented
  <1>1. Init => Resolution!Init
    <2> SUFFICES ASSUME Init PROVE Resolution!Init
      OBVIOUS
    <2>1. \A p \in Parties : record[p].state = "CREATED"
      BY DEF Init, RecordInit, Fresh
    <2>2. spend = [l \in Parties |-> "none"]
      BY DEF Init, RecordInit
    <2> QED  BY <2>1, <2>2 DEF Resolution!Init, Final
  <1>2. Inv /\ Sound /\ [Next]_vars => [overtaken' \/ [Resolution!Next]_(Resolution!vars)]_vars
    <2> SUFFICES ASSUME Inv, Sound, [Next]_vars, ~overtaken'
                 PROVE  Resolution!Next \/ UNCHANGED <<spend, Said>>
      BY DEF Resolution!vars, Said
    <2>0. VerdictInv
      BY OvertakenStays DEF Sound
    <2>1. ASSUME NEW p \in Parties, NodeSaves(p)
          PROVE  Resolution!Next \/ UNCHANGED <<spend, Said>>
      <3>1. UNCHANGED spend
        BY <2>1 DEF NodeSaves, chains
      <3> QED  BY <2>0, <2>1, <3>1, SaveSays DEF Resolution!Next
    <2>2. CASE \A p \in Parties : ~NodeSaves(p)
      <3>1. UNCHANGED Said
        BY <2>2, NoSaveKeepsSaid DEF Inv
      <3>2. CASE UNCHANGED spend
        BY <3>1, <3>2
      <3>3. ASSUME NEW l \in Parties, Mine(l)
            PROVE  Resolution!Next \/ UNCHANGED <<spend, Said>>
        <4>1. PICK k \in offered[l] : spend' = [spend EXCEPT ![l] = k]
          BY <3>3 DEF Mine
        <4>2. spend[l] = "none" /\ k \in Kinds \cup {"none"} /\ spend \in [Parties -> Kinds \cup {"none"}]
          BY <3>3, <4>1 DEF Mine, Inv, Typed
        <4>3. CASE k = "none"
          BY <3>1, <4>1, <4>2, <4>3
        <4>4. CASE k \in Kinds
          <5>1. Resolution!Spend(l)
            BY <3>1, <4>1, <4>2, <4>4 DEF Resolution!Spend, Kinds, Said
          <5> QED  BY <5>1 DEF Resolution!Next
        <4> QED  BY <4>2, <4>3, <4>4
      <3> QED  BY <3>2, <3>3, SpendsAlone DEF Inv
    <2> QED  BY <2>1, <2>2
  <1> QED  BY <1>1, <1>2, AlwaysSound, PTL DEF Spec, VerdictImplemented
=============================================================================
