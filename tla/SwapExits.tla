----------------------------- MODULE SwapExits -----------------------------
(***************************************************************************)
(* The exits of a swap: each party's watcher (exit_watcher_v1.py), with a  *)
(* durable job that the user arms and disarms, and the engine it runs in a *)
(* process of its own (tru_bsty_swap_engine.py), which claims the other    *)
(* party's leg or refunds its own and brings the evidence to the record at *)
(* the party's node.  Both work from a record read earlier.                *)
(***************************************************************************)
EXTENDS SwapRecord, Naturals

CONSTANT MaxFailures    \* bound of the exploration

ASSUME FailureAssumption == MaxFailures \in Nat

VARIABLES
    job,            \* durable, at each agent: the state of its exit_watchers row
    pc, local,      \* the watcher's step; the job it listed and the record it read
    engine,         \* the engine's step, its kind, and the record it read
    entered,        \* how many engines a watcher has started, up to two
    failures

watch == <<job, pc, local>>
vars == <<records, chains, watch, engine, entered, failures>>

Active == {"ARMED", "ACTION_STARTED", "HOLD_UNKNOWN"}
Claimable == {"BOTH_FUNDED", "SECRET_OBSERVED", "REFUND_PENDING"}
Kinds == {"claim", "refund"}

\* The leg an engine of p spends.
LegOf(p, kind) == IF kind = "claim" THEN Peer(p) ELSE p

Goto(p, step) == pc' = [pc EXCEPT ![p] = step]
Finish(p, state) == job' = [job EXCEPT ![p] = state]
Fail == failures < MaxFailures /\ failures' = failures + 1

----------------------------------------------------------------------------
(* The engine *)

At(p, step) == engine[p].at = step
EngineTo(p, step) == engine' = [engine EXCEPT ![p].at = step]

\* On the other chain the engine asks whether the leg is unspent before anything else,
\* in the pool of its own node.
Refusable(l) == spend[l] # "none" \/ offered[l] # {}

EngineReads(p) ==
    /\ At(p, "read")
    /\ LET kind == engine[p].kind
           l == LegOf(p, kind)
           state == Record(p).state
       IN  \/ /\ kind = "claim" => state \in Claimable
              /\ l # tru => spend[l] = "none"
              /\ engine' = [engine EXCEPT ![p].rec = Record(p),
                              ![p].at = IF kind = "claim" \/ state = "REFUND_PENDING"
                                        THEN "send" ELSE "mark"]
           \/ /\ \/ kind = "claim" /\ state \notin Claimable
                 \/ l # tru /\ Refusable(l)
              /\ EngineTo(p, "failed")
    /\ UNCHANGED <<records, chains, watch, entered, failures>>

\* swaprecordtransition: the node reads the record and refuses, or writes its successor
\* in a step of its own, with no lock from the one to the other.  The engine goes on with
\* the record the node has written.
Transition(p, to, new, next) ==
    IF CanMove(Record(p), to, new)
    THEN engine' = [engine EXCEPT ![p].at = "save", ![p].next = next,
                                  ![p].rec = Moved(Record(p), to, new)]
    ELSE EngineTo(p, "failed")

NodeSaves(p) ==
    /\ At(p, "save")
    /\ record' = [record EXCEPT ![Home(p)] = engine[p].rec]
    /\ EngineTo(p, engine[p].next)
    /\ UNCHANGED <<requests, chains, watch, entered, failures>>

\* A refund is announced in the record before it is sent.
EngineMarks(p) ==
    /\ At(p, "mark")
    /\ Transition(p, "REFUND_PENDING", NoLegs, "send")
    /\ UNCHANGED <<records, chains, watch, entered, failures>>

\* htlcclaim, htlcrefund, sendrawtransaction.  A competing spend in a pool may not have
\* reached this node.
EngineSends(p) ==
    /\ At(p, "send")
    /\ LET kind == engine[p].kind
           l == LegOf(p, kind)
       IN  \/ /\ spend[l] = "none" /\ (kind = "refund" => l \in mature)
              /\ offered' = [offered EXCEPT ![l] = @ \cup {kind}]
              /\ EngineTo(p, "wait")
           \/ /\ Refusable(l) \/ (kind = "refund" /\ l \notin mature)
              /\ EngineTo(p, "failed") /\ UNCHANGED offered
    /\ UNCHANGED <<records, spend, due, mature, tru, shared, watch, entered, failures>>

\* Mutant: a spend in a pool is enough.
Enough_InPool(p) == engine[p].kind \in offered[LegOf(p, engine[p].kind)]

Enough(p) == engine[p].kind = spend[LegOf(p, engine[p].kind)]

EngineWaits(p) ==
    /\ At(p, "wait")
    /\ \/ Enough(p) /\ EngineTo(p, "persist")
       \/ /\ spend[LegOf(p, engine[p].kind)] \notin {"none", engine[p].kind}
          /\ EngineTo(p, "failed")
    /\ UNCHANGED <<records, chains, watch, entered, failures>>

\* transition_after_claim and persist_refund_and_finalize: what the record is asked to
\* become depends on the state that was read.
Evidence(p) ==
    LET l == {LegOf(p, engine[p].kind)}
    IN  IF engine[p].kind = "claim" THEN [NoLegs EXCEPT !.claims = l]
        ELSE [NoLegs EXCEPT !.refunds = l]
Target(p) ==
    IF engine[p].rec.state = "REFUND_PENDING" THEN "REFUND_PENDING" ELSE "SECRET_OBSERVED"
Contradicted(p) ==
    LegOf(p, engine[p].kind) \in
        IF engine[p].kind = "claim" THEN engine[p].rec.refunds ELSE engine[p].rec.claims

EnginePersists(p) ==
    /\ At(p, "persist")
    /\ IF Contradicted(p) THEN EngineTo(p, "failed")
       ELSE Transition(p, Target(p), Evidence(p), "finalize")
    /\ UNCHANGED <<records, chains, watch, entered, failures>>

\* finalize_resolution, by the record that the last transition returned.
EngineFinalizes(p) ==
    /\ At(p, "finalize")
    /\ LET o == Outcome(engine[p].rec)
       IN  CASE o = "none"  -> EngineTo(p, "ok")
             [] o = "error" -> EngineTo(p, "failed")
             [] OTHER       -> Transition(p, o, NoLegs, "ok")
    /\ UNCHANGED <<records, chains, watch, entered, failures>>

Running == {"read", "mark", "send", "wait", "persist", "finalize"}

\* A call that fails, the engine's own deadline, or the watchdog of the watcher.
EngineFails(p) ==
    /\ engine[p].at \in Running /\ Fail
    /\ EngineTo(p, "failed")
    /\ UNCHANGED <<records, chains, watch, entered>>

----------------------------------------------------------------------------
(* The watcher *)

NoRecord == [Fresh EXCEPT !.state = "none"]
NoEngine == [at |-> "none", kind |-> "none", rec |-> NoRecord, next |-> "none"]
Nothing == [listed |-> "none", rec |-> NoRecord, kind |-> "none"]

Idle(p) == Goto(p, "idle") /\ local' = [local EXCEPT ![p] = Nothing]

\* list_jobs
List(p) ==
    /\ pc[p] = "idle" /\ job[p] \in Active
    /\ Goto(p, "look")
    /\ local' = [local EXCEPT ![p].listed = job[p]]
    /\ UNCHANGED <<records, chains, job, engine, entered, failures>>

\* The handler of tick: the state that was listed is written again.
Handle(p) == Finish(p, local[p].listed) /\ Idle(p)

\* get_live_record and the observation of its spends.
Look(p) ==
    /\ pc[p] = "look"
    /\ \/ /\ Goto(p, "decide")
          /\ local' = [local EXCEPT ![p].rec = Record(p)]
          /\ UNCHANGED <<job, failures>>
       \/ Fail /\ Handle(p)
    /\ UNCHANGED <<records, chains, engine, entered>>

\* A secret of one's own, or from a claim of one's leg that the record has.
Secret(p) == p = First \/ p \in local[p].rec.claims
CanClaim(p) ==
    Peer(p) \in local[p].rec.funded /\ local[p].rec.state \in Claimable /\ Secret(p)

\* Mutant: the legs are swapped.
Done_Swapped(p) == p \in local[p].rec.claims \/ Peer(p) \in local[p].rec.refunds

\* _record_has_local_outcome
Done(p) == Peer(p) \in local[p].rec.claims \/ p \in local[p].rec.refunds

\* The rest of tick_one before an engine is started: an outcome in the record, an intent
\* whose outcome is not known, and a job that is held already.
Resume(p) ==
    /\ pc[p] = "decide" /\ (Done(p) \/ local[p].listed # "ARMED")
    /\ IF Done(p) THEN Finish(p, "COMPLETE")
       ELSE IF local[p].listed = "ACTION_STARTED" THEN Finish(p, "HOLD_UNKNOWN")
       ELSE UNCHANGED job
    /\ Idle(p)
    /\ UNCHANGED <<records, chains, engine, entered, failures>>

Choose(p, kind) == Goto(p, "start") /\ local' = [local EXCEPT ![p].kind = kind]

\* A claim if it can be made; else, by the clock, a refund, which an exposed secret or a
\* spend that cannot be observed forbids for good.  The secret of the other party has to be
\* read from its claim.
Overdue(p) == p \in local[p].rec.funded /\ p \in due
NoClaim(p) ==
    \/ ~CanClaim(p) /\ UNCHANGED failures
    \/ CanClaim(p) /\ p = Second /\ Fail

Decide(p) ==
    /\ pc[p] = "decide" /\ ~Done(p) /\ local[p].listed = "ARMED"
    /\ \/ CanClaim(p) /\ Choose(p, "claim") /\ UNCHANGED <<job, failures>>
       \/ /\ NoClaim(p) /\ Overdue(p) /\ local[p].rec.claims = {}
          /\ Choose(p, "refund") /\ UNCHANGED job
       \/ /\ \/ NoClaim(p) /\ Overdue(p) /\ local[p].rec.claims # {}
             \/ ~CanClaim(p) /\ Overdue(p) /\ local[p].rec.refunds # {} /\ Fail
          /\ Finish(p, "HOLD_UNKNOWN") /\ Idle(p)
       \/ NoClaim(p) /\ ~Overdue(p) /\ Idle(p) /\ UNCHANGED job
    /\ UNCHANGED <<records, chains, engine, entered>>

\* Mutant: the intent is not written down.
Intend_InMemory(p) == UNCHANGED job

Intend(p) == Finish(p, "ACTION_STARTED")

\* _set_action_started, and the engine's process.
Start(p) ==
    /\ pc[p] = "start"
    /\ \/ /\ job[p] \in {"ARMED", "ACTION_STARTED"}
          /\ Intend(p)
          /\ Goto(p, "run") /\ UNCHANGED local
          /\ engine' = [engine EXCEPT ![p] =
                          [NoEngine EXCEPT !.at = "read", !.kind = local[p].kind]]
          /\ entered' = [entered EXCEPT ![p] = IF @ < 2 THEN @ + 1 ELSE @]
       \/ /\ job[p] \notin {"ARMED", "ACTION_STARTED"}
          /\ Handle(p) /\ UNCHANGED <<engine, entered>>
    /\ UNCHANGED <<records, chains, failures>>

\* Mutant: a failure leaves the job to the next tick.
Failed_Retried == "ARMED"

Failed == "HOLD_UNKNOWN"

End(p) ==
    /\ pc[p] = "run" /\ engine[p].at \in {"ok", "failed"}
    /\ Finish(p, IF At(p, "ok") THEN "COMPLETE" ELSE Failed)
    /\ engine' = [engine EXCEPT ![p] = NoEngine]
    /\ Idle(p)
    /\ UNCHANGED <<records, chains, entered, failures>>

\* The agent dies; its engine may go on alone, and what the node has begun it ends.
Crash(p) ==
    /\ pc[p] # "idle" /\ Fail
    /\ Idle(p)
    /\ \/ UNCHANGED engine
       \/ engine[p].at \notin {"none", "save"} /\ engine' = [engine EXCEPT ![p] = NoEngine]
    /\ UNCHANGED <<records, chains, job, entered>>

----------------------------------------------------------------------------
(* The user *)

\* A row that is there is never replaced, whatever its state.
Arm(p) ==
    /\ job[p] = "none" /\ Record(p).state \in Claimable
    /\ Finish(p, "ARMED")
    /\ UNCHANGED <<records, chains, pc, local, engine, entered, failures>>

Disarm(p) ==
    /\ job[p] = "ARMED"
    /\ Finish(p, "DISARMED")
    /\ UNCHANGED <<records, chains, pc, local, engine, entered, failures>>

----------------------------------------------------------------------------

Init ==
    /\ RecordInit
    /\ job = [p \in Parties |-> "none"]
    /\ pc = [p \in Parties |-> "idle"] /\ local = [p \in Parties |-> Nothing]
    /\ engine = [p \in Parties |-> NoEngine]
    /\ entered = [p \in Parties |-> 0] /\ failures = 0

Watcher(p) == List(p) \/ Look(p) \/ Resume(p) \/ Decide(p) \/ Start(p) \/ End(p)
Engine(p) ==
    \/ EngineReads(p) \/ EngineMarks(p) \/ EngineSends(p) \/ EngineWaits(p)
    \/ EnginePersists(p) \/ EngineFinalizes(p) \/ NodeSaves(p)
Chain(l) == Mine(l) \/ Pass(l) \/ Mature(l)

outside == <<watch, engine, entered, failures>>

Next ==
    \/ \E p \in Parties :
         \/ Watcher(p) \/ Engine(p) \/ EngineFails(p) \/ Crash(p)
         \/ Arm(p) \/ Disarm(p)
         \/ Chain(p) /\ UNCHANGED outside
    \/ \E p \in Parties : FundReads(p) /\ UNCHANGED outside
    \/ \E r \in recording :
         /\ FundSaves(r) /\ UNCHANGED <<watch, engine, entered>>
         /\ IF overtaken' = overtaken THEN UNCHANGED failures ELSE Fail

Spec == Init /\ [][Next]_vars

\* The watch loop ticks, an engine goes on, transactions are mined and time passes.
FairSpec ==
    /\ Spec
    /\ \A p \in Parties :
          WF_vars(Watcher(p)) /\ WF_vars(Engine(p))
          /\ WF_vars(Chain(p) /\ UNCHANGED outside)

----------------------------------------------------------------------------
(* Properties *)

\* The last word of a record is final, it is only given when both legs are spent, and it
\* is the word for how they were spent, although two engines write the record from what
\* they read earlier and their transitions cross, with each other and with those of the
\* fundings (transitionRecord, finalize_resolution).  Until, that is, a funding is saved
\* over a record that has moved on: then the last word may be lost.
Resolution == INSTANCE SwapOutcome WITH
    Legs <- Parties, fate <- spend,
    said <- {record[p].state : p \in Parties} \cap Final
VerdictImplemented ==
    Resolution!Init /\ [][overtaken' \/ [Resolution!Next]_(Resolution!vars)]_vars

\* Over crashes, lost outcomes and the stale state that the handler writes, a watcher
\* starts at most one engine in its life: the "never blind-retries" of the module's
\* description (_set_action_started, tick_one).
EnteredOnce == \A p \in Parties : entered[p] <= 1

\* A job is only complete when its party is out of the swap: it has the other's leg or its
\* own again, with the confirmations (tick_one, the end of the engine).
CompleteIsOut ==
    \A p \in Parties : job[p] = "COMPLETE" =>
        spend[Peer(p)] = "claim" \/ spend[p] = "refund"

\* A job that is armed comes to an end, if only to be held, whatever fails
\* (tick_one, timeout_policy), unless a crossing has taken a funded leg out of the record:
\* the watcher does nothing for a leg it does not see funded.
ArmedEnds ==
    \A p \in Parties :
        job[p] \in {"ARMED", "ACTION_STARTED"}
            ~> job[p] \notin {"ARMED", "ACTION_STARTED"} \/ overtaken

\* What a persistent watcher of claims and refunds is for, when nothing fails: the leg of
\* an armed second party does not stay where it is, it is claimed or refunded in the end
\* (the clock of tick_one, the median time of refundHtlcAtomicSwapV1).
LegLeaves ==
    job[Second] = "ARMED" ~> spend[Second] # "none" \/ job[Second] = "DISARMED"
=============================================================================
