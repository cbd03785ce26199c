---------------------------- MODULE FundingAgent ----------------------------
(***************************************************************************)
(* The agent's side of a swap's funding (dual_funding_v1.py,               *)
(* tru_swap_agent.py, tru_funding_reconciler_v1.py): a durable journal of  *)
(* one funding attempt, request threads that each advance it by one        *)
(* fund_step without a lock of their own, and the watcher that notes a     *)
(* funding that was reorganised away (reorg_funding_*_v1.py).  Threads,    *)
(* the node and the two stores fail independently.                         *)
(***************************************************************************)
EXTENDS PreparedFunding

CONSTANTS
    Pays,           \* transactions that pay the swap's contract its amount
    MinConf,        \* the swap's min_conf
    MaxTrouble      \* bound of the exploration, of reorganisations, restarts and failures together

ASSUME AgentAssumption ==
    /\ Funding \subseteq Pays /\ Pays \subseteq Txs
    /\ \A t, u \in Txs : Id[t] = Id[u] => (t \in Pays <=> u \in Pays)
    /\ MinConf \in Nat \ {0}
    /\ MaxTrouble \in Nat

VARIABLES
    journal,        \* durable: state, prepared transaction, confirmations, first height
    recorded,       \* durable, at the node: the txid the swap's record has as evidence
    overlay,        \* durable: the watcher's last word, "none" before a reorg
    pc, local,      \* a thread's step, and what it has read
    snap,           \* the status the watcher has read and not stored
    failures,       \* crashes of the agent and callers that gave up
    been,           \* history: txids with the depths in the chain they have been at
    torn            \* history: a block went from under a scan that had counted on it

agent == <<journal, recorded, overlay, pc, local, snap, failures>>
history == <<been, torn>>
node == <<ledger, marker, poolVars, ingress, hold, sent, budget>>
vars == <<node, wallet, agent, history>>

Unseen == [start |-> 0, tx |-> NoTx, conf |-> 0, seen |-> {}, tip |-> 0, at |-> 0]
Empty == [state |-> "none", tx |-> NoTx, conf |-> 0, start |-> 0]

Goto(t, step) == pc' = [pc EXCEPT ![t] = step]
Drop(t) == local' = [local EXCEPT ![t] = Unseen]
Leave(t) == Goto(t, "idle") /\ Drop(t)

\* What an observer says of a funding: its txid and its confirmations.
Kept == [id |-> Id[journal.tx], conf |-> journal.conf]

\* transition_funding_attempt, inside BEGIN IMMEDIATE: the moves it allows besides
\* staying, and what it asks of the row and of the evidence.
Moves ==
    {<<"PREPARED", "BROADCASTING">>, <<"BROADCASTING", "TX_IDENTIFIED">>,
     <<"BROADCASTING", "AMBIGUOUS">>, <<"TX_IDENTIFIED", "CONFIRMED">>,
     <<"TX_IDENTIFIED", "AMBIGUOUS">>, <<"CONFIRMED", "RECORDED">>}
MayMove(s, ev) ==
    /\ s = journal.state \/ <<journal.state, s>> \in Moves
    /\ journal.tx # NoTx
    /\ s = "BROADCASTING" => ev.conf = 0
    /\ s \in {"TX_IDENTIFIED", "CONFIRMED", "RECORDED"} => ev.id = Id[journal.tx]
    /\ s \in {"CONFIRMED", "RECORDED"} => ev.conf >= 1
    /\ ev.conf >= journal.conf
    /\ s = journal.state /\ s = "RECORDED" => ev.conf = journal.conf
Move(s, ev) ==
    /\ MayMove(s, ev)
    /\ journal' = [journal EXCEPT !.state = s, !.conf = ev.conf]
Stay(s, ev) == ~MayMove(s, ev) /\ UNCHANGED journal
TryMove(s, ev) == Move(s, ev) \/ Stay(s, ev)

DbUnchanged == UNCHANGED <<journal, recorded>>
Rest == UNCHANGED <<overlay, snap, failures, history>>

----------------------------------------------------------------------------
(* One fund_step *)

\* get_funding_attempt, and the tip of the node for a new attempt.
StepBegin(t) ==
    /\ pc[t] = "idle" /\ ~connecting
    /\ \/ /\ journal.state = "none"
          /\ Goto(t, "create")
          /\ local' = [local EXCEPT ![t].start = Len(chain) + 1]
       \/ /\ journal.state \in {"PREPARED", "BROADCASTING", "TX_IDENTIFIED", "CONFIRMED"}
          /\ Goto(t, CASE journal.state = "PREPARED" -> "prepare"
                       [] journal.state = "BROADCASTING" -> "send"
                       [] journal.state = "TX_IDENTIFIED" -> "scan"
                       [] OTHER -> "record")
          /\ local' = [local EXCEPT ![t].conf = journal.conf]
    /\ DbUnchanged /\ Rest /\ UNCHANGED <<node, wallet>>

\* prepare_funding_attempt: a row that is there must be for the same first height.
Create(t) ==
    /\ pc[t] = "create"
    /\ \/ /\ journal = Empty
          /\ journal' = [Empty EXCEPT !.state = "PREPARED", !.start = local[t].start]
          /\ Goto(t, "prepare") /\ Drop(t)
       \/ /\ journal # Empty /\ journal.start = local[t].start
          /\ Goto(t, "prepare") /\ Drop(t) /\ UNCHANGED journal
       \/ /\ journal # Empty /\ journal.start # local[t].start
          /\ Leave(t) /\ UNCHANGED journal
    /\ Rest /\ UNCHANGED <<recorded, node, wallet>>

\* What the node's status must say before the barrier: an intact, unsent reservation
\* of the journal's transaction.
Reserved == op.state = "PREPARED" /\ Intact /\ op.tx = journal.tx /\ ~Known(op.tx)

\* prepare_tru_prebroadcast_funding reads the row: bytes that are durable are only
\* checked against the node ...
Prepare(t) ==
    /\ pc[t] = "prepare"
    /\ \/ /\ journal.state = "PREPARED" /\ journal.tx = NoTx
          /\ Goto(t, "ask") /\ UNCHANGED local
       \/ /\ journal.state = "PREPARED" /\ journal.tx # NoTx /\ hold = Free /\ Reserved
          /\ Goto(t, "dryrun") /\ UNCHANGED local
       \/ /\ \/ journal.state # "PREPARED"
             \/ journal.tx # NoTx /\ hold = Free /\ ~Reserved
          /\ Leave(t)
    /\ DbUnchanged /\ Rest /\ UNCHANGED <<node, wallet>>

\* ... else the wallet is asked for them.
Ask(t) ==
    /\ pc[t] = "ask"
    /\ \/ /\ PrepareFunding
          /\ local' = [local EXCEPT ![t].tx = op'.tx]
          /\ Goto(t, "bind")
       \/ /\ CannotPrepare
          /\ Leave(t) /\ UNCHANGED <<op, marker>>
    /\ DbUnchanged /\ Rest
    /\ UNCHANGED <<ledger, poolVars, ingress, hold, sent, budget>>
    /\ UNCHANGED <<pending, answer, releases>>

\* The transaction must not be in the pool yet; prepare_funding_payload never changes
\* bytes it has.
Bindable(t) ==
    /\ ~Known(local[t].tx)
    /\ journal.state = "PREPARED" /\ journal.tx \in {NoTx, local[t].tx}

Bind(t) ==
    /\ pc[t] = "bind"
    /\ IF Bindable(t)
       THEN /\ journal' = [journal EXCEPT !.tx = local[t].tx]
            /\ Goto(t, "prepare") /\ Drop(t)
       ELSE Leave(t) /\ UNCHANGED journal
    /\ Rest /\ UNCHANGED <<recorded, node, wallet>>

\* The dry run of the exact bytes; a journal that another thread has moved to
\* BROADCASTING skips it.
DryRun(t) ==
    /\ pc[t] = "dryrun"
    /\ \/ /\ journal.state = "PREPARED" /\ hold = Free /\ Sendable(Id[journal.tx])
          /\ Goto(t, "barrier") /\ UNCHANGED local
       \/ /\ journal.state = "BROADCASTING"
          /\ Goto(t, "send") /\ UNCHANGED local
       \/ /\ \/ journal.state \notin {"PREPARED", "BROADCASTING"}
             \/ hold = Free /\ ~Sendable(Id[journal.tx])
          /\ Leave(t)
    /\ DbUnchanged /\ Rest /\ UNCHANGED <<node, wallet>>

\* _to_broadcasting: the journal crosses the barrier before the request leaves.
Barrier(t) ==
    /\ pc[t] = "barrier"
    /\ LET none == [id |-> "none", conf |-> 0]
       IN  \/ Move("BROADCASTING", none) /\ Goto(t, "send") /\ UNCHANGED local
           \/ Stay("BROADCASTING", none) /\ Leave(t)
    /\ Rest /\ UNCHANGED <<recorded, node, wallet>>

Send(t) ==
    /\ pc[t] = "send"
    /\ pending' = pending \cup {[by |-> t, id |-> Id[journal.tx]]}
    /\ answer' = [answer EXCEPT ![t] = "none"]
    /\ Goto(t, "wait")
    /\ DbUnchanged /\ Rest /\ UNCHANGED <<local, node, op, releases>>

Answered(t) ==
    /\ pc[t] = "wait" /\ answer[t] # "none"
    /\ answer' = [answer EXCEPT ![t] = "none"]
    /\ IF answer[t] = "ok" THEN Goto(t, "name") /\ UNCHANGED local ELSE Leave(t)
    /\ DbUnchanged /\ Rest /\ UNCHANGED <<node, op, pending, releases>>

\* _to_tx_identified
Name(t) ==
    /\ pc[t] = "name"
    /\ TryMove("TX_IDENTIFIED", Kept)
    /\ Leave(t)
    /\ Rest /\ UNCHANGED <<recorded, node, wallet>>

----------------------------------------------------------------------------
(* Reconciliation and evidence *)

\* scan_tru_funding_candidates: the pool first, then the tip, then the blocks up to that
\* tip from the attempt's first height on, each in a request of its own.
InPool == {[id |-> Id[u], conf |-> 0] : u \in pool \cap Pays}

ScanPool(t) ==
    /\ pc[t] = "scan"
    /\ \/ /\ journal.state = "TX_IDENTIFIED"
          /\ local' = [local EXCEPT ![t].seen = InPool, ![t].conf = journal.conf]
          /\ Goto(t, "tip")
       \/ journal.state # "TX_IDENTIFIED" /\ Leave(t)
    /\ DbUnchanged /\ Rest /\ UNCHANGED <<node, wallet>>

\* The tip is read without the lock; a block that is being connected is not yet in it.
Tip == IF connecting THEN Len(chain) - 1 ELSE Len(chain)

ReadTip(t) ==
    /\ pc[t] = "tip"
    /\ local' = [local EXCEPT ![t].tip = Tip, ![t].at = journal.start]
    /\ Goto(t, IF journal.start <= Tip THEN "blocks" ELSE "apply")
    /\ DbUnchanged /\ Rest /\ UNCHANGED <<node, wallet>>

\* The next block, under the lock: the confirmations are counted from the tip that was
\* read.  A height that is gone is an error; a span beyond the cap is one too, and so may be
\* the request for a transaction.
InBlock(height, tip) ==
    {[id |-> Id[u], conf |-> tip - height + 1] : u \in chain[height] \cap Pays}

\* Mutant: a height that is gone ends the scan with what it has found.
ScanBlock_Short(t) ==
    /\ pc[t] = "blocks" /\ ~connecting
    /\ LET at == local[t].at
           new == IF at <= Len(chain) THEN InBlock(at, local[t].tip) ELSE {}
           old == {c \in local[t].seen : \A b \in new : b.id # c.id}
       IN  /\ local' = [local EXCEPT ![t].seen = old \cup new, ![t].at = at + 1]
           /\ Goto(t, IF at < local[t].tip /\ at <= Len(chain) THEN "blocks" ELSE "apply")
    /\ DbUnchanged /\ Rest /\ UNCHANGED <<node, wallet>>

ScanBlock(t) ==
    /\ pc[t] = "blocks" /\ ~connecting
    /\ LET at == local[t].at
           new == InBlock(at, local[t].tip)
           old == {c \in local[t].seen : \A b \in new : b.id # c.id}
       IN  \/ /\ at \in DOMAIN chain
              /\ local' = [local EXCEPT ![t].seen = old \cup new, ![t].at = at + 1]
              /\ Goto(t, IF at < local[t].tip THEN "blocks" ELSE "apply")
           \/ Leave(t)
    /\ DbUnchanged /\ Rest /\ UNCHANGED <<node, wallet>>

\* apply_tru_reconcile_result, first transition: nothing found changes nothing, and
\* what cannot be told apart or has moved backwards is given up.
Doubtful(t) ==
    \/ Cardinality(local[t].seen) > 1
    \/ \E c \in local[t].seen : c.id # Id[journal.tx] \/ c.conf < local[t].conf

Enough(conf) == conf >= MinConf

Apply(t) ==
    /\ pc[t] = "apply"
    /\ \/ /\ local[t].seen = {} /\ Leave(t) /\ UNCHANGED journal
       \/ Doubtful(t) /\ Leave(t) /\ TryMove("AMBIGUOUS", Kept)
       \/ /\ ~Doubtful(t)
          /\ \E c \in local[t].seen :
                \/ /\ Move("TX_IDENTIFIED", c) /\ Enough(c.conf)
                   /\ Goto(t, "confirm") /\ UNCHANGED local
                \/ Move("TX_IDENTIFIED", c) /\ ~Enough(c.conf) /\ Leave(t)
                \/ Stay("TX_IDENTIFIED", c) /\ Leave(t)
    /\ Rest /\ UNCHANGED <<recorded, node, wallet>>

\* ... and its second.
Confirm(t) ==
    /\ pc[t] = "confirm"
    /\ \E c \in local[t].seen :
          \/ /\ Move("CONFIRMED", c)
             /\ Goto(t, "record") /\ local' = [local EXCEPT ![t] = [Unseen EXCEPT !.conf = c.conf]]
          \/ Stay("CONFIRMED", c) /\ Leave(t)
    /\ Rest /\ UNCHANGED <<recorded, node, wallet>>

\* _record_confirmed: evidence that is there already must be this funding's; a second
\* transition of the record is refused.
Record(t) ==
    /\ pc[t] = "record"
    /\ \/ /\ recorded \in {NoTx, Id[journal.tx]} /\ Enough(local[t].conf)
          /\ recorded' = Id[journal.tx]
          /\ Goto(t, "close") /\ UNCHANGED local
       \/ /\ recorded # NoTx \/ ~Enough(local[t].conf)
          /\ Leave(t) /\ UNCHANGED recorded
    /\ Rest /\ UNCHANGED <<journal, node, wallet>>

Close(t) ==
    /\ pc[t] = "close"
    /\ TryMove("RECORDED", [Kept EXCEPT !.conf = local[t].conf])
    /\ Leave(t)
    /\ Rest /\ UNCHANGED <<recorded, node, wallet>>

----------------------------------------------------------------------------
(* The watcher *)

\* getKnownTransactionStatus: the active chain first, then the pool, then the blocks
\* off the chain as long as the index has them.
Status(id) ==
    LET of(S) == {t \in S : Id[t] = id}
    IN  IF of(Mined) # {} THEN {[state |-> "CONFIRMED", tx |-> t] : t \in of(Mined)}
        ELSE IF of(pool) # {} THEN {[state |-> "MEMPOOL", tx |-> t] : t \in of(pool)}
        ELSE {[state |-> "AWAY", tx |-> t] : t \in of(gone) \cup {NoTx}}

\* Mutant: every row that has a txid.
Watched_Named == journal.state \in {"TX_IDENTIFIED", "CONFIRMED", "RECORDED"}

\* terminal_page: the rows the watcher looks at.
Watched == journal.state \in {"CONFIRMED", "RECORDED"}

\* observe_terminal_tru_attempt: bytes that are not the prepared ones are an error,
\* and an error is no observation.
Observe ==
    /\ snap = "none" /\ ~connecting /\ Watched
    /\ \E s \in Status(Id[journal.tx]) : s.tx \in {journal.tx, NoTx} /\ snap' = s.state
    /\ UNCHANGED <<node, wallet, journal, recorded, overlay, pc, local, failures, history>>

\* record_observation: no row before a reorg, and no way back after one.
Note ==
    /\ snap # "none"
    /\ overlay' = IF overlay = "none" /\ snap = "CONFIRMED" THEN "none" ELSE snap
    /\ snap' = "none"
    /\ UNCHANGED <<node, wallet, journal, recorded, pc, local, failures, history>>

----------------------------------------------------------------------------
(* Failures *)

Trouble == budget.reorgs + budget.restarts + failures

\* A request whose caller has gone goes on as "lost".
Abandoned(r, S) == IF r.by \in S THEN [r EXCEPT !.by = "lost"] ELSE r

\* The caller stops waiting.
GiveUp(t) ==
    /\ pc[t] = "wait" /\ Trouble < MaxTrouble
    /\ failures' = failures + 1
    /\ Leave(t)
    /\ \/ pending' = {r \in pending : r.by # t}
       \/ pending' = {Abandoned(r, {t}) : r \in pending}
    /\ hold' = Abandoned(hold, {t})
    /\ answer' = [answer EXCEPT ![t] = "none"]
    /\ UNCHANGED <<ledger, marker, poolVars, ingress, sent, budget>>
    /\ UNCHANGED <<op, releases, journal, recorded, overlay, snap, history>>

\* The agent's process dies; requests on their way go on.
CrashAgent ==
    /\ Trouble < MaxTrouble
    /\ failures' = failures + 1
    /\ pc' = [t \in Threads |-> "idle"] /\ local' = [t \in Threads |-> Unseen]
    /\ snap' = "none"
    /\ pending' = {Abandoned(r, Threads) : r \in pending}
    /\ hold' = Abandoned(hold, Threads)
    /\ answer' = [t \in Threads |-> "none"]
    /\ UNCHANGED <<ledger, marker, poolVars, ingress, sent, budget>>
    /\ UNCHANGED <<op, releases, journal, recorded, overlay, history>>

\* The node's process dies; who waits for it gets an error.
RestartNode ==
    /\ LoseNode /\ Trouble < MaxTrouble
    /\ pending' = {}
    /\ answer' = [t \in Threads |-> IF pc[t] = "wait" THEN "error" ELSE answer[t]]
    /\ UNCHANGED <<op, releases, agent, history>>

----------------------------------------------------------------------------

Init ==
    /\ MempoolInit /\ FundingInit
    /\ journal = Empty /\ recorded = NoTx /\ overlay = "none"
    /\ pc = [t \in Threads |-> "idle"] /\ local = [t \in Threads |-> Unseen]
    /\ snap = "none" /\ failures = 0
    /\ been = {} /\ torn = FALSE

\* What a step of the node adds to the history: the depths of the chain it makes, and
\* whether the block it takes gave a scan under way a depth that was never reached.
Deep(c) == UNION {{[id |-> Id[u], conf |-> Len(c) - i + 1] : u \in c[i]} : i \in DOMAIN c}
Tears(t) ==
    /\ pc[t] = "blocks" /\ Len(chain') < Len(chain)
    /\ \E c \in local[t].seen \ been :
          c.conf > 0 /\ c.conf = local[t].tip - Len(chain) + 1
Witness ==
    /\ been' = been \cup Deep(chain')
    /\ torn' = (torn \/ \E t \in Threads : Tears(t))

Thread(t) ==
    \/ StepBegin(t) \/ Create(t) \/ Prepare(t) \/ Ask(t) \/ Bind(t) \/ DryRun(t) \/ Barrier(t)
    \/ Send(t) \/ Answered(t) \/ Name(t)
    \/ ScanPool(t) \/ ReadTip(t) \/ ScanBlock(t) \/ Apply(t) \/ Confirm(t) \/ Record(t) \/ Close(t)

Next ==
    \/ NodeNext /\ Witness /\ UNCHANGED agent /\ Trouble' <= MaxTrouble
    \/ RestartNode
    \/ \E t \in Threads : Thread(t) \/ GiveUp(t)
    \/ Observe \/ Note \/ CrashAgent

Spec == Init /\ [][Next]_vars

----------------------------------------------------------------------------
(* Properties *)

Blocks == SUBSET Txs
Steps ==
    {"idle", "create", "prepare", "ask", "bind", "dryrun", "barrier", "send", "wait",
     "name", "scan", "tip", "blocks", "apply", "confirm", "record", "close"}
Ids == {Id[t] : t \in Txs}
Evidence == [id : Ids, conf : Nat]

\* Type correctness.
TypeOK ==
    /\ chain \in Seq(Blocks) /\ connecting \in BOOLEAN /\ gone \subseteq Txs
    /\ marker \in [Coins -> Txs \cup {NoTx}]
    /\ pool \subseteq Txs /\ spent \subseteq Coins
    /\ queue \in Seq([tx : Txs, tries : Nat]) /\ queued \subseteq Ids
    /\ hold \in [by : Callers \cup {"queue", "nobody"}, tx : Txs \cup {NoTx},
                 at : {"free", "commit", "persist"}]
    /\ sent \subseteq Txs
    /\ budget \in [reorgs : Nat, restarts : Nat]
    /\ op \in [state : {"none", "PREPARED", "BROADCASTED", "RELEASED"}, tx : Txs \cup {NoTx}]
    /\ pending \subseteq [by : Callers, id : Ids]
    /\ answer \in [Threads -> {"none", "ok", "error"}] /\ releases \in Nat
    /\ journal \in [state : {"none", "PREPARED", "BROADCASTING", "TX_IDENTIFIED",
                             "CONFIRMED", "RECORDED", "AMBIGUOUS"},
                    tx : Txs \cup {NoTx}, conf : Nat, start : Nat]
    /\ recorded \in Ids \cup {NoTx}
    /\ overlay \in {"none", "CONFIRMED", "MEMPOOL", "AWAY"}
    /\ pc \in [Threads -> Steps]
    /\ local \in [Threads -> [start : Nat, tx : Txs \cup {NoTx}, conf : Nat,
                              seen : SUBSET Evidence, tip : Nat, at : Nat]]
    /\ snap \in {"none", "CONFIRMED", "MEMPOOL", "AWAY"}
    /\ failures \in Nat
    /\ been \subseteq Evidence /\ torn \in BOOLEAN

\* A coin that is reserved for a prepared transaction is spent in the pool by the very
\* bytes that were signed and by nothing else, whoever sends what
\* (the gate of addTransaction against prepareHtlcFunding's selection).
ReservedForPrepared ==
    \A t \in pool : \A c \in Inputs[t] : marker[c] \in {NoTx, t}

Abroad == pool \cup Mined \cup gone \cup sent

\* A transaction of the wallet that anybody has seen is the one of the node's operation
\* and of the agent's journal, and the journal had crossed its barrier: at most one
\* funding is ever sent, over crashes of either side, releases and several threads
\* (the two stores' idempotence, _to_broadcasting).
OneFunding ==
    \A f \in Funding : Id[f] \in IdsOf(Abroad) =>
        journal.tx = f /\ op.tx = f /\ journal.state \notin {"none", "PREPARED"}

\* What the swap's record has as evidence is the prepared transaction, with enough
\* confirmations, and it was once that deep in the active chain, whatever two threads saw
\* of a chain that moved under their scans: a depth counted from a tip that is gone does
\* not outlive its scan (apply_tru_reconcile_result, _record_confirmed).  But for one
\* case: the block that gave it was replaced once more before that scan had ended.
EvidenceTrue ==
    recorded # NoTx =>
        /\ journal.tx # NoTx /\ recorded = Id[journal.tx]
        /\ recorded \in IdsOf(Mined \cup gone)
        /\ journal.conf >= MinConf
        /\ torn \/ [id |-> recorded, conf |-> journal.conf] \in been

\* The watcher's overlay, which holds a swap for good, is only written for a funding
\* that a reorganisation really took off the chain
\* (getKnownTransactionStatus, terminal_page, record_observation).
NoFalseReorg == overlay # "none" => Id[journal.tx] \in IdsOf(gone)

\* A request for the prepared bytes that finds them accepted already, in the pool or in
\* the chain, says so: what the comment on broadcastPreparedHtlcFundingV1 promises to
\* a caller that comes back after a crash.
ReplayObserved ==
    [][\A r \in pending :
          r \notin pending' /\ Sendable(r.id) /\ r.id \in IdsOf(Mined \cup pool)
              /\ hold = Free /\ UNCHANGED <<failures, budget>>
          => hold'.by = r.by]_vars
=============================================================================
