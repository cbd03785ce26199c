-------------------------- MODULE PreparedFunding --------------------------
(***************************************************************************)
(* The node's side of a swap's funding (wallet.cpp): one operation whose   *)
(* transaction is signed, its inputs reserved in one durable batch, and    *)
(* sent later, as the very bytes that were signed, or released.  Requests  *)
(* of the RPC wait in pending for the admission mutex, which a broadcast   *)
(* holds from its checks to its answer; when the caller has gone the       *)
(* request goes on as "lost".                                              *)
(***************************************************************************)
EXTENDS Mempool

CONSTANTS
    Threads,        \* request threads of the agent
    Funding,        \* transactions the wallet could sign for the operation
    MaxReleases     \* bound of the exploration

\* What the wallet signs nobody else could have: a txid names the coins it spends.
ASSUME FundingAssumption ==
    /\ Funding \subseteq Txs
    /\ \A f \in Funding, s \in Strangers : Id[s] # Id[f]
    /\ \A f, g \in Funding : Id[f] = Id[g] => f = g
    /\ {"queue", "nobody", "lost"} \cap Threads = {}
    /\ MaxReleases \in Nat

VARIABLES
    op,             \* durable: the operation's state and its transaction
    pending,        \* broadcast requests that wait for the mutex, with the txid they name
    answer,         \* what the last broadcast of a thread returned
    releases

wallet == <<op, pending, answer, releases>>

NoOp == [state |-> "none", tx |-> NoTx]
Callers == Threads \cup {"lost"}

\* swapPreparedFundingReservationIntact
Intact == op.tx # NoTx /\ \A c \in Inputs[op.tx] : marker[c] = op.tx

\* Inputs the wallet may choose: confirmed, not spent in the pool, not reserved.
Selectable(f) ==
    Unspent(f) /\ FirstSeen(f) /\ \A c \in Inputs[f] : marker[c] = NoTx

\* prepareHtlcFunding: the transaction it returns is op.tx.  An operation that is
\* already there is returned as it is, or refused when it is past PREPARED.
MayPrepare == op = NoOp \/ (op.state = "PREPARED" /\ Intact)

\* Mutant: an operation that is there already is prepared again.
PrepareFunding_Fresh ==
    /\ hold = Free /\ op.state \in {"none", "PREPARED"}
    /\ \E f \in Funding :
          /\ Selectable(f)
          /\ op' = [state |-> "PREPARED", tx |-> f]
          /\ marker' = [c \in Coins |-> IF c \in Inputs[f] THEN f ELSE marker[c]]

PrepareFunding ==
    /\ hold = Free /\ MayPrepare
    /\ IF op = NoOp
       THEN \E f \in Funding :
               /\ Selectable(f)
               /\ op' = [state |-> "PREPARED", tx |-> f]
               /\ marker' = [c \in Coins |-> IF c \in Inputs[f] THEN f ELSE marker[c]]
       ELSE UNCHANGED <<op, marker>>

CannotPrepare ==
    hold = Free /\ (~MayPrepare \/ (op = NoOp /\ ~\E f \in Funding : Selectable(f)))

\* releasePreparedHtlcFundingV1, by the operator: the markers and the signed bytes go.
Release ==
    /\ hold = Free /\ releases < MaxReleases
    /\ op.state = "PREPARED" /\ Intact /\ ~Known(op.tx)
    /\ op' = [op EXCEPT !.state = "RELEASED"]
    /\ marker' = [c \in Coins |-> IF c \in Inputs[op.tx] THEN NoTx ELSE marker[c]]
    /\ releases' = releases + 1
    /\ UNCHANGED <<ledger, poolVars, ingress, hold, sent, budget, pending, answer>>

\* What broadcastPreparedHtlcFundingV1 asks of the record, dry run or not: the
\* transaction the caller names, not released, and its reservation.
Sendable(id) ==
    op.state \in {"PREPARED", "BROADCASTED"} /\ Intact /\ Id[op.tx] = id

Answer(by, a) == answer' = IF by \in Threads THEN [answer EXCEPT ![by] = a] ELSE answer

\* The request gets the mutex.  A transaction of the pool with this txid counts as
\* accepted; otherwise the exact bytes are admitted like any other transaction.
BroadcastBegin(r) ==
    /\ r \in pending /\ hold = Free
    /\ pending' = pending \ {r}
    /\ \/ /\ Sendable(r.id) /\ Known(op.tx)
          /\ hold' = [by |-> r.by, tx |-> op.tx, at |-> "persist"]
          /\ UNCHANGED answer
       \/ /\ Sendable(r.id) /\ Preflight(op.tx) /\ Unspent(op.tx)
          /\ hold' = [by |-> r.by, tx |-> op.tx, at |-> "commit"]
          /\ UNCHANGED answer
       \/ /\ ~Sendable(r.id) \/ (~Known(op.tx) /\ ~(Preflight(op.tx) /\ Unspent(op.tx)))
          /\ Answer(r.by, "error")
          /\ UNCHANGED hold
    /\ UNCHANGED <<ledger, marker, poolVars, ingress, sent, budget, op, releases>>

BroadcastBusy(r) ==
    /\ r \in pending /\ hold = Free
    /\ Sendable(r.id) /\ Preflight(op.tx)
    /\ pending' = pending \ {r}
    /\ Answer(r.by, "error")
    /\ UNCHANGED <<ledger, marker, poolVars, ingress, hold, sent, budget, op, releases>>

BroadcastCommit ==
    /\ hold.by \in Callers /\ hold.at = "commit"
    /\ \/ /\ Committable(hold.tx)
          /\ \E out \in Evictions(hold.tx) : Insert(hold.tx, out)
          /\ hold' = [hold EXCEPT !.at = "persist"]
          /\ UNCHANGED answer
       \/ /\ ~Committable(hold.tx) \/ Evictions(hold.tx) = {}
          /\ hold' = Free
          /\ Answer(hold.by, "error")
          /\ UNCHANGED poolVars
    /\ UNCHANGED <<ledger, marker, ingress, sent, budget, op, pending, releases>>

\* BROADCASTED becomes durable; the answer is an error when the transaction has
\* left the pool meanwhile.
BroadcastPersist ==
    /\ hold.by \in Callers /\ hold.at = "persist"
    /\ op' = [op EXCEPT !.state = "BROADCASTED"]
    /\ hold' = Free
    /\ Answer(hold.by, IF Known(hold.tx) THEN "ok" ELSE "error")
    /\ UNCHANGED <<ledger, marker, poolVars, ingress, sent, budget, pending, releases>>

----------------------------------------------------------------------------

FundingInit ==
    /\ op = NoOp /\ pending = {} /\ releases = 0
    /\ answer = [t \in Threads |-> "none"]

NodeNext ==
    \/ MempoolNext /\ UNCHANGED wallet
    \/ Release
    \/ \E r \in pending : BroadcastBegin(r) \/ BroadcastBusy(r)
    \/ BroadcastCommit \/ BroadcastPersist
=============================================================================
