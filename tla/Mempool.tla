------------------------------ MODULE Mempool ------------------------------
(***************************************************************************)
(* The transaction pool of a node (mempool.cpp), its ingress queue         *)
(* (addTransaction, processQueue of blockchain.cpp), the queue of accepted *)
(* transactions to relay (tx_relay_queue_v1.h), and the blocks that spend  *)
(* and give back what the pool counts on.                                  *)
(*                                                                         *)
(* A transaction is what it spends, its txid and its fee rate.  A txid of  *)
(* this chain leaves the scripts of the inputs out, so two transactions    *)
(* may have one txid and differ in their bytes.  A coin that no            *)
(* transaction makes is an output of a block below those modelled.         *)
(***************************************************************************)
EXTENDS Naturals, Sequences, FiniteSets

CONSTANTS
    Txs,            \* transactions, as exact bytes
    NoTx,
    Coins,          \* outpoints
    Inputs, Makes,  \* Inputs[t]: the coins t spends; Makes[t]: the coins t makes
    Id,             \* Id[t]: the txid of t
    Rate,           \* Rate[t]: its fee per byte
    Strangers,      \* transactions anybody may send at any time
    MaxPool,        \* MAX_MEMPOOL_TXS
    MaxQueue,       \* MAX_TX_QUEUE_TXS
    MaxRetries,     \* MAX_MEMPOOL_BUSY_RETRIES
    MaxBlocks, MaxReorgs, MaxRestarts             \* bounds of the exploration

ASSUME TxAssumption ==
    /\ NoTx \notin Txs
    /\ Inputs \in [Txs -> SUBSET Coins]
    /\ \A t \in Txs : Inputs[t] # {}
    /\ Makes \in [Txs -> SUBSET Coins]
    /\ \A t, u \in Txs : Id[t] = Id[u] => Inputs[t] = Inputs[u]
    /\ Rate \in [Txs -> Nat]
    /\ Strangers \subseteq Txs

ASSUME SizeAssumption ==
    /\ MaxPool \in Nat \ {0}
    /\ {MaxQueue, MaxRetries, MaxBlocks, MaxReorgs, MaxRestarts} \subseteq Nat

VARIABLES
    chain,          \* blocks above those that made the coins: sets of transactions
    connecting,     \* the last block is applied, the pool not cleaned yet
    gone,           \* transactions of every block that was disconnected
    marker,         \* durable: the prepared transaction a coin is reserved for
    pool,           \* pool_
    spent,          \* spentInMempool
    queue,          \* txQueue_ with txQueueRetries_
    queued,         \* txQueueTxids_
    hold,           \* who is under the admission mutex, with what, at which step
    sent,           \* transactions peers have been given
    budget          \* how many reorgs and restarts so far

ledger == <<chain, connecting, gone>>
ingress == <<queue, queued>>
poolVars == <<pool, spent>>

Free == [by |-> "nobody", tx |-> NoTx, at |-> "free"]

----------------------------------------------------------------------------
(* Coins and transactions *)

InputsOf(S) == UNION {Inputs[t] : t \in S}
IdsOf(S) == {Id[t] : t \in S}
Mined == UNION {chain[i] : i \in DOMAIN chain}

\* No two transactions of S spend the same coin.
Apart(S) == \A t, u \in S : t # u => Inputs[t] \cap Inputs[u] = {}

\* getUTXO finds the coin: it was made, or always there, and is not spent.
There(c) == (\A t \in Txs : c \notin Makes[t]) \/ (\E t \in Mined : c \in Makes[t])
Unspent(t) == \A c \in Inputs[t] : There(c) /\ c \notin InputsOf(Mined)

\* Mutant: the gate compares txids.
Gate_ById(t) ==
    \A c \in Inputs[t] : marker[c] # NoTx => Id[marker[c]] = Id[t]

\* The gate of the reservations: the exact bytes, or nothing.
Gate(t) == \A c \in Inputs[t] : marker[c] \in {NoTx, t}

Known(t) == Id[t] \in IdsOf(pool)

FirstSeen(t) == Inputs[t] \cap spent = {}

\* What every admission asks before it takes a validation slot.
Preflight(t) == Gate(t) /\ ~Known(t) /\ FirstSeen(t)

\* The entries that would make room for t: the lowest fee rates, strictly below
\* t's own.
Victims(t) ==
    {u \in pool : Rate[u] < Rate[t] /\ \A v \in pool : Rate[u] <= Rate[v]}

\* Sets of entries that may be evicted for t; none when t cannot be taken.
Evictions(t) ==
    IF Cardinality(pool) < MaxPool THEN {{}} ELSE {{u} : u \in Victims(t)}

\* Mutant: the recheck trusts what was seen before the validation.
Committable_Trusting(t) == ~Known(t) /\ FirstSeen(t)

\* The recheck at the commit, after the validation.
Committable(t) == ~Known(t) /\ Unspent(t) /\ FirstSeen(t)

\* eraseTransactionLocked, for several entries.
Erase(S) ==
    /\ pool' = pool \ S
    /\ spent' = spent \ InputsOf(S)

Insert(t, out) ==
    /\ pool' = (pool \ out) \cup {t}
    /\ spent' = (spent \ InputsOf(out)) \cup Inputs[t]

----------------------------------------------------------------------------
(* The ingress queue *)

\* A transaction of a stranger, or one that comes back from a peer, perhaps with
\* another signature.
Receivable == Strangers \cup {t \in Txs : Id[t] \in IdsOf(sent)}

Enqueue(t) ==
    /\ t \in Receivable
    /\ Id[t] \notin queued /\ Len(queue) < MaxQueue
    /\ queue' = Append(queue, [tx |-> t, tries |-> 0])
    /\ queued' = queued \cup {Id[t]}
    /\ UNCHANGED <<ledger, marker, poolVars, hold, sent, budget>>

\* Mutant: a transaction that fails stays noted.
Forget_Never(t) == queued' = IF t \in pool THEN queued \ {Id[t]} ELSE queued

Forget(t) == queued' = queued \ {Id[t]}

\* processQueue takes the head, gets the mutex, and passes or fails the preflight and
\* the validation, whose fee needs the inputs.
Process ==
    /\ queue # <<>> /\ hold = Free
    /\ queue' = Tail(queue)
    /\ LET t == Head(queue).tx
       IN  IF Preflight(t) /\ Unspent(t)
           THEN hold' = [by |-> "queue", tx |-> t, at |-> "commit"] /\ UNCHANGED queued
           ELSE Forget(t) /\ UNCHANGED hold
    /\ UNCHANGED <<ledger, marker, poolVars, sent, budget>>

\* Mutant: the retries are not counted.
Retried_Uncounted(e) == e

\* All validation slots are taken: back to the end of the queue, or dropped after so
\* many retries, or when others have filled the queue meanwhile.
Retried(e) == [e EXCEPT !.tries = @ + 1]

ProcessBusy ==
    /\ queue # <<>> /\ hold = Free /\ Preflight(Head(queue).tx)
    /\ UNCHANGED <<ledger, marker, poolVars, hold, sent, budget>>
    /\ LET e == Head(queue)
       IN  \/ /\ e.tries < MaxRetries
              /\ queue' = Append(Tail(queue), Retried(e)) /\ UNCHANGED queued
           \/ queue' = Tail(queue) /\ Forget(e.tx)

\* The end of the admission of a queued transaction.
AdmitQueued ==
    /\ hold.by = "queue"
    /\ \/ /\ Committable(hold.tx)
          /\ \E out \in Evictions(hold.tx) : Insert(hold.tx, out)
       \/ /\ ~Committable(hold.tx) \/ Evictions(hold.tx) = {}
          /\ UNCHANGED poolVars
    /\ hold' = Free
    /\ Forget(hold.tx)
    /\ UNCHANGED <<ledger, marker, queue, sent, budget>>

----------------------------------------------------------------------------
(* Relay and blocks *)

\* processAcceptedTransactionRelay: an accepted transaction goes to the peers unless it
\* has left the pool.
Relay(t) ==
    /\ t \in pool \ sent
    /\ sent' = sent \cup {t}
    /\ UNCHANGED <<ledger, marker, poolVars, ingress, hold, budget>>

\* A block of this node or of another: its transactions come from this pool, from
\* what peers were given, or from strangers.
Connect(B) ==
    /\ ~connecting /\ Len(chain) < MaxBlocks
    /\ B \subseteq Receivable \cup pool
    /\ Apart(B) /\ \A t \in B : Unspent(t)
    /\ chain' = Append(chain, B) /\ connecting' = TRUE
    /\ UNCHANGED <<gone, marker, poolVars, ingress, hold, sent, budget>>

\* cleanAfterBlock: what the block holds, and what it made impossible.
Cleaned ==
    LET B == chain[Len(chain)]
    IN  {t \in pool : Id[t] \in IdsOf(B) \/ Inputs[t] \cap InputsOf(B) # {}}

CleanPool ==
    /\ connecting
    /\ connecting' = FALSE
    /\ Erase(Cleaned)
    /\ UNCHANGED <<chain, gone, marker, ingress, hold, sent, budget>>

\* rollbackBlock gives the coins back and leaves the pool alone.
Disconnect ==
    /\ ~connecting /\ chain # <<>> /\ budget.reorgs < MaxReorgs
    /\ chain' = SubSeq(chain, 1, Len(chain) - 1)
    /\ gone' = gone \cup chain[Len(chain)]
    /\ budget' = [budget EXCEPT !.reorgs = @ + 1]
    /\ UNCHANGED <<connecting, marker, poolVars, ingress, hold, sent>>

\* The process ends and starts again: nothing of the pool or of a queue is kept.
LoseNode ==
    /\ budget.restarts < MaxRestarts
    /\ budget' = [budget EXCEPT !.restarts = @ + 1]
    /\ connecting' = FALSE
    /\ pool' = {} /\ spent' = {}
    /\ queue' = <<>> /\ queued' = {}
    /\ hold' = Free
    /\ UNCHANGED <<chain, gone, marker, sent>>

----------------------------------------------------------------------------

MempoolInit ==
    /\ chain = <<>> /\ connecting = FALSE /\ gone = {}
    /\ marker = [c \in Coins |-> NoTx]
    /\ pool = {} /\ spent = {}
    /\ queue = <<>> /\ queued = {}
    /\ hold = Free /\ sent = {}
    /\ budget = [reorgs |-> 0, restarts |-> 0]

MempoolNext ==
    \/ \E t \in Txs : Enqueue(t)
    \/ Process \/ ProcessBusy \/ AdmitQueued
    \/ \E t \in pool : Relay(t)
    \/ \E B \in SUBSET Txs : Connect(B)
    \/ CleanPool \/ Disconnect

poolAndLedger == <<ledger, marker, poolVars, ingress, hold, sent, budget>>

\* The node alone.  The thread that runs processQueue comes back every cycle, and who
\* holds the admission mutex lets it go.
MempoolSpec ==
    /\ MempoolInit /\ [][MempoolNext \/ LoseNode]_poolAndLedger
    /\ WF_poolAndLedger(Process \/ ProcessBusy)
    /\ WF_poolAndLedger(AdmitQueued)

----------------------------------------------------------------------------
(* Properties *)

\* The pool never holds two spends of a coin, two transactions of a txid or more than
\* it may; its index of spent coins is exactly its inputs; and, but for the moment
\* between a block and the cleaning after it, all of it can be mined, but for spends of
\* coins that a reorganisation took away and that no cleaning looks at
\* (addTransaction's recheck at the commit, cleanAfterBlock, the evictions).
PoolConsistent ==
    /\ spent = InputsOf(pool) /\ Apart(pool)
    /\ \A t, u \in pool : Id[t] = Id[u] => t = u
    /\ Cardinality(pool) <= MaxPool
    /\ connecting \/ \A t \in pool :
          Unspent(t) \/ \E u \in gone \ Mined : Inputs[t] \cap Makes[u] # {}

\* The set of queued txids, which turns duplicates away, is exactly what waits or is
\* being admitted: a txid left behind would keep its transaction out until a restart
\* (addTransaction, processQueue).
QueueAccounted ==
    /\ queued = {Id[queue[i].tx] : i \in DOMAIN queue}
                \cup (IF hold.by = "queue" THEN {Id[hold.tx]} ELSE {})
    /\ Cardinality(queued) = Len(queue) + (IF hold.by = "queue" THEN 1 ELSE 0)
    /\ Len(queue) <= MaxQueue

\* Whatever is queued is decided, although every validation slot may be taken whenever
\* it is looked at (processQueue's bounded retries).
Decided == \A t \in Txs : Id[t] \in queued ~> Id[t] \notin queued
=============================================================================
