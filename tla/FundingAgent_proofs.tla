------------------------ MODULE FundingAgent_proofs ------------------------
(***************************************************************************)
(* Facts about the funding of a swap for any number of request threads,    *)
(* crashes, releases and reorganisations.  The wallet's operation chooses  *)
(* its transaction once, and the journal, the threads and the requests     *)
(* only ever speak of that one (OneTx); nothing is asked of the node       *)
(* before the journal has crossed its barrier (Barriered), so every        *)
(* transaction abroad that has a txid of the wallet's is the journal's     *)
(* (OutSound).  What is under the admission mutex has passed the gate, and *)
(* no reservation changes meanwhile (Gated).  A depth that a scan has      *)
(* counted is one the chain has had, or its block still stands below the   *)
(* tip that was read, and will be that deep when the scan gets there       *)
(* (Sees, Deepened).                                                       *)
(***************************************************************************)
EXTENDS FundingAgent, Mempool_proofs

Past == journal.state \notin {"none", "PREPARED"}

OneTx ==
    /\ op = NoOp \/ (op.state # "none" /\ op.tx \in Funding)
    /\ journal.state = "none" => journal = Empty
    /\ journal.tx \in {NoTx, op.tx}
    /\ Past => journal.tx # NoTx
    /\ \A t \in Threads : local[t].tx \in {NoTx, op.tx}

Barriered ==
    /\ pending # {} => Past
    /\ \A t \in Threads : pc[t] \in {"send", "wait"} => Past
    /\ hold.by \in Callers => Past /\ hold.tx = op.tx /\ op.tx # NoTx

\* What anybody has, or is about to have in the pool.
Out ==
    Abroad \cup {queue[i].tx : i \in DOMAIN queue}
           \cup {x \in Txs : hold.by = "queue" /\ x = hold.tx}

Ours(x) == \E f \in Funding : Id[f] = Id[x]

OutSound == \A x \in Out : Ours(x) => Past /\ Id[x] = Id[op.tx]

Gated ==
    /\ hold.by = "queue" => hold.at = "commit"
    /\ hold.at = "commit" => Gate(hold.tx)
    /\ ReservedForPrepared

\* A transaction with the txid n is in a block, or was.
Chained(n) == n \in IdsOf(Mined \cup gone)

\* The block from which l has counted c, which has its height still.
Standing(l, c) ==
    \E i \in DOMAIN chain :
        i < l.at /\ c.conf = l.tip - i + 1 /\ \E u \in chain[i] : Id[u] = c.id

\* What a thread at this step may have found.
Sees(step, l) ==
    /\ step = "blocks" => l.at <= l.tip
    /\ \A c \in l.seen : c.conf >= 1 =>
          Chained(c.id) /\ (torn \/ c \in been \/ (step = "blocks" /\ Standing(l, c)))

\* Every depth up to the present one has been there.
Deepened ==
    /\ been \subseteq Evidence /\ torn \in BOOLEAN
    /\ connecting => chain # <<>>
    /\ \A i \in DOMAIN chain : \A u \in chain[i] : \A d \in 1..(Len(chain) - i + 1) :
          [id |-> Id[u], conf |-> d] \in been

\* The journal's transaction was that deep.
BeenAt(conf) == torn \/ [id |-> Id[journal.tx], conf |-> conf] \in been

Witnessed ==
    /\ Watched => Chained(Id[journal.tx])
    /\ \A t \in Threads : Sees(pc[t], local[t])
    /\ journal.conf >= 1 => Past /\ BeenAt(journal.conf)
    /\ \A t \in Threads : pc[t] \in {"record", "close"} =>
          Watched /\ local[t].conf <= journal.conf
    /\ recorded # NoTx =>
          Watched /\ recorded = Id[journal.tx] /\ journal.conf >= MinConf

ReorgSeen ==
    /\ snap # "none" => Watched
    /\ snap \in {"MEMPOOL", "AWAY"} => Id[journal.tx] \in IdsOf(gone)
    /\ overlay # "none" => Watched /\ Id[journal.tx] \in IdsOf(gone)

Held == [by : Callers \cup {"queue", "nobody"}, tx : Txs \cup {NoTx},
         at : {"free", "commit", "persist"}]
Ops == [state : {"none", "PREPARED", "BROADCASTED", "RELEASED"}, tx : Txs \cup {NoTx}]
Requests == [by : Callers, id : Ids]
Journals ==
    [state : {"none", "PREPARED", "BROADCASTING", "TX_IDENTIFIED", "CONFIRMED",
              "RECORDED", "AMBIGUOUS"},
     tx : Txs \cup {NoTx}, conf : Nat, start : Nat]
Locals == [start : Nat, tx : Txs \cup {NoTx}, conf : Nat, seen : SUBSET Evidence,
           tip : Nat, at : Nat]
Words == {"none", "CONFIRMED", "MEMPOOL", "AWAY"}

NodeTyped ==
    /\ marker \in [Coins -> Txs \cup {NoTx}] /\ hold \in Held
    /\ sent \subseteq Txs /\ budget \in [reorgs : Nat, restarts : Nat]
WalletTyped ==
    /\ op \in Ops /\ pending \subseteq Requests
    /\ answer \in [Threads -> {"none", "ok", "error"}] /\ releases \in Nat
AgentTyped ==
    /\ journal \in Journals /\ recorded \in Ids \cup {NoTx} /\ overlay \in Words
    /\ pc \in [Threads -> Steps] /\ local \in [Threads -> Locals]
    /\ snap \in Words /\ failures \in Nat

FundInv ==
    /\ PoolInv /\ NodeTyped /\ WalletTyped /\ AgentTyped
    /\ OneTx /\ Barriered /\ OutSound /\ Gated /\ Deepened /\ Witnessed /\ ReorgSeen

----------------------------------------------------------------------------
(* What every step keeps *)

\* The wallet's choice stands, and the journal only goes on.
Carries ==
    /\ op.tx # NoTx => op'.tx = op.tx
    /\ Past => Past' /\ journal'.tx = journal.tx
    /\ Watched => Watched'
    /\ journal'.conf >= journal.conf

LEMMA NotCallers == {"queue", "nobody"} \cap Callers = {} /\ Threads \subseteq Callers
BY FundingAssumption DEF Callers

LEMMA OutHas ==
    \A x : x \in Out <=>
        \/ x \in pool \cup Mined \cup gone \cup sent
        \/ \E i \in DOMAIN queue : x = queue[i].tx
        \/ x \in Txs /\ hold.by = "queue" /\ x = hold.tx
BY DEF Out, Abroad

LEMMA OutHasNext ==
    \A x : x \in Out' <=>
        \/ x \in pool' \cup Mined' \cup gone' \cup sent'
        \/ \E i \in DOMAIN queue' : x = queue'[i].tx
        \/ x \in Txs /\ hold'.by = "queue" /\ x = hold'.tx
BY DEF Out, Abroad

\* What is abroad after a step came from a stranger, from what was abroad, or is the
\* wallet's own.
Spreads ==
    \A x \in Out' :
        \/ x \in Strangers \/ \E y \in Out : Id[y] = Id[x]
        \/ Past /\ Id[x] = Id[op.tx]

LEMMA OutStays ==
    ASSUME OneTx, OutSound, Carries, Spreads PROVE OutSound'
<1> SUFFICES ASSUME NEW x \in Out', Ours(x) PROVE Past' /\ Id[x] = Id[op'.tx]
  BY DEF OutSound, Ours
<1>1. x \notin Strangers
  BY FundingAssumption DEF Ours
<1>2. Past /\ Id[x] = Id[op.tx]
  <2>1. CASE \E y \in Out : Id[y] = Id[x]
    BY <2>1 DEF OutSound, Ours
  <2>2. QED  BY <1>1, <2>1 DEF Spreads
<1>3. op.tx # NoTx
  BY <1>2 DEF OneTx
<1>4. QED  BY <1>2, <1>3 DEF Carries

\* What was in a block stays in one or in those that were taken off.
BlocksStay == Mined \cup gone \subseteq Mined' \cup gone' /\ gone \subseteq gone'

\* What has been so deep has been so deep, and a scan under way either finds the blocks
\* it has counted on where they were or has been told of.
DepthsStay ==
    /\ been \subseteq been' /\ (torn => torn')
    /\ \A t \in Threads : \A c \in local[t].seen :
          pc[t] = "blocks" /\ c.conf >= 1 /\ Standing(local[t], c) =>
              torn' \/ c \in been' \/ Standing(local[t], c)'

LEMMA AgentStays ==
    ASSUME Witnessed, ReorgSeen, BlocksStay, DepthsStay, UNCHANGED agent
    PROVE  Witnessed' /\ ReorgSeen'
<1>1. \A n : Chained(n) => Chained(n)'
  BY DEF Chained, BlocksStay, IdsOf
<1>2. \A n : n \in IdsOf(gone) => n \in IdsOf(gone')
  BY DEF BlocksStay, IdsOf
<1>3. UNCHANGED <<journal, recorded, overlay, pc, local, snap, failures>>
  BY DEF agent
<1>4. ASSUME NEW t \in Threads PROVE Sees(pc[t], local[t])'
  <2>1. local'[t] = local[t] /\ pc'[t] = pc[t] /\ Sees(pc[t], local[t])
    BY <1>3 DEF Witnessed
  <2>2. ASSUME NEW c \in local[t].seen, c.conf >= 1
        PROVE  /\ Chained(c.id)'
               /\ torn' \/ c \in been' \/ (pc[t] = "blocks" /\ Standing(local[t], c)')
    <3>1. Chained(c.id) /\ (torn \/ c \in been \/ (pc[t] = "blocks" /\ Standing(local[t], c)))
      BY <2>1, <2>2 DEF Sees
    <3>2. QED  BY <1>1, <2>2, <3>1 DEF DepthsStay
  <2>3. QED  BY <1>3, <2>1, <2>2 DEF Sees, Standing
<1>5. Witnessed'
  <2>1. journal'.conf >= 1 => Past' /\ BeenAt(journal.conf)'
    BY <1>3 DEF Witnessed, BeenAt, DepthsStay, Past
  <2>2. QED  BY <1>1, <1>3, <1>4, <2>1 DEF Witnessed, Watched
<1>6. ReorgSeen'
  BY <1>2, <1>3 DEF ReorgSeen, Watched
<1>7. QED  BY <1>5, <1>6

\* The chain and the history stand still.
LEMMA DeepenedSame ==
    ASSUME Deepened, UNCHANGED <<chain, history>>, connecting' => connecting
    PROVE  Deepened'
BY DEF Deepened, history

LEMMA HistorySame == ASSUME UNCHANGED <<chain, history, agent>> PROVE DepthsStay
BY DEF DepthsStay, Standing, history, agent

LEMMA DeepHas ==
    ASSUME NEW C, NEW i \in DOMAIN C, NEW u \in C[i]
    PROVE  [id |-> Id[u], conf |-> Len(C) - i + 1] \in Deep(C)
BY DEF Deep

LEMMA DeepIsEvidence ==
    ASSUME NEW C \in Seq(SUBSET Txs) PROVE Deep(C) \subseteq Evidence
<1> SUFFICES ASSUME NEW e \in Deep(C) PROVE e \in Evidence
  OBVIOUS
<1>1. PICK i \in DOMAIN C : e \in {[id |-> Id[u], conf |-> Len(C) - i + 1] : u \in C[i]}
  BY DEF Deep
<1>2. PICK u \in C[i] : e = [id |-> Id[u], conf |-> Len(C) - i + 1]
  BY <1>1
<1>3. u \in Txs /\ Len(C) - i + 1 \in Nat
  <2>1. i \in 1..Len(C) /\ Len(C) \in Nat /\ C[i] \in SUBSET Txs
    OBVIOUS
  <2>2. QED  BY <1>2, <2>1
<1>4. QED  BY <1>2, <1>3 DEF Evidence, Ids

LEMMA WitnessCalm ==
    ASSUME Deepened, chain \in Seq(SUBSET Txs), Witness, UNCHANGED <<chain, agent>>,
           connecting' => connecting
    PROVE  Deepened' /\ DepthsStay
<1>1. been' = been \cup Deep(chain) /\ torn' \in BOOLEAN /\ (torn => torn')
  BY DEF Witness, Deepened
<1>2. Deepened'
  BY <1>1, DeepIsEvidence DEF Deepened
<1>3. DepthsStay
  BY <1>1 DEF DepthsStay, Standing, agent
<1>4. QED  BY <1>2, <1>3

\* A block more: what was there is one deeper, and stands where it stood.
LEMMA WitnessConnect ==
    ASSUME Deepened, chain \in Seq(SUBSET Txs), NEW B \in SUBSET Txs, Connect(B), Witness,
           UNCHANGED agent
    PROVE  Deepened' /\ DepthsStay
<1>1. chain' = Append(chain, B) /\ been' = been \cup Deep(chain') /\ torn' \in BOOLEAN
      /\ (torn => torn')
  BY DEF Connect, Witness, Deepened
<1>2. /\ chain' \in Seq(SUBSET Txs) /\ Len(chain') = Len(chain) + 1 /\ Len(chain) \in Nat
      /\ DOMAIN chain = 1..Len(chain) /\ DOMAIN chain' = 1..(Len(chain) + 1)
      /\ \A i \in DOMAIN chain : chain'[i] = chain[i]
  BY <1>1
<1>3. ASSUME NEW i \in DOMAIN chain', NEW u \in chain'[i], NEW d \in 1..(Len(chain') - i + 1)
      PROVE  [id |-> Id[u], conf |-> d] \in been'
  <2>1. CASE d = Len(chain') - i + 1
    BY <1>1, <2>1, DeepHas
  <2>2. CASE d # Len(chain') - i + 1
    <3>1. i \in DOMAIN chain /\ d \in 1..(Len(chain) - i + 1)
      BY <1>2, <2>2
    <3>2. QED  BY <1>1, <1>2, <3>1 DEF Deepened
  <2>3. QED  BY <2>1, <2>2
<1>4. Deepened'
  <2>1. been' \subseteq Evidence
    BY <1>1, <1>2, DeepIsEvidence DEF Deepened
  <2>2. chain' # <<>>
    BY <1>2
  <2>3. QED  BY <1>1, <1>3, <2>1, <2>2 DEF Deepened
<1>5. DepthsStay
  <2>1. \A t \in Threads : \A c : Standing(local[t], c) => Standing(local[t], c)'
    BY <1>2 DEF Standing, agent
  <2>2. QED  BY <1>1, <2>1 DEF DepthsStay
<1>6. QED  BY <1>4, <1>5

\* A block less: a scan that had counted on it has been told of.
LEMMA WitnessDisconnect ==
    ASSUME FundInv, Disconnect, Witness, UNCHANGED agent
    PROVE  Deepened' /\ DepthsStay
<1>1. /\ chain \in Seq(SUBSET Txs) /\ chain # <<>> /\ ~connecting'
      /\ chain' = SubSeq(chain, 1, Len(chain) - 1)
      /\ been' = been \cup Deep(chain') /\ torn' = (torn \/ \E t \in Threads : Tears(t))
  BY DEF Disconnect, Witness, FundInv, PoolInv, Typed
<1>2. /\ chain' \in Seq(SUBSET Txs) /\ Len(chain') = Len(chain) - 1 /\ Len(chain) \in Nat \ {0}
      /\ DOMAIN chain = 1..Len(chain) /\ DOMAIN chain' = 1..(Len(chain) - 1)
      /\ \A i \in DOMAIN chain' : chain'[i] = chain[i]
  <2>1. Len(chain) \in Nat \ {0} /\ DOMAIN chain = 1..Len(chain)
    BY <1>1
  <2>2. /\ chain' \in Seq(SUBSET Txs) /\ Len(chain') = Len(chain) - 1
        /\ \A i \in 1..(Len(chain) - 1) : chain'[i] = chain[i]
    BY <1>1, <2>1
  <2>3. DOMAIN chain' = 1..(Len(chain) - 1)
    BY <2>2
  <2>4. QED  BY <2>1, <2>2, <2>3
<1>3. ASSUME NEW i \in DOMAIN chain', NEW u \in chain'[i], NEW d \in 1..(Len(chain') - i + 1)
      PROVE  [id |-> Id[u], conf |-> d] \in been'
  <2>1. i \in DOMAIN chain /\ u \in chain[i] /\ d \in 1..(Len(chain) - i + 1)
    BY <1>2
  <2>2. QED  BY <1>1, <2>1 DEF FundInv, Deepened
<1>4. Deepened'
  <2>1. been' \subseteq Evidence /\ torn' \in BOOLEAN
    BY <1>1, <1>2, DeepIsEvidence DEF FundInv, Deepened
  <2>2. QED  BY <1>1, <1>3, <2>1 DEF Deepened
<1>5. ASSUME NEW t \in Threads, NEW c \in local[t].seen, pc[t] = "blocks", c.conf >= 1,
             Standing(local[t], c), c \notin been
      PROVE  torn' \/ Standing(local[t], c)'
  <2>1. PICK i \in DOMAIN chain :
           /\ i < local[t].at /\ c.conf = local[t].tip - i + 1
           /\ \E u \in chain[i] : Id[u] = c.id
    BY <1>5 DEF Standing
  <2>2. CASE i = Len(chain)
    <3>1. c.conf > 0
      BY <1>5 DEF FundInv, AgentTyped, Locals, Evidence
    <3>2. Tears(t)
      BY <1>2, <1>5, <2>1, <2>2, <3>1 DEF Tears
    <3>3. QED  BY <1>1, <3>2
  <2>3. CASE i # Len(chain)
    <3>1. i \in DOMAIN chain' /\ chain'[i] = chain[i] /\ local' = local
      BY <1>2, <2>3 DEF agent
    <3>2. QED  BY <2>1, <3>1 DEF Standing
  <2>4. QED  BY <2>2, <2>3
<1>6. QED  BY <1>1, <1>4, <1>5 DEF DepthsStay

LEMMA WitnessMoves ==
    ASSUME FundInv, MempoolNext, Witness, UNCHANGED agent PROVE Deepened' /\ DepthsStay
<1>1. Deepened /\ chain \in Seq(SUBSET Txs)
  BY DEF FundInv, PoolInv, Typed
<1>2. CASE \E B \in SUBSET Txs : Connect(B)
  BY <1>1, <1>2, WitnessConnect
<1>3. CASE Disconnect
  BY <1>3, WitnessDisconnect
<1>4. CASE CleanPool \/ UNCHANGED ledger
  <2>1. UNCHANGED chain /\ (connecting' => connecting)
    BY <1>4 DEF CleanPool, ledger
  <2>2. QED  BY <1>1, <2>1, WitnessCalm
<1>5. QED
  BY <1>2, <1>3, <1>4 DEF MempoolNext, Enqueue, Process, ProcessBusy, AdmitQueued, Relay

LEMMA GatedStays ==
    ASSUME Gated, UNCHANGED marker, pool' \subseteq pool,
           UNCHANGED hold \/ (hold'.at # "commit" /\ hold'.by # "queue")
    PROVE  Gated'
<1>1. ReservedForPrepared'
  BY DEF Gated, ReservedForPrepared
<1>2. QED  BY <1>1 DEF Gated, Gate

LEMMA OneTxStays ==
    ASSUME OneTx, UNCHANGED <<op, journal, local>> PROVE OneTx'
BY DEF OneTx, Past

----------------------------------------------------------------------------
(* The pool, the queue and the blocks *)

LEMMA BlocksMove ==
    ASSUME PoolInv, MempoolNext PROVE BlocksStay
<1>1. CASE \E B \in SUBSET Txs : Connect(B)
  BY <1>1, ConnectKeeps DEF BlocksStay, Connect, PoolInv, PoolSound
<1>2. CASE Disconnect
  BY <1>2, DisconnectKeeps DEF BlocksStay, Disconnect, PoolInv, PoolSound
<1>3. CASE UNCHANGED <<chain, gone>>
  BY <1>3 DEF BlocksStay, Mined
<1>4. QED
  BY <1>1, <1>2, <1>3 DEF MempoolNext, Enqueue, Process, ProcessBusy, AdmitQueued, Relay,
     CleanPool, ledger

LEMMA NodeSpreads ==
    ASSUME PoolInv, MempoolNext PROVE Spreads
<1>1. ASSUME NEW t \in Txs, Enqueue(t) PROVE Spreads
  <2>1. /\ t \in Receivable /\ queue' = Append(queue, [tx |-> t, tries |-> 0])
        /\ UNCHANGED <<chain, gone, pool, sent, hold>>
    BY <1>1 DEF Enqueue, ledger, poolVars
  <2>2. \A i \in DOMAIN queue' : (i \in DOMAIN queue /\ queue'[i] = queue[i]) \/ queue'[i].tx = t
    BY <2>1 DEF PoolInv, Typed
  <2>3. Mined' = Mined
    BY <2>1 DEF Mined
  <2>4. t \in Strangers \/ \E y \in Out : Id[y] = Id[t]
    BY <2>1, OutHas DEF Receivable, IdsOf
  <2>5. QED  BY <2>1, <2>2, <2>3, <2>4, OutHas, OutHasNext DEF Spreads
<1>2. CASE Process
  <2>1. /\ queue # <<>> /\ queue' = Tail(queue) /\ UNCHANGED <<chain, gone, pool, sent>>
        /\ hold'.by = "queue" => hold'.tx = Head(queue).tx
    BY <1>2 DEF Process, ledger, poolVars, Free
  <2>2. /\ Head(queue) = queue[1] /\ 1 \in DOMAIN queue
        /\ \A i \in DOMAIN queue' : i + 1 \in DOMAIN queue /\ queue'[i] = queue[i + 1]
    BY <2>1, HeadGoes DEF PoolInv, Typed
  <2>3. Mined' = Mined
    BY <2>1 DEF Mined
  <2>4. QED  BY <2>1, <2>2, <2>3, OutHas, OutHasNext DEF Spreads
<1>3. CASE ProcessBusy
  <2>1. /\ queue # <<>> /\ UNCHANGED <<chain, gone, pool, sent, hold>>
        /\ \/ queue' = Append(Tail(queue), Retried(Head(queue)))
           \/ queue' = Tail(queue)
    BY <1>3 DEF ProcessBusy, ledger, poolVars
  <2>2. /\ Head(queue) = queue[1] /\ 1 \in DOMAIN queue /\ Head(queue) \in Entries
        /\ Tail(queue) \in Seq(Entries)
        /\ \A i \in DOMAIN Tail(queue) : i + 1 \in DOMAIN queue /\ Tail(queue)[i] = queue[i + 1]
    BY <2>1, HeadGoes DEF PoolInv, Typed
  <2>3. Retried(Head(queue)).tx = Head(queue).tx
    BY <2>2 DEF Retried, Entries
  <2>4. \A i \in DOMAIN queue' :
           \/ i \in DOMAIN Tail(queue) /\ queue'[i] = Tail(queue)[i]
           \/ queue'[i] = Retried(Head(queue))
    BY <2>1, <2>2
  <2>5. \A i \in DOMAIN queue' : \E k \in DOMAIN queue : queue'[i].tx = queue[k].tx
    BY <2>2, <2>3, <2>4
  <2>6. Mined' = Mined
    BY <2>1 DEF Mined
  <2>7. QED  BY <2>1, <2>5, <2>6, OutHas, OutHasNext DEF Spreads
<1>4. CASE AdmitQueued
  <2>1. /\ hold.by = "queue" /\ hold.tx \in Txs /\ hold'.by # "queue"
        /\ UNCHANGED <<chain, gone, queue, sent>> /\ pool' \subseteq pool \cup {hold.tx}
    BY <1>4 DEF AdmitQueued, ledger, Insert, poolVars, Free, PoolInv, Typed
  <2>2. Mined' = Mined
    BY <2>1 DEF Mined
  <2>3. QED  BY <2>1, <2>2, OutHas, OutHasNext DEF Spreads
<1>5. CASE (\E t \in pool : Relay(t)) \/ CleanPool
  <2>1. /\ UNCHANGED <<chain, gone, queue, hold>> /\ pool' \subseteq pool
        /\ sent' \subseteq sent \cup pool
    BY <1>5 DEF Relay, CleanPool, ledger, ingress, poolVars, Erase
  <2>2. Mined' = Mined
    BY <2>1 DEF Mined
  <2>3. QED  BY <2>1, <2>2, OutHas, OutHasNext DEF Spreads
<1>6. ASSUME NEW B \in SUBSET Txs, Connect(B) PROVE Spreads
  <2>1. /\ UNCHANGED <<gone, queue, hold, pool, sent>> /\ B \subseteq Receivable \cup pool
    BY <1>6 DEF Connect, ingress, poolVars
  <2>2. Mined' = Mined \cup B
    BY <1>6, ConnectKeeps DEF PoolInv, PoolSound
  <2>3. \A x \in B : x \in Strangers \/ \E y \in Out : Id[y] = Id[x]
    BY <2>1, OutHas DEF Receivable, IdsOf
  <2>4. QED  BY <2>1, <2>2, <2>3, OutHas, OutHasNext DEF Spreads
<1>7. CASE Disconnect
  <2>1. UNCHANGED <<queue, hold, pool, sent>>
    BY <1>7 DEF Disconnect, ingress, poolVars
  <2>2. Mined' \subseteq Mined /\ gone' \subseteq Mined \cup gone
    BY <1>7, DisconnectKeeps DEF PoolInv, PoolSound
  <2>3. QED  BY <2>1, <2>2, OutHas, OutHasNext DEF Spreads
<1>8. QED  BY <1>1, <1>2, <1>3, <1>4, <1>5, <1>6, <1>7 DEF MempoolNext

LEMMA NodeGated ==
    ASSUME PoolInv, Gated, MempoolNext PROVE Gated' /\ UNCHANGED marker
<1>1. UNCHANGED marker
  BY DEF MempoolNext, Enqueue, Process, ProcessBusy, AdmitQueued, Relay, Connect, CleanPool,
         Disconnect
<1>2. CASE Process
  <2>1. UNCHANGED pool
    BY <1>2 DEF Process, poolVars
  <2>2. CASE UNCHANGED hold
    BY <1>1, <2>1, <2>2, GatedStays
  <2>3. CASE ~UNCHANGED hold
    <3>1. hold' = [by |-> "queue", tx |-> Head(queue).tx, at |-> "commit"] /\ Gate(Head(queue).tx)
      BY <1>2, <2>3 DEF Process, Preflight
    <3>2. hold'.at = "commit" /\ hold'.tx = Head(queue).tx
      BY <3>1
    <3>3. Gate(hold.tx)'
      BY <1>1, <3>1, <3>2 DEF Gate
    <3>4. ReservedForPrepared'
      BY <1>1, <2>1 DEF Gated, ReservedForPrepared
    <3>5. QED  BY <1>1, <3>2, <3>3, <3>4 DEF Gated, Gate
  <2>4. QED  BY <2>2, <2>3
<1>3. CASE AdmitQueued
  <2>1. /\ Gate(hold.tx) /\ pool' \subseteq pool \cup {hold.tx}
        /\ hold'.at # "commit" /\ hold'.by # "queue"
    BY <1>3 DEF AdmitQueued, Gated, Insert, poolVars, Free
  <2>2. ReservedForPrepared'
    BY <1>1, <2>1 DEF Gated, ReservedForPrepared, Gate
  <2>3. QED  BY <1>1, <2>1, <2>2 DEF Gated, Gate
<1>4. CASE (\E t \in Txs : Enqueue(t)) \/ ProcessBusy \/ (\E t \in pool : Relay(t))
           \/ (\E B \in SUBSET Txs : Connect(B)) \/ CleanPool \/ Disconnect
  <2>1. UNCHANGED hold /\ pool' \subseteq pool
    BY <1>4 DEF Enqueue, ProcessBusy, Relay, Connect, CleanPool, Disconnect, poolVars, Erase
  <2>2. QED  BY <1>1, <2>1, GatedStays
<1>5. QED  BY <1>1, <1>2, <1>3, <1>4 DEF MempoolNext

LEMMA NodeTypes ==
    ASSUME PoolInv, NodeTyped, MempoolNext PROVE NodeTyped'
<1>1. UNCHANGED marker
  BY DEF MempoolNext, Enqueue, Process, ProcessBusy, AdmitQueued, Relay, Connect, CleanPool,
         Disconnect
<1>2. sent' \subseteq Txs
  BY DEF MempoolNext, Enqueue, Process, ProcessBusy, AdmitQueued, Relay, Connect, CleanPool,
         Disconnect, NodeTyped, PoolInv, Typed
<1>3. budget' \in [reorgs : Nat, restarts : Nat]
  <2>1. CASE Disconnect
    BY <2>1 DEF Disconnect, NodeTyped
  <2>2. CASE UNCHANGED budget
    BY <2>2 DEF NodeTyped
  <2>3. QED  BY <2>1, <2>2 DEF MempoolNext, Enqueue, Process, ProcessBusy, AdmitQueued, Relay,
                Connect, CleanPool
<1>4. hold' \in Held
  <2>1. Free \in Held
    BY DEF Free, Held
  <2>2. CASE Process
    <3>1. Head(queue).tx \in Txs
      BY <2>2, HeadGoes DEF Process, PoolInv, Typed, Entries
    <3>2. [by |-> "queue", tx |-> Head(queue).tx, at |-> "commit"] \in Held
      BY <3>1 DEF Held
    <3>3. QED  BY <2>2, <3>2 DEF Process, NodeTyped
  <2>3. CASE AdmitQueued
    BY <2>1, <2>3 DEF AdmitQueued
  <2>4. CASE UNCHANGED hold
    BY <2>4 DEF NodeTyped
  <2>5. QED  BY <2>2, <2>3, <2>4 DEF MempoolNext, Enqueue, ProcessBusy, Relay, Connect, CleanPool,
                Disconnect
<1>5. QED  BY <1>1, <1>2, <1>3, <1>4 DEF NodeTyped

\* The node's own steps.
LEMMA NodeAlone ==
    ASSUME FundInv, MempoolNext, Witness, UNCHANGED <<wallet, agent>> PROVE FundInv'
<1>1. PoolInv'
  BY PoolInvKept DEF FundInv
<1>2. NodeTyped' /\ Gated' /\ Spreads /\ BlocksStay /\ Deepened' /\ DepthsStay
  BY NodeTypes, NodeGated, NodeSpreads, BlocksMove, WitnessMoves DEF FundInv
<1>3. UNCHANGED <<op, pending, answer, releases>>
  BY DEF wallet
<1>4. UNCHANGED <<journal, recorded, overlay, pc, local, snap, failures>>
  BY DEF agent
<1>5. WalletTyped' /\ AgentTyped'
  BY <1>3, <1>4 DEF FundInv, WalletTyped, AgentTyped
<1>6. OneTx'
  BY <1>3, <1>4, OneTxStays DEF FundInv
<1>7. Carries
  BY <1>3, <1>4 DEF Carries, Past, Watched, FundInv, AgentTyped, Journals
<1>8. OutSound'
  BY <1>2, <1>7, OutStays DEF FundInv
<1>9. Witnessed' /\ ReorgSeen'
  BY <1>2, AgentStays DEF FundInv
<1>10. UNCHANGED hold \/ hold'.by \notin Callers
  <2>1. UNCHANGED hold \/ hold'.by \in {"queue", "nobody"}
    <3>1. CASE Process
      <4>1. UNCHANGED hold \/ hold' = [by |-> "queue", tx |-> Head(queue).tx, at |-> "commit"]
        BY <3>1 DEF Process
      <4>2. QED  BY <4>1
    <3>2. CASE AdmitQueued
      BY <3>2 DEF AdmitQueued, Free
    <3>3. QED
      BY <3>1, <3>2 DEF MempoolNext, Enqueue, ProcessBusy, Relay, Connect, CleanPool, Disconnect
  <2>2. QED  BY <2>1, NotCallers
<1>11. Barriered'
  BY <1>3, <1>4, <1>10 DEF FundInv, Barriered, Past
<1>12. QED  BY <1>1, <1>2, <1>5, <1>6, <1>8, <1>9, <1>11 DEF FundInv

----------------------------------------------------------------------------
(* Requests at the node *)

LEMMA PoolStays ==
    ASSUME PoolInv, UNCHANGED <<ledger, poolVars, ingress>>,
           UNCHANGED hold \/ (hold.by # "queue" /\ hold'.by # "queue")
    PROVE  PoolInv'
<1>1. Typed /\ PoolSound /\ IngressTyped /\ QueueSound
  BY DEF PoolInv, PoolSound, QueueSound, IngressTyped, Typed
<1>2. PoolSound' /\ IngressTyped' /\ QueueSound'
  BY <1>1, StillSound, IngressStays
<1>3. UNCHANGED <<chain, connecting, gone, pool>>
  BY DEF ledger, poolVars
<1>4. QED  BY <1>1, <1>2, <1>3 DEF PoolInv, PoolSound, QueueSound, IngressTyped, Typed

\* Nothing is sent, mined or queued.
LEMMA CalmSpreads ==
    ASSUME UNCHANGED <<ledger, pool, ingress, sent>>,
           UNCHANGED hold \/ (hold.by # "queue" /\ hold'.by # "queue")
    PROVE  Spreads /\ BlocksStay
<1>1. UNCHANGED <<chain, gone, queue>>
  BY DEF ledger, ingress
<1>2. Mined' = Mined
  BY <1>1 DEF Mined
<1>3. Spreads
  BY <1>1, <1>2, OutHas, OutHasNext DEF Spreads
<1>4. QED  BY <1>1, <1>2, <1>3 DEF BlocksStay

\* A step of the wallet that leaves the agent alone.
LEMMA WalletStep ==
    ASSUME FundInv, Witness, UNCHANGED <<ledger, poolVars, ingress, sent, budget, agent>>,
           UNCHANGED hold \/ (hold.by # "queue" /\ hold'.by # "queue"),
           NodeTyped', WalletTyped', Barriered', Gated',
           op' = op \/ (op # NoOp /\ op'.state # "none" /\ op'.tx = op.tx)
    PROVE  FundInv'
<1>1. UNCHANGED <<journal, recorded, overlay, pc, local, snap, failures, pool>>
  BY DEF agent, poolVars
<1>2. PoolInv'
  BY PoolStays DEF FundInv
<1>3. AgentTyped'
  BY <1>1 DEF FundInv, AgentTyped
<1>4. OneTx'
  <2>1. op'.tx = op.tx /\ (op' = NoOp \/ (op'.state # "none" /\ op'.tx \in Funding))
    BY DEF FundInv, OneTx
  <2>2. QED  BY <1>1, <2>1 DEF FundInv, OneTx, Past
<1>5. Carries
  BY <1>1 DEF Carries, Past, Watched, FundInv, AgentTyped, Journals
<1>6. Spreads /\ BlocksStay
  BY <1>1, CalmSpreads
<1>7. OutSound'
  BY <1>5, <1>6, OutStays DEF FundInv
<1>8. Deepened' /\ DepthsStay
  BY WitnessCalm DEF FundInv, PoolInv, Typed, ledger
<1>9. Witnessed' /\ ReorgSeen'
  BY <1>6, <1>8, AgentStays DEF FundInv
<1>10. QED  BY <1>2, <1>3, <1>4, <1>7, <1>8, <1>9 DEF FundInv

LEMMA ReleaseStep ==
    ASSUME FundInv, Release, Witness, UNCHANGED agent PROVE FundInv'
<1>1. /\ hold = Free /\ op.state = "PREPARED" /\ op' = [op EXCEPT !.state = "RELEASED"]
      /\ marker' = [c \in Coins |-> IF c \in Inputs[op.tx] THEN NoTx ELSE marker[c]]
      /\ releases' = releases + 1
      /\ UNCHANGED <<ledger, poolVars, ingress, hold, sent, budget, pending, answer>>
  BY DEF Release
<1>2. op' \in Ops /\ op'.tx = op.tx /\ op'.state # "none" /\ op # NoOp
  BY <1>1 DEF FundInv, WalletTyped, Ops, NoOp
<1>3. marker' \in [Coins -> Txs \cup {NoTx}] /\ \A c \in Coins : marker'[c] \in {NoTx, marker[c]}
  BY <1>1 DEF FundInv, NodeTyped
<1>4. NodeTyped'
  BY <1>1, <1>3 DEF FundInv, NodeTyped
<1>5. WalletTyped'
  BY <1>1, <1>2 DEF FundInv, WalletTyped
<1>6. UNCHANGED <<journal, pc>>
  BY DEF agent
<1>7. Barriered'
  BY <1>1, <1>2, <1>6 DEF FundInv, Barriered, Past
<1>8. hold'.at # "commit" /\ hold'.by # "queue"
  BY <1>1 DEF Free
<1>9. ReservedForPrepared'
  <2>1. UNCHANGED pool
    BY <1>1 DEF poolVars
  <2>2. \A t \in pool : Inputs[t] \subseteq Coins
    BY TxAssumption DEF FundInv, PoolInv, Typed
  <2>3. QED  BY <1>3, <2>1, <2>2 DEF FundInv, Gated, ReservedForPrepared
<1>10. Gated'
  BY <1>8, <1>9 DEF Gated, Gate
<1>11. QED  BY <1>1, <1>2, <1>4, <1>5, <1>7, <1>10, WalletStep

LEMMA AnswerTypes ==
    ASSUME answer \in [Threads -> {"none", "ok", "error"}], NEW by, NEW a \in {"ok", "error"},
           Answer(by, a)
    PROVE  answer' \in [Threads -> {"none", "ok", "error"}]
BY DEF Answer

\* A request goes, with the mutex or with an answer.
LEMMA RequestGoes ==
    ASSUME FundInv, Witness, UNCHANGED agent,
           UNCHANGED <<ledger, marker, poolVars, ingress, sent, budget, op, releases>>,
           NEW r \in pending, pending' = pending \ {r}, hold = Free,
           answer' \in [Threads -> {"none", "ok", "error"}],
           \/ UNCHANGED hold
           \/ hold' = [by |-> r.by, tx |-> op.tx, at |-> "persist"] /\ op.tx # NoTx
           \/ /\ hold' = [by |-> r.by, tx |-> op.tx, at |-> "commit"] /\ op.tx # NoTx
              /\ Gate(op.tx)
    PROVE  FundInv'
<1>1. r.by \in Callers /\ r \in Requests
  BY DEF FundInv, WalletTyped, Requests
<1>2. UNCHANGED <<journal, pc, pool>>
  BY DEF agent, poolVars
<1>3. Past /\ op.tx \in Txs \cup {NoTx}
  BY DEF FundInv, Barriered, WalletTyped, Ops
<1>4. hold \in Held /\ hold.by # "queue" /\ hold.by \notin Callers /\ hold.at = "free"
  BY NotCallers DEF FundInv, NodeTyped, Free
<1>5. /\ hold' \in Held /\ hold'.by # "queue" /\ (hold'.by \in Callers => hold'.tx = op.tx /\ op.tx # NoTx)
      /\ hold'.at = "commit" => hold'.tx = op.tx /\ Gate(op.tx)
  <2>1. CASE UNCHANGED hold
    BY <1>4, <2>1
  <2>2. CASE hold' = [by |-> r.by, tx |-> op.tx, at |-> "persist"] /\ op.tx # NoTx
    BY <1>1, <1>3, <2>2, NotCallers DEF Held
  <2>3. CASE hold' = [by |-> r.by, tx |-> op.tx, at |-> "commit"] /\ op.tx # NoTx /\ Gate(op.tx)
    BY <1>1, <1>3, <2>3, NotCallers DEF Held
  <2>4. QED  BY <2>1, <2>2, <2>3
<1>6. NodeTyped'
  BY <1>5 DEF FundInv, NodeTyped
<1>7. WalletTyped'
  BY DEF FundInv, WalletTyped
<1>8. Barriered'
  BY <1>2, <1>3, <1>5 DEF FundInv, Barriered, Past
<1>9. Gated'
  <2>1. ReservedForPrepared'
    BY <1>2 DEF FundInv, Gated, ReservedForPrepared
  <2>2. QED  BY <1>5, <2>1 DEF Gated, Gate
<1>10. QED  BY <1>4, <1>5, <1>6, <1>7, <1>8, <1>9, WalletStep

LEMMA BroadcastSteps ==
    ASSUME FundInv, Witness, UNCHANGED agent, NEW r \in pending, BroadcastBegin(r) \/ BroadcastBusy(r)
    PROVE  FundInv'
<1>1. /\ pending' = pending \ {r} /\ hold = Free
      /\ UNCHANGED <<ledger, marker, poolVars, ingress, sent, budget, op, releases>>
  BY DEF BroadcastBegin, BroadcastBusy
<1>2. answer' \in [Threads -> {"none", "ok", "error"}]
  <2>1. CASE UNCHANGED answer
    BY <2>1 DEF FundInv, WalletTyped
  <2>2. CASE Answer(r.by, "error")
    BY <2>2, AnswerTypes DEF FundInv, WalletTyped
  <2>3. QED  BY <2>1, <2>2 DEF BroadcastBegin, BroadcastBusy
<1>3. \/ UNCHANGED hold
      \/ hold' = [by |-> r.by, tx |-> op.tx, at |-> "persist"] /\ op.tx # NoTx
      \/ /\ hold' = [by |-> r.by, tx |-> op.tx, at |-> "commit"] /\ op.tx # NoTx
         /\ Gate(op.tx)
  BY DEF BroadcastBegin, BroadcastBusy, Sendable, Intact, Preflight
<1>4. QED  BY <1>1, <1>2, <1>3, RequestGoes

LEMMA CommitStep ==
    ASSUME FundInv, BroadcastCommit, Witness, UNCHANGED agent PROVE FundInv'
<1>1. /\ hold.by \in Callers /\ hold.by # "queue" /\ hold.at = "commit" /\ Gate(hold.tx)
      /\ Past /\ hold.tx = op.tx /\ op.tx \in Funding /\ op.tx \in Txs
      /\ UNCHANGED <<ledger, marker, ingress, sent, budget, op, pending, releases>>
  BY NotCallers, FundingAssumption DEF BroadcastCommit, FundInv, Gated, Barriered, OneTx, NoOp
<1>2. UNCHANGED <<journal, recorded, overlay, pc, local, snap, failures>>
  BY DEF agent
<1>3. answer' \in [Threads -> {"none", "ok", "error"}]
  <2>1. CASE UNCHANGED answer
    BY <2>1 DEF FundInv, WalletTyped
  <2>2. CASE Answer(hold.by, "error")
    BY <2>2, AnswerTypes DEF FundInv, WalletTyped
  <2>3. QED  BY <2>1, <2>2 DEF BroadcastCommit
<1>4. /\ hold' \in Held /\ hold'.by # "queue" /\ hold'.at # "commit"
      /\ (hold'.by \in Callers => hold'.tx = op.tx)
  <2>1. hold \in Held
    BY DEF FundInv, NodeTyped
  <2>2. CASE hold' = [hold EXCEPT !.at = "persist"]
    BY <1>1, <2>1, <2>2 DEF Held
  <2>3. CASE hold' = Free
    BY <2>3, NotCallers DEF Held, Free
  <2>4. QED  BY <2>2, <2>3 DEF BroadcastCommit
<1>5. NodeTyped' /\ WalletTyped' /\ AgentTyped'
  BY <1>1, <1>2, <1>3, <1>4 DEF FundInv, NodeTyped, WalletTyped, AgentTyped
<1>6. OneTx' /\ Barriered'
  BY <1>1, <1>2, <1>4 DEF FundInv, OneTx, Barriered, Past
<1>7. /\ Typed /\ PoolSound /\ IngressTyped /\ QueueSound
  BY DEF FundInv, PoolInv, PoolSound, QueueSound, IngressTyped, Typed
<1>8. IngressTyped' /\ QueueSound'
  BY <1>1, <1>4, <1>7, IngressStays
<1>9. /\ PoolSound' /\ pool' \subseteq Txs /\ IsFiniteSet(pool') /\ pool' \subseteq pool \cup {op.tx}
  <2>1. CASE UNCHANGED poolVars
    <3>1. UNCHANGED pool
      BY <2>1 DEF poolVars
    <3>2. QED  BY <1>1, <1>7, <2>1, <3>1, StillSound DEF Typed
  <2>2. CASE Committable(hold.tx) /\ \E out \in Evictions(hold.tx) : Insert(hold.tx, out)
    <3>1. PICK out \in Evictions(hold.tx) : Insert(hold.tx, out)
      BY <2>2
    <3>2. pool' \subseteq pool \cup {op.tx}
      BY <1>1, <3>1 DEF Insert
    <3>3. QED  BY <1>1, <1>7, <2>2, <3>1, <3>2, InsertKeeps
  <2>3. QED  BY <2>1, <2>2 DEF BroadcastCommit
<1>10. PoolInv'
  <2>1. UNCHANGED <<chain, connecting, gone>>
    BY <1>1 DEF ledger
  <2>2. QED  BY <1>7, <1>8, <1>9, <2>1 DEF PoolInv, PoolSound, QueueSound, IngressTyped, Typed
<1>11. Gated'
  <2>1. ReservedForPrepared'
    BY <1>1, <1>9 DEF FundInv, Gated, ReservedForPrepared, Gate
  <2>2. QED  BY <1>4, <2>1 DEF Gated, Gate
<1>12. Spreads /\ BlocksStay
  <2>1. UNCHANGED <<chain, gone, queue>>
    BY <1>1 DEF ledger, ingress
  <2>2. Mined' = Mined
    BY <2>1 DEF Mined
  <2>3. Spreads
    BY <1>1, <1>4, <1>9, <2>1, <2>2, OutHas, OutHasNext DEF Spreads
  <2>4. QED  BY <2>1, <2>2, <2>3 DEF BlocksStay
<1>13. Carries
  BY <1>1, <1>2 DEF Carries, Past, Watched, FundInv, AgentTyped, Journals
<1>14. Deepened' /\ DepthsStay
  BY <1>1, WitnessCalm DEF FundInv, PoolInv, Typed, ledger
<1>15. OutSound' /\ Witnessed' /\ ReorgSeen'
  BY <1>12, <1>13, <1>14, OutStays, AgentStays DEF FundInv
<1>16. QED  BY <1>5, <1>6, <1>10, <1>11, <1>14, <1>15 DEF FundInv

LEMMA PersistStep ==
    ASSUME FundInv, BroadcastPersist, Witness, UNCHANGED agent PROVE FundInv'
<1>1. /\ hold.by \in Callers /\ hold.by # "queue" /\ hold.tx = op.tx /\ op.tx # NoTx
      /\ op' = [op EXCEPT !.state = "BROADCASTED"] /\ hold' = Free
      /\ UNCHANGED <<ledger, marker, poolVars, ingress, sent, budget, pending, releases>>
  BY NotCallers DEF BroadcastPersist, FundInv, Barriered
<1>2. op' \in Ops /\ op'.tx = op.tx /\ op'.state # "none" /\ op # NoOp
  BY <1>1 DEF FundInv, WalletTyped, Ops, NoOp
<1>3. hold' \in Held /\ hold'.by \notin Callers \cup {"queue"} /\ hold'.at # "commit"
  BY <1>1, NotCallers DEF Free, Held
<1>4. NodeTyped'
  BY <1>1, <1>3 DEF FundInv, NodeTyped
<1>5. answer' \in [Threads -> {"none", "ok", "error"}]
  BY AnswerTypes DEF BroadcastPersist, FundInv, WalletTyped
<1>6. WalletTyped'
  BY <1>1, <1>2, <1>5 DEF FundInv, WalletTyped
<1>7. UNCHANGED <<journal, pc>>
  BY DEF agent
<1>8. Barriered'
  BY <1>1, <1>3, <1>7 DEF FundInv, Barriered, Past
<1>9. pool' \subseteq pool
  BY <1>1 DEF poolVars
<1>10. Gated'
  BY <1>1, <1>3, <1>9, GatedStays DEF FundInv
<1>11. QED  BY <1>1, <1>2, <1>3, <1>4, <1>6, <1>8, <1>10, WalletStep

LEMMA RestartStep ==
    ASSUME FundInv, RestartNode PROVE FundInv'
<1>1. /\ LoseNode /\ pending' = {} /\ UNCHANGED <<op, releases, agent, history>>
      /\ UNCHANGED <<chain, gone, marker, sent>> /\ connecting' = FALSE
      /\ pool' = {} /\ queue' = <<>> /\ hold' = Free
      /\ budget' = [budget EXCEPT !.restarts = @ + 1]
  BY DEF RestartNode, LoseNode
<1>2. UNCHANGED <<journal, recorded, overlay, pc, local, snap, failures>>
  BY <1>1 DEF agent
<1>3. PoolInv'
  BY <1>1, PoolInvKept DEF FundInv
<1>4. hold' \in Held /\ hold'.by \notin Callers \cup {"queue"} /\ hold'.at # "commit"
  BY <1>1, NotCallers DEF Free, Held
<1>5. answer' \in [Threads -> {"none", "ok", "error"}]
  BY DEF RestartNode, FundInv, WalletTyped
<1>6. NodeTyped' /\ WalletTyped' /\ AgentTyped'
  BY <1>1, <1>2, <1>4, <1>5 DEF FundInv, NodeTyped, WalletTyped, AgentTyped
<1>7. OneTx' /\ Barriered'
  BY <1>1, <1>2, <1>4 DEF FundInv, OneTx, Barriered, Past
<1>8. Gated'
  BY <1>1, <1>4, GatedStays DEF FundInv
<1>9. Spreads /\ BlocksStay
  <2>1. Mined' = Mined /\ DOMAIN queue' = {}
    BY <1>1 DEF Mined
  <2>2. Spreads
    BY <1>1, <1>4, <2>1, OutHas, OutHasNext DEF Spreads
  <2>3. QED  BY <1>1, <2>1, <2>2 DEF BlocksStay
<1>10. Carries
  BY <1>1, <1>2 DEF Carries, Past, Watched, FundInv, AgentTyped, Journals
<1>11. Deepened' /\ DepthsStay
  BY <1>1, DeepenedSame, HistorySame DEF FundInv
<1>12. OutSound' /\ Witnessed' /\ ReorgSeen'
  BY <1>1, <1>9, <1>10, <1>11, OutStays, AgentStays DEF FundInv
<1>13. QED  BY <1>3, <1>6, <1>7, <1>8, <1>11, <1>12 DEF FundInv

----------------------------------------------------------------------------
(* The journal and the threads *)

\* A journal that only goes on, about the wallet's transaction.
JournalGood ==
    /\ journal' \in Journals /\ journal'.conf >= journal.conf
    /\ journal'.state = "none" => journal' = Empty
    /\ journal'.tx \in {NoTx, op.tx}
    /\ Past' => journal'.tx # NoTx
    /\ Past => Past' /\ journal'.tx = journal.tx
    /\ Watched => Watched'
    /\ Watched' => Chained(Id[journal'.tx])
    /\ journal'.conf >= 1 => Past' /\ (torn \/ [id |-> Id[journal'.tx], conf |-> journal'.conf] \in been)

LEMMA SameJournal ==
    ASSUME FundInv, UNCHANGED journal PROVE JournalGood /\ Past' = Past /\ Watched' = Watched
BY DEF FundInv, JournalGood, AgentTyped, Journals, OneTx, Witnessed, BeenAt, Past, Watched

LEMMA MoveIsGood ==
    ASSUME FundInv, NEW ev, ev.conf \in Nat,
           NEW s \in {"BROADCASTING", "TX_IDENTIFIED", "CONFIRMED", "RECORDED", "AMBIGUOUS"},
           Move(s, ev), s \in {"CONFIRMED", "RECORDED"} => Watched \/ Chained(Id[journal.tx]),
           ev.conf >= 1 => BeenAt(ev.conf)
    PROVE  /\ JournalGood /\ Past' /\ journal'.conf = ev.conf /\ journal'.state = s
           /\ journal'.tx = journal.tx /\ MayMove(s, ev)
<1>1. /\ journal' = [journal EXCEPT !.state = s, !.conf = ev.conf] /\ MayMove(s, ev)
  BY DEF Move
<1>2. journal \in Journals
  BY DEF FundInv, AgentTyped
<1>3. /\ journal' \in Journals /\ journal'.conf = ev.conf /\ journal'.state = s
      /\ journal'.tx = journal.tx
  BY <1>1, <1>2 DEF Journals
<1>4. /\ journal.tx # NoTx /\ ev.conf >= journal.conf
      /\ s = journal.state \/ <<journal.state, s>> \in Moves
  BY <1>1 DEF MayMove
<1>5. Past' /\ (Watched => Watched')
  BY <1>3, <1>4 DEF Past, Watched, Moves
<1>6. Watched' => Chained(Id[journal'.tx])
  BY <1>3 DEF Watched, FundInv, Witnessed
<1>7. JournalGood
  BY <1>3, <1>4, <1>5, <1>6 DEF JournalGood, FundInv, OneTx, BeenAt
<1>8. QED  BY <1>1, <1>3, <1>5, <1>7

LEMMA SeesNothing ==
    ASSUME NEW s \in Steps, NEW l, l.seen = {}, s # "blocks" PROVE Sees(s, l)
BY DEF Sees

\* What is known of a finding when no scan is under way is known for good.
LEMMA SeesOn ==
    ASSUME FundInv, NEW t \in Threads, pc[t] # "blocks", NEW s, NEW l,
           l.seen = local[t].seen, s = "blocks" => l.at <= l.tip
    PROVE  Sees(s, l)
BY DEF FundInv, Witnessed, Sees

\* One step of a thread: what is asked of where it goes and what it has read.
LEMMA ThreadMoves ==
    ASSUME FundInv, NEW t \in Threads, NEW s \in Steps, NEW l \in Locals,
           pc' = [pc EXCEPT ![t] = s], local' = [local EXCEPT ![t] = l],
           UNCHANGED <<node, op, overlay, snap, failures, history>>, WalletTyped', JournalGood,
           \/ UNCHANGED recorded
           \/ recorded' = Id[journal.tx] /\ Watched /\ journal.conf >= MinConf,
           l.tx \in {NoTx, op.tx}, Sees(s, l),
           s \in {"send", "wait"} \/ pending' # pending => Past',
           s \in {"record", "close"} => Watched' /\ l.conf <= journal'.conf
    PROVE  FundInv'
<1>1. UNCHANGED <<ledger, marker, poolVars, ingress, hold, sent, budget>>
  BY DEF node
<1>2. UNCHANGED <<chain, gone, pool>>
  BY <1>1 DEF ledger, poolVars
<1>3. pc \in [Threads -> Steps] /\ local \in [Threads -> Locals] /\ journal \in Journals
  BY DEF FundInv, AgentTyped
<1>4. PoolInv' /\ NodeTyped' /\ Gated'
  BY <1>1, <1>2, PoolStays, GatedStays DEF FundInv, NodeTyped
<1>5. AgentTyped'
  <2>1. pc' \in [Threads -> Steps] /\ local' \in [Threads -> Locals]
    BY <1>3
  <2>2. recorded' \in Ids \cup {NoTx}
    <3>1. Watched => journal.tx \in Txs
      BY <1>3 DEF Watched, FundInv, OneTx, Past, Journals
    <3>2. QED  BY <3>1 DEF FundInv, AgentTyped, Ids
  <2>3. QED  BY <2>1, <2>2 DEF FundInv, AgentTyped, JournalGood
<1>6. OneTx'
  <2>1. \A u \in Threads : local'[u].tx \in {NoTx, op.tx}
    BY <1>3 DEF FundInv, OneTx
  <2>2. QED  BY <2>1 DEF FundInv, OneTx, JournalGood, Past
<1>7. Barriered'
  <2>1. Past => Past'
    BY DEF JournalGood
  <2>2. pending' # {} => Past'
    BY <2>1 DEF FundInv, Barriered
  <2>3. \A u \in Threads : pc'[u] \in {"send", "wait"} => Past'
    BY <1>3, <2>1 DEF FundInv, Barriered
  <2>4. QED  BY <1>1, <2>1, <2>2, <2>3 DEF FundInv, Barriered
<1>8. Carries
  BY DEF Carries, JournalGood
<1>9. Spreads
  BY <1>1, <1>2, CalmSpreads
<1>10. OutSound'
  BY <1>8, <1>9, OutStays DEF FundInv
<1>11. /\ \A n : Chained(n)' <=> Chained(n)
       /\ been' = been /\ torn' = torn /\ Deepened'
  BY <1>1, <1>2, DeepenedSame DEF Chained, Mined, IdsOf, ledger, history, FundInv
<1>12. Witnessed'
  <2>1. (Watched => Chained(Id[journal.tx]))'
    BY <1>2 DEF JournalGood, Chained, Mined, IdsOf
  <2>2. ASSUME NEW u \in Threads PROVE Sees(pc[u], local[u])'
    <3>1. Sees(pc'[u], local'[u])
      BY <1>3 DEF FundInv, Witnessed
    <3>2. QED  BY <1>2, <1>11, <3>1 DEF Sees, Standing
  <2>3. \A u \in Threads : pc'[u] \in {"record", "close"} =>
           Watched' /\ local'[u].conf <= journal'.conf
    <3> SUFFICES ASSUME NEW u \in Threads, u # t, pc'[u] \in {"record", "close"}
                 PROVE  Watched' /\ local'[u].conf <= journal'.conf
      BY <1>3
    <3>1. pc'[u] = pc[u] /\ local'[u] = local[u]
      BY <1>3
    <3>2. Watched /\ local[u].conf <= journal.conf
      BY <3>1 DEF FundInv, Witnessed
    <3>3. local[u].conf \in Nat /\ journal.conf \in Nat /\ journal'.conf \in Nat
      BY <1>3 DEF Locals, Journals, JournalGood
    <3>4. QED  BY <3>1, <3>2, <3>3 DEF JournalGood
  <2>4. recorded' # NoTx =>
           Watched' /\ recorded' = Id[journal'.tx] /\ journal'.conf >= MinConf
    <3> SUFFICES ASSUME recorded' # NoTx
                 PROVE  Watched' /\ recorded' = Id[journal'.tx] /\ journal'.conf >= MinConf
      OBVIOUS
    <3>1. recorded' = Id[journal.tx] /\ Watched /\ journal.conf >= MinConf
      BY DEF FundInv, Witnessed
    <3>2. journal'.tx = journal.tx
      BY <3>1 DEF JournalGood, Watched, Past
    <3>3. journal.conf \in Nat /\ journal'.conf \in Nat /\ MinConf \in Nat
      BY <1>3, AgentAssumption DEF Journals, JournalGood
    <3>4. QED  BY <3>1, <3>2, <3>3 DEF JournalGood
  <2>5. journal'.conf >= 1 => Past' /\ BeenAt(journal.conf)'
    BY <1>11 DEF JournalGood, BeenAt
  <2>6. QED  BY <2>1, <2>2, <2>3, <2>4, <2>5 DEF Witnessed
<1>13. ReorgSeen'
  <2>1. Watched => Watched' /\ journal'.tx = journal.tx
    BY DEF JournalGood, Watched, Past
  <2>2. QED  BY <1>2, <2>1 DEF FundInv, ReorgSeen
<1>14. QED  BY <1>4, <1>5, <1>6, <1>7, <1>10, <1>11, <1>12, <1>13 DEF FundInv

LEMMA UnseenIsLocal == Unseen \in Locals
BY DEF Unseen, Locals

LEMMA WalletSame == ASSUME FundInv, UNCHANGED wallet PROVE WalletTyped' /\ UNCHANGED <<op, pending>>
BY DEF FundInv, wallet, WalletTyped

\* A thread leaves fund_step.
LEMMA Leaves ==
    ASSUME FundInv, NEW t \in Threads, Leave(t), JournalGood,
           UNCHANGED <<node, wallet, recorded, overlay, snap, failures, history>>
    PROVE  FundInv'
<1>1. pc' = [pc EXCEPT ![t] = "idle"] /\ local' = [local EXCEPT ![t] = Unseen]
  BY DEF Leave, Goto, Drop
<1>2. Unseen.tx = NoTx /\ Unseen.seen = {}
  BY DEF Unseen
<1>3. "idle" \in Steps /\ Sees("idle", Unseen)
  BY <1>2, SeesNothing DEF Steps
<1>4. QED  BY <1>1, <1>2, <1>3, UnseenIsLocal, WalletSame, ThreadMoves

\* A thread goes on with what it has read.
LEMMA Goes ==
    ASSUME FundInv, NEW t \in Threads, NEW s \in Steps \ {"blocks"}, Goto(t, s), JournalGood,
           pc[t] # "blocks", UNCHANGED <<local, node, wallet, overlay, snap, failures, history>>,
           \/ UNCHANGED recorded
           \/ recorded' = Id[journal.tx] /\ Watched /\ journal.conf >= MinConf,
           s \in {"send", "wait"} => Past',
           s \in {"record", "close"} => Watched' /\ local[t].conf <= journal'.conf
    PROVE  FundInv'
<1>1. local \in [Threads -> Locals]
  BY DEF FundInv, AgentTyped
<1>2. local[t] \in Locals /\ local' = [local EXCEPT ![t] = local[t]]
  BY <1>1
<1>3. local[t].tx \in {NoTx, op.tx} /\ Sees(s, local[t])
  BY SeesOn DEF FundInv, OneTx
<1>4. pc' = [pc EXCEPT ![t] = s]
  BY DEF Goto
<1>5. QED  BY <1>2, <1>3, <1>4, WalletSame, ThreadMoves

LEMMA StepBeginStep ==
    ASSUME FundInv, NEW t \in Threads, StepBegin(t) PROVE FundInv'
<1>1. UNCHANGED <<journal, recorded, overlay, snap, failures, node, wallet, history>>
  BY DEF StepBegin, DbUnchanged, Rest
<1>2. JournalGood /\ Past' = Past /\ Watched' = Watched
  BY <1>1, SameJournal
<1>3. local \in [Threads -> Locals] /\ local[t] \in Locals /\ journal \in Journals
      /\ chain \in Seq(SUBSET Txs)
  BY DEF FundInv, AgentTyped, PoolInv, Typed
<1>4. local[t].tx \in {NoTx, op.tx} /\ pc[t] # "blocks"
  BY DEF FundInv, OneTx, StepBegin
<1>5. CASE journal.state = "none"
  <2> DEFINE l == [local[t] EXCEPT !.start = Len(chain) + 1]
  <2>1. pc' = [pc EXCEPT ![t] = "create"] /\ local' = [local EXCEPT ![t] = l]
    BY <1>3, <1>5 DEF StepBegin, Goto
  <2>2. l \in Locals /\ l.tx = local[t].tx /\ l.seen = local[t].seen
    <3>1. Len(chain) + 1 \in Nat
      BY <1>3
    <3>2. QED  BY <1>3, <3>1 DEF Locals
  <2> HIDE DEF l
  <2>3. "create" \in Steps /\ Sees("create", l)
    BY <1>4, <2>2, SeesOn DEF Steps
  <2>4. QED  BY <1>1, <1>2, <1>4, <2>1, <2>2, <2>3, WalletSame, ThreadMoves
<1>6. CASE journal.state \in {"PREPARED", "BROADCASTING", "TX_IDENTIFIED", "CONFIRMED"}
  <2> DEFINE l == [local[t] EXCEPT !.conf = journal.conf]
  <2>1. PICK s \in {"prepare", "send", "scan", "record"} :
           /\ pc' = [pc EXCEPT ![t] = s] /\ local' = [local EXCEPT ![t] = l]
           /\ s = "send" => journal.state = "BROADCASTING"
           /\ s = "record" => journal.state = "CONFIRMED"
    BY <1>3, <1>6 DEF StepBegin, Goto
  <2>2. l \in Locals /\ l.tx = local[t].tx /\ l.seen = local[t].seen /\ l.conf = journal.conf
    BY <1>3 DEF Locals, Journals
  <2>3. s \in Steps /\ Sees(s, l)
    BY <1>4, <2>1, <2>2, SeesOn DEF Steps
  <2>4. s \in {"send", "wait"} => Past'
    BY <1>2, <2>1 DEF Past
  <2> HIDE DEF l
  <2>5. s \in {"record", "close"} => Watched' /\ l.conf <= journal'.conf
    BY <1>1, <1>2, <1>3, <2>1, <2>2 DEF Watched, Journals
  <2>6. QED  BY <1>1, <1>2, <1>4, <2>1, <2>2, <2>3, <2>4, <2>5, WalletSame, ThreadMoves
<1>7. QED  BY <1>5, <1>6 DEF StepBegin

LEMMA CreateStep ==
    ASSUME FundInv, NEW t \in Threads, Create(t) PROVE FundInv'
<1>1. UNCHANGED <<recorded, overlay, snap, failures, node, wallet, history>>
  BY DEF Create, Rest
<1>2. JournalGood
  <2>1. CASE UNCHANGED journal
    BY <2>1, SameJournal
  <2>2. CASE journal = Empty /\ journal' = [Empty EXCEPT !.state = "PREPARED", !.start = local[t].start]
    <3>1. local[t].start \in Nat
      BY DEF FundInv, AgentTyped, Locals
    <3>2. /\ journal' \in Journals /\ journal'.state = "PREPARED" /\ journal'.tx = NoTx
          /\ journal'.conf = 0 /\ journal.conf = 0 /\ journal.state = "none"
      BY <2>2, <3>1 DEF Empty, Journals
    <3>3. QED  BY <3>2 DEF JournalGood, Past, Watched
  <2>3. QED  BY <2>1, <2>2 DEF Create
<1>3. CASE Leave(t)
  BY <1>1, <1>2, <1>3, Leaves
<1>4. CASE Goto(t, "prepare") /\ Drop(t)
  <2>1. pc' = [pc EXCEPT ![t] = "prepare"] /\ local' = [local EXCEPT ![t] = Unseen]
    BY <1>4 DEF Goto, Drop
  <2>2. Unseen.tx = NoTx /\ "prepare" \in Steps /\ Sees("prepare", Unseen)
    BY SeesNothing DEF Unseen, Steps
  <2>3. QED  BY <1>1, <1>2, <2>1, <2>2, UnseenIsLocal, WalletSame, ThreadMoves
<1>5. QED  BY <1>3, <1>4 DEF Create

LEMMA BindStep ==
    ASSUME FundInv, NEW t \in Threads, Bind(t) PROVE FundInv'
<1>1. UNCHANGED <<recorded, overlay, snap, failures, node, wallet, history>>
  BY DEF Bind, Rest
<1>2. CASE Leave(t) /\ UNCHANGED journal
  BY <1>1, <1>2, SameJournal, Leaves
<1>3. CASE /\ Bindable(t) /\ journal' = [journal EXCEPT !.tx = local[t].tx]
           /\ Goto(t, "prepare") /\ Drop(t)
  <2>1. /\ journal \in Journals /\ local[t].tx \in Txs \cup {NoTx}
        /\ local[t].tx \in {NoTx, op.tx} /\ journal.state = "PREPARED"
    BY <1>3 DEF FundInv, AgentTyped, Locals, OneTx, Bindable
  <2>2. /\ journal' \in Journals /\ journal'.state = "PREPARED" /\ journal'.conf = journal.conf
        /\ journal'.tx = local[t].tx
    BY <1>3, <2>1 DEF Journals
  <2>3. JournalGood
    BY <2>1, <2>2 DEF JournalGood, Past, Watched, Journals, FundInv, Witnessed
  <2>4. pc' = [pc EXCEPT ![t] = "prepare"] /\ local' = [local EXCEPT ![t] = Unseen]
    BY <1>3 DEF Goto, Drop
  <2>5. Unseen.tx = NoTx /\ "prepare" \in Steps /\ Sees("prepare", Unseen)
    BY SeesNothing DEF Unseen, Steps
  <2>6. QED  BY <1>1, <2>3, <2>4, <2>5, UnseenIsLocal, WalletSame, ThreadMoves
<1>4. QED  BY <1>2, <1>3 DEF Bind

\* Steps that only look.
LEMMA LookSteps ==
    ASSUME FundInv, NEW t \in Threads, Prepare(t) \/ DryRun(t) PROVE FundInv'
<1>1. UNCHANGED <<journal, recorded, overlay, snap, failures, node, wallet, history>>
  BY DEF Prepare, DryRun, Rest, DbUnchanged
<1>2. JournalGood /\ Past' = Past /\ Watched' = Watched
  BY <1>1, SameJournal
<1>3. CASE Leave(t)
  BY <1>1, <1>2, <1>3, Leaves
<1>4. ASSUME NEW s \in {"ask", "dryrun", "barrier", "send"}, Goto(t, s), UNCHANGED local,
             s = "send" => journal.state = "BROADCASTING"
      PROVE  FundInv'
  <2>1. s \in Steps \ {"blocks"} /\ (s = "send" => Past') /\ pc[t] # "blocks"
    BY <1>2, <1>4 DEF Steps, Past, Prepare, DryRun
  <2>2. QED  BY <1>1, <1>2, <1>4, <2>1, Goes
<1>5. QED  BY <1>3, <1>4 DEF Prepare, DryRun

LEMMA BarrierStep ==
    ASSUME FundInv, NEW t \in Threads, Barrier(t) PROVE FundInv'
<1> DEFINE none == [id |-> "none", conf |-> 0]
<1>1. UNCHANGED <<recorded, overlay, snap, failures, node, wallet, history>>
  BY DEF Barrier, Rest
<1>2. CASE Stay("BROADCASTING", none) /\ Leave(t)
  BY <1>1, <1>2, SameJournal, Leaves DEF Stay
<1>3. CASE Move("BROADCASTING", none) /\ Goto(t, "send") /\ UNCHANGED local
  <2>1. none.conf \in Nat
    OBVIOUS
  <2>2. JournalGood /\ Past'
    BY <1>3, <2>1, MoveIsGood
  <2>3. "send" \in Steps \ {"blocks"} /\ pc[t] # "blocks"
    BY DEF Steps, Barrier
  <2>4. QED  BY <1>1, <1>3, <2>2, <2>3, Goes
<1>4. QED  BY <1>2, <1>3 DEF Barrier

LEMMA NameStep ==
    ASSUME FundInv, NEW t \in Threads, Name(t) PROVE FundInv'
<1>1. UNCHANGED <<recorded, overlay, snap, failures, node, wallet, history>> /\ Leave(t)
  BY DEF Name, Rest
<1>2. Kept.conf \in Nat /\ (Kept.conf >= 1 => BeenAt(Kept.conf))
  BY DEF Kept, FundInv, AgentTyped, Journals, Witnessed
<1>3. JournalGood
  BY <1>2, MoveIsGood, SameJournal DEF Name, TryMove, Stay
<1>4. QED  BY <1>1, <1>3, Leaves

\* A request leaves, or its answer is taken.
LEMMA SendStep ==
    ASSUME FundInv, NEW t \in Threads, Send(t) PROVE FundInv'
<1> DEFINE r == [by |-> t, id |-> Id[journal.tx]]
<1>1. /\ pc[t] = "send" /\ pending' = pending \cup {r}
      /\ answer' = [answer EXCEPT ![t] = "none"] /\ pc' = [pc EXCEPT ![t] = "wait"]
      /\ UNCHANGED <<journal, recorded, overlay, snap, failures, local, node, op, releases, history>>
  BY DEF Send, Goto, DbUnchanged, Rest
<1>2. JournalGood /\ Past' = Past
  BY <1>1, SameJournal
<1>3. Past'
  BY <1>1, <1>2 DEF FundInv, Barriered
<1>4. r \in Requests
  <2>1. journal.tx \in Txs
    BY <1>2, <1>3 DEF FundInv, OneTx, AgentTyped, Journals
  <2>2. QED  BY <2>1, NotCallers DEF Requests, Ids
<1>5. WalletTyped'
  BY <1>1, <1>4 DEF FundInv, WalletTyped
<1>6. local \in [Threads -> Locals] /\ local[t] \in Locals
  BY DEF FundInv, AgentTyped
<1>7. local' = [local EXCEPT ![t] = local[t]]
  BY <1>1, <1>6
<1>8. local[t].tx \in {NoTx, op.tx} /\ Sees("wait", local[t])
  BY <1>1, SeesOn DEF FundInv, OneTx
<1>9. "wait" \in Steps
  BY DEF Steps
<1>10. QED  BY <1>1, <1>2, <1>3, <1>5, <1>6, <1>7, <1>8, <1>9, ThreadMoves

LEMMA AnsweredStep ==
    ASSUME FundInv, NEW t \in Threads, Answered(t) PROVE FundInv'
<1>1. /\ answer' = [answer EXCEPT ![t] = "none"]
      /\ UNCHANGED <<journal, recorded, overlay, snap, failures, node, op, pending, releases>>
      /\ pc[t] = "wait" /\ UNCHANGED history
      /\ (Goto(t, "name") /\ UNCHANGED local) \/ Leave(t)
  BY DEF Answered, DbUnchanged, Rest
<1>2. JournalGood
  BY <1>1, SameJournal
<1>3. WalletTyped'
  BY <1>1 DEF FundInv, WalletTyped
<1>4. local \in [Threads -> Locals] /\ local[t] \in Locals
  BY DEF FundInv, AgentTyped
<1>5. local[t].tx \in {NoTx, op.tx} /\ Sees("name", local[t])
  BY <1>1, SeesOn DEF FundInv, OneTx
<1>6. CASE Goto(t, "name") /\ UNCHANGED local
  <2>1. pc' = [pc EXCEPT ![t] = "name"] /\ local' = [local EXCEPT ![t] = local[t]]
    BY <1>4, <1>6 DEF Goto
  <2>2. "name" \in Steps
    BY DEF Steps
  <2>3. QED  BY <1>1, <1>2, <1>3, <1>4, <1>5, <2>1, <2>2, ThreadMoves
<1>7. CASE Leave(t)
  <2>1. pc' = [pc EXCEPT ![t] = "idle"] /\ local' = [local EXCEPT ![t] = Unseen]
    BY <1>7 DEF Leave, Goto, Drop
  <2>2. Unseen.tx = NoTx /\ "idle" \in Steps /\ Sees("idle", Unseen)
    BY SeesNothing DEF Unseen, Steps
  <2>3. QED  BY <1>1, <1>2, <1>3, <2>1, <2>2, UnseenIsLocal, ThreadMoves
<1>8. QED  BY <1>1, <1>6, <1>7

----------------------------------------------------------------------------
(* Evidence *)

LEMMA InPoolIsEvidence ==
    ASSUME FundInv PROVE InPool \subseteq Evidence /\ \A c \in InPool : ~(c.conf >= 1)
<1>1. ASSUME NEW u \in pool PROVE [id |-> Id[u], conf |-> 0] \in Evidence
  BY DEF FundInv, PoolInv, Typed, Evidence, Ids
<1>2. QED  BY <1>1 DEF InPool

LEMMA InBlockIsEvidence ==
    ASSUME FundInv, NEW tip \in Nat, NEW i \in DOMAIN chain, i <= tip, NEW c \in InBlock(i, tip)
    PROVE  /\ c \in Evidence /\ Chained(c.id) /\ c.conf = tip - i + 1
           /\ \E u \in chain[i] : Id[u] = c.id
<1>1. PICK u \in chain[i] : c = [id |-> Id[u], conf |-> tip - i + 1]
  BY DEF InBlock
<1>2. chain \in Seq(SUBSET Txs) /\ i \in 1..Len(chain)
  BY DEF FundInv, PoolInv, Typed
<1>3. u \in Txs /\ tip - i + 1 \in Nat
  BY <1>2
<1>4. u \in Mined
  BY MinedHas
<1>5. c.id = Id[u] /\ c \in Evidence /\ c.conf = tip - i + 1
  BY <1>1, <1>3 DEF Evidence, Ids
<1>6. QED  BY <1>4, <1>5 DEF Chained, IdsOf

\* A block that stands below the tip of a chain that has that tip is so deep in it.
LEMMA StandingIsDeep ==
    ASSUME FundInv, NEW l, l.tip \in Nat, l.tip <= Len(chain),
           NEW c \in Evidence, c.conf >= 1, Standing(l, c)
    PROVE  c \in been
<1>1. PICK i \in DOMAIN chain : c.conf = l.tip - i + 1 /\ \E u \in chain[i] : Id[u] = c.id
  BY DEF Standing
<1>2. PICK u \in chain[i] : Id[u] = c.id
  BY <1>1
<1>3. chain \in Seq(SUBSET Txs) /\ i \in 1..Len(chain) /\ Len(chain) \in Nat /\ c.conf \in Nat
  BY DEF FundInv, PoolInv, Typed, Evidence
<1>4. c.conf \in 1..(Len(chain) - i + 1)
  BY <1>1, <1>3
<1>5. [id |-> Id[u], conf |-> c.conf] \in been
  BY <1>4 DEF FundInv, Deepened
<1>6. c = [id |-> c.id, conf |-> c.conf]
  BY DEF Evidence
<1>7. QED  BY <1>2, <1>5, <1>6

\* The pool, the tip and the blocks.
LEMMA ScanMoves ==
    ASSUME FundInv, NEW t \in Threads, ScanPool(t) \/ ReadTip(t) \/ ScanBlock(t),
           NEW l \in Locals, NEW s \in {"tip", "blocks", "apply"}, Goto(t, s),
           local' = [local EXCEPT ![t] = l], l.tx = local[t].tx, Sees(s, l)
    PROVE  FundInv'
<1>1. UNCHANGED <<journal, recorded, overlay, snap, failures, node, wallet, history>>
  BY DEF ScanPool, ReadTip, ScanBlock, Rest, DbUnchanged
<1>2. JournalGood
  BY <1>1, SameJournal
<1>3. pc' = [pc EXCEPT ![t] = s] /\ s \in Steps /\ local[t].tx \in {NoTx, op.tx}
  BY DEF Goto, Steps, FundInv, OneTx
<1>4. QED  BY <1>1, <1>2, <1>3, WalletSame, ThreadMoves

LEMMA ScanLeaves ==
    ASSUME FundInv, NEW t \in Threads, ScanPool(t) \/ ReadTip(t) \/ ScanBlock(t), Leave(t)
    PROVE  FundInv'
<1>1. UNCHANGED <<journal, recorded, overlay, snap, failures, node, wallet, history>>
  BY DEF ScanPool, ReadTip, ScanBlock, Rest, DbUnchanged
<1>2. QED  BY <1>1, SameJournal, Leaves

LEMMA ScanPoolStep ==
    ASSUME FundInv, NEW t \in Threads, ScanPool(t) PROVE FundInv'
<1>1. CASE Leave(t)
  BY <1>1, ScanLeaves
<1>2. CASE Goto(t, "tip") /\ local' = [local EXCEPT ![t].seen = InPool, ![t].conf = journal.conf]
  <2> DEFINE l == [local[t] EXCEPT !.seen = InPool, !.conf = journal.conf]
  <2>1. local \in [Threads -> Locals] /\ local[t] \in Locals /\ journal.conf \in Nat
    BY DEF FundInv, AgentTyped, Journals
  <2>2. local' = [local EXCEPT ![t] = l]
    BY <1>2, <2>1
  <2>3. l \in Locals /\ l.tx = local[t].tx /\ l.seen = InPool
    BY <2>1, InPoolIsEvidence DEF Locals
  <2> HIDE DEF l
  <2>4. Sees("tip", l)
    BY <2>3, InPoolIsEvidence DEF Sees
  <2>5. QED  BY <1>2, <2>2, <2>3, <2>4, ScanMoves
<1>3. QED  BY <1>1, <1>2 DEF ScanPool

LEMMA ReadTipStep ==
    ASSUME FundInv, NEW t \in Threads, ReadTip(t) PROVE FundInv'
<1> DEFINE l == [local[t] EXCEPT !.tip = Tip, !.at = journal.start]
           s == IF journal.start <= Tip THEN "blocks" ELSE "apply"
<1>1. /\ local \in [Threads -> Locals] /\ local[t] \in Locals /\ journal.start \in Nat
      /\ pc[t] # "blocks"
  BY DEF FundInv, AgentTyped, Journals, ReadTip
<1>2. Tip \in Nat
  <2>1. chain \in Seq(SUBSET Txs) /\ (connecting => chain # <<>>)
    BY DEF FundInv, PoolInv, Typed, Deepened
  <2>2. QED  BY <2>1 DEF Tip
<1>3. Goto(t, s) /\ local' = [local EXCEPT ![t] = l] /\ s \in {"tip", "blocks", "apply"}
  BY <1>1 DEF ReadTip
<1>4. /\ l \in Locals /\ l.tx = local[t].tx /\ l.seen = local[t].seen
      /\ s = "blocks" => l.at <= l.tip
  BY <1>1, <1>2 DEF Locals
<1> HIDE DEF l, s
<1>5. QED  BY <1>1, <1>3, <1>4, SeesOn, ScanMoves

LEMMA ScanBlockStep ==
    ASSUME FundInv, NEW t \in Threads, ScanBlock(t) PROVE FundInv'
<1>1. CASE Leave(t)
  BY <1>1, ScanLeaves
<1>2. CASE ~Leave(t)
  <2> DEFINE at == local[t].at
             tip == local[t].tip
             new == InBlock(at, tip)
             found == {c \in local[t].seen : \A b \in new : b.id # c.id} \cup new
             l == [local[t] EXCEPT !.seen = found, !.at = at + 1]
             s == IF at < tip THEN "blocks" ELSE "apply"
  <2>1. /\ pc[t] = "blocks" /\ at \in DOMAIN chain /\ Goto(t, s)
        /\ local' = [local EXCEPT ![t].seen = found, ![t].at = at + 1]
    BY <1>2 DEF ScanBlock
  <2>2. /\ local \in [Threads -> Locals] /\ local[t] \in Locals /\ at \in Nat /\ tip \in Nat
        /\ at <= tip /\ Sees("blocks", local[t]) /\ local[t].seen \subseteq Evidence
        /\ chain \in Seq(SUBSET Txs)
    BY <2>1 DEF FundInv, AgentTyped, Locals, Witnessed, Sees, PoolInv, Typed
  <2>3. \A c \in new : /\ c \in Evidence /\ Chained(c.id) /\ c.conf = tip - at + 1
                        /\ \E u \in chain[at] : Id[u] = c.id
    BY <2>1, <2>2, InBlockIsEvidence
  <2>4. found \subseteq Evidence
    BY <2>2, <2>3
  <2>5. local' = [local EXCEPT ![t] = l]
    BY <2>1, <2>2
  <2>6. /\ l \in Locals /\ l.tx = local[t].tx /\ l.seen = found /\ l.tip = tip
        /\ l.at = at + 1
    <3> HIDE DEF found
    <3>1. found \in SUBSET Evidence /\ at + 1 \in Nat
      BY <2>2, <2>4
    <3>2. QED  BY <2>2, <3>1 DEF Locals
  <2>7. s \in {"tip", "blocks", "apply"} /\ (s = "blocks" => at < tip) /\ (s # "blocks" => at = tip)
    BY <2>2
  <2> HIDE DEF l, s
  <2>8. ASSUME NEW c \in found, c.conf >= 1
        PROVE  Chained(c.id) /\ (torn \/ c \in been \/ Standing(l, c))
    <3>1. CASE c \in new
      <4>1. Standing(l, c)
        BY <2>1, <2>2, <2>3, <2>6, <3>1 DEF Standing
      <4>2. QED  BY <2>3, <3>1, <4>1
    <3>2. CASE c \in local[t].seen
      <4>1. Chained(c.id) /\ (torn \/ c \in been \/ Standing(local[t], c))
        BY <2>2, <2>8, <3>2 DEF Sees
      <4>2. Standing(local[t], c) => Standing(l, c)
        <5>1. DOMAIN chain = 1..Len(chain)
          BY <2>2
        <5>2. \A i \in DOMAIN chain : i < at => i < at + 1
          BY <2>2, <5>1
        <5>3. QED  BY <2>6, <5>2 DEF Standing
      <4>3. QED  BY <4>1, <4>2
    <3>3. QED  BY <3>1, <3>2
  <2>9. CASE s = "blocks"
    <3>1. l.at <= l.tip
      BY <2>2, <2>6, <2>7, <2>9
    <3>2. Sees(s, l)
      BY <2>6, <2>8, <2>9, <3>1 DEF Sees
    <3>3. QED  BY <2>1, <2>5, <2>6, <2>7, <3>2, ScanMoves
  <2>10. CASE s # "blocks"
    <3>1. l.tip \in Nat /\ l.tip <= Len(chain)
      BY <2>1, <2>2, <2>6, <2>7, <2>10
    <3>2. \A c \in found : c.conf >= 1 /\ Standing(l, c) => c \in been
      BY <2>4, <3>1, StandingIsDeep
    <3>3. Sees(s, l)
      BY <2>6, <2>8, <2>10, <3>2 DEF Sees
    <3>4. QED  BY <2>1, <2>5, <2>6, <2>7, <3>3, ScanMoves
  <2>11. QED  BY <2>9, <2>10
<1>3. QED  BY <1>1, <1>2

\* A finding that is of the journal's transaction is one of its depths.
LEMMA FoundDepth ==
    ASSUME FundInv, NEW t \in Threads, pc[t] # "blocks", NEW c \in local[t].seen,
           c.id = Id[journal.tx], c.conf >= 1
    PROVE  BeenAt(c.conf) /\ Chained(Id[journal.tx])
<1>1. c \in Evidence
  BY DEF FundInv, AgentTyped, Locals
<1>2. c = [id |-> Id[journal.tx], conf |-> c.conf]
  BY <1>1 DEF Evidence
<1>3. QED  BY <1>2 DEF FundInv, Witnessed, Sees, BeenAt

LEMMA ApplyStep ==
    ASSUME FundInv, NEW t \in Threads, Apply(t) PROVE FundInv'
<1>1. UNCHANGED <<recorded, overlay, snap, failures, node, wallet, history>>
  BY DEF Apply, Rest
<1>2. /\ Kept.conf \in Nat /\ \A c \in local[t].seen : c.conf \in Nat
      /\ Kept.conf >= 1 => BeenAt(Kept.conf)
      /\ pc[t] # "blocks"
  BY DEF Kept, FundInv, AgentTyped, Journals, Locals, Evidence, Witnessed, Apply
<1>3. CASE Leave(t) /\ (UNCHANGED journal \/ TryMove("AMBIGUOUS", Kept))
  <2>1. JournalGood
    BY <1>2, <1>3, SameJournal, MoveIsGood DEF TryMove, Stay
  <2>2. QED  BY <1>1, <1>3, <2>1, Leaves
<1>4. ASSUME NEW c \in local[t].seen, Move("TX_IDENTIFIED", c)
      PROVE  JournalGood
  <2>1. c.id = Id[journal.tx]
    BY <1>4 DEF Move, MayMove
  <2>2. c.conf >= 1 => BeenAt(c.conf)
    BY <1>2, <2>1, FoundDepth
  <2>3. QED  BY <1>2, <1>4, <2>2, MoveIsGood
<1>5. ASSUME NEW c \in local[t].seen, Move("TX_IDENTIFIED", c),
             Goto(t, "confirm"), UNCHANGED local
      PROVE  FundInv'
  <2>1. "confirm" \in Steps \ {"blocks"}
    BY DEF Steps
  <2>2. JournalGood
    BY <1>4, <1>5
  <2>3. QED  BY <1>1, <1>2, <1>5, <2>1, <2>2, Goes
<1>6. ASSUME NEW c \in local[t].seen, Move("TX_IDENTIFIED", c), Leave(t) PROVE FundInv'
  BY <1>1, <1>4, <1>6, Leaves
<1>7. QED  BY <1>3, <1>5, <1>6 DEF Apply, Stay

LEMMA ConfirmStep ==
    ASSUME FundInv, NEW t \in Threads, Confirm(t) PROVE FundInv'
<1>1. UNCHANGED <<recorded, overlay, snap, failures, node, wallet, history>>
  BY DEF Confirm, Rest
<1>2. CASE Leave(t) /\ UNCHANGED journal
  BY <1>1, <1>2, SameJournal, Leaves
<1>3. ASSUME NEW c \in local[t].seen, Move("CONFIRMED", c), Goto(t, "record"),
             local' = [local EXCEPT ![t] = [Unseen EXCEPT !.conf = c.conf]]
      PROVE  FundInv'
  <2> DEFINE l == [Unseen EXCEPT !.conf = c.conf]
  <2>1. c.conf \in Nat
    BY DEF FundInv, AgentTyped, Locals, Evidence
  <2>2. c.conf >= 1 /\ c.id = Id[journal.tx]
    BY <1>3 DEF Move, MayMove
  <2>3. Chained(Id[journal.tx]) /\ BeenAt(c.conf)
    BY <2>2, FoundDepth DEF Confirm
  <2>4. JournalGood /\ journal'.conf = c.conf /\ journal'.state = "CONFIRMED"
    BY <1>3, <2>1, <2>3, MoveIsGood
  <2>5. l \in Locals /\ l.tx = NoTx /\ l.seen = {} /\ l.conf = c.conf
    BY <2>1 DEF Locals, Unseen
  <2>6. pc' = [pc EXCEPT ![t] = "record"] /\ "record" \in Steps /\ Sees("record", l)
    BY <1>3, <2>5, SeesNothing DEF Goto, Steps
  <2>7. local' = [local EXCEPT ![t] = l]
    BY <1>3
  <2> HIDE DEF l
  <2>8. Watched' /\ l.conf <= journal'.conf
    BY <2>1, <2>4, <2>5 DEF Watched
  <2>9. QED  BY <1>1, <2>4, <2>5, <2>6, <2>7, <2>8, WalletSame, ThreadMoves
<1>4. QED  BY <1>2, <1>3 DEF Confirm, Stay

LEMMA RecordStep ==
    ASSUME FundInv, NEW t \in Threads, Record(t) PROVE FundInv'
<1>1. UNCHANGED <<journal, overlay, snap, failures, node, wallet, history>> /\ pc[t] = "record"
  BY DEF Record, Rest
<1>2. JournalGood /\ Watched' = Watched
  BY <1>1, SameJournal
<1>3. CASE Leave(t) /\ UNCHANGED recorded
  BY <1>1, <1>2, <1>3, Leaves
<1>4. CASE /\ Enough(local[t].conf) /\ recorded' = Id[journal.tx]
           /\ Goto(t, "close") /\ UNCHANGED local
  <2>1. Watched /\ local[t].conf <= journal.conf
    BY <1>1 DEF FundInv, Witnessed
  <2>2. local[t].conf \in Nat /\ journal.conf \in Nat /\ MinConf \in Nat
    BY AgentAssumption DEF FundInv, AgentTyped, Locals, Journals
  <2>3. journal.conf >= MinConf
    BY <1>4, <2>1, <2>2 DEF Enough
  <2>4. "close" \in Steps \ {"blocks"}
    BY DEF Steps
  <2>5. QED  BY <1>1, <1>2, <1>4, <2>1, <2>3, <2>4, Goes
<1>5. QED  BY <1>3, <1>4 DEF Record

LEMMA CloseStep ==
    ASSUME FundInv, NEW t \in Threads, Close(t) PROVE FundInv'
<1> DEFINE ev == [Kept EXCEPT !.conf = local[t].conf]
<1>1. /\ UNCHANGED <<recorded, overlay, snap, failures, node, wallet, history>> /\ Leave(t)
      /\ (Move("RECORDED", ev) \/ UNCHANGED journal)
      /\ pc[t] = "close"
  BY DEF Close, Rest, TryMove, Stay
<1>2. ev.conf \in Nat /\ ev.conf = local[t].conf /\ journal.conf \in Nat
  BY DEF FundInv, AgentTyped, Locals, Kept, Journals
<1>3. Watched /\ local[t].conf <= journal.conf
  BY <1>1 DEF FundInv, Witnessed
<1> HIDE DEF ev
<1>4. CASE UNCHANGED journal
  BY <1>1, <1>4, SameJournal, Leaves
<1>5. CASE Move("RECORDED", ev)
  <2>1. ev.conf = journal.conf
    BY <1>2, <1>3, <1>5 DEF Move, MayMove
  <2>2. ev.conf >= 1 => BeenAt(ev.conf)
    BY <2>1 DEF FundInv, Witnessed
  <2>3. QED  BY <1>1, <1>2, <1>3, <1>5, <2>2, MoveIsGood, Leaves
<1>6. QED  BY <1>1, <1>4, <1>5

\* The wallet is asked, and makes its only choice.
LEMMA ChoiceStep ==
    ASSUME FundInv, NEW t \in Threads, Ask(t), op = NoOp, PrepareFunding,
           local' = [local EXCEPT ![t].tx = op'.tx], Goto(t, "bind")
    PROVE  FundInv'
<1>1. PICK f \in Funding :
         /\ Selectable(f) /\ hold = Free /\ op' = [state |-> "PREPARED", tx |-> f]
         /\ marker' = [c \in Coins |-> IF c \in Inputs[f] THEN f ELSE marker[c]]
  BY DEF PrepareFunding
<1>2. /\ local' = [local EXCEPT ![t].tx = op'.tx] /\ pc' = [pc EXCEPT ![t] = "bind"]
      /\ UNCHANGED <<journal, recorded, overlay, snap, failures, ledger, poolVars, ingress>>
      /\ UNCHANGED <<hold, sent, budget, pending, answer, releases, history>>
  BY DEF Ask, Goto, DbUnchanged, Rest
<1>3. /\ op'.state = "PREPARED" /\ op'.tx = f /\ f \in Txs /\ op.tx = NoTx
      /\ op' # NoOp /\ op' \in Ops /\ NoTx \notin Funding
  BY <1>1, FundingAssumption, TxAssumption DEF NoOp, Ops
<1>4. ~Past /\ journal.tx = NoTx /\ \A u \in Threads : local[u].tx = NoTx
  BY <1>3 DEF FundInv, OneTx
<1>5. /\ local \in [Threads -> Locals] /\ pc \in [Threads -> Steps] /\ "bind" \in Steps
  BY DEF FundInv, AgentTyped, Steps
<1>6. /\ local' \in [Threads -> Locals] /\ pc' \in [Threads -> Steps]
      /\ \A u \in Threads : local'[u].tx \in {NoTx, f} /\ local'[u].seen = local[u].seen
      /\ \A u \in Threads : u # t => local'[u] = local[u] /\ pc'[u] = pc[u]
      /\ pc'[t] = "bind"
  <2> DEFINE l == [local[t] EXCEPT !.tx = f]
  <2>1. local' = [local EXCEPT ![t] = l]
    BY <1>2, <1>3, <1>5
  <2>2. l \in Locals /\ l.tx = f /\ l.seen = local[t].seen
    BY <1>3, <1>5 DEF Locals
  <2> HIDE DEF l
  <2>3. QED  BY <1>2, <1>4, <1>5, <2>1, <2>2
<1>7. PoolInv'
  BY <1>2, PoolStays DEF FundInv
<1>8. marker' \in [Coins -> Txs \cup {NoTx}]
  BY <1>1, <1>3 DEF FundInv, NodeTyped
<1>9. NodeTyped' /\ WalletTyped' /\ AgentTyped'
  BY <1>2, <1>3, <1>6, <1>8 DEF FundInv, NodeTyped, WalletTyped, AgentTyped
<1>10. OneTx'
  BY <1>2, <1>3, <1>4, <1>6 DEF FundInv, OneTx, Past
<1>11. Barriered'
  <2>1. pending = {} /\ hold.by \notin Callers /\ \A u \in Threads : pc[u] \notin {"send", "wait"}
    BY <1>4 DEF FundInv, Barriered
  <2>2. QED  BY <1>2, <1>6, <2>1 DEF Barriered
<1>12. OutSound'
  <2>1. UNCHANGED <<chain, gone, pool, sent, queue, hold>>
    BY <1>2 DEF ledger, poolVars, ingress
  <2>2. Mined' = Mined
    BY <2>1 DEF Mined
  <2>3. \A x \in Out' : x \in Out
    BY <2>1, <2>2, OutHas, OutHasNext
  <2>4. \A x \in Out : ~Ours(x)
    BY <1>4 DEF FundInv, OutSound
  <2>5. QED  BY <2>3, <2>4 DEF OutSound, Ours
<1>13. Gated'
  <2>1. UNCHANGED <<pool, hold>> /\ hold.at = "free" /\ hold.by # "queue"
    BY <1>1, <1>2 DEF poolVars, Free
  <2>2. \A u \in pool : \A c \in Inputs[u] : c \notin Inputs[f] /\ c \in Coins
    <3>1. spent = InputsOf(pool) /\ pool \subseteq Txs
      BY DEF FundInv, PoolInv, Indexed, Typed
    <3>2. Inputs[f] \cap spent = {}
      BY <1>1 DEF Selectable, FirstSeen
    <3>3. QED  BY <3>1, <3>2, InputsOfHas, TxAssumption
  <2>3. ReservedForPrepared'
    BY <1>1, <2>1, <2>2 DEF FundInv, Gated, ReservedForPrepared
  <2>4. QED  BY <2>1, <2>3 DEF Gated, Gate
<1>14. ~Watched /\ ~Watched' /\ snap = "none" /\ overlay = "none" /\ recorded = NoTx
  BY <1>2, <1>4 DEF Watched, Past, FundInv, ReorgSeen, Witnessed
<1>15. Witnessed' /\ Deepened'
  <2>1. UNCHANGED <<chain, gone, been, torn>> /\ Deepened'
    BY <1>2, DeepenedSame DEF ledger, history, FundInv
  <2>2. \A n : Chained(n)' <=> Chained(n)
    BY <2>1 DEF Chained, Mined, IdsOf
  <2>3. \A u \in Threads : pc'[u] \notin {"record", "close"}
    BY <1>6, <1>14 DEF FundInv, Witnessed
  <2>4. ASSUME NEW u \in Threads PROVE Sees(pc[u], local[u])'
    <3>1. CASE u = t
      <4>1. pc[t] # "blocks" /\ local'[t].seen = local[t].seen /\ pc'[t] = "bind"
        BY <1>6 DEF Ask
      <4>2. Sees("bind", local'[t])
        BY <4>1, SeesOn
      <4>3. QED  BY <2>1, <2>2, <3>1, <4>1, <4>2 DEF Sees
    <3>2. CASE u # t
      <4>1. local'[u] = local[u] /\ pc'[u] = pc[u] /\ Sees(pc[u], local[u])
        BY <1>6, <3>2 DEF FundInv, Witnessed
      <4>2. QED  BY <2>1, <2>2, <4>1 DEF Sees, Standing
    <3>3. QED  BY <3>1, <3>2
  <2>5. journal'.conf >= 1 => Past' /\ BeenAt(journal.conf)'
    BY <1>2, <1>4 DEF FundInv, Witnessed, Past
  <2>6. QED  BY <1>2, <1>14, <2>1, <2>2, <2>3, <2>4, <2>5 DEF Witnessed
<1>16. ReorgSeen'
  BY <1>2, <1>14 DEF ReorgSeen
<1>17. QED  BY <1>7, <1>9, <1>10, <1>11, <1>12, <1>13, <1>15, <1>16 DEF FundInv

LEMMA AskStep ==
    ASSUME FundInv, NEW t \in Threads, Ask(t) PROVE FundInv'
<1>1. /\ UNCHANGED <<journal, recorded, overlay, snap, failures, ledger, poolVars, ingress>>
      /\ UNCHANGED <<hold, sent, budget, pending, answer, releases, history>> /\ pc[t] # "blocks"
  BY DEF Ask, DbUnchanged, Rest
<1>2. JournalGood
  BY <1>1, SameJournal
<1>3. CASE UNCHANGED <<op, marker>> /\ Leave(t)
  <2>1. UNCHANGED <<node, wallet>>
    BY <1>1, <1>3 DEF node, wallet
  <2>2. QED  BY <1>1, <1>2, <1>3, <2>1, Leaves
<1>4. CASE UNCHANGED <<op, marker>> /\ local' = [local EXCEPT ![t].tx = op'.tx] /\ Goto(t, "bind")
  <2> DEFINE l == [local[t] EXCEPT !.tx = op.tx]
  <2>1. /\ local \in [Threads -> Locals] /\ local[t] \in Locals /\ op.tx \in Txs \cup {NoTx}
    BY DEF FundInv, AgentTyped, WalletTyped, Ops
  <2>2. pc' = [pc EXCEPT ![t] = "bind"] /\ local' = [local EXCEPT ![t] = l] /\ "bind" \in Steps
    BY <1>4, <2>1 DEF Goto, Steps
  <2>3. l \in Locals /\ l.tx = op.tx /\ l.seen = local[t].seen
    BY <2>1 DEF Locals
  <2> HIDE DEF l
  <2>4. UNCHANGED <<node, wallet>> /\ Sees("bind", l)
    BY <1>1, <1>4, <2>3, SeesOn DEF node, wallet
  <2>5. QED  BY <1>1, <1>2, <2>1, <2>2, <2>3, <2>4, WalletSame, ThreadMoves
<1>5. QED  BY <1>3, <1>4, ChoiceStep DEF Ask, PrepareFunding

----------------------------------------------------------------------------
(* The watcher and the failures *)

LEMMA WatcherMoves ==
    ASSUME FundInv, UNCHANGED <<node, wallet, journal, recorded, pc, local, failures, history>>,
           overlay' \in Words, snap' \in Words, snap' # "none" => Watched,
           snap' \in {"MEMPOOL", "AWAY"} => Id[journal.tx] \in IdsOf(gone),
           overlay' # "none" => Watched /\ Id[journal.tx] \in IdsOf(gone)
    PROVE  FundInv'
<1>1. /\ UNCHANGED <<ledger, marker, poolVars, ingress, hold, sent, budget>>
      /\ UNCHANGED <<op, pending, answer, releases>>
  BY DEF node, wallet
<1>2. UNCHANGED <<chain, gone, pool>>
  BY <1>1 DEF ledger, poolVars
<1>3. PoolInv' /\ Gated'
  BY <1>1, <1>2, PoolStays, GatedStays DEF FundInv
<1>4. NodeTyped' /\ WalletTyped' /\ AgentTyped'
  BY <1>1 DEF FundInv, NodeTyped, WalletTyped, AgentTyped
<1>5. OneTx' /\ Barriered'
  BY <1>1 DEF FundInv, OneTx, Barriered, Past
<1>6. Carries
  BY <1>1 DEF Carries, Past, Watched, FundInv, AgentTyped, Journals
<1>7. Spreads
  BY <1>1, <1>2, CalmSpreads
<1>8. OutSound'
  BY <1>6, <1>7, OutStays DEF FundInv
<1>9. /\ \A n : Chained(n)' <=> Chained(n)
      /\ been' = been /\ torn' = torn /\ Deepened'
  BY <1>1, <1>2, DeepenedSame DEF Chained, Mined, IdsOf, ledger, history, FundInv
<1>10. Witnessed'
  <2>1. \A u \in Threads : Sees(pc[u], local[u])'
    BY <1>2, <1>9 DEF FundInv, Witnessed, Sees, Standing
  <2>2. QED  BY <1>9, <2>1 DEF FundInv, Witnessed, Watched, BeenAt, Past
<1>11. ReorgSeen'
  BY <1>2 DEF ReorgSeen, Watched
<1>12. QED  BY <1>3, <1>4, <1>5, <1>8, <1>9, <1>10, <1>11 DEF FundInv

\* What has left the chain is found in what was taken off it.
LEMMA ObserveStep ==
    ASSUME FundInv, Observe PROVE FundInv'
<1> DEFINE id == Id[journal.tx]
<1>1. /\ Watched /\ UNCHANGED <<node, wallet, journal, recorded, overlay, pc, local, failures, history>>
  BY DEF Observe
<1>2. PICK s \in Status(id) : snap' = s.state
  BY DEF Observe
<1>3. id \in IdsOf(Mined \cup gone)
  BY <1>1 DEF FundInv, Witnessed, Chained
<1> HIDE DEF id
<1>4. CASE \E t \in Mined : Id[t] = id
  <2>1. s.state = "CONFIRMED"
    BY <1>4 DEF Status
  <2>2. QED  BY <1>1, <1>2, <2>1, WatcherMoves DEF FundInv, AgentTyped, ReorgSeen, Words, id
<1>5. CASE ~\E t \in Mined : Id[t] = id
  <2>1. s.state \in {"MEMPOOL", "AWAY"}
    BY <1>5 DEF Status
  <2>2. id \in IdsOf(gone)
    BY <1>3, <1>5 DEF IdsOf
  <2>3. QED  BY <1>1, <1>2, <2>1, <2>2, WatcherMoves DEF FundInv, AgentTyped, ReorgSeen, Words, id
<1>6. QED  BY <1>4, <1>5

LEMMA NoteStep ==
    ASSUME FundInv, Note PROVE FundInv'
<1>1. /\ snap # "none" /\ snap' = "none"
      /\ overlay' = IF overlay = "none" /\ snap = "CONFIRMED" THEN "none" ELSE snap
      /\ UNCHANGED <<node, wallet, journal, recorded, pc, local, failures, history>>
  BY DEF Note
<1>2. snap \in Words /\ overlay \in Words
  BY DEF FundInv, AgentTyped
<1>3. overlay' \in Words /\ snap' \in Words
  BY <1>1, <1>2 DEF Words
<1>4. overlay' # "none" => Watched /\ Id[journal.tx] \in IdsOf(gone)
  BY <1>1, <1>2 DEF FundInv, ReorgSeen, Words
<1>5. QED  BY <1>1, <1>3, <1>4, WatcherMoves

\* Threads stop, and what they asked for goes on without them or not at all.
LEMMA CallersGone ==
    ASSUME FundInv,
           UNCHANGED <<ledger, marker, poolVars, ingress, sent, budget>>,
           UNCHANGED <<op, releases, journal, recorded, overlay, history>>,
           UNCHANGED hold \/ (hold.by \in Callers /\ hold' = [hold EXCEPT !.by = "lost"]),
           pending' \subseteq Requests, pending' # {} => pending # {},
           answer' \in [Threads -> {"none", "ok", "error"}],
           pc' \in [Threads -> Steps], local' \in [Threads -> Locals],
           \A u \in Threads :
               \/ pc'[u] = pc[u] /\ local'[u] = local[u]
               \/ pc'[u] = "idle" /\ local'[u] = Unseen,
           snap' \in {snap, "none"}, failures' \in Nat
    PROVE  FundInv'
<1>1. hold \in Held /\ snap \in Words
  BY DEF FundInv, NodeTyped, AgentTyped
<1>2. "lost" \in Callers /\ "lost" # "queue" /\ \A x \in Callers : x # "queue"
  BY NotCallers DEF Callers
<1>3. /\ hold' \in Held /\ hold'.tx = hold.tx /\ hold'.at = hold.at
      /\ (hold'.by \in Callers => hold.by \in Callers)
      /\ (hold'.by = "queue" <=> hold.by = "queue")
  <2>1. CASE UNCHANGED hold
    BY <1>1, <2>1
  <2>2. CASE hold.by \in Callers /\ hold' = [hold EXCEPT !.by = "lost"]
    BY <1>1, <1>2, <2>2 DEF Held
  <2>3. QED  BY <2>1, <2>2
<1>4. UNCHANGED hold \/ (hold.by # "queue" /\ hold'.by # "queue")
  BY <1>2, <1>3
<1>5. UNCHANGED <<chain, gone, pool>>
  BY DEF ledger, poolVars
<1>6. PoolInv'
  BY <1>4, PoolStays DEF FundInv
<1>7. NodeTyped' /\ WalletTyped' /\ AgentTyped'
  <2>1. snap' \in Words
    BY <1>1 DEF Words
  <2>2. QED  BY <1>3, <2>1 DEF FundInv, NodeTyped, WalletTyped, AgentTyped
<1>8. Unseen.tx = NoTx /\ Unseen.seen = {}
  BY DEF Unseen
<1>9. OneTx'
  <2>1. \A u \in Threads : local'[u].tx \in {NoTx, op.tx}
    BY <1>8 DEF FundInv, OneTx
  <2>2. QED  BY <2>1 DEF FundInv, OneTx, Past
<1>10. Barriered'
  BY <1>3 DEF FundInv, Barriered, Past
<1>11. Gated'
  <2>1. ReservedForPrepared'
    BY <1>5 DEF FundInv, Gated, ReservedForPrepared
  <2>2. QED  BY <1>3, <2>1 DEF FundInv, Gated, Gate
<1>12. Carries
  BY DEF Carries, Past, Watched, FundInv, AgentTyped, Journals
<1>13. Spreads
  BY <1>4, <1>5, CalmSpreads
<1>14. OutSound'
  BY <1>12, <1>13, OutStays DEF FundInv
<1>15. /\ \A n : Chained(n)' <=> Chained(n)
       /\ been' = been /\ torn' = torn /\ Deepened'
  BY <1>5, DeepenedSame DEF Chained, Mined, IdsOf, ledger, history, FundInv
<1>16. Witnessed'
  <2>1. ASSUME NEW u \in Threads PROVE Sees(pc[u], local[u])'
    <3>1. CASE pc'[u] = pc[u] /\ local'[u] = local[u]
      BY <1>5, <1>15, <3>1 DEF FundInv, Witnessed, Sees, Standing
    <3>2. CASE pc'[u] = "idle" /\ local'[u] = Unseen
      BY <1>8, <3>2 DEF Sees
    <3>3. QED  BY <3>1, <3>2
  <2>2. \A u \in Threads : pc'[u] \in {"record", "close"} =>
           Watched /\ local'[u].conf <= journal.conf
    BY DEF FundInv, Witnessed
  <2>3. QED  BY <1>15, <2>1, <2>2 DEF FundInv, Witnessed, Watched, BeenAt, Past
<1>17. ReorgSeen'
  BY <1>5 DEF FundInv, ReorgSeen, Watched
<1>18. QED  BY <1>6, <1>7, <1>9, <1>10, <1>11, <1>14, <1>15, <1>16, <1>17 DEF FundInv

LEMMA AbandonedIsRequest ==
    ASSUME NEW S \in SUBSET Threads, NEW r \in Requests PROVE Abandoned(r, S) \in Requests
<1>1. "lost" \in Callers
  BY DEF Callers
<1>2. [r EXCEPT !.by = "lost"] \in Requests
  BY <1>1 DEF Requests
<1>3. QED  BY <1>2 DEF Abandoned

LEMMA GiveUpStep ==
    ASSUME FundInv, NEW t \in Threads, GiveUp(t) PROVE FundInv'
<1>1. /\ UNCHANGED <<ledger, marker, poolVars, ingress, sent, budget>>
      /\ UNCHANGED <<op, releases, journal, recorded, overlay, snap, history>>
      /\ failures' = failures + 1 /\ hold' = Abandoned(hold, {t})
      /\ answer' = [answer EXCEPT ![t] = "none"]
      /\ pc' = [pc EXCEPT ![t] = "idle"] /\ local' = [local EXCEPT ![t] = Unseen]
      /\ \/ pending' = {r \in pending : r.by # t}
         \/ pending' = {Abandoned(r, {t}) : r \in pending}
  BY DEF GiveUp, Leave, Goto, Drop
<1>2. /\ pc \in [Threads -> Steps] /\ local \in [Threads -> Locals] /\ failures \in Nat
      /\ answer \in [Threads -> {"none", "ok", "error"}] /\ pending \subseteq Requests
  BY DEF FundInv, AgentTyped, WalletTyped
<1>3. pc' \in [Threads -> Steps] /\ local' \in [Threads -> Locals]
  <2>1. "idle" \in Steps
    BY DEF Steps
  <2>2. QED  BY <1>1, <1>2, <2>1, UnseenIsLocal
<1>4. answer' \in [Threads -> {"none", "ok", "error"}] /\ failures' \in Nat
  BY <1>1, <1>2
<1>5. pending' \subseteq Requests /\ (pending' # {} => pending # {})
  BY <1>1, <1>2, AbandonedIsRequest
<1>6. UNCHANGED hold \/ (hold.by \in Callers /\ hold' = [hold EXCEPT !.by = "lost"])
  BY <1>1, NotCallers DEF Abandoned
<1>7. \A u \in Threads :
         \/ pc'[u] = pc[u] /\ local'[u] = local[u]
         \/ pc'[u] = "idle" /\ local'[u] = Unseen
  BY <1>1, <1>2
<1>8. QED  BY <1>1, <1>3, <1>4, <1>5, <1>6, <1>7, CallersGone

LEMMA CrashStep ==
    ASSUME FundInv, CrashAgent PROVE FundInv'
<1>1. /\ UNCHANGED <<ledger, marker, poolVars, ingress, sent, budget>>
      /\ UNCHANGED <<op, releases, journal, recorded, overlay, history>>
      /\ failures' = failures + 1 /\ hold' = Abandoned(hold, Threads) /\ snap' = "none"
      /\ answer' = [t \in Threads |-> "none"]
      /\ pc' = [t \in Threads |-> "idle"] /\ local' = [t \in Threads |-> Unseen]
      /\ pending' = {Abandoned(r, Threads) : r \in pending}
  BY DEF CrashAgent
<1>2. failures \in Nat /\ pending \subseteq Requests /\ "idle" \in Steps
  BY DEF FundInv, AgentTyped, WalletTyped, Steps
<1>3. pc' \in [Threads -> Steps] /\ local' \in [Threads -> Locals]
  BY <1>1, <1>2, UnseenIsLocal
<1>4. answer' \in [Threads -> {"none", "ok", "error"}] /\ failures' \in Nat
  BY <1>1, <1>2
<1>5. pending' \subseteq Requests /\ (pending' # {} => pending # {})
  BY <1>1, <1>2, AbandonedIsRequest
<1>6. UNCHANGED hold \/ (hold.by \in Callers /\ hold' = [hold EXCEPT !.by = "lost"])
  BY <1>1, NotCallers DEF Abandoned
<1>7. \A u \in Threads : pc'[u] = "idle" /\ local'[u] = Unseen
  BY <1>1
<1>8. QED  BY <1>1, <1>3, <1>4, <1>5, <1>6, <1>7, CallersGone

----------------------------------------------------------------------------
(* Every step *)

LEMMA ThreadStep ==
    ASSUME FundInv, NEW t \in Threads, Thread(t) PROVE FundInv'
BY StepBeginStep, CreateStep, AskStep, BindStep, LookSteps, BarrierStep, SendStep,
   AnsweredStep, NameStep, ScanPoolStep, ReadTipStep, ScanBlockStep, ApplyStep, ConfirmStep, RecordStep, CloseStep DEF Thread

LEMMA StutterStep ==
    ASSUME FundInv, UNCHANGED vars PROVE FundInv'
<1>1. UNCHANGED <<node, wallet, journal, recorded, overlay, pc, local, snap, failures, history>>
  BY DEF vars, agent
<1>2. overlay \in Words /\ snap \in Words
  BY DEF FundInv, AgentTyped
<1>3. QED  BY <1>1, <1>2, WatcherMoves DEF FundInv, ReorgSeen

LEMMA InitFundInv == Init => FundInv
<1> SUFFICES ASSUME Init PROVE FundInv
  OBVIOUS
<1>1. PoolInv
  BY InitPoolInv DEF Init
<1>2. /\ chain = <<>> /\ gone = {} /\ marker = [c \in Coins |-> NoTx] /\ pool = {}
      /\ queue = <<>> /\ hold = Free /\ sent = {} /\ budget = [reorgs |-> 0, restarts |-> 0]
      /\ op = NoOp /\ pending = {} /\ releases = 0 /\ answer = [t \in Threads |-> "none"]
      /\ journal = Empty /\ recorded = NoTx /\ overlay = "none"
      /\ pc = [t \in Threads |-> "idle"] /\ local = [t \in Threads |-> Unseen]
      /\ snap = "none" /\ failures = 0 /\ been = {} /\ torn = FALSE /\ connecting = FALSE
  BY DEF Init, MempoolInit, FundingInit
<1>3. /\ Free.by = "nobody" /\ Free.at = "free" /\ Free \in Held
      /\ NoOp \in Ops /\ NoOp.tx = NoTx
      /\ Empty \in Journals /\ Empty.state = "none" /\ Empty.tx = NoTx
      /\ Unseen.tx = NoTx /\ Unseen.seen = {} /\ "idle" \in Steps /\ "none" \in Words
  BY DEF Free, Held, NoOp, Ops, Empty, Journals, Unseen, Steps, Words
<1>4. NodeTyped /\ WalletTyped /\ AgentTyped
  BY <1>2, <1>3, UnseenIsLocal DEF NodeTyped, WalletTyped, AgentTyped
<1>5. OneTx /\ ~Past
  BY <1>2, <1>3 DEF OneTx, Past
<1>6. Barriered
  BY <1>2, <1>3, NotCallers DEF Barriered
<1>7. OutSound
  <2>1. Mined = {} /\ DOMAIN queue = {}
    BY <1>2 DEF Mined
  <2>2. QED  BY <1>2, <1>3, <2>1, OutHas DEF OutSound
<1>8. Gated
  BY <1>2, <1>3 DEF Gated, ReservedForPrepared
<1>9. Witnessed /\ ReorgSeen /\ Deepened
  <2>1. \A t \in Threads : Sees(pc[t], local[t]) /\ pc[t] \notin {"record", "close"}
    BY <1>2, <1>3 DEF Sees
  <2>2. journal.conf = 0
    BY <1>2 DEF Empty
  <2>3. Witnessed /\ ReorgSeen
    BY <1>2, <1>3, <2>1, <2>2 DEF Witnessed, ReorgSeen, Watched
  <2>4. DOMAIN chain = {}
    BY <1>2
  <2>5. Deepened
    BY <1>2, <2>4 DEF Deepened
  <2>6. QED  BY <2>3, <2>5
<1>10. QED  BY <1>1, <1>4, <1>5, <1>6, <1>7, <1>8, <1>9 DEF FundInv

LEMMA FundInvKept == FundInv /\ [Next]_vars => FundInv'
<1> SUFFICES ASSUME FundInv, [Next]_vars PROVE FundInv'
  OBVIOUS
<1>1. CASE NodeNext /\ Witness /\ UNCHANGED agent
  <2>1. CASE MempoolNext /\ UNCHANGED wallet
    BY <1>1, <2>1, NodeAlone
  <2>2. CASE Release
    BY <1>1, <2>2, ReleaseStep
  <2>3. CASE \E r \in pending : BroadcastBegin(r) \/ BroadcastBusy(r)
    BY <1>1, <2>3, BroadcastSteps
  <2>4. CASE BroadcastCommit \/ BroadcastPersist
    BY <1>1, <2>4, CommitStep, PersistStep
  <2>5. QED  BY <1>1, <2>1, <2>2, <2>3, <2>4 DEF NodeNext
<1>2. CASE RestartNode
  BY <1>2, RestartStep
<1>3. CASE \E t \in Threads : Thread(t) \/ GiveUp(t)
  BY <1>3, ThreadStep, GiveUpStep
<1>4. CASE Observe \/ Note \/ CrashAgent
  BY <1>4, ObserveStep, NoteStep, CrashStep
<1>5. CASE UNCHANGED vars
  BY <1>5, StutterStep
<1>6. QED  BY <1>1, <1>2, <1>3, <1>4, <1>5 DEF Next

LEMMA AlwaysFundInv == Spec => []FundInv
BY InitFundInv, FundInvKept, PTL DEF Spec

----------------------------------------------------------------------------

\* Type correctness, for any number of threads, coins and transactions.
THEOREM FundingTyped == Spec => []TypeOK
<1>1. FundInv => TypeOK
  <2> SUFFICES ASSUME FundInv PROVE TypeOK
    OBVIOUS
  <2>1. /\ chain \in Seq(Blocks) /\ connecting \in BOOLEAN /\ gone \subseteq Txs
        /\ pool \subseteq Txs /\ queue \in Seq([tx : Txs, tries : Nat])
    BY DEF FundInv, PoolInv, Typed, Blocks, Entries
  <2>2. spent \subseteq Coins
    BY <2>1, InputsOfHas, TxAssumption DEF FundInv, PoolInv, Indexed
  <2>3. queued \subseteq Ids
    <3>1. \A i \in DOMAIN queue : queue[i].tx \in Txs
      <4>1. \A i \in DOMAIN queue : queue[i] \in Entries
        BY DEF FundInv, PoolInv, Typed
      <4>2. QED  BY <4>1 DEF Entries
    <3>2. hold.by = "queue" => hold.tx \in Txs
      BY DEF FundInv, PoolInv, Typed
    <3>3. QED  BY <3>1, <3>2 DEF FundInv, PoolInv, QueueAccounted, Ids
  <2>4. QED  BY <2>1, <2>2, <2>3 DEF TypeOK, FundInv, NodeTyped, WalletTyped, AgentTyped,
               Held, Ops, Requests, Journals, Locals, Words, Deepened
<1>2. QED  BY <1>1, AlwaysFundInv, PTL

\* A reserved coin is spent in the pool by the signed bytes or not at all, whatever
\* strangers send, evict or mine (the gate of addTransaction, prepareHtlcFunding).
THEOREM ReservationsHold == Spec => []ReservedForPrepared
<1>1. FundInv => ReservedForPrepared
  BY DEF FundInv, Gated
<1>2. QED  BY <1>1, AlwaysFundInv, PTL

\* At most one funding of the wallet is ever seen by anybody: the one that is in the
\* journal, and not before its barrier (_to_broadcasting, prepareHtlcFunding).
THEOREM OneFundingOnly == Spec => []OneFunding
<1>1. FundInv => OneFunding
  <2> SUFFICES ASSUME FundInv, NEW f \in Funding, Id[f] \in IdsOf(Abroad)
               PROVE  journal.tx = f /\ op.tx = f /\ journal.state \notin {"none", "PREPARED"}
    BY DEF OneFunding
  <2>1. PICK x \in Abroad : Id[x] = Id[f]
    BY IdsOfHas
  <2>2. Past /\ Id[x] = Id[op.tx]
    BY <2>1 DEF FundInv, OutSound, Out, Ours
  <2>3. journal.tx = op.tx /\ op.tx # NoTx
    BY <2>2 DEF FundInv, OneTx
  <2>4. op.tx \in Funding
    BY <2>3 DEF FundInv, OneTx, NoOp
  <2>5. QED  BY <2>1, <2>2, <2>3, <2>4, FundingAssumption DEF Past
<1>2. QED  BY <1>1, AlwaysFundInv, PTL

\* What a swap's record has as evidence was that deep in the chain, for any number of
\* threads and reorganisations, unless a scan's block was replaced twice while it went on
\* (scan_tru_funding_candidates, _record_confirmed).
THEOREM EvidenceIsTrue == Spec => []EvidenceTrue
<1>1. FundInv => EvidenceTrue
  <2> SUFFICES ASSUME FundInv, recorded # NoTx
               PROVE  /\ journal.tx # NoTx /\ recorded = Id[journal.tx]
                      /\ recorded \in IdsOf(Mined \cup gone)
                      /\ journal.conf >= MinConf
                      /\ torn \/ [id |-> recorded, conf |-> journal.conf] \in been
    BY DEF EvidenceTrue
  <2>1. Watched /\ recorded = Id[journal.tx] /\ journal.conf >= MinConf
    BY DEF FundInv, Witnessed
  <2>2. recorded \in IdsOf(Mined \cup gone)
    BY <2>1 DEF FundInv, Witnessed, Chained
  <2>3. journal.tx # NoTx
    BY <2>1 DEF FundInv, OneTx, Watched, Past
  <2>4. journal.conf >= 1
    BY <2>1, AgentAssumption DEF FundInv, AgentTyped, Journals
  <2>5. torn \/ [id |-> recorded, conf |-> journal.conf] \in been
    BY <2>1, <2>4 DEF FundInv, Witnessed, BeenAt
  <2>6. QED  BY <2>1, <2>2, <2>3, <2>5
<1>2. QED  BY <1>1, AlwaysFundInv, PTL

\* The overlay that holds a swap for good is only written after a reorganisation
\* (getKnownTransactionStatus, record_observation).
THEOREM ReorgsAreReal == Spec => []NoFalseReorg
<1>1. FundInv => NoFalseReorg
  BY DEF FundInv, ReorgSeen, NoFalseReorg
<1>2. QED  BY <1>1, AlwaysFundInv, PTL
=============================================================================
