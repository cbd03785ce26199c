--------------------------- MODULE Mempool_proofs ---------------------------
(***************************************************************************)
(* Facts about the pool and its ingress queue for every set of             *)
(* transactions and every size.  The index of spent coins and the bounds   *)
(* go through insertions and evictions together; that entries can be mined *)
(* needs to be said of each coin, and of the entries that the last block   *)
(* has made impossible and the cleaning has not reached; and a txid leaves *)
(* the set of queued ones with the only entry that has it.                 *)
(***************************************************************************)
EXTENDS Mempool, FiniteSetTheorems, TLAPS

Entries == [tx : Txs, tries : Nat]

Typed ==
    /\ chain \in Seq(SUBSET Txs) /\ connecting \in BOOLEAN /\ gone \subseteq Txs
    /\ pool \subseteq Txs /\ IsFiniteSet(pool)
    /\ queue \in Seq(Entries) /\ IsFiniteSet(queued)
    /\ hold.by = "queue" => hold.tx \in Txs

Indexed ==
    /\ spent = InputsOf(pool) /\ Apart(pool)
    /\ \A t, u \in pool : Id[t] = Id[u] => t = u
    /\ Cardinality(pool) <= MaxPool

\* No block spends c, and who made it is in the chain or was taken off it.
Good(c) ==
    /\ c \notin InputsOf(Mined)
    /\ There(c) \/ \E u \in gone \ Mined : c \in Makes[u]

Minable == \A t \in pool : (\A c \in Inputs[t] : Good(c)) \/ (connecting /\ t \in Cleaned)

\* Every txid in the ingress is there once.
Once ==
    /\ \A i, j \in DOMAIN queue : Id[queue[i].tx] = Id[queue[j].tx] => i = j
    /\ hold.by = "queue" => \A i \in DOMAIN queue : Id[queue[i].tx] # Id[hold.tx]

PoolInv == Typed /\ Indexed /\ Minable /\ QueueAccounted /\ Once

----------------------------------------------------------------------------
(* Sets of transactions *)

LEMMA InputsOfHas == \A S, c : c \in InputsOf(S) <=> \E t \in S : c \in Inputs[t]
BY DEF InputsOf

LEMMA IdsOfHas == \A S, n : n \in IdsOf(S) <=> \E t \in S : n = Id[t]
BY DEF IdsOf

LEMMA MinedHas == \A t : t \in Mined <=> \E i \in DOMAIN chain : t \in chain[i]
BY DEF Mined

LEMMA MinedHasNext == \A t : t \in Mined' <=> \E i \in DOMAIN chain' : t \in chain'[i]
BY DEF Mined

\* A block more, or one less.
LEMMA Connecting ==
    ASSUME chain \in Seq(SUBSET Txs), NEW B \in SUBSET Txs, chain' = Append(chain, B)
    PROVE  /\ chain' \in Seq(SUBSET Txs) /\ chain'[Len(chain')] = B
           /\ Mined' = Mined \cup B
<1>1. /\ chain' \in Seq(SUBSET Txs) /\ Len(chain') = Len(chain) + 1
      /\ DOMAIN chain = 1..Len(chain) /\ DOMAIN chain' = 1..Len(chain')
      /\ \A i \in 1..Len(chain) : chain'[i] = chain[i]
      /\ chain'[Len(chain) + 1] = B /\ Len(chain) \in Nat
  OBVIOUS
<1>2. \A t : t \in Mined' <=> t \in Mined \/ t \in B
  <2> SUFFICES ASSUME NEW t PROVE t \in Mined' <=> t \in Mined \/ t \in B
    OBVIOUS
  <2>1. ASSUME t \in Mined' PROVE t \in Mined \/ t \in B
    <3>1. PICK i \in DOMAIN chain' : t \in chain'[i]
      BY <2>1, MinedHasNext
    <3>2. i \in 1..Len(chain) \/ i = Len(chain) + 1
      BY <1>1
    <3>3. QED  BY <1>1, <3>1, <3>2, MinedHas
  <2>2. ASSUME t \in Mined PROVE t \in Mined'
    <3>1. PICK i \in DOMAIN chain : t \in chain[i]
      BY <2>2, MinedHas
    <3>2. i \in DOMAIN chain' /\ chain'[i] = chain[i]
      BY <1>1
    <3>3. QED  BY <3>1, <3>2, MinedHasNext
  <2>3. ASSUME t \in B PROVE t \in Mined'
    <3>1. Len(chain) + 1 \in DOMAIN chain'
      BY <1>1
    <3>2. QED  BY <1>1, <2>3, <3>1, MinedHasNext
  <2>4. QED  BY <2>1, <2>2, <2>3
<1>3. QED  BY <1>1, <1>2

LEMMA Disconnecting ==
    ASSUME chain \in Seq(SUBSET Txs), chain # <<>>,
           chain' = SubSeq(chain, 1, Len(chain) - 1)
    PROVE  /\ chain' \in Seq(SUBSET Txs) /\ chain[Len(chain)] \in SUBSET Txs
           /\ Mined = Mined' \cup chain[Len(chain)]
<1>1. /\ chain' \in Seq(SUBSET Txs) /\ Len(chain') = Len(chain) - 1
      /\ DOMAIN chain = 1..Len(chain) /\ DOMAIN chain' = 1..Len(chain')
      /\ \A i \in 1..Len(chain') : chain'[i] = chain[i]
      /\ Len(chain) \in Nat \ {0}
  <2>1. Len(chain) \in Nat \ {0} /\ DOMAIN chain = 1..Len(chain)
    OBVIOUS
  <2>2. \A i \in 1..(Len(chain) - 1) : chain[i] \in SUBSET Txs
    BY <2>1
  <2>3. /\ Len(chain') = Len(chain) - 1
        /\ \A i \in 1..(Len(chain) - 1) : chain'[i] = chain[i]
    BY <2>1
  <2>4. chain' \in Seq(SUBSET Txs)
    BY <2>1
  <2>5. QED  BY <2>1, <2>3, <2>4
<1>2. chain[Len(chain)] \in SUBSET Txs
  BY <1>1
<1>3. \A t : t \in Mined <=> t \in Mined' \/ t \in chain[Len(chain)]
  <2> SUFFICES ASSUME NEW t PROVE t \in Mined <=> t \in Mined' \/ t \in chain[Len(chain)]
    OBVIOUS
  <2>1. ASSUME t \in Mined PROVE t \in Mined' \/ t \in chain[Len(chain)]
    <3>1. PICK i \in DOMAIN chain : t \in chain[i]
      BY <2>1, MinedHas
    <3>2. i \in 1..Len(chain') \/ i = Len(chain)
      BY <1>1
    <3>3. QED  BY <1>1, <3>1, <3>2, MinedHasNext
  <2>2. ASSUME t \in Mined' PROVE t \in Mined
    <3>1. PICK i \in DOMAIN chain' : t \in chain'[i]
      BY <2>2, MinedHasNext
    <3>2. i \in DOMAIN chain /\ chain'[i] = chain[i]
      BY <1>1
    <3>3. QED  BY <3>1, <3>2, MinedHas
  <2>3. ASSUME t \in chain[Len(chain)] PROVE t \in Mined
    <3>1. Len(chain) \in DOMAIN chain
      BY <1>1
    <3>2. QED  BY <2>3, <3>1, MinedHas
  <2>4. QED  BY <2>1, <2>2, <2>3
<1>4. QED  BY <1>1, <1>2, <1>3

----------------------------------------------------------------------------
(* The pool *)

\* What is said of the pool, in one name.
PoolSound == Indexed /\ Minable

LEMMA InsertKeeps ==
    ASSUME Typed, PoolSound, UNCHANGED ledger,
           NEW t \in Txs, Committable(t), NEW out \in Evictions(t), Insert(t, out)
    PROVE  PoolSound' /\ pool' \subseteq Txs /\ IsFiniteSet(pool')
<1>1. /\ pool' = (pool \ out) \cup {t}
      /\ spent' = (spent \ InputsOf(out)) \cup Inputs[t]
      /\ Id[t] \notin IdsOf(pool) /\ Unspent(t) /\ Inputs[t] \cap spent = {}
  BY DEF Insert, Committable, Known, FirstSeen
<1>2. \/ out = {} /\ Cardinality(pool) < MaxPool
      \/ \E u \in pool : out = {u}
  BY DEF Evictions, Victims
<1>3. pool' \subseteq Txs /\ out \subseteq pool
  BY <1>1, <1>2 DEF Typed
<1>4. IsFiniteSet(pool') /\ Cardinality(pool') <= MaxPool
  <2>1. /\ IsFiniteSet(pool \ out) /\ Cardinality(pool \ out) \in Nat
        /\ Cardinality(pool \ out) < MaxPool
    <3>1. CASE out = {} /\ Cardinality(pool) < MaxPool
      <4>1. pool \ out = pool
        BY <3>1
      <4>2. QED  BY <3>1, <4>1, FS_CardinalityType DEF Typed
    <3>2. CASE \E u \in pool : out = {u}
      <4>1. PICK u \in pool : out = {u}
        BY <3>2
      <4>2. /\ IsFiniteSet(pool \ {u})
            /\ Cardinality(pool \ {u}) = Cardinality(pool) - 1
        BY FS_RemoveElement DEF Typed
      <4>3. Cardinality(pool) \in Nat /\ Cardinality(pool \ {u}) \in Nat
        BY <4>2, FS_CardinalityType DEF Typed
      <4>4. QED  BY <4>1, <4>2, <4>3, SizeAssumption DEF PoolSound, Indexed
    <3>3. QED  BY <1>2, <3>1, <3>2
  <2>2. /\ IsFiniteSet(pool')
        /\ \/ Cardinality(pool') = Cardinality(pool \ out)
           \/ Cardinality(pool') = Cardinality(pool \ out) + 1
    BY <1>1, <2>1, FS_AddElement
  <2>3. QED  BY <2>1, <2>2, SizeAssumption
<1>5. spent' = InputsOf(pool')
  <2>1. \A c : c \in spent' <=> c \in InputsOf(pool')
    <3> SUFFICES ASSUME NEW c PROVE c \in spent' <=> c \in InputsOf(pool')
      OBVIOUS
    <3>1. c \in spent' <=> c \in Inputs[t] \/ (c \in InputsOf(pool) /\ c \notin InputsOf(out))
      BY <1>1 DEF PoolSound, Indexed
    <3>2. c \in InputsOf(pool') <=> c \in Inputs[t] \/ c \in InputsOf(pool \ out)
      BY <1>1, InputsOfHas
    <3>3. c \in InputsOf(pool \ out) <=> c \in InputsOf(pool) /\ c \notin InputsOf(out)
      BY <1>3, InputsOfHas DEF PoolSound, Indexed, Apart
    <3>4. QED  BY <3>1, <3>2, <3>3
  <2>2. QED  BY <2>1
<1>6. \A u \in pool : Inputs[t] \cap Inputs[u] = {} /\ Id[u] # Id[t]
  BY <1>1, InputsOfHas, IdsOfHas DEF PoolSound, Indexed
<1>7. Apart(pool')
  BY <1>1, <1>6 DEF PoolSound, Indexed, Apart
<1>8. \A u, v \in pool' : Id[u] = Id[v] => u = v
  BY <1>1, <1>6 DEF PoolSound, Indexed
<1>9. Minable'
  <2>1. Mined' = Mined /\ connecting' = connecting /\ gone' = gone /\ chain' = chain
    BY DEF ledger, Mined
  <2>2. \A c : Good(c)' <=> Good(c)
    BY <2>1 DEF Good, There
  <2>3. \A c \in Inputs[t] : Good(c)
    BY <1>1 DEF Unspent, Good
  <2>4. \A u \in pool : u \in pool' /\ u \in Cleaned => u \in Cleaned'
    BY <2>1 DEF Cleaned
  <2>5. QED  BY <1>1, <2>1, <2>2, <2>3, <2>4 DEF PoolSound, Minable
<1>10. QED  BY <1>3, <1>4, <1>5, <1>7, <1>8, <1>9 DEF PoolSound, Indexed

\* Entries leave the pool, and with them all that the block has made impossible.
LEMMA CleanKeeps ==
    ASSUME Typed, PoolSound, CleanPool
    PROVE  PoolSound' /\ pool' \subseteq Txs /\ IsFiniteSet(pool')
<1>1. /\ pool' = pool \ Cleaned /\ spent' = spent \ InputsOf(Cleaned)
      /\ UNCHANGED <<chain, gone>> /\ connecting
  BY DEF CleanPool, Erase
<1>2. Cleaned \subseteq pool
  BY DEF Cleaned
<1>3. /\ pool' \subseteq pool /\ pool' \subseteq Txs /\ IsFiniteSet(pool')
      /\ Cardinality(pool') <= MaxPool
  <2>1. pool' \subseteq pool /\ pool' \subseteq Txs
    BY <1>1 DEF Typed
  <2>2. IsFiniteSet(pool') /\ Cardinality(pool') <= Cardinality(pool)
    BY <2>1, FS_Subset DEF Typed
  <2>3. Cardinality(pool) \in Nat /\ Cardinality(pool') \in Nat
    BY <2>2, FS_CardinalityType DEF Typed
  <2>4. QED  BY <2>1, <2>2, <2>3, SizeAssumption DEF PoolSound, Indexed
<1>4. spent' = InputsOf(pool')
  <2>1. \A c : c \in spent' <=> c \in InputsOf(pool) /\ c \notin InputsOf(Cleaned)
    BY <1>1 DEF PoolSound, Indexed
  <2>2. \A c : c \in InputsOf(pool \ Cleaned) <=>
                 c \in InputsOf(pool) /\ c \notin InputsOf(Cleaned)
    BY <1>2, InputsOfHas DEF PoolSound, Indexed, Apart
  <2>3. QED  BY <1>1, <2>1, <2>2
<1>5. Apart(pool') /\ \A u, v \in pool' : Id[u] = Id[v] => u = v
  BY <1>3 DEF PoolSound, Indexed, Apart
<1>6. Minable'
  <2>1. \A c : Good(c)' <=> Good(c)
    BY <1>1 DEF Good, There, Mined
  <2>2. QED  BY <1>1, <2>1 DEF PoolSound, Minable
<1>7. QED  BY <1>3, <1>4, <1>5, <1>6 DEF PoolSound, Indexed

\* A block comes: what its transactions spend is spent, and what it takes from the pool
\* or makes impossible there waits for the cleaning.
LEMMA ConnectKeeps ==
    ASSUME Typed, PoolSound, NEW B \in SUBSET Txs, Connect(B)
    PROVE  PoolSound' /\ chain' \in Seq(SUBSET Txs) /\ Mined' = Mined \cup B
<1>1. /\ chain' = Append(chain, B) /\ connecting' = TRUE /\ ~connecting
      /\ UNCHANGED <<gone, pool, spent>>
      /\ \A t \in B : Unspent(t)
  BY DEF Connect, poolVars
<1>2. chain' \in Seq(SUBSET Txs) /\ chain'[Len(chain')] = B /\ Mined' = Mined \cup B
  BY <1>1, Connecting DEF Typed
<1>3. Indexed'
  BY <1>1 DEF PoolSound, Indexed, InputsOf, Apart
<1>4. \A t \in pool : t \in Cleaned' <=> Id[t] \in IdsOf(B) \/ Inputs[t] \cap InputsOf(B) # {}
  BY <1>1, <1>2 DEF Cleaned, IdsOf, InputsOf
<1>5. \A c : Good(c) /\ c \notin InputsOf(B) => Good(c)'
  <2> SUFFICES ASSUME NEW c, Good(c), c \notin InputsOf(B) PROVE Good(c)'
    OBVIOUS
  <2>1. c \notin InputsOf(Mined')
    BY <1>2, InputsOfHas DEF Good
  <2>2. There(c) \/ (\E u \in gone \ Mined : c \in Makes[u])
    BY DEF Good
  <2>3. There(c)' \/ (\E u \in gone \ Mined' : c \in Makes[u])
    BY <1>2, <2>2 DEF There
  <2>4. QED  BY <1>1, <2>1, <2>3 DEF Good, InputsOf
<1>6. Minable'
  <2> SUFFICES ASSUME NEW t \in pool, t \notin Cleaned' PROVE \A c \in Inputs[t] : Good(c)'
    BY <1>1 DEF Minable
  <2>1. \A c \in Inputs[t] : Good(c) /\ c \notin InputsOf(B)
    BY <1>1, <1>4 DEF PoolSound, Minable
  <2>2. QED  BY <1>5, <2>1
<1>7. QED  BY <1>2, <1>3, <1>6 DEF PoolSound

\* A block goes: what it made is now of a transaction that was taken off the chain.
LEMMA DisconnectKeeps ==
    ASSUME Typed, PoolSound, Disconnect
    PROVE  /\ PoolSound' /\ chain' \in Seq(SUBSET Txs) /\ gone' \subseteq Txs
           /\ Mined \cup gone \subseteq Mined' \cup gone' /\ Mined' \subseteq Mined
           /\ gone' \subseteq Mined \cup gone
<1>1. /\ ~connecting /\ chain # <<>> /\ chain' = SubSeq(chain, 1, Len(chain) - 1)
      /\ gone' = gone \cup chain[Len(chain)] /\ UNCHANGED <<connecting, pool, spent>>
  BY DEF Disconnect, poolVars
<1>2. /\ chain' \in Seq(SUBSET Txs) /\ chain[Len(chain)] \in SUBSET Txs
      /\ Mined = Mined' \cup chain[Len(chain)]
  BY <1>1, Disconnecting DEF Typed
<1>3. gone' \subseteq Txs
  BY <1>1, <1>2 DEF Typed
<1>4. Indexed'
  BY <1>1 DEF PoolSound, Indexed, InputsOf, Apart
<1>5. \A c : Good(c) => Good(c)'
  <2> SUFFICES ASSUME NEW c, Good(c) PROVE Good(c)'
    OBVIOUS
  <2>1. c \notin InputsOf(Mined')
    BY <1>2, InputsOfHas DEF Good
  <2>2. There(c)' \/ \E u \in gone' \ Mined' : c \in Makes[u]
    BY <1>1, <1>2 DEF Good, There
  <2>3. QED  BY <2>1, <2>2 DEF Good, InputsOf
<1>6. Minable'
  BY <1>1, <1>5 DEF PoolSound, Minable
<1>7. QED  BY <1>1, <1>2, <1>3, <1>4, <1>6 DEF PoolSound

LEMMA LoseKeeps ==
    ASSUME Typed, PoolSound, LoseNode
    PROVE  PoolSound' /\ pool' = {} /\ IsFiniteSet(pool')
<1>1. pool' = {} /\ spent' = {}
  BY DEF LoseNode
<1>2. IsFiniteSet({}) /\ Cardinality({}) = 0
  BY FS_EmptySet
<1>3. Indexed'
  BY <1>1, <1>2, SizeAssumption DEF Indexed, InputsOf, Apart
<1>4. QED  BY <1>1, <1>2, <1>3 DEF PoolSound, Minable

LEMMA StillSound ==
    ASSUME PoolSound, UNCHANGED <<ledger, poolVars>>
    PROVE  PoolSound'
<1>1. UNCHANGED <<chain, connecting, gone, pool, spent>>
  BY DEF ledger, poolVars
<1>2. Indexed'
  BY <1>1 DEF PoolSound, Indexed, InputsOf, Apart
<1>3. \A c : Good(c) => Good(c)'
  BY <1>1 DEF Good, There, Mined, InputsOf
<1>4. Cleaned' = Cleaned
  BY <1>1 DEF Cleaned, IdsOf, InputsOf
<1>5. QED  BY <1>1, <1>2, <1>3, <1>4 DEF PoolSound, Minable

\* The invariant says what the property says.
LEMMA SoundIsConsistent ==
    ASSUME Typed, PoolSound PROVE PoolConsistent
<1>1. ASSUME ~connecting, NEW t \in pool
      PROVE  Unspent(t) \/ \E u \in gone \ Mined : Inputs[t] \cap Makes[u] # {}
  BY <1>1 DEF PoolSound, Minable, Good, Unspent
<1>2. QED  BY <1>1 DEF PoolSound, Indexed, PoolConsistent

----------------------------------------------------------------------------
(* The ingress *)

QueueSound == QueueAccounted /\ Once

QueueIds == {Id[queue[i].tx] : i \in DOMAIN queue}

\* The head of the queue goes.
LEMMA HeadGoes ==
    ASSUME queue \in Seq(Entries), queue # <<>>
    PROVE  /\ Tail(queue) \in Seq(Entries) /\ Head(queue) \in Entries
           /\ Head(queue) = queue[1] /\ Len(queue) \in Nat \ {0}
           /\ Len(Tail(queue)) = Len(queue) - 1
           /\ DOMAIN queue = 1..Len(queue) /\ DOMAIN Tail(queue) = 1..(Len(queue) - 1)
           /\ \A i \in 1..(Len(queue) - 1) : Tail(queue)[i] = queue[i + 1]
OBVIOUS

LEMMA TailIds ==
    ASSUME queue \in Seq(Entries), queue # <<>>, Once, queue' = Tail(queue)
    PROVE  /\ QueueIds' = QueueIds \ {Id[Head(queue).tx]}
           /\ Id[Head(queue).tx] \in QueueIds
           /\ \A i, j \in DOMAIN queue' : Id[queue'[i].tx] = Id[queue'[j].tx] => i = j
           /\ \A i \in DOMAIN queue' : Id[queue'[i].tx] # Id[Head(queue).tx]
<1>1. /\ Head(queue) = queue[1] /\ Len(queue) \in Nat \ {0}
      /\ DOMAIN queue = 1..Len(queue) /\ DOMAIN queue' = 1..(Len(queue) - 1)
      /\ \A i \in 1..(Len(queue) - 1) : queue'[i] = queue[i + 1]
  BY HeadGoes
<1>2. \A i \in DOMAIN queue' : i + 1 \in DOMAIN queue /\ i + 1 # 1 /\ queue'[i] = queue[i + 1]
  BY <1>1
<1>3. \A i, j \in DOMAIN queue : Id[queue[i].tx] = Id[queue[j].tx] => i = j
  BY DEF Once
<1>4. \A i \in DOMAIN queue' : Id[queue'[i].tx] # Id[Head(queue).tx]
  BY <1>1, <1>2, <1>3
<1>5. \A i, j \in DOMAIN queue' : Id[queue'[i].tx] = Id[queue'[j].tx] => i = j
  <2> SUFFICES ASSUME NEW i \in DOMAIN queue', NEW j \in DOMAIN queue',
                      Id[queue'[i].tx] = Id[queue'[j].tx]
               PROVE  i = j
    OBVIOUS
  <2>1. i + 1 = j + 1
    BY <1>2, <1>3
  <2>2. QED  BY <1>1, <2>1
<1>6. \A i \in DOMAIN queue : i = 1 \/ (i - 1 \in DOMAIN queue' /\ queue[i] = queue'[i - 1])
  BY <1>1
<1>7. \A n : n \in QueueIds' <=> n \in QueueIds /\ n # Id[Head(queue).tx]
  <2>1. \A n : n \in QueueIds' <=> \E i \in DOMAIN queue' : n = Id[queue'[i].tx]
    BY DEF QueueIds
  <2>2. \A n : n \in QueueIds <=> \E i \in DOMAIN queue : n = Id[queue[i].tx]
    BY DEF QueueIds
  <2>3. \A n : n \in QueueIds' => n \in QueueIds /\ n # Id[Head(queue).tx]
    BY <1>2, <1>4, <2>1, <2>2
  <2>4. \A n : n \in QueueIds /\ n # Id[Head(queue).tx] => n \in QueueIds'
    <3> SUFFICES ASSUME NEW n \in QueueIds, n # Id[Head(queue).tx] PROVE n \in QueueIds'
      OBVIOUS
    <3>1. PICK i \in DOMAIN queue : n = Id[queue[i].tx]
      BY <2>2
    <3>2. i # 1
      BY <1>1, <3>1
    <3>3. i - 1 \in DOMAIN queue' /\ queue[i] = queue'[i - 1]
      BY <1>6, <3>2
    <3>4. QED  BY <2>1, <3>1, <3>3
  <2>5. QED  BY <2>3, <2>4
<1>8. Id[Head(queue).tx] \in QueueIds
  BY <1>1 DEF QueueIds
<1>9. QED  BY <1>4, <1>5, <1>7, <1>8

LEMMA AppendIds ==
    ASSUME NEW q \in Seq(Entries), NEW e \in Entries, queue' = Append(q, e),
           \A i, j \in DOMAIN q : Id[q[i].tx] = Id[q[j].tx] => i = j,
           \A i \in DOMAIN q : Id[q[i].tx] # Id[e.tx]
    PROVE  /\ queue' \in Seq(Entries) /\ Len(queue') = Len(q) + 1
           /\ QueueIds' = {Id[q[i].tx] : i \in DOMAIN q} \cup {Id[e.tx]}
           /\ \A i, j \in DOMAIN queue' : Id[queue'[i].tx] = Id[queue'[j].tx] => i = j
<1>1. /\ queue' \in Seq(Entries) /\ Len(queue') = Len(q) + 1 /\ Len(q) \in Nat
      /\ DOMAIN q = 1..Len(q) /\ DOMAIN queue' = 1..(Len(q) + 1)
      /\ \A i \in 1..Len(q) : queue'[i] = q[i]
      /\ queue'[Len(q) + 1] = e
  OBVIOUS
<1>2. \A i \in DOMAIN queue' : (i \in DOMAIN q /\ queue'[i] = q[i]) \/ (i = Len(q) + 1 /\ queue'[i] = e)
  BY <1>1
<1>3. \A i \in DOMAIN q : i \in DOMAIN queue' /\ queue'[i] = q[i]
  BY <1>1
<1>4. Len(q) + 1 \in DOMAIN queue'
  BY <1>1
<1>5. QueueIds' = {Id[q[i].tx] : i \in DOMAIN q} \cup {Id[e.tx]}
  BY <1>1, <1>2, <1>3, <1>4 DEF QueueIds
<1>6. \A i, j \in DOMAIN queue' : Id[queue'[i].tx] = Id[queue'[j].tx] => i = j
  BY <1>2
<1>7. QED  BY <1>1, <1>5, <1>6

\* A txid less, or one more.
LEMMA QueuedCounts ==
    ASSUME IsFiniteSet(queued), NEW n
    PROVE  /\ IsFiniteSet(queued \ {n}) /\ IsFiniteSet(queued \cup {n})
           /\ Cardinality(queued) \in Nat
           /\ n \in queued => Cardinality(queued \ {n}) = Cardinality(queued) - 1
           /\ n \notin queued => Cardinality(queued \cup {n}) = Cardinality(queued) + 1
BY FS_RemoveElement, FS_AddElement, FS_CardinalityType

\* What an action does to the ingress, said once for the four ways it changes.
IngressTyped ==
    /\ queue \in Seq(Entries) /\ IsFiniteSet(queued)
    /\ hold.by = "queue" => hold.tx \in Txs

LEMMA EnqueueKeeps ==
    ASSUME IngressTyped, QueueSound, NEW t \in Txs, Enqueue(t)
    PROVE  IngressTyped' /\ QueueSound'
<1> DEFINE e == [tx |-> t, tries |-> 0]
<1>1. /\ Id[t] \notin queued /\ Len(queue) < MaxQueue
      /\ queue' = Append(queue, e) /\ queued' = queued \cup {Id[t]} /\ UNCHANGED hold
  BY DEF Enqueue
<1>2. e \in Entries /\ e.tx = t
  BY DEF Entries
<1> HIDE DEF e
<1>3. /\ queued = QueueIds \cup (IF hold.by = "queue" THEN {Id[hold.tx]} ELSE {})
      /\ Cardinality(queued) = Len(queue) + (IF hold.by = "queue" THEN 1 ELSE 0)
  BY DEF QueueSound, QueueAccounted, QueueIds
<1>4. \A i \in DOMAIN queue : Id[queue[i].tx] # Id[t]
  BY <1>1, <1>3 DEF QueueIds
<1>5. /\ queue' \in Seq(Entries) /\ Len(queue') = Len(queue) + 1
      /\ QueueIds' = QueueIds \cup {Id[t]}
      /\ \A i, j \in DOMAIN queue' : Id[queue'[i].tx] = Id[queue'[j].tx] => i = j
  BY <1>1, <1>2, <1>4, AppendIds DEF IngressTyped, QueueSound, Once, QueueIds
<1>6. /\ IsFiniteSet(queued') /\ Cardinality(queued') = Cardinality(queued) + 1
      /\ Cardinality(queued) \in Nat /\ Len(queue) \in Nat
  <2>1. Len(queue) \in Nat
    BY DEF IngressTyped
  <2>2. IsFiniteSet(queued)
    BY DEF IngressTyped
  <2>3. QED  BY <1>1, <2>1, <2>2, QueuedCounts
<1>7. queued' = QueueIds' \cup (IF hold'.by = "queue" THEN {Id[hold'.tx]} ELSE {})
  BY <1>1, <1>3, <1>5
<1>8. /\ Cardinality(queued') = Len(queue') + (IF hold'.by = "queue" THEN 1 ELSE 0)
      /\ Len(queue') <= MaxQueue
  BY <1>1, <1>3, <1>5, <1>6, SizeAssumption
<1>9. QueueAccounted'
  BY <1>7, <1>8 DEF QueueAccounted, QueueIds
<1>10. hold'.by = "queue" => \A i \in DOMAIN queue' : Id[queue'[i].tx] # Id[hold'.tx]
  <2> SUFFICES ASSUME hold.by = "queue" PROVE Id[hold.tx] \notin QueueIds'
    BY <1>1 DEF QueueIds
  <2>1. Id[hold.tx] \notin QueueIds
    BY DEF QueueSound, Once, QueueIds
  <2>2. Id[hold.tx] # Id[t]
    BY <1>1, <1>3
  <2>3. QED  BY <1>5, <2>1, <2>2
<1>11. QED  BY <1>1, <1>5, <1>6, <1>9, <1>10 DEF QueueSound, Once, IngressTyped

LEMMA ProcessKeeps ==
    ASSUME IngressTyped, QueueSound, Process
    PROVE  IngressTyped' /\ QueueSound'
<1> DEFINE t == Head(queue).tx
<1>1. /\ queue # <<>> /\ hold = Free /\ queue' = Tail(queue)
      /\ \/ hold' = [by |-> "queue", tx |-> t, at |-> "commit"] /\ UNCHANGED queued
         \/ queued' = queued \ {Id[t]} /\ UNCHANGED hold
  BY DEF Process, Forget
<1>2. /\ queue' \in Seq(Entries) /\ t \in Txs /\ Len(queue) \in Nat \ {0}
      /\ Len(queue') = Len(queue) - 1
  BY <1>1, HeadGoes DEF IngressTyped, Entries
<1>3. /\ QueueIds' = QueueIds \ {Id[t]} /\ Id[t] \in QueueIds
      /\ \A i, j \in DOMAIN queue' : Id[queue'[i].tx] = Id[queue'[j].tx] => i = j
      /\ \A i \in DOMAIN queue' : Id[queue'[i].tx] # Id[t]
  BY <1>1, TailIds DEF IngressTyped, QueueSound
<1> HIDE DEF t
<1>4. hold.by # "queue"
  BY <1>1 DEF Free
<1>5. queued = QueueIds /\ Cardinality(queued) = Len(queue) /\ Len(queue) <= MaxQueue
  BY <1>1, <1>4, HeadGoes DEF IngressTyped, QueueSound, QueueAccounted, QueueIds
<1>6. Len(queue') <= MaxQueue
  BY <1>2, <1>5, SizeAssumption
<1>7. CASE hold' = [by |-> "queue", tx |-> t, at |-> "commit"] /\ UNCHANGED queued
  <2>1. hold'.by = "queue" /\ hold'.tx = t
    BY <1>7
  <2>2. queued' = QueueIds' \cup {Id[t]} /\ Cardinality(queued') = Len(queue') + 1
    BY <1>2, <1>3, <1>5, <1>7
  <2>3. QueueAccounted'
    BY <1>6, <2>1, <2>2 DEF QueueAccounted, QueueIds
  <2>4. QED  BY <1>2, <1>3, <1>7, <2>1, <2>3 DEF QueueSound, Once, IngressTyped
<1>8. CASE queued' = queued \ {Id[t]} /\ UNCHANGED hold
  <2>1. hold'.by # "queue"
    BY <1>4, <1>8
  <2>2. /\ queued' = QueueIds' /\ IsFiniteSet(queued')
        /\ Cardinality(queued') = Len(queue') /\ Len(queue') \in Nat
    <3>1. queued' = QueueIds' /\ Id[t] \in queued
      BY <1>3, <1>5, <1>8
    <3>2. IsFiniteSet(queued)
      BY DEF IngressTyped
    <3>3. IsFiniteSet(queued') /\ Cardinality(queued') = Cardinality(queued) - 1
      BY <1>8, <3>1, <3>2, QueuedCounts
    <3>4. QED  BY <1>2, <1>5, <3>1, <3>3
  <2>3. QueueAccounted'
    BY <1>6, <2>1, <2>2 DEF QueueAccounted, QueueIds
  <2>4. QED  BY <1>2, <1>3, <2>1, <2>2, <2>3 DEF QueueSound, Once, IngressTyped
<1>9. QED  BY <1>1, <1>7, <1>8

LEMMA BusyKeeps ==
    ASSUME IngressTyped, QueueSound, ProcessBusy
    PROVE  IngressTyped' /\ QueueSound'
<1> DEFINE e == Head(queue)
<1> DEFINE r == [e EXCEPT !.tries = @ + 1]
<1>1. /\ queue # <<>> /\ hold = Free /\ UNCHANGED hold
      /\ \/ queue' = Append(Tail(queue), r) /\ UNCHANGED queued
         \/ queue' = Tail(queue) /\ queued' = queued \ {Id[e.tx]}
  BY DEF ProcessBusy, Forget, Retried
<1>2. /\ Tail(queue) \in Seq(Entries) /\ e \in Entries /\ Len(queue) \in Nat \ {0}
      /\ Len(Tail(queue)) = Len(queue) - 1
  BY <1>1, HeadGoes DEF IngressTyped
<1>3. r \in Entries /\ r.tx = e.tx
  BY <1>2 DEF Entries
<1>4. hold.by # "queue" /\ hold'.by # "queue"
  BY <1>1 DEF Free
<1>5. queued = QueueIds /\ Cardinality(queued) = Len(queue) /\ Len(queue) <= MaxQueue
  BY <1>1, <1>2, <1>4 DEF IngressTyped, QueueSound, QueueAccounted, QueueIds
<1>6. CASE queue' = Append(Tail(queue), r) /\ UNCHANGED queued
  <2>1. /\ Head(queue) = queue[1] /\ DOMAIN queue = 1..Len(queue)
        /\ DOMAIN Tail(queue) = 1..(Len(queue) - 1)
        /\ \A i \in 1..(Len(queue) - 1) : Tail(queue)[i] = queue[i + 1]
    BY <1>1, HeadGoes DEF IngressTyped
  <2>2. \A i \in DOMAIN Tail(queue) :
           i + 1 \in DOMAIN queue /\ i + 1 # 1 /\ Tail(queue)[i] = queue[i + 1]
    BY <1>2, <2>1
  <2>3. \A i, j \in DOMAIN queue : Id[queue[i].tx] = Id[queue[j].tx] => i = j
    BY DEF QueueSound, Once
  <2>4. \A i \in DOMAIN Tail(queue) : Id[Tail(queue)[i].tx] # Id[r.tx]
    BY <1>2, <1>3, <2>1, <2>2, <2>3
  <2>5. ASSUME NEW i \in DOMAIN Tail(queue), NEW j \in DOMAIN Tail(queue),
               Id[Tail(queue)[i].tx] = Id[Tail(queue)[j].tx]
        PROVE  i = j
    <3>1. i + 1 = j + 1
      BY <2>2, <2>3, <2>5
    <3>2. QED  BY <1>2, <2>1, <3>1
  <2>6. /\ queue' \in Seq(Entries) /\ Len(queue') = Len(Tail(queue)) + 1
        /\ QueueIds' = {Id[Tail(queue)[i].tx] : i \in DOMAIN Tail(queue)} \cup {Id[r.tx]}
        /\ \A i, j \in DOMAIN queue' : Id[queue'[i].tx] = Id[queue'[j].tx] => i = j
    BY <1>2, <1>3, <1>6, <2>4, <2>5, AppendIds
  <2>7. \A i \in DOMAIN queue :
           i = 1 \/ (i - 1 \in DOMAIN Tail(queue) /\ queue[i] = Tail(queue)[i - 1])
    BY <1>2, <2>1
  <2>8. QueueIds' = QueueIds
    <3>1. {Id[Tail(queue)[i].tx] : i \in DOMAIN Tail(queue)} \cup {Id[e.tx]} \subseteq QueueIds
      BY <1>2, <2>1, <2>2 DEF QueueIds
    <3>2. QueueIds \subseteq {Id[Tail(queue)[i].tx] : i \in DOMAIN Tail(queue)} \cup {Id[e.tx]}
      BY <2>1, <2>7 DEF QueueIds
    <3>3. QED  BY <1>3, <2>6, <3>1, <3>2
  <2>9. QueueAccounted'
    <3>1. queued' = QueueIds'
      BY <1>5, <1>6, <2>8
    <3>2. Cardinality(queued') = Len(queue') /\ Len(queue') <= MaxQueue
      BY <1>2, <1>5, <1>6, <2>6
    <3>3. QED  BY <1>2, <1>4, <1>5, <3>1, <3>2, <2>6 DEF QueueAccounted, QueueIds
  <2>10. QED  BY <1>4, <1>6, <2>6, <2>9 DEF QueueSound, Once, IngressTyped
<1>7. CASE queue' = Tail(queue) /\ queued' = queued \ {Id[e.tx]}
  <2>1. /\ QueueIds' = QueueIds \ {Id[e.tx]} /\ Id[e.tx] \in QueueIds
        /\ \A i, j \in DOMAIN queue' : Id[queue'[i].tx] = Id[queue'[j].tx] => i = j
    BY <1>1, <1>7, TailIds DEF IngressTyped, QueueSound
  <2>2. /\ queued' = QueueIds' /\ IsFiniteSet(queued')
        /\ Cardinality(queued') = Len(queue') /\ Len(queue') <= MaxQueue
        /\ Len(queue') \in Nat
    BY <1>2, <1>5, <1>7, <2>1, QueuedCounts, SizeAssumption DEF IngressTyped
  <2>3. QueueAccounted'
    BY <1>4, <2>2 DEF QueueAccounted, QueueIds
  <2>4. QED  BY <1>2, <1>4, <1>7, <2>1, <2>2, <2>3 DEF QueueSound, Once, IngressTyped
<1>8. QED  BY <1>1, <1>6, <1>7

\* The entry that is being admitted goes.
LEMMA AdmitKeeps ==
    ASSUME IngressTyped, QueueSound, AdmitQueued
    PROVE  IngressTyped' /\ QueueSound'
<1>1. /\ hold.by = "queue" /\ hold' = Free /\ UNCHANGED queue
      /\ queued' = queued \ {Id[hold.tx]}
  BY DEF AdmitQueued, Forget
<1>2. hold'.by # "queue"
  BY <1>1 DEF Free
<1>3. queued = QueueIds \cup {Id[hold.tx]} /\ Cardinality(queued) = Len(queue) + 1
  BY <1>1 DEF QueueSound, QueueAccounted, QueueIds
<1>4. Id[hold.tx] \notin QueueIds
  BY <1>1 DEF QueueSound, Once, QueueIds
<1>5. /\ queued' = QueueIds /\ IsFiniteSet(queued')
      /\ Cardinality(queued') = Len(queue) /\ Len(queue) \in Nat
  <2>1. queued' = QueueIds /\ Id[hold.tx] \in queued
    BY <1>1, <1>3, <1>4
  <2>2. IsFiniteSet(queued) /\ Len(queue) \in Nat
    BY DEF IngressTyped
  <2>3. IsFiniteSet(queued') /\ Cardinality(queued') = Cardinality(queued) - 1
    BY <1>1, <2>1, <2>2, QueuedCounts
  <2>4. QED  BY <1>3, <2>1, <2>2, <2>3
<1>6. QueueAccounted'
  <2>1. queued' = QueueIds' /\ Len(queue') = Len(queue)
    BY <1>1, <1>5 DEF QueueIds
  <2>2. Len(queue') <= MaxQueue
    BY <1>1 DEF QueueSound, QueueAccounted
  <2>3. Cardinality(queued') = Len(queue') /\ Len(queue') \in Nat
    BY <1>5, <2>1
  <2>4. QED  BY <1>2, <2>1, <2>2, <2>3 DEF QueueAccounted, QueueIds
<1>7. QED  BY <1>1, <1>2, <1>5, <1>6 DEF QueueSound, Once, IngressTyped

\* Whoever else holds the mutex, the ingress is what it was.
LEMMA IngressStays ==
    ASSUME IngressTyped, QueueSound, UNCHANGED ingress,
           UNCHANGED hold \/ (hold.by # "queue" /\ hold'.by # "queue")
    PROVE  IngressTyped' /\ QueueSound'
BY DEF ingress, IngressTyped, QueueSound, QueueAccounted, Once

LEMMA IngressEmpty ==
    ASSUME LoseNode PROVE IngressTyped' /\ QueueSound'
<1>1. queue' = <<>> /\ queued' = {} /\ hold'.by # "queue"
  BY DEF LoseNode, Free
<1>2. IsFiniteSet({}) /\ Cardinality({}) = 0
  BY FS_EmptySet
<1>3. DOMAIN queue' = {} /\ Len(queue') = 0 /\ queue' \in Seq(Entries)
  BY <1>1
<1>4. QueueAccounted'
  BY <1>1, <1>2, <1>3, SizeAssumption DEF QueueAccounted
<1>5. QED  BY <1>1, <1>2, <1>3, <1>4 DEF IngressTyped, QueueSound, Once

----------------------------------------------------------------------------
(* The node alone *)

LEMMA InitPoolInv == MempoolInit => PoolInv
<1> SUFFICES ASSUME MempoolInit PROVE PoolInv
  OBVIOUS
<1>1. /\ chain = <<>> /\ connecting = FALSE /\ gone = {} /\ pool = {} /\ spent = {}
      /\ queue = <<>> /\ queued = {} /\ hold.by # "queue"
  BY DEF MempoolInit, Free
<1>2. IsFiniteSet({}) /\ Cardinality({}) = 0
  BY FS_EmptySet
<1>3. DOMAIN queue = {} /\ Len(queue) = 0 /\ queue \in Seq(Entries) /\ chain \in Seq(SUBSET Txs)
  BY <1>1
<1>4. Typed
  BY <1>1, <1>2, <1>3 DEF Typed
<1>5. Indexed /\ Minable
  BY <1>1, <1>2, SizeAssumption DEF Indexed, Minable, InputsOf, Apart
<1>6. QueueAccounted /\ Once
  BY <1>1, <1>2, <1>3, SizeAssumption DEF QueueAccounted, Once
<1>7. QED  BY <1>4, <1>5, <1>6 DEF PoolInv

\* What a step of the node does to the pool and the blocks under it.
LEMMA NodeStep ==
    ASSUME Typed, PoolSound, MempoolNext
    PROVE  /\ PoolSound' /\ chain' \in Seq(SUBSET Txs) /\ connecting' \in BOOLEAN
           /\ gone' \subseteq Txs /\ pool' \subseteq Txs /\ IsFiniteSet(pool')
<1>1. ASSUME UNCHANGED <<ledger, poolVars>>
      PROVE  /\ PoolSound' /\ chain' \in Seq(SUBSET Txs) /\ connecting' \in BOOLEAN
             /\ gone' \subseteq Txs /\ pool' \subseteq Txs /\ IsFiniteSet(pool')
  BY <1>1, StillSound DEF Typed, ledger, poolVars
<1>2. CASE (\E t \in Txs : Enqueue(t)) \/ Process \/ ProcessBusy \/ \E t \in pool : Relay(t)
  BY <1>1, <1>2 DEF Enqueue, Process, ProcessBusy, Relay
<1>3. CASE AdmitQueued
  <2>1. UNCHANGED ledger /\ hold.tx \in Txs
    BY <1>3 DEF AdmitQueued, Typed
  <2>2. CASE UNCHANGED poolVars
    BY <1>1, <2>1, <2>2
  <2>3. CASE Committable(hold.tx) /\ \E out \in Evictions(hold.tx) : Insert(hold.tx, out)
    BY <2>1, <2>3, InsertKeeps DEF Typed, ledger
  <2>4. QED  BY <1>3, <2>2, <2>3 DEF AdmitQueued
<1>4. CASE \E B \in SUBSET Txs : Connect(B)
  BY <1>4, ConnectKeeps DEF Typed, Connect, poolVars
<1>5. CASE CleanPool
  BY <1>5, CleanKeeps DEF Typed, CleanPool
<1>6. CASE Disconnect
  BY <1>6, DisconnectKeeps DEF Typed, Disconnect, poolVars
<1>7. QED  BY <1>2, <1>3, <1>4, <1>5, <1>6 DEF MempoolNext

LEMMA IngressStep ==
    ASSUME IngressTyped, QueueSound, MempoolNext
    PROVE  IngressTyped' /\ QueueSound'
<1>1. CASE CleanPool \/ Disconnect \/ (\E B \in SUBSET Txs : Connect(B)) \/ (\E t \in pool : Relay(t))
  <2>1. UNCHANGED <<ingress, hold>>
    BY <1>1 DEF CleanPool, Disconnect, Connect, Relay
  <2>2. QED  BY <2>1, IngressStays
<1>2. QED  BY <1>1, EnqueueKeeps, ProcessKeeps, BusyKeeps, AdmitKeeps DEF MempoolNext

LEMMA PoolInvKept ==
    ASSUME PoolInv, [MempoolNext \/ LoseNode]_poolAndLedger PROVE PoolInv'
<1>1. /\ Typed /\ PoolSound /\ IngressTyped /\ QueueSound
  BY DEF PoolInv, PoolSound, QueueSound, IngressTyped, Typed
<1>2. CASE MempoolNext
  <2>1. IngressTyped' /\ QueueSound'
    BY <1>1, <1>2, IngressStep
  <2>2. /\ PoolSound' /\ chain' \in Seq(SUBSET Txs) /\ connecting' \in BOOLEAN
        /\ gone' \subseteq Txs /\ pool' \subseteq Txs /\ IsFiniteSet(pool')
    BY <1>1, <1>2, NodeStep
  <2>3. QED  BY <2>1, <2>2 DEF PoolInv, PoolSound, QueueSound, IngressTyped, Typed
<1>3. CASE LoseNode
  <2>1. IngressTyped' /\ QueueSound' /\ PoolSound' /\ pool' = {} /\ IsFiniteSet(pool')
    BY <1>1, <1>3, IngressEmpty, LoseKeeps
  <2>2. UNCHANGED <<chain, gone>> /\ connecting' = FALSE
    BY <1>3 DEF LoseNode
  <2>3. QED  BY <1>1, <2>1, <2>2 DEF PoolInv, PoolSound, QueueSound, IngressTyped, Typed
<1>4. CASE UNCHANGED poolAndLedger
  <2>1. UNCHANGED <<ledger, poolVars, ingress, hold>>
    BY <1>4 DEF poolAndLedger
  <2>2. PoolSound' /\ IngressTyped' /\ QueueSound'
    BY <1>1, <2>1, StillSound, IngressStays
  <2>3. UNCHANGED <<chain, connecting, gone, pool>>
    BY <2>1 DEF ledger, poolVars
  <2>4. QED  BY <1>1, <2>2, <2>3 DEF PoolInv, PoolSound, QueueSound, IngressTyped, Typed
<1>5. QED  BY <1>2, <1>3, <1>4

LEMMA AlwaysPoolInv == MempoolSpec => []PoolInv
BY InitPoolInv, PoolInvKept, PTL DEF MempoolSpec

\* The pool agrees with its index, its bound and the chain through every insertion,
\* eviction, block and reorganisation (addTransaction, cleanAfterBlock, rollbackBlock).
THEOREM PoolIsConsistent == MempoolSpec => []PoolConsistent
<1>1. PoolInv => PoolConsistent
  BY SoundIsConsistent DEF PoolInv, PoolSound
<1>2. QED  BY <1>1, AlwaysPoolInv, PTL

\* The set that turns duplicates away is exactly what waits or is being admitted
\* (addTransaction, processQueue).
THEOREM QueueIsAccounted == MempoolSpec => []QueueAccounted
<1>1. PoolInv => QueueAccounted
  BY DEF PoolInv
<1>2. QED  BY <1>1, AlwaysPoolInv, PTL
=============================================================================
