------------------------ MODULE PeerSessions_proofs ------------------------
(***************************************************************************)
(* Facts about sessions for any number of threads, addresses, endpoints    *)
(* and sessions: the counters are the slots that are held, the book counts *)
(* the sessions on an endpoint, and after stop() no reader runs.           *)
(***************************************************************************)
EXTENDS PeerSessions, FiniteSetTheorems, TLAPS

Holding(d) == dial[d].pc \in {"slot", "made", "reject", "refund"}

----------------------------------------------------------------------------
(* Types *)

LEMMA RestTyped ==
    /\ NoConn \in [phase : Phases, ip : Ips, target : Target, ep : Target]
    /\ AtRest \in [pc : Steps, ep : Target, ip : Ips]
    /\ NoConn.phase = "free" /\ AtRest.pc = "idle"
BY BookAssumption DEF BookAssumption, NoConn, AtRest, Phases, Steps, Target

LEMMA ContainsIn == 
    \A s \in Seq(Endpoints) : \A e : Contains(s, e) => e \in Endpoints
BY DEF Contains

LEMMA ClaimsIn == ASSUME TypeOK PROVE Claims \subseteq Endpoints
<1>1. Candidates \in Seq(Endpoints)
  BY BookAssumption DEF BookAssumption, Candidates, TypeOK, BookTypeOK
<1>2. \A e \in Claims : \E i \in DOMAIN Candidates : e = Candidates[i]
  BY DEF Claims
<1>3. QED
  BY <1>1, <1>2

\* What the operators of the book do to its types.
LEMMA QuotaTyped ==
    ASSUME TypeOK, NEW ip \in Ips, Acquire(ip) \/ Release(ip) \/ UNCHANGED quota
    PROVE  active' \in [Ips -> Nat] /\ total' \in Nat
<1>1. active \in [Ips -> Nat] /\ total \in Nat /\ active[ip] \in Nat
  BY DEF TypeOK, BookTypeOK
<1>2. CASE Acquire(ip)
  BY <1>1, <1>2 DEF Acquire
<1>3. CASE Release(ip)
  <2>1. (IF active[ip] = 0 THEN 0 ELSE active[ip] - 1) \in Nat
    BY <1>1
  <2>2. QED
    BY <1>1, <1>3, <2>1 DEF Release
<1>4. QED
  BY <1>1, <1>2, <1>3 DEF quota

LEMMA RedialsTyped ==
    ASSUME TypeOK, NEW e \in Endpoints,
           AddPeer(e) \/ ReleaseVerified(e) \/ NoteFailure(e) \/ UNCHANGED redials
    PROVE  /\ verified' \in [Endpoints -> Nat] /\ waiting' \subseteq Endpoints
           /\ book' \in Seq(Endpoints) /\ Len(book') <= MaxBook
<1>1. CASE AddPeer(e)
  <2>1. CASE ~Contains(book, e) /\ Len(book) >= MaxBook
    BY <1>1, <2>1 DEF AddPeer, TypeOK, BookTypeOK, redials
  <2>2. CASE Contains(book, e)
    BY <1>1, <2>2 DEF AddPeer, TypeOK, BookTypeOK
  <2>3. CASE ~Contains(book, e) /\ ~(Len(book) >= MaxBook)
    <3>1. book \in Seq(Endpoints) /\ Len(book) \in Nat /\ MaxBook \in Nat
      BY BookAssumption DEF TypeOK, BookTypeOK, BookAssumption
    <3>2. book' = Append(book, e) /\ Len(book') = Len(book) + 1
      BY <1>1, <2>3, <3>1 DEF AddPeer
    <3>3. book' \in Seq(Endpoints) /\ Len(book') <= MaxBook
      BY <2>3, <3>1, <3>2
    <3>4. QED
      BY <1>1, <2>3, <3>3 DEF AddPeer, TypeOK, BookTypeOK
  <2>4. QED
    BY <2>1, <2>2, <2>3
<1>2. CASE ReleaseVerified(e)
  BY <1>2 DEF ReleaseVerified, TypeOK, BookTypeOK
<1>3. CASE NoteFailure(e)
  BY <1>3 DEF NoteFailure, TypeOK, BookTypeOK
<1>4. CASE UNCHANGED redials
  BY <1>4 DEF TypeOK, BookTypeOK, redials
<1>5. QED
  BY <1>1, <1>2, <1>3, <1>4

\* The threads: whatever a thread does next, it has a step, an endpoint and an address.
LEMMA ReturnTyped ==
    ASSUME TypeOK, NEW d \in Makers, NEW ok, Return(d, ok)
    PROVE  /\ dial' \in [Makers -> [pc : Steps, ep : Target, ip : Ips]]
           /\ ~Holding(d)' /\ \A x \in Makers \ {d} : dial'[x] = dial[x]
BY RestTyped DEF TypeOK, Return, Holding, Steps, Target, AtRest

LEMMA GotoTyped ==
    ASSUME TypeOK, NEW d \in Makers, NEW pc \in Steps, Goto(d, pc)
    PROVE  /\ dial' \in [Makers -> [pc : Steps, ep : Target, ip : Ips]]
           /\ dial'[d].pc = pc /\ dial'[d].ip = dial[d].ip /\ dial'[d].ep = dial[d].ep
           /\ \A x \in Makers \ {d} : dial'[x] = dial[x]
BY DEF TypeOK, Goto, Steps

LEMMA BecomesTyped ==
    ASSUME TypeOK, NEW c \in Conns, NEW phase \in Phases, Becomes(c, phase)
    PROVE  /\ conn' \in [Conns -> [phase : Phases, ip : Ips, target : Target, ep : Target]]
           /\ conn'[c].phase = phase /\ conn'[c].ip = conn[c].ip
           /\ conn'[c].ep = conn[c].ep
           /\ \A x \in Conns \ {c} : conn'[x] = conn[x]
BY DEF TypeOK, Becomes, Phases

LEMMA RetiresTyped ==
    ASSUME TypeOK, Retires \/ UNCHANGED <<sessions, quota>>
    PROVE  /\ conn' \in [Conns -> [phase : Phases, ip : Ips, target : Target, ep : Target]]
           /\ peers' \subseteq Conns /\ UNCHANGED quota
<1>1. CASE Retires
  BY <1>1, RestTyped DEF Retires, TypeOK
<1>2. CASE UNCHANGED <<sessions, quota>>
  BY <1>2 DEF sessions, TypeOK
<1>3. QED
  BY <1>1, <1>2

LEMMA TypeInit == Init => TypeOK
BY RestTyped, BookAssumption, SessionAssumption
   DEF Init, BookInit, TypeOK, BookTypeOK, BookAssumption, SessionAssumption, ToSet

LEMMA TypeNext == TypeOK /\ [Next]_vars => TypeOK'
<1> SUFFICES ASSUME TypeOK, [Next]_vars PROVE TypeOK'
  OBVIOUS
<1> USE DEF peerBook, quota, redials, sessions, threads, stopVars
<1>1. ASSUME NEW d \in Users, NEW e \in Endpoints, UserDials(d, e) PROVE TypeOK'
  BY <1>1, BookAssumption, SessionAssumption
     DEF UserDials, TypeOK, BookTypeOK, Steps, Target, Makers, Dialers, BookAssumption, SessionAssumption
<1>2. ASSUME NEW d \in Makers, DialSteps(d) PROVE TypeOK'
  <2> dial[d].ip \in Ips
    BY DEF TypeOK
  <2>1. CASE LooksUp(d)
    BY <2>1, ReturnTyped, GotoTyped DEF LooksUp, TypeOK, BookTypeOK, Steps
  <2>2. CASE Connects(d)
    BY <2>2, ReturnTyped, GotoTyped, QuotaTyped DEF Connects, TypeOK, BookTypeOK, Steps
  <2>3. CASE Rechecks(d)
    BY <2>3, ReturnTyped, GotoTyped, QuotaTyped DEF Rechecks, TypeOK, BookTypeOK, Steps
  <2>4. QED
    BY <1>2, <2>1, <2>2, <2>3 DEF DialSteps
<1>3. ASSUME NEW d \in Makers, MakeSteps(d) PROVE TypeOK'
  <2> dial[d].ip \in Ips /\ dial[d].ep \in Target
    BY DEF TypeOK
  <2>1. CASE Admits(d)
    <3>1. [phase |-> "hello", ip |-> dial[d].ip, target |-> dial[d].ep, ep |-> NoEndpoint]
            \in [phase : Phases, ip : Ips, target : Target, ep : Target]
      BY DEF Phases, Target
    <3>2. QED
      <4>1. CASE ~stopping
        <5>1. Return(d, TRUE) /\ peers' \subseteq Conns /\ conn' \in
                [Conns -> [phase : Phases, ip : Ips, target : Target, ep : Target]]
          BY <2>1, <3>1, <4>1 DEF Admits, TypeOK
        <5>2. QED
          BY <2>1, <5>1, ReturnTyped DEF Admits, TypeOK, BookTypeOK
      <4>2. CASE stopping
        BY <2>1, <4>2, GotoTyped DEF Admits, TypeOK, BookTypeOK, Steps
      <4>3. QED
        BY <4>1, <4>2
  <2>2. CASE Rejects(d)
    <3>1. dial[d].ep # NoEndpoint => dial[d].ep \in Endpoints
      BY DEF Target
    <3>2. dial[d].ep = NoEndpoint \/ NoteFailure(dial[d].ep)
      BY <2>2 DEF Rejects
    <3>3. /\ verified' \in [Endpoints -> Nat] /\ waiting' \subseteq Endpoints
          /\ book' \in Seq(Endpoints) /\ Len(book') <= MaxBook
      BY <2>2, <3>1, <3>2, RedialsTyped DEF Rejects, TypeOK, BookTypeOK
    <3>4. QED
      BY <2>2, <3>3, GotoTyped DEF Rejects, TypeOK, BookTypeOK, Steps
  <2>3. CASE Refunds(d)
    BY <2>3, ReturnTyped, QuotaTyped DEF Refunds, TypeOK, BookTypeOK
  <2>4. QED
    BY <1>3, <2>1, <2>2, <2>3 DEF MakeSteps
<1>4. ASSUME NEW d \in Makers, Fails(d) PROVE TypeOK'
  BY <1>4, GotoTyped, SessionAssumption DEF Fails, TypeOK, BookTypeOK, Steps, SessionAssumption
<1>5. CASE RedialSteps
  <2> "redial" \in Makers
    BY DEF Makers, Dialers
  <2>1. CASE RedialCleans
    <3>1. Goto("redial", "exit") \/ Goto("redial", "claim")
      BY <2>1 DEF RedialCleans
    <3>2. dial' \in [Makers -> [pc : Steps, ep : Target, ip : Ips]]
      BY <3>1, GotoTyped DEF Steps
    <3>3. Retires \/ UNCHANGED <<sessions, quota>>
      BY <2>1 DEF RedialCleans
    <3>4. QED
      BY <2>1, <3>2, <3>3, RetiresTyped DEF RedialCleans, TypeOK, BookTypeOK
  <2>2. CASE RedialClaims
    BY <2>2, GotoTyped, ClaimsIn DEF RedialClaims, Lease, TypeOK, BookTypeOK, Steps
  <2>3. CASE RedialNext
    <3>1. \A e \in todo : [pc |-> "look", ep |-> e, ip |-> IpOf[e]]
                            \in [pc : Steps, ep : Target, ip : Ips]
      BY BookAssumption DEF TypeOK, Steps, Target, BookAssumption
    <3>2. dial' \in [Makers -> [pc : Steps, ep : Target, ip : Ips]] /\ todo' \subseteq Endpoints
      BY <2>3, <3>1, RestTyped DEF RedialNext, TypeOK
    <3>3. QED
      BY <2>3, <3>2 DEF RedialNext, TypeOK, BookTypeOK
  <2>4. CASE RedialFailed
    <3>1. waiting' \subseteq Endpoints
      BY <2>4, ContainsIn, BookAssumption
         DEF RedialFailed, NoteFailure, Known, BookAssumption, TypeOK, BookTypeOK
    <3>2. QED
      BY <2>4, <3>1, RestTyped DEF RedialFailed, NoteFailure, TypeOK, BookTypeOK, Steps
  <2>5. QED
    BY <1>5, <2>1, <2>2, <2>3, <2>4 DEF RedialSteps
<1>6. CASE AcceptSteps
  <2> "accept" \in Makers
    BY DEF Makers
  <2>1. CASE AcceptCleans
    <3>1. Goto("accept", "exit") \/ Goto("accept", "knock")
      BY <2>1 DEF AcceptCleans
    <3>2. dial' \in [Makers -> [pc : Steps, ep : Target, ip : Ips]]
      BY <3>1, GotoTyped DEF Steps
    <3>3. Retires \/ UNCHANGED <<sessions, quota>>
      BY <2>1 DEF AcceptCleans
    <3>4. QED
      BY <2>1, <3>2, <3>3, RetiresTyped DEF AcceptCleans, TypeOK, BookTypeOK
  <2>2. CASE Accepts
    <3>1. ASSUME NEW ip \in Ips, Acquire(ip),
                 dial' = [dial EXCEPT !["accept"] = [pc |-> "made", ep |-> NoEndpoint, ip |-> ip]]
          PROVE TypeOK'
      BY <2>2, <3>1, QuotaTyped DEF Accepts, TypeOK, BookTypeOK, Steps, Target
    <3>2. QED
      BY <2>2, <3>1, GotoTyped DEF Accepts, TypeOK, BookTypeOK, Steps
  <2>3. QED
    BY <1>6, <2>1, <2>2 DEF AcceptSteps
<1>7. ASSUME NEW c \in Conns, Handshakes(c) PROVE TypeOK'
  <2>1. PICK e \in Target :
          /\ IF e = NoEndpoint THEN UNCHANGED redials ELSE AddPeer(e)
          /\ conn' = [conn EXCEPT ![c].phase = "ready", ![c].ep = e]
    BY <1>7 DEF Handshakes, Target, TypeOK
  <2>2. /\ verified' \in [Endpoints -> Nat] /\ waiting' \subseteq Endpoints
        /\ book' \in Seq(Endpoints) /\ Len(book') <= MaxBook
    BY <2>1, RedialsTyped DEF Target, TypeOK, BookTypeOK
  <2>3. conn' \in [Conns -> [phase : Phases, ip : Ips, target : Target, ep : Target]]
    BY <2>1 DEF TypeOK, Phases
  <2>4. QED
    BY <1>7, <2>2, <2>3 DEF Handshakes, TypeOK, BookTypeOK
<1>8. ASSUME NEW c \in Conns, Dies(c) \/ Misbehaves(c) PROVE TypeOK'
  BY <1>8, BecomesTyped, SessionAssumption
     DEF Dies, Misbehaves, Bans, TypeOK, BookTypeOK, Phases, SessionAssumption
<1>9. ASSUME NEW c \in Conns, Ending(c) PROVE TypeOK'
  <2>1. CASE Leaves(c)
    <3>1. {conn[c].ep, conn[c].target} \subseteq Endpoints \cup {NoEndpoint}
      BY DEF TypeOK, Target
    <3>2. /\ verified' \in [Endpoints -> Nat] /\ waiting' \subseteq Endpoints
          /\ book' \in Seq(Endpoints) /\ Len(book') <= MaxBook
      <4>1. CASE conn[c].ep # NoEndpoint
        BY <2>1, <3>1, <4>1, RedialsTyped DEF Leaves
      <4>2. CASE conn[c].ep = NoEndpoint /\ conn[c].target # NoEndpoint
        BY <2>1, <3>1, <4>2, RedialsTyped DEF Leaves
      <4>3. CASE conn[c].ep = NoEndpoint /\ conn[c].target = NoEndpoint
        BY <2>1, <4>3 DEF Leaves, TypeOK, BookTypeOK
      <4>4. QED
        BY <4>1, <4>2, <4>3
    <3>3. QED
      BY <2>1, <3>2, BecomesTyped DEF Leaves, TypeOK, BookTypeOK, Phases
  <2>2. CASE ReaderExits(c)
    <3>1. conn[c].ip \in Ips
      BY DEF TypeOK
    <3>2. QED
      BY <2>2, <3>1, QuotaTyped, BecomesTyped DEF ReaderExits, TypeOK, BookTypeOK, Phases
  <2>3. QED
    BY <1>9, <2>1, <2>2 DEF Ending
<1>10. CASE Stops \/ JoinsLoop \/ TakesOver \/ Stopped
  BY <1>10 DEF Stops, JoinsLoop, TakesOver, Stopped, TypeOK, BookTypeOK
<1>11. ASSUME NEW c \in Conns, ClosesPeer(c) PROVE TypeOK'
  BY <1>11, BecomesTyped, RestTyped DEF ClosesPeer, TypeOK, BookTypeOK, Phases
<1>12. CASE TimePasses
  BY <1>12 DEF TimePasses, Elapses, TypeOK, BookTypeOK
<1>13. CASE UNCHANGED vars
  BY <1>13 DEF vars, TypeOK, BookTypeOK
<1>14. QED
  BY <1>1, <1>2, <1>3, <1>4, <1>5, <1>6, <1>7, <1>8, <1>9, <1>10, <1>11, <1>12, <1>13
     DEF Next, StopSteps

----------------------------------------------------------------------------
(* Who holds a slot *)

ThreadHolds(d, ips) == IF d \in HoldingThreads(ips) THEN 1 ELSE 0
SessionHolds(c, ips) == IF c \in HoldingSessions(ips) THEN 1 ELSE 0

LEMMA Finite ==
    ASSUME NEW S, NEW x, IsFiniteSet(S)
    PROVE  /\ Cardinality(S) \in Nat /\ Cardinality(S \ {x}) \in Nat
           /\ Cardinality(S) = Cardinality(S \ {x}) + IF x \in S THEN 1 ELSE 0
<1>1. Cardinality(S) \in Nat /\ IsFiniteSet(S \ {x})
  BY FS_CardinalityType, FS_RemoveElement
<1>2. Cardinality(S \ {x}) \in Nat
  BY <1>1, FS_CardinalityType
<1>3. Cardinality(S \ {x}) = IF x \in S THEN Cardinality(S) - 1 ELSE Cardinality(S)
  BY FS_RemoveElement
<1>4. QED
  BY <1>1, <1>2, <1>3

LEMMA HoldersFinite ==
    \A ips : IsFiniteSet(HoldingThreads(ips)) /\ IsFiniteSet(HoldingSessions(ips))
<1>1. IsFiniteSet(Makers) /\ IsFiniteSet(Conns)
  <2>1. IsFiniteSet({"redial"}) /\ IsFiniteSet({"accept"})
    BY FS_Singleton
  <2>2. QED
    BY <2>1, FS_Union, SessionAssumption DEF SessionAssumption, Makers, Dialers
<1>2. QED
  BY <1>1, FS_Subset DEF HoldingThreads, HoldingSessions

LEMMA HoldersFiniteNext ==
    \A ips : IsFiniteSet(HoldingThreads(ips)') /\ IsFiniteSet(HoldingSessions(ips)')
<1>1. IsFiniteSet(Makers) /\ IsFiniteSet(Conns)
  <2>1. IsFiniteSet({"redial"}) /\ IsFiniteSet({"accept"})
    BY FS_Singleton
  <2>2. QED
    BY <2>1, FS_Union, SessionAssumption DEF SessionAssumption, Makers, Dialers
<1>2. QED
  BY <1>1, FS_Subset DEF HoldingThreads, HoldingSessions

\* When one thread goes on, the others hold what they held; and so with sessions.
LEMMA OneThreadMoves ==
    ASSUME NEW d \in Makers, \A x \in Makers \ {d} : dial'[x] = dial[x], NEW ips
    PROVE  \E n \in Nat :
             /\ Cardinality(HoldingThreads(ips)) = n + ThreadHolds(d, ips)
             /\ Cardinality(HoldingThreads(ips)') = n + ThreadHolds(d, ips)'
<1>1. HoldingThreads(ips)' \ {d} = HoldingThreads(ips) \ {d}
  BY DEF HoldingThreads
<1>2. LET S == HoldingThreads(ips)
          n == Cardinality(S \ {d})
      IN  n \in Nat /\ Cardinality(S) = n + ThreadHolds(d, ips)
  BY HoldersFinite, Finite DEF ThreadHolds
<1>3. LET S == HoldingThreads(ips)'
          n == Cardinality(S \ {d})
      IN  n \in Nat /\ Cardinality(S) = n + ThreadHolds(d, ips)'
  BY HoldersFiniteNext, Finite DEF ThreadHolds
<1>4. QED
  BY <1>1, <1>2, <1>3

LEMMA OneSessionMoves ==
    ASSUME NEW c \in Conns, \A x \in Conns \ {c} : conn'[x] = conn[x], NEW ips
    PROVE  \E n \in Nat :
             /\ Cardinality(HoldingSessions(ips)) = n + SessionHolds(c, ips)
             /\ Cardinality(HoldingSessions(ips)') = n + SessionHolds(c, ips)'
<1>1. HoldingSessions(ips)' \ {c} = HoldingSessions(ips) \ {c}
  BY DEF HoldingSessions, HasReader
<1>2. LET S == HoldingSessions(ips)
          n == Cardinality(S \ {c})
      IN  n \in Nat /\ Cardinality(S) = n + SessionHolds(c, ips)
  BY HoldersFinite, Finite DEF SessionHolds
<1>3. LET S == HoldingSessions(ips)'
          n == Cardinality(S \ {c})
      IN  n \in Nat /\ Cardinality(S) = n + SessionHolds(c, ips)'
  BY HoldersFiniteNext, Finite DEF SessionHolds
<1>4. QED
  BY <1>1, <1>2, <1>3

LEMMA HoldsNat == \A ips : HoldsOf(ips) \in Nat
BY HoldersFinite, FS_CardinalityType DEF HoldsOf

LEMMA SomebodyHolds ==
    ASSUME NEW ips, HoldingThreads(ips) # {} \/ HoldingSessions(ips) # {}
    PROVE  HoldsOf(ips) >= 1
<1>1. Cardinality(HoldingThreads(ips)) \in Nat /\ Cardinality(HoldingSessions(ips)) \in Nat
  BY HoldersFinite, FS_CardinalityType
<1>2. Cardinality(HoldingThreads(ips)) # 0 \/ Cardinality(HoldingSessions(ips)) # 0
  BY HoldersFinite, FS_EmptySet
<1>3. QED
  BY <1>1, <1>2 DEF HoldsOf

\* The three ways a step touches the quota: not at all, taking a slot, giving one back.
LEMMA SlotsKept ==
    ASSUME SlotsExact, UNCHANGED quota, \A ips \in SUBSET Ips : HoldsOf(ips)' = HoldsOf(ips)
    PROVE  SlotsExact'
BY DEF SlotsExact, quota

LEMMA SlotTaken ==
    ASSUME TypeOK, SlotsExact, NEW ip \in Ips, MayAcquire(ip), Acquire(ip),
           \A ips \in SUBSET Ips :
             HoldsOf(ips)' = HoldsOf(ips) + IF ip \in ips THEN 1 ELSE 0
    PROVE  SlotsExact'
<1>1. /\ active[ip] < MaxPerIp /\ total < MaxTotal
      /\ active' = [active EXCEPT ![ip] = @ + 1] /\ total' = total + 1
      /\ active \in [Ips -> Nat] /\ total \in Nat /\ MaxPerIp \in Nat /\ MaxTotal \in Nat
  BY BookAssumption DEF MayAcquire, Acquire, TypeOK, BookTypeOK, BookAssumption
<1>2. ASSUME NEW x \in Ips PROVE active'[x] = HoldsOf({x})' /\ active'[x] <= MaxPerIp
  <2>1. active[x] = HoldsOf({x}) /\ active[x] <= MaxPerIp
    BY DEF SlotsExact
  <2>2. HoldsOf({x})' = HoldsOf({x}) + IF ip = x THEN 1 ELSE 0
    BY HoldsNat
  <2>3. QED
    BY <1>1, <2>1, <2>2
<1>3. total' = HoldsOf(Ips)' /\ total' <= MaxTotal
  BY <1>1 DEF SlotsExact
<1>4. QED
  BY <1>2, <1>3 DEF SlotsExact

LEMMA SlotGiven ==
    ASSUME TypeOK, SlotsExact, NEW ip \in Ips, Release(ip),
           HoldsOf({ip}) >= 1, HoldsOf(Ips) >= 1,
           \A ips \in SUBSET Ips :
             HoldsOf(ips)' = HoldsOf(ips) - IF ip \in ips THEN 1 ELSE 0
    PROVE  SlotsExact'
<1>1. /\ active \in [Ips -> Nat] /\ total \in Nat /\ MaxPerIp \in Nat /\ MaxTotal \in Nat
      /\ active[ip] >= 1 /\ total >= 1
  BY BookAssumption DEF SlotsExact, TypeOK, BookTypeOK, BookAssumption
<1>2. active' = [active EXCEPT ![ip] = @ - 1] /\ total' = total - 1
  <2>1. active[ip] # 0 /\ ~(active[ip] = 0 \/ total = 0)
    BY <1>1
  <2>2. QED
    BY <1>1, <2>1 DEF Release
<1>3. ASSUME NEW x \in Ips PROVE active'[x] = HoldsOf({x})' /\ active'[x] <= MaxPerIp
  <2>1. active[x] = HoldsOf({x}) /\ active[x] <= MaxPerIp
    BY DEF SlotsExact
  <2>2. HoldsOf({x})' = HoldsOf({x}) - IF ip = x THEN 1 ELSE 0
    BY HoldsNat
  <2>3. QED
    BY <1>1, <1>2, <2>1, <2>2
<1>4. total' = HoldsOf(Ips)' /\ total' <= MaxTotal
  BY <1>1, <1>2 DEF SlotsExact
<1>5. QED
  BY <1>3, <1>4 DEF SlotsExact

----------------------------------------------------------------------------
(* Every slot comes back once *)

LEMMA SlotsInit == Init => SlotsExact
<1> SUFFICES ASSUME Init PROVE SlotsExact
  OBVIOUS
<1>1. \A ips : HoldingThreads(ips) = {} /\ HoldingSessions(ips) = {}
  BY RestTyped DEF Init, HoldingThreads, HoldingSessions, HasReader
<1>2. \A ips : HoldsOf(ips) = 0
  BY <1>1, FS_EmptySet DEF HoldsOf
<1>3. QED
  BY <1>2, BookAssumption DEF Init, BookInit, SlotsExact, BookAssumption

\* A step that moves neither a thread nor a session over the line.
LEMMA StandStill ==
    ASSUME \A d \in Makers :
             Holding(d)' = Holding(d) /\ (Holding(d) => dial'[d].ip = dial[d].ip),
           \A c \in Conns :
             HasReader(c)' = HasReader(c) /\ (HasReader(c) => conn'[c].ip = conn[c].ip)
    PROVE  \A ips : HoldsOf(ips)' = HoldsOf(ips)
<1>1. ASSUME NEW ips
      PROVE  /\ HoldingThreads(ips)' = HoldingThreads(ips)
             /\ HoldingSessions(ips)' = HoldingSessions(ips)
  BY DEF HoldingThreads, HoldingSessions, Holding
<1>2. QED
  BY <1>1 DEF HoldsOf

\* A thread takes a slot, or gives it back, and the sessions stay as they are.
LEMMA ThreadTakes ==
    ASSUME TypeOK, NEW d \in Makers, UNCHANGED conn, \A x \in Makers \ {d} : dial'[x] = dial[x],
           ~Holding(d), Holding(d)'
    PROVE  \A ips : HoldsOf(ips)' = HoldsOf(ips) + IF dial'[d].ip \in ips THEN 1 ELSE 0
<1>1. SUFFICES ASSUME NEW ips
               PROVE  HoldsOf(ips)' = HoldsOf(ips) + IF dial'[d].ip \in ips THEN 1 ELSE 0
  OBVIOUS
<1>2. HoldingSessions(ips)' = HoldingSessions(ips) /\ Cardinality(HoldingSessions(ips)) \in Nat
  BY HoldersFinite, FS_CardinalityType DEF HoldingSessions, HasReader
<1>3. /\ ThreadHolds(d, ips) = 0
      /\ ThreadHolds(d, ips)' = IF dial'[d].ip \in ips THEN 1 ELSE 0
  BY DEF ThreadHolds, HoldingThreads, Holding
<1>4. QED
  BY <1>2, <1>3, OneThreadMoves DEF HoldsOf

LEMMA ThreadGives ==
    ASSUME TypeOK, NEW d \in Makers, UNCHANGED conn, \A x \in Makers \ {d} : dial'[x] = dial[x],
           Holding(d), ~Holding(d)'
    PROVE  \A ips : /\ HoldsOf(ips)' = HoldsOf(ips) - IF dial[d].ip \in ips THEN 1 ELSE 0
                    /\ dial[d].ip \in ips => HoldsOf(ips) >= 1
<1>1. SUFFICES ASSUME NEW ips
               PROVE  /\ HoldsOf(ips)' = HoldsOf(ips) - IF dial[d].ip \in ips THEN 1 ELSE 0
                      /\ dial[d].ip \in ips => HoldsOf(ips) >= 1
  OBVIOUS
<1>2. HoldingSessions(ips)' = HoldingSessions(ips) /\ Cardinality(HoldingSessions(ips)) \in Nat
  BY HoldersFinite, FS_CardinalityType DEF HoldingSessions, HasReader
<1>3. /\ ThreadHolds(d, ips)' = 0
      /\ ThreadHolds(d, ips) = IF dial[d].ip \in ips THEN 1 ELSE 0
  BY DEF ThreadHolds, HoldingThreads, Holding
<1>4. QED
  BY <1>2, <1>3, OneThreadMoves DEF HoldsOf

LEMMA SessionGives ==
    ASSUME TypeOK, NEW c \in Conns, UNCHANGED dial, \A x \in Conns \ {c} : conn'[x] = conn[x],
           HasReader(c), ~HasReader(c)'
    PROVE  \A ips : /\ HoldsOf(ips)' = HoldsOf(ips) - IF conn[c].ip \in ips THEN 1 ELSE 0
                    /\ conn[c].ip \in ips => HoldsOf(ips) >= 1
<1>1. SUFFICES ASSUME NEW ips
               PROVE  /\ HoldsOf(ips)' = HoldsOf(ips) - IF conn[c].ip \in ips THEN 1 ELSE 0
                      /\ conn[c].ip \in ips => HoldsOf(ips) >= 1
  OBVIOUS
<1>2. HoldingThreads(ips)' = HoldingThreads(ips) /\ Cardinality(HoldingThreads(ips)) \in Nat
  BY HoldersFinite, FS_CardinalityType DEF HoldingThreads
<1>3. /\ SessionHolds(c, ips)' = 0
      /\ SessionHolds(c, ips) = IF conn[c].ip \in ips THEN 1 ELSE 0
  BY DEF SessionHolds, HoldingSessions
<1>4. QED
  BY <1>2, <1>3, OneSessionMoves DEF HoldsOf

\* An admission hands the slot from the thread to the session.
LEMMA SlotHandedOver ==
    ASSUME TypeOK, NEW d \in Makers, NEW c \in Conns,
           \A x \in Makers \ {d} : dial'[x] = dial[x], Holding(d), ~Holding(d)',
           \A x \in Conns \ {c} : conn'[x] = conn[x], ~HasReader(c), HasReader(c)',
           conn'[c].ip = dial[d].ip
    PROVE  \A ips : HoldsOf(ips)' = HoldsOf(ips)
<1>1. SUFFICES ASSUME NEW ips PROVE HoldsOf(ips)' = HoldsOf(ips)
  OBVIOUS
<1>2. /\ ThreadHolds(d, ips)' = 0 /\ SessionHolds(c, ips) = 0
      /\ ThreadHolds(d, ips) = IF dial[d].ip \in ips THEN 1 ELSE 0
      /\ SessionHolds(c, ips)' = IF dial[d].ip \in ips THEN 1 ELSE 0
  BY DEF ThreadHolds, HoldingThreads, Holding, SessionHolds, HoldingSessions
<1>3. QED
  BY <1>2, OneThreadMoves, OneSessionMoves DEF HoldsOf

\* Maintenance only forgets sessions that have no reader.
LEMMA RetiresQuietly ==
    ASSUME TypeOK, Retires
    PROVE  \A c \in Conns : /\ HasReader(c)' = HasReader(c)
                            /\ HasReader(c) => conn'[c] = conn[c]
BY RestTyped DEF Retires, HasReader, TypeOK

LEMMA SlotsNext == TypeOK /\ TypeOK' /\ SlotsExact /\ [Next]_vars => SlotsExact'
<1> SUFFICES ASSUME TypeOK, TypeOK', SlotsExact, [Next]_vars PROVE SlotsExact'
  OBVIOUS
<1> USE DEF peerBook, sessions, threads, stopVars
<1>0. ASSUME UNCHANGED quota,
             \A d \in Makers :
               Holding(d)' = Holding(d) /\ (Holding(d) => dial'[d].ip = dial[d].ip),
             \A c \in Conns :
               HasReader(c)' = HasReader(c) /\ (HasReader(c) => conn'[c].ip = conn[c].ip)
      PROVE  SlotsExact'
  BY <1>0, StandStill, SlotsKept
<1>1. ASSUME NEW d \in Users, NEW e \in Endpoints, UserDials(d, e) PROVE SlotsExact'
  BY <1>0, <1>1 DEF UserDials, Holding, HasReader, TypeOK
<1>2. ASSUME NEW d \in Makers, DialSteps(d) PROVE SlotsExact'
  <2> dial[d].ip \in Ips
    BY DEF TypeOK
  <2>1. CASE LooksUp(d)
    <3>1. ~Holding(d) /\ ~Holding(d)' /\ \A x \in Makers \ {d} : dial'[x] = dial[x]
      BY <2>1, ReturnTyped, GotoTyped DEF LooksUp, Holding, Steps
    <3>2. QED
      BY <1>0, <2>1, <3>1 DEF LooksUp, Holding, HasReader
  <2>2. CASE Connects(d)
    <3>1. ~Holding(d)
      BY <2>2 DEF Connects, Holding
    <3>2. CASE MayAcquire(dial[d].ip) /\ Acquire(dial[d].ip) /\ Goto(d, "slot")
      <4>1. /\ Holding(d)' /\ dial'[d].ip = dial[d].ip
            /\ \A x \in Makers \ {d} : dial'[x] = dial[x]
        BY <3>2, GotoTyped DEF Holding, Steps
      <4>2. \A ips : HoldsOf(ips)' = HoldsOf(ips) + IF dial[d].ip \in ips THEN 1 ELSE 0
        BY <2>2, <3>1, <4>1, ThreadTakes DEF Connects
      <4>3. QED
        BY <3>2, <4>2, SlotTaken
    <3>3. CASE UNCHANGED quota /\ Return(d, FALSE)
      <4>1. ~Holding(d)' /\ \A x \in Makers \ {d} : dial'[x] = dial[x]
        BY <3>3, ReturnTyped
      <4>2. QED
        BY <1>0, <2>2, <3>1, <3>3, <4>1 DEF Connects, Holding, HasReader
    <3>4. QED
      BY <2>2, <3>2, <3>3 DEF Connects
  <2>3. CASE Rechecks(d)
    <3>1. Holding(d)
      BY <2>3 DEF Rechecks, Holding
    <3>2. CASE stopping
      <4>1. ~Holding(d)' /\ \A x \in Makers \ {d} : dial'[x] = dial[x]
        BY <2>3, <3>2, ReturnTyped DEF Rechecks
      <4>2. \A ips : /\ HoldsOf(ips)' = HoldsOf(ips) - IF dial[d].ip \in ips THEN 1 ELSE 0
                     /\ dial[d].ip \in ips => HoldsOf(ips) >= 1
        BY <2>3, <3>1, <4>1, ThreadGives DEF Rechecks
      <4>3. QED
        BY <2>3, <3>2, <4>2, SlotGiven DEF Rechecks
    <3>3. CASE ~stopping
      <4>1. /\ Holding(d)' /\ dial'[d].ip = dial[d].ip
            /\ \A x \in Makers \ {d} : dial'[x] = dial[x]
        BY <2>3, <3>3, GotoTyped DEF Rechecks, Holding, Steps
      <4>2. QED
        BY <1>0, <2>3, <3>1, <3>3, <4>1 DEF Rechecks, Holding, HasReader
    <3>4. QED
      BY <3>2, <3>3
  <2>4. QED
    BY <1>2, <2>1, <2>2, <2>3 DEF DialSteps
<1>3. ASSUME NEW d \in Makers, MakeSteps(d) PROVE SlotsExact'
  <2> dial[d].ip \in Ips
    BY DEF TypeOK
  <2>1. CASE Admits(d)
    <3>1. Holding(d)
      BY <2>1 DEF Admits, Holding
    <3>2. CASE ~stopping
      <4>1. PICK c \in Conns :
              /\ ~HasReader(c)
              /\ conn' = [conn EXCEPT ![c] = [phase |-> "hello", ip |-> dial[d].ip,
                                              target |-> dial[d].ep, ep |-> NoEndpoint]]
        BY <2>1, <3>2 DEF Admits
      <4>2. /\ ~Holding(d)' /\ \A x \in Makers \ {d} : dial'[x] = dial[x]
            /\ UNCHANGED quota
        BY <2>1, <3>2, ReturnTyped DEF Admits
      <4>3. /\ HasReader(c)' /\ conn'[c].ip = dial[d].ip
            /\ \A x \in Conns \ {c} : conn'[x] = conn[x]
        BY <4>1 DEF HasReader, TypeOK
      <4>4. \A ips : HoldsOf(ips)' = HoldsOf(ips)
        BY <3>1, <4>1, <4>2, <4>3, SlotHandedOver
      <4>5. QED
        BY <4>2, <4>4, SlotsKept
    <3>3. CASE stopping
      <4>1. /\ Holding(d)' /\ dial'[d].ip = dial[d].ip
            /\ \A x \in Makers \ {d} : dial'[x] = dial[x]
        BY <2>1, <3>3, GotoTyped DEF Admits, Holding, Steps
      <4>2. QED
        BY <1>0, <2>1, <3>1, <3>3, <4>1 DEF Admits, Holding, HasReader
    <3>4. QED
      BY <3>2, <3>3
  <2>2. CASE Rejects(d)
    <3>1. /\ Holding(d) /\ Holding(d)' /\ dial'[d].ip = dial[d].ip
          /\ \A x \in Makers \ {d} : dial'[x] = dial[x]
      BY <2>2, GotoTyped DEF Rejects, Holding, Steps
    <3>2. QED
      BY <1>0, <2>2, <3>1 DEF Rejects, Holding, HasReader
  <2>3. CASE Refunds(d)
    <3>1. /\ Holding(d) /\ ~Holding(d)' /\ \A x \in Makers \ {d} : dial'[x] = dial[x]
      BY <2>3, ReturnTyped DEF Refunds, Holding
    <3>2. \A ips : /\ HoldsOf(ips)' = HoldsOf(ips) - IF dial[d].ip \in ips THEN 1 ELSE 0
                   /\ dial[d].ip \in ips => HoldsOf(ips) >= 1
      BY <2>3, <3>1, ThreadGives DEF Refunds
    <3>3. QED
      BY <2>3, <3>2, SlotGiven DEF Refunds
  <2>4. QED
    BY <1>3, <2>1, <2>2, <2>3 DEF MakeSteps
<1>4. ASSUME NEW d \in Makers, Fails(d) PROVE SlotsExact'
  <2>1. /\ Holding(d) /\ Holding(d)' /\ dial'[d].ip = dial[d].ip
        /\ \A x \in Makers \ {d} : dial'[x] = dial[x]
    BY <1>4, GotoTyped DEF Fails, Holding, Steps
  <2>2. QED
    BY <1>0, <1>4, <2>1 DEF Fails, Holding, HasReader
<1>5. CASE RedialSteps
  <2> "redial" \in Makers
    BY DEF Makers, Dialers
  <2>1. /\ ~Holding("redial") /\ ~Holding("redial")'
        /\ \A x \in Makers \ {"redial"} : dial'[x] = dial[x]
    BY <1>5, GotoTyped, RestTyped
       DEF RedialSteps, RedialCleans, RedialClaims, RedialNext, RedialFailed, Holding, Steps, TypeOK
  <2>2. \A c \in Conns : /\ HasReader(c)' = HasReader(c)
                         /\ HasReader(c) => conn'[c].ip = conn[c].ip
    BY <1>5, RetiresQuietly
       DEF RedialSteps, RedialCleans, RedialClaims, RedialNext, RedialFailed, HasReader
  <2>3. UNCHANGED quota
    BY <1>5 DEF RedialSteps, RedialCleans, RedialClaims, RedialNext, RedialFailed, Retires
  <2>4. QED
    BY <1>0, <2>1, <2>2, <2>3 DEF Holding
<1>6. CASE AcceptCleans
  <2>1. /\ "accept" \in Makers /\ ~Holding("accept") /\ ~Holding("accept")'
        /\ \A x \in Makers \ {"accept"} : dial'[x] = dial[x]
    BY <1>6, GotoTyped DEF AcceptCleans, Holding, Steps, Makers
  <2>2. \A c \in Conns : /\ HasReader(c)' = HasReader(c)
                         /\ HasReader(c) => conn'[c].ip = conn[c].ip
    BY <1>6, RetiresQuietly DEF AcceptCleans, HasReader
  <2>3. QED
    BY <1>0, <1>6, <2>1, <2>2 DEF AcceptCleans, Retires, Holding
<1>7. CASE Accepts
  <2>1. "accept" \in Makers /\ ~Holding("accept")
    BY <1>7 DEF Accepts, Holding, Makers
  <2>2. ASSUME NEW ip \in Ips, MayAcquire(ip), Acquire(ip),
               dial' = [dial EXCEPT !["accept"] = [pc |-> "made", ep |-> NoEndpoint, ip |-> ip]]
        PROVE  SlotsExact'
    <3>1. /\ Holding("accept")' /\ dial'["accept"].ip = ip
          /\ \A x \in Makers \ {"accept"} : dial'[x] = dial[x]
      BY <2>1, <2>2 DEF Holding, TypeOK
    <3>2. \A ips : HoldsOf(ips)' = HoldsOf(ips) + IF ip \in ips THEN 1 ELSE 0
      BY <1>7, <2>1, <3>1, ThreadTakes DEF Accepts
    <3>3. QED
      BY <2>2, <3>2, SlotTaken
  <2>3. CASE Goto("accept", "idle") /\ UNCHANGED quota
    <3>1. ~Holding("accept")' /\ \A x \in Makers \ {"accept"} : dial'[x] = dial[x]
      BY <2>1, <2>3, GotoTyped DEF Holding, Steps
    <3>2. QED
      BY <1>0, <1>7, <2>1, <2>3, <3>1 DEF Accepts, Holding, HasReader
  <2>4. QED
    BY <1>7, <2>2, <2>3 DEF Accepts
<1>8. ASSUME NEW c \in Conns, Handshakes(c) PROVE SlotsExact'
  <2>1. /\ \A x \in Conns \ {c} : conn'[x] = conn[x]
        /\ conn[c].phase = "hello" /\ conn'[c].phase = "ready"
        /\ conn'[c].ip = conn[c].ip
    BY <1>8 DEF Handshakes, TypeOK
  <2>2. \A x \in Conns : /\ HasReader(x)' = HasReader(x)
                         /\ HasReader(x) => conn'[x].ip = conn[x].ip
    BY <2>1 DEF HasReader
  <2>3. QED
    BY <1>0, <1>8, <2>2 DEF Handshakes, Holding
<1>9. ASSUME NEW c \in Conns, Dies(c) \/ Misbehaves(c) \/ Leaves(c) PROVE SlotsExact'
  <2>1. \E phase \in {"dying", "leaving"} : Becomes(c, phase)
    BY <1>9 DEF Dies, Misbehaves, Leaves
  <2>2. /\ \A x \in Conns \ {c} : conn'[x] = conn[x]
        /\ conn'[c].phase \in {"dying", "leaving"} /\ conn'[c].ip = conn[c].ip
    BY <2>1, BecomesTyped DEF Phases
  <2>3. HasReader(c)
    BY <1>9 DEF Dies, Misbehaves, Leaves, Running, HasReader
  <2>4. QED
    BY <1>0, <1>9, <2>2, <2>3 DEF Dies, Misbehaves, Leaves, HasReader, Holding
<1>10. ASSUME NEW c \in Conns, ReaderExits(c) PROVE SlotsExact'
  <2>1. /\ \A x \in Conns \ {c} : conn'[x] = conn[x]
        /\ HasReader(c) /\ ~HasReader(c)' /\ conn[c].ip \in Ips
    BY <1>10, BecomesTyped DEF ReaderExits, HasReader, Phases, TypeOK
  <2>2. \A ips : /\ HoldsOf(ips)' = HoldsOf(ips) - IF conn[c].ip \in ips THEN 1 ELSE 0
                 /\ conn[c].ip \in ips => HoldsOf(ips) >= 1
    BY <1>10, <2>1, SessionGives DEF ReaderExits
  <2>3. QED
    BY <1>10, <2>1, <2>2, SlotGiven DEF ReaderExits
<1>11. CASE Stops \/ JoinsLoop \/ TakesOver \/ Stopped
  BY <1>0, <1>11 DEF Stops, JoinsLoop, TakesOver, Stopped, Holding, HasReader
<1>12. ASSUME NEW c \in Conns, ClosesPeer(c) PROVE SlotsExact'
  <2>1. \A x \in Conns \ {c} : conn'[x] = conn[x]
    BY <1>12, BecomesTyped DEF ClosesPeer, Phases, TypeOK
  <2>2. HasReader(c)' = HasReader(c) /\ (HasReader(c) => conn'[c].ip = conn[c].ip)
    BY <1>12, BecomesTyped, RestTyped DEF ClosesPeer, Running, HasReader, Phases, TypeOK
  <2>3. QED
    BY <1>0, <1>12, <2>1, <2>2 DEF ClosesPeer, Holding, HasReader
<1>13. CASE TimePasses \/ UNCHANGED vars
  BY <1>0, <1>13 DEF TimePasses, Elapses, vars, Holding, HasReader
<1>14. QED
  BY <1>1, <1>2, <1>3, <1>4, <1>5, <1>6, <1>7, <1>8, <1>9, <1>10, <1>11, <1>12, <1>13
     DEF Next, StopSteps, AcceptSteps, Ending

\* Whichever way a session ends, its slot comes back once: the counters are the slots
\* that threads and sessions hold, and within their limits.
THEOREM SlotsAreExact == Spec => []SlotsExact
<1>1. Init => TypeOK /\ SlotsExact
  BY TypeInit, SlotsInit
<1>2. TypeOK /\ SlotsExact /\ [Next]_vars => TypeOK' /\ SlotsExact'
  BY TypeNext, SlotsNext
<1>3. QED
  BY <1>1, <1>2, PTL DEF Spec

----------------------------------------------------------------------------
(* The book counts the sessions *)

On(e) == {c \in Conns : conn[c].ep = e /\ conn[c].phase \in {"ready", "dying"}}

\* A session that has only said hello is on no endpoint; an endpoint that the book
\* has no room for stays out of it as long as there is a session on it.
BookInv ==
    /\ VerifiedExact
    /\ \A c \in Conns : conn[c].phase = "hello" => conn[c].ep = NoEndpoint
    /\ \A e \in Endpoints : ~Contains(book, e) /\ On(e) # {} => Len(book) >= MaxBook

LEMMA OnFinite == \A e : IsFiniteSet(On(e)) /\ Cardinality(On(e)) \in Nat
BY FS_Subset, FS_CardinalityType, SessionAssumption DEF On, SessionAssumption

LEMMA OnFiniteNext == \A e : IsFiniteSet(On(e)') /\ Cardinality(On(e)') \in Nat
BY FS_Subset, FS_CardinalityType, SessionAssumption DEF On, SessionAssumption

LEMMA VerifiedIsOn ==
    VerifiedExact <=> \A e \in Endpoints :
      verified[e] = IF Contains(book, e) THEN Cardinality(On(e)) ELSE 0
BY DEF VerifiedExact, On

LEMMA VerifiedIsOnNext ==
    VerifiedExact' <=> \A e \in Endpoints :
      verified'[e] = IF Contains(book', e) THEN Cardinality(On(e)') ELSE 0
BY DEF VerifiedExact, On

LEMMA BookInit0 == Init => BookInv
<1> SUFFICES ASSUME Init PROVE BookInv
  OBVIOUS
<1>1. \A e : On(e) = {}
  BY RestTyped DEF Init, On
<1>2. \A e \in Endpoints : verified[e] = 0 /\ ~Contains(book, e)
  BY DEF Init, BookInit, Contains
<1>3. \A c \in Conns : conn[c].phase # "hello"
  BY RestTyped DEF Init
<1>4. QED
  BY <1>1, <1>2, <1>3, VerifiedIsOn DEF BookInv

\* A step that leaves the counts alone and moves no session on or off an endpoint.
LEMMA BookKept ==
    ASSUME BookInv, UNCHANGED <<verified, book>>,
           \A c \in Conns :
             \/ conn'[c] = conn[c]
             \/ conn'[c].phase = "hello" /\ conn'[c].ep = NoEndpoint
                /\ conn[c].phase \notin {"ready", "dying"}
             \/ conn'[c].ep = conn[c].ep /\ conn[c].phase \in {"ready", "dying"}
                /\ conn'[c].phase \in {"ready", "dying"}
             \/ conn[c].phase \notin {"ready", "dying"}
                /\ conn'[c].phase \notin {"hello", "ready", "dying"}
             \/ conn[c].ep = NoEndpoint /\ conn'[c].ep = NoEndpoint
    PROVE  BookInv'
<1>1. ASSUME NEW e \in Endpoints PROVE On(e)' = On(e)
  BY BookAssumption DEF On, BookAssumption
<1>2. VerifiedExact'
  BY <1>1, VerifiedIsOn, VerifiedIsOnNext DEF BookInv
<1>3. \A c \in Conns : conn'[c].phase = "hello" => conn'[c].ep = NoEndpoint
  BY DEF BookInv
<1>4. QED
  BY <1>1, <1>2, <1>3 DEF BookInv

LEMMA AppendContains ==
    ASSUME NEW s \in Seq(Endpoints), NEW e \in Endpoints
    PROVE  \A x : Contains(Append(s, e), x) <=> Contains(s, x) \/ x = e
<1>1. /\ Append(s, e) \in Seq(Endpoints) /\ Len(Append(s, e)) = Len(s) + 1
      /\ Append(s, e)[Len(s) + 1] = e /\ Len(s) \in Nat
      /\ \A i \in 1..Len(s) : Append(s, e)[i] = s[i]
  OBVIOUS
<1>2. \A i \in 1..(Len(s) + 1) : i \in 1..Len(s) \/ i = Len(s) + 1
  BY <1>1
<1>3. \A i \in 1..Len(s) : i \in 1..(Len(s) + 1)
  BY <1>1
<1>4. Len(s) + 1 \in 1..(Len(s) + 1)
  BY <1>1
<1>5. QED
  BY <1>1, <1>2, <1>3, <1>4, Zenon DEF Contains

\* A valid VERSION puts the session on its endpoint and the endpoint in the book.
LEMMA HandshakeCounts ==
    ASSUME TypeOK, BookInv, NEW c \in Conns, Handshakes(c)
    PROVE  BookInv'
<1>1. PICK e \in Target :
        /\ IF e = NoEndpoint THEN UNCHANGED redials ELSE AddPeer(e)
        /\ conn' = [conn EXCEPT ![c].phase = "ready", ![c].ep = e]
  BY DEF Handshakes, Target, TypeOK
<1>2. /\ conn[c].phase = "hello" /\ conn[c].ep = NoEndpoint
      /\ conn'[c].phase = "ready" /\ conn'[c].ep = e
      /\ \A x \in Conns \ {c} : conn'[x] = conn[x]
  BY <1>1 DEF Handshakes, BookInv, TypeOK
<1>3. CASE e = NoEndpoint
  BY <1>1, <1>2, <1>3, BookKept DEF redials
<1>4. CASE e # NoEndpoint
  <2>1. e \in Endpoints /\ AddPeer(e)
    BY <1>1, <1>4 DEF Target
  <2>2. ASSUME NEW x \in Endpoints, x # e PROVE On(x)' = On(x)
    BY <1>2, <2>2, BookAssumption DEF On, BookAssumption
  <2>3. c \notin On(e) /\ On(e)' = On(e) \cup {c}
    BY <1>2 DEF On
  <2>4. Cardinality(On(e)') = Cardinality(On(e)) + 1
    BY <2>3, OnFinite, FS_AddElement
  <2>5. \A x \in Conns : conn'[x].phase = "hello" => conn'[x].ep = NoEndpoint
    BY <1>2 DEF BookInv
  <2>6. CASE ~Contains(book, e) /\ Len(book) >= MaxBook
    <3>1. UNCHANGED <<verified, book>>
      BY <2>1, <2>6 DEF AddPeer, redials
    <3>2. ASSUME NEW x \in Endpoints
          PROVE  /\ verified'[x] = IF Contains(book', x) THEN Cardinality(On(x)') ELSE 0
                 /\ ~Contains(book', x) /\ On(x)' # {} => Len(book') >= MaxBook
      <4>1. CASE x = e
        BY <2>6, <3>1, <4>1, VerifiedIsOn DEF BookInv
      <4>2. CASE x # e
        BY <2>2, <3>1, <4>2, VerifiedIsOn DEF BookInv
      <4>3. QED
        BY <4>1, <4>2
    <3>3. QED
      BY <2>5, <3>2, VerifiedIsOnNext DEF BookInv
  <2>7. CASE Contains(book, e) \/ ~(Len(book) >= MaxBook)
    <3>1. /\ verified' = [verified EXCEPT ![e] = @ + 1]
          /\ book' = IF Contains(book, e) THEN book ELSE Append(book, e)
          /\ verified \in [Endpoints -> Nat] /\ book \in Seq(Endpoints)
      BY <2>1, <2>7 DEF AddPeer, TypeOK, BookTypeOK
    <3>2. \A x : Contains(book', x) <=> Contains(book, x) \/ x = e
      BY <2>1, <3>1, AppendContains
    <3>3. Len(book') >= Len(book)
      BY <3>1, <2>1
    <3>4. verified'[e] = Cardinality(On(e)')
      <4>1. CASE Contains(book, e)
        BY <2>1, <2>4, <3>1, <4>1, VerifiedIsOn DEF BookInv
      <4>2. CASE ~Contains(book, e)
        <5>1. On(e) = {} /\ verified[e] = 0
          BY <2>1, <2>7, <4>2, VerifiedIsOn DEF BookInv
        <5>2. Cardinality(On(e)) = 0
          BY <5>1, FS_EmptySet
        <5>3. QED
          BY <2>1, <2>4, <3>1, <5>1, <5>2
      <4>3. QED
        BY <4>1, <4>2
    <3>5. ASSUME NEW x \in Endpoints
          PROVE  /\ verified'[x] = IF Contains(book', x) THEN Cardinality(On(x)') ELSE 0
                 /\ ~Contains(book', x) /\ On(x)' # {} => Len(book') >= MaxBook
      <4>1. CASE x = e
        BY <3>2, <3>4, <4>1
      <4>2. CASE x # e
        <5>1. verified'[x] = verified[x] /\ On(x)' = On(x)
          BY <2>2, <3>1, <4>2
        <5>2. ~Contains(book, x) /\ On(x) # {} => Len(book) >= MaxBook
          BY DEF BookInv
        <5>3. Len(book') \in Nat /\ Len(book) \in Nat /\ MaxBook \in Nat
          BY <3>1, <2>1, BookAssumption DEF BookAssumption
        <5>4. ~Contains(book', x) /\ On(x)' # {} => Len(book') >= MaxBook
          BY <3>2, <3>3, <5>1, <5>2, <5>3
        <5>5. QED
          BY <3>2, <4>2, <5>1, <5>4, VerifiedIsOn DEF BookInv
      <4>3. QED
        BY <4>1, <4>2
    <3>6. QED
      BY <2>5, <3>5, VerifiedIsOnNext DEF BookInv
  <2>8. QED
    BY <2>6, <2>7
<1>5. QED
  BY <1>3, <1>4

\* A session leaves the endpoint it is on, or none.
LEMMA LeavingCounts ==
    ASSUME TypeOK, BookInv, NEW c \in Conns, Leaves(c)
    PROVE  BookInv'
<1>1. /\ conn[c].phase = "dying" /\ conn'[c].phase = "leaving" /\ conn'[c].ep = conn[c].ep
      /\ \A x \in Conns \ {c} : conn'[x] = conn[x]
  BY BecomesTyped DEF Leaves, Phases
<1>2. CASE conn[c].ep = NoEndpoint
  <2>1. UNCHANGED <<verified, book>>
    BY <1>2 DEF Leaves, NoteFailure, redials
  <2>2. QED
    BY <1>1, <1>2, <2>1, BookKept
<1>3. CASE conn[c].ep # NoEndpoint
  <2>0. PICK e \in Endpoints : e = conn[c].ep
    BY <1>3 DEF TypeOK, Target
  <2>1. e \in Endpoints /\ ReleaseVerified(e)
    BY <1>3, <2>0 DEF Leaves
  <2>2. /\ book' = book /\ verified \in [Endpoints -> Nat]
        /\ verified' = [verified EXCEPT ![e] = IF @ = 0 THEN 0 ELSE @ - 1]
    BY <2>1 DEF ReleaseVerified, TypeOK, BookTypeOK
  <2>3. ASSUME NEW x \in Endpoints, x # e PROVE On(x)' = On(x)
    BY <1>1, <2>0, <2>3 DEF On
  <2>4. c \in On(e) /\ On(e)' = On(e) \ {c}
    BY <1>1, <2>0 DEF On
  <2>5. Cardinality(On(e)') = Cardinality(On(e)) - 1
    BY <2>4, OnFinite, FS_RemoveElement
  <2>6. \A x \in Conns : conn'[x].phase = "hello" => conn'[x].ep = NoEndpoint
    BY <1>1 DEF BookInv
  <2>7. ASSUME NEW x \in Endpoints
        PROVE  /\ verified'[x] = IF Contains(book', x) THEN Cardinality(On(x)') ELSE 0
               /\ ~Contains(book', x) /\ On(x)' # {} => Len(book') >= MaxBook
    <3>1. CASE x = e
      <4>1. verified[e] = IF Contains(book, e) THEN Cardinality(On(e)) ELSE 0
        BY <2>1, VerifiedIsOn DEF BookInv
      <4>2. Cardinality(On(e)') \in Nat /\ Cardinality(On(e)) \in Nat
        BY OnFinite, OnFiniteNext
      <4>3. verified'[e] = IF verified[e] = 0 THEN 0 ELSE verified[e] - 1
        BY <2>1, <2>2
      <4>4. verified'[e] = IF Contains(book', e) THEN Cardinality(On(e)') ELSE 0
        BY <2>2, <2>5, <4>1, <4>2, <4>3
      <4>5. ~Contains(book, e) => Len(book) >= MaxBook
        BY <2>1, <2>4 DEF BookInv
      <4>6. QED
        BY <2>2, <3>1, <4>4, <4>5
    <3>2. CASE x # e
      BY <2>2, <2>3, <3>2, VerifiedIsOn DEF BookInv
    <3>3. QED
      BY <3>1, <3>2
  <2>8. QED
    BY <2>6, <2>7, VerifiedIsOnNext DEF BookInv
<1>4. QED
  BY <1>2, <1>3

LEMMA BookNext == TypeOK /\ BookInv /\ [Next]_vars => BookInv'
<1> SUFFICES ASSUME TypeOK, BookInv, [Next]_vars PROVE BookInv'
  OBVIOUS
<1> USE DEF peerBook, quota, redials, sessions, threads, stopVars
<1>1. ASSUME UNCHANGED <<verified, book, conn>> PROVE BookInv'
  BY <1>1, BookKept
<1>2. ASSUME NEW d \in Users, NEW e \in Endpoints, UserDials(d, e) PROVE BookInv'
  BY <1>1, <1>2 DEF UserDials
<1>3. ASSUME NEW d \in Makers, DialSteps(d) \/ Rejects(d) \/ Refunds(d) \/ Fails(d)
      PROVE  BookInv'
  BY <1>1, <1>3 DEF DialSteps, LooksUp, Connects, Rechecks, Rejects, Refunds, Fails, NoteFailure
<1>4. ASSUME NEW d \in Makers, Admits(d) PROVE BookInv'
  <2>1. CASE stopping
    BY <1>1, <1>4, <2>1 DEF Admits
  <2>2. CASE ~stopping
    <3>1. PICK c \in Conns :
            /\ ~HasReader(c)
            /\ conn' = [conn EXCEPT ![c] = [phase |-> "hello", ip |-> dial[d].ip,
                                            target |-> dial[d].ep, ep |-> NoEndpoint]]
      BY <1>4, <2>2 DEF Admits
    <3>2. /\ conn'[c].phase = "hello" /\ conn'[c].ep = NoEndpoint
          /\ conn[c].phase \notin {"ready", "dying"}
          /\ \A x \in Conns \ {c} : conn'[x] = conn[x]
      BY <3>1 DEF HasReader, TypeOK
    <3>3. UNCHANGED <<verified, book>>
      BY <1>4 DEF Admits
    <3>4. QED
      BY <3>2, <3>3, BookKept
  <2>3. QED
    BY <2>1, <2>2
<1>5. ASSUME Retires, UNCHANGED <<verified, book>> PROVE BookInv'
  <2>1. \A c \in Conns : \/ conn'[c] = conn[c]
                         \/ conn[c].phase = "gone" /\ conn'[c].phase = "free"
    BY <1>5, RestTyped DEF Retires
  <2>2. QED
    BY <1>5, <2>1, BookKept
<1>6. CASE RedialSteps \/ AcceptSteps
  BY <1>1, <1>5, <1>6 DEF RedialSteps, RedialCleans, RedialClaims, RedialNext, RedialFailed,
       NoteFailure, AcceptSteps, AcceptCleans, Accepts
<1>7. ASSUME NEW c \in Conns, Dies(c) \/ Misbehaves(c) PROVE BookInv'
  <2>1. Running(c) /\ Becomes(c, "dying") /\ UNCHANGED <<verified, book>>
    BY <1>7 DEF Dies, Misbehaves
  <2>2. /\ conn'[c].phase = "dying" /\ conn'[c].ep = conn[c].ep
        /\ \A x \in Conns \ {c} : conn'[x] = conn[x]
    BY <2>1, BecomesTyped DEF Phases
  <2>3. conn[c].phase = "ready" \/ conn[c].ep = NoEndpoint
    BY <2>1 DEF Running, BookInv
  <2>4. QED
    BY <2>1, <2>2, <2>3, BookKept
<1>8. ASSUME NEW c \in Conns, ReaderExits(c) PROVE BookInv'
  <2>1. /\ conn[c].phase = "leaving" /\ conn'[c].phase = "gone"
        /\ \A x \in Conns \ {c} : conn'[x] = conn[x] /\ UNCHANGED <<verified, book>>
    BY <1>8, BecomesTyped DEF ReaderExits, Phases
  <2>2. UNCHANGED <<verified, book>>
    BY <1>8 DEF ReaderExits
  <2>3. QED
    BY <2>1, <2>2, BookKept
<1>9. CASE Stops \/ JoinsLoop \/ TakesOver \/ Stopped \/ TimePasses \/ UNCHANGED vars
  BY <1>1, <1>9 DEF Stops, JoinsLoop, TakesOver, Stopped, TimePasses, Elapses, vars
<1>10. ASSUME NEW c \in Conns, ClosesPeer(c) PROVE BookInv'
  <2>1. UNCHANGED <<verified, book>>
    BY <1>10 DEF ClosesPeer
  <2>2. CASE Running(c) /\ Becomes(c, "dying")
    <3>1. /\ conn'[c].phase = "dying" /\ conn'[c].ep = conn[c].ep
          /\ \A x \in Conns \ {c} : conn'[x] = conn[x]
      BY <2>2, BecomesTyped DEF Phases
    <3>2. conn[c].phase = "ready" \/ conn[c].ep = NoEndpoint
      BY <2>2 DEF Running, BookInv
    <3>3. QED
      BY <2>1, <3>1, <3>2, BookKept
  <2>3. CASE conn[c].phase = "gone" /\ conn' = [conn EXCEPT ![c] = NoConn]
    <3>1. conn'[c].phase = "free" /\ \A x \in Conns \ {c} : conn'[x] = conn[x]
      BY <2>3, RestTyped DEF TypeOK
    <3>2. QED
      BY <2>1, <2>3, <3>1, BookKept
  <2>4. QED
    BY <1>10, <2>2, <2>3 DEF ClosesPeer
<1>11. QED
  BY <1>2, <1>3, <1>4, <1>6, <1>7, <1>8, <1>9, <1>10, HandshakeCounts, LeavingCounts
     DEF Next, StopSteps, MakeSteps, Ending

\* An endpoint in the book counts the sessions that are on it, so it is redialled when the
\* last has gone and not before; one that the book had no room for counts none.
THEOREM BookIsExact == Spec => []VerifiedExact
<1>1. Init => TypeOK /\ BookInv
  BY TypeInit, BookInit0
<1>2. TypeOK /\ BookInv /\ [Next]_vars => TypeOK' /\ BookInv'
  BY TypeNext, BookNext
<1>3. BookInv => VerifiedExact
  BY DEF BookInv
<1>4. QED
  BY <1>1, <1>2, <1>3, PTL DEF Spec

----------------------------------------------------------------------------
(* After the shutdown *)

\* Every reader belongs to a session that is listed or that stop() has taken over, and
\* once the list was taken over nothing is listed any more.
StopInv ==
    /\ \A c \in Conns : HasReader(c) => c \in peers \cup closing
    /\ life \in {"closing", "stopped"} => peers = {}
    /\ life # "closing" => closing = {}

LEMMA StopNext == TypeOK /\ StopInv /\ [Next]_vars => StopInv'
<1> SUFFICES ASSUME TypeOK, StopInv, [Next]_vars PROVE StopInv'
  OBVIOUS
<1> USE DEF peerBook, quota, redials, sessions, threads, stopVars
<1>1. ASSUME UNCHANGED <<sessions, stopVars>> PROVE StopInv'
  BY <1>1 DEF StopInv, HasReader
<1>2. ASSUME NEW d \in Makers, Admits(d) PROVE StopInv'
  <2>1. CASE stopping
    BY <1>1, <1>2, <2>1 DEF Admits
  <2>2. CASE ~stopping
    <3>1. PICK c \in Conns :
            /\ conn' = [conn EXCEPT ![c] = [phase |-> "hello", ip |-> dial[d].ip,
                                            target |-> dial[d].ep, ep |-> NoEndpoint]]
            /\ peers' = peers \cup {c}
      BY <1>2, <2>2 DEF Admits
    <3>2. \A x \in Conns \ {c} : conn'[x] = conn[x]
      BY <3>1
    <3>3. UNCHANGED <<life, closing>> /\ life = "up"
      BY <1>2, <2>2 DEF Admits, stopping
    <3>4. QED
      BY <3>1, <3>2, <3>3 DEF StopInv, HasReader
  <2>3. QED
    BY <2>1, <2>2
<1>3. ASSUME Retires, UNCHANGED stopVars PROVE StopInv'
  BY <1>3, RestTyped DEF Retires, StopInv, HasReader
<1>4. CASE RedialSteps \/ AcceptSteps
  BY <1>1, <1>3, <1>4 DEF RedialSteps, RedialCleans, RedialClaims, RedialNext, RedialFailed,
       AcceptSteps, AcceptCleans, Accepts
<1>5. ASSUME NEW c \in Conns, Handshakes(c) \/ Dies(c) \/ Misbehaves(c) \/ Ending(c)
      PROVE  StopInv'
  <2>1. HasReader(c) /\ UNCHANGED <<peers, stopVars>>
    BY <1>5 DEF Handshakes, Dies, Misbehaves, Ending, Leaves, ReaderExits, Running, HasReader
  <2>2. \A x \in Conns \ {c} : conn'[x] = conn[x]
    BY <1>5 DEF Handshakes, Dies, Misbehaves, Ending, Leaves, ReaderExits, Becomes, TypeOK
  <2>3. QED
    BY <2>1, <2>2 DEF StopInv, HasReader
<1>6. CASE Stops \/ JoinsLoop \/ TakesOver \/ Stopped
  BY <1>6 DEF Stops, JoinsLoop, TakesOver, Stopped, StopInv, HasReader
<1>7. ASSUME NEW c \in Conns, ClosesPeer(c) PROVE StopInv'
  <2>1. CASE Running(c) /\ Becomes(c, "dying") /\ UNCHANGED closing
    <3>1. \A x \in Conns \ {c} : conn'[x] = conn[x]
      BY <2>1, BecomesTyped DEF Phases
    <3>2. QED
      BY <1>7, <2>1, <3>1 DEF ClosesPeer, StopInv, HasReader
  <2>2. CASE conn' = [conn EXCEPT ![c] = NoConn] /\ closing' = closing \ {c}
    <3>1. /\ \A x \in Conns \ {c} : conn'[x] = conn[x]
          /\ conn'[c].phase = "free"
      BY <2>2, RestTyped DEF TypeOK
    <3>2. QED
      BY <1>7, <2>2, <3>1 DEF ClosesPeer, StopInv, HasReader
  <2>3. QED
    BY <1>7, <2>1, <2>2 DEF ClosesPeer
<1>8. CASE \/ \E d \in Users, e \in Endpoints : UserDials(d, e)
           \/ \E d \in Makers : DialSteps(d) \/ Rejects(d) \/ Refunds(d) \/ Fails(d)
           \/ TimePasses \/ UNCHANGED vars
  BY <1>1, <1>8 DEF UserDials, DialSteps, LooksUp, Connects, Rechecks, Rejects, Refunds, Fails,
       TimePasses, vars
<1>9. QED
  BY <1>2, <1>4, <1>5, <1>6, <1>7, <1>8 DEF Next, StopSteps, MakeSteps

\* Once stop() is through no session is listed and no reader runs, whatever was being
\* dialled or admitted when it began: that it comes to this end is StopEnds.
StopIsFinal == life = "stopped" => peers = {} /\ \A c \in Conns : ~HasReader(c)

THEOREM NothingRunsAfterStop == Spec => []StopIsFinal
<1>1. Init => TypeOK /\ StopInv
  BY TypeInit, RestTyped DEF Init, StopInv, HasReader
<1>2. TypeOK /\ StopInv /\ [Next]_vars => TypeOK' /\ StopInv'
  BY TypeNext, StopNext
<1>3. StopInv => StopIsFinal
  BY DEF StopInv, StopIsFinal
<1>4. QED
  BY <1>1, <1>2, <1>3, PTL DEF Spec
=============================================================================
