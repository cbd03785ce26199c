---------------------------- MODULE PeerSessions ----------------------------
(***************************************************************************)
(* P2PNode and PeerConnection (p2p.cpp, peer_connection.cpp): the threads  *)
(* that make sessions (the accept loop, the redial loop, the callers of    *)
(* connectToPeer), the reader each session has, the maintenance that       *)
(* retires dead sessions, and stop.  A slot is taken before a session is   *)
(* made and has to come back once, whichever way the session ends.         *)
(***************************************************************************)
EXTENDS PeerBook

CONSTANTS
    Conns,          \* PeerConnection objects; one whose reader has gone may stand
                    \* for the next, also before it is retired
    Users,          \* threads that dial on their own: startup, RPC, discovery
    MaxEvents       \* bound of the exploration: dials of users, constructions that
                    \* fail and sessions that earn a ban

ASSUME SessionAssumption ==
    /\ Users \cap {"redial", "accept"} = {}
    /\ IsFiniteSet(Conns) /\ IsFiniteSet(Users)
    /\ MaxEvents \in Nat

VARIABLES
    conn,           \* a session: its phase, address, dialled and verified endpoint
    peers,          \* peers_: the sessions the node lists
    dial,           \* a thread that makes sessions: its step, endpoint and address
    todo,           \* the redial loop: the claims not dialled yet
    life,           \* how far stop() is
    closing,        \* stop(): the sessions it has taken over
    events          \* what the exploration has used up

sessions == <<conn, peers>>
threads == <<dial, todo>>
stopVars == <<life, closing>>
vars == <<peerBook, sessions, threads, stopVars, events>>

Dialers == {"redial"} \cup Users
Makers == Dialers \cup {"accept"}

NoConn == [phase |-> "free", ip |-> CHOOSE ip \in Ips : TRUE,
           target |-> NoEndpoint, ep |-> NoEndpoint]
AtRest == [pc |-> "idle", ep |-> NoEndpoint, ip |-> NoConn.ip]

stopping == life # "up"
Running(c) == conn[c].phase \in {"hello", "ready"}
HasReader(c) == conn[c].phase \in {"hello", "ready", "dying", "leaving"}

\* The session is in a phase; a thread is at a step.
Becomes(c, phase) == conn' = [conn EXCEPT ![c].phase = phase]
Goto(d, pc) == dial' = [dial EXCEPT ![d].pc = pc]

----------------------------------------------------------------------------
(* connectToPeer, by the redial loop or a user *)

\* The call returns; the redial loop notes a failure.
Return(d, ok) ==
    dial' = [dial EXCEPT ![d] =
               IF d # "redial" THEN AtRest
               ELSE IF ok THEN [AtRest EXCEPT !.pc = "next"]
               ELSE [@ EXCEPT !.pc = "failed"]]

UserDials(d, e) ==
    /\ d \in Users /\ dial[d].pc = "idle" /\ events < MaxEvents /\ events' = events + 1
    /\ dial' = [dial EXCEPT ![d] = [pc |-> "look", ep |-> e, ip |-> IpOf[e]]]
    /\ UNCHANGED <<peerBook, sessions, todo, stopVars>>

\* Nothing during shutdown; a session that runs is enough.
LooksUp(d) ==
    /\ d \in Dialers /\ dial[d].pc = "look"
    /\ \/ stopping /\ Return(d, FALSE)
       \/ /\ ~stopping
          /\ IF \E c \in peers : Running(c) /\ conn[c].target = dial[d].ep
             THEN Return(d, TRUE)
             ELSE Goto(d, "connect")
    /\ UNCHANGED <<peerBook, sessions, todo, stopVars, events>>

\* canConnect and the connection itself: refused, timed out, cancelled, or there,
\* and then a slot, or none; the rate of attempts may refuse as well.
Connects(d) ==
    /\ d \in Dialers /\ dial[d].pc = "connect"
    /\ \/ MayAcquire(dial[d].ip) /\ Acquire(dial[d].ip) /\ Goto(d, "slot")
       \/ UNCHANGED quota /\ Return(d, FALSE)
    /\ UNCHANGED <<redials, banned, sessions, todo, stopVars, events>>

\* The shutdown is looked for again once the slot is held.
Rechecks(d) ==
    /\ d \in Dialers /\ dial[d].pc = "slot"
    /\ IF stopping
       THEN Release(dial[d].ip) /\ Return(d, FALSE)
       ELSE UNCHANGED quota /\ Goto(d, "made")
    /\ UNCHANGED <<redials, banned, sessions, todo, stopVars, events>>

----------------------------------------------------------------------------
(* The admission, the same for both directions *)

\* Mutant: the shutdown is not looked for under the lock of the list.
Admits_Unchecked(d) ==
    /\ d \in Makers /\ dial[d].pc = "made"
    /\ \E c \in Conns \ closing :
         /\ ~HasReader(c)
         /\ conn' = [conn EXCEPT ![c] = [phase |-> "hello", ip |-> dial[d].ip,
                                         target |-> dial[d].ep, ep |-> NoEndpoint]]
         /\ peers' = peers \cup {c}
    /\ Return(d, TRUE)
    /\ UNCHANGED <<peerBook, todo, stopVars, events>>

\* Under the lock of the list: the reader starts and the session is listed.
Admits(d) ==
    /\ d \in Makers /\ dial[d].pc = "made"
    /\ \/ /\ ~stopping
          /\ \E c \in Conns \ closing :
               /\ ~HasReader(c)
               /\ conn' = [conn EXCEPT ![c] = [phase |-> "hello", ip |-> dial[d].ip,
                                               target |-> dial[d].ep, ep |-> NoEndpoint]]
               /\ peers' = peers \cup {c}
          /\ Return(d, TRUE)
       \/ stopping /\ Goto(d, "reject") /\ UNCHANGED sessions
    /\ UNCHANGED <<peerBook, todo, stopVars, events>>

\* The object or its thread cannot be made.
Fails(d) ==
    /\ d \in Makers /\ dial[d].pc = "made"
    /\ Goto(d, "reject") \/ Goto(d, "refund")
    /\ events < MaxEvents /\ events' = events + 1
    /\ UNCHANGED <<peerBook, sessions, todo, stopVars>>

\* The destructor of an object that never had a reader: an outbound endpoint is
\* noted, then the slot goes back.
Rejects(d) ==
    /\ d \in Makers /\ dial[d].pc = "reject"
    /\ IF dial[d].ep = NoEndpoint THEN UNCHANGED redials ELSE NoteFailure(dial[d].ep)
    /\ Goto(d, "refund")
    /\ UNCHANGED <<quota, banned, sessions, todo, stopVars, events>>

Refunds(d) ==
    /\ d \in Makers /\ dial[d].pc = "refund"
    /\ Release(dial[d].ip)
    /\ Return(d, FALSE)
    /\ UNCHANGED <<redials, banned, sessions, todo, stopVars, events>>

----------------------------------------------------------------------------
(* Maintenance and the two loops *)

\* Mutant: the destructor of a retired session gives its slot back again.
Retires_Again ==
    LET dead == {c \in peers : conn[c].phase = "gone"}
    IN  /\ peers' = peers \ dead
        /\ conn' = [c \in Conns |-> IF c \in dead THEN NoConn ELSE conn[c]]
        /\ IF dead = {} THEN UNCHANGED quota ELSE Release(conn[CHOOSE c \in dead : TRUE].ip)

\* cleanupPeers: sessions whose reader has gone leave the list and are destroyed.
Retires ==
    LET dead == {c \in peers : conn[c].phase = "gone"}
    IN  /\ peers' = peers \ dead
        /\ conn' = [c \in Conns |-> IF c \in dead THEN NoConn ELSE conn[c]]
        /\ UNCHANGED quota

RedialCleans ==
    /\ dial["redial"].pc = "idle"
    /\ IF stopping
       THEN Goto("redial", "exit") /\ UNCHANGED <<sessions, quota>>
       ELSE Goto("redial", "claim") /\ Retires
    /\ UNCHANGED <<redials, banned, todo, stopVars, events>>

RedialClaims ==
    /\ dial["redial"].pc = "claim"
    /\ todo' = Claims /\ Lease(Claims)
    /\ Goto("redial", "next")
    /\ UNCHANGED <<quota, verified, book, banned, sessions, stopVars, events>>

\* The claims one after the other, in any order; a shutdown drops the rest.
RedialNext ==
    /\ dial["redial"].pc = "next"
    /\ IF todo = {} \/ stopping
       THEN dial' = [dial EXCEPT !["redial"] = AtRest] /\ todo' = {}
       ELSE \E e \in todo :
              /\ dial' = [dial EXCEPT !["redial"] = [pc |-> "look", ep |-> e, ip |-> IpOf[e]]]
              /\ todo' = todo \ {e}
    /\ UNCHANGED <<peerBook, sessions, stopVars, events>>

RedialFailed ==
    /\ dial["redial"].pc = "failed"
    /\ NoteFailure(dial["redial"].ep)
    /\ dial' = [dial EXCEPT !["redial"] = [AtRest EXCEPT !.pc = "next"]]
    /\ UNCHANGED <<quota, banned, sessions, todo, stopVars, events>>

\* The accept loop cleans before it admits.
AcceptCleans ==
    /\ dial["accept"].pc = "idle"
    /\ IF stopping
       THEN Goto("accept", "exit") /\ UNCHANGED <<sessions, quota>>
       ELSE Goto("accept", "knock") /\ Retires
    /\ UNCHANGED <<redials, banned, todo, stopVars, events>>

\* Somebody is at the door, or nobody; the rate of attempts may refuse as well.
Accepts ==
    /\ dial["accept"].pc = "knock"
    /\ \/ \E ip \in Ips :
            /\ MayAcquire(ip) /\ Acquire(ip)
            /\ dial' = [dial EXCEPT !["accept"] =
                          [pc |-> "made", ep |-> NoEndpoint, ip |-> ip]]
       \/ Goto("accept", "idle") /\ UNCHANGED quota
    /\ UNCHANGED <<redials, banned, sessions, todo, stopVars, events>>

----------------------------------------------------------------------------
(* The reader of a session *)

\* A valid VERSION: the endpoint dialled, or the one an inbound peer says is its
\* own, which may be none.
Handshakes(c) ==
    /\ conn[c].phase = "hello"
    /\ \E e \in IF conn[c].target # NoEndpoint THEN {conn[c].target}
                ELSE {x \in Endpoints : IpOf[x] = conn[c].ip} \cup {NoEndpoint} :
         /\ IF e = NoEndpoint THEN UNCHANGED redials ELSE AddPeer(e)
         /\ conn' = [conn EXCEPT ![c].phase = "ready", ![c].ep = e]
    /\ UNCHANGED <<quota, banned, peers, threads, stopVars, events>>

\* The peer closes, a deadline passes, a send fails, the network is wrong.
Dies(c) ==
    /\ Running(c) /\ Becomes(c, "dying")
    /\ UNCHANGED <<peerBook, peers, threads, stopVars, events>>

\* A malformed frame scores the whole threshold.
Misbehaves(c) ==
    /\ Running(c) /\ Becomes(c, "dying")
    /\ Bans(conn[c].ip)
    /\ events < MaxEvents /\ events' = events + 1
    /\ UNCHANGED <<quota, redials, peers, threads, stopVars>>

\* Mutant: a session that proved itself is noted as a failed dial.
Leaves_NotReleased(c) ==
    /\ conn[c].phase = "dying"
    /\ IF conn[c].target # NoEndpoint THEN NoteFailure(conn[c].target) ELSE UNCHANGED redials
    /\ Becomes(c, "leaving")
    /\ UNCHANGED <<quota, banned, peers, threads, stopVars, events>>

\* releaseConnectionSlotOnce: the flag is cleared and the endpoint released, or the
\* failure of an outbound dial noted, and then the slot.
Leaves(c) ==
    /\ conn[c].phase = "dying"
    /\ CASE conn[c].ep # NoEndpoint -> ReleaseVerified(conn[c].ep)
         [] conn[c].ep = NoEndpoint /\ conn[c].target # NoEndpoint -> NoteFailure(conn[c].target)
         [] OTHER -> UNCHANGED redials
    /\ Becomes(c, "leaving")
    /\ UNCHANGED <<quota, banned, peers, threads, stopVars, events>>

ReaderExits(c) ==
    /\ conn[c].phase = "leaving"
    /\ Release(conn[c].ip)
    /\ Becomes(c, "gone")
    /\ UNCHANGED <<redials, banned, peers, threads, stopVars, events>>

----------------------------------------------------------------------------
(* stop() *)

Stops ==
    /\ life = "up" /\ life' = "redial"
    /\ UNCHANGED <<peerBook, sessions, threads, closing, events>>

\* The two loops are joined before the list is taken over.
JoinsLoop ==
    /\ \/ life = "redial" /\ dial["redial"].pc = "exit" /\ life' = "accept"
       \/ life = "accept" /\ dial["accept"].pc = "exit" /\ life' = "swap"
    /\ UNCHANGED <<peerBook, sessions, threads, closing, events>>

TakesOver ==
    /\ life = "swap" /\ life' = "closing"
    /\ closing' = peers /\ peers' = {}
    /\ UNCHANGED <<peerBook, conn, threads, events>>

\* PeerConnection::stop of one session: it ends, and its reader is joined.
ClosesPeer(c) ==
    /\ life = "closing" /\ c \in closing
    /\ \/ Running(c) /\ Becomes(c, "dying") /\ UNCHANGED closing
       \/ /\ conn[c].phase = "gone"
          /\ conn' = [conn EXCEPT ![c] = NoConn]
          /\ closing' = closing \ {c}
    /\ UNCHANGED <<peerBook, peers, threads, life, events>>

Stopped ==
    /\ life = "closing" /\ closing = {} /\ life' = "stopped"
    /\ UNCHANGED <<peerBook, sessions, threads, closing, events>>

----------------------------------------------------------------------------

Init ==
    /\ BookInit
    /\ conn = [c \in Conns |-> NoConn] /\ peers = {}
    /\ dial = [d \in Makers |-> AtRest] /\ todo = {}
    /\ life = "up" /\ closing = {}
    /\ events = 0

DialSteps(d) ==
    LooksUp(d) \/ Connects(d) \/ Rechecks(d)
MakeSteps(d) ==
    Admits(d) \/ Rejects(d) \/ Refunds(d)
RedialSteps ==
    RedialCleans \/ RedialClaims \/ RedialNext \/ RedialFailed
AcceptSteps == AcceptCleans \/ Accepts
StopSteps == JoinsLoop \/ TakesOver \/ Stopped \/ \E c \in Conns : ClosesPeer(c)
Ending(c) == Leaves(c) \/ ReaderExits(c)
TimePasses == Elapses /\ UNCHANGED <<sessions, threads, stopVars, events>>

Next ==
    \/ \E d \in Users, e \in Endpoints : UserDials(d, e)
    \/ \E d \in Makers : DialSteps(d) \/ MakeSteps(d) \/ Fails(d)
    \/ RedialSteps \/ AcceptSteps
    \/ \E c \in Conns : Handshakes(c) \/ Dies(c) \/ Misbehaves(c) \/ Ending(c)
    \/ Stops \/ StopSteps
    \/ TimePasses

Spec == Init /\ [][Next]_vars

\* The loops and every dial get on (waits are bounded), a reader that is told to
\* end does, stop() goes on, back-offs and bans run out.
FairSpec ==
    /\ Spec
    /\ WF_vars(RedialSteps) /\ WF_vars(AcceptSteps) /\ WF_vars(StopSteps)
    /\ \A d \in Makers : WF_vars(DialSteps(d)) /\ WF_vars(MakeSteps(d))
    /\ \A c \in Conns : WF_vars(Ending(c))
    /\ \A e \in Endpoints : WF_vars(TimePasses /\ e \in waiting /\ e \notin waiting')
    /\ \A ip \in Ips : WF_vars(TimePasses /\ ip \in banned /\ ip \notin banned')

----------------------------------------------------------------------------
(* Properties *)

Phases == {"free", "hello", "ready", "dying", "leaving", "gone"}
Steps == {"idle", "look", "connect", "slot", "made", "reject", "refund",
          "claim", "next", "failed", "knock", "exit"}
Target == Endpoints \cup {NoEndpoint}

\* The variables keep their types.
TypeOK ==
    /\ BookTypeOK
    /\ conn \in [Conns -> [phase : Phases, ip : Ips, target : Target, ep : Target]]
    /\ dial \in [Makers -> [pc : Steps, ep : Target, ip : Ips]]
    /\ todo \subseteq Endpoints /\ peers \subseteq Conns /\ closing \subseteq Conns
    /\ life \in {"up", "redial", "accept", "swap", "closing", "stopped"}
    /\ events \in 0..MaxEvents

\* Who holds a slot of some addresses: threads between acquisition and admission,
\* and sessions until their reader has given it back.
HoldingThreads(ips) ==
    {d \in Makers : dial[d].pc \in {"slot", "made", "reject", "refund"} /\ dial[d].ip \in ips}
HoldingSessions(ips) == {c \in Conns : HasReader(c) /\ conn[c].ip \in ips}
HoldsOf(ips) == Cardinality(HoldingThreads(ips)) + Cardinality(HoldingSessions(ips))

\* Whichever way a session ends, its slot comes back, and comes back once: the
\* counters are the slots that are held, and so the limits are limits of those.
SlotsExact ==
    /\ \A ip \in Ips : active[ip] = HoldsOf({ip}) /\ active[ip] <= MaxPerIp
    /\ total = HoldsOf(Ips) /\ total <= MaxTotal

\* An endpoint in the book counts the sessions that are on it, so it is redialled
\* when the last has gone and not before; one the book had no room for has none.
VerifiedExact ==
    \A e \in Endpoints :
      verified[e] = IF Contains(book, e)
                    THEN Cardinality({c \in Conns : conn[c].ep = e
                           /\ conn[c].phase \in {"ready", "dying"}})
                    ELSE 0

\* stop() comes to its end, nothing it joins waits for it, and then no reader runs
\* and no session starts any more, whatever was being dialled or admitted when it
\* began.
StopEnds ==
    life = "redial" ~>
      [](life = "stopped" /\ peers = {} /\ \A c \in Conns : ~HasReader(c))

\* A peer the node knows is dialled again and again unless a session with it runs:
\* a session that was lost, a dial that failed and a ban are got over.
LostIsRedialled ==
    \A e \in Endpoints :
      Known(e) ~> \/ stopping \/ dial["redial"].ep = e
                  \/ \E c \in Conns : Running(c) /\ e \in {conn[c].target, conn[c].ep}
=============================================================================
