------------------------------ MODULE PeerBook ------------------------------
(***************************************************************************)
(* PeerManager (peer_manager.cpp): the quota of connections, in total and  *)
(* for each address, the bans, and the book of endpoints that proved       *)
(* themselves, with the sessions that are on each and the back-off before  *)
(* the next redial.  Every method runs under one mutex; the operators here *)
(* are what one call does.                                                 *)
(***************************************************************************)
EXTENDS Integers, FiniteSets, SequencesExt

CONSTANTS
    Endpoints,      \* service endpoints, an address with a port each
    Ips, IpOf,      \* addresses, and the one of each endpoint
    Configured,     \* configuredPeers_, in the order they were remembered
    NoEndpoint,     \* no endpoint
    MaxTotal,       \* MAX_P2P_TOTAL_CONNECTIONS
    MaxPerIp,       \* MAX_P2P_CONNECTIONS_PER_IP
    MaxBook,        \* MAX_VERIFIED_ENDPOINTS
    MaxClaims       \* endpoints claimed in one round of redials

ASSUME BookAssumption ==
    /\ IpOf \in [Endpoints -> Ips] /\ NoEndpoint \notin Endpoints /\ Ips # {}
    /\ Configured \in Seq(Endpoints)
    /\ MaxTotal \in Nat /\ MaxPerIp \in Nat /\ MaxBook \in Nat
    /\ MaxClaims \in Nat \ {0}

VARIABLES
    active, total,  \* activeConnections_ and totalActiveConnections_
    verified,       \* verifiedEndpoints_: sessions on each endpoint
    book,           \* peers: endpoints that ever proved themselves, in order
    waiting,        \* endpoints whose next attempt is still in the future
    banned          \* addresses that are banned

quota == <<active, total>>
redials == <<verified, book, waiting>>
peerBook == <<quota, redials, banned>>

Known(e) == Contains(book, e) \/ Contains(Configured, e)

----------------------------------------------------------------------------
(* The quota *)

\* tryAcquireConnectionSlot; the limit on attempts may refuse besides.
MayAcquire(ip) == ip \notin banned /\ total < MaxTotal /\ active[ip] < MaxPerIp

Acquire(ip) ==
    /\ active' = [active EXCEPT ![ip] = @ + 1]
    /\ total' = total + 1

\* releaseConnectionSlot: an address without connections is left alone.
Release(ip) ==
    /\ active' = [active EXCEPT ![ip] = IF @ = 0 THEN 0 ELSE @ - 1]
    /\ total' = IF active[ip] = 0 \/ total = 0 THEN total ELSE total - 1

----------------------------------------------------------------------------
(* The endpoints *)

\* Mutant: a session on an endpoint that is known already is not counted.
AddPeer_FirstOnly(e) ==
    /\ waiting' = waiting \ {e}
    /\ verified' = [verified EXCEPT ![e] = 1]
    /\ book' = IF Contains(book, e) THEN book ELSE Append(book, e)

\* addPeer: a session has proved itself, unless the book is full.
AddPeer(e) ==
    IF ~Contains(book, e) /\ Len(book) >= MaxBook
    THEN UNCHANGED redials
    ELSE /\ waiting' = waiting \ {e}
         /\ verified' = [verified EXCEPT ![e] = @ + 1]
         /\ book' = IF Contains(book, e) THEN book ELSE Append(book, e)

\* releaseVerifiedEndpoint: after the last session on it the endpoint backs off.
ReleaseVerified(e) ==
    /\ verified' = [verified EXCEPT ![e] = IF @ = 0 THEN 0 ELSE @ - 1]
    /\ waiting' = IF verified[e] = 1 THEN waiting \cup {e} ELSE waiting
    /\ UNCHANGED book

\* noteReconnectFailure: for endpoints one would redial.
NoteFailure(e) ==
    /\ waiting' = IF Known(e) /\ verified[e] = 0 THEN waiting \cup {e} ELSE waiting
    /\ UNCHANGED <<verified, book>>

\* claimReconnectCandidates: the first that are due, in the order of the book and
\* then of the configuration, each once.
Due(e) == verified[e] = 0 /\ IpOf[e] \notin banned /\ e \notin waiting
Candidates == book \o Configured
Claims ==
    LET due == {i \in DOMAIN Candidates :
                  /\ Due(Candidates[i])
                  /\ \A j \in 1..(i - 1) : Candidates[j] # Candidates[i]}
        Before(i) == {j \in due : j < i}
    IN  {Candidates[i] : i \in {k \in due : Cardinality(Before(k)) < MaxClaims}}

\* Each claim is a lease, so that no endpoint is claimed twice at once.
Lease(es) == waiting' = waiting \cup es

\* recordViolation, with a score that reaches the threshold.
Bans(ip) == banned' = banned \cup {ip}

----------------------------------------------------------------------------

BookInit ==
    /\ active = [ip \in Ips |-> 0] /\ total = 0
    /\ verified = [e \in Endpoints |-> 0] /\ book = <<>>
    /\ waiting = ToSet(Configured)
    /\ banned = {}

\* Time: a back-off or a ban has run out.
Elapses ==
    /\ \/ \E e \in waiting : waiting' = waiting \ {e} /\ UNCHANGED banned
       \/ \E ip \in banned : banned' = banned \ {ip} /\ UNCHANGED waiting
    /\ UNCHANGED <<quota, verified, book>>

\* How far the counters go is SlotsExact of PeerSessions.
BookTypeOK ==
    /\ active \in [Ips -> Nat] /\ total \in Nat
    /\ verified \in [Endpoints -> Nat]
    /\ book \in Seq(Endpoints) /\ Len(book) <= MaxBook
    /\ waiting \subseteq Endpoints /\ banned \subseteq Ips
=============================================================================
