------------------------------ MODULE MCPeers ------------------------------
(***************************************************************************)
(* One configured endpoint and two slots: the redial loop, a user and the  *)
(* accept loop contend for them, and two sessions may be on the endpoint.  *)
(***************************************************************************)
EXTENDS PeerSessions

OneAddress == {"x"}
JustOne == [e \in {"a"} |-> "x"]
OneConfigured == <<"a">>
=============================================================================
