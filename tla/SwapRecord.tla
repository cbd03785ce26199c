----------------------------- MODULE SwapRecord -----------------------------
(***************************************************************************)
(* The durable record of a swap at a TRU node (tru_swap_v1_state.h) and    *)
(* the two contracts on the chains.  A leg is named after the party that   *)
(* locked it; the first party to fund owns the secret and has the later    *)
(* refund time.  Evidence of a spend is only ever brought at the pinned    *)
(* number of confirmations, so it is a set of legs.  The agents of the two *)
(* parties work with one node, or each with a node, and a record, of its   *)
(* own.  transitionRecord reads the record, decides and writes with no     *)
(* lock, so what two requests make of one record can cross.                *)
(***************************************************************************)
EXTENDS FiniteSets

CONSTANTS
    First, Second,  \* the parties, in the order they fund
    Deployments     \* whether the parties share a node

ASSUME PartyAssumption == First # Second
ASSUME DeploymentAssumption == Deployments \subseteq BOOLEAN

Parties == {First, Second}
Peer(p) == IF p = First THEN Second ELSE First

VARIABLES
    shared,         \* one node for both; never changes
    record,         \* durable, at each node: state, legs with evidence of funding, claim, refund
    recording,      \* the nodes, each with a record it has read for a request to record a funding
    overtaken,      \* history: a funding was saved over a record that had moved on
    offered,        \* for each leg, the spends that some node has in its pool
    spend,          \* for each leg, the spend that is deep enough in the chain
    due,            \* legs whose refund time the wall clock has passed
    mature,         \* legs whose refund time their chain's median time has passed
    tru             \* whose leg is on the TRU chain

requests == <<recording, overtaken>>
records == <<record, requests>>
chains == <<offered, spend, due, mature, tru, shared>>

\* Whose node p works with, and the record there.
Home(p) == IF shared THEN First ELSE p
Record(p) == record[Home(p)]

States ==
    {"CREATED", "ONE_SIDE_FUNDED", "BOTH_FUNDED", "SECRET_OBSERVED", "SETTLED",
     "REFUND_PENDING", "REFUNDED", "RESOLVED_MIXED"}
Final == {"SETTLED", "REFUNDED", "RESOLVED_MIXED"}

\* transitionAllowed, without FAILED, which no code here asks for.
Allowed ==
    {<<"CREATED", "ONE_SIDE_FUNDED">>,
     <<"ONE_SIDE_FUNDED", "BOTH_FUNDED">>, <<"ONE_SIDE_FUNDED", "REFUND_PENDING">>,
     <<"BOTH_FUNDED", "SECRET_OBSERVED">>, <<"BOTH_FUNDED", "REFUND_PENDING">>}
    \cup ({"SECRET_OBSERVED"} \X {"SECRET_OBSERVED", "SETTLED", "REFUND_PENDING",
                                  "RESOLVED_MIXED"})
    \cup ({"REFUND_PENDING"} \X ({"REFUND_PENDING"} \cup Final))

\* The outcome that the evidence of r proves, "none" when a leg is open, "error" when a
\* leg has two.
Outcome(r) ==
    IF r.claims \cap r.refunds \cap r.funded # {} THEN "error"
    ELSE IF r.funded = {} \/ ~(r.funded \subseteq r.claims \cup r.refunds) THEN "none"
    ELSE IF r.funded \cap r.claims = {} THEN "REFUNDED"
    ELSE IF r.funded # Parties THEN "none"
    ELSE IF r.refunds = {} THEN "SETTLED" ELSE "RESOLVED_MIXED"

\* transitionRecord of a record with new evidence for a leg, or with none.
NoLegs == [funded |-> {}, claims |-> {}, refunds |-> {}]
CanMove(r, to, new) ==
    /\ <<r.state, to>> \in Allowed
    /\ to \in Final => new = NoLegs /\ Outcome(r) = to
Moved(r, to, new) ==
    [state   |-> to,
     funded  |-> r.funded \cup new.funded,
     claims  |-> r.claims \cup new.claims,
     refunds |-> r.refunds \cup new.refunds]

Fresh == [state |-> "CREATED", funded |-> {}, claims |-> {}, refunds |-> {}]

RecordInit ==
    /\ shared \in Deployments /\ tru \in Parties
    /\ record = [p \in Parties |-> Fresh]
    /\ recording = {} /\ overtaken = FALSE
    /\ offered = [l \in Parties |-> {}]
    /\ spend = [l \in Parties |-> "none"]
    /\ due = {} /\ mature = {}

\* What transition_after_funding makes of a record: the leg whose turn it is has its
\* confirmations, as its owner or as the other party sees it.
WithLeg(r) ==
    IF r.state = "CREATED"
    THEN Moved(r, "ONE_SIDE_FUNDED", [NoLegs EXCEPT !.funded = {First}])
    ELSE Moved(r, "BOTH_FUNDED", [NoLegs EXCEPT !.funded = {Second}])

\* The first half of a funding transition: the node of p reads the record.  The second
\* party funds what it has seen answered by the first, in its own record.
FundReads(p) ==
    /\ \/ Record(p).state = "CREATED"
       \/ Record(p).state = "ONE_SIDE_FUNDED" /\ Record(Second).state # "CREATED"
    /\ recording' = recording \cup {[node |-> Home(p), base |-> Record(p)]}
    /\ UNCHANGED <<record, overtaken, chains>>

\* The second half: it writes the successor of what it read, whatever is there by now.
\* Any number of requests may have read the same, so another can be left.
FundSaves(r) ==
    /\ record' = [record EXCEPT ![r.node] = WithLeg(r.base)]
    /\ overtaken' = (overtaken \/ record[r.node] \notin {r.base, WithLeg(r.base)})
    /\ UNCHANGED <<recording, chains>>

\* A spend gets its confirmations; one that competes with it is gone.
Mine(l) ==
    /\ spend[l] = "none"
    /\ \E k \in offered[l] : spend' = [spend EXCEPT ![l] = k]
    /\ offered' = [offered EXCEPT ![l] = {}]
    /\ UNCHANGED <<records, due, mature, tru, shared>>

\* The refund times pass, on the clock and then by the chain; the first party's is later.
Pass(l) ==
    /\ l \notin due /\ (l = First => Second \in due)
    /\ due' = due \cup {l}
    /\ UNCHANGED <<records, offered, spend, mature, tru, shared>>

Mature(l) ==
    /\ l \in due \ mature
    /\ mature' = mature \cup {l}
    /\ UNCHANGED <<records, offered, spend, due, tru, shared>>
=============================================================================
