---------------------------- MODULE MarketStore ----------------------------
(***************************************************************************)
(* The market store (market_store_v1.py): one advert and its reservations. *)
(* Every operation is one immediate transaction, which first expires what  *)
(* time has ended; here an expiry is a step of its own.                    *)
(*                                                                         *)
(* A reservation is known by the process that took it, whose durable token *)
(* it carries.  What the relay carries is named by its nonces: an offer is *)
(* a sequence of one, an acceptance or a final bundle adds one to what it  *)
(* answers, and a final bundle names the swap.                             *)
(***************************************************************************)
EXTENDS Naturals, Sequences

CONSTANTS
    Takers,         \* the processes that take
    Maker,          \* the process that posts
    NoTaker

ASSUME PartyAssumption == Maker \notin Takers /\ NoTaker \notin Takers \cup {Maker}

VARIABLES
    advert,         \* adverts.status, "NONE" before the post
    res             \* the rows of reservations

store == <<advert, res>>

Nothing == <<>>
NoRow == [status |-> "NONE", offer |-> Nothing, accept |-> Nothing,
          started |-> FALSE, final |-> Nothing]

Parties == Takers \cup {Maker}

----------------------------------------------------------------------------

Open == {t \in Takers : res[t].status \in {"HELD", "BOUND"}}
Available == advert = "ACTIVE" /\ Open = {}

\* Mutant: a reservation ends with its time.
MayExpire_Always(t) == res[t].status = "HELD"

\* A hold ends with its time unless the finalization has started.
MayExpire(t) == res[t].status = "HELD" /\ ~res[t].started

\* A request: the operation, the reservation and what is handed in.
Request(op, t, blob) == [op |-> op, res |-> t, blob |-> blob]

\* Requests on a reservation, and what its row must be for them.
Fits(q, row) ==
    \/ q.op = "offer" /\ row.status = "HELD" /\ row.offer \in {Nothing, q.blob}
    \/ /\ q.op = "accept" /\ row.status = "HELD" /\ row.offer # Nothing
       /\ row.accept \in {Nothing, q.blob} /\ (row.started => row.accept # Nothing)
    \/ /\ q.op = "finalize-start" /\ row.status = "HELD"
       /\ row.offer # Nothing /\ row.accept # Nothing
    \/ /\ q.op = "final"
       /\ \/ row.status = "HELD" /\ row.started /\ row.final \in {Nothing, q.blob}
          \/ row.status = "BOUND" /\ row.final = q.blob
    \/ /\ q.op = "taker-bind" /\ row.status \in {"HELD", "BOUND"}
       /\ row.started /\ row.final = q.blob
    \/ q.op = "release" /\ row.status = "HELD" /\ ~row.started

\* The row a request leaves.
Filled(q, row) ==
    CASE q.op = "offer" -> [row EXCEPT !.offer = q.blob]
      [] q.op = "accept" -> [row EXCEPT !.accept = q.blob]
      [] q.op = "finalize-start" -> [row EXCEPT !.started = TRUE]
      [] q.op = "final" -> [row EXCEPT !.final = q.blob]
      [] q.op = "taker-bind" -> [row EXCEPT !.status = "BOUND"]
      [] q.op = "release" -> [row EXCEPT !.status = "RELEASED"]

\* post, withdraw and reserve.  Posting and taking again with the same durable token
\* finds what the first time made.
Posts(q) ==
    /\ q.op = "post"
    /\ advert' = IF advert = "NONE" THEN "ACTIVE" ELSE advert
    /\ UNCHANGED res

Withdraws(q) ==
    /\ q.op = "withdraw" /\ Available
    /\ advert' = "WITHDRAWN" /\ UNCHANGED res

Reserves(q) ==
    /\ q.op = "take"
    /\ \/ res[q.res].status # "NONE" /\ UNCHANGED res
       \/ /\ res[q.res].status = "NONE" /\ Available
          /\ res' = [res EXCEPT ![q.res] = [NoRow EXCEPT !.status = "HELD"]]
    /\ UNCHANGED advert

Writes(q) ==
    /\ q.op \notin {"post", "withdraw", "take"}
    /\ Fits(q, res[q.res])
    /\ res' = [res EXCEPT ![q.res] = Filled(q, @)]
    /\ UNCHANGED advert

Refuses(q) ==
    \/ q.op = "withdraw" /\ ~Available
    \/ q.op = "take" /\ res[q.res].status = "NONE" /\ ~Available
    \/ q.op \notin {"post", "withdraw", "take"} /\ ~Fits(q, res[q.res])

Grants(q) == Posts(q) \/ Withdraws(q) \/ Reserves(q) \/ Writes(q)

----------------------------------------------------------------------------

StoreInit ==
    /\ advert = "NONE"
    /\ res = [t \in Takers |-> NoRow]

\* _expire_reservations_locked
ExpireHold(t) ==
    /\ MayExpire(t)
    /\ res' = [res EXCEPT ![t].status = "EXPIRED"]
    /\ UNCHANGED advert

\* _expire_locked
ExpireAdvert == Available /\ advert' = "EXPIRED" /\ UNCHANGED res
=============================================================================
