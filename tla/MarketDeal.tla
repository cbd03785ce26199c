----------------------------- MODULE MarketDeal -----------------------------
(***************************************************************************)
(* What an advert promises: it is held for one taker at a time; once the   *)
(* deal with a taker is sealed it is nobody else's; both parties then sign *)
(* one swap, the maker first, and the advert is bound when both have.      *)
(***************************************************************************)
CONSTANTS Takers, Maker, NoTaker

VARIABLES
    book,           \* the advert's status
    holder,         \* the taker it is held for
    sealed,         \* the deal with the holder stands
    signed,         \* the swaps each party has a record of
    bound           \* the holder and the maker have the same one

deal == <<book, holder, sealed, signed, bound>>

DealInit ==
    /\ book = "NONE" /\ holder = NoTaker /\ sealed = FALSE /\ bound = FALSE
    /\ signed = [p \in Takers \cup {Maker} |-> {}]

Publish == book = "NONE" /\ book' = "ACTIVE" /\ UNCHANGED <<holder, sealed, signed, bound>>

Close ==
    /\ book = "ACTIVE" /\ holder = NoTaker
    /\ book' \in {"WITHDRAWN", "EXPIRED"}
    /\ UNCHANGED <<holder, sealed, signed, bound>>

Hold(t) ==
    /\ book = "ACTIVE" /\ holder = NoTaker
    /\ holder' = t
    /\ UNCHANGED <<book, sealed, signed, bound>>

LetGo == ~sealed /\ holder' = NoTaker /\ UNCHANGED <<book, sealed, signed, bound>>

Seal == holder # NoTaker /\ sealed' = TRUE /\ UNCHANGED <<book, holder, signed, bound>>

MakerSigns ==
    /\ sealed /\ signed[Maker] = {}
    /\ \E s \in signed'[Maker] : signed' = [signed EXCEPT ![Maker] = {s}]
    /\ UNCHANGED <<book, holder, sealed, bound>>

TakerSigns ==
    /\ sealed /\ signed[Maker] # {}
    /\ signed' = [signed EXCEPT ![holder] = signed[Maker]]
    /\ UNCHANGED <<book, holder, sealed, bound>>

Bind ==
    /\ sealed /\ signed[Maker] # {} /\ signed[holder] = signed[Maker]
    /\ bound' = TRUE
    /\ UNCHANGED <<book, holder, sealed, signed>>

DealNext ==
    Publish \/ Close \/ (\E t \in Takers : Hold(t)) \/ LetGo \/ Seal
    \/ MakerSigns \/ TakerSigns \/ Bind

Deal == DealInit /\ [][DealNext]_deal
=============================================================================
