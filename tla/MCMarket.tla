------------------------------ MODULE MCMarket ------------------------------
(***************************************************************************)
(* One advert, its maker and two takers.                                   *)
(***************************************************************************)
EXTENDS MarketProcess

TwoTakers == {"t1", "t2"}
OneOfThem == {"t1"}
=============================================================================
