------------------------------ MODULE MCSearch ------------------------------
(***************************************************************************)
(* A small instance of Search for TLC.                                     *)
(***************************************************************************)
EXTENDS Search, TLC

\* The second catalogue has a product less and one more, and an edited text.
MCCatalogs == {1 :> 11 @@ 2 :> 12, 2 :> 22 @@ 3 :> 13}
=============================================================================
