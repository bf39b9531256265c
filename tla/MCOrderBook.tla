---------------------------- MODULE MCOrderBook ----------------------------
(***************************************************************************)
(* Small instances of OrderBook for TLC.                                   *)
(***************************************************************************)
EXTENDS OrderBook, TLC

CONSTANTS s1, s2, c1, c2, c3

\* Two units of one SKU and one of the other; a line of negative quantity.
MCBaskets == {(s1 :> 2 @@ s2 :> 1), (s1 :> 1 @@ s2 :> -1)}

MCSymmetry == Permutations({c1, c2, c3})
=============================================================================
