--------------------------- MODULE MCTaskDelivery ---------------------------
(***************************************************************************)
(* Small instances of TaskDelivery for TLC.                                *)
(***************************************************************************)
EXTENDS TaskDelivery, TLC

CONSTANTS r1, r2, r3, w1, w2, f1, f2, f3, s1, s2

\* Two questions of one session, and one of another session.
MCSessionOf == [f \in Fingerprints |-> IF f = f3 THEN s2 ELSE s1]

\* f1 and f3 are alike, as the only questions of their sessions.
MCSymmetry ==
  Permutations({r1, r2, r3}) \cup {f1 :> f3 @@ f3 :> f1 @@ s1 :> s2 @@ s2 :> s1}
=============================================================================
