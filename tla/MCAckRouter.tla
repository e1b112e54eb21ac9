----------------------------- MODULE MCAckRouter -----------------------------
(* Small instances of AckRouter for TLC. *)
EXTENDS AckRouter, TLC

CONSTANTS d1, d2, d3, a, b

(* Two messages, and three, the last without an id. *)
TwoIds == (d1 :> a) @@ (d2 :> b)
DistinctIds == (d1 :> a) @@ (d2 :> b) @@ (d3 :> NoId)
=============================================================================
