----------------------------- MODULE MCSessions -----------------------------
(***************************************************************************)
(* Sessions on four requests and two slots: both slots busy, a third       *)
(* request refused, a fourth admitted when a slot comes back.              *)
(***************************************************************************)
EXTENDS Sessions

CONSTANTS r1, r2, r3, r4

MCRequests == {r1, r2, r3, r4}
=============================================================================
