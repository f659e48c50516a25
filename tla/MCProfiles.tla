----------------------------- MODULE MCProfiles -----------------------------
(* A television, a built-in profile and one of the user's. *)
EXTENDS Profiles, TLC

CONSTANTS builtin, own, edit, tv, a1, a2, r1, r2

MCIds == {builtin, own}
MCBuiltins == {builtin}
MCEdits == {edit}
MCDevices == {tv}
MCAuto == tv :> builtin
MCAdmins == {a1, a2}
MCRequests == {r1, r2}
MCSymmetry == Permutations(MCAdmins) \union Permutations(MCRequests)
=============================================================================
