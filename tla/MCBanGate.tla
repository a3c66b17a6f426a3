----------------------------- MODULE MCBanGate -----------------------------
(* Updates of the user are interchangeable, and so are callbacks of admins. *)
EXTENDS BanGate, TLC

Symmetry == Permutations(Gates) \cup Permutations(Admins)
=============================================================================
