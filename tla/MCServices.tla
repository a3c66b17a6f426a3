----------------------------- MODULE MCServices -----------------------------
(* Values for the runs of Services that a configuration file cannot write. *)
EXTENDS Services, TLC

CONSTANTS u1, u2, n1, n2

\* tg_username gives every user another name.
Defaults == u1 :> n1 @@ u2 :> n2

\* Updates are interchangeable.
Symmetry == Permutations(Tasks)
=============================================================================
