------------------------------ MODULE MCWallet ------------------------------
(* Values for the runs of Wallet that a configuration file cannot write. *)
EXTENDS Wallet

\* A credit and a correction downwards.
SmallCorrections == {2, -1}
=============================================================================
