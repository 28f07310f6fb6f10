----------------------------- MODULE MCTxManager -----------------------------
(****************************************************************************)
(* TxManager for TLC: the accounts, in order.                               *)
(****************************************************************************)
EXTENDS TxManager, TLC

OneAddress == <<"a">>

\* The runs do the same.
RunsAlike == Permutations(Runs)
=============================================================================
