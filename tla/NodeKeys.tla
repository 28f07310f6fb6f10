------------------------------- MODULE NodeKeys -------------------------------
(****************************************************************************)
(* The keys of a node (core/store/store.go): its Ethereum accounts and its  *)
(* keys for randomness, in stores of their own that share no state.         *)
(****************************************************************************)
EXTENDS KeyStores, VRFKeyStore

\* An account that the node has reported is there after any crash and start; the keys
\* that prove, those of the database and those exported agree, whatever fails.
KeysAreKept ==
    ReportedKeyIsKept /\ ProvingKeyIsStored /\ NodeProvesWithAll /\ ExportedKeyIsKept
=============================================================================
