----------------------------- MODULE StoredRecords -----------------------------
(****************************************************************************)
(* What a node stores for its operator, and the queries that find all of it *)
(* page by page, in modules that share no state.                            *)
(****************************************************************************)
EXTENDS Registry, Batches

\* Stored jobs have their bridges and external initiators have names of their own,
\* whatever requests run beside those that made them; and the queries that read what is
\* stored by pages pass each of them once, within the bounds of AllArePassed.
StoredIsFound ==
    /\ JobsHaveTheirBridges /\ NamesAreUnique
    /\ BatchTypeOK /\ AllArePassed /\ NonePassedTwice
=============================================================================
