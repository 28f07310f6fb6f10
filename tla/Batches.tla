------------------------------- MODULE Batches -------------------------------
(****************************************************************************)
(* The queries of the ORM that go through a table page by page              *)
(* (core/store/orm/orm.go): UnscopedJobRunsWithStatus, with which every     *)
(* head and every connection resumes the runs that wait, and Jobs, with     *)
(* which the job subscriber subscribes all jobs when it connects.  Both     *)
(* leave it to Batch to advance the offset; AllSyncEvents, whose callback   *)
(* deletes the rows, is in StatsPusher.                                     *)
(*                                                                          *)
(* The rows do not change during the query, and come in one order, though   *)
(* Jobs asks for none.                                                      *)
(****************************************************************************)
EXTENDS Integers, SequencesExt

CONSTANTS
    Keys,           \* the identifiers of runs, or of jobs
    MaxRows,        \* bound on the rows of the table
    MaxPerJob,      \* bound on the rows of a job: one for each of its log initiators
    PageSize        \* the size of a page (1000 in the code, whatever BatchSize says)

ASSUME BatchAssumption == MaxRows \in Nat /\ MaxPerJob \in Nat /\ PageSize \in Nat \ {0}

VARIABLES
    paged,          \* what is queried by pages
    rows,           \* the keys of the rows, in the order of the query
    batchOffset,    \* where the next page begins
    passed,         \* the keys passed to the callback so far
    done            \* is the query done

batchVars == <<paged, rows, batchOffset, passed, done>>

\* The values the variables take; the slice of the identifiers of runs, which is
\* runIDs[offset:min(limit, len)], is within bounds.
BatchTypeOK ==
    /\ paged \in {"runs", "jobs"}
    /\ rows \in Seq(Keys)
    /\ batchOffset \in Nat
    /\ passed \in Seq(Keys)
    /\ done \in BOOLEAN
    /\ paged = "runs" /\ ~done => batchOffset <= Min({PageSize, Len(rows)})

RowsOf(k, table) == Cardinality({n \in DOMAIN table : table[n] = k})

\* A run has one row, a job has one for each of its initiators.
Tables(perKey) == {r \in SeqOf(Keys, MaxRows) : \A k \in Keys : RowsOf(k, r) <= perKey}

BatchInit ==
    /\ paged \in {"runs", "jobs"}
    /\ rows \in Tables(IF paged = "runs" THEN 1 ELSE MaxPerJob)
    /\ batchOffset = 0
    /\ passed = <<>>
    /\ done = FALSE

----------------------------------------------------------------------------

\* Mutant: the offset is one too low.
Batch_Overlaps(count) ==
    /\ done' = (count < PageSize)
    /\ batchOffset' = IF count < PageSize THEN batchOffset ELSE batchOffset + PageSize - 1

\* Batch goes on while the callback says that its page was full.
Batch(count) ==
    /\ done' = (count < PageSize)
    /\ batchOffset' = IF count < PageSize THEN batchOffset ELSE batchOffset + PageSize

\* A page of UnscopedJobRunsWithStatus, whose identifiers are read once: the slice
\* ends at the limit, not at a limit from the offset.
RunsPage ==
    /\ paged = "runs"
    /\ ~done
    /\ LET page == SubSeq(rows, batchOffset + 1, Min({PageSize, Len(rows)}))
       IN  /\ passed' = passed \o page
           /\ Batch(Len(page))
    /\ UNCHANGED <<paged, rows>>

\* A page of Jobs: the rows are those of the initiators, the jobs loaded for them
\* are distinct, and it is the jobs that are counted.
JobsPage ==
    /\ paged = "jobs"
    /\ ~done
    /\ LET loaded == Range(SubSeq(rows, batchOffset + 1, Min({batchOffset + PageSize, Len(rows)})))
       IN  /\ passed' = passed \o SetToSeq(loaded)
           /\ Batch(Cardinality(loaded))
    /\ UNCHANGED <<paged, rows>>

BatchNext == RunsPage \/ JobsPage

BatchSpec == BatchInit /\ [][BatchNext]_batchVars

----------------------------------------------------------------------------
(* Properties.                                                              *)

\* A query that is done has passed every key, if runs fit into a page, and jobs
\* have one log initiator each; see AllRunsArePassed and AllJobsArePassed.
AllArePassed ==
    done /\ (paged = "runs" => Len(rows) <= PageSize) => Range(rows) = Range(passed)

\* No key is passed twice, if jobs have one log initiator each: no job is subscribed
\* twice by one Connect, no run is resumed twice for one head.
NonePassedTwice == IsInjective(passed)

\* orm.go:571: "UnscopedJobRunsWithStatus passes all JobRuns to a callback, one by
\* one, including those that were soft deleted."
AllRunsArePassed == done /\ paged = "runs" => Range(rows) = Range(passed)

\* orm.go:414: "Jobs fetches all jobs."
AllJobsArePassed == done /\ paged = "jobs" => Range(rows) = Range(passed)
=============================================================================
