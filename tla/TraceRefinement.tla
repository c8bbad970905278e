--------------------------- MODULE TraceRefinement ---------------------------
(* TraceWriter seen as an Archive: a run's record is the file its final name  *)
(* refers to, and a file that is not complete would be no record of anybody.  *)
EXTENDS TraceWriter

Seen == [r \in Runs |-> IF final[r] = None THEN None
                        ELSE IF data[final[r]] = "full" /\ Run[final[r]] = r THEN final[r] ELSE "torn"]

Returned == {w \in Writers : pc[w] = "returned"}

A == INSTANCE Archive WITH record <- Seen, returned <- Returned,
                           settled <- (directory = "durable")

\* Whatever fails, is killed or loses power, and in whatever order calls of
\* several processes meet: what can be seen under the runs' names behaves like
\* an archive of whole records, which are neither replaced nor, once their call
\* has returned, removed; but for a directory that was never synced itself.
ImplementsArchive == A!Spec
=============================================================================
