-------------------------- MODULE MCJournalWriter --------------------------
(* Instances of JournalWriter for TLC: the thresholds are scaled down so   *)
(* that the queue fills, batches coalesce, the buffer is flushed and the   *)
(* journal rotates within a few mutations.                                 *)
EXTENDS JournalWriter

CONSTANTS p1, p2, f1, cl

MCProducers == {p1, p2}
OneFlusher  == {f1}
=============================================================================
