------------------------ MODULE MCApplicationWorker ------------------------
(***************************************************************************)
(* ApplicationWorker for TLC: the second entry retains more memory than    *)
(* the others, and the third weighs more in a batch.                       *)
(***************************************************************************)
EXTENDS ApplicationWorker

MCRetainedUpTo == [i \in Index |-> IF i < 2 THEN i ELSE i + 1]

MCBatchUpTo == [i \in Index |-> IF i < 3 THEN i ELSE i + 1]

=============================================================================
