--------------------------- MODULE CommittedLog ---------------------------
(***************************************************************************)
(* What a cluster promises to the state machines above it: there is one    *)
(* log of chosen entries, it only grows, and each node gets it in order,   *)
(* from the first entry on and without a gap.  Nothing of what a node got  *)
(* is ever taken back or replaced, although nodes crash, leaders change,   *)
(* logs are truncated and the voters themselves change.                    *)
(***************************************************************************)
EXTENDS Integers, Sequences

CONSTANT Node

VARIABLES chosen,    \* the log
          applied    \* what each node got of it

cvars == <<chosen, applied>>

\* The cluster may be one that has chosen entries before.
LogInit == applied = [n \in Node |-> SubSeq(chosen, 1, Len(applied[n]))]

\* A leader finds that a quorum holds more entries than were chosen so far.
Choose ==
    /\ Len(chosen) < Len(chosen')
    /\ SubSeq(chosen', 1, Len(chosen)) = chosen
    /\ \E n \in Node : applied' = [applied EXCEPT ![n] = chosen']

\* A node learns that more entries of the log are chosen.
Learn ==
    /\ applied' # applied
    /\ UNCHANGED chosen
    /\ \E n \in Node : \E k \in Len(applied[n]) + 1 .. Len(chosen) :
          applied' = [applied EXCEPT ![n] = SubSeq(chosen, 1, k)]

LogNext == Choose \/ Learn

LogSpec == LogInit /\ [][LogNext]_cvars

=============================================================================
