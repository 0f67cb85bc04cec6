----------------------------- MODULE Pipelined -----------------------------
(***************************************************************************)
(* The pipelined driver of rafter-runtime (src/pipelined) in a cluster: a  *)
(* leader sends the entries of a proposal before it has persisted them,    *)
(* while a persistence worker writes them.  Meanwhile the worker owns the  *)
(* node, and the driver refuses every other input.                         *)
(*                                                                         *)
(* The kernel and the network are those of Replication, where persistence  *)
(* is part of a step.  Here the durable log is a variable of its own.      *)
(* Terms, votes and commit indexes do not change in a proposal, so they    *)
(* are durable at the end of every step, as in Replication.                *)
(***************************************************************************)
EXTENDS Replication

CONSTANT Pipelining      \* the nodes with a pipelined driver, which may crash

ASSUME PipelinedAssumption == Pipelining \subseteq Node

VARIABLES disk,          \* the entries in log_segment, which survive a crash
          pipe,          \* who owns the node, and what became of the write
          worker         \* whether the persistence thread runs

pvars == <<vars, disk, pipe, worker>>

PipelinedInit ==
    /\ Init
    /\ disk = log
    /\ pipe = [n \in Node |-> "Ready"]
    /\ worker = [n \in Node |-> n \in Pipelining]

(***************************************************************************)
(* PipelinedRaftNode.node: the driver has the node, and no write to it has *)
(* failed.                                                                 *)
(***************************************************************************)
Available(n) == pipe[n] = "Ready"

(***************************************************************************)
(* step_batch: any input, persisted before its outputs are released.  So   *)
(* is a proposal that is not eligible, or whose entries no follower has    *)
(* room for.                                                               *)
(***************************************************************************)
StepBatch_Unfenced(n) ==
    /\ pipe[n] \in {"Ready", "Pending"}
    /\ Step(n)
    /\ disk' = IF Available(n) THEN [disk EXCEPT ![n] = log'[n]] ELSE disk
    /\ UNCHANGED <<pipe, worker>>

StepBatch(n) ==
    /\ Available(n)
    /\ Step(n)
    /\ disk' = [disk EXCEPT ![n] = log'[n]]
    /\ UNCHANGED <<pipe, worker>>

(***************************************************************************)
(* eligible.                                                               *)
(***************************************************************************)
Eligible(n) ==
    /\ n \in Pipelining
    /\ role[n] = "Leader"
    /\ Cardinality(Node) > 1
    /\ disk[n] = log[n]

(***************************************************************************)
(* prepare_proposals and step_proposal_batch: the entries may leave while  *)
(* the worker gets the node.                                               *)
(***************************************************************************)
PrepareProposals(n, v) ==
    /\ Available(n) /\ Eligible(n)
    /\ worker[n]
    /\ ClientProposal(n, v)
    /\ pipe' = [pipe EXCEPT ![n] = "Pending"]
    /\ UNCHANGED <<disk, worker>>

(***************************************************************************)
(* Without a worker the driver writes the entries itself: InlineFallback.  *)
(* If that fails nothing is sent, and nobody sees the node's log before it *)
(* is recovered.                                                           *)
(***************************************************************************)
FallBack(n, v) ==
    /\ Available(n) /\ Eligible(n)
    /\ ~worker[n]
    /\ ClientProposal(n, v)
    /\ disk' = [disk EXCEPT ![n] = log'[n]]
    /\ UNCHANGED <<pipe, worker>>

FailInline(n, v) ==
    /\ Available(n) /\ Eligible(n)
    /\ ~worker[n]
    /\ Len(log[n]) < MaxIndex
    /\ \E written \in {log[n], Append(log[n], Entry(currentTerm[n], v))} :
          disk' = [disk EXCEPT ![n] = written]
    /\ pipe' = [pipe EXCEPT ![n] = "Poisoned"]
    /\ UNCHANGED <<vars, worker>>

(***************************************************************************)
(* The worker: PersistenceWork::persist ends, or the thread does.          *)
(***************************************************************************)
Persist(n) ==
    /\ pipe[n] = "Pending"
    /\ pipe' = [pipe EXCEPT ![n] = "Persisted"]
    /\ disk' = [disk EXCEPT ![n] = log[n]]
    /\ UNCHANGED <<vars, worker>>

FailToPersist(n) ==
    /\ pipe[n] = "Pending"
    /\ \E written \in {disk[n], log[n]} : disk' = [disk EXCEPT ![n] = written]
    /\ \/ pipe' = [pipe EXCEPT ![n] = "Failed"] /\ UNCHANGED worker
       \/ pipe' = [pipe EXCEPT ![n] = "Stopped"] /\ worker' = [worker EXCEPT ![n] = FALSE]
    /\ UNCHANGED vars

(***************************************************************************)
(* complete, try_complete: the driver gets the node back, poisoned if the  *)
(* write failed.  After the thread ended without a completion it never     *)
(* does.                                                                   *)
(***************************************************************************)
Complete(n) ==
    /\ pipe[n] \in {"Persisted", "Failed"}
    /\ pipe' = [pipe EXCEPT ![n] = IF @ = "Failed" THEN "Poisoned" ELSE "Ready"]
    /\ UNCHANGED <<vars, disk, worker>>

(***************************************************************************)
(* shutdown_worker: refused while the worker is busy.                      *)
(***************************************************************************)
ShutdownWorker(n) ==
    /\ worker[n]
    /\ pipe[n] \in {"Ready", "Poisoned"}
    /\ worker' = [worker EXCEPT ![n] = FALSE]
    /\ UNCHANGED <<vars, disk, pipe>>

(***************************************************************************)
(* The process ends and is started again from storage.                     *)
(***************************************************************************)
Crash(n) ==
    /\ n \in Pipelining
    /\ role[n] # "Follower" \/ ~worker[n]
    /\ BecomeFollower(n, currentTerm[n])
    /\ log' = [log EXCEPT ![n] = disk[n]]
    /\ pipe' = [pipe EXCEPT ![n] = "Ready"]
    /\ worker' = [worker EXCEPT ![n] = TRUE]
    /\ UNCHANGED <<votedFor, commitIndex, requests, ballots, termLog, termCommit, acked, disk>>

PipelinedNext ==
    \E n \in Node :
        \/ StepBatch(n)
        \/ \E v \in Value : PrepareProposals(n, v) \/ FallBack(n, v) \/ FailInline(n, v)
        \/ Persist(n) \/ FailToPersist(n) \/ Complete(n)
        \/ ShutdownWorker(n) \/ Crash(n)

PipelinedSpec == PipelinedInit /\ [][PipelinedNext]_pvars

----------------------------------------------------------------------------
(* Properties.                                                             *)

(***************************************************************************)
(* The type invariant.                                                     *)
(***************************************************************************)
PipelinedTypeOK ==
    /\ TypeOK
    /\ pipe \in [Node -> {"Ready", "Pending", "Persisted", "Failed", "Stopped", "Poisoned"}]
    /\ worker \in [Node -> BOOLEAN]
    /\ \A n \in Node : pipe[n] # "Ready" => n \in Pipelining /\ role[n] = "Leader"

(***************************************************************************)
(* What any node takes for committed is on the disks of a majority, so it  *)
(* survives the crash of every node at once, although leaders send entries *)
(* before they write them (prepare_proposals, step_batch).                 *)
(***************************************************************************)
CommittedIsDurable ==
    \A n \in Node : \A i \in 1 .. commitIndex[n] :
        IsQuorum({m \in Node : i <= Len(disk[m]) /\ disk[m][i] = log[n][i]})

(***************************************************************************)
(* The cluster keeps the promises of CommittedLog although its leaders     *)
(* send entries that a crash may erase from their own logs.                *)
(***************************************************************************)
PipelinedLogSpec == Committed!LogSpec

=============================================================================
