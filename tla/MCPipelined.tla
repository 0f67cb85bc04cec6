---------------------------- MODULE MCPipelined ----------------------------
(***************************************************************************)
(* Pipelined for TLC, with the view of MCReplication.                      *)
(***************************************************************************)
EXTENDS Pipelined, MCReplication

PipelinedView == <<View, disk, pipe, worker>>

=============================================================================
