--------------------------- MODULE MCDurableNode ---------------------------
(* Small histories for DurableNode.                                        *)
EXTENDS DurableNode, TLC

(***************************************************************************)
(* The leader of term 1 commits its first entry and loses another; the     *)
(* leader of term 2 replaces and commits it.                               *)
(***************************************************************************)
MCHistory == << <<1, 1>>, <<1, 2>> >>

MCCommitted == <<1, 2>>

LeaderSymmetry == Permutations(Leaders)

(***************************************************************************)
(* States are told apart only by what can still matter: of the promises,   *)
(* the votes of the durable term and the furthest acknowledgement in it    *)
(* (the durable term never falls, and each acknowledgement of a term is a  *)
(* prefix of the further ones); of a poisoned runtime, its disk.           *)
(***************************************************************************)
Live ==
    {p \in promised : /\ p.term >= hard.term
                      /\ p.kind = "Ack" => \A q \in promised :
                            q.kind = "Ack" /\ q.term = p.term => q.index <= p.index}

View ==
    <<diskVars, Live, applied, pc, leaderOf,
      IF pc = "poisoned" THEN <<>> ELSE <<kernelVars, callVars>> >>

=============================================================================
