--------------------------- MODULE MCReplication ---------------------------
(***************************************************************************)
(* Replication for TLC.                                                    *)
(*                                                                         *)
(* The network variables only grow.  View leaves out of TLC's notion of a  *)
(* state what nobody will ever act on again:                               *)
(*   - a vote request of a term that every other node has left or voted in;*)
(*   - a ballot for a node that no longer campaigns in its term;           *)
(*   - acknowledgements for a term its leader no longer leads;             *)
(*   - the frames of a term that every node has left.                      *)
(* Terms never decrease, votes are final within a term, and a node that    *)
(* stops campaigning or leading does not do so again in the same term, so  *)
(* what is left out stays without effect.                                  *)
(***************************************************************************)
EXTENDS Replication, TLC

LiveRequests ==
    {m \in requests : \E n \in Node \ {m.from} :
        \/ m.term > currentTerm[n]
        \/ m.term = currentTerm[n] /\ votedFor[n] = Nil}

LiveBallots ==
    {m \in ballots : m.term = currentTerm[m.to] /\ role[m.to] = "Candidate"}

LiveAcks ==
    [n \in {l \in Node : role[l] = "Leader"} |-> acked[n][currentTerm[n]]]

LiveTerms == {t \in Term : \E n \in Node : t >= currentTerm[n]}

View == <<currentTerm, votedFor, log, role, commitIndex, matchIndex,
          LiveRequests, LiveBallots, LiveAcks,
          [n \in Node |-> [t \in LiveTerms |-> <<termLog[n][t], termCommit[n][t]>>]]>>

Symmetry == Permutations(Campaigning)

=============================================================================
