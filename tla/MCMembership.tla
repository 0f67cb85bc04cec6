--------------------------- MODULE MCMembership ---------------------------
(***************************************************************************)
(* Membership for TLC.  As in MCReplication, View leaves out the messages  *)
(* that nobody will ever act on again.                                     *)
(***************************************************************************)
EXTENDS Membership

CONSTANTS a, b, c

MCBootstraps == {Members({a, b, c}, {}), Members({a, b}, {})}

MCTargets == {Members({a}, {}), Members({b, c}, {})}

LiveRequests ==
    {m \in requests : \E n \in m.to :
        \/ m.term > currentTerm[n]
        \/ m.term = currentTerm[n] /\ votedFor[n] = Nil}

LiveBallots ==
    {m \in ballots : m.term = currentTerm[m.to] /\ role[m.to] = "Candidate"}

LiveAcks ==
    [n \in {l \in Node : role[l] = "Leader"} |-> acked[n][currentTerm[n]]]

LiveTerms == {t \in Term : \E n \in Node : t >= currentTerm[n]}

View == <<static, currentTerm, votedFor, log, role, commitIndex, matchIndex,
          LiveRequests, LiveBallots, LiveAcks,
          {<<n, t, termLog[n][t], sent[n][t]>> : n \in Node, t \in LiveTerms}>>

=============================================================================
