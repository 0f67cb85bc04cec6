----------------------------- MODULE MCElection -----------------------------
(***************************************************************************)
(* Election for TLC.                                                       *)
(*                                                                         *)
(* `msgs` only grows, so histories that differ in a message nobody will    *)
(* act on again, or in two messages that can only do the same, are         *)
(* different states.  View keeps of each message what it can still do.     *)
(* This is sound because terms never decrease, a node that stops           *)
(* campaigning or leading does not do so again in the same term, and what  *)
(* a leader knows of a follower only grows.                                *)
(***************************************************************************)
EXTENDS Election

(***************************************************************************)
(* A request that is too late can only be answered with the receiver's     *)
(* term.  That makes its sender a follower, if it is of a later term, and  *)
(* counts as contact with a leader of the same term.                       *)
(***************************************************************************)
TooLate(m) ==
    \/ m.type = "PreVote" /\ m.term <= currentTerm[m.from]
    \/ m.type \in {"RequestVote", "AppendEntries"} /\ m.term < currentTerm[m.to]
    \/ /\ m.type = "RequestVote" /\ m.term = currentTerm[m.to]
       /\ \/ votedFor[m.to] \notin {Nil, m.from}
          \/ PreVote = {} /\ votedFor[m.to] = m.from

CountsAsContact(m, leader) ==
    m.type \in {"AppendEntries", "AppendEntriesResponse"} /\ leader \in CheckQuorum

(***************************************************************************)
(* A message is spent when its receiver would return without doing         *)
(* anything, or answer without any effect, now and in every later state.   *)
(***************************************************************************)
Spent(m) ==
    \/ /\ TooLate(m)
       /\ currentTerm[m.from] = MaxTerm
       /\ ~CountsAsContact(m, m.from)
    \/ /\ m.type = "AppendEntries"
       /\ \E f \in msgs : f.type = "AppendEntries" /\ f.count > m.count
                          /\ f = [m EXCEPT !.count = f.count]
    \/ /\ m.type \notin {"PreVote", "RequestVote", "AppendEntries", "PreVoteResponse"}
       /\ m.term < currentTerm[m.to]
    \/ /\ m.type = "PreVoteResponse"
       /\ \/ m.term < currentTerm[m.to] \/ (m.term = currentTerm[m.to] /\ ~m.granted)
          \/ currentTerm[m.to] = MaxTerm
    \/ /\ m.type = "RequestVoteResponse"
       /\ m.term = currentTerm[m.to]
       /\ ~m.granted \/ role[m.to] # "Candidate" \/ m.from \in votes[m.to]
    \/ /\ m.type = "AppendEntriesResponse"
       /\ m.term = currentTerm[m.to]
       /\ \/ role[m.to] \notin {"Candidate", "Leader"}
          \/ /\ role[m.to] = "Leader"
             /\ m.to \notin CheckQuorum
             /\ m.match <= match[m.to][m.from]

(***************************************************************************)
(* What is left of a message: an answer of a later term makes its receiver *)
(* a follower, whoever sent it.                                            *)
(***************************************************************************)
Remainder(m) ==
    IF TooLate(m)
    THEN [type |-> "TooLate", from |-> m.from, to |-> m.to,
          contact |-> CountsAsContact(m, m.from)]
    ELSE IF /\ m.type \in {"PreVoteResponse", "RequestVoteResponse", "AppendEntriesResponse"}
            /\ m.term > currentTerm[m.to]
            /\ ~(m.type = "PreVoteResponse" /\ m.granted)
            /\ ~CountsAsContact(m, m.to)
    THEN [type |-> "LaterTerm", to |-> m.to, term |-> m.term]
    ELSE m

(***************************************************************************)
(* The mandate of a campaign is in messages that are spent by then.        *)
(***************************************************************************)
View == <<currentTerm, votedFor, last, role, leaderHint, electionVars, leaderVars,
          {Remainder(m) : m \in {x \in msgs : ~Spent(x)}},
          CampaignHasMandate>>

=============================================================================
