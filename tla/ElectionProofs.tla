--------------------------- MODULE ElectionProofs ---------------------------
(***************************************************************************)
(* Election for every number of nodes and terms, and every setting of      *)
(* pre-vote and check-quorum.                                              *)
(*                                                                         *)
(* A leader's majority is a set of names in `votes`.  What binds the       *)
(* named voters is in the messages they sent: a granted RequestVoteResponse*)
(* of a term is final, because its sender's durable vote of the term is.   *)
(* VoteInv says so, and that every counted vote has its message.           *)
(***************************************************************************)
EXTENDS ElectionTypes, FiniteSetTheorems

(***************************************************************************)
(* v answered c with a granted RequestVoteResponse in term t.              *)
(***************************************************************************)
Ballot(v, c, t) ==
    [type |-> "RequestVoteResponse", from |-> v, to |-> c, term |-> t, granted |-> TRUE]

BallotsBind ==
    \A v, c \in Node, t \in Term :
        Ballot(v, c, t) \in msgs =>
            /\ t <= currentTerm[v]
            /\ t = currentTerm[v] => votedFor[v] = c

BallotsAgree ==
    \A v, c, d \in Node, t \in Term :
        Ballot(v, c, t) \in msgs /\ Ballot(v, d, t) \in msgs => c = d

VotesHaveBallots ==
    \A n \in Node : role[n] \in {"Candidate", "Leader"} =>
        /\ votedFor[n] = n
        /\ \A v \in votes[n] : v = n \/ Ballot(v, n, currentTerm[n]) \in msgs

LeadersHaveQuorum ==
    \A n \in Node : role[n] = "Leader" => IsQuorum(votes[n])

VoteInv == BallotsBind /\ BallotsAgree /\ VotesHaveBallots /\ LeadersHaveQuorum

(***************************************************************************)
(* Two majorities share a voter (has_quorum over one voter set).           *)
(***************************************************************************)
LEMMA QuorumsMeet ==
    ASSUME NEW S \in SUBSET Node, NEW T \in SUBSET Node, IsQuorum(S), IsQuorum(T)
    PROVE  S \cap T # {}
<1>1. IsFiniteSet(Node) /\ IsFiniteSet(S) /\ IsFiniteSet(T)
  BY ElectionAssumption, FS_Subset
<1>2. Cardinality(Node) \in Nat /\ Cardinality(S) \in Nat /\ Cardinality(T) \in Nat
  BY <1>1, FS_CardinalityType
<1>3. Cardinality(S) + Cardinality(T) > Cardinality(Node)
  BY <1>2 DEF IsQuorum
<1> QED
  BY <1>1, <1>3, FS_MajoritiesIntersect

----------------------------------------------------------------------------
(* Votes.                                                                  *)

(***************************************************************************)
(* A step of n that grants no vote and counts none: n may move to a later  *)
(* term, or stop campaigning, but adds no ballot.                          *)
(***************************************************************************)
NoNewBallot == \A v, c \in Node, t \in Term : Ballot(v, c, t) \in msgs' => Ballot(v, c, t) \in msgs

OthersAlone(n) ==
    \A k \in Node \ {n} : /\ currentTerm'[k] = currentTerm[k] /\ votedFor'[k] = votedFor[k]
                          /\ role'[k] = role[k] /\ votes'[k] = votes[k]

Quiet(n) ==
    /\ OthersAlone(n)
    /\ currentTerm'[n] >= currentTerm[n]
    /\ currentTerm'[n] = currentTerm[n] => votedFor'[n] = votedFor[n]
    /\ \/ role'[n] \notin {"Candidate", "Leader"}
       \/ /\ currentTerm'[n] = currentTerm[n]
          /\ role'[n] = role[n] /\ votes'[n] = votes[n]
    /\ NoNewBallot
    /\ msgs \subseteq msgs'

(***************************************************************************)
(* Messages of other types add no ballot.                                  *)
(***************************************************************************)
LEMMA OtherMessages ==
    ASSUME NEW out, \A m \in out : m.type # "RequestVoteResponse", msgs' = msgs \cup out
    PROVE  NoNewBallot /\ msgs \subseteq msgs'
BY DEF NoNewBallot, Ballot

(***************************************************************************)
(* So does a single one.                                                   *)
(***************************************************************************)
LEMMA OtherMessage ==
    ASSUME NEW reply, reply.type # "RequestVoteResponse", msgs' = msgs \cup {reply}
    PROVE  NoNewBallot /\ msgs \subseteq msgs'
BY DEF NoNewBallot, Ballot

(***************************************************************************)
(* A quiet step keeps the invariant on votes.                              *)
(***************************************************************************)
LEMMA QuietKeepsVotes ==
    ASSUME TypeOK, TypeOK', VoteInv, NEW n \in Node, Quiet(n)
    PROVE  VoteInv'
<1>0. \A k \in Node : currentTerm[k] \in Nat /\ currentTerm'[k] \in Nat
  BY ElectionAssumption DEF TypeOK, Term
<1>1. BallotsBind'
  <2> SUFFICES ASSUME NEW v \in Node, NEW c \in Node, NEW t \in Term, Ballot(v, c, t) \in msgs'
               PROVE  /\ t <= currentTerm'[v]
                      /\ t = currentTerm'[v] => votedFor'[v] = c
    BY DEF BallotsBind, Ballot
  <2>1. Ballot(v, c, t) \in msgs
    BY DEF Quiet, NoNewBallot
  <2>2. t \in Nat /\ t <= currentTerm[v] /\ (t = currentTerm[v] => votedFor[v] = c)
    BY <2>1 DEF VoteInv, BallotsBind, Term
  <2>3. currentTerm'[v] >= currentTerm[v]
    BY <1>0 DEF Quiet, OthersAlone
  <2>4. currentTerm'[v] = currentTerm[v] => votedFor'[v] = votedFor[v]
    BY DEF Quiet, OthersAlone
  <2> QED
    BY <1>0, <2>2, <2>3, <2>4
<1>2. BallotsAgree'
  <2> SUFFICES ASSUME NEW v \in Node, NEW c \in Node, NEW d \in Node, NEW t \in Term,
                      Ballot(v, c, t) \in msgs', Ballot(v, d, t) \in msgs'
               PROVE  c = d
    BY DEF BallotsAgree, Ballot
  <2> QED
    BY DEF Quiet, NoNewBallot, VoteInv, BallotsAgree
<1>3. \A k \in Node : role'[k] \in {"Candidate", "Leader"} =>
         /\ role[k] = role'[k] /\ votes'[k] = votes[k]
         /\ currentTerm'[k] = currentTerm[k] /\ votedFor'[k] = votedFor[k]
  BY DEF Quiet, OthersAlone
<1>4. VotesHaveBallots'
  <2> SUFFICES ASSUME NEW k \in Node, role'[k] \in {"Candidate", "Leader"}
               PROVE  /\ votedFor'[k] = k
                      /\ \A v \in votes'[k] : v = k \/ Ballot(v, k, currentTerm'[k]) \in msgs'
    BY DEF VotesHaveBallots, Ballot
  <2>1. msgs \subseteq msgs'
    BY DEF Quiet
  <2> QED
    BY <1>3, <2>1 DEF VoteInv, VotesHaveBallots
<1>5. LeadersHaveQuorum'
  BY <1>3 DEF VoteInv, LeadersHaveQuorum, IsQuorum
<1> QED
  BY <1>1, <1>2, <1>4, <1>5 DEF VoteInv

(***************************************************************************)
(* Becoming a follower is quiet.                                           *)
(***************************************************************************)
LEMMA BecomeFollowerQuiet ==
    ASSUME TypeOK, NEW n \in Node, NEW t \in Term, t >= currentTerm[n],
           BecomeFollower(n, t), UNCHANGED msgs
    PROVE  Quiet(n)
<1>1. OthersAlone(n)
  BY DEF TypeOK, OthersAlone, BecomeFollower, ResetElection
<1>2. /\ currentTerm'[n] = t /\ role'[n] = "Follower"
      /\ votedFor'[n] = IF t > currentTerm[n] THEN Nil ELSE votedFor[n]
  BY DEF TypeOK, BecomeFollower
<1>3. currentTerm[n] \in Nat /\ t \in Nat
  BY ElectionAssumption DEF TypeOK, Term
<1> QED
  BY <1>1, <1>2, <1>3 DEF Quiet, NoNewBallot

(***************************************************************************)
(* A step that leaves terms, votes and roles alone and adds no ballot      *)
(* keeps the invariant.                                                    *)
(***************************************************************************)
LEMMA IdleKeepsVotes ==
    ASSUME TypeOK, TypeOK', VoteInv, NEW n \in Node,
           UNCHANGED <<currentTerm, votedFor, role, votes>>, NoNewBallot, msgs \subseteq msgs'
    PROVE  VoteInv'
<1>0. currentTerm[n] \in Nat
  BY ElectionAssumption DEF TypeOK, Term
<1>1. Quiet(n)
  BY <1>0 DEF Quiet, OthersAlone, durableVars
<1> QED
  BY <1>1, QuietKeepsVotes, Zenon

(***************************************************************************)
(* So does becoming a follower.                                            *)
(***************************************************************************)
LEMMA FollowKeepsVotes ==
    ASSUME TypeOK, TypeOK', VoteInv, NEW n \in Node, NEW t \in Term, t >= currentTerm[n],
           BecomeFollower(n, t), UNCHANGED msgs
    PROVE  VoteInv'
<1>1. Quiet(n)
  BY BecomeFollowerQuiet, Zenon
<1> QED
  BY <1>1, QuietKeepsVotes, Zenon

(***************************************************************************)
(* start_election keeps the invariant: the term is new, so no ballot of it *)
(* by the candidate exists, and its only vote is its own.                  *)
(***************************************************************************)
LEMMA StartElectionKeepsVotes ==
    ASSUME TypeOK, TypeOK', VoteInv, NEW n \in Node, NEW t \in Term, t >= currentTerm[n],
           HasNextTerm(t), StartElection(n, t)
    PROVE  VoteInv'
<1>0. /\ \A k \in Node : currentTerm[k] \in Nat /\ currentTerm'[k] \in Nat
      /\ t \in Nat
  BY ElectionAssumption DEF TypeOK, Term
<1>1. /\ currentTerm' = [currentTerm EXCEPT ![n] = t + 1]
      /\ votedFor' = [votedFor EXCEPT ![n] = n]
      /\ votes' = [votes EXCEPT ![n] = {n}]
  BY DEF StartElection, BecomeLeader, ResetElection
<1>2. /\ role' \in {[role EXCEPT ![n] = "Leader"], [role EXCEPT ![n] = "Candidate"]}
      /\ role'[n] = "Leader" => IsQuorum({n})
  BY DEF TypeOK, StartElection, BecomeLeader
<1>3. NoNewBallot /\ msgs \subseteq msgs'
  <2>1. CASE IsQuorum({n})
    <3>1. msgs' = msgs \cup Contact(n, t + 1, 1)
      BY <2>1 DEF StartElection, BecomeLeader, Send
    <3>2. \A m \in Contact(n, t + 1, 1) : m.type # "RequestVoteResponse"
      BY DEF Contact, Frame
    <3> QED
      BY <3>1, <3>2, OtherMessages
  <2>2. CASE ~IsQuorum({n})
    <3>1. msgs' = msgs \cup ToOthers(n, "RequestVote", t + 1)
      BY <2>2 DEF StartElection, Send
    <3>2. \A m \in ToOthers(n, "RequestVote", t + 1) : m.type # "RequestVoteResponse"
      BY DEF ToOthers
    <3> QED
      BY <3>1, <3>2, OtherMessages
  <2> QED
    BY <2>1, <2>2
<1>4. BallotsBind'
  <2> SUFFICES ASSUME NEW v \in Node, NEW c \in Node, NEW u \in Term, Ballot(v, c, u) \in msgs'
               PROVE  /\ u <= currentTerm'[v]
                      /\ u = currentTerm'[v] => votedFor'[v] = c
    BY DEF BallotsBind, Ballot
  <2>1. u \in Nat /\ u <= currentTerm[v] /\ (u = currentTerm[v] => votedFor[v] = c)
    BY <1>3 DEF NoNewBallot, VoteInv, BallotsBind, Term
  <2>2. CASE v = n
    BY <1>0, <1>1, <2>1, <2>2 DEF TypeOK
  <2>3. CASE v # n
    BY <1>0, <1>1, <2>1, <2>3 DEF TypeOK
  <2> QED
    BY <2>2, <2>3
<1>5. BallotsAgree'
  <2> SUFFICES ASSUME NEW v \in Node, NEW c \in Node, NEW d \in Node, NEW u \in Term,
                      Ballot(v, c, u) \in msgs', Ballot(v, d, u) \in msgs'
               PROVE  c = d
    BY DEF BallotsAgree, Ballot
  <2> QED
    BY <1>3 DEF NoNewBallot, VoteInv, BallotsAgree
<1>6. VotesHaveBallots'
  <2> SUFFICES ASSUME NEW k \in Node, role'[k] \in {"Candidate", "Leader"}
               PROVE  /\ votedFor'[k] = k
                      /\ \A v \in votes'[k] : v = k \/ Ballot(v, k, currentTerm'[k]) \in msgs'
    BY DEF VotesHaveBallots, Ballot
  <2>1. CASE k = n
    BY <1>1, <2>1 DEF TypeOK
  <2>2. CASE k # n
    <3>1. /\ role[k] = role'[k] /\ votes'[k] = votes[k]
          /\ currentTerm'[k] = currentTerm[k] /\ votedFor'[k] = votedFor[k]
      BY <1>1, <1>2, <2>2 DEF TypeOK
    <3> QED
      BY <1>3, <3>1 DEF VoteInv, VotesHaveBallots
  <2> QED
    BY <2>1, <2>2
<1>7. LeadersHaveQuorum'
  <2> SUFFICES ASSUME NEW k \in Node, role'[k] = "Leader"
               PROVE  IsQuorum(votes'[k])
    BY DEF LeadersHaveQuorum, IsQuorum
  <2>1. CASE k = n
    BY <1>1, <1>2, <2>1 DEF TypeOK
  <2>2. CASE k # n
    BY <1>1, <1>2, <2>2 DEF TypeOK, VoteInv, LeadersHaveQuorum
  <2> QED
    BY <2>1, <2>2
<1> QED
  BY <1>4, <1>5, <1>6, <1>7 DEF VoteInv

(***************************************************************************)
(* Ticks, transfer requests and restarts keep the invariant on votes.      *)
(***************************************************************************)
LEMMA InputKeepsVotes ==
    ASSUME TypeOK, TypeOK', VoteInv, NEW n \in Node,
           \/ TickLapse(n) \/ TickTimeout(n) \/ TickHeartbeat(n) \/ TickTransfer(n)
           \/ TickCheckQuorum(n) \/ Propose(n) \/ Restart(n)
           \/ \E target \in TransferTargets : TransferLeadership(n, target)
    PROVE  VoteInv'
<1>0. currentTerm[n] \in Term /\ currentTerm[n] \in Nat
  BY ElectionAssumption DEF TypeOK, Term
<1>a. ASSUME UNCHANGED <<currentTerm, votedFor, role, votes>>, NoNewBallot, msgs \subseteq msgs'
      PROVE  VoteInv'
  BY <1>a, IdleKeepsVotes, Zenon
<1>b. ASSUME UNCHANGED <<currentTerm, votedFor, role, votes, msgs>>
      PROVE  VoteInv'
  <2>1. NoNewBallot /\ msgs \subseteq msgs'
    BY <1>b DEF NoNewBallot
  <2> QED
    BY <1>a, <1>b, <2>1
<1>c. ASSUME UNCHANGED durableVars, ResetElection(n, {}),
             role' = [role EXCEPT ![n] = "Follower"], UNCHANGED msgs
      PROVE  VoteInv'
  <2>1. OthersAlone(n) /\ role'[n] = "Follower"
    BY <1>c, SMTT(30) DEF TypeOK, OthersAlone, ResetElection, durableVars
  <2>2. Quiet(n)
    BY <1>0, <1>c, <2>1 DEF Quiet, NoNewBallot, durableVars
  <2> QED
    BY <2>2, QuietKeepsVotes
<1>1. CASE TickLapse(n)
  BY <1>1, <1>b DEF TickLapse, durableVars
<1>2. CASE TickTimeout(n)
  <2>1. CASE ~HasNextTerm(currentTerm[n])
    BY <1>2, <1>b, <2>1 DEF TickTimeout, durableVars
  <2>2. CASE HasNextTerm(currentTerm[n]) /\ StartElection(n, currentTerm[n])
    BY <1>0, <2>2, StartElectionKeepsVotes
  <2>3. CASE ~IsQuorum({n}) /\ StartPreVoteRound(n)
    <3>1. /\ UNCHANGED <<durableVars, votes>>
          /\ role' = [role EXCEPT ![n] = "PreCandidate"]
          /\ msgs' = msgs \cup ToOthers(n, "PreVote", currentTerm[n] + 1)
      BY <2>3, SMTT(30) DEF StartPreVoteRound, Send
    <3>2. \A m \in ToOthers(n, "PreVote", currentTerm[n] + 1) : m.type # "RequestVoteResponse"
      BY DEF ToOthers
    <3>3. NoNewBallot /\ msgs \subseteq msgs'
      BY <3>1, <3>2, OtherMessages, Zenon
    <3>4. OthersAlone(n) /\ role'[n] = "PreCandidate"
      BY <3>1, SMTT(30) DEF TypeOK, OthersAlone, durableVars
    <3>5. Quiet(n)
      BY <1>0, <3>1, <3>3, <3>4, SMTT(30) DEF Quiet, durableVars
    <3> QED
      BY <3>5, QuietKeepsVotes
  <2> QED
    BY <1>2, <2>1, <2>2, <2>3, Zenon DEF TickTimeout, StartPreVoteRound
<1>3. CASE TickHeartbeat(n)
  <2>1. \A m \in Contact(n, currentTerm[n], last[n].count) : m.type # "RequestVoteResponse"
    BY SMTT(30) DEF Contact, Frame
  <2>2. NoNewBallot /\ msgs \subseteq msgs'
    BY <1>3, <2>1, OtherMessages DEF TickHeartbeat, Send
  <2> QED
    BY <1>3, <1>a, <2>2, Zenon DEF TickHeartbeat, electionVars, durableVars
<1>4. CASE TickTransfer(n)
  BY <1>4, <1>b DEF TickTransfer, electionVars, durableVars
<1>5. CASE TickCheckQuorum(n)
  <2>1. CASE IsQuorum(quorumAcks[n] \cup {n})
    BY <1>5, <1>b, <2>1 DEF TickCheckQuorum, electionVars, durableVars
  <2>2. CASE ~IsQuorum(quorumAcks[n] \cup {n})
    BY <1>5, <1>c, <2>2 DEF TickCheckQuorum
  <2> QED
    BY <2>1, <2>2
<1>6. CASE Restart(n)
  BY <1>6, <1>c DEF Restart
<1>7. ASSUME NEW target \in TransferTargets, TransferLeadership(n, target)
      PROVE  VoteInv'
  <2> DEFINE out == {IF TargetIsCaughtUp(n, match[n][target])
                     THEN TimeoutNow(n, target)
                     ELSE Frame(n, target, currentTerm[n], last[n].count)}
  <2>1. msgs' = msgs \cup out
    BY <1>7 DEF TransferLeadership, Send
  <2>2. \A m \in out : m.type # "RequestVoteResponse"
    BY DEF TimeoutNow, Frame
  <2> HIDE DEF out
  <2>3. NoNewBallot /\ msgs \subseteq msgs'
    BY <2>1, <2>2, OtherMessages
  <2> QED
    BY <1>7, <1>a, <2>3 DEF TransferLeadership, electionVars, durableVars
<1>8. CASE Propose(n)
  <2> DEFINE out == Contact(n, currentTerm[n], last[n].count + 1)
  <2>1. msgs' = msgs \cup out
    BY <1>8 DEF Propose, Send
  <2>2. \A m \in out : m.type # "RequestVoteResponse"
    BY DEF Contact, Frame
  <2> HIDE DEF out
  <2>3. NoNewBallot /\ msgs \subseteq msgs'
    BY <2>1, <2>2, OtherMessages
  <2> QED
    BY <1>8, <1>a, <2>3, Zenon DEF Propose, electionVars
<1> QED
  BY <1>1, <1>2, <1>3, <1>4, <1>5, <1>6, <1>7, <1>8

(***************************************************************************)
(* Granting a vote keeps the invariant: the voter had given none in the    *)
(* term, or the same one.                                                  *)
(***************************************************************************)
LEMMA HandleRequestVoteKeepsVotes ==
    ASSUME TypeOK, TypeOK', VoteInv, NEW m \in msgs, HandleRequestVote(m)
    PROVE  VoteInv'
<1> DEFINE n == m.to
           t == Greater(currentTerm[n], m.term)
           newer == m.term > currentTerm[n]
           vote == IF newer THEN Nil ELSE votedFor[n]
           granted == MayVote(n, m, vote)
           reply == [type |-> "RequestVoteResponse", from |-> n, to |-> m.from,
                     term |-> t, granted |-> granted]
<1>0. /\ n \in Node /\ m.from \in Node /\ m.term \in Term /\ m.term \in Nat
      /\ \A k \in Node : currentTerm[k] \in Nat /\ currentTerm'[k] \in Nat
      /\ Nil \notin Node
  BY ElectionAssumption, MessageFields DEF TypeOK, Term
<1>1. /\ currentTerm' = [currentTerm EXCEPT ![n] = t]
      /\ votedFor' = [votedFor EXCEPT ![n] = IF granted THEN m.from ELSE vote]
      /\ msgs' = msgs \cup {reply}
  BY DEF HandleRequestVote, Send
<1>2. \/ newer /\ role' = [role EXCEPT ![n] = "Follower"] /\ votes' = [votes EXCEPT ![n] = {}]
      \/ ~newer /\ UNCHANGED <<role, votes>>
  BY DEF HandleRequestVote
<1>3. /\ granted => t = m.term /\ vote \in {Nil, m.from}
      /\ t \in Nat /\ t >= currentTerm[n] /\ (t = currentTerm[n] <=> ~newer)
  BY <1>0 DEF MayVote, Greater
<1>4. \A v, c \in Node, u \in Term :
         Ballot(v, c, u) \in msgs' =>
            \/ Ballot(v, c, u) \in msgs
            \/ granted /\ v = n /\ c = m.from /\ u = t
  BY <1>1 DEF Ballot
<1>5. \A v, c \in Node, u \in Term : Ballot(v, c, u) \in msgs =>
         u \in Nat /\ u <= currentTerm[v] /\ (u = currentTerm[v] => votedFor[v] = c)
  BY DEF VoteInv, BallotsBind, Term
<1> HIDE DEF reply, t, granted
<1>6. BallotsBind'
  <2> SUFFICES ASSUME NEW v \in Node, NEW c \in Node, NEW u \in Term, Ballot(v, c, u) \in msgs'
               PROVE  /\ u <= currentTerm'[v]
                      /\ u = currentTerm'[v] => votedFor'[v] = c
    BY DEF BallotsBind, Ballot
  <2>1. CASE Ballot(v, c, u) \in msgs /\ v # n
    BY <1>0, <1>1, <1>5, <2>1, SMTT(30) DEF TypeOK
  <2>2. CASE Ballot(v, c, u) \in msgs /\ v = n
    <3>1. u \in Nat /\ u <= currentTerm[n] /\ (u = currentTerm[n] => votedFor[n] = c)
      BY <1>5, <2>2
    <3>2. currentTerm'[n] = t /\ votedFor'[n] = IF granted THEN m.from ELSE vote
      BY <1>0, <1>1 DEF TypeOK
    <3>3. u <= t
      BY <1>0, <1>3, <3>1
    <3>4. ASSUME u = t PROVE votedFor'[n] = c
      <4>1. ~newer /\ votedFor[n] = c
        BY <1>0, <1>3, <3>1, <3>4
      <4>2. vote = c
        BY <4>1
      <4> QED
        BY <1>0, <1>3, <3>2, <4>2
    <3> QED
      BY <2>2, <3>2, <3>3, <3>4
  <2>3. CASE granted /\ v = n /\ c = m.from /\ u = t
    BY <1>0, <1>1, <1>3, <2>3, SMTT(30) DEF TypeOK
  <2> QED
    BY <1>4, <2>1, <2>2, <2>3
<1>7. BallotsAgree'
  <2> SUFFICES ASSUME NEW v \in Node, NEW c \in Node, NEW d \in Node, NEW u \in Term,
                      Ballot(v, c, u) \in msgs', Ballot(v, d, u) \in msgs'
               PROVE  c = d
    BY DEF BallotsAgree, Ballot
  <2>1. \A e \in Node : Ballot(n, e, t) \in msgs /\ t \in Term /\ granted => e = m.from
    <3> SUFFICES ASSUME NEW e \in Node, Ballot(n, e, t) \in msgs, t \in Term, granted
                 PROVE  e = m.from
      OBVIOUS
    <3>1. t = currentTerm[n] /\ votedFor[n] = e
      BY <1>0, <1>3, <1>5
    <3>2. ~newer
      BY <1>3, <3>1
    <3> QED
      BY <1>0, <1>3, <3>1, <3>2
  <2> QED
    BY <1>4, <2>1 DEF VoteInv, BallotsAgree
<1>8. msgs \subseteq msgs'
  BY <1>1
<1>9. \A k \in Node : role'[k] \in {"Candidate", "Leader"} =>
         /\ role[k] = role'[k] /\ votes'[k] = votes[k]
         /\ currentTerm'[k] = currentTerm[k] /\ votedFor'[k] = votedFor[k]
  <2> SUFFICES ASSUME NEW k \in Node, role'[k] \in {"Candidate", "Leader"}
               PROVE  /\ role[k] = role'[k] /\ votes'[k] = votes[k]
                      /\ currentTerm'[k] = currentTerm[k] /\ votedFor'[k] = votedFor[k]
    OBVIOUS
  <2>1. CASE k # n
    BY <1>0, <1>1, <1>2, <2>1, SMTT(30) DEF TypeOK
  <2>2. CASE k = n
    <3>1. ~newer /\ role'[n] = role[n] /\ votes'[n] = votes[n]
      BY <1>0, <1>2, <2>2, SMTT(30) DEF TypeOK
    <3>2. votedFor[n] = n
      BY <2>2, <3>1, <1>0, SMTT(30) DEF VoteInv, VotesHaveBallots
    <3>3. currentTerm'[n] = currentTerm[n]
      BY <1>0, <1>1, <1>3, <3>1 DEF TypeOK
    <3>4. granted => m.from = n
      BY <1>0, <1>3, <3>1, <3>2, SMTT(30)
    <3>5. votedFor'[n] = votedFor[n]
      BY <1>0, <1>1, <3>1, <3>2, <3>4, SMTT(30) DEF TypeOK
    <3> QED
      BY <2>2, <3>1, <3>3, <3>5, Zenon
  <2> QED
    BY <2>1, <2>2
<1>10. VotesHaveBallots'
  <2> SUFFICES ASSUME NEW k \in Node, role'[k] \in {"Candidate", "Leader"}
               PROVE  /\ votedFor'[k] = k
                      /\ \A v \in votes'[k] : v = k \/ Ballot(v, k, currentTerm'[k]) \in msgs'
    BY Zenon DEF VotesHaveBallots, Ballot
  <2> QED
    BY <1>8, <1>9, SMTT(30) DEF VoteInv, VotesHaveBallots
<1>11. LeadersHaveQuorum'
  <2> SUFFICES ASSUME NEW k \in Node, role'[k] = "Leader"
               PROVE  IsQuorum(votes'[k])
    BY DEF LeadersHaveQuorum, IsQuorum
  <2> QED
    BY <1>9 DEF VoteInv, LeadersHaveQuorum
<1> QED
  BY <1>6, <1>7, <1>10, <1>11 DEF VoteInv

(***************************************************************************)
(* Counting a vote keeps the invariant: the response is the ballot.        *)
(***************************************************************************)
LEMMA HandleRequestVoteResponseKeepsVotes ==
    ASSUME TypeOK, TypeOK', VoteInv, NEW m \in msgs, HandleRequestVoteResponse(m)
    PROVE  VoteInv'
<1> DEFINE n == m.to
           granted == votes[n] \cup Granted(m)
<1>0. /\ m \in Message /\ n \in Node /\ m.from \in Node /\ m.term \in Term
      /\ currentTerm[n] \in Nat /\ m.term \in Nat /\ m.type = "RequestVoteResponse"
  BY ElectionAssumption, MessageFields DEF TypeOK, Term, HandleRequestVoteResponse
<1>1. CASE /\ m.term > currentTerm[n] /\ BecomeFollower(n, m.term)
           /\ UNCHANGED <<last, msgs>>
  <2>1. m.term >= currentTerm[n]
    BY <1>0, <1>1
  <2> QED
    BY <1>0, <1>1, <2>1, FollowKeepsVotes, Zenon
<1>2. CASE /\ VoteCounts(n, m)
           /\ \/ /\ IsQuorum(granted) /\ BecomeLeader(n, currentTerm[n], granted)
                 /\ UNCHANGED <<currentTerm, votedFor>>
              \/ /\ votes' = [votes EXCEPT ![n] = granted]
                 /\ UNCHANGED <<durableVars, role, leaderHint, recent, preVotes, leaderVars,
                                msgs>>
  <2>1. role[n] = "Candidate" /\ m.term = currentTerm[n]
    BY <1>2 DEF VoteCounts
  <2>2. UNCHANGED <<currentTerm, votedFor>> /\ votes' = [votes EXCEPT ![n] = granted]
    BY <1>2 DEF BecomeLeader, ResetElection, durableVars
  <2>3. NoNewBallot /\ msgs \subseteq msgs'
    <3>1. CASE UNCHANGED msgs
      BY <3>1 DEF NoNewBallot
    <3>2. CASE msgs' = msgs \cup Contact(n, currentTerm[n], 1)
      <4>1. \A x \in Contact(n, currentTerm[n], 1) : x.type # "RequestVoteResponse"
        BY DEF Contact, Frame
      <4> QED
        BY <3>2, <4>1, OtherMessages
    <3> QED
      BY <1>2, <3>1, <3>2 DEF BecomeLeader, Send
  <2>4. m.granted => m = Ballot(m.from, n, m.term)
    BY <1>0 DEF Ballot, Message, VoteRequest, VoteResponse, CampaignOrder, AppendRequest,
                 AppendResponse
  <2>5. \A v \in granted : v = n \/ Ballot(v, n, currentTerm[n]) \in msgs
    <3>1. \A v \in votes[n] : v = n \/ Ballot(v, n, currentTerm[n]) \in msgs
      BY <1>0, <2>1 DEF VoteInv, VotesHaveBallots
    <3>2. \A v \in Granted(m) : Ballot(v, n, currentTerm[n]) \in msgs
      BY <2>1, <2>4 DEF Granted
    <3> QED
      BY <3>1, <3>2
  <2>6. \/ role' = role
        \/ role' = [role EXCEPT ![n] = "Leader"] /\ IsQuorum(granted)
    BY <1>2 DEF BecomeLeader
  <2> HIDE DEF granted
  <2>7. BallotsBind'
    <3> SUFFICES ASSUME NEW v \in Node, NEW c \in Node, NEW u \in Term,
                        Ballot(v, c, u) \in msgs'
                 PROVE  /\ u <= currentTerm'[v]
                        /\ u = currentTerm'[v] => votedFor'[v] = c
      BY DEF BallotsBind, Ballot
    <3> QED
      BY <2>2, <2>3 DEF NoNewBallot, VoteInv, BallotsBind
  <2>8. BallotsAgree'
    <3> SUFFICES ASSUME NEW v \in Node, NEW c \in Node, NEW d \in Node, NEW u \in Term,
                        Ballot(v, c, u) \in msgs', Ballot(v, d, u) \in msgs'
                 PROVE  c = d
      BY DEF BallotsAgree, Ballot
    <3> QED
      BY <2>3 DEF NoNewBallot, VoteInv, BallotsAgree
  <2>9. VotesHaveBallots'
    <3> SUFFICES ASSUME NEW k \in Node, role'[k] \in {"Candidate", "Leader"}
                 PROVE  /\ votedFor'[k] = k
                        /\ \A v \in votes'[k] : v = k \/ Ballot(v, k, currentTerm'[k]) \in msgs'
      BY DEF VotesHaveBallots, Ballot
    <3>1. CASE k = n
      <4>1. votedFor[n] = n
        BY <1>0, <2>1 DEF VoteInv, VotesHaveBallots
      <4>2. votes'[n] = granted
        BY <1>0, <2>2, SMTT(30) DEF TypeOK
      <4> QED
        BY <2>2, <2>3, <2>5, <3>1, <4>1, <4>2
    <3>2. CASE k # n
      <4>1. role[k] = role'[k] /\ votes'[k] = votes[k]
        BY <1>0, <2>2, <2>6, <3>2, SMTT(30) DEF TypeOK
      <4> QED
        BY <2>2, <2>3, <4>1, SMTT(30) DEF VoteInv, VotesHaveBallots
    <3> QED
      BY <3>1, <3>2
  <2>10. LeadersHaveQuorum'
    <3> SUFFICES ASSUME NEW k \in Node, role'[k] = "Leader"
                 PROVE  IsQuorum(votes'[k])
      BY DEF LeadersHaveQuorum, IsQuorum
    <3>1. CASE k = n
      BY <1>0, <2>1, <2>2, <2>6, <3>1, SMTT(30) DEF TypeOK
    <3>2. CASE k # n
      BY <1>0, <2>2, <2>6, <3>2 DEF TypeOK, VoteInv, LeadersHaveQuorum
    <3> QED
      BY <3>1, <3>2, Zenon
  <2> QED
    BY <2>7, <2>8, <2>9, <2>10 DEF VoteInv
<1> QED
  BY <1>1, <1>2, ZenonT(30) DEF HandleRequestVoteResponse

(***************************************************************************)
(* The other messages add no ballot and count no vote.                     *)
(***************************************************************************)
LEMMA PreVoteKeepsVotes ==
    ASSUME TypeOK, TypeOK', VoteInv, NEW m \in msgs, HandlePreVote(m)
    PROVE  VoteInv'
<1> DEFINE n == m.to
           granted == /\ m.term > currentTerm[n]
                      /\ NotBehind(m.last, last[n])
                      /\ ~(leaderHint[n] # Nil /\ recent[n])
           reply == [type |-> "PreVoteResponse", from |-> n, to |-> m.from,
                     term |-> IF granted THEN m.term ELSE currentTerm[n],
                     granted |-> granted]
<1>0. n \in Node
  BY MessageFields DEF TypeOK
<1>1. msgs' = msgs \cup {reply} /\ UNCHANGED <<currentTerm, votedFor, role, votes>>
  BY Zenon DEF HandlePreVote, Send, electionVars, durableVars
<1>2. reply.type # "RequestVoteResponse"
  OBVIOUS
<1> HIDE DEF reply
<1>3. NoNewBallot /\ msgs \subseteq msgs'
  BY <1>1, <1>2, OtherMessage, Zenon
<1> QED
  BY <1>0, <1>1, <1>3, IdleKeepsVotes, Zenon

LEMMA PreVoteResponseKeepsVotes ==
    ASSUME TypeOK, TypeOK', VoteInv, NEW m \in msgs, HandlePreVoteResponse(m)
    PROVE  VoteInv'
<1> DEFINE n == m.to
<1>0. /\ n \in Node /\ m.term \in Term /\ m.term \in Nat
      /\ currentTerm[n] \in Nat /\ currentTerm[n] \in Term
  BY ElectionAssumption, MessageFields DEF TypeOK, Term
<1>1. CASE /\ m.term > currentTerm[n] + 1 \/ m.term > currentTerm[n]
           /\ BecomeFollower(n, m.term) /\ UNCHANGED <<last, msgs>>
  <2>1. m.term >= currentTerm[n]
    BY <1>0, <1>1
  <2> QED
    BY <1>0, <1>1, <2>1, FollowKeepsVotes, Zenon
<1>2. CASE HasNextTerm(currentTerm[n]) /\ StartElection(n, currentTerm[n])
  <2>1. currentTerm[n] >= currentTerm[n]
    BY <1>0
  <2> QED
    BY <1>0, <1>2, <2>1, StartElectionKeepsVotes, Zenon
<1>3. CASE UNCHANGED <<durableVars, role, leaderHint, recent, votes, leaderVars, msgs>>
  <2>1. NoNewBallot /\ msgs \subseteq msgs'
    BY <1>3 DEF NoNewBallot
  <2> QED
    BY <1>0, <1>3, <2>1, IdleKeepsVotes, Zenon DEF durableVars
<1> QED
  BY <1>1, <1>2, <1>3, ZenonT(30) DEF HandlePreVoteResponse

LEMMA TimeoutNowKeepsVotes ==
    ASSUME TypeOK, TypeOK', VoteInv, NEW m \in msgs, HandleTimeoutNow(m)
    PROVE  VoteInv'
<1> DEFINE n == m.to
<1>0. n \in Node /\ m.term \in Term
  BY MessageFields DEF TypeOK
<1>1. CASE HasNextTerm(m.term)
  BY <1>0, <1>1, StartElectionKeepsVotes, Zenon DEF HandleTimeoutNow
<1>2. CASE ~HasNextTerm(m.term)
  BY <1>0, <1>2, FollowKeepsVotes, Zenon DEF HandleTimeoutNow
<1> QED
  BY <1>1, <1>2, Zenon

LEMMA AppendKeepsVotes ==
    ASSUME TypeOK, TypeOK', VoteInv, NEW m \in msgs, NEW reach, NEW end,
           HandleAppendEntries(m, reach, end)
    PROVE  VoteInv'
<1> DEFINE n == m.to
           refusal == [type |-> "AppendEntriesResponse", from |-> n, to |-> m.from,
                       term |-> currentTerm[n], match |-> 0]
           answer == [type |-> "AppendEntriesResponse", from |-> n, to |-> m.from,
                      term |-> m.term, match |-> reach]
<1>0. n \in Node /\ m.term \in Nat /\ currentTerm[n] \in Nat
  BY ElectionAssumption, MessageFields DEF TypeOK, Term
<1>1. refusal.type # "RequestVoteResponse" /\ answer.type # "RequestVoteResponse"
  OBVIOUS
<1>2. CASE msgs' = msgs \cup {refusal} /\ UNCHANGED <<currentTerm, votedFor, role, votes>>
  <2> HIDE DEF refusal, answer
  <2>1. NoNewBallot /\ msgs \subseteq msgs'
    BY <1>1, <1>2, OtherMessage, Zenon
  <2> QED
    BY <1>0, <1>2, <2>1, IdleKeepsVotes, Zenon
<1>3. CASE /\ m.term >= currentTerm[n]
           /\ currentTerm' = [currentTerm EXCEPT ![n] = m.term]
           /\ votedFor' = [votedFor EXCEPT ![n] = IF m.term > currentTerm[n] THEN Nil ELSE @]
           /\ role' = [role EXCEPT ![n] = "Follower"]
           /\ votes' = [votes EXCEPT ![n] = {}] \/ UNCHANGED votes
           /\ msgs' = msgs \cup {answer}
  <2> HIDE DEF refusal, answer
  <2>1. NoNewBallot /\ msgs \subseteq msgs'
    BY <1>1, <1>3, OtherMessage, Zenon
  <2>2. OthersAlone(n)
    BY <1>0, <1>3, SMTT(30) DEF TypeOK, OthersAlone
  <2>3. /\ currentTerm'[n] = m.term /\ role'[n] = "Follower"
        /\ votedFor'[n] = IF m.term > currentTerm[n] THEN Nil ELSE votedFor[n]
    BY <1>0, <1>3 DEF TypeOK
  <2>4. Quiet(n)
    BY <1>0, <1>3, <2>1, <2>2, <2>3 DEF Quiet
  <2> QED
    BY <1>0, <2>4, QuietKeepsVotes, Zenon
<1> QED
  BY <1>2, <1>3, ZenonT(30) DEF HandleAppendEntries, Send, electionVars, durableVars

LEMMA AppendResponseKeepsVotes ==
    ASSUME TypeOK, TypeOK', VoteInv, NEW m \in msgs, HandleAppendEntriesResponse(m)
    PROVE  VoteInv'
<1> DEFINE n == m.to
<1>0. n \in Node /\ m.term \in Term /\ m.term \in Nat /\ currentTerm[n] \in Nat
  BY ElectionAssumption, MessageFields DEF TypeOK, Term
<1>1. CASE m.term > currentTerm[n] /\ BecomeFollower(n, m.term) /\ UNCHANGED <<last, msgs>>
  <2>1. m.term >= currentTerm[n]
    BY <1>0, <1>1
  <2> QED
    BY <1>0, <1>1, <2>1, FollowKeepsVotes, Zenon
<1>2. CASE /\ UNCHANGED <<currentTerm, votedFor, role, votes>>
           /\ msgs' = msgs \/ msgs' = msgs \cup {TimeoutNow(n, m.from)}
  <2>1. TimeoutNow(n, m.from).type # "RequestVoteResponse"
    BY DEF TimeoutNow
  <2>2. NoNewBallot /\ msgs \subseteq msgs'
    <3>1. CASE msgs' = msgs
      BY <3>1 DEF NoNewBallot
    <3>2. CASE msgs' = msgs \cup {TimeoutNow(n, m.from)}
      BY <2>1, <3>2, OtherMessage, Zenon
    <3> QED
      BY <1>2, <3>1, <3>2, Zenon
  <2> QED
    BY <1>0, <1>2, <2>2, IdleKeepsVotes, Zenon
<1>3. CASE UNCHANGED <<currentTerm, votedFor, role, votes>> /\ msgs' = msgs \cup {}
  BY <1>2, <1>3
<1> QED
  BY <1>1, <1>2, <1>3, ZenonT(30) DEF HandleAppendEntriesResponse, Send, electionVars, durableVars

(***************************************************************************)
(* The invariant on votes is inductive, given the types.                   *)
(***************************************************************************)
LEMMA StepKeepsVotes == TypeOK /\ VoteInv /\ [Next]_vars => VoteInv'
<1> SUFFICES ASSUME TypeOK, VoteInv, [Next]_vars PROVE VoteInv'
  OBVIOUS
<1>0. TypeOK'
  BY StepTyped, Zenon
<1>1. CASE UNCHANGED vars
  BY <1>1 DEF VoteInv, BallotsBind, BallotsAgree, VotesHaveBallots, LeadersHaveQuorum, IsQuorum,
              Ballot, vars, durableVars, electionVars
<1>2. CASE Next
  BY <1>0, <1>2, InputKeepsVotes, HandleRequestVoteKeepsVotes,
     HandleRequestVoteResponseKeepsVotes, PreVoteKeepsVotes, PreVoteResponseKeepsVotes,
     TimeoutNowKeepsVotes, AppendKeepsVotes, AppendResponseKeepsVotes, SMTT(30)
     DEF Next, Receive
<1> QED
  BY <1>1, <1>2

(***************************************************************************)
(* The invariant holds at the start.                                       *)
(***************************************************************************)
LEMMA InitVotes == Init => VoteInv
BY DEF Init, VoteInv, BallotsBind, BallotsAgree, VotesHaveBallots, LeadersHaveQuorum

(***************************************************************************)
(* Both invariants hold in every behaviour.                                *)
(***************************************************************************)
LEMMA Invariants == Spec => [](TypeOK /\ VoteInv)
<1>1. Init => TypeOK /\ VoteInv
  BY InitTyped, InitVotes
<1>2. TypeOK /\ VoteInv /\ [Next]_vars => (TypeOK /\ VoteInv)'
  BY StepTyped, StepKeepsVotes
<1> QED
  BY <1>1, <1>2, PTL DEF Spec

(***************************************************************************)
(* At most one node leads in a term, for every number of nodes and terms,  *)
(* with or without pre-vote and check-quorum, through restarts, leadership *)
(* transfers and any loss, delay or repetition of messages.                *)
(***************************************************************************)
THEOREM OneLeaderPerTerm == Spec => []ElectionSafety
<1>1. TypeOK /\ VoteInv => ElectionSafety
  <2> SUFFICES ASSUME TypeOK, VoteInv, NEW a \in Node, NEW b \in Node,
                      role[a] = "Leader", role[b] = "Leader",
                      currentTerm[a] = currentTerm[b], a # b
               PROVE  FALSE
    BY DEF ElectionSafety
  <2>1. votes[a] \in SUBSET Node /\ votes[b] \in SUBSET Node /\ currentTerm[a] \in Term
    BY DEF TypeOK
  <2>2. IsQuorum(votes[a]) /\ IsQuorum(votes[b])
    BY DEF VoteInv, LeadersHaveQuorum
  <2>3. PICK v \in Node : v \in votes[a] /\ v \in votes[b]
    BY <2>1, <2>2, QuorumsMeet
  <2>4. /\ votedFor[a] = a /\ votedFor[b] = b
        /\ v = a \/ Ballot(v, a, currentTerm[a]) \in msgs
        /\ v = b \/ Ballot(v, b, currentTerm[a]) \in msgs
    BY <2>3 DEF VoteInv, VotesHaveBallots
  <2>5. CASE v = a
    BY <2>1, <2>4, <2>5 DEF VoteInv, BallotsBind
  <2>6. CASE v = b
    BY <2>1, <2>4, <2>6 DEF VoteInv, BallotsBind
  <2>7. CASE v # a /\ v # b
    BY <2>1, <2>4, <2>7 DEF VoteInv, BallotsAgree
  <2> QED
    BY <2>5, <2>6, <2>7
<1> QED
  BY <1>1, Invariants, PTL

(***************************************************************************)
(* A campaigning or leading node's durable vote is its own, in every       *)
(* behaviour.                                                              *)
(***************************************************************************)
THEOREM CampaignersVoteForThemselves == Spec => []CampaignerKeepsItsVote
<1>1. VoteInv => CampaignerKeepsItsVote
  BY DEF VoteInv, VotesHaveBallots, CampaignerKeepsItsVote
<1> QED
  BY <1>1, Invariants, PTL

(***************************************************************************)
(* A counted vote is a vote of the counting node's term that still binds   *)
(* its voter, in every behaviour.                                          *)
(***************************************************************************)
THEOREM CountedVotesBind == Spec => []VotesAreOfThisTerm
<1>1. TypeOK /\ VoteInv => VotesAreOfThisTerm
  <2> SUFFICES ASSUME TypeOK, VoteInv, NEW n \in Node, role[n] \in {"Candidate", "Leader"},
                      NEW v \in votes[n] \ {n}
               PROVE  /\ currentTerm[v] >= currentTerm[n]
                      /\ currentTerm[v] = currentTerm[n] => votedFor[v] = n
    BY DEF VotesAreOfThisTerm
  <2>1. /\ v \in Node /\ currentTerm[n] \in Term
        /\ currentTerm[n] \in Nat /\ currentTerm[v] \in Nat
    BY ElectionAssumption DEF TypeOK, Term
  <2>2. Ballot(v, n, currentTerm[n]) \in msgs
    BY DEF VoteInv, VotesHaveBallots
  <2> QED
    BY <2>1, <2>2 DEF VoteInv, BallotsBind
<1> QED
  BY <1>1, Invariants, PTL

--------------------------------------------------
(* Votes are final.                                                        *)

(***************************************************************************)
(* No node's term falls, and within a term no vote changes.                *)
(***************************************************************************)
VotesStand ==
    \A n \in Node :
        /\ currentTerm'[n] >= currentTerm[n]
        /\ currentTerm'[n] = currentTerm[n] /\ votedFor[n] # Nil => votedFor'[n] = votedFor[n]

(***************************************************************************)
(* A step that leaves the durable state alone changes no vote.             *)
(***************************************************************************)
LEMMA DurableVoteStands ==
    ASSUME TypeOK, UNCHANGED <<currentTerm, votedFor>>
    PROVE  VotesStand
<1>1. \A n \in Node : currentTerm[n] \in Nat
  BY ElectionAssumption DEF TypeOK, Term
<1> QED BY <1>1 DEF VotesStand, durableVars

(***************************************************************************)
(* One that writes a node's term and vote may raise the term, or repeat the*)
(* vote of the term or give a first one.                                   *)
(***************************************************************************)
LEMMA WrittenVoteStands ==
    ASSUME TypeOK, NEW n \in Node, NEW t \in Nat, NEW v,
           currentTerm' = [currentTerm EXCEPT ![n] = t],
           votedFor' = [votedFor EXCEPT ![n] = v],
           t >= currentTerm[n],
           t = currentTerm[n] /\ votedFor[n] # Nil => v = votedFor[n]
    PROVE  VotesStand
<1>1. /\ \A k \in Node : currentTerm[k] \in Nat
      /\ currentTerm \in [Node -> Term] /\ votedFor \in [Node -> Node \cup {Nil}]
  BY ElectionAssumption DEF TypeOK, Term
<1>2. currentTerm'[n] = t /\ votedFor'[n] = v
  BY <1>1
<1>3. \A k \in Node \ {n} : currentTerm'[k] = currentTerm[k] /\ votedFor'[k] = votedFor[k]
  BY <1>1
<1> QED BY <1>1, <1>2, <1>3 DEF VotesStand

(***************************************************************************)
(* A campaign is in a later term.                                          *)
(***************************************************************************)
LEMMA StartElectionStands ==
    ASSUME TypeOK, NEW n \in Node, NEW t \in Nat, t >= currentTerm[n], StartElection(n, t)
    PROVE  VotesStand
<1>1. currentTerm[n] \in Nat
  BY ElectionAssumption DEF TypeOK, Term
<1> DEFINE next == t + 1
<1>2. next \in Nat /\ next >= currentTerm[n] /\ next # currentTerm[n]
  BY <1>1
<1>3. /\ currentTerm' = [currentTerm EXCEPT ![n] = next]
      /\ votedFor' = [votedFor EXCEPT ![n] = n]
  BY DEF StartElection
<1> HIDE DEF next
<1> QED BY <1>1, <1>2, <1>3, WrittenVoteStands

(***************************************************************************)
(* become_follower forgets a vote only in a later term.                    *)
(***************************************************************************)
LEMMA BecomeFollowerStands ==
    ASSUME TypeOK, NEW n \in Node, NEW t \in Nat, t >= currentTerm[n], BecomeFollower(n, t)
    PROVE  VotesStand
<1>1. currentTerm[n] \in Nat /\ votedFor \in [Node -> Node \cup {Nil}]
  BY ElectionAssumption DEF TypeOK, Term
<1> DEFINE v == IF t > currentTerm[n] THEN Nil ELSE votedFor[n]
<1>2. /\ currentTerm' = [currentTerm EXCEPT ![n] = t]
      /\ votedFor' = [votedFor EXCEPT ![n] = v]
  BY DEF BecomeFollower
<1>3. t = currentTerm[n] => v = votedFor[n]
  BY <1>1
<1> HIDE DEF v
<1> QED BY <1>2, <1>3, WrittenVoteStands

(***************************************************************************)
(* No tick, transfer request or restart takes back a vote.                 *)
(***************************************************************************)
LEMMA InputStands ==
    ASSUME TypeOK, NEW n \in Node,
           \/ TickLapse(n) \/ TickTimeout(n) \/ TickHeartbeat(n) \/ TickTransfer(n)
           \/ TickCheckQuorum(n) \/ Propose(n) \/ Restart(n)
           \/ \E target \in TransferTargets : TransferLeadership(n, target)
    PROVE  VotesStand
<1>1. CASE UNCHANGED <<currentTerm, votedFor>>
  BY <1>1, DurableVoteStands
<1>2. CASE StartElection(n, currentTerm[n])
  <2>1. currentTerm[n] \in Nat /\ currentTerm[n] >= currentTerm[n]
    BY ElectionAssumption DEF TypeOK, Term
  <2> QED BY <1>2, <2>1, StartElectionStands
<1> QED
  BY <1>1, <1>2, Zenon DEF TickLapse, TickTimeout, TickHeartbeat, TickTransfer, TickCheckQuorum,
     Restart, TransferLeadership, StartPreVoteRound, Propose, durableVars

(***************************************************************************)
(* No message does.                                                        *)
(***************************************************************************)
LEMMA ReceiveStands ==
    ASSUME TypeOK, NEW m \in msgs, Receive(m)
    PROVE  VotesStand
<1> DEFINE n == m.to
<1>0. /\ m \in Message /\ n \in Node /\ m.term \in Nat /\ currentTerm[n] \in Nat
      /\ currentTerm \in [Node -> Term] /\ votedFor \in [Node -> Node \cup {Nil}]
  <2>1. m \in Message
    BY DEF TypeOK
  <2> QED BY <2>1, MessageFields, ElectionAssumption DEF TypeOK, Term
<1>1. CASE UNCHANGED <<currentTerm, votedFor>>
  BY <1>1, DurableVoteStands
<1>2. ASSUME m.term >= currentTerm[n], BecomeFollower(n, m.term) PROVE VotesStand
  BY <1>0, <1>2, BecomeFollowerStands
<1>3. ASSUME NEW t \in Nat, t >= currentTerm[n], StartElection(n, t) PROVE VotesStand
  BY <1>0, <1>3, StartElectionStands
<1>4. CASE HandlePreVote(m)
  BY <1>1, <1>4, Zenon DEF HandlePreVote, durableVars
<1>5. CASE HandlePreVoteResponse(m)
  <2>1. m.term > currentTerm[n] + 1 \/ m.term > currentTerm[n] => m.term >= currentTerm[n]
    BY <1>0
  <2>2. currentTerm[n] >= currentTerm[n]
    BY <1>0
  <2> QED BY <1>0, <1>1, <1>2, <1>3, <1>5, <2>1, <2>2, Zenon DEF HandlePreVoteResponse, durableVars
<1>6. CASE HandleRequestVote(m)
  <2> DEFINE vote == IF m.term > currentTerm[n] THEN Nil ELSE votedFor[n]
  <2> DEFINE v == IF MayVote(n, m, vote) THEN m.from ELSE vote
  <2>1. /\ currentTerm' = [currentTerm EXCEPT ![n] = Greater(currentTerm[n], m.term)]
        /\ votedFor' = [votedFor EXCEPT ![n] = v]
    BY <1>6 DEF HandleRequestVote
  <2>2. /\ Greater(currentTerm[n], m.term) \in Nat
        /\ Greater(currentTerm[n], m.term) >= currentTerm[n]
        /\ Greater(currentTerm[n], m.term) = currentTerm[n] => ~(m.term > currentTerm[n])
    BY <1>0 DEF Greater
  <2>3. ~(m.term > currentTerm[n]) /\ votedFor[n] # Nil => v = votedFor[n]
    BY DEF MayVote
  <2> HIDE DEF v
  <2> QED BY <1>0, <2>1, <2>2, <2>3, WrittenVoteStands
<1>7. CASE HandleRequestVoteResponse(m)
  <2>1. m.term > currentTerm[n] => m.term >= currentTerm[n]
    BY <1>0
  <2>2. CASE UNCHANGED <<currentTerm, votedFor>>
    <3>1. \A k \in Node : currentTerm[k] \in Nat
      BY ElectionAssumption DEF TypeOK, Term
    <3> QED BY <2>2, <3>1 DEF VotesStand
  <2> QED BY <1>1, <1>2, <1>7, <2>1, <2>2, Zenon DEF HandleRequestVoteResponse, durableVars
<1>8. CASE HandleTimeoutNow(m)
  BY <1>0, <1>2, <1>3, <1>8, Zenon DEF HandleTimeoutNow
<1>9. ASSUME NEW reach, NEW end, HandleAppendEntries(m, reach, end)
      PROVE  VotesStand
  <2>1. CASE /\ m.term >= currentTerm[n]
             /\ currentTerm' = [currentTerm EXCEPT ![n] = m.term]
             /\ votedFor' = [votedFor EXCEPT ![n] =
                                 IF m.term > currentTerm[n] THEN Nil ELSE votedFor[n]]
    <3> DEFINE v == IF m.term > currentTerm[n] THEN Nil ELSE votedFor[n]
    <3>1. m.term = currentTerm[n] => v = votedFor[n]
      BY <1>0
    <3>2. votedFor' = [votedFor EXCEPT ![n] = v]
      BY <2>1
    <3> HIDE DEF v
    <3> QED BY <1>0, <2>1, <3>1, <3>2, WrittenVoteStands
  <2> QED BY <1>1, <1>9, <2>1, Zenon DEF HandleAppendEntries, durableVars
<1>10. CASE HandleAppendEntriesResponse(m)
  <2>1. m.term > currentTerm[n] => m.term >= currentTerm[n]
    BY <1>0
  <2> QED BY <1>1, <1>2, <1>10, <2>1, Zenon DEF HandleAppendEntriesResponse, durableVars
<1> QED BY <1>4, <1>5, <1>6, <1>7, <1>8, <1>9, <1>10, Zenon DEF Receive

(***************************************************************************)
(* A step never lowers a node's term, and within a term never changes or   *)
(* withdraws a vote, for every number of nodes and terms (step, tick and   *)
(* become_follower; the durable HardState).                                *)
(***************************************************************************)
THEOREM VotesAreFinal == Spec => VoteIsFinal
<1>1. TypeOK /\ [Next]_vars =>
        [\A n \in Node :
            /\ currentTerm'[n] >= currentTerm[n]
            /\ currentTerm'[n] = currentTerm[n] /\ votedFor[n] # Nil
                  => votedFor'[n] = votedFor[n]]_vars
  <2> SUFFICES ASSUME TypeOK, Next PROVE VotesStand
    BY DEF VotesStand
  <2> QED BY InputStands, ReceiveStands DEF Next
<1> QED BY <1>1, TypeCorrect, PTL DEF Spec, VoteIsFinal

=============================================================================
