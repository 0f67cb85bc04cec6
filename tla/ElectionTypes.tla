--------------------------- MODULE ElectionTypes ---------------------------
(***************************************************************************)
(* The states of Election are well typed, for every number of nodes and    *)
(* terms and every setting of pre-vote and check-quorum.                   *)
(***************************************************************************)
EXTENDS Election, TLAPS

(***************************************************************************)
(* The initial state has the types of the kernel's structures.             *)
(***************************************************************************)
LEMMA InitTyped == Init => TypeOK
BY ElectionAssumption, SMTT(30)
   DEF Init, TypeOK, Term, LogEnd, NoProgress, ResetElection, ResetLeader, NoTransfer, Role

----------------------------------------------------------------------------
(* Types.                                                                  *)

(***************************************************************************)
(* The fields of a message of each type.                                   *)
(***************************************************************************)
LEMMA MessageFields ==
    ASSUME NEW m \in Message
    PROVE  /\ m.from \in Node /\ m.to \in Node /\ m.term \in Term
           /\ m.type \in {"PreVote", "RequestVote"} => m.last \in LogEnd
           /\ m.type \in {"PreVoteResponse", "RequestVoteResponse"} => m.granted \in BOOLEAN
           /\ m.type = "AppendEntries" => m.count \in 0 .. MaxEntries
           /\ m.type = "AppendEntriesResponse" => m.match \in 0 .. MaxEntries
BY DEF Message, VoteRequest, VoteResponse, CampaignOrder, AppendRequest, AppendResponse

(***************************************************************************)
(* The messages the leader contacts its followers with.                    *)
(***************************************************************************)
LEMMA ContactTyped ==
    ASSUME NEW n \in Node, NEW t \in Term, NEW c \in 0 .. MaxEntries
    PROVE  /\ \A v \in Node : Frame(n, v, t, c) \in Message
           /\ Contact(n, t, c) \subseteq Message
BY DEF Contact, Frame, Message, AppendRequest

(***************************************************************************)
(* The requests a campaign or a pre-vote round begins with.                *)
(***************************************************************************)
LEMMA ToOthersTyped ==
    ASSUME TypeOK, NEW n \in Node, NEW t \in Term, NEW type \in {"PreVote", "RequestVote"}
    PROVE  ToOthers(n, type, t) \subseteq Message
BY DEF ToOthers, TypeOK, Message, VoteRequest

(***************************************************************************)
(* Resetting the election state keeps its types.                           *)
(***************************************************************************)
LEMMA ResetElectionTyped ==
    ASSUME TypeOK, NEW n \in Node, NEW own \in SUBSET Node, ResetElection(n, own)
    PROVE  /\ recent' \in [Node -> BOOLEAN]
           /\ votes' \in [Node -> SUBSET Node]
           /\ preVotes' \in [Node -> SUBSET Node]
BY DEF TypeOK, ResetElection

(***************************************************************************)
(* Resetting the leader state keeps its types.                             *)
(***************************************************************************)
LEMMA ResetLeaderTyped ==
    ASSUME TypeOK, NEW n \in Node, ResetLeader(n)
    PROVE  /\ match' \in [Node -> [Node -> 0 .. MaxEntries]]
           /\ quorumAcks' \in [Node -> SUBSET Node]
           /\ transfer' \in [Node -> [target : Node \cup {Nil}, sent : BOOLEAN]]
BY ElectionAssumption DEF TypeOK, ResetLeader, NoTransfer, NoProgress

(***************************************************************************)
(* become_follower keeps the types.                                        *)
(***************************************************************************)
LEMMA BecomeFollowerTyped ==
    ASSUME TypeOK, NEW n \in Node, NEW t \in Term, BecomeFollower(n, t),
           UNCHANGED <<last, msgs>>
    PROVE  TypeOK'
BY ResetElectionTyped, ResetLeaderTyped DEF TypeOK, BecomeFollower, Role

(***************************************************************************)
(* become_leader keeps the types.                                          *)
(***************************************************************************)
LEMMA BecomeLeaderTyped ==
    ASSUME TypeOK, NEW n \in Node, NEW t \in Term, NEW granted \in SUBSET Node,
           BecomeLeader(n, t, granted),
           currentTerm' \in [Node -> Term], votedFor' \in [Node -> Node \cup {Nil}]
    PROVE  TypeOK'
<1>0. 1 \in 0 .. MaxEntries
  BY ElectionAssumption
<1>1. Contact(n, t, 1) \subseteq Message
  BY <1>0, ContactTyped
<1>2. last' \in [Node -> LogEnd]
  BY <1>0 DEF TypeOK, BecomeLeader, LogEnd
<1> QED
  BY <1>1, <1>2, ResetElectionTyped, ResetLeaderTyped, Zenon DEF TypeOK, BecomeLeader, Send, Role

(***************************************************************************)
(* start_election keeps the types.                                         *)
(***************************************************************************)
LEMMA StartElectionTyped ==
    ASSUME TypeOK, NEW n \in Node, NEW t \in Term, HasNextTerm(t), StartElection(n, t)
    PROVE  TypeOK'
<1>1. t + 1 \in Term
  BY ElectionAssumption DEF HasNextTerm, Term
<1>2. currentTerm' \in [Node -> Term] /\ votedFor' \in [Node -> Node \cup {Nil}]
  BY <1>1 DEF StartElection, TypeOK
<1>3. CASE IsQuorum({n})
  BY <1>1, <1>2, <1>3, BecomeLeaderTyped DEF StartElection
<1>4. CASE ~IsQuorum({n})
  <2>1. ToOthers(n, "RequestVote", t + 1) \subseteq Message
    BY <1>1, ToOthersTyped
  <2>2. msgs' \subseteq Message
    BY <1>4, <2>1 DEF TypeOK, StartElection, Send
  <2>3. ResetElection(n, {n}) /\ ResetLeader(n)
    BY <1>4 DEF StartElection
  <2>4. role' \in [Node -> Role] /\ leaderHint' \in [Node -> Node \cup {Nil}]
    BY <1>4 DEF TypeOK, StartElection, Role
  <2>5. last' \in [Node -> LogEnd]
    BY <1>4 DEF TypeOK, StartElection
  <2> QED
    BY <1>2, <2>2, <2>3, <2>4, <2>5, ResetElectionTyped, ResetLeaderTyped DEF TypeOK
<1> QED
  BY <1>3, <1>4

(***************************************************************************)
(* A tick, a proposal, a transfer request or a restart keeps the types.    *)
(***************************************************************************)
LEMMA InputTyped ==
    ASSUME TypeOK, NEW n \in Node,
           \/ TickLapse(n) \/ TickTimeout(n) \/ TickHeartbeat(n) \/ TickTransfer(n)
           \/ TickCheckQuorum(n) \/ Propose(n) \/ Restart(n)
           \/ \E target \in TransferTargets : TransferLeadership(n, target)
    PROVE  TypeOK'
<1>0. currentTerm[n] \in Term /\ last[n] \in LogEnd /\ last[n].count \in 0 .. MaxEntries
  BY DEF TypeOK, LogEnd
<1>1. CASE TickLapse(n)
  BY <1>1 DEF TypeOK, TickLapse, durableVars, electionVars, leaderVars
<1>2. CASE TickTimeout(n)
  <2>1. CASE ~HasNextTerm(currentTerm[n])
    BY <1>2, <2>1, Zenon DEF TypeOK, TickTimeout, durableVars, electionVars, leaderVars
  <2>2. CASE HasNextTerm(currentTerm[n]) /\ StartElection(n, currentTerm[n])
    BY <1>0, <2>2, StartElectionTyped
  <2>3. CASE /\ HasNextTerm(currentTerm[n]) /\ ~IsQuorum({n})
             /\ StartPreVoteRound(n)
    <3>1. currentTerm[n] + 1 \in Term
      BY <1>0, <2>3, ElectionAssumption DEF HasNextTerm, Term
    <3>2. ToOthers(n, "PreVote", currentTerm[n] + 1) \subseteq Message
      BY <3>1, ToOthersTyped
    <3>3. msgs' \subseteq Message
      BY <2>3, <3>2 DEF TypeOK, StartPreVoteRound, Send
    <3> QED
      <4>1. /\ role' \in [Node -> Role] /\ leaderHint' \in [Node -> Node \cup {Nil}]
            /\ recent' \in [Node -> BOOLEAN] /\ preVotes' \in [Node -> SUBSET Node]
        <5>1. /\ role' = [role EXCEPT ![n] = "PreCandidate"]
              /\ leaderHint' = [leaderHint EXCEPT ![n] = Nil]
              /\ recent' = [recent EXCEPT ![n] = TRUE]
              /\ preVotes' = [preVotes EXCEPT ![n] = {n}]
          BY <2>3 DEF StartPreVoteRound
        <5> QED
          BY <5>1 DEF TypeOK, Role
      <4>2. UNCHANGED <<durableVars, votes, leaderVars>>
        BY <2>3 DEF StartPreVoteRound
      <4> QED
        BY <3>3, <4>1, <4>2 DEF TypeOK, durableVars, leaderVars
  <2> QED
    BY <1>2, <2>1, <2>2, <2>3 DEF TickTimeout, StartPreVoteRound
<1>3. CASE TickHeartbeat(n)
  <2>1. Contact(n, currentTerm[n], last[n].count) \subseteq Message
    BY <1>0, ContactTyped
  <2> QED
    BY <1>3, <2>1 DEF TypeOK, TickHeartbeat, Send, durableVars, electionVars, leaderVars
<1>4. CASE TickTransfer(n)
  BY <1>4 DEF TypeOK, TickTransfer, NoTransfer, durableVars, electionVars, leaderVars
<1>5. CASE TickCheckQuorum(n)
  <2>1. CASE IsQuorum(quorumAcks[n] \cup {n})
    BY <1>5, <2>1 DEF TypeOK, TickCheckQuorum, durableVars, electionVars, leaderVars
  <2>2. CASE ~IsQuorum(quorumAcks[n] \cup {n})
    BY <1>5, <2>2, ResetElectionTyped, ResetLeaderTyped, Zenon
       DEF TypeOK, TickCheckQuorum, Role, durableVars
  <2> QED
    BY <2>1, <2>2
<1>6. CASE Restart(n)
  BY <1>6, ResetElectionTyped, ResetLeaderTyped DEF TypeOK, Restart, Role, durableVars
<1>7. ASSUME NEW target \in TransferTargets, TransferLeadership(n, target)
      PROVE  TypeOK'
  <2>1. target \in Node
    BY ElectionAssumption
  <2>2. TargetIsCaughtUp(n, match[n][target]) \in BOOLEAN
    BY DEF TargetIsCaughtUp
  <2>3. /\ TimeoutNow(n, target) \in Message
        /\ Frame(n, target, currentTerm[n], last[n].count) \in Message
    BY <1>0, <2>1, ContactTyped DEF TimeoutNow, Message, CampaignOrder
  <2>4. msgs' \subseteq Message
    BY <1>7, <2>3 DEF TypeOK, TransferLeadership, Send
  <2> QED
    BY <1>7, <2>1, <2>2, <2>4 DEF TypeOK, TransferLeadership, durableVars, electionVars, leaderVars
<1>8. CASE Propose(n)
  <2> DEFINE count == last[n].count + 1
  <2>1. count \in 0 .. MaxEntries
    BY <1>0, <1>8, ElectionAssumption DEF Propose
  <2>2. Contact(n, currentTerm[n], count) \subseteq Message
    BY <1>0, <2>1, ContactTyped
  <2>3. last' = [last EXCEPT ![n].count = count] /\ msgs' = msgs \cup Contact(n, currentTerm[n], count)
    BY <1>8 DEF Propose, Send
  <2> HIDE DEF count
  <2>4. last' \in [Node -> LogEnd]
    BY <1>0, <2>1, <2>3 DEF TypeOK, LogEnd
  <2> QED
    BY <1>8, <2>2, <2>3, <2>4 DEF TypeOK, Propose, electionVars, leaderVars
<1> QED
  BY <1>1, <1>2, <1>3, <1>4, <1>5, <1>6, <1>7, <1>8

(***************************************************************************)
(* Handling a vote or pre-vote message keeps the types.                    *)
(***************************************************************************)
LEMMA VoteMessageTyped ==
    ASSUME TypeOK, NEW m \in msgs,
           \/ HandlePreVote(m) \/ HandlePreVoteResponse(m)
           \/ HandleRequestVote(m) \/ HandleRequestVoteResponse(m)
    PROVE  TypeOK'
<1> DEFINE n == m.to
<1>0. /\ m \in Message /\ n \in Node /\ m.from \in Node /\ m.term \in Term
      /\ currentTerm[n] \in Term
  BY MessageFields DEF TypeOK
<1>1. CASE HandlePreVote(m)
  <2> DEFINE granted == /\ m.term > currentTerm[n]
                        /\ NotBehind(m.last, last[n])
                        /\ ~(leaderHint[n] # Nil /\ recent[n])
             reply == [type |-> "PreVoteResponse", from |-> n, to |-> m.from,
                       term |-> IF granted THEN m.term ELSE currentTerm[n],
                       granted |-> granted]
  <2>1. granted \in BOOLEAN
    OBVIOUS
  <2>2. (IF granted THEN m.term ELSE currentTerm[n]) \in Term
    BY <1>0
  <2>3. reply \in VoteResponse
    BY <1>0, <2>1, <2>2 DEF VoteResponse
  <2>4. msgs' = msgs \cup {reply}
    BY <1>1, Zenon DEF HandlePreVote, Send
  <2>5. msgs' \subseteq Message
    BY <2>3, <2>4, Zenon DEF TypeOK, Message
  <2> QED
    BY <1>1, <2>5 DEF TypeOK, HandlePreVote, durableVars, electionVars, leaderVars
<1>2. CASE HandlePreVoteResponse(m)
  <2>1. CASE BecomeFollower(n, m.term) /\ UNCHANGED <<last, msgs>>
    BY <1>0, <2>1, BecomeFollowerTyped
  <2>2. CASE StartElection(n, currentTerm[n])
    BY <1>0, <1>2, <2>2, StartElectionTyped DEF HandlePreVoteResponse
  <2>3. CASE /\ preVotes' = [preVotes EXCEPT ![n] = preVotes[n] \cup Granted(m)]
             /\ UNCHANGED <<durableVars, role, leaderHint, recent, votes, leaderVars, msgs>>
    BY <1>0, <2>3 DEF TypeOK, Granted, durableVars, leaderVars
  <2> QED
    BY <1>2, <2>1, <2>2, <2>3, Zenon DEF HandlePreVoteResponse
<1>3. CASE HandleRequestVote(m)
  <2> DEFINE newer == m.term > currentTerm[n]
             vote == IF newer THEN Nil ELSE votedFor[n]
             granted == MayVote(n, m, vote)
             reply == [type |-> "RequestVoteResponse", from |-> n, to |-> m.from,
                       term |-> Greater(currentTerm[n], m.term), granted |-> granted]
  <2>1. Greater(currentTerm[n], m.term) \in Term
    BY <1>0 DEF Greater
  <2>2. granted \in BOOLEAN
    BY DEF MayVote
  <2>3. reply \in VoteResponse
    BY <1>0, <2>1, <2>2 DEF VoteResponse
  <2>4. msgs' = msgs \cup {reply}
    BY <1>3, Zenon DEF HandleRequestVote, Send
  <2>5. msgs' \subseteq Message
    BY <2>3, <2>4 DEF TypeOK, Message
  <2>6. currentTerm' \in [Node -> Term] /\ last' \in [Node -> LogEnd]
    <3>1. currentTerm' = [currentTerm EXCEPT ![n] = Greater(@, m.term)] /\ last' = last
      BY <1>3, Zenon DEF HandleRequestVote
    <3> QED
      BY <1>0, <2>1, <3>1 DEF TypeOK
  <2>7. votedFor' \in [Node -> Node \cup {Nil}]
    <3>1. votedFor' = [votedFor EXCEPT ![n] = IF granted THEN m.from ELSE vote]
      BY <1>3, Zenon DEF HandleRequestVote
    <3> QED
      BY <1>0, <3>1 DEF TypeOK
  <2>8. recent' \in [Node -> BOOLEAN]
    <3>1. recent' = [recent EXCEPT ![n] = @ \/ newer \/ granted]
      BY <1>3, Zenon DEF HandleRequestVote
    <3> QED
      BY <1>0, <2>2, <3>1 DEF TypeOK
  <2>9. CASE newer
    <3>1. ResetLeader(n)
      BY <1>3, <2>9, Zenon DEF HandleRequestVote
    <3>2. /\ role' \in [Node -> Role] /\ leaderHint' \in [Node -> Node \cup {Nil}]
          /\ votes' \in [Node -> SUBSET Node] /\ preVotes' \in [Node -> SUBSET Node]
      <4>1. /\ role' = [role EXCEPT ![n] = "Follower"]
            /\ leaderHint' = [leaderHint EXCEPT ![n] = Nil]
            /\ votes' = [votes EXCEPT ![n] = {}] /\ preVotes' = [preVotes EXCEPT ![n] = {}]
        BY <1>3, <2>9, Zenon DEF HandleRequestVote
      <4> QED
        BY <1>0, <4>1 DEF TypeOK, Role
    <3> QED
      BY <1>0, <2>5, <2>6, <2>7, <2>8, <3>1, <3>2, ResetLeaderTyped DEF TypeOK
  <2>10. CASE ~newer
    <3>1. UNCHANGED <<role, leaderHint, votes, preVotes, leaderVars>>
      BY <1>3, <2>10, Zenon DEF HandleRequestVote
    <3> QED
      BY <2>5, <2>6, <2>7, <2>8, <3>1 DEF TypeOK, leaderVars
  <2> QED
    BY <2>9, <2>10
<1>4. CASE HandleRequestVoteResponse(m)
  <2>0. votes[n] \cup Granted(m) \in SUBSET Node
    BY <1>0 DEF TypeOK, Granted
  <2>1. CASE BecomeFollower(n, m.term) /\ UNCHANGED <<last, msgs>>
    BY <1>0, <2>1, BecomeFollowerTyped
  <2>2. CASE /\ BecomeLeader(n, currentTerm[n], votes[n] \cup Granted(m))
             /\ UNCHANGED <<currentTerm, votedFor>>
    <3>1. currentTerm' \in [Node -> Term] /\ votedFor' \in [Node -> Node \cup {Nil}]
      BY <2>2 DEF TypeOK
    <3> QED
      BY <1>0, <2>0, <2>2, <3>1, BecomeLeaderTyped, Zenon
  <2>3. CASE /\ votes' = [votes EXCEPT ![n] = votes[n] \cup Granted(m)]
             /\ UNCHANGED <<durableVars, role, leaderHint, recent, preVotes, leaderVars, msgs>>
    BY <1>0, <2>0, <2>3 DEF TypeOK, durableVars, leaderVars
  <2> QED
    BY <1>4, <2>1, <2>2, <2>3, Zenon DEF HandleRequestVoteResponse
<1> QED
  BY <1>1, <1>2, <1>3, <1>4

(***************************************************************************)
(* Handling a leader's message or an answer to one keeps the types.        *)
(***************************************************************************)
LEMMA LeaderMessageTyped ==
    ASSUME TypeOK, NEW m \in msgs,
           \/ HandleTimeoutNow(m)
           \/ /\ m.type = "AppendEntries"
              /\ \E reach \in 0 .. m.count : \E end \in EndsAfter(m.to, m, reach) :
                    HandleAppendEntries(m, reach, end)
           \/ HandleAppendEntriesResponse(m)
    PROVE  TypeOK'
<1> DEFINE n == m.to
<1>0. /\ m \in Message /\ n \in Node /\ m.from \in Node /\ m.term \in Term
      /\ currentTerm[n] \in Term
  BY MessageFields DEF TypeOK
<1>1. CASE HandleTimeoutNow(m)
  <2>1. CASE HasNextTerm(m.term)
    BY <1>0, <1>1, <2>1, StartElectionTyped DEF HandleTimeoutNow
  <2>2. CASE ~HasNextTerm(m.term)
    BY <1>0, <1>1, <2>2, BecomeFollowerTyped DEF HandleTimeoutNow
  <2> QED
    BY <2>1, <2>2
<1>2. ASSUME m.type = "AppendEntries", NEW reach \in 0 .. m.count,
             NEW end \in EndsAfter(n, m, reach), HandleAppendEntries(m, reach, end)
      PROVE  TypeOK'
  <2>0. reach \in 0 .. MaxEntries /\ end \in LogEnd /\ 0 \in 0 .. MaxEntries
    <3>1. m.count \in 0 .. MaxEntries
      BY <1>0, <1>2, MessageFields
    <3>2. reach \in 0 .. MaxEntries /\ 0 \in 0 .. MaxEntries
      BY <3>1, ElectionAssumption
    <3>3. last[n] \in LogEnd
      BY <1>0 DEF TypeOK
    <3>4. CASE last[n].term = m.term
      <4>1. Greater(last[n].count, reach) \in 0 .. MaxEntries
        BY <3>2, <3>3 DEF LogEnd, Greater
      <4>2. end = [last[n] EXCEPT !.count = Greater(@, reach)]
        BY <3>4 DEF EndsAfter
      <4> QED BY <3>2, <3>3, <4>1, <4>2 DEF LogEnd
    <3>5. CASE last[n].term # m.term
      <4>1. end \in {[term |-> m.term, count |-> reach], last[n]}
                       \cup [term : 1 .. m.term - 1, count : 1 .. MaxEntries]
        BY <3>5 DEF EndsAfter
      <4>2. [term |-> m.term, count |-> reach] \in LogEnd
        BY <1>0, <3>2 DEF LogEnd
      <4>3. [term : 1 .. m.term - 1, count : 1 .. MaxEntries] \subseteq LogEnd
        BY <1>0, ElectionAssumption DEF LogEnd, Term
      <4> QED BY <3>2, <3>3, <4>1, <4>2, <4>3
    <3> QED BY <3>4, <3>5
  <2> DEFINE answer(t, l) == [type |-> "AppendEntriesResponse", from |-> n, to |-> m.from,
                              term |-> t, match |-> l]
  <2>1. \A t \in Term, l \in 0 .. MaxEntries : answer(t, l) \in Message
    BY <1>0 DEF Message, AppendResponse
  <2>2. CASE m.term < currentTerm[n]
    <3>0. ~(m.term >= currentTerm[n])
      BY <1>0, <2>2 DEF Term
    <3>1. msgs' = msgs \cup {answer(currentTerm[n], 0)}
      BY <1>2, <3>0, Zenon DEF HandleAppendEntries, Send
    <3>2. msgs' \subseteq Message
      BY <1>0, <2>0, <2>1, <3>1, Zenon DEF TypeOK
    <3>3. UNCHANGED <<durableVars, role, leaderHint, electionVars, leaderVars>>
      BY <1>2, <3>0, Zenon DEF HandleAppendEntries
    <3> QED
      BY <3>2, <3>3 DEF TypeOK, durableVars, electionVars, leaderVars
  <2>3. CASE m.term >= currentTerm[n]
    <3>0. ~(m.term < currentTerm[n])
      BY <1>0, <2>3 DEF Term
    <3>1. msgs' = msgs \cup {answer(m.term, reach)}
      BY <1>2, <3>0, Zenon DEF HandleAppendEntries, Send
    <3>2. msgs' \subseteq Message
      BY <1>0, <2>0, <2>1, <3>1 DEF TypeOK
    <3>3. /\ currentTerm' \in [Node -> Term] /\ last' \in [Node -> LogEnd]
          /\ votedFor' \in [Node -> Node \cup {Nil}]
      <4>1. /\ currentTerm' = [currentTerm EXCEPT ![n] = m.term]
            /\ votedFor' = [votedFor EXCEPT ![n] = IF m.term > currentTerm[n] THEN Nil ELSE @]
            /\ last' = [last EXCEPT ![n] = end]
        BY <1>2, <3>0, Zenon DEF HandleAppendEntries
      <4> QED
        BY <1>0, <2>0, <4>1 DEF TypeOK
    <3>4. /\ role' \in [Node -> Role] /\ leaderHint' \in [Node -> Node \cup {Nil}]
          /\ recent' \in [Node -> BOOLEAN]
      <4>1. /\ role' = [role EXCEPT ![n] = "Follower"]
            /\ leaderHint' = [leaderHint EXCEPT ![n] = m.from]
            /\ recent' = [recent EXCEPT ![n] = TRUE]
        BY <1>2, <3>0, Zenon DEF HandleAppendEntries
      <4> QED
        BY <1>0, <4>1 DEF TypeOK, Role
    <3>5. /\ votes' \in [Node -> SUBSET Node] /\ preVotes' \in [Node -> SUBSET Node]
          /\ ResetLeader(n) \/ UNCHANGED leaderVars
      <4>1. \/ /\ votes' = [votes EXCEPT ![n] = {}]
               /\ preVotes' = [preVotes EXCEPT ![n] = {}]
               /\ ResetLeader(n)
            \/ UNCHANGED <<votes, preVotes, leaderVars>>
        BY <1>2, <3>0, Zenon DEF HandleAppendEntries
      <4> QED
        BY <1>0, <4>1, Zenon DEF TypeOK
    <3> QED
      BY <1>0, <3>2, <3>3, <3>4, <3>5, ResetLeaderTyped DEF TypeOK, leaderVars
  <2> QED
    BY <1>0, <2>2, <2>3 DEF Term
<1>3. CASE HandleAppendEntriesResponse(m)
  <2>1. CASE BecomeFollower(n, m.term) /\ UNCHANGED <<last, msgs>>
    BY <1>0, <2>1, BecomeFollowerTyped
  <2>2. CASE ~(m.term > currentTerm[n])
    <3>1. TimeoutNow(n, m.from) \in Message
      BY <1>0 DEF TimeoutNow, Message, CampaignOrder
    <3>2. msgs' \subseteq Message
      BY <1>3, <2>2, <3>1, Zenon DEF TypeOK, HandleAppendEntriesResponse, Send
    <3>3. /\ quorumAcks' \in [Node -> SUBSET Node] /\ match' \in [Node -> [Node -> 0 .. MaxEntries]]
      <4>1. /\ quorumAcks' = [quorumAcks EXCEPT ![n] =
                                  IF n \in CheckQuorum THEN @ \cup {m.from} ELSE @]
            /\ match' = [match EXCEPT ![n][m.from] = Greater(match[n][m.from], m.match)]
        BY <1>3, <2>2, Zenon DEF HandleAppendEntriesResponse
      <4>2. m.match \in 0 .. MaxEntries
        BY <1>0, <1>3, MessageFields DEF HandleAppendEntriesResponse
      <4>3. match[n][m.from] \in 0 .. MaxEntries
        BY <1>0 DEF TypeOK
      <4>4. Greater(match[n][m.from], m.match) \in 0 .. MaxEntries
        BY <4>2, <4>3 DEF Greater
      <4> QED
        BY <1>0, <4>1, <4>4 DEF TypeOK
    <3>4. transfer' \in [Node -> [target : Node \cup {Nil}, sent : BOOLEAN]]
      <4>1. transfer' = [transfer EXCEPT ![n] =
                             IF /\ transfer[n] = [target |-> m.from, sent |-> FALSE]
                                /\ TargetIsCaughtUp(n, Greater(match[n][m.from], m.match))
                             THEN [target |-> m.from, sent |-> TRUE] ELSE @]
        BY <1>3, <2>2, Zenon DEF HandleAppendEntriesResponse
      <4>2. TargetIsCaughtUp(n, Greater(match[n][m.from], m.match)) \in BOOLEAN
        BY DEF TargetIsCaughtUp
      <4> QED
        BY <1>0, <4>1, <4>2 DEF TypeOK
    <3>5. UNCHANGED <<durableVars, role, leaderHint, electionVars>>
      BY <1>3, <2>2, Zenon DEF HandleAppendEntriesResponse
    <3> QED
      BY <3>2, <3>3, <3>4, <3>5 DEF TypeOK, durableVars, electionVars
  <2>3. \/ BecomeFollower(n, m.term) /\ UNCHANGED <<last, msgs>>
        \/ m.term = currentTerm[n]
    BY <1>3, Zenon DEF HandleAppendEntriesResponse
  <2> QED
    BY <1>0, <2>1, <2>2, <2>3 DEF Term
<1> QED
  BY <1>1, <1>2, <1>3

(***************************************************************************)
(* Every step keeps the types.                                             *)
(***************************************************************************)
LEMMA StepTyped == TypeOK /\ [Next]_vars => TypeOK'
<1> SUFFICES ASSUME TypeOK, [Next]_vars PROVE TypeOK'
  OBVIOUS
<1>1. CASE UNCHANGED vars
  BY <1>1 DEF TypeOK, vars, durableVars, electionVars, leaderVars
<1>2. CASE Next
  BY <1>2, InputTyped, VoteMessageTyped, LeaderMessageTyped DEF Next, Receive
<1> QED
  BY <1>1, <1>2

(***************************************************************************)
(* The kernel's structures keep their types in every behaviour, for every  *)
(* number of nodes and terms.                                              *)
(***************************************************************************)
THEOREM TypeCorrect == Spec => []TypeOK
BY InitTyped, StepTyped, PTL DEF Spec

=============================================================================
