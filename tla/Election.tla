------------------------------ MODULE Election ------------------------------
(***************************************************************************)
(* Leadership in the rafter kernel (crates/rafter/src/node) for a fixed    *)
(* voter set: pre-vote rounds and leader stickiness, elections, stepping   *)
(* down, check-quorum, leadership transfer, and restarts.                  *)
(*                                                                         *)
(* The kernel is a deterministic step function, `Node::step`.  An action   *)
(* is one call of it on one input (a tick, a message, a request), taken    *)
(* whole.  The runtime persists term and vote before it releases the       *)
(* messages of a step, so a step and its messages are one event.           *)
(*                                                                         *)
(* Messages are never removed from `msgs`: each may be delivered never,    *)
(* late, out of order or many times.                                       *)
(*                                                                         *)
(* Ticks are abstracted to what their counters decide.  A node's election  *)
(* clock has passed the base timeout or not (`recent`), and it may expire  *)
(* at any time, because the ticks before an expiry change nothing else.    *)
(* Likewise the check-quorum window and a transfer may expire at any time. *)
(*                                                                         *)
(* A log appears here only through its end: the term of its last entry and *)
(* how many entries of that term it holds, the no-op its leader wrote      *)
(* first and the proposals after it.  By log matching, logs that end in    *)
(* the same term agree up to that term's first entry, so this orders logs  *)
(* as (last_log_term, last_log_index) does, and an index of a leader's own *)
(* entries is a count too.  What entries replication carries is the        *)
(* subject of Replication.                                                 *)
(***************************************************************************)
EXTENDS Integers, FiniteSets

CONSTANTS Node,             \* the voters
          Nil,              \* no node
          MaxTerm,          \* the largest term (u64::MAX in the code)
          MaxEntries,       \* bound: entries a leader writes in one term
          PreVote,          \* the nodes with NodeConfig::pre_vote
          CheckQuorum,      \* the nodes with NodeConfig::check_quorum
          Campaigning,      \* nodes whose election clock may run out
          Restarting,       \* nodes that may stop and start again
          TransferTargets   \* nodes an operator may transfer leadership to

ASSUME ElectionAssumption == /\ IsFiniteSet(Node)
                             /\ Nil \notin Node
                             /\ MaxTerm \in Nat
                             /\ MaxEntries \in Nat \ {0}
                             /\ PreVote \subseteq Node
                             /\ CheckQuorum \subseteq Node
                             /\ Campaigning \subseteq Node
                             /\ Restarting \subseteq Node
                             /\ TransferTargets \subseteq Node

VARIABLES currentTerm,   \* persistent.current_term
          votedFor,      \* persistent.voted_for
          last,          \* the end of the persistent log
          role,          \* volatile.role
          leaderHint,    \* volatile.leader_hint
          recent,        \* election.elapsed < election_timeout_ticks
          votes,         \* election.votes
          preVotes,      \* election.pre_votes
          match,         \* leader.progress: match_index of each follower
          quorumAcks,    \* leader: followers heard from in this window
          transfer,      \* leader.pending_transfer
          msgs           \* every message ever sent

durableVars == <<currentTerm, votedFor, last>>

electionVars == <<recent, votes, preVotes>>

leaderVars == <<match, quorumAcks, transfer>>

vars == <<durableVars, role, leaderHint, electionVars, leaderVars, msgs>>

Role == {"Follower", "PreCandidate", "Candidate", "Leader"}

Greater(a, b) == IF a < b THEN b ELSE a

(***************************************************************************)
(* MembershipIndex::has_quorum for a stable configuration: count / 2 + 1   *)
(* of the voters.                                                          *)
(***************************************************************************)
IsQuorum_Half(S) == Cardinality(S) >= Cardinality(Node) \div 2

IsQuorum(S) == 2 * Cardinality(S) > Cardinality(Node)

NoTransfer == [target |-> Nil, sent |-> FALSE]

(***************************************************************************)
(* No follower is known to hold an entry of the leader's term.             *)
(***************************************************************************)
NoProgress == [v \in Node |-> 0]

Init ==
    /\ currentTerm = [n \in Node |-> 0]
    /\ votedFor = [n \in Node |-> Nil]
    /\ last = [n \in Node |-> [term |-> 0, count |-> 0]]
    /\ role = [n \in Node |-> "Follower"]
    /\ leaderHint = [n \in Node |-> Nil]
    /\ recent = [n \in Node |-> TRUE]
    /\ votes = [n \in Node |-> {}]
    /\ preVotes = [n \in Node |-> {}]
    /\ match = [n \in Node |-> NoProgress]
    /\ quorumAcks = [n \in Node |-> {}]
    /\ transfer = [n \in Node |-> NoTransfer]
    /\ msgs = {}

(***************************************************************************)
(* ElectionState::reset and begin_election, which leave the given votes,   *)
(* and LeaderState::default.                                               *)
(***************************************************************************)
ResetElection(n, own) ==
    /\ recent' = [recent EXCEPT ![n] = TRUE]
    /\ votes' = [votes EXCEPT ![n] = own]
    /\ preVotes' = [preVotes EXCEPT ![n] = {}]

ResetLeader(n) ==
    /\ match' = [match EXCEPT ![n] = NoProgress]
    /\ quorumAcks' = [quorumAcks EXCEPT ![n] = {}]
    /\ transfer' = [transfer EXCEPT ![n] = NoTransfer]

Send(out) == msgs' = msgs \cup out

ToOthers(n, type, term) ==
    {[type |-> type, term |-> term, from |-> n, to |-> to, last |-> last[n]]
        : to \in Node \ {n}}

(***************************************************************************)
(* broadcast_append_entries: the leader contacts every other node, with    *)
(* entries up to `count` of its term to offer.                             *)
(***************************************************************************)
Frame(n, to, term, count) ==
    [type |-> "AppendEntries", term |-> term, from |-> n, to |-> to, count |-> count]

Contact(n, term, count) == {Frame(n, to, term, count) : to \in Node \ {n}}

(***************************************************************************)
(* The order of (last_log_term, last_log_index).                           *)
(***************************************************************************)
NotBehind(end, other) ==
    \/ end.term > other.term
    \/ end.term = other.term /\ end.count >= other.count

(***************************************************************************)
(* Term::checked_next: there is a term after t.                            *)
(***************************************************************************)
HasNextTerm_OffByOne(t) == t <= MaxTerm

HasNextTerm(t) == t < MaxTerm

(***************************************************************************)
(* become_follower(t), for t >= currentTerm[n].                            *)
(***************************************************************************)
BecomeFollower_KeepHint(n, t) ==
    /\ currentTerm' = [currentTerm EXCEPT ![n] = t]
    /\ votedFor' = [votedFor EXCEPT ![n] = IF t > currentTerm[n] THEN Nil ELSE @]
    /\ role' = [role EXCEPT ![n] = "Follower"]
    /\ ResetElection(n, {})
    /\ ResetLeader(n)
    /\ UNCHANGED leaderHint

BecomeFollower(n, t) ==
    /\ currentTerm' = [currentTerm EXCEPT ![n] = t]
    /\ votedFor' = [votedFor EXCEPT ![n] = IF t > currentTerm[n] THEN Nil ELSE @]
    /\ leaderHint' = [leaderHint EXCEPT ![n] = IF t > currentTerm[n] THEN Nil ELSE @]
    /\ role' = [role EXCEPT ![n] = "Follower"]
    /\ ResetElection(n, {})
    /\ ResetLeader(n)

(***************************************************************************)
(* become_leader in term t, which appends a no-op, and the broadcast that  *)
(* follows it.                                                             *)
(***************************************************************************)
BecomeLeader(n, t, granted) ==
    /\ role' = [role EXCEPT ![n] = "Leader"]
    /\ leaderHint' = [leaderHint EXCEPT ![n] = n]
    /\ ResetElection(n, granted)
    /\ ResetLeader(n)
    /\ last' = [last EXCEPT ![n] = [term |-> t, count |-> 1]]
    /\ Send(Contact(n, t, 1))

(***************************************************************************)
(* start_election from term t, which has a successor.  A sole voter wins   *)
(* at once.                                                                *)
(***************************************************************************)
StartElection(n, t) ==
    /\ currentTerm' = [currentTerm EXCEPT ![n] = t + 1]
    /\ votedFor' = [votedFor EXCEPT ![n] = n]
    /\ IF IsQuorum({n})
       THEN BecomeLeader(n, t + 1, {n})
       ELSE /\ role' = [role EXCEPT ![n] = "Candidate"]
            /\ leaderHint' = [leaderHint EXCEPT ![n] = Nil]
            /\ ResetElection(n, {n})
            /\ ResetLeader(n)
            /\ Send(ToOthers(n, "RequestVote", t + 1))
            /\ UNCHANGED last

StartPreVoteRound(n) ==
    IF IsQuorum({n})
    THEN StartElection(n, currentTerm[n])
    ELSE /\ role' = [role EXCEPT ![n] = "PreCandidate"]
         /\ leaderHint' = [leaderHint EXCEPT ![n] = Nil]
         /\ recent' = [recent EXCEPT ![n] = TRUE]
         /\ preVotes' = [preVotes EXCEPT ![n] = {n}]
         /\ Send(ToOthers(n, "PreVote", currentTerm[n] + 1))
         /\ UNCHANGED <<durableVars, votes, leaderVars>>

----------------------------------------------------------------------------
(* Inputs other than messages.                                             *)

(***************************************************************************)
(* A node that does not lead: its clock passes the base timeout, or        *)
(* expires.  In the last term an expiry only restarts the clock.  Only the *)
(* answer to a PreVote depends on the base timeout.                        *)
(***************************************************************************)
TickLapse(n) ==
    /\ PreVote # {}
    /\ role[n] # "Leader"
    /\ recent[n]
    /\ recent' = [recent EXCEPT ![n] = FALSE]
    /\ UNCHANGED <<durableVars, role, leaderHint, votes, preVotes, leaderVars, msgs>>

TickTimeout(n) ==
    /\ n \in Campaigning
    /\ role[n] # "Leader"
    /\ IF ~HasNextTerm(currentTerm[n])
       THEN /\ recent' = [recent EXCEPT ![n] = TRUE]
            /\ UNCHANGED <<durableVars, role, leaderHint, votes, preVotes, leaderVars, msgs>>
       ELSE IF n \in PreVote THEN StartPreVoteRound(n) ELSE StartElection(n, currentTerm[n])

(***************************************************************************)
(* A leader: a heartbeat is due, a transfer runs out of time, or the       *)
(* check-quorum window ends.                                               *)
(***************************************************************************)
TickHeartbeat(n) ==
    /\ role[n] = "Leader"
    /\ Send(Contact(n, currentTerm[n], last[n].count))
    /\ UNCHANGED <<durableVars, role, leaderHint, electionVars, leaderVars>>

TickTransfer(n) ==
    /\ role[n] = "Leader"
    /\ transfer[n] # NoTransfer
    /\ transfer' = [transfer EXCEPT ![n] = NoTransfer]
    /\ UNCHANGED <<durableVars, role, leaderHint, electionVars, match, quorumAcks, msgs>>

TickCheckQuorum(n) ==
    /\ n \in CheckQuorum
    /\ role[n] = "Leader"
    /\ IF IsQuorum(quorumAcks[n] \cup {n})
       THEN /\ quorumAcks' = [quorumAcks EXCEPT ![n] = {}]
            /\ UNCHANGED <<durableVars, role, leaderHint, electionVars, match, transfer, msgs>>
       ELSE /\ role' = [role EXCEPT ![n] = "Follower"]
            /\ leaderHint' = [leaderHint EXCEPT ![n] = Nil]
            /\ ResetElection(n, {})
            /\ ResetLeader(n)
            /\ UNCHANGED <<durableVars, msgs>>

(***************************************************************************)
(* A client's proposal: refused in a transfer, else appended and offered   *)
(* to the followers.                                                       *)
(***************************************************************************)
Propose(n) ==
    LET count == last[n].count + 1
    IN  /\ role[n] = "Leader"
        /\ transfer[n] = NoTransfer
        /\ count <= MaxEntries
        /\ last' = [last EXCEPT ![n].count = count]
        /\ Send(Contact(n, currentTerm[n], count))
        /\ UNCHANGED <<currentTerm, votedFor, role, leaderHint, electionVars, leaderVars>>

(***************************************************************************)
(* transfer_leadership: a caught-up target is told to campaign at once;    *)
(* otherwise the leader contacts it first.                                 *)
(***************************************************************************)
TimeoutNow(n, to) ==
    [type |-> "TimeoutNow", term |-> currentTerm[n], from |-> n, to |-> to]

TargetIsCaughtUp_Once(n, acknowledged) == acknowledged > 0

TargetIsCaughtUp(n, acknowledged) == acknowledged = last[n].count

TransferLeadership(n, target) ==
    LET ready == TargetIsCaughtUp(n, match[n][target])
    IN  /\ role[n] = "Leader"
        /\ target # n
        /\ transfer[n] = NoTransfer
        /\ transfer' = [transfer EXCEPT ![n] = [target |-> target, sent |-> ready]]
        /\ Send({IF ready
                 THEN TimeoutNow(n, target)
                 ELSE Frame(n, target, currentTerm[n], last[n].count)})
        /\ UNCHANGED <<durableVars, role, leaderHint, electionVars, match, quorumAcks>>

(***************************************************************************)
(* The process stops and starts again from its durable state.              *)
(***************************************************************************)
Restart(n) ==
    /\ n \in Restarting
    /\ role' = [role EXCEPT ![n] = "Follower"]
    /\ leaderHint' = [leaderHint EXCEPT ![n] = Nil]
    /\ ResetElection(n, {})
    /\ ResetLeader(n)
    /\ UNCHANGED <<durableVars, msgs>>

----------------------------------------------------------------------------
(* Messages.  m.to receives m; a case in which the code returns without    *)
(* changing or sending anything is not enabled.                            *)

(***************************************************************************)
(* The voter a response adds to the votes or pre-votes.                    *)
(***************************************************************************)

Granted(m) == IF m.granted THEN {m.from} ELSE {}

(***************************************************************************)
(* The conditions on which a vote is granted in m.term, `vote` being the   *)
(* one already given in that term.                                         *)
(***************************************************************************)
MayVote(n, m, vote) ==
    /\ m.term >= currentTerm[n]
    /\ NotBehind(m.last, last[n])
    /\ vote \in {Nil, m.from}

(***************************************************************************)
(* A vote response belongs to the campaign under way.                      *)
(***************************************************************************)
VoteCounts_AnyTerm(n, m) == role[n] = "Candidate" /\ m.term <= currentTerm[n]

VoteCounts(n, m) == role[n] = "Candidate" /\ m.term = currentTerm[n]

(***************************************************************************)
(* A pre-vote response belongs to the round under way.                     *)
(***************************************************************************)
PreVoteCounts_AnyRound(n, m) == role[n] = "PreCandidate"

PreVoteCounts(n, m) == role[n] = "PreCandidate" /\ m.term = currentTerm[n] + 1

(***************************************************************************)
(* A pre-vote changes nothing at the voter.  It is refused while the voter *)
(* believes in a current leader.                                           *)
(***************************************************************************)
HandlePreVote(m) ==
    LET n       == m.to
        sticky  == leaderHint[n] # Nil /\ recent[n]
        granted == m.term > currentTerm[n] /\ NotBehind(m.last, last[n]) /\ ~sticky
    IN  /\ m.type = "PreVote"
        /\ Send({[type |-> "PreVoteResponse", from |-> n, to |-> m.from,
                  term |-> IF granted THEN m.term ELSE currentTerm[n],
                  granted |-> granted]})
        /\ UNCHANGED <<durableVars, role, leaderHint, electionVars, leaderVars>>

(***************************************************************************)
(* A term above the proposed one, or a denial from a later term, makes the *)
(* node a follower of that term.                                           *)
(***************************************************************************)
HandlePreVoteResponse(m) ==
    LET n        == m.to
        proposed == currentTerm[n] + 1
        later    == m.term > proposed \/ (~m.granted /\ m.term > currentTerm[n])
        granted  == preVotes[n] \cup Granted(m)
    IN  /\ m.type = "PreVoteResponse"
        /\ HasNextTerm(currentTerm[n])
        /\ \/ /\ later
              /\ BecomeFollower(n, m.term)
              /\ UNCHANGED <<last, msgs>>
           \/ /\ ~later
              /\ PreVoteCounts(n, m)
              /\ IF IsQuorum(granted)
                 THEN StartElection(n, currentTerm[n])
                 ELSE /\ preVotes' = [preVotes EXCEPT ![n] = granted]
                      /\ UNCHANGED <<durableVars, role, leaderHint, recent, votes, leaderVars,
                                     msgs>>

(***************************************************************************)
(* Learning of a later term and granting a vote in it is one step.         *)
(***************************************************************************)
HandleRequestVote(m) ==
    LET n       == m.to
        newer   == m.term > currentTerm[n]
        vote    == IF newer THEN Nil ELSE votedFor[n]
        granted == MayVote(n, m, vote)
    IN  /\ m.type = "RequestVote"
        /\ currentTerm' = [currentTerm EXCEPT ![n] = Greater(@, m.term)]
        /\ votedFor' = [votedFor EXCEPT ![n] = IF granted THEN m.from ELSE vote]
        /\ recent' = [recent EXCEPT ![n] = @ \/ newer \/ granted]
        /\ IF newer
           THEN /\ role' = [role EXCEPT ![n] = "Follower"]
                /\ leaderHint' = [leaderHint EXCEPT ![n] = Nil]
                /\ votes' = [votes EXCEPT ![n] = {}]
                /\ preVotes' = [preVotes EXCEPT ![n] = {}]
                /\ ResetLeader(n)
           ELSE UNCHANGED <<role, leaderHint, votes, preVotes, leaderVars>>
        /\ Send({[type |-> "RequestVoteResponse", from |-> n, to |-> m.from,
                  term |-> Greater(currentTerm[n], m.term), granted |-> granted]})
        /\ UNCHANGED last

HandleRequestVoteResponse(m) ==
    LET n       == m.to
        granted == votes[n] \cup Granted(m)
    IN  /\ m.type = "RequestVoteResponse"
        /\ \/ /\ m.term > currentTerm[n]
              /\ BecomeFollower(n, m.term)
              /\ UNCHANGED <<last, msgs>>
           \/ /\ VoteCounts(n, m)
              /\ IF IsQuorum(granted)
                 THEN /\ BecomeLeader(n, currentTerm[n], granted)
                      /\ UNCHANGED <<currentTerm, votedFor>>
                 ELSE /\ votes' = [votes EXCEPT ![n] = granted]
                      /\ UNCHANGED <<durableVars, role, leaderHint, recent, preVotes, leaderVars,
                                     msgs>>

(***************************************************************************)
(* TimeoutNow makes its target campaign without a pre-vote round.          *)
(***************************************************************************)
HandleTimeoutNow(m) ==
    LET n == m.to
    IN  /\ m.type = "TimeoutNow"
        /\ m.term >= currentTerm[n]
        /\ IF ~HasNextTerm(m.term)
           THEN /\ BecomeFollower(n, m.term)
                /\ UNCHANGED <<last, msgs>>
           ELSE StartElection(n, m.term)

(***************************************************************************)
(* The ends a log may have after a frame that is accepted up to `reach`    *)
(* entries of the leader's term.  A longer log of that term stays as it    *)
(* is.  With reach = 0 the frame is rejected, or stops short of that term: *)
(* it leaves the log alone, or makes it end in an earlier entry of the     *)
(* leader's.                                                               *)
(***************************************************************************)
EndsAfter(n, m, reach) ==
    IF last[n].term = m.term
    THEN {[last[n] EXCEPT !.count = Greater(@, reach)]}
    ELSE IF reach > 0
    THEN {[term |-> m.term, count |-> reach]}
    ELSE {last[n]} \cup [term : 1 .. m.term - 1, count : 1 .. MaxEntries]

(***************************************************************************)
(* Contact from a leader.  A stale one is told the current term.           *)
(***************************************************************************)
HandleAppendEntries(m, reach, end) ==
    LET n        == m.to
        newer    == m.term > currentTerm[n]
    IN  /\ m.type = "AppendEntries"
        /\ \/ /\ m.term < currentTerm[n]
              /\ Send({[type |-> "AppendEntriesResponse", from |-> n, to |-> m.from,
                        term |-> currentTerm[n], match |-> 0]})
              /\ UNCHANGED <<durableVars, role, leaderHint, electionVars, leaderVars>>
           \/ /\ m.term >= currentTerm[n]
              /\ currentTerm' = [currentTerm EXCEPT ![n] = m.term]
              /\ votedFor' = [votedFor EXCEPT ![n] = IF newer THEN Nil ELSE @]
              /\ last' = [last EXCEPT ![n] = end]
              /\ role' = [role EXCEPT ![n] = "Follower"]
              /\ leaderHint' = [leaderHint EXCEPT ![n] = m.from]
              /\ recent' = [recent EXCEPT ![n] = TRUE]
              /\ IF newer \/ role[n] # "Follower"
                 THEN /\ votes' = [votes EXCEPT ![n] = {}]
                      /\ preVotes' = [preVotes EXCEPT ![n] = {}]
                      /\ ResetLeader(n)
                 ELSE UNCHANGED <<votes, preVotes, leaderVars>>
              /\ Send({[type |-> "AppendEntriesResponse", from |-> n, to |-> m.from,
                        term |-> m.term, match |-> reach]})

(***************************************************************************)
(* Any answer of the current term counts as contact, a rejection too.  A   *)
(* transfer target that has caught up is told to campaign.                 *)
(***************************************************************************)
HandleAppendEntriesResponse(m) ==
    LET n            == m.to
        acknowledged == Greater(match[n][m.from], m.match)
        ready        == /\ transfer[n] = [target |-> m.from, sent |-> FALSE]
                        /\ TargetIsCaughtUp(n, acknowledged)
    IN  /\ m.type = "AppendEntriesResponse"
        /\ \/ /\ m.term > currentTerm[n]
              /\ BecomeFollower(n, m.term)
              /\ UNCHANGED <<last, msgs>>
           \/ /\ m.term = currentTerm[n]
              /\ role[n] = "Leader"
              /\ quorumAcks' = [quorumAcks EXCEPT ![n] =
                                    IF n \in CheckQuorum THEN @ \cup {m.from} ELSE @]
              /\ match' = [match EXCEPT ![n][m.from] = acknowledged]
              /\ transfer' = [transfer EXCEPT ![n] =
                                  IF ready THEN [target |-> m.from, sent |-> TRUE] ELSE @]
              /\ Send(IF ready THEN {TimeoutNow(n, m.from)} ELSE {})
              /\ UNCHANGED <<durableVars, role, leaderHint, electionVars>>

----------------------------------------------------------------------------

Receive(m) ==
    \/ HandlePreVote(m)
    \/ HandlePreVoteResponse(m)
    \/ HandleRequestVote(m)
    \/ HandleRequestVoteResponse(m)
    \/ HandleTimeoutNow(m)
    \/ /\ m.type = "AppendEntries"
       /\ \E reach \in 0 .. m.count : \E end \in EndsAfter(m.to, m, reach) :
             HandleAppendEntries(m, reach, end)
    \/ HandleAppendEntriesResponse(m)

Next ==
    \/ \E n \in Node : \/ TickLapse(n)
                       \/ TickTimeout(n)
                       \/ TickHeartbeat(n)
                       \/ TickTransfer(n)
                       \/ TickCheckQuorum(n)
                       \/ Propose(n)
                       \/ Restart(n)
    \/ \E n \in Node, target \in TransferTargets : TransferLeadership(n, target)
    \/ \E m \in msgs : Receive(m)

Spec == Init /\ [][Next]_vars

----------------------------------------------------------------------------
(* Properties.                                                             *)

Term == 0 .. MaxTerm

LogEnd == [term : Term, count : 0 .. MaxEntries]

VoteRequest == [type : {"PreVote", "RequestVote"}, term : Term, from : Node, to : Node,
                last : LogEnd]

VoteResponse == [type : {"PreVoteResponse", "RequestVoteResponse"}, term : Term,
                 from : Node, to : Node, granted : BOOLEAN]

CampaignOrder == [type : {"TimeoutNow"}, term : Term, from : Node, to : Node]

AppendRequest == [type : {"AppendEntries"}, term : Term, from : Node, to : Node,
                  count : 0 .. MaxEntries]

AppendResponse == [type : {"AppendEntriesResponse"}, term : Term, from : Node, to : Node,
                   match : 0 .. MaxEntries]

Message ==
    VoteRequest \cup VoteResponse \cup CampaignOrder \cup AppendRequest \cup AppendResponse

(***************************************************************************)
(* The type invariant: the state of every node and the messages are those  *)
(* of the kernel's structures.                                             *)
(***************************************************************************)
TypeOK ==
    /\ currentTerm \in [Node -> Term]
    /\ votedFor \in [Node -> Node \cup {Nil}]
    /\ last \in [Node -> LogEnd]
    /\ role \in [Node -> Role]
    /\ leaderHint \in [Node -> Node \cup {Nil}]
    /\ recent \in [Node -> BOOLEAN]
    /\ votes \in [Node -> SUBSET Node]
    /\ preVotes \in [Node -> SUBSET Node]
    /\ match \in [Node -> [Node -> 0 .. MaxEntries]]
    /\ quorumAcks \in [Node -> SUBSET Node]
    /\ transfer \in [Node -> [target : Node \cup {Nil}, sent : BOOLEAN]]
    /\ msgs \subseteq Message

(***************************************************************************)
(* Two nodes never lead in the same term, whatever mixture of votes,       *)
(* retries, transfers and restarts brought them there (start_election,     *)
(* handle_request_vote, handle_request_vote_response).                     *)
(***************************************************************************)
ElectionSafety ==
    \A a, b \in Node :
        role[a] = "Leader" /\ role[b] = "Leader" /\ currentTerm[a] = currentTerm[b]
            => a = b

(***************************************************************************)
(* A node that campaigns or leads has given its durable vote of the term   *)
(* to itself: it cannot have voted for a rival before or after, a restart  *)
(* included.                                                               *)
(***************************************************************************)
CampaignerKeepsItsVote ==
    \A n \in Node : role[n] \in {"Candidate", "Leader"} => votedFor[n] = n

(***************************************************************************)
(* The leader hint, which decides stickiness and where clients are sent,   *)
(* names a node that did lead in the term the hint's owner is in: it is    *)
(* never carried into a later term or kept by a deposed leader.            *)
(***************************************************************************)
HintNamesLeaderOfTerm ==
    \A n \in Node :
        leaderHint[n] # Nil =>
            \/ leaderHint[n] = n /\ role[n] = "Leader"
            \/ \E count \in 0 .. MaxEntries :
                  Frame(leaderHint[n], n, currentTerm[n], count) \in msgs

(***************************************************************************)
(* While a transfer that has told its target to campaign is pending, the   *)
(* target holds the whole log of the leader, unless it has moved on to a   *)
(* later term already: what the leader accepted before the transfer is not *)
(* left behind, whichever acknowledgements came late, and nothing is       *)
(* accepted meanwhile (target_is_caught_up, proposal_preflight_rejection). *)
(* Once the transfer has expired the log may grow again, and a target that *)
(* acts on the late message may be behind: then the votes decide.          *)
(***************************************************************************)
TransferTargetHoldsLog ==
    \A n, v \in Node :
        /\ role[n] = "Leader"
        /\ transfer[n] = [target |-> v, sent |-> TRUE]
        /\ currentTerm[v] <= currentTerm[n]
        => last[v] = last[n]

(***************************************************************************)
(* The votes a candidate or leader has counted are votes of its own term:  *)
(* each voter has reached that term and, while in it, stays bound to the   *)
(* vote.  Responses of an earlier campaign, repeated or late, and votes    *)
(* from before a restart never add up to a majority.                       *)
(***************************************************************************)
VotesAreOfThisTerm ==
    \A n \in Node : role[n] \in {"Candidate", "Leader"} =>
        \A v \in votes[n] \ {n} :
            /\ currentTerm[v] >= currentTerm[n]
            /\ currentTerm[v] = currentTerm[n] => votedFor[v] = n

(***************************************************************************)
(* A node with pre-vote on does not campaign on its own: when it is a      *)
(* candidate or leads, it was granted pre-votes for that term by a         *)
(* majority, or was told to campaign by the leader of the term before.     *)
(* Pre-votes of another round or term, or denials, are not a mandate       *)
(* (start_pre_vote_round, handle_pre_vote_response, handle_timeout_now).   *)
(***************************************************************************)
CampaignHasMandate ==
    \A n \in PreVote : role[n] \in {"Candidate", "Leader"} =>
        \/ IsQuorum({n} \cup {v \in Node :
                [type |-> "PreVoteResponse", from |-> v, to |-> n,
                 term |-> currentTerm[n], granted |-> TRUE] \in msgs})
        \/ \E l \in Node : [type |-> "TimeoutNow", term |-> currentTerm[n] - 1,
                            from |-> l, to |-> n] \in msgs

(***************************************************************************)
(* A step never lowers a node's term, and within a term never changes or   *)
(* withdraws a vote it has given.                                          *)
(***************************************************************************)
VoteIsFinal ==
    [][\A n \in Node :
          /\ currentTerm'[n] >= currentTerm[n]
          /\ currentTerm'[n] = currentTerm[n] /\ votedFor[n] # Nil
                => votedFor'[n] = votedFor[n]]_vars

=============================================================================
