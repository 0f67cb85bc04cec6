------------------------------- MODULE Reads -------------------------------
(***************************************************************************)
(* Linearizable reads in the rafter kernel (node/read_index.rs and         *)
(* node/replication/authority.rs) for a fixed voter set: read barriers     *)
(* confirmed by heartbeat rounds, the leader lease, and what elections,    *)
(* transfers, check-quorum and restarts do to them.                        *)
(*                                                                         *)
(* A log is the set of terms whose no-op it holds, and a log position is   *)
(* the term of the entry there.  Log matching makes this exact while all   *)
(* entries are no-ops, and entries that a leader adds behind its no-op do  *)
(* not concern the reads of other leaders.                                 *)
(*                                                                         *)
(* With pre-vote and check-quorum on, the foundation of lease reads, ticks *)
(* are counted, up to Timeout.  Between two ticks of one node another      *)
(* ticks at most Cadence times: leases assume that no node's ticks are     *)
(* more than twice as frequent as another's (with_lease_reads).  Without   *)
(* the foundation nothing here depends on time, and an election clock may  *)
(* expire whenever it likes.                                               *)
(*                                                                         *)
(* Messages are never removed: each may be delivered late, again or never. *)
(* A frame stands for any segment of its leader's log, as in Replication.  *)
(***************************************************************************)
EXTENDS Integers, Sequences, FiniteSets

CONSTANTS Node,          \* the voters
          Nil,           \* no node
          Incumbent,     \* the leader of the first term
          Read,          \* read ids
          MaxTerm,       \* bound: elections end with this term
          MaxRound,      \* bound: contact rounds of one leadership
          MaxPending,    \* MAX_PENDING_READS
          Timeout,       \* election_timeout_ticks
          Cadence,       \* how much faster than another a node may tick
          Foundation,    \* config.pre_vote() and config.check_quorum()
          LeaseReads,    \* config.lease_reads()
          Campaigning,   \* nodes whose election clock may expire
          TransferTargets, \* nodes that a transfer may be requested to
          Restarting     \* nodes that may restart

ASSUME ReadsAssumption ==
    /\ IsFiniteSet(Node) /\ Nil \notin Node /\ Incumbent \in Node
    /\ MaxTerm \in Nat /\ MaxRound \in Nat /\ MaxPending \in Nat /\ Timeout \in Nat
    /\ Cadence \in Nat \ {0}
    /\ Foundation \in BOOLEAN /\ LeaseReads \in BOOLEAN /\ (LeaseReads => Foundation)
    /\ Foundation => Timeout >= 2
    /\ Campaigning \subseteq Node /\ TransferTargets \subseteq Node /\ Restarting \subseteq Node

VARIABLES currentTerm, votedFor, log, commit,   \* hard state and log
          role, hint, elapsed,                  \* volatile state, election clock
          leader,                               \* LeaderState
          since,                                \* ticks of others since a node's last tick
          msgs,                                 \* messages sent
          termLog,                              \* the log of each term's leader
          outcome, readIndex, due               \* of each read

durableVars == <<currentTerm, votedFor, log, commit>>

readVars == <<outcome, readIndex, due>>

vars == <<currentTerm, votedFor, log, commit, role, hint, elapsed, leader, since, msgs,
          termLog, outcome, readIndex, due>>

Term == 1 .. MaxTerm

Lesser(a, b) == IF a < b THEN a ELSE b

Greater(a, b) == IF a < b THEN b ELSE a

Newest(S) == CHOOSE t \in S \cup {0} : \A u \in S : u <= t

(***************************************************************************)
(* has_quorum_with_self and has_effective_quorum for a stable membership.  *)
(***************************************************************************)
IsQuorum(S) == 2 * Cardinality(S) > Cardinality(Node)

(***************************************************************************)
(* LeaderState::default().  Of the lease's clock only differences matter:  *)
(* basisAge is ticks - pending_basis_tick, leaseAge the ticks since the    *)
(* confirmed basis, and the window's length stands for None.               *)
(***************************************************************************)
Window == Timeout \div 2

NotLeading ==
    [sequence |-> 0, matched |-> {}, pending |-> <<>>,
     target |-> Nil, sent |-> FALSE, authorized |-> FALSE,
     contacts |-> {}, quorumElapsed |-> 0,
     basisAge |-> 0, leaseSequence |-> 0, leaseAcks |-> {}, leaseAge |-> Window]

(***************************************************************************)
(* A counter of ticks.                                                     *)
(***************************************************************************)
Advanced(count) == Lesser(count + 1, Timeout)

(***************************************************************************)
(* Messages.  A frame of round s may carry any commit index up to c.       *)
(***************************************************************************)
Poll(n) == [type |-> "PreVote", term |-> currentTerm[n] + 1, from |-> n, last |-> Newest(log[n])]

Request(n, t) == [type |-> "RequestVote", term |-> t, from |-> n, last |-> Newest(log[n])]

Grant(kind, t, v, c) == [type |-> kind, term |-> t, from |-> v, to |-> c]

Frame(n, t, s, c) == [type |-> "AppendEntries", term |-> t, from |-> n, sequence |-> s, commit |-> c]

Response(n, f, match) ==
    [type |-> "AppendEntriesResponse", term |-> f.term, from |-> n, to |-> f.from,
     sequence |-> f.sequence, match |-> match]

TimeoutNow(n, target) == [type |-> "TimeoutNow", term |-> currentTerm[n], to |-> target]

(***************************************************************************)
(* The first leader has just been acknowledged by every voter.             *)
(***************************************************************************)
Init ==
    /\ currentTerm = [n \in Node |-> 1]
    /\ votedFor = [n \in Node |-> Incumbent]
    /\ log = [n \in Node |-> {1}]
    /\ commit = [n \in Node |-> IF n = Incumbent THEN 1 ELSE 0]
    /\ role = [n \in Node |-> IF n = Incumbent THEN "Leader" ELSE "Follower"]
    /\ hint = [n \in Node |-> Incumbent]
    /\ elapsed = [n \in Node |-> 0]
    /\ leader = [n \in Node |->
                    IF n = Incumbent
                    THEN [NotLeading EXCEPT !.sequence = 1,
                                            !.matched = Node \ {n},
                                            !.contacts = IF Foundation THEN Node \ {n} ELSE {},
                                            !.leaseSequence = IF LeaseReads THEN 2 ELSE 0,
                                            !.leaseAge = IF LeaseReads THEN 0 ELSE Window]
                    ELSE NotLeading]
    /\ since = [n \in Node |-> [m \in Node |-> 0]]
    /\ msgs = {Response(n, Frame(Incumbent, 1, 1, 0), 1) : n \in Node \ {Incumbent}}
                 \cup {Frame(Incumbent, 1, 1, 0), Frame(Incumbent, 1, 1, 1)}
    /\ termLog = [t \in Term |-> IF t = 1 THEN {1} ELSE {}]
    /\ outcome = [r \in Read |-> "Unasked"]
    /\ readIndex = [r \in Read |-> 0]
    /\ due = [r \in Read |-> 0]

PendingReads(n) == UNION {leader[n].pending[i].reads : i \in DOMAIN leader[n].pending}

(***************************************************************************)
(* drain_pending_reads: every barrier still waiting is answered.           *)
(***************************************************************************)
Drain_Silently(n) == UNCHANGED readVars

Drain(n) ==
    /\ outcome' = [r \in Read |-> IF r \in PendingReads(n) THEN "Canceled" ELSE outcome[r]]
    /\ UNCHANGED <<readIndex, due>>

(***************************************************************************)
(* become_follower(t), except for the vote.                                *)
(***************************************************************************)
BecomeFollower(n, t) ==
    /\ Drain(n)
    /\ currentTerm' = [currentTerm EXCEPT ![n] = t]
    /\ hint' = [hint EXCEPT ![n] = IF t > currentTerm[n] THEN Nil ELSE @]
    /\ role' = [role EXCEPT ![n] = "Follower"]
    /\ elapsed' = [elapsed EXCEPT ![n] = 0]
    /\ leader' = [leader EXCEPT ![n] = NotLeading]

----------------------------------------------------------------------------
(* Campaigns.                                                              *)

HasNextTerm(t) == t < MaxTerm

(***************************************************************************)
(* start_election in the term after t.                                     *)
(***************************************************************************)
StartElection(n, t) ==
    /\ HasNextTerm(t)
    /\ currentTerm' = [currentTerm EXCEPT ![n] = t + 1]
    /\ votedFor' = [votedFor EXCEPT ![n] = n]
    /\ role' = [role EXCEPT ![n] = "Candidate"]
    /\ hint' = [hint EXCEPT ![n] = Nil]
    /\ elapsed' = [elapsed EXCEPT ![n] = 0]
    /\ msgs' = msgs \cup {Request(n, t + 1), Grant("RequestVoteResponse", t + 1, n, n)}
    /\ UNCHANGED <<log, commit, termLog>>

(***************************************************************************)
(* start_pre_vote_round.                                                   *)
(***************************************************************************)
StartPreVoteRound(n) ==
    /\ HasNextTerm(currentTerm[n])
    /\ role' = [role EXCEPT ![n] = "PreCandidate"]
    /\ hint' = [hint EXCEPT ![n] = Nil]
    /\ elapsed' = [elapsed EXCEPT ![n] = 0]
    /\ msgs' = msgs \cup {Poll(n), Grant("PreVoteResponse", currentTerm[n] + 1, n, n)}
    /\ UNCHANGED <<durableVars, leader, termLog, readVars>>

(***************************************************************************)
(* The tick of a node is possible when the others have kept up.            *)
(***************************************************************************)
PassTick(n) ==
    IF ~Foundation THEN UNCHANGED since
    ELSE /\ \A m \in Node \ {n} : since[m][n] < Cadence
         /\ since' = [m \in Node |-> IF m = n THEN [v \in Node |-> 0]
                                     ELSE [since[m] EXCEPT ![n] = @ + 1]]

(***************************************************************************)
(* A tick of a node that does not lead.  With its jitter a timeout is      *)
(* reached at some time after Timeout.                                     *)
(***************************************************************************)
TickLapse(n) ==
    /\ Foundation
    /\ role[n] # "Leader"
    /\ PassTick(n)
    /\ elapsed' = [elapsed EXCEPT ![n] = Advanced(@)]
    /\ UNCHANGED <<durableVars, role, hint, leader, msgs, termLog, readVars>>

TickTimeout(n) ==
    /\ n \in Campaigning
    /\ role[n] # "Leader"
    /\ Foundation => elapsed[n] + 1 >= Timeout
    /\ PassTick(n)
    /\ IF Foundation
       THEN StartPreVoteRound(n)
       ELSE StartElection(n, currentTerm[n]) /\ UNCHANGED <<leader, readVars>>

(***************************************************************************)
(* handle_pre_vote; a denial only tells the sender's term (LearnTerm).     *)
(***************************************************************************)
BelievesInLeader(n) == hint[n] # Nil /\ elapsed[n] < Timeout

HandlePreVote(n, m) ==
    /\ m.type = "PreVote"
    /\ m.from # n
    /\ m.term > currentTerm[n]
    /\ m.last >= Newest(log[n])
    /\ ~BelievesInLeader(n)
    /\ msgs' = msgs \cup {Grant("PreVoteResponse", m.term, n, m.from)}
    /\ UNCHANGED <<durableVars, role, hint, elapsed, leader, since, termLog, readVars>>

(***************************************************************************)
(* handle_pre_vote_response for the one that completes a quorum.           *)
(***************************************************************************)
Granted(kind, t, n) == {v \in Node : Grant(kind, t, v, n) \in msgs}

WinPreVote(n) ==
    /\ role[n] = "PreCandidate"
    /\ IsQuorum(Granted("PreVoteResponse", currentTerm[n] + 1, n))
    /\ StartElection(n, currentTerm[n])
    /\ UNCHANGED <<leader, since, readVars>>

(***************************************************************************)
(* handle_request_vote: it asks for no belief in a leader.                 *)
(***************************************************************************)
HandleRequestVote(n, m) ==
    LET newer   == m.term > currentTerm[n]
        vote    == IF newer THEN Nil ELSE votedFor[n]
        granted == /\ m.term >= currentTerm[n]
                   /\ m.last >= Newest(log[n])
                   /\ vote \in {Nil, m.from}
    IN  /\ m.type = "RequestVote"
        /\ m.from # n
        /\ newer \/ granted
        /\ IF newer
           THEN BecomeFollower(n, m.term)
           ELSE /\ elapsed' = [elapsed EXCEPT ![n] = 0]
                /\ UNCHANGED <<currentTerm, hint, role, leader, readVars>>
        /\ votedFor' = [votedFor EXCEPT ![n] = IF granted THEN m.from ELSE vote]
        /\ msgs' = IF granted
                   THEN msgs \cup {Grant("RequestVoteResponse", m.term, n, m.from)}
                   ELSE msgs
        /\ UNCHANGED <<log, commit, since, termLog>>

(***************************************************************************)
(* handle_request_vote_response for the one that completes a quorum:       *)
(* become_leader and the first broadcast.                                  *)
(***************************************************************************)
BecomeLeader(n) ==
    LET t == currentTerm[n]
    IN  /\ role[n] = "Candidate"
        /\ IsQuorum(Granted("RequestVoteResponse", t, n))
        /\ role' = [role EXCEPT ![n] = "Leader"]
        /\ hint' = [hint EXCEPT ![n] = n]
        /\ elapsed' = [elapsed EXCEPT ![n] = 0]
        /\ leader' = [leader EXCEPT ![n] = [NotLeading EXCEPT !.sequence = 1]]
        /\ log' = [log EXCEPT ![n] = @ \cup {t}]
        /\ termLog' = [termLog EXCEPT ![t] = log[n] \cup {t}]
        /\ msgs' = msgs \cup {Frame(n, t, 1, commit[n])}
        /\ UNCHANGED <<currentTerm, votedFor, commit, since, readVars>>

(***************************************************************************)
(* Some response of a later term; a denied poll or vote is one too.        *)
(***************************************************************************)
LearnTerm(n, m) ==
    /\ currentTerm[m] > currentTerm[n]
    /\ BecomeFollower(n, currentTerm[m])
    /\ votedFor' = [votedFor EXCEPT ![n] = Nil]
    /\ UNCHANGED <<log, commit, since, msgs, termLog>>

----------------------------------------------------------------------------
(* Leadership.                                                             *)

(***************************************************************************)
(* tick_read_lease: a checkpoint too old to extend the lease is replaced.  *)
(***************************************************************************)
LeaseTick(l) ==
    IF ~LeaseReads THEN l
    ELSE LET aged == [l EXCEPT !.basisAge = @ + 1, !.leaseAge = Lesser(@ + 1, Window)]
         IN  IF aged.basisAge < Window THEN aged
             ELSE [aged EXCEPT !.basisAge = 0, !.leaseSequence = l.sequence + 1,
                               !.leaseAcks = {}]

(***************************************************************************)
(* tick_leadership_transfer abandons a transfer in its own time.           *)
(***************************************************************************)
TransferTick(l, abandoned) ==
    IF abandoned THEN [l EXCEPT !.target = Nil, !.sent = FALSE] ELSE l

(***************************************************************************)
(* A leader's tick that leaves it in office.  Whether a contact round is   *)
(* due depends on the heartbeat interval.                                  *)
(***************************************************************************)
QuorumLapsed(l) == Foundation /\ l.quorumElapsed + 1 >= Timeout

QuorumTick(l) ==
    IF QuorumLapsed(l) THEN [l EXCEPT !.contacts = {}, !.quorumElapsed = 0]
    ELSE [l EXCEPT !.quorumElapsed = IF Foundation THEN @ + 1 ELSE @]

TickLeader(n, contact, abandoned) ==
    LET m == QuorumTick(TransferTick(LeaseTick(leader[n]), abandoned))
    IN  /\ role[n] = "Leader"
        /\ PassTick(n)
        /\ abandoned => leader[n].target # Nil
        /\ QuorumLapsed(leader[n]) => IsQuorum(leader[n].contacts \cup {n})
        /\ contact => leader[n].sequence < MaxRound
        /\ leader' = [leader EXCEPT ![n] = [m EXCEPT !.sequence = IF contact THEN @ + 1 ELSE @]]
        /\ msgs' = IF contact
                   THEN msgs \cup {Frame(n, currentTerm[n], leader[n].sequence + 1, commit[n])}
                   ELSE msgs
        /\ UNCHANGED <<durableVars, role, hint, elapsed, termLog, readVars>>

(***************************************************************************)
(* tick_check_quorum: a full timeout without a quorum.                     *)
(***************************************************************************)
TickStepDown(n) ==
    /\ role[n] = "Leader"
    /\ PassTick(n)
    /\ QuorumLapsed(leader[n])
    /\ ~IsQuorum(leader[n].contacts \cup {n})
    /\ Drain(n)
    /\ role' = [role EXCEPT ![n] = "Follower"]
    /\ hint' = [hint EXCEPT ![n] = Nil]
    /\ elapsed' = [elapsed EXCEPT ![n] = 0]
    /\ leader' = [leader EXCEPT ![n] = NotLeading]
    /\ UNCHANGED <<durableVars, msgs, termLog>>

(***************************************************************************)
(* handle_append_entries for a frame that is accepted up to `match`, or    *)
(* rejected (match = 0).                                                   *)
(***************************************************************************)
HandleAppendEntries(n, f, match) ==
    LET newer == f.term > currentTerm[n]
    IN  /\ f.type = "AppendEntries"
        /\ f.from # n
        /\ f.term >= currentTerm[n]
        /\ match \in termLog[f.term] \cup {0}
        /\ IF newer \/ role[n] # "Follower"
           THEN /\ Drain(n)
                /\ currentTerm' = [currentTerm EXCEPT ![n] = f.term]
                /\ role' = [role EXCEPT ![n] = "Follower"]
                /\ leader' = [leader EXCEPT ![n] = NotLeading]
           ELSE UNCHANGED <<currentTerm, role, leader, readVars>>
        /\ votedFor' = [votedFor EXCEPT ![n] = IF newer THEN Nil ELSE @]
        /\ hint' = [hint EXCEPT ![n] = f.from]
        /\ elapsed' = [elapsed EXCEPT ![n] = 0]
        /\ log' = [log EXCEPT ![n] = IF match \in @ \cup {0}
                                     THEN @
                                     ELSE {t \in termLog[f.term] : t <= match}]
        /\ commit' = [commit EXCEPT ![n] = Greater(@, Lesser(f.commit, match))]
        /\ msgs' = msgs \cup {Response(n, f, match)}
        /\ UNCHANGED <<since, termLog>>

(***************************************************************************)
(* acknowledge_read_lease.                                                 *)
(***************************************************************************)
LeaseAck_FromNow(n, l, m) ==
    IF ~LeaseReads \/ m.sequence < l.leaseSequence THEN l
    ELSE IF IsQuorum(l.leaseAcks \cup {m.from, n})
         THEN [l EXCEPT !.leaseAge = 0, !.basisAge = 0,
                        !.leaseSequence = l.sequence + 1, !.leaseAcks = {}]
         ELSE [l EXCEPT !.leaseAcks = @ \cup {m.from}]

LeaseAck(n, l, m) ==
    IF ~LeaseReads \/ m.sequence < l.leaseSequence THEN l
    ELSE IF IsQuorum(l.leaseAcks \cup {m.from, n})
         THEN [l EXCEPT !.leaseAge = l.basisAge, !.basisAge = 0,
                        !.leaseSequence = l.sequence + 1, !.leaseAcks = {}]
         ELSE [l EXCEPT !.leaseAcks = @ \cup {m.from}]

(***************************************************************************)
(* acknowledge_read_barriers: a round counts the acknowledgement of what   *)
(* was sent after it was registered, and is answered by a quorum.          *)
(***************************************************************************)
CountsFor_ItsRound(round, m) == round.sequence = m.sequence

CountsFor(round, m) == round.sequence <= m.sequence

WithAck(round, m) ==
    IF CountsFor(round, m) THEN [round EXCEPT !.acks = @ \cup {m.from}] ELSE round

Confirmed(n, round) == IsQuorum(round.acks \cup {n})

(***************************************************************************)
(* handle_append_entries_response of this leadership: contact, lease and   *)
(* barriers, whatever the answer; then progress, a transfer that waited    *)
(* for it, the commit index, and more frames.                              *)
(***************************************************************************)
HandleAppendEntriesResponse(n, m) ==
    LET t       == currentTerm[n]
        l       == LeaseAck(n, leader[n], m)
        rounds  == [i \in DOMAIN l.pending |-> WithAck(l.pending[i], m)]
        granted == UNION {rounds[i].reads : i \in {j \in DOMAIN rounds : Confirmed(n, rounds[j])}}
        matched == IF m.match = t THEN l.matched \cup {m.from} ELSE l.matched
        ready   == l.target = m.from /\ ~l.sent /\ m.from \in matched
        index   == IF IsQuorum(matched \cup {n}) THEN t ELSE commit[n]
    IN  /\ m.type = "AppendEntriesResponse"
        /\ m.to = n
        /\ role[n] = "Leader"
        /\ m.term = t
        /\ leader' = [leader EXCEPT ![n] =
                          [l EXCEPT !.contacts = IF Foundation THEN @ \cup {m.from} ELSE @,
                                    !.pending = SelectSeq(rounds, LAMBDA x : ~Confirmed(n, x)),
                                    !.matched = matched,
                                    !.sent = @ \/ ready,
                                    !.authorized = @ \/ ready]]
        /\ outcome' = [r \in Read |-> IF r \in granted THEN "Granted" ELSE outcome[r]]
        /\ commit' = [commit EXCEPT ![n] = index]
        /\ msgs' = msgs \cup {Frame(n, t, l.sequence, index)}
                        \cup (IF ready THEN {TimeoutNow(n, m.from)} ELSE {})
        /\ UNCHANGED <<currentTerm, votedFor, log, role, hint, elapsed, since, termLog,
                       readIndex, due>>

----------------------------------------------------------------------------
(* Requests.                                                               *)

(***************************************************************************)
(* transfer_leadership.                                                    *)
(***************************************************************************)
TransferLeadership(n, target) ==
    LET ready == target \in leader[n].matched
    IN  /\ role[n] = "Leader"
        /\ target # n
        /\ leader[n].target = Nil
        /\ Drain(n)
        /\ leader' = [leader EXCEPT ![n] = [@ EXCEPT !.target = target, !.sent = ready,
                                                     !.authorized = @ \/ ready,
                                                     !.pending = <<>>]]
        /\ msgs' = msgs \cup {IF ready
                              THEN TimeoutNow(n, target)
                              ELSE Frame(n, currentTerm[n], leader[n].sequence, commit[n])}
        /\ UNCHANGED <<durableVars, role, hint, elapsed, since, termLog>>

(***************************************************************************)
(* handle_timeout_now: become_follower, then start_election.               *)
(***************************************************************************)
HandleTimeoutNow(n, m) ==
    /\ m.type = "TimeoutNow"
    /\ m.to = n
    /\ m.term >= currentTerm[n]
    /\ Drain(n)
    /\ leader' = [leader EXCEPT ![n] = NotLeading]
    /\ StartElection(n, m.term)
    /\ UNCHANGED since

(***************************************************************************)
(* has_committed_in_current_term and lease_grant_available.                *)
(***************************************************************************)
CommittedInTerm_Any(n) == TRUE

CommittedInTerm(n) == commit[n] = currentTerm[n]

LeaseHolds_Unwaived(n) == LeaseReads /\ leader[n].leaseAge < Window

LeaseHolds(n) == LeaseReads /\ leader[n].leaseAge < Window /\ ~leader[n].authorized

(***************************************************************************)
(* What some leader has committed, the floor for reads from now on.        *)
(***************************************************************************)
CommittedFloor == Newest({commit[m] : m \in Node})

(***************************************************************************)
(* read_index_batch.  A leader in a transfer or without a commit in its    *)
(* term refuses; a lease answers at once; otherwise the barriers that fit  *)
(* wait for the next round, which is broadcast now.                        *)
(***************************************************************************)
RefuseReads(n, reads) ==
    /\ \/ role[n] # "Leader"
       \/ leader[n].target # Nil
       \/ ~CommittedInTerm(n)
       \/ ~LeaseHolds(n) /\ Cardinality(PendingReads(n)) >= MaxPending
    /\ outcome' = [r \in Read |-> IF r \in reads THEN "Rejected" ELSE outcome[r]]
    /\ UNCHANGED <<durableVars, role, hint, elapsed, leader, since, msgs, termLog, readIndex, due>>

AnswerByLease(n, reads) ==
    /\ role[n] = "Leader" /\ leader[n].target = Nil /\ CommittedInTerm(n) /\ LeaseHolds(n)
    /\ outcome' = [r \in Read |-> IF r \in reads THEN "Granted" ELSE outcome[r]]
    /\ readIndex' = [r \in Read |-> IF r \in reads THEN commit[n] ELSE readIndex[r]]
    /\ due' = [r \in Read |-> IF r \in reads THEN CommittedFloor ELSE due[r]]
    /\ UNCHANGED <<durableVars, role, hint, elapsed, leader, since, msgs, termLog>>

RegisterReads(n, reads, kept) ==
    LET l     == leader[n]
        round == [reads |-> kept, sequence |-> l.sequence + 1, acks |-> {}]
    IN  /\ role[n] = "Leader" /\ l.target = Nil /\ CommittedInTerm(n) /\ ~LeaseHolds(n)
        /\ Cardinality(PendingReads(n)) < MaxPending
        /\ kept \subseteq reads
        /\ Cardinality(kept) = Lesser(Cardinality(reads),
                                      MaxPending - Cardinality(PendingReads(n)))
        /\ l.sequence < MaxRound
        /\ outcome' = [r \in Read |-> IF r \in kept THEN "Pending"
                                      ELSE IF r \in reads THEN "Rejected" ELSE outcome[r]]
        /\ readIndex' = [r \in Read |-> IF r \in kept THEN commit[n] ELSE readIndex[r]]
        /\ due' = [r \in Read |-> IF r \in kept THEN CommittedFloor ELSE due[r]]
        /\ leader' = [leader EXCEPT ![n] = [@ EXCEPT !.pending = Append(@, round),
                                                     !.sequence = @ + 1]]
        /\ msgs' = msgs \cup {Frame(n, currentTerm[n], l.sequence + 1, commit[n])}
        /\ UNCHANGED <<durableVars, role, hint, elapsed, since, termLog>>

(***************************************************************************)
(* The process stops and starts again; its clients' calls fail.            *)
(***************************************************************************)
Restart(n) ==
    /\ Drain(n)
    /\ role' = [role EXCEPT ![n] = "Follower"]
    /\ hint' = [hint EXCEPT ![n] = Nil]
    /\ elapsed' = [elapsed EXCEPT ![n] = 0]
    /\ leader' = [leader EXCEPT ![n] = NotLeading]
    /\ UNCHANGED <<durableVars, since, msgs, termLog>>

Unasked == {r \in Read : outcome[r] = "Unasked"}

Next ==
    \/ \E n \in Node : \/ TickLapse(n)
                       \/ TickTimeout(n)
                       \/ \E contact, abandoned \in BOOLEAN : TickLeader(n, contact, abandoned)
                       \/ TickStepDown(n)
                       \/ WinPreVote(n)
                       \/ BecomeLeader(n)
    \/ \E n \in Restarting : Restart(n)
    \/ \E n, m \in Node : LearnTerm(n, m)
    \/ \E n \in Node, target \in TransferTargets : TransferLeadership(n, target)
    \/ \E n \in Node, m \in msgs : \/ HandlePreVote(n, m)
                                   \/ HandleRequestVote(n, m)
                                   \/ HandleAppendEntriesResponse(n, m)
                                   \/ HandleTimeoutNow(n, m)
    \/ \E n \in Node, f \in msgs, match \in 0 .. MaxTerm : HandleAppendEntries(n, f, match)
    \/ \E n \in Node, reads \in SUBSET Unasked \ {{}} :
          \/ RefuseReads(n, reads)
          \/ AnswerByLease(n, reads)
          \/ \E kept \in SUBSET reads : RegisterReads(n, reads, kept)

Spec == Init /\ [][Next]_vars

----------------------------------------------------------------------------
(* Properties.                                                             *)

(***************************************************************************)
(* The type invariant.                                                     *)
(***************************************************************************)
Position == 0 .. MaxTerm

Round == [reads : SUBSET Read, sequence : 1 .. MaxRound, acks : SUBSET Node]

LeaderType(l) ==
    /\ l.sequence \in 0 .. MaxRound
    /\ l.matched \subseteq Node /\ l.contacts \subseteq Node /\ l.leaseAcks \subseteq Node
    /\ \A i \in DOMAIN l.pending : l.pending[i] \in Round
    /\ l.target \in Node \cup {Nil} /\ l.sent \in BOOLEAN /\ l.authorized \in BOOLEAN
    /\ l.quorumElapsed \in 0 .. Timeout
    /\ l.basisAge \in 0 .. Window /\ l.leaseAge \in 0 .. Window
    /\ l.leaseSequence \in 0 .. MaxRound + 1

TypeOK ==
    /\ currentTerm \in [Node -> Term]
    /\ votedFor \in [Node -> Node \cup {Nil}]
    /\ \A n \in Node : log[n] \subseteq Term
    /\ commit \in [Node -> Position]
    /\ role \in [Node -> {"Follower", "PreCandidate", "Candidate", "Leader"}]
    /\ hint \in [Node -> Node \cup {Nil}]
    /\ elapsed \in [Node -> 0 .. Timeout]
    /\ \A n \in Node : LeaderType(leader[n])
    /\ since \in [Node -> [Node -> 0 .. Cadence]]
    /\ \A m \in msgs : m.term \in Term
    /\ \A t \in Term : termLog[t] \subseteq Term
    /\ outcome \in [Read -> {"Unasked", "Pending", "Granted", "Rejected", "Canceled"}]
    /\ readIndex \in [Read -> Position] /\ due \in [Read -> Position]

(***************************************************************************)
(* A granted read is linearizable: its index covers everything that any    *)
(* leader had committed when read_index_batch registered it (RD-03 of      *)
(* docs/raft-invariants.md).                                               *)
(***************************************************************************)
ReadsAreCurrent == \A r \in Read : outcome[r] = "Granted" => readIndex[r] >= due[r]

(***************************************************************************)
(* No read is forgotten or answered twice: it is without an answer exactly *)
(* while a round of a leader is waiting to give it one, through every way  *)
(* of losing leadership (drain_pending_reads).                             *)
(***************************************************************************)
NoReadForgotten ==
    \A r \in Read : outcome[r] = "Pending" <=> \E n \in Node : r \in PendingReads(n)

(***************************************************************************)
(* Barriers are answered in the order in which they were registered,       *)
(* however the acknowledgements of their rounds arrive: no round leaves    *)
(* the queue while an earlier one waits (acknowledge_read_barriers).       *)
(***************************************************************************)
Waiting(n) == {leader[n].pending[i].sequence : i \in DOMAIN leader[n].pending}

EarlierRoundsFirst ==
    [][\A n \in Node : \A earlier, later \in Waiting(n) :
          earlier < later /\ earlier \in Waiting(n)' => later \in Waiting(n)']_vars

(***************************************************************************)
(* While a lease holds, a majority would refuse a poll that asks them to   *)
(* depose the leader, or it has been deposed already: renewals count only  *)
(* acknowledgements of rounds after the checkpoint, and their age is that  *)
(* of the checkpoint (acknowledge_read_lease, tick_read_lease).            *)
(***************************************************************************)
LeaseMeansRefusal ==
    \A n \in Node : role[n] = "Leader" /\ LeaseHolds(n) =>
        IsQuorum({v \in Node : v = n \/ currentTerm[v] > currentTerm[n] \/ BelievesInLeader(v)})

(***************************************************************************)
(* A leader that grants from its lease has authorised nobody to depose it: *)
(* no TimeoutNow of its term is under way, not even one of a transfer that *)
(* it has abandoned since (lease_grant_available).                         *)
(***************************************************************************)
LeaseMeansNoWaiver ==
    \A n \in Node : role[n] = "Leader" /\ leader[n].target = Nil /\ LeaseHolds(n) =>
        \A m \in msgs : m.type = "TimeoutNow" => m.term # currentTerm[n]

=============================================================================
