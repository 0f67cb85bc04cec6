---------------------------- MODULE Replication ----------------------------
(***************************************************************************)
(* Logs and commitment in the rafter kernel (crates/rafter/src/node) for a *)
(* fixed voter set: campaigns and votes, the entries a leader appends, how *)
(* a follower splices them into its log, acknowledgement, the commit rule, *)
(* and restarts.                                                           *)
(*                                                                         *)
(* An action is one call of `Node::step` with the persistence the runtime  *)
(* gives it before its messages leave.  Commit indexes survive a restart,  *)
(* because they are part of the hard state.                                *)
(*                                                                         *)
(* The network may lose, delay, reorder and duplicate every message.  Vote *)
(* requests and granted votes are sets that only grow.                     *)
(* AppendEntries is remembered by what it is made from: every frame of a   *)
(* leader is a segment of its log, which only grows while it leads, so     *)
(* termLog[n][t], the log of n as leader of term t, and termCommit[n][t],  *)
(* its commit index, determine all the frames that may be in flight.       *)
(* Which of them the leader sends, and when, is the subject of Flow; here  *)
(* it may be any of them at any time.  So a node that has acknowledged the *)
(* log of a leader up to an index may have acknowledged every smaller      *)
(* index too, and acked[n][t][m], the largest that m has acknowledged to n *)
(* as leader of t, stands for all the acknowledgements in flight.          *)
(*                                                                         *)
(* A response that only tells a node of a later term is the action         *)
(* LearnTerm.  Pre-vote rounds, timers and transfers decide when a node    *)
(* campaigns, and are the subject of Election; here it may do so at any    *)
(* time.                                                                   *)
(***************************************************************************)
EXTENDS Integers, Sequences, FiniteSets

CONSTANTS Node,          \* the voters
          Value,         \* client payloads
          Noop,          \* the payload of a leader's first entry
          Nil,           \* no node
          MaxTerm,       \* the largest term (u64::MAX in the code)
          MaxIndex,      \* bound: clients stop when a log is this long
          Campaigning,   \* nodes that may campaign
          Incumbent      \* the leader of term 1, or Nil to begin without one

ASSUME ReplicationAssumption == /\ IsFiniteSet(Node)
                                /\ Nil \notin Node
                                /\ MaxTerm \in Nat \ {0}
                                /\ MaxIndex \in Nat
                                /\ Campaigning \subseteq Node
                                /\ Incumbent \in Node \cup {Nil}

VARIABLES currentTerm,   \* persistent.current_term
          votedFor,      \* persistent.voted_for
          log,           \* persistent.log
          role,          \* volatile.role
          commitIndex,   \* volatile.commit_index
          matchIndex,    \* leader.progress[_].match_index
          requests,      \* RequestVote messages sent
          ballots,       \* RequestVoteResponse messages that grant a vote
          termLog,       \* what AppendEntries messages are cut from
          termCommit,    \* the commit index they carry
          acked          \* what AppendEntriesResponse messages accept

durableVars == <<currentTerm, votedFor, log, commitIndex>>

vars == <<currentTerm, votedFor, log, role, commitIndex, matchIndex,
          requests, ballots, termLog, termCommit, acked>>

Term == 1 .. MaxTerm

Entry(t, v) == [term |-> t, value |-> v]

EntryType == [term : Term, value : Value \cup {Noop}]

Lesser(a, b) == IF a < b THEN a ELSE b

Greater(a, b) == IF a < b THEN b ELSE a

(***************************************************************************)
(* MembershipIndex::has_quorum for a stable configuration.                 *)
(***************************************************************************)
IsQuorum(S) == 2 * Cardinality(S) > Cardinality(Node)

(***************************************************************************)
(* term_at(i), and term_at(i) == Some(t).                                  *)
(***************************************************************************)
TermAt(l, i) == IF i \in 1 .. Len(l) THEN l[i].term ELSE 0

HasTermAt_IndexOnly(l, i, t) == i <= Len(l)

HasTermAt(l, i, t) ==
    \/ i = 0 /\ t = 0
    \/ i \in 1 .. Len(l) /\ l[i].term = t

UpToDate_Unchecked(lastTerm, lastIndex, l) == TRUE

UpToDate(lastTerm, lastIndex, l) ==
    \/ lastTerm > TermAt(l, Len(l))
    \/ lastTerm = TermAt(l, Len(l)) /\ lastIndex >= Len(l)

(***************************************************************************)
(* A new cluster or, with an incumbent, one where it has just won term 1   *)
(* with everyone's vote.                                                   *)
(***************************************************************************)
Init ==
    /\ currentTerm = [n \in Node |-> IF Incumbent = Nil THEN 0 ELSE 1]
    /\ votedFor = [n \in Node |-> Incumbent]
    /\ log = [n \in Node |-> IF n = Incumbent THEN <<Entry(1, Noop)>> ELSE <<>>]
    /\ role = [n \in Node |-> IF n = Incumbent THEN "Leader" ELSE "Follower"]
    /\ commitIndex = [n \in Node |-> 0]
    /\ matchIndex = [n \in Node |-> [m \in Node |-> IF n = m THEN Len(log[n]) ELSE 0]]
    /\ requests = {}
    /\ ballots = {}
    /\ termLog = [n \in Node |-> [t \in Term |-> IF t = 1 THEN log[n] ELSE <<>>]]
    /\ termCommit = [n \in Node |-> [t \in Term |-> 0]]
    /\ acked = [n \in Node |-> [t \in Term |-> [m \in Node |-> 0]]]

(***************************************************************************)
(* The part of become_follower(t) that concerns this module; the leader    *)
(* state is dropped.                                                       *)
(***************************************************************************)
BecomeFollower(n, t) ==
    /\ currentTerm' = [currentTerm EXCEPT ![n] = t]
    /\ role' = [role EXCEPT ![n] = "Follower"]
    /\ matchIndex' = [matchIndex EXCEPT ![n] = [m \in Node |-> 0]]

(***************************************************************************)
(* Term::checked_next: there is a term after t.                            *)
(***************************************************************************)
HasNextTerm(t) == t < MaxTerm

(***************************************************************************)
(* start_election: the candidate's own vote is a ballot like the others.   *)
(***************************************************************************)
StartElection(n) ==
    LET t == currentTerm[n] + 1
    IN  /\ n \in Campaigning
        /\ role[n] # "Leader"
        /\ HasNextTerm(currentTerm[n])
        /\ currentTerm' = [currentTerm EXCEPT ![n] = t]
        /\ votedFor' = [votedFor EXCEPT ![n] = n]
        /\ role' = [role EXCEPT ![n] = "Candidate"]
        /\ requests' = requests \cup {[term |-> t, from |-> n, lastIndex |-> Len(log[n]),
                                       lastTerm |-> TermAt(log[n], Len(log[n]))]}
        /\ ballots' = ballots \cup {[term |-> t, from |-> n, to |-> n]}
        /\ UNCHANGED <<log, commitIndex, matchIndex, termLog, termCommit, acked>>

(***************************************************************************)
(* The conditions on which a vote is granted in m.term, `vote` being the   *)
(* one already given in that term.                                         *)
(***************************************************************************)
MayVote(n, m, vote) ==
    /\ m.term >= currentTerm[n]
    /\ UpToDate(m.lastTerm, m.lastIndex, log[n])
    /\ vote \in {Nil, m.from}

(***************************************************************************)
(* Learning of a later term and granting a vote in it is one step.         *)
(***************************************************************************)
HandleRequestVote(n, m) ==
    LET vote    == IF m.term > currentTerm[n] THEN Nil ELSE votedFor[n]
        granted == MayVote(n, m, vote)
    IN  /\ m.from # n
        /\ m.term > currentTerm[n] \/ granted
        /\ IF m.term > currentTerm[n]
           THEN BecomeFollower(n, m.term)
           ELSE UNCHANGED <<currentTerm, role, matchIndex>>
        /\ votedFor' = [votedFor EXCEPT ![n] = IF granted THEN m.from ELSE vote]
        /\ ballots' = IF granted
                      THEN ballots \cup {[term |-> m.term, from |-> n, to |-> m.from]}
                      ELSE ballots
        /\ UNCHANGED <<log, commitIndex, requests, termLog, termCommit, acked>>

(***************************************************************************)
(* quorum_index: the largest index that a majority is known to hold.       *)
(***************************************************************************)
QuorumIndex(match) ==
    CHOOSE i \in {match[m] : m \in Node} :
        /\ IsQuorum({m \in Node : match[m] >= i})
        /\ \A j \in {match[m] : m \in Node} :
              IsQuorum({m \in Node : match[m] >= j}) => j <= i

(***************************************************************************)
(* advance_commit_index: entries of earlier terms are never committed by   *)
(* counting.                                                               *)
(***************************************************************************)
AdvancedCommit_AnyTerm(n, l, match) == Greater(commitIndex[n], QuorumIndex(match))

AdvancedCommit(n, l, match) ==
    LET i == QuorumIndex(match)
    IN  IF i > commitIndex[n] /\ HasTermAt(l, i, currentTerm[n]) THEN i ELSE commitIndex[n]

(***************************************************************************)
(* The leader appends an entry, counts its own copy, and may commit it (a  *)
(* sole voter does): append_log_entry, record_local_progress,              *)
(* advance_commit_index.  The frames it sends from now on carry the new    *)
(* log and commit index.                                                   *)
(***************************************************************************)
AppendAsLeader(n, v, match) ==
    LET l      == Append(log[n], Entry(currentTerm[n], v))
        known  == [match EXCEPT ![n] = Len(l)]
        commit == AdvancedCommit(n, l, known)
    IN  /\ log' = [log EXCEPT ![n] = l]
        /\ matchIndex' = [matchIndex EXCEPT ![n] = known]
        /\ commitIndex' = [commitIndex EXCEPT ![n] = commit]
        /\ termLog' = [termLog EXCEPT ![n][currentTerm[n]] = l]
        /\ termCommit' = [termCommit EXCEPT ![n][currentTerm[n]] = commit]

(***************************************************************************)
(* handle_request_vote_response for the response that completes a quorum;  *)
(* counting the ones before it changes nothing else.                       *)
(***************************************************************************)
BecomeLeader(n) ==
    /\ role[n] = "Candidate"
    /\ IsQuorum({v \in Node : [term |-> currentTerm[n], from |-> v, to |-> n] \in ballots})
    /\ role' = [role EXCEPT ![n] = "Leader"]
    /\ AppendAsLeader(n, Noop, [m \in Node |-> 0])
    /\ UNCHANGED <<currentTerm, votedFor, requests, ballots, acked>>

ClientProposal(n, v) ==
    /\ role[n] = "Leader"
    /\ Len(log[n]) < MaxIndex
    /\ AppendAsLeader(n, v, matchIndex[n])
    /\ UNCHANGED <<currentTerm, votedFor, role, requests, ballots, acked>>

(***************************************************************************)
(* splice_entries_after: entries the log already has are skipped; the      *)
(* first one that differs replaces the suffix, unless it is committed.     *)
(***************************************************************************)
Divergences(l, prev, entries) ==
    {k \in 1 .. Len(entries) : ~HasTermAt(l, prev + k, entries[k].term)}

FirstDivergence(l, prev, entries) ==
    CHOOSE k \in Divergences(l, prev, entries) :
        \A j \in Divergences(l, prev, entries) : k <= j

CommittedConflict(l, prev, entries, commit) ==
    /\ Divergences(l, prev, entries) # {}
    /\ LET i == prev + FirstDivergence(l, prev, entries)
       IN  i <= Len(l) /\ i <= commit

Spliced(l, prev, entries) ==
    IF Divergences(l, prev, entries) = {}
    THEN l
    ELSE LET k == FirstDivergence(l, prev, entries)
         IN  SubSeq(l, 1, prev + k - 1) \o SubSeq(entries, k, Len(entries))

(***************************************************************************)
(* The commit index after an accepted frame: confirmed_commit_index never  *)
(* goes beyond the entries the frame confirms.                             *)
(***************************************************************************)
ConfirmedCommit_Follows(old, c, match) == Lesser(c, match)

ConfirmedCommit(old, c, match) == Greater(old, Lesser(c, match))

(***************************************************************************)
(* Whether a frame that fits tells n anything: an entry, that an entry is  *)
(* committed, or what the leader, if it still leads, has not heard of.     *)
(***************************************************************************)
Tells(n, src, t, prev, entries, c) ==
    \/ Divergences(log[n], prev, entries) # {}
    \/ ConfirmedCommit(commitIndex[n], c, prev + Len(entries)) # commitIndex[n]
    \/ /\ role[src] = "Leader" /\ currentTerm[src] = t
       /\ prev + Len(entries) > acked[src][t][n]

(***************************************************************************)
(* handle_append_entries for the frame of `src` as leader of term t that   *)
(* has `len` entries after index prev and carries commit index c.  The     *)
(* stale frame changes nothing (LearnTerm is its reply).                   *)
(***************************************************************************)
HandleAppendEntries(n, src, t, prev, len, c) ==
    LET entries == SubSeq(termLog[src][t], prev + 1, prev + len)
        match   == prev + len
        fits    == /\ HasTermAt(log[n], prev, TermAt(termLog[src][t], prev))
                   /\ ~CommittedConflict(log[n], prev, entries, commitIndex[n])
    IN  /\ t >= currentTerm[n]
        /\ \/ t > currentTerm[n]
           \/ role[n] # "Follower"
           \/ fits /\ Tells(n, src, t, prev, entries, c)
        /\ BecomeFollower(n, t)
        /\ votedFor' = [votedFor EXCEPT ![n] = IF t > currentTerm[n] THEN Nil ELSE @]
        /\ IF fits
           THEN /\ log' = [log EXCEPT ![n] = Spliced(@, prev, entries)]
                /\ commitIndex' = [commitIndex EXCEPT ![n] = ConfirmedCommit(@, c, match)]
                /\ acked' = [acked EXCEPT ![src][t][n] = Greater(@, match)]
           ELSE UNCHANGED <<log, commitIndex, acked>>
        /\ UNCHANGED <<requests, ballots, termLog, termCommit>>

(***************************************************************************)
(* handle_append_entries_response, accept_append_response: m has accepted  *)
(* the log up to `match`, in this leadership.                              *)
(***************************************************************************)
HandleAppendEntriesResponse(n, m, match) ==
    LET acknowledged == Greater(matchIndex[n][m], Lesser(match, Len(log[n])))
        known        == [matchIndex[n] EXCEPT ![m] = acknowledged]
        commit       == IF acknowledged > matchIndex[n][m] /\ acknowledged > commitIndex[n]
                        THEN AdvancedCommit(n, log[n], known)
                        ELSE commitIndex[n]
    IN  /\ role[n] = "Leader"
        /\ match <= acked[n][currentTerm[n]][m]
        /\ matchIndex' = [matchIndex EXCEPT ![n] = known]
        /\ commitIndex' = [commitIndex EXCEPT ![n] = commit]
        /\ termCommit' = [termCommit EXCEPT ![n][currentTerm[n]] = commit]
        /\ UNCHANGED <<currentTerm, votedFor, log, role, requests, ballots, termLog, acked>>

(***************************************************************************)
(* A response, however old, of a node that was in the later term t.        *)
(***************************************************************************)
LearnTerm(n, m, t) ==
    /\ currentTerm[n] < t
    /\ t <= currentTerm[m]
    /\ BecomeFollower(n, t)
    /\ votedFor' = [votedFor EXCEPT ![n] = Nil]
    /\ UNCHANGED <<log, commitIndex, requests, ballots, termLog, termCommit, acked>>

(***************************************************************************)
(* The process stops and starts again from its durable state, or a leader  *)
(* fails its quorum check (tick_check_quorum).                             *)
(***************************************************************************)
Restart(n) ==
    /\ role[n] # "Follower"
    /\ BecomeFollower(n, currentTerm[n])
    /\ UNCHANGED <<votedFor, log, commitIndex, requests, ballots, termLog, termCommit, acked>>

\* The leader_commit values worth telling apart: those n has reached act as 0.
NewsOfCommit(n, src, t) == {0} \cup (commitIndex[n] + 1 .. termCommit[src][t])

Step(n) ==
    \/ StartElection(n) \/ BecomeLeader(n) \/ Restart(n)
    \/ \E v \in Value : ClientProposal(n, v)
    \/ \E m \in requests : HandleRequestVote(n, m)
    \/ \E src \in Node \ {n} :
         \E t \in {t \in Term : t >= currentTerm[n] /\ termLog[src][t] # <<>>} :
           \E prev \in 0 .. Len(termLog[src][t]) :
             \E len \in 0 .. Len(termLog[src][t]) - prev, c \in NewsOfCommit(n, src, t) :
               HandleAppendEntries(n, src, t, prev, len, c)
    \/ \E m \in Node, match \in 1 .. Len(log[n]) : HandleAppendEntriesResponse(n, m, match)
    \/ \E m \in Node, t \in Term : LearnTerm(n, m, t)

Next == \E n \in Node : Step(n)

Spec == Init /\ [][Next]_vars

----------------------------------------------------------------------------
(* Properties.                                                             *)

(***************************************************************************)
(* The type invariant.                                                     *)
(***************************************************************************)
TypeOK ==
    /\ currentTerm \in [Node -> 0 .. MaxTerm]
    /\ votedFor \in [Node -> Node \cup {Nil}]
    /\ log \in [Node -> Seq(EntryType)]
    /\ role \in [Node -> {"Follower", "Candidate", "Leader"}]
    /\ commitIndex \in [Node -> Nat]
    /\ matchIndex \in [Node -> [Node -> Nat]]
    /\ requests \subseteq [term : Term, from : Node, lastIndex : Nat, lastTerm : Nat]
    /\ ballots \subseteq [term : Term, from : Node, to : Node]
    /\ termLog \in [Node -> [Term -> Seq(EntryType)]]
    /\ termCommit \in [Node -> [Term -> Nat]]
    /\ acked \in [Node -> [Term -> [Node -> Nat]]]

(***************************************************************************)
(* If two logs have an entry of the same term at an index, they agree on   *)
(* everything up to it (the consistency check on prev_log_term and the     *)
(* truncation in splice_entries_after).                                    *)
(***************************************************************************)
LogMatching ==
    \A a, b \in Node :
        \A i \in 1 .. Lesser(Len(log[a]), Len(log[b])) :
            log[a][i].term = log[b][i].term => \A j \in 1 .. i : log[a][j] = log[b][j]

(***************************************************************************)
(* No node that lacks a committed entry could win an election from here:   *)
(* the nodes whose logs are not ahead of its own are too few.  This is     *)
(* what forbids committing an entry of an earlier term by counting its     *)
(* copies (advance_commit_index).                                          *)
(***************************************************************************)
CommittedBlocksElection ==
    \A n, c \in Node :
        \A i \in 1 .. commitIndex[n] :
            ~HasTermAt(log[c], i, log[n][i].term) =>
                ~IsQuorum({v \in Node :
                             UpToDate(TermAt(log[c], Len(log[c])), Len(log[c]), log[v])})

(***************************************************************************)
(* The copies a leader counts exist: a follower that is still in the       *)
(* leader's term holds the leader's log up to its match index, whatever    *)
(* acknowledgements were delayed or repeated (accept_append_response).     *)
(***************************************************************************)
MatchedEntriesAreHeld ==
    \A n, m \in Node :
        role[n] = "Leader" /\ currentTerm[m] = currentTerm[n] =>
            /\ matchIndex[n][m] <= Len(log[m])
            /\ \A i \in 1 .. matchIndex[n][m] : log[m][i] = log[n][i]

(***************************************************************************)
(* A frame that a node would accept never asks it to replace a committed   *)
(* entry: the CommittedEntryConflict rejection of splice_entries_after is  *)
(* unreachable.                                                            *)
(***************************************************************************)
NoCommittedConflict ==
    \A n, src \in Node, t \in Term :
        src # n /\ t >= currentTerm[n] =>
            \A prev \in 0 .. Len(termLog[src][t]) :
                HasTermAt(log[n], prev, TermAt(termLog[src][t], prev)) =>
                    ~CommittedConflict(log[n], prev,
                                       SubSeq(termLog[src][t], prev + 1, Len(termLog[src][t])),
                                       commitIndex[n])

(***************************************************************************)
(* The cluster implements CommittedLog: all nodes emit the same committed  *)
(* entries in the same order, and no crash, new leader or late message     *)
(* ever takes one back (advance_commit_index, splice_entries_after,        *)
(* emit_committed_outputs).                                                *)
(***************************************************************************)
Delivered(n) == SubSeq(log[n], 1, Lesser(commitIndex[n], Len(log[n])))

LongestDelivered ==
    LET n == CHOOSE m \in Node : \A o \in Node : commitIndex[o] <= commitIndex[m]
    IN  Delivered(n)

Committed == INSTANCE CommittedLog
               WITH chosen  <- LongestDelivered,
                    applied <- [n \in Node |-> Delivered(n)]

CommittedLogSpec == Committed!LogSpec

=============================================================================
