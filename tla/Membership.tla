---------------------------- MODULE Membership ----------------------------
(***************************************************************************)
(* Membership changes in the rafter kernel (crates/rafter/src/node): the   *)
(* configuration entries that a leader appends (membership/change.rs and   *)
(* validate.rs), joint quorums for votes and commitment, learners and      *)
(* their promotion, the leader that removes itself, the defence against    *)
(* overlapping changes, and a crash that keeps the entries of a frame and  *)
(* loses the commit index that came with it.                               *)
(*                                                                         *)
(* A configuration takes effect when it is appended and is undone when it  *)
(* is truncated, so a node's effective membership is a function of its     *)
(* log.  Logs hold only configuration entries and leaders' no-ops: client  *)
(* entries are the subject of Replication.  So are the network and the     *)
(* atomicity of a step, which are treated alike here, with one difference: *)
(* a frame carries entries and a commit index that its leader had at the   *)
(* same time (sent), because the defence compares the two.                 *)
(***************************************************************************)
EXTENDS Integers, Sequences, FiniteSets

CONSTANTS Node,          \* all the nodes there may be
          Nil,           \* no node
          None,          \* the configuration of an entry that has none
          Incumbent,     \* the leader of term 1
          Bootstraps,    \* the static memberships to start from
          Targets,       \* memberships asked for by EnterJoint, ChangeMembership
          MaxTerm,       \* bound: the last term
          MaxIndex,      \* bound: no change is asked for when a log is this long
          Campaigning,   \* nodes that may campaign after term 1
          Crashing       \* nodes that may crash while a frame is persisted

MembershipSet == [voters : SUBSET Node \ {{}}, learners : SUBSET Node]

ASSUME MembershipAssumption ==
    /\ IsFiniteSet(Node)
    /\ Nil \notin Node
    /\ Bootstraps \subseteq MembershipSet /\ Targets \subseteq MembershipSet
    /\ \A m \in Bootstraps \cup Targets : m.voters \cap m.learners = {}
    /\ \A m \in Bootstraps : Incumbent \in m.voters /\ Cardinality(m.voters) > 1
    /\ MaxTerm \in Nat \ {0} /\ MaxIndex \in Nat
    /\ Campaigning \subseteq Node /\ Crashing \subseteq Node

VARIABLES static,        \* config.static_membership, the same at every node
          currentTerm,   \* persistent.current_term
          votedFor,      \* persistent.voted_for
          log,           \* persistent.log
          role,          \* volatile.role
          commitIndex,   \* volatile.commit_index
          matchIndex,    \* leader.progress[_].match_index
          requests,      \* RequestVote messages sent
          ballots,       \* RequestVoteResponse messages that grant a vote
          termLog,       \* what AppendEntries messages are cut from
          sent,          \* lengths of the log, and commit indexes at that time
          acked          \* what AppendEntriesResponse messages accept

vars == <<static, currentTerm, votedFor, log, role, commitIndex, matchIndex,
          requests, ballots, termLog, sent, acked>>

Term == 1 .. MaxTerm

Lesser(a, b) == IF a < b THEN a ELSE b

Greater(a, b) == IF a < b THEN b ELSE a

----------------------------------------------------------------------------
(* Configurations.                                                         *)

(***************************************************************************)
(* MembershipConfig: a stable membership is joint with itself.             *)
(***************************************************************************)
Members(voters, learners) == [voters |-> voters, learners |-> learners]

Stable(m) == [phase |-> "Stable", old |-> m, new |-> m]

Joint(m1, m2) == [phase |-> "Joint", old |-> m1, new |-> m2]

Voters(config) == config.old.voters \cup config.new.voters

Learners(config) == config.old.learners \cup config.new.learners

Replicas(config) == Voters(config) \cup Learners(config)

(***************************************************************************)
(* MembershipIndex::has_quorum, and the same for what is replicated: a     *)
(* strict majority of the voters of each half.                             *)
(***************************************************************************)
Majority(voters, S) == 2 * Cardinality(voters \cap S) > Cardinality(voters)

HasQuorum_NewHalf(config, S) == Majority(config.new.voters, S)

HasQuorum(config, S) == Majority(config.old.voters, S) /\ Majority(config.new.voters, S)

Entry(t, config) == [term |-> t, config |-> config]

Configurations(l) == {i \in DOMAIN l : l[i].config # None}

(***************************************************************************)
(* effective_membership: the last configuration entry of the log,          *)
(* committed or not, or else the static membership.                        *)
(***************************************************************************)
Effective(l) ==
    LET C == Configurations(l)
    IN  IF C = {} THEN Stable(static)
        ELSE l[CHOOSE i \in C : \A j \in C : j <= i].config

----------------------------------------------------------------------------
(* Terms of logs, as in Replication.                                       *)

TermAt(l, i) == IF i \in 1 .. Len(l) THEN l[i].term ELSE 0

HasTermAt_IndexOnly(l, i, t) == i \in 0 .. Len(l)

HasTermAt(l, i, t) ==
    \/ i = 0 /\ t = 0
    \/ i \in 1 .. Len(l) /\ l[i].term = t

UpToDate(lastTerm, lastIndex, l) ==
    \/ lastTerm > TermAt(l, Len(l))
    \/ lastTerm = TermAt(l, Len(l)) /\ lastIndex >= Len(l)

NoMatch == [m \in Node |-> 0]

(***************************************************************************)
(* The incumbent has won term 1 with everyone's vote, and its first entry  *)
(* is committed at all voters.                                             *)
(***************************************************************************)
Init ==
    /\ static \in Bootstraps
    /\ currentTerm = [n \in Node |-> IF n \in static.voters THEN 1 ELSE 0]
    /\ votedFor = [n \in Node |-> IF n \in static.voters THEN Incumbent ELSE Nil]
    /\ log = [n \in Node |-> IF n \in static.voters THEN <<Entry(1, None)>> ELSE <<>>]
    /\ role = [n \in Node |-> IF n = Incumbent THEN "Leader" ELSE "Follower"]
    /\ commitIndex = [n \in Node |-> IF n \in static.voters THEN 1 ELSE 0]
    /\ matchIndex = [n \in Node |-> IF n = Incumbent THEN commitIndex ELSE NoMatch]
    /\ requests = {}
    /\ ballots = {}
    /\ termLog = [n \in Node |-> [t \in Term |->
                     IF n = Incumbent /\ t = 1 THEN <<Entry(1, None)>> ELSE <<>>]]
    /\ sent = [n \in Node |-> [t \in Term |->
                     IF n = Incumbent /\ t = 1 THEN {<<1, 0>>, <<1, 1>>} ELSE {}]]
    /\ acked = [n \in Node |-> [t \in Term |->
                     IF n = Incumbent /\ t = 1 THEN [commitIndex EXCEPT ![n] = 0] ELSE NoMatch]]

----------------------------------------------------------------------------
(* Leaders.                                                                *)

BecomeFollower(n, t) ==
    /\ currentTerm' = [currentTerm EXCEPT ![n] = t]
    /\ role' = [role EXCEPT ![n] = "Follower"]
    /\ matchIndex' = [matchIndex EXCEPT ![n] = NoMatch]

(***************************************************************************)
(* advance_commit_index: the largest index that the effective              *)
(* configuration's quorum is known to hold, if it is of the leader's term. *)
(* reconcile_membership keeps the progress of replicas only, and a leader  *)
(* that is no voter does not count itself.                                 *)
(***************************************************************************)
Reconciled(l, match) ==
    [m \in Node |-> IF m \in Replicas(Effective(l)) THEN match[m] ELSE 0]

QuorumIndexes(config, l, match) ==
    {i \in DOMAIN l : HasQuorum(config, {m \in Node : match[m] >= i})}

AdvancedCommit(n, t, l, match) ==
    LET held == QuorumIndexes(Effective(l), l, match)
        i    == CHOOSE j \in held : \A k \in held : k <= j
    IN  IF held # {} /\ i > commitIndex[n] /\ l[i].term = t THEN i ELSE commitIndex[n]

(***************************************************************************)
(* emit_committed_outputs, step_down_if_removed: whether one of the newly  *)
(* committed configurations has no vote for the leader.  The rest of them  *)
(* is emitted all the same.                                                *)
(***************************************************************************)
Removed_Never(n, l, commit) == FALSE

Removed(n, l, commit) ==
    \E i \in Configurations(l) :
        commitIndex[n] < i /\ i <= commit /\ n \notin Voters(l[i].config)

(***************************************************************************)
(* What a leader of term t does with a log and the matches it knows of: it *)
(* may commit, then steps down in its own term or sends frames of what it  *)
(* has.                                                                    *)
(***************************************************************************)
LeadWith(n, t, l, match) ==
    LET known  == Reconciled(l, match)
        commit == AdvancedCommit(n, t, l, known)
    IN  /\ log' = [log EXCEPT ![n] = l]
        /\ commitIndex' = [commitIndex EXCEPT ![n] = commit]
        /\ termLog' = [termLog EXCEPT ![n][t] = l]
        /\ IF Removed(n, l, commit)
           THEN /\ role' = [role EXCEPT ![n] = "Follower"]
                /\ matchIndex' = [matchIndex EXCEPT ![n] = NoMatch]
                /\ UNCHANGED sent
           ELSE /\ role' = [role EXCEPT ![n] = "Leader"]
                /\ matchIndex' = [matchIndex EXCEPT ![n] = known]
                /\ sent' = [sent EXCEPT ![n][t] = @ \cup {<<Len(l), commit>>}]

(***************************************************************************)
(* append_log_entry and record_local_progress.                             *)
(***************************************************************************)
AppendAsLeader(n, t, config, match) ==
    LET l == Append(log[n], Entry(t, config))
    IN  LeadWith(n, t, l, [match EXCEPT ![n] = Len(l)])

(***************************************************************************)
(* start_election: only an effective voter campaigns, and a sole voter has *)
(* won at once.                                                            *)
(***************************************************************************)
StartElection(n) ==
    LET t      == currentTerm[n] + 1
        config == Effective(log[n])
    IN  /\ n \in Campaigning
        /\ role[n] # "Leader"
        /\ n \in Voters(config)
        /\ t <= MaxTerm
        /\ currentTerm' = [currentTerm EXCEPT ![n] = t]
        /\ votedFor' = [votedFor EXCEPT ![n] = n]
        /\ IF HasQuorum(config, {n})
           THEN AppendAsLeader(n, t, None, NoMatch) /\ UNCHANGED <<requests, ballots>>
           ELSE /\ role' = [role EXCEPT ![n] = "Candidate"]
                /\ requests' = requests \cup
                       {[term |-> t, from |-> n, to |-> Voters(config) \ {n},
                         lastIndex |-> Len(log[n]), lastTerm |-> TermAt(log[n], Len(log[n]))]}
                /\ ballots' = ballots \cup {[term |-> t, from |-> n, to |-> n]}
                /\ UNCHANGED <<log, commitIndex, matchIndex, termLog, sent>>
        /\ UNCHANGED <<static, acked>>

(***************************************************************************)
(* handle_request_vote: the candidate must be a voter in the membership    *)
(* that the asked node believes in; the asked node need not be one.        *)
(***************************************************************************)
MayVote(n, m, vote) ==
    /\ m.term >= currentTerm[n]
    /\ m.from \in Voters(Effective(log[n]))
    /\ UpToDate(m.lastTerm, m.lastIndex, log[n])
    /\ vote \in {Nil, m.from}

HandleRequestVote(n, m) ==
    LET vote    == IF m.term > currentTerm[n] THEN Nil ELSE votedFor[n]
        granted == MayVote(n, m, vote)
    IN  /\ n \in m.to
        /\ m.term > currentTerm[n] \/ granted
        /\ IF m.term > currentTerm[n]
           THEN BecomeFollower(n, m.term)
           ELSE UNCHANGED <<currentTerm, role, matchIndex>>
        /\ votedFor' = [votedFor EXCEPT ![n] = IF granted THEN m.from ELSE vote]
        /\ ballots' = IF granted
                      THEN ballots \cup {[term |-> m.term, from |-> n, to |-> m.from]}
                      ELSE ballots
        /\ UNCHANGED <<static, log, commitIndex, requests, termLog, sent, acked>>

(***************************************************************************)
(* handle_request_vote_response for the response that completes the        *)
(* quorum.  A candidate's log does not change, so it is still a voter.     *)
(***************************************************************************)
BecomeLeader(n) ==
    /\ role[n] = "Candidate"
    /\ HasQuorum(Effective(log[n]),
                 {v \in Node : [term |-> currentTerm[n], from |-> v, to |-> n] \in ballots})
    /\ AppendAsLeader(n, currentTerm[n], None, NoMatch)
    /\ UNCHANGED <<static, currentTerm, votedFor, requests, ballots, acked>>

----------------------------------------------------------------------------
(* Configuration proposals.                                                *)

(***************************************************************************)
(* validate_configuration_proposal_preflight: the effective configuration  *)
(* must be committed here.                                                 *)
(***************************************************************************)
Serialized_Unchecked(n) == TRUE

Serialized(n) == \A i \in Configurations(log[n]) : i <= commitIndex[n]

MayPropose(n) ==
    /\ role[n] = "Leader"
    /\ Len(log[n]) < MaxIndex
    /\ Serialized(n)

(***************************************************************************)
(* validate_configuration_promotion_barriers: whoever gains a vote is a    *)
(* learner that holds everything committed here.  The barrier that the     *)
(* caller passes must name the commit index of this moment, so it carries  *)
(* no other information.                                                   *)
(***************************************************************************)
Promotable_Lagging(n, config) ==
    Voters(config) \ Voters(Effective(log[n])) \subseteq Learners(Effective(log[n]))

Promotable(n, config) ==
    \A p \in config.new.voters \ Voters(Effective(log[n])) :
        /\ p \in Learners(Effective(log[n]))
        /\ matchIndex[n][p] >= commitIndex[n]

(***************************************************************************)
(* append_valid_configuration_proposal.                                    *)
(***************************************************************************)
Propose(n, config) ==
    /\ MayPropose(n)
    /\ config.phase = "Joint" => Promotable(n, config)
    /\ AppendAsLeader(n, currentTerm[n], config, matchIndex[n])
    /\ UNCHANGED <<static, currentTerm, votedFor, requests, ballots, acked>>

AddLearner(n, x) ==
    LET config == Effective(log[n])
        now    == config.new
    IN  /\ config.phase = "Stable"
        /\ x \notin Replicas(config)
        /\ Propose(n, Stable(Members(now.voters, now.learners \cup {x})))

PromoteLearner(n, x) ==
    LET config == Effective(log[n])
        now    == config.new
    IN  /\ config.phase = "Stable"
        /\ x \in now.learners
        /\ Propose(n, Joint(now, Members(now.voters \cup {x}, now.learners \ {x})))

RemoveVoter(n, x) ==
    LET config == Effective(log[n])
        now    == config.new
    IN  /\ config.phase = "Stable"
        /\ x \in now.voters
        /\ Cardinality(now.voters) > 1
        /\ Propose(n, Joint(now, Members(now.voters \ {x}, now.learners)))

EnterJoint(n, target) ==
    LET config == Effective(log[n])
    IN  /\ config.phase = "Stable"
        /\ target # config.new
        /\ Propose(n, Joint(config.new, target))

LeaveJoint(n) ==
    LET config == Effective(log[n])
    IN  /\ config.phase = "Joint"
        /\ Propose(n, Stable(config.new))

(***************************************************************************)
(* change_membership: without a change of voters no joint configuration is *)
(* needed; from a joint one the only way leads to its new half.            *)
(***************************************************************************)
ChangeMembership(n, target) ==
    LET config == Effective(log[n])
    IN  IF config.phase = "Stable"
        THEN /\ target # config.new
             /\ Propose(n, IF target.voters = config.new.voters
                           THEN Stable(target) ELSE Joint(config.new, target))
        ELSE target = config.new /\ Propose(n, Stable(target))

----------------------------------------------------------------------------
(* Followers.                                                              *)

Divergences(l, prev, entries) ==
    {k \in 1 .. Len(entries) : ~HasTermAt(l, prev + k, entries[k].term)}

FirstDivergence(l, prev, entries) ==
    CHOOSE k \in Divergences(l, prev, entries) :
        \A j \in Divergences(l, prev, entries) : k <= j

(***************************************************************************)
(* splice_entries_after: a frame that diverges from the log may introduce  *)
(* a configuration of the current term only if it is the only one above    *)
(* the commit index that the frame confirms.                               *)
(***************************************************************************)
Overlaps(l, t, prev, entries, floor) ==
    LET k        == FirstDivergence(l, prev, entries)
        kept     == {i \in Configurations(l) : floor < i /\ i < prev + k}
        incoming == {j \in Configurations(entries) : k <= j /\ floor < prev + j}
    IN  /\ Divergences(l, prev, entries) # {}
        /\ \E j \in incoming : entries[j].term = t
        /\ Cardinality(kept) + Cardinality(incoming) > 1

CommittedConflict(l, prev, entries, commit) ==
    /\ Divergences(l, prev, entries) # {}
    /\ LET i == prev + FirstDivergence(l, prev, entries)
       IN  i <= Len(l) /\ i <= commit

Spliced(l, prev, entries) ==
    IF Divergences(l, prev, entries) = {}
    THEN l
    ELSE LET k == FirstDivergence(l, prev, entries)
         IN  SubSeq(l, 1, prev + k - 1) \o SubSeq(entries, k, Len(entries))

ConfirmedCommit(old, c, match) == Greater(old, Lesser(c, match))

(***************************************************************************)
(* The commit indexes that n may have after a frame of src as leader of    *)
(* term t that ends at index `match`: it was sent when the leader's log    *)
(* had at least that length and n was one of its replicas.                 *)
(***************************************************************************)
Confirmations(n, src, t, match) ==
    {ConfirmedCommit(commitIndex[n], s[2], match) :
        s \in {s \in sent[src][t] :
                 /\ match <= s[1]
                 /\ n \in Replicas(Effective(SubSeq(termLog[src][t], 1, s[1]))) \ {src}}}

Entries(src, t, prev, len) == SubSeq(termLog[src][t], prev + 1, prev + len)

(***************************************************************************)
(* Whether such a frame tells n anything: an entry, that an entry is       *)
(* committed, or what the leader, if it still leads, has not heard of.     *)
(***************************************************************************)
Tells(n, src, t, prev, entries, floor) ==
    \/ Divergences(log[n], prev, entries) # {}
    \/ floor > commitIndex[n]
    \/ /\ role[src] = "Leader" /\ currentTerm[src] = t
       /\ prev + Len(entries) > acked[src][t][n]

(***************************************************************************)
(* handle_append_entries.  The runtime writes the entries before the       *)
(* commit index: if the process stops between the two, it starts again     *)
(* with the entries alone and has answered nothing.  Without a new commit  *)
(* index such a crash is only a lost answer.                               *)
(***************************************************************************)
HandleAppendEntries(n, src, t, prev, len, floor, crash) ==
    LET entries == Entries(src, t, prev, len)
        fits    == /\ HasTermAt(log[n], prev, TermAt(termLog[src][t], prev))
                   /\ ~CommittedConflict(log[n], prev, entries, commitIndex[n])
                   /\ ~Overlaps(log[n], t, prev, entries, floor)
    IN  /\ \/ t > currentTerm[n]
           \/ role[n] # "Follower"
           \/ fits /\ Tells(n, src, t, prev, entries, floor)
        /\ crash => fits /\ floor > commitIndex[n]
        /\ BecomeFollower(n, t)
        /\ votedFor' = [votedFor EXCEPT ![n] = IF t > currentTerm[n] THEN Nil ELSE @]
        /\ log' = IF fits THEN [log EXCEPT ![n] = Spliced(@, prev, entries)] ELSE log
        /\ IF fits /\ ~crash
           THEN /\ commitIndex' = [commitIndex EXCEPT ![n] = floor]
                /\ acked' = [acked EXCEPT ![src][t][n] = Greater(@, prev + len)]
           ELSE UNCHANGED <<commitIndex, acked>>
        /\ UNCHANGED <<static, requests, ballots, termLog, sent>>

ReceiveFrame(n) ==
    \E src \in Node : \E t \in {t \in Term : t >= currentTerm[n] /\ sent[src][t] # {}} :
        \E prev \in 0 .. Len(termLog[src][t]) :
            \E len \in 0 .. Len(termLog[src][t]) - prev :
                \E floor \in Confirmations(n, src, t, prev + len),
                   crash \in {FALSE, (n \in Crashing)} :
                    HandleAppendEntries(n, src, t, prev, len, floor, crash)

(***************************************************************************)
(* accept_append_response: a node without a replica's progress is ignored. *)
(***************************************************************************)
HandleAppendEntriesResponse(n, m, match) ==
    LET acknowledged == Greater(matchIndex[n][m], Lesser(match, Len(log[n])))
        known        == [matchIndex[n] EXCEPT ![m] = acknowledged]
    IN  /\ role[n] = "Leader"
        /\ match <= acked[n][currentTerm[n]][m]
        /\ m \in Replicas(Effective(log[n]))
        /\ IF acknowledged > matchIndex[n][m] /\ acknowledged > commitIndex[n]
           THEN LeadWith(n, currentTerm[n], log[n], known)
           ELSE /\ matchIndex' = [matchIndex EXCEPT ![n] = known]
                /\ UNCHANGED <<log, role, commitIndex, termLog, sent>>
        /\ UNCHANGED <<static, currentTerm, votedFor, requests, ballots, acked>>

(***************************************************************************)
(* A response, however old, of a node that was in the later term t.        *)
(***************************************************************************)
LearnTerm(n, m, t) ==
    /\ currentTerm[n] < t
    /\ t <= currentTerm[m]
    /\ BecomeFollower(n, t)
    /\ votedFor' = [votedFor EXCEPT ![n] = Nil]
    /\ UNCHANGED <<static, log, commitIndex, requests, ballots, termLog, sent, acked>>

(***************************************************************************)
(* The process stops and starts again from its durable state, or a leader  *)
(* fails its quorum check (tick_check_quorum).                             *)
(***************************************************************************)
Restart(n) ==
    /\ role[n] # "Follower"
    /\ BecomeFollower(n, currentTerm[n])
    /\ UNCHANGED <<static, votedFor, log, commitIndex, requests, ballots, termLog, sent, acked>>

Next ==
    \/ \E n \in Node : StartElection(n) \/ BecomeLeader(n) \/ Restart(n) \/ LeaveJoint(n)
                     \/ ReceiveFrame(n)
    \/ \E n, x \in Node : AddLearner(n, x) \/ PromoteLearner(n, x) \/ RemoveVoter(n, x)
    \/ \E n \in Node, target \in Targets : EnterJoint(n, target) \/ ChangeMembership(n, target)
    \/ \E n \in Node, m \in requests : HandleRequestVote(n, m)
    \/ \E n, m \in Node : \E match \in 1 .. Len(log[n]) :
         HandleAppendEntriesResponse(n, m, match)
    \/ \E n, m \in Node, t \in Term : LearnTerm(n, m, t)

Spec == Init /\ [][Next]_vars

----------------------------------------------------------------------------
(* Properties.                                                             *)

ConfigType == [phase : {"Stable", "Joint"}, old : MembershipSet, new : MembershipSet]

EntryType == [term : Term, config : ConfigType \cup {None}]

(***************************************************************************)
(* The type invariant.                                                     *)
(***************************************************************************)
TypeOK ==
    /\ static \in Bootstraps
    /\ currentTerm \in [Node -> 0 .. MaxTerm]
    /\ votedFor \in [Node -> Node \cup {Nil}]
    /\ \A n \in Node : \A i \in DOMAIN log[n] : log[n][i] \in EntryType
    /\ role \in [Node -> {"Follower", "Candidate", "Leader"}]
    /\ \A n \in Node : commitIndex[n] \in 0 .. Len(log[n])
    /\ matchIndex \in [Node -> [Node -> Nat]]
    /\ requests \subseteq [term : Term, from : Node, to : SUBSET Node,
                           lastIndex : Nat, lastTerm : Nat]
    /\ ballots \subseteq [term : Term, from : Node, to : Node]
    /\ acked \in [Node -> [Term -> [Node -> Nat]]]

(***************************************************************************)
(* Two nodes could never win elections of the same term from here, each by *)
(* the configuration it believes in: every two quorums of nodes that would *)
(* vote for the one and for the other share a node, which votes once       *)
(* (has_effective_quorum, handle_request_vote).                            *)
(***************************************************************************)
Supporters(c) ==
    {v \in Node : /\ c \in Voters(Effective(log[v]))
                  /\ UpToDate(TermAt(log[c], Len(log[c])), Len(log[c]), log[v])}

OneWinnerPerTerm ==
    \A c, d \in Node :
        c # d =>
            \A S \in SUBSET Supporters(c) :
                HasQuorum(Effective(log[c]), S) =>
                    ~HasQuorum(Effective(log[d]), Supporters(d) \ S)

(***************************************************************************)
(* The cluster implements CommittedLog although its leaders count          *)
(* majorities of different sets of voters, and no entry is taken back when *)
(* one set is replaced by another (quorum_replicated_index,                *)
(* step_down_if_removed).                                                  *)
(***************************************************************************)
Delivered(n) == SubSeq(log[n], 1, Lesser(commitIndex[n], Len(log[n])))

LongestDelivered ==
    LET n == CHOOSE m \in Node : \A o \in Node : commitIndex[o] <= commitIndex[m]
    IN  Delivered(n)

Committed == INSTANCE CommittedLog
               WITH chosen  <- LongestDelivered,
                    applied <- [n \in Node |-> Delivered(n)]

CommittedLogSpec == Committed!LogSpec

(***************************************************************************)
(* A node that lacks a committed entry cannot win an election from here by *)
(* the configuration it believes in, be it one that is long replaced: the  *)
(* nodes that would vote for it are no quorum of it                        *)
(* (handle_request_vote, advance_commit_index).                            *)
(***************************************************************************)
CommittedBlocksElection ==
    \A n, c \in Node :
        \A i \in 1 .. commitIndex[n] :
            ~HasTermAt(log[c], i, log[n][i].term) =>
                ~HasQuorum(Effective(log[c]), Supporters(c))

(***************************************************************************)
(* The configurations of a log follow one another legally, whichever       *)
(* leaders' suffixes it was spliced from: voters change only between the   *)
(* halves of a joint configuration, which is left for its new half.        *)
(***************************************************************************)
ConfigurationsChain ==
    \A n \in Node : \A i \in Configurations(log[n]) :
        LET before == Effective(SubSeq(log[n], 1, i - 1))
            after  == log[n][i].config
        IN  /\ after.old = IF after.phase = "Joint" THEN before.new ELSE after.new
            /\ before.phase = "Joint" => after.phase = "Stable" /\ after.new = before.new
            /\ after.phase = "Stable" => after.new.voters = before.new.voters

(***************************************************************************)
(* The defences of splice_entries_after against a committed entry that is  *)
(* replaced and against overlapping changes never reject a frame of a      *)
(* leader of this term or a later one: a follower that lost a commit index *)
(* in a crash, or never learnt it, still accepts every frame whose         *)
(* previous entry it has.                                                  *)
(***************************************************************************)
FramesAreAccepted ==
    \A n, src \in Node, t \in Term :
        t >= currentTerm[n] =>
            \A prev \in 0 .. Len(termLog[src][t]) :
                HasTermAt(log[n], prev, TermAt(termLog[src][t], prev)) =>
                    \A len \in 0 .. Len(termLog[src][t]) - prev :
                        \A floor \in Confirmations(n, src, t, prev + len) :
                            LET entries == Entries(src, t, prev, len)
                            IN  /\ ~CommittedConflict(log[n], prev, entries, commitIndex[n])
                                /\ ~Overlaps(log[n], t, prev, entries, floor)

(***************************************************************************)
(* A leader without a vote in its effective configuration has not          *)
(* committed it yet: it leads only to see its own removal through          *)
(* (step_down_if_removed).                                                 *)
(***************************************************************************)
RemovedLeaderSteps ==
    \A n \in Node :
        role[n] = "Leader" /\ n \notin Voters(Effective(log[n])) => ~Serialized(n)

(***************************************************************************)
(* Whoever gains a vote holds, at that moment, all that the leader has     *)
(* committed, whatever was truncated since it acknowledged                 *)
(* (validate_configuration_promotion_barriers).                            *)
(***************************************************************************)
PromotedHoldCommitted ==
    [][\A n \in Node :
          role[n] = "Leader" /\ Len(log'[n]) > Len(log[n]) =>
              \A p \in Voters(Effective(log'[n])) \ Voters(Effective(log[n])) :
                  \A i \in 1 .. commitIndex[n] :
                      i \in DOMAIN log[p] /\ log[p][i] = log[n][i]]_vars

=============================================================================
