# Models, checks and proofs for rafter

rafter is a Raft stack in Rust. This directory holds TLA+ models of its core, the TLC
configurations that check them on small instances, and TLAPS proofs of what matters most.
`PROJECT.json` maps every definition to the source lines it stands for; paths below are relative
to `src/crates`.

## 1. The system

| Part | Where | State and operations | What is hard |
|---|---|---|---|
| Kernel | `rafter/src/node` | `Node`: term, vote, log, snapshot, role, timers, leader progress. `step`/`step_batch` take a tick, a message or a request and return outputs. No I/O. | messages lost, repeated, late, reordered; several leaders at once; terms changing in the middle of a campaign, a transfer or a read |
| Runtime | `rafter-runtime/src` | `DurableRaftNode`: steps the kernel, writes hard state, snapshot and log, then releases the outputs. `hydrate` rebuilds a node from the stores. | a crash or a write failure between any two writes; batches of inputs; installation and compaction of snapshots |
| Pipelined runtime | `rafter-runtime/src/pipelined` | sends a leader's appends while a worker thread persists them | what may leave before the local write is durable |
| Application worker | `rafter-runtime/src/application` | a thread that applies committed batches | submission racing failure and shutdown |
| Storage | `rafter-storage/src` | log segment, snapshot store, hard-state store, shared WAL | torn writes, renames, syncs |
| App | `rafter-app/src` | `RaftGroup`: proposals and reads matched to applied entries, poisoning | proposals whose outcome is unknown; barriers across leadership |
| Multiraft | `rafter-multiraft/src` | many groups in one process, managed scheduler | fairness, bounds |
| Service | `rafter-service/src` | async handles and drivers over groups | waiters, checkpoints, takeover |
| Transport | `rafter-transport-tls/src`, `rafter-transport-tcp-insecure/src` | sessions, bounded queues, reconnects | queues at their limit, epochs |
| Codec, checksums | `rafter-codec`, `rafter-crc32` | pure encodings | none of state |
| Simulator, Maelstrom node, invariant tooling | `rafter-sim`, `rafter-maelstrom`, `rafter-invariants*` | harnesses around the system | not part of it |

A replica is one kernel inside one runtime over one set of stores. The transport hands messages to
the runtime, which steps the kernel, persists, and hands outputs back: messages to the transport,
committed entries and snapshots to the application. The kernel's safety argument assumes that a
message leaves only when the state behind it is durable; the runtime's job is to make that true.
The modules are split along that line.

What the system must guarantee: one leader per term; votes final within a term and across
restarts; logs that agree where they share an entry; nothing committed is lost or replaced; what
was applied on one node is what every node applies; a follower is brought level if messages get
through; stores that a crash leaves behind can always be recovered, and everything promised to a
peer, a client or the application is in them.

## 2. The modules

### Election

Leadership for a fixed voter set: pre-vote rounds and leader stickiness, campaigns, votes,
stepping down, check-quorum, leadership transfer and restarts (`election.rs`, `lifecycle.rs`,
`transfer.rs`, `replication/authority.rs`). One action is one call of `Node::step` with the
messages it returns: the action's name is the handler's. `msgs` only grows, so any message may
arrive late, again, out of order or never.

- `PreVote` and `CheckQuorum` are the nodes that have the option on, so mixed clusters are covered.
- Tick counters are abstracted to what they decide. `recent` is `elapsed < election_timeout_ticks`;
  expiries (election, check-quorum window, transfer) may come at any time. This admits every
  interleaving of ticks, and so every choice of randomised timeout.
- A log is its end: the term of the last entry and how many entries of that term it holds, the
  leader's no-op and the proposals after it (`Propose`). By log matching, logs that end in the same
  term share all that is before that term's entries, so this end is ordered as
  `(last_log_term, last_log_index)` is (`NotBehind`), and `match`, which for a leader's own entries is
  `match_index`, is a count too. A frame offers up to `count` entries of the leader's term and may be
  accepted up to any of them; one that stops short of the term may leave the log ending in any earlier
  entry (`EndsAfter`).
- A transfer is sent only to a target whose acknowledgements reach the end of the leader's log
  (`TargetIsCaughtUp`), and while it is pending proposals are refused, so the log cannot grow past
  them; once it has expired the log may.

### CommittedLog

The abstract promise of a cluster: one log of chosen entries that only grows, of which each node
gets longer and longer prefixes. Replication, Membership and Pipelined are each shown to implement
it, with the same mapping: what a node got is its log up to its commit index (`Delivered`, what
`emit_committed_outputs` hands to the application), and the chosen log is the longest of those. So
one property, `CommittedLogSpec`, says at once that nodes apply the same entries, that nothing
applied is ever taken back, and that a commit index never falls.

### Replication

Logs and commitment for a fixed voter set: vote with the up-to-date check, the entries a leader
appends, the splice at a follower, acknowledgement, the commit rule, restarts
(`replication/receive.rs`, `replication/response.rs`, `replication/proposal.rs`,
`commit/advance.rs`). A frame of a leader is any segment of its log in that term, with any commit
index it has had; `termLog` and `termCommit` keep those for ever, so old frames stay in flight.
`acked` is the largest index that a follower has acknowledged to a leader; since any shorter frame
could have been acknowledged before, it stands for all answers in flight. When a node campaigns and
which frame it sends are left open: any time, any segment. Election and Flow restrict them, so what
holds here holds for them. Frames that would change nothing at all are not steps (`Tells`,
`NewsOfCommit`).

### Membership

Configuration changes (`membership/change.rs`, `membership/validate.rs`, `commit/emit.rs`, the
defence in `replication/receive.rs`). A configuration takes effect when it is appended and is
undone when it is truncated, so a node's effective membership is a function of its log and needs
no variable. Logs hold configurations and no-ops only. A stable configuration is written as joint
with itself, which makes `HasQuorum` one formula. Every entry point of the code is an action;
`Propose` is the common path with the serialization check and the promotion barriers. `LeadWith`
is the common tail: reconcile progress, advance the commit, step down if a committed configuration
has no vote for the leader, else broadcast. A frame carries a commit index that its leader had when
its log was at least that long (`sent`), because the defence against overlapping changes compares
the two. `crash` in `HandleAppendEntries` is a process that dies after the entries are written and
before the commit index is: the case that the defence makes an exception for.

A consequence to know of, allowed by the code and by every property here: a leader elected after
such a crash counts a historical configuration as newly committed, and if that configuration has no
vote for it, it steps down once although a later one gives it a vote.

### Pipelined

The pipelined driver (`rafter-runtime/src/pipelined`) composed with Replication. `Step(n)` of
Replication is any input; the driver may take it only while it has the node (`StepBatch`), and then
everything is on disk before anything leaves. A proposal of an eligible leader is the exception:
its entries may leave at once (`PrepareProposals`), and the worker owns the node until it has
written them (`Persist`), failed (`FailToPersist`) or died. `disk` is the durable log, apart from
`log`; a crash restores the one from the other.

| `pipe` | Code |
|---|---|
| `Ready` | the driver has the node |
| `Pending` | the node is inside a `PersistenceWork` at the worker |
| `Persisted`, `Failed` | a completion is in the worker's channel |
| `Stopped` | the thread ended without one; the node is gone |
| `Poisoned` | the driver has the node back and it refuses everything |

### ApplicationWorker and ApplyService

The application worker (`rafter-runtime/src/application`): an owner that submits and polls, a
thread that drains, batches, applies and publishes. The owner's calls are atomic because it holds
the mutex while it sends; the thread's actions are the stretches between two points where the owner
could look or act. Entries are their indexes, a batch is an interval, and byte counts are
differences of running totals. `Panic` is a store or a wake callback that panics. `Start` is a new
worker on the store that the old one left. ApplyService is what the owner may rely on: entries are
accepted in order while the service is open, become durable in that order, and a service started
again knows everything that was reported durable and nothing that was not accepted.

### Flow

One leader, one follower, one term: probing, the pipelined window of unacknowledged batches, the
fall back after a rejection, the contact that repairs losses (`state/progress.rs`,
`replication/send.rs`). The follower's log is the length of the prefix it shares with the
leader's, which log matching (checked in Replication) justifies: a frame fits exactly when its
previous index is within that prefix. Entries have one size, so byte budgets are counts. The
leader's log is not compacted, so the snapshot mode is not entered. Frames and answers in flight are
sets, from which a message is lost (`Lose`), delivered, or delivered and left to be delivered again.

### DurableNode

The runtime around one follower kernel (`step.rs`, `step/`, `log_repair.rs`,
`snapshot_install.rs`, `compaction.rs`, `construction/hydrate.rs`, and the operations of the
stores). A call is a step or batch of the kernel and then one action per write: fence of term and
vote, staged chunks, truncation, promotion, unstaging, compaction, repair, append, final hard
state, release. `pc` says which write is next. `Poison` is a failed write; `Crash` loses memory at
any point, recovery included. The rest of the cluster is the constant `History`: the log of each
term's leader and how much of it is ever committed, constrained by an assumption that Replication's
invariants give. `AtomicAppend` is the shared-WAL path, taken under the code's conditions; that it
applies only to batches of application entries is not told apart, which only adds behaviours.
A snapshot is the prefix it summarises and the term its author wrote it in; its payload has two chunks.
Its `transfer_id` is computed from the snapshot alone, so the leader of a later term that has the same
snapshot sends chunks with the same `transfer_id`, and a chunk continues a transfer only if leader and
`transfer_id` both match. Which node leads a term is chosen at the start (`leaderOf`); one node may
lead several. A capture may record the installed boundary again (`CompactLog`), which repairs a log
that is still behind it.

The kernel half of the module is that of a node that may campaign and never wins. What a leader does
with the stores is append (in Pipelined), capture, which is here, and, on becoming leader, forget an
inbound transfer (`become_leader`), which is not.

| Module variables | Code |
|---|---|
| `term vote commit snap log incoming` | the kernel's state |
| `hard dsnap compacted segment staging` | hard-state store, snapshot store, log segment, pending transfer |
| `floor tail` | `commit_floor`, `persisted_tail` |
| `outputs promised applied` | outputs held back, messages released, entries given to the application |

### Reads

Linearizable reads for a fixed voter set (`read_index.rs`, `replication/authority.rs`, with the
parts of elections, transfers and replication they depend on): batches of barriers, the heartbeat
round that confirms them, the limit on waiting reads, the leader lease with its checkpoints and its
waiver, and every way of losing leadership. An instance begins when the first leader has just been
acknowledged by everyone. A log position is the term of the entry there, so `commit[n] =
currentTerm[n]` is `has_committed_in_current_term`.

- With `Foundation` (pre-vote and check-quorum) ticks are counted: `elapsed`, `quorumElapsed`, and
  of the lease's clock the two differences that matter, `basisAge` and `leaseAge`. Between two ticks
  of one node another ticks at most `Cadence` times (`since`). With a cadence of 2 this is the limit of
  what `with_lease_reads` asks for, that no node's ticks come more than twice as often as another's.
- Without it nothing depends on time, and an election clock may expire whenever it likes.
- `due` is the committed floor of the whole group when the read was registered; a granted read
  with `readIndex >= due` is linearizable.

### How they fit

Election and Replication treat a step and its messages as one event. DurableNode shows why they
may: a message leaves (`Release`) only after every write, and `VotesAreDurable`,
`AcksAreDurable` and `AppliedIsDurable` say that what left survives any crash. In turn DurableNode
takes its `History` assumption from Replication's `LogMatching` and `CommittedBlocksElection`.
Flow takes log matching from Replication and gives it back only frames Replication already
allows. Pipelined drops the assumption that a step and its writes are one event for the one case
where the code does, and shows that CommittedLog still holds. ApplicationWorker takes over where a
commit is delivered: its entries are those of CommittedLog, in order.

## 3. The runs

| Run | Instance | What it shows |
|---|---|---|
| `election_votes` | 3 nodes, 2 terms, one entry in each; two campaign, two may restart, one is a transfer target, one has check-quorum | one leader per term; every counted vote was given in that term and binds its voter; leader hints are true |
| `election_prevote` | 3 nodes, 2 terms, two entries in each, pre-vote on; one clock expires, another node is a transfer target and may restart | every campaign has a majority of pre-votes for that term or a TimeoutNow; a node told to campaign holds the log of the leader that told it, which may have grown since an earlier acknowledgement |
| `replication_terms` | 3 nodes, 3 terms, logs of no-ops, 2 campaigners, from the moment the first leader is elected | the cluster implements CommittedLog; committed entries block rival elections; the defence against conflicts with committed entries is never needed |
| `replication_proposals` | 3 nodes, 2 terms, logs of length up to 2 plus no-ops, frames of every length, from a new cluster | log matching; match indexes are backed by logs |
| `membership` | 3 nodes, 2 terms, from voters abc or ab, to a alone, to bc or by single steps; one rival, which may crash | no two winners of a term whichever configurations they believe in; CommittedLog; configurations follow one another legally; honest frames are never refused by the defences; a removed leader leads only until its removal commits; the promoted hold what is committed |
| `pipelined` | 3 nodes, 2 terms, logs of length up to 2 plus no-ops; the first leader is pipelined | what is committed is on a majority of disks; CommittedLog |
| `flow` | no-op at 2, log to 3, batches of 2, window of 1, two messages in flight each way, one repetition | the window and the match index are true under loss, repetition and reordering; every entry is acknowledged in the end |
| `durable` | 2 terms, led by one node or by two, 2 entries, snapshots at 1 and 2, up to two inputs per call, shared WAL | stores always recover; votes, acknowledgements and applied entries are durable; memory and disk agree between calls; the disk never goes back |
| `application_worker` | 6 entries of unequal weight, 5 in flight, batches of 3, 2 workers one after the other | the worker implements ApplyService; no entry is lost, repeated or reordered; credits are exact; admission never outlives the thread; joins return; entries are answered |
| `reads_barriers` | 3 voters, 2 terms, 2 reads, one voter restarts, no clocks | a granted read covers everything committed when it was asked for; rounds are confirmed in order |
| `reads_lease` | 2 voters, timeout of 5 ticks, 3 rounds, clocks of which one may be twice as fast, lease, pre-vote and check-quorum on, 2 reads, 1 waiting at most, transfers | every read is answered once; while a lease holds a majority refuses pre-votes; a lease never grants after a TimeoutNow |
| `reads_lease_stale` | 3 voters, 2 terms, lease on | **violated**: a lease grants a read below the committed floor, see section 5 |

Each module's `TypeOK` documents its state; of these only Election's is among the properties of the runs.
Every property is also run against a mutant of the code it is about (`PROJECT.json`, "mutants"),
which TLC refutes. The mutants stand next to the definitions they change, with a suffix that says
what is wrong in them (`IsQuorum_Half`, `FencedState_CommitEarly`).

**Bounds.** Three nodes are the least with a majority that is not everyone. Two terms let a
deposed leader meet its successor; the third in `replication_terms` lets an entry of the first
term be replicated by the leader of the third after being overwritten in the second, the case
that the current-term rule of the commit is for. `MaxIndex` bounds only client proposals and
configuration changes: no-ops go beyond it. In `membership` it leaves room for entering and leaving
a joint configuration after the first no-op, and a rival's no-op between or instead of them. A
window of one batch is full at once, and a log longer than a batch makes the window matter. Two
chunks are the least with a first and a last. The history of `durable` has a term-1 suffix that
term 2 replaces, so that a snapshot boundary can fall on a conflicting entry. Two entries in a term
are the least for a log to outgrow an acknowledgement. In `reads_lease` a timeout of 5 makes the lease
window 2 ticks, so that a lease can be renewed by an acknowledgement that is older than its receipt,
and a third round lets that happen after the first checkpoint. The timeout is odd on purpose: half of
it is rounded down, and what is rounded off pays for the phase of the ticks. With an even timeout and
clocks exactly at the limit the fast node's clock may be one tick ahead at the end of the lease, where
`LeaseMeansRefusal` would not hold; the documentation calls the limit necessary, not sufficient. In
`application_worker` the limits let two batches be combined, a third be deferred and a fourth be
queued when a call of `apply` fails, and either limit may be the one that refuses.

**Views and symmetry.** The network variables only grow. The MC modules' `View` leaves out
messages that no receiver will ever act on again; the comments say why each class stays without
effect. No property reads what the view drops, except as a guarantee that holds once the message
was sent and is never withdrawn. Symmetry permutes only nodes that the configuration treats alike, and in `durable` the names of
leaders.
No run with a temporal property that needs fairness uses a view or symmetry.

**Fairness.** Two runs assume any.

- `flow`: ticks keep coming (`WF` of the heartbeat, which every embedding must provide for Raft to
  work), and a kind of message that is sent again and again is delivered at some time (`SF`). The
  kinds are what the two sides tell each other: more entries, a refusal, more than the leader knows,
  the same as it knows. The code has no stronger assumption: it resends on every contact round. A
  network that repeats stale answers for ever can keep a larger window from advancing, since each
  stale rejection collapses it again; `MaxRepeats` excludes that.
- `application_worker`: the thread is scheduled and `apply` returns or panics, a join returns once
  the thread has ended, and the owner polls. `EntriesAreAnswered` needs the last, as the
  documentation of `try_complete` says; nothing assumes that the owner submits, shuts down or
  restarts.

In Reads the order of ticks is constrained (`since`) to what the lease assumes of clocks; that is a
safety constraint, not fairness.

**Deadlock.** `durable` checks it. The others say `CHECK_DEADLOCK FALSE`: terms and logs are
bounded, so the instance may stop where the program would go on.

## 4. The proofs

Each theorem holds for every value of the constants that satisfies the assumption of its module, so
for any number of nodes, length of log, size of batch and limit.

| Module | Theorem | Statement |
|---|---|---|
| `ElectionTypes` | `TypeCorrect` | `Spec => []TypeOK` |
| `ElectionProofs` | `OneLeaderPerTerm` | `Spec => []ElectionSafety` |
| | `CampaignersVoteForThemselves` | `Spec => []CampaignerKeepsItsVote` |
| | `CountedVotesBind` | `Spec => []VotesAreOfThisTerm` |
| | `VotesAreFinal` | `Spec => VoteIsFinal` |
| `DurableNodeProofs` | `ReleasedVotesAreDurable` | `Spec => []VotesAreDurable` |
| `FlowProofs` | `WindowIsSound`, `MatchIsSound` | `Spec => []WindowSound`, `Spec => []MatchSound` |
| `ApplicationWorkerProofs` | `WorkerIsTyped` | `Spec => []TypeOK` |
| | `CreditsAreExact`, `AdmissionIsSound` | `Spec => []CreditsExact`, `Spec => []AdmissionReachesThread` |
| | `EntriesAreHeldInOrder` | `Spec => []HeldInOrder` |
| | `WorkerImplementsService` | `Spec => ServiceSpec` |

**Election.** `ElectionAssumption` says that the nodes are finitely many, `Nil` is none of them, and
the switches are what they should be. Election safety is not inductive: a leader's majority is a set
of names, and nothing in the state says what those voters may still do. The strengthening `VoteInv`
puts it into the messages:

- `BallotsBind`: who granted a vote in term *t* has reached *t*, and while in *t* has that vote on
  disk;
- `BallotsAgree`: nobody has granted two votes in one term;
- `VotesHaveBallots`: every vote counted by a candidate or leader is its own or has its message,
  and it has voted for itself;
- `LeadersHaveQuorum`: a leader's counted votes are a majority.

Two leaders of a term have majorities that meet (`QuorumsMeet`); the voter in both has granted two
votes, or is one of the two and has voted for itself and the other. `VotesAreFinal` is an action
property, proved handler by handler: no step lowers a term or changes a vote given in it.

**DurableNode.** Election lets a vote be on the disk in the same step as it is sent. The runtime
takes many writes for that, so the two proofs belong together: `ReleasedVotesAreDurable` is what
justifies the simplification. Its assumption `HistoryAssumption` constrains the rest of the cluster,
of which the argument uses only that nobody is called `Nil`. A vote that left is safe because of
where it was before, so the invariant `FenceInv` follows it: the kernel keeps every promise among
the outputs held back; before the fence the kernel has not gone back behind the hard state; from the
fence on the two agree about term and vote; and a recovery, which starts from the hard state, has no
outputs. A failed write needs nothing: a poisoned node releases no more.

**Flow.** The assumption says that the bounds are numbers and positive where they must be.
`FlowInv` is the soundness of the window (`Sound`, stated of a log length and a `Progress`) with the
types of what is in flight, and the match index of every successful answer bounded by what the
follower holds. The leader's steps are compositions of the operations of `Progress`, so one lemma
for each operation shows that it keeps `Sound`.

**ApplicationWorker.** The assumptions say that limits are positive, that a batch fits into what may
be in flight, and that running totals of weights do not fall. `WorkerInv` says of each of the queues
(events, the batch in hand, the deferred batch, requests) that its batches follow one another
without gap from one index to another, and that each queue starts where the one before it ends.
Stated link by link (`Chain`), an append or a removal disturbs only one end. `HeldInOrder` speaks
of their concatenation; it follows by joining the chains, once the places that are empty in each
phase are known (`Emptied`). From `WorkerInv` it also follows that the batch that becomes durable is
the next one, and so that each step is one of ApplyService or leaves it unchanged.

**Only model-checked.** The properties of Replication, Membership, Pipelined and Reads; in Election
those of hints, transfers and pre-vote mandates; in DurableNode those of logs and snapshots; the
refinements of CommittedLog. Liveness (`EventuallyMatched`,
`JoinReturns`, `EntriesAreAnswered`) stays with TLC: fairness and `ENABLED` are out of the prover's
reach, as is induction over recursively defined data.

## 5. What the runs found

`reads_lease_stale` refutes, for lease reads, what `docs/raft-invariants.md` states as RD-03: every
grant "has read_index at least the cluster-wide committed floor observed at registration". The
lease rests on voters that refuse to depose a live leader, but only `handle_pre_vote` refuses;
`handle_request_vote` does not ask whether the voter believes in a leader. A campaign that won its
pre-vote while contact was lost may have its RequestVote delayed past the next heartbeat. That
heartbeat's acknowledgement renews the lease, then the same voter grants the vote, the new leader
commits, and the old one grants a read at its old commit index. Clocks are in step, nothing
restarts, and no transfer is involved: the trace needs only one delayed message. `reads_lease`
shows that the renewals themselves are sound, and `reads_barriers` that reads without the lease are.

## 6. Not modelled

- Kernel: the sending side of snapshot transfer and the snapshot mode of flow control, the
  whole-snapshot message, batched proposals and the coalescing of a batch's broadcasts; of
  membership, the raw configuration proposal, the refusal of changes during a transfer and a
  membership that arrives with a snapshot.
- Runtime: the retirement worker (it frees memory) and the grouping of peer batches.
- Storage: the file protocol under the stores (temporary files, renames, syncs, torn tails) and the
  journal. DurableNode takes each store operation as atomic, which is what that protocol is for.
- Above the runtime: `RaftGroup`, the multiraft scheduler, the service drivers, the TLS sessions and
  queues. They are layers with state of their own over one group; the modules here establish what
  they are given, not what they do with it.
- Encodings, checksums, error texts, telemetry, the demo transport, simulators and the evidence
  tooling: no state of the system.
