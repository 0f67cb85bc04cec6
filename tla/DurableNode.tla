---------------------------- MODULE DurableNode ----------------------------
(***************************************************************************)
(* How the runtime makes a replica durable (crates/rafter-runtime/src):    *)
(* the writes that follow one step or one batch of steps of the kernel,    *)
(* their order, the release of the outputs, local compaction, and the      *)
(* recovery from whatever a crash leaves on the disk.                      *)
(*                                                                         *)
(* The kernel half is a follower: it votes, campaigns, appends, commits    *)
(* and installs snapshots as its handlers do.  What the leaders of the     *)
(* terms send is given: History[t] is the log of the leader of term t, an  *)
(* entry being its term, and Committed[t] is how much of it that leader    *)
(* ever knows to be committed.  One node may lead several terms.           *)
(*                                                                         *)
(* A snapshot is the log prefix it summarises, with the term its author    *)
(* wrote it in: its transfer_id tells apart authors and boundaries, not    *)
(* the leaders that relay it.  Its payload travels in two chunks.  An      *)
(* action between two others of a call is one write that a store makes     *)
(* atomically.                                                             *)
(***************************************************************************)
EXTENDS Integers, Sequences, SequencesExt

CONSTANTS History, Committed,
          Self,          \* this node
          Candidates,    \* other nodes that ask for votes
          Leaders,       \* other nodes that lead
          Nil,           \* no node
          Boundaries,    \* snapshot boundaries
          MaxBatch,      \* bound: kernel inputs persisted together
          Atomic         \* the stores share a persistence domain

Terms == 1 .. Len(History)

Prefix(s, i) == SubSeq(s, 1, i)

(***************************************************************************)
(* What the rest of the cluster guarantees: an entry of a term is in one   *)
(* place of one history, and later leaders have what is committed.         *)
(***************************************************************************)
ASSUME HistoryAssumption ==
    /\ \A t \in Terms : /\ \A i \in 1 .. Len(History[t]) : History[t][i] \in 1 .. t
                        /\ Committed[t] \in 0 .. Len(History[t])
    /\ \A t, u \in Terms :
          /\ t < u => IsPrefix(Prefix(History[t], Committed[t]), History[u])
          /\ \A i \in 1 .. Len(History[t]) :
                i <= Len(History[u]) /\ History[t][i] = History[u][i]
                    => Prefix(History[t], i) = Prefix(History[u], i)
    /\ Self \notin Candidates /\ Nil \notin Candidates \cup Leaders \cup {Self}
    /\ MaxBatch \in Nat \ {0}
    /\ Atomic \in BOOLEAN

VARIABLES term, vote, commit,      \* the kernel: term, vote, commit index,
          snap, log, incoming,     \* snapshot, retained log, inbound transfer
          hard, dsnap, compacted,  \* the stores: hard state, snapshot,
          segment, staging,        \* compacted_through, entries, staged transfer
          pc, booting,             \* the next write of the call under way
          batch, floor, tail,      \* its size, commit floor, persisted tail
          todo, outputs,           \* its snapshot outputs, and its promises
          promised, applied,       \* what has been released
          leaderOf                 \* who leads a term, chosen at the start

kernelVars == <<term, vote, commit, snap, log, incoming>>

diskVars == <<hard, dsnap, compacted, segment, staging>>

callVars == <<booting, batch, floor, tail, todo, outputs>>

releasedVars == <<promised, applied>>

vars == <<kernelVars, diskVars, pc, callVars, releasedVars, leaderOf>>

Greater(a, b) == IF a < b THEN b ELSE a

Lesser(a, b) == IF a < b THEN a ELSE b

NoTransfer == [leader |-> Nil, author |-> 0, boundary |-> 0, received |-> 0]

Transfer(n, a, b, received) == [leader |-> n, author |-> a, boundary |-> b, received |-> received]

Chunks == 2

NoSnapshot == [prefix |-> <<>>, term |-> 0]

SnapshotOf(x) == [prefix |-> Prefix(History[x.author], x.boundary), term |-> x.author]

Boundary(s) == Len(s.prefix)

(***************************************************************************)
(* The kernel's log with what its snapshot covers, and term_at.            *)
(***************************************************************************)
Full == snap.prefix \o log

TermIn(s, i) == IF i = 0 THEN 0 ELSE s[i]

HasTerm(i, t) == i \in Boundary(snap) .. Len(Full) /\ TermIn(Full, i) = t

----------------------------------------------------------------------------
(* Steps of the kernel.  A step of an idle node begins a call; more may    *)
(* join it before anything is persisted.                                   *)

(***************************************************************************)
(* step_and_persist and step_batch: the commit floor is taken before the   *)
(* first step.                                                             *)
(***************************************************************************)
JoinCall(promises, writes) ==
    /\ \/ pc = "ready" /\ batch' = 1 /\ floor' = commit
       \/ pc = "stepped" /\ batch < MaxBatch /\ batch' = batch + 1 /\ floor' = floor
    /\ pc' = "stepped"
    /\ outputs' = outputs \cup promises
    /\ todo' = todo \o writes
    /\ UNCHANGED <<diskVars, booting, tail, releasedVars>>

AdoptTerm(t) ==
    /\ t >= term
    /\ term' = t

VoteBefore(t) == IF t > term THEN Nil ELSE vote

HandleRequestVote(t, c, upToDate) ==
    LET granted == upToDate /\ VoteBefore(t) \in {Nil, c}
    IN  /\ AdoptTerm(t)
        /\ vote' = IF granted THEN c ELSE VoteBefore(t)
        /\ JoinCall(IF granted THEN {[kind |-> "Vote", term |-> t, to |-> c]} ELSE {}, <<>>)
        /\ UNCHANGED <<commit, snap, log, incoming>>

StartElection ==
    /\ term + 1 \in Terms
    /\ term' = term + 1
    /\ vote' = Self
    /\ JoinCall({[kind |-> "Vote", term |-> term + 1, to |-> Self]}, <<>>)
    /\ UNCHANGED <<commit, snap, log, incoming>>

(***************************************************************************)
(* The commit index a frame confirms: not past the entries it vouches for. *)
(***************************************************************************)
ConfirmedCommit(c, last) == Greater(commit, Lesser(c, last))

(***************************************************************************)
(* AppendEntries of the leader of term t with the n entries after prev and *)
(* leader commit c.  The first entry that disagrees replaces the suffix.   *)
(***************************************************************************)
HandleAppendEntries(t, prev, n, c) ==
    LET sent     == History[t]
        last     == prev + n
        diverged == {i \in prev + 1 .. last : i > Len(Full) \/ Full[i] # sent[i]}
        first    == CHOOSE i \in diverged : \A j \in diverged : i <= j
        spliced  == IF diverged = {} THEN Full
                    ELSE Prefix(Full, first - 1) \o SubSeq(sent, first, last)
        accepted == HasTerm(prev, TermIn(sent, prev)) /\ \A i \in diverged : i > commit
    IN  /\ AdoptTerm(t)
        /\ vote' = VoteBefore(t)
        /\ IF accepted
           THEN /\ log' = SubSeq(spliced, Boundary(snap) + 1, Len(spliced))
                /\ commit' = ConfirmedCommit(c, last)
                /\ JoinCall({[kind |-> "Ack", term |-> t, index |-> last]}, <<>>)
           ELSE /\ JoinCall({}, <<>>)
                /\ UNCHANGED <<log, commit>>
        /\ UNCHANGED <<snap, incoming>>

(***************************************************************************)
(* install_snapshot_state: the suffix stays only behind a matching         *)
(* boundary.                                                               *)
(***************************************************************************)
InstallState(s) ==
    LET b == Boundary(s)
    IN  /\ snap' = s
        /\ log' = IF HasTerm(b, TermIn(s.prefix, b)) THEN SubSeq(Full, b + 1, Len(Full)) ELSE <<>>
        /\ commit' = Greater(commit, b)

(***************************************************************************)
(* InstallSnapshotChunk number `offset`, from the leader of term t, of the *)
(* snapshot at b that was written in term a.  A chunk at offset 0 may      *)
(* replace the transfer under way; an out-of-order, a repeated or a        *)
(* foreign chunk changes nothing.  One that is covered ends the transfer   *)
(* with its transfer_id, whoever leads it.                                 *)
(***************************************************************************)
HandleInstallSnapshotChunk(t, a, b, offset) ==
    LET covered  == b <= Greater(Boundary(snap), commit)
        same     == incoming.author = a /\ incoming.boundary = b
        current  == same /\ incoming.leader = leaderOf[t]
        expected == IF current THEN incoming.received ELSE 0
        fresh    == ~covered /\ offset = expected /\ (current \/ offset = 0)
        x        == Transfer(leaderOf[t], a, b, offset + 1)
        stage    == [kind |-> "Stage", transfer |-> x]
        install  == [kind |-> "Install", transfer |-> x]
    IN  /\ AdoptTerm(t)
        /\ vote' = VoteBefore(t)
        /\ \/ /\ covered
              /\ incoming' = IF same THEN NoTransfer ELSE incoming
              /\ JoinCall({[kind |-> "Ack", term |-> t,
                            index |-> Greater(Boundary(snap), commit)]}, <<>>)
              /\ UNCHANGED <<snap, log, commit>>
           \/ /\ fresh /\ x.received = Chunks
              /\ InstallState(SnapshotOf(x))
              /\ incoming' = NoTransfer
              /\ JoinCall({[kind |-> "Ack", term |-> t, index |-> b]}, <<stage, install>>)
           \/ /\ fresh /\ x.received < Chunks
              /\ incoming' = x
              /\ JoinCall({}, <<stage>>)
              /\ UNCHANGED <<snap, log, commit>>
           \/ /\ ~covered /\ ~fresh
              /\ JoinCall({}, <<>>)
              /\ UNCHANGED <<snap, log, commit, incoming>>

----------------------------------------------------------------------------
(* The writes of a call, in their order.                                   *)

NextIndex == compacted + Len(segment) + 1

EntryOnDisk(i) == segment[i - compacted]

CompactSegment(b) ==
    /\ compacted' = Greater(compacted, b)
    /\ segment' = SubSeq(segment, compacted' - compacted + 1, Len(segment))

TruncateSegment_KeepsFirst(i) == segment' = Prefix(segment, i - compacted)

TruncateSegment(i) == segment' = Prefix(segment, i - compacted - 1)

(***************************************************************************)
(* An error that says the stored state is not a replica's.                 *)
(***************************************************************************)
Refuse == pc' = "broken" /\ UNCHANGED <<kernelVars, diskVars, callVars, releasedVars>>

(***************************************************************************)
(* PersistedTail.                                                          *)
(***************************************************************************)
TailOf(s) == [index |-> Len(s), term |-> TermIn(s, Len(s))]

TailMatches == HasTerm(tail.index, tail.term)

HardStateOfNode_NoVote == [term |-> term, vote |-> Nil, commit |-> commit]

HardStateOfNode_StaleCommit == [term |-> term, vote |-> vote, commit |-> hard.commit]

HardStateOfNode == [term |-> term, vote |-> vote, commit |-> commit]

(***************************************************************************)
(* try_atomic_append_batch: one write for entries and commit index.  It is *)
(* not used for entries other than the application's, which are not told   *)
(* apart here.                                                             *)
(***************************************************************************)
AtomicAppend ==
    /\ pc = "stepped"
    /\ Atomic
    /\ hard.term = term /\ hard.vote = vote
    /\ todo = <<>> /\ incoming = NoTransfer /\ staging = NoTransfer
    /\ Boundary(snap) = compacted
    /\ TailMatches
    /\ segment' = segment \o SubSeq(Full, NextIndex, Len(Full))
    /\ hard' = HardStateOfNode
    /\ tail' = TailOf(Full)
    /\ pc' = "release"
    /\ UNCHANGED <<kernelVars, dsnap, compacted, staging, booting, batch, floor, todo, outputs,
                   releasedVars>>

(***************************************************************************)
(* The term and the vote are fenced first, with the commit index of before.*)
(***************************************************************************)
FencedState_CommitEarly == [term |-> term, vote |-> vote, commit |-> commit]

FencedState_CommitReset == [term |-> term, vote |-> vote, commit |-> 0]

FencedState == [term |-> term, vote |-> vote, commit |-> hard.commit]

Fence ==
    /\ pc = "stepped"
    /\ hard' = FencedState
    /\ pc' = "snapshots"
    /\ UNCHANGED <<kernelVars, dsnap, compacted, segment, staging, callVars, releasedVars>>

(***************************************************************************)
(* persist_snapshot_outputs_for_step, in output order.                     *)
(***************************************************************************)
StageChunk ==
    /\ pc = "snapshots" /\ todo # <<>>
    /\ Head(todo).kind = "Stage"
    /\ LET x == Head(todo).transfer
       IN  IF x.received > 1 /\ staging # Transfer(x.leader, x.author, x.boundary, x.received - 1)
           THEN Refuse
           ELSE /\ staging' = x
                /\ todo' = Tail(todo)
                /\ UNCHANGED <<kernelVars, hard, dsnap, compacted, segment, pc, booting, batch,
                               floor, tail, outputs, releasedVars>>

(***************************************************************************)
(* install_staged_snapshot: a conflicting boundary entry and its suffix    *)
(* are removed while the staged transfer still tells why.                  *)
(***************************************************************************)
InstallTruncate ==
    LET s == SnapshotOf(Head(todo).transfer)
        b == Boundary(s)
    IN  /\ pc = "snapshots" /\ todo # <<>>
        /\ Head(todo).kind = "Install"
        /\ IF b \in compacted + 1 .. NextIndex - 1 /\ EntryOnDisk(b) # TermIn(s.prefix, b)
           THEN IF b <= hard.commit THEN Refuse
                ELSE /\ TruncateSegment(b)
                     /\ pc' = "promote"
                     /\ UNCHANGED <<kernelVars, hard, dsnap, compacted, staging, callVars,
                                    releasedVars>>
           ELSE /\ pc' = "promote"
                /\ UNCHANGED <<kernelVars, diskVars, callVars, releasedVars>>

(***************************************************************************)
(* promote_staged_snapshot publishes the manifest, then drops the staging. *)
(***************************************************************************)
InstallPromote ==
    /\ pc = "promote"
    /\ IF staging # Head(todo).transfer \/ staging.received # Chunks
       THEN Refuse
       ELSE /\ dsnap' = SnapshotOf(staging)
            /\ pc' = "unstage"
            /\ UNCHANGED <<kernelVars, hard, compacted, segment, staging, callVars, releasedVars>>

InstallUnstage ==
    /\ pc = "unstage"
    /\ staging' = NoTransfer
    /\ pc' = "compact"
    /\ UNCHANGED <<kernelVars, hard, dsnap, compacted, segment, callVars, releasedVars>>

InstallCompact ==
    /\ pc = "compact"
    /\ CompactSegment(Head(todo).transfer.boundary)
    /\ todo' = Tail(todo)
    /\ pc' = "snapshots"
    /\ UNCHANGED <<kernelVars, hard, dsnap, staging, booting, batch, floor, tail, outputs,
                   releasedVars>>

(***************************************************************************)
(* clear_abandoned_snapshot_staging_for_step.                              *)
(***************************************************************************)
ClearStaging_Kept ==
    /\ pc = "snapshots" /\ todo = <<>> /\ ~booting
    /\ pc' = "repair"
    /\ UNCHANGED <<kernelVars, hard, dsnap, compacted, segment, staging, callVars, releasedVars>>

ClearStaging ==
    /\ pc = "snapshots" /\ todo = <<>> /\ ~booting
    /\ staging' = IF incoming = NoTransfer THEN NoTransfer ELSE staging
    /\ pc' = "repair"
    /\ UNCHANGED <<kernelVars, hard, dsnap, compacted, segment, callVars, releasedVars>>

(***************************************************************************)
(* repair_persisted_log_suffix: a persisted entry that the kernel has      *)
(* replaced goes, unless it was committed before the call.                 *)
(***************************************************************************)
RepairSuffix ==
    LET diverged == {i \in Greater(compacted, Boundary(snap)) + 1 .. NextIndex - 1 :
                        i > Len(Full) \/ Full[i] # EntryOnDisk(i)}
        first    == CHOOSE i \in diverged : \A j \in diverged : i <= j
    IN  /\ pc = "repair"
        /\ IF TailMatches \/ diverged = {}
           THEN /\ pc' = "append"
                /\ UNCHANGED <<kernelVars, diskVars, callVars, releasedVars>>
           ELSE IF first <= floor THEN Refuse
           ELSE /\ TruncateSegment(first)
                /\ pc' = "append"
                /\ UNCHANGED <<kernelVars, hard, dsnap, compacted, staging, callVars,
                               releasedVars>>

AppendSuffix ==
    /\ pc = "append"
    /\ IF NextIndex <= Boundary(snap) THEN Refuse
       ELSE /\ segment' = segment \o SubSeq(Full, NextIndex, Len(Full))
            /\ tail' = TailOf(Full)
            /\ pc' = "publish"
            /\ UNCHANGED <<kernelVars, hard, dsnap, compacted, staging, booting, batch, floor,
                           todo, outputs, releasedVars>>

(***************************************************************************)
(* The final hard state publishes the commit index; then the outputs go    *)
(* out, with the committed entries the application applies.                *)
(***************************************************************************)
PublishHardState ==
    /\ pc = "publish"
    /\ hard' = HardStateOfNode
    /\ pc' = "release"
    /\ UNCHANGED <<kernelVars, dsnap, compacted, segment, staging, callVars, releasedVars>>

Release ==
    /\ pc = "release"
    /\ promised' = promised \cup outputs
    /\ applied' = IF commit > Len(applied) THEN Prefix(Full, commit) ELSE applied
    /\ outputs' = {}
    /\ batch' = 0
    /\ floor' = 0
    /\ pc' = "ready"
    /\ UNCHANGED <<kernelVars, diskVars, booting, tail, todo>>

----------------------------------------------------------------------------
(* compact_log_with_snapshot: the application captures its state at b, or  *)
(* records the installed boundary again.  The kernel follows once snapshot *)
(* and compaction are durable, and forgets the inbound transfer.           *)

CompactLog(b) ==
    /\ pc = "ready"
    /\ b \in Boundary(snap) .. commit
    /\ dsnap' = [prefix |-> Prefix(Full, b), term |-> term]
    /\ pc' = "captured"
    /\ UNCHANGED <<kernelVars, hard, compacted, segment, staging, callVars, releasedVars>>

CompactUnstage ==
    /\ pc = "captured"
    /\ staging' = NoTransfer
    /\ pc' = "retire"
    /\ UNCHANGED <<kernelVars, hard, dsnap, compacted, segment, callVars, releasedVars>>

CompactRetire ==
    /\ pc = "retire"
    /\ CompactSegment(Boundary(dsnap))
    /\ snap' = dsnap
    /\ log' = SubSeq(Full, Boundary(dsnap) + 1, Len(Full))
    /\ incoming' = NoTransfer
    /\ pc' = "ready"
    /\ UNCHANGED <<term, vote, commit, hard, dsnap, staging, callVars, releasedVars>>

----------------------------------------------------------------------------
(* Failure and recovery.                                                   *)

(***************************************************************************)
(* A write fails, done or not: the runtime is poisoned and releases        *)
(* nothing.                                                                *)
(***************************************************************************)
Poison ==
    /\ ~booting
    /\ pc \in {"stepped", "snapshots", "promote", "unstage", "compact", "repair", "append",
               "publish", "release", "captured", "retire"}
    /\ pc' = "poisoned"
    /\ UNCHANGED <<kernelVars, diskVars, callVars, releasedVars>>

(***************************************************************************)
(* The process dies and its memory is gone.                                *)
(***************************************************************************)
Crash ==
    /\ pc # "broken"
    /\ term' = 0 /\ vote' = Nil /\ commit' = 0
    /\ snap' = NoSnapshot /\ log' = <<>> /\ incoming' = NoTransfer
    /\ pc' = "off" /\ booting' = TRUE /\ batch' = 0 /\ floor' = 0
    /\ tail' = TailOf(<<>>) /\ todo' = <<>> /\ outputs' = {}
    /\ UNCHANGED <<diskVars, releasedVars>>

(***************************************************************************)
(* Hydration first finishes an installation whose chunks were all staged.  *)
(***************************************************************************)
FinishesInstall(x) == x.received = Chunks /\ x.boundary > Boundary(dsnap)

Open ==
    /\ pc = "off"
    /\ todo' = IF FinishesInstall(staging)
               THEN <<[kind |-> "Install", transfer |-> staging]>> ELSE <<>>
    /\ pc' = "snapshots"
    /\ UNCHANGED <<kernelVars, diskVars, booting, batch, floor, tail, outputs, releasedVars>>

(***************************************************************************)
(* The tail of the log may end below the snapshot.                         *)
(***************************************************************************)
NeedsCompaction == compacted < Boundary(dsnap) /\ NextIndex <= Boundary(dsnap)

FinishCompaction ==
    /\ pc = "snapshots" /\ todo = <<>> /\ booting
    /\ NeedsCompaction
    /\ CompactSegment(Boundary(dsnap))
    /\ UNCHANGED <<kernelVars, hard, dsnap, staging, pc, callVars, releasedVars>>

(***************************************************************************)
(* BootstrapState::into_parts, the applied floor the application declares, *)
(* and resume_pending_snapshot_transfer.                                   *)
(***************************************************************************)
DiskLog ==
    dsnap.prefix \o SubSeq(segment, Greater(Boundary(dsnap) - compacted, 0) + 1, Len(segment))

RecoveredCommit == Greater(hard.commit, Boundary(dsnap))

ValidBootstrap ==
    /\ compacted <= Boundary(dsnap)
    /\ hard.vote # Nil => hard.term > 0
    /\ dsnap.term <= hard.term
    /\ compacted < Boundary(dsnap)
          => EntryOnDisk(Boundary(dsnap)) = TermIn(dsnap.prefix, Boundary(dsnap))
    /\ \A i \in Boundary(dsnap) + 1 .. Len(DiskLog) : DiskLog[i] \in 1 .. hard.term
    /\ RecoveredCommit <= Len(DiskLog)
    /\ Len(applied) <= RecoveredCommit
    /\ staging.boundary > Boundary(dsnap) => staging.received < Chunks
    /\ staging.author <= hard.term

Hydrate ==
    /\ pc = "snapshots" /\ todo = <<>> /\ booting
    /\ ~NeedsCompaction
    /\ IF ~ValidBootstrap THEN Refuse
       ELSE /\ term' = hard.term /\ vote' = hard.vote /\ commit' = RecoveredCommit
            /\ snap' = dsnap
            /\ log' = SubSeq(DiskLog, Boundary(dsnap) + 1, Len(DiskLog))
            /\ staging' = IF staging.boundary > Boundary(dsnap) THEN staging ELSE NoTransfer
            /\ incoming' = staging'
            /\ tail' = TailOf(DiskLog)
            /\ applied' = Prefix(DiskLog, RecoveredCommit)
            /\ pc' = "ready" /\ booting' = FALSE
            /\ UNCHANGED <<hard, dsnap, compacted, segment, batch, floor, todo, outputs,
                           promised>>

----------------------------------------------------------------------------

Init ==
    /\ term = 0 /\ vote = Nil /\ commit = 0
    /\ snap = NoSnapshot /\ log = <<>> /\ incoming = NoTransfer
    /\ hard = [term |-> 0, vote |-> Nil, commit |-> 0]
    /\ dsnap = NoSnapshot /\ compacted = 0 /\ segment = <<>> /\ staging = NoTransfer
    /\ pc = "ready" /\ booting = FALSE /\ batch = 0 /\ floor = 0
    /\ tail = TailOf(<<>>) /\ todo = <<>> /\ outputs = {}
    /\ promised = {} /\ applied = <<>>
    /\ leaderOf \in [Terms -> Leaders]

Step ==
    \/ \E t \in Terms, c \in Candidates, upToDate \in BOOLEAN : HandleRequestVote(t, c, upToDate)
    \/ StartElection
    \/ \E t \in Terms : \E prev \in 0 .. Len(History[t]), c \in 0 .. Committed[t] :
          \E n \in 0 .. Len(History[t]) - prev : HandleAppendEntries(t, prev, n, c)
    \/ \E t \in Terms : \E a \in 1 .. t :
          \E b \in Boundaries \cap 1 .. Committed[a], offset \in 0 .. Chunks - 1 :
              HandleInstallSnapshotChunk(t, a, b, offset)

Persist ==
    \/ AtomicAppend
    \/ Fence
    \/ StageChunk
    \/ InstallTruncate
    \/ InstallPromote
    \/ InstallUnstage
    \/ InstallCompact
    \/ ClearStaging
    \/ RepairSuffix
    \/ AppendSuffix
    \/ PublishHardState
    \/ Release

Next ==
    /\ \/ Step
       \/ Persist
       \/ \E b \in Boundaries : CompactLog(b)
       \/ CompactUnstage
       \/ CompactRetire
       \/ Poison
       \/ Crash
       \/ Open
       \/ FinishCompaction
       \/ Hydrate
    /\ UNCHANGED leaderOf

Spec == Init /\ [][Next]_vars

----------------------------------------------------------------------------
(* Properties.                                                             *)

Snapshot == [prefix : Seq(Terms), term : 0 .. Len(History)]

Transfers == [leader : Leaders \cup {Nil}, author : 0 .. Len(History), boundary : Nat,
              received : 0 .. Chunks]

(***************************************************************************)
(* The type invariant.                                                     *)
(***************************************************************************)
TypeOK ==
    /\ term \in 0 .. Len(History) /\ vote \in Candidates \cup {Self, Nil}
    /\ commit \in 0 .. Len(Full)
    /\ snap \in Snapshot /\ log \in Seq(Terms) /\ incoming \in Transfers
    /\ hard \in [term : 0 .. Len(History), vote : Candidates \cup {Self, Nil}, commit : Nat]
    /\ dsnap \in Snapshot /\ compacted \in Nat /\ segment \in Seq(Terms)
    /\ staging \in Transfers /\ leaderOf \in [Terms -> Leaders]

(***************************************************************************)
(* No order of steps, failures and crashes leaves stores that the runtime  *)
(* rejects: no recovery is refused (a commit index past the log, a         *)
(* conflicting snapshot boundary, an entry or snapshot of a term after the *)
(* hard state's, an application ahead of the commit index), and no step    *)
(* finds the persisted prefix diverged or behind the snapshot.             *)
(***************************************************************************)
StoresRecover == pc # "broken"

(***************************************************************************)
(* A vote that has left the node is in the hard state from then on, until  *)
(* a later term, whatever crashes.                                         *)
(***************************************************************************)
VotesAreDurable ==
    \A p \in promised : p.kind = "Vote" =>
        hard.term > p.term \/ (hard.term = p.term /\ hard.vote = p.to)

(***************************************************************************)
(* Entries acknowledged to the leader of a term, by an append or a         *)
(* snapshot, are on the disk, in the snapshot or the log, as long as the   *)
(* node is in that term: truncations, promotions and compactions cut short *)
(* by a crash do not lose them.                                            *)
(***************************************************************************)
AcksAreDurable ==
    \A p \in promised : p.kind = "Ack" =>
        /\ hard.term >= p.term
        /\ hard.term = p.term => IsPrefix(Prefix(History[p.term], p.index), DiskLog)

(***************************************************************************)
(* What the application was given to apply is what the disk holds and      *)
(* declares committed, so a restart neither loses nor changes it.          *)
(***************************************************************************)
AppliedIsDurable ==
    /\ IsPrefix(applied, DiskLog)
    /\ Len(applied) <= RecoveredCommit

(***************************************************************************)
(* When a call has returned, memory and disk agree: term, vote, log,       *)
(* snapshot, and the transfer that a restart would resume; the commit      *)
(* index too, up to what the snapshot implies.                             *)
(***************************************************************************)
ReadyMeansPersisted ==
    pc = "ready" =>
        /\ hard.term = term /\ hard.vote = vote /\ RecoveredCommit = commit
        /\ dsnap = snap
        /\ DiskLog = Full
        /\ staging = incoming

(***************************************************************************)
(* The disk never goes back: neither the term, nor the commit index, nor   *)
(* the snapshot boundary.                                                  *)
(***************************************************************************)
DiskNeverRegresses ==
    [][/\ hard'.term >= hard.term
       /\ hard'.commit >= hard.commit
       /\ Boundary(dsnap') >= Boundary(dsnap)
       /\ compacted' >= compacted]_vars

=============================================================================
