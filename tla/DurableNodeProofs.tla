------------------------- MODULE DurableNodeProofs -------------------------
(***************************************************************************)
(* The votes of a node outlive its crashes, for every history of the       *)
(* cluster, every set of candidates and snapshot boundaries, every size of *)
(* batch, and with or without a shared persistence domain.                 *)
(*                                                                         *)
(* A vote is promised by a step of the kernel and released by the runtime  *)
(* many writes later.  In between, the kernel may step on and any write    *)
(* may fail.  FenceInv relates the three places a vote is in meanwhile:    *)
(* the kernel, the outputs held back and the hard state.                   *)
(***************************************************************************)
EXTENDS DurableNode, TLAPS

(***************************************************************************)
(* The points of a call before the fence and after it, and those of a      *)
(* recovery.                                                               *)
(***************************************************************************)
Fenced == {"ready", "snapshots", "promote", "unstage", "compact", "repair", "append", "publish",
           "release", "captured", "retire"}

Recovering == {"off", "snapshots", "promote", "unstage", "compact", "broken"}

(***************************************************************************)
(* A node in term t with vote v keeps the promise p.                       *)
(***************************************************************************)
Keeps(t, v, p) == p.kind = "Vote" => t > p.term \/ (t = p.term /\ v = p.to)

Promises(S) == \A p \in S : p.kind = "Vote" => p.term \in Int /\ p.to # Nil

(***************************************************************************)
(* The kernel keeps the promises in the outputs, which are none during a   *)
(* recovery.  Before the fence it has not gone back behind the hard state, *)
(* and from the fence on the two agree.                                    *)
(***************************************************************************)
FenceInv ==
    /\ term \in Int /\ hard.term \in Int
    /\ Promises(outputs) /\ Promises(promised)
    /\ booting => outputs = {} /\ pc \in Recovering
    /\ pc = "off" => booting
    /\ pc \in Fenced \cup {"stepped"} /\ ~booting => \A p \in outputs : Keeps(term, vote, p)
    /\ pc = "stepped" => /\ hard.term <= term
                         /\ hard.term = term /\ hard.vote # Nil => vote = hard.vote
    /\ pc \in Fenced /\ ~booting => hard.term = term /\ hard.vote = vote
    /\ \A p \in promised : Keeps(hard.term, hard.vote, p)

----------------------------------------------------------------------------

(***************************************************************************)
(* A later term, or the same one with the vote given in it, keeps what was *)
(* promised.                                                               *)
(***************************************************************************)
LEMMA KeepsOn ==
    ASSUME NEW t \in Int, NEW v, NEW u \in Int, NEW w, NEW S, Promises(S),
           \A p \in S : Keeps(t, v, p),
           t <= u, t = u /\ v # Nil => w = v
    PROVE  \A p \in S : Keeps(u, w, p)
<1> SUFFICES ASSUME NEW p \in S, p.kind = "Vote"
             PROVE  u > p.term \/ (u = p.term /\ w = p.to)
  BY DEF Keeps
<1>1. p.term \in Int /\ p.to # Nil /\ (t > p.term \/ (t = p.term /\ v = p.to))
  BY DEF Keeps, Promises
<1> QED BY <1>1

(***************************************************************************)
(* A step of the kernel joins a call: it may raise the term, or give a     *)
(* first vote in it, and promises no other vote than that.                 *)
(***************************************************************************)
LEMMA StepKeepsFence ==
    ASSUME FenceInv, NEW P, NEW W, JoinCall(P, W),
           term' \in Int, term <= term', term = term' /\ vote # Nil => vote' = vote,
           \A p \in P : p.kind = "Vote" => p.term = term' /\ p.to = vote' /\ p.to # Nil
    PROVE  FenceInv'
<1>1. /\ pc \in {"ready", "stepped"} /\ pc' = "stepped" /\ outputs' = outputs \cup P
      /\ UNCHANGED <<hard, promised, booting>>
  BY DEF JoinCall, diskVars, releasedVars
<1>2. ~booting
  BY <1>1 DEF FenceInv, Recovering
<1>3. /\ term \in Int /\ hard.term \in Int /\ Promises(outputs) /\ Promises(promised)
      /\ \A p \in outputs : Keeps(term, vote, p)
      /\ \A p \in promised : Keeps(hard.term, hard.vote, p)
  BY <1>1, <1>2 DEF FenceInv, Fenced
<1>4. /\ hard.term <= term
      /\ hard.term = term /\ hard.vote # Nil => vote = hard.vote
  BY <1>1, <1>2, <1>3 DEF FenceInv, Fenced
<1>5. Promises(outputs')
  BY <1>1, <1>3 DEF Promises
<1>6. \A p \in outputs' : Keeps(term', vote', p)
  <2>1. \A p \in outputs : Keeps(term', vote', p)
    BY <1>3, KeepsOn
  <2>2. \A p \in P : Keeps(term', vote', p)
    BY DEF Keeps
  <2> QED BY <1>1, <2>1, <2>2
<1>7. /\ hard.term <= term'
      /\ hard.term = term' /\ hard.vote # Nil => vote' = hard.vote
  <2>1. hard.term <= term'
    BY <1>3, <1>4
  <2>2. ASSUME hard.term = term', hard.vote # Nil PROVE vote' = hard.vote
    <3>1. hard.term = term /\ term = term'
      BY <1>3, <1>4, <2>2
    <3> QED BY <1>4, <2>2, <3>1
  <2> QED BY <2>1, <2>2
<1> QED BY <1>1, <1>2, <1>3, <1>5, <1>6, <1>7 DEF FenceInv, Fenced

(***************************************************************************)
(* A write of the log, the snapshot or the staging area, a failure and a   *)
(* refusal touch neither term nor vote.                                    *)
(***************************************************************************)
LEMMA QuietKeepsFence ==
    ASSUME FenceInv, UNCHANGED <<term, vote, hard, outputs, promised, booting>>,
           booting => pc' \in Recovering,
           pc' # "off", pc' # "stepped",
           pc' \in Fenced => pc \in Fenced
    PROVE  FenceInv'
BY DEF FenceInv, Fenced

(***************************************************************************)
(* A write of the hard state after the steps of the call.                  *)
(***************************************************************************)
LEMMA WriteKeepsFence ==
    ASSUME FenceInv, pc \in {"stepped", "publish"}, hard'.term = term, hard'.vote = vote,
           UNCHANGED <<term, vote, outputs, promised, booting>>,
           pc' \in Fenced
    PROVE  FenceInv'
<1>1. ~booting
  BY DEF FenceInv, Recovering
<1>2. /\ term \in Int /\ hard.term \in Int /\ Promises(promised) /\ hard.term <= term
      /\ hard.term = term /\ hard.vote # Nil => vote = hard.vote
      /\ \A p \in promised : Keeps(hard.term, hard.vote, p)
  BY <1>1 DEF FenceInv, Fenced
<1>3. \A p \in promised : Keeps(term, vote, p)
  BY <1>2, KeepsOn
<1>4. \A p \in outputs : Keeps(term, vote, p)
  BY <1>1 DEF FenceInv, Fenced
<1> QED BY <1>1, <1>2, <1>3, <1>4 DEF FenceInv, Fenced

(***************************************************************************)
(* The steps of the kernel.                                                *)
(***************************************************************************)
LEMMA KernelKeepsFence == FenceInv /\ Step => FenceInv'
<1> SUFFICES ASSUME FenceInv, Step PROVE FenceInv'
  OBVIOUS
<1>0. term \in Int /\ Nil \notin Candidates \cup {Self}
  BY HistoryAssumption DEF FenceInv
<1>a. ASSUME NEW t \in Terms, AdoptTerm(t), vote' = VoteBefore(t)
      PROVE  term' \in Int /\ term <= term' /\ (term = term' /\ vote # Nil => vote' = vote)
  <2>1. t \in Int /\ t >= term /\ term' = t
    BY <1>a DEF Terms, AdoptTerm
  <2> QED BY <1>0, <1>a, <2>1 DEF VoteBefore
<1>b. ASSUME NEW t \in Terms, AdoptTerm(t), vote' = VoteBefore(t), NEW P, NEW W, JoinCall(P, W),
             \A p \in P : p.kind # "Vote"
      PROVE  FenceInv'
  BY <1>a, <1>b, StepKeepsFence
<1>c. \A t, i : \A p \in {[kind |-> "Ack", term |-> t, index |-> i]} : p.kind # "Vote"
  OBVIOUS
<1>1. ASSUME NEW t \in Terms, NEW c \in Candidates, NEW upToDate \in BOOLEAN,
             HandleRequestVote(t, c, upToDate)
      PROVE  FenceInv'
  <2> DEFINE granted == upToDate /\ VoteBefore(t) \in {Nil, c}
             P == IF granted THEN {[kind |-> "Vote", term |-> t, to |-> c]} ELSE {}
  <2>1. /\ t >= term /\ term' = t /\ t \in Int
        /\ vote' = IF granted THEN c ELSE VoteBefore(t)
        /\ JoinCall(P, <<>>)
    BY <1>1 DEF HandleRequestVote, AdoptTerm, Terms
  <2>2. term = term' => VoteBefore(t) = vote
    BY <1>0, <2>1 DEF VoteBefore
  <2>3. term = term' /\ vote # Nil => vote' = vote
    BY <2>1, <2>2
  <2>4. \A p \in P : p.kind = "Vote" => p.term = term' /\ p.to = vote' /\ p.to # Nil
    BY <1>0, <2>1
  <2> HIDE DEF P
  <2> QED BY <1>0, <2>1, <2>3, <2>4, StepKeepsFence
<1>2. CASE StartElection
  <2> DEFINE P == {[kind |-> "Vote", term |-> term + 1, to |-> Self]}
  <2>1. term' = term + 1 /\ vote' = Self /\ JoinCall(P, <<>>)
    BY <1>2 DEF StartElection
  <2>2. \A p \in P : p.kind = "Vote" => p.term = term' /\ p.to = vote' /\ p.to # Nil
    BY <1>0, <2>1
  <2> HIDE DEF P
  <2>3. term' \in Int /\ term <= term' /\ term # term'
    BY <1>0, <2>1
  <2> QED BY <2>1, <2>2, <2>3, StepKeepsFence
<1>3. ASSUME NEW t \in Terms, NEW prev, NEW n, NEW c, HandleAppendEntries(t, prev, n, c)
      PROVE  FenceInv'
  <2>1. /\ AdoptTerm(t) /\ vote' = VoteBefore(t)
        /\ \/ JoinCall({[kind |-> "Ack", term |-> t, index |-> prev + n]}, <<>>)
           \/ JoinCall({}, <<>>)
    BY <1>3, Zenon DEF HandleAppendEntries
  <2> QED BY <1>b, <1>c, <2>1
<1>4. ASSUME NEW t \in Terms, NEW a, NEW b, NEW offset, HandleInstallSnapshotChunk(t, a, b, offset)
      PROVE  FenceInv'
  <2>1. /\ AdoptTerm(t) /\ vote' = VoteBefore(t)
        /\ \E W : \/ JoinCall({}, W)
                  \/ \E i : JoinCall({[kind |-> "Ack", term |-> t, index |-> i]}, W)
    BY <1>4, ZenonT(30) DEF HandleInstallSnapshotChunk
  <2>2. PICK W : \/ JoinCall({}, W)
                 \/ \E i : JoinCall({[kind |-> "Ack", term |-> t, index |-> i]}, W)
    BY <2>1
  <2>3. CASE JoinCall({}, W)
    BY <1>b, <2>1, <2>3
  <2>4. ASSUME NEW i, JoinCall({[kind |-> "Ack", term |-> t, index |-> i]}, W)
        PROVE  FenceInv'
    <3> DEFINE P == {[kind |-> "Ack", term |-> t, index |-> i]}
    <3>1. JoinCall(P, W) /\ \A p \in P : p.kind # "Vote"
      BY <2>4
    <3> HIDE DEF P
    <3> QED BY <1>b, <2>1, <3>1
  <2> QED BY <2>2, <2>3, <2>4
<1> QED BY <1>1, <1>2, <1>3, <1>4 DEF Step

(***************************************************************************)
(* The writes of a call.                                                   *)
(***************************************************************************)
LEMMA PersistKeepsFence == FenceInv /\ Persist => FenceInv'
<1> SUFFICES ASSUME FenceInv, Persist PROVE FenceInv'
  OBVIOUS
<1>0. ASSUME pc \in Fenced, pc' \in Fenced \cup {"broken"}, pc' # "off", pc' # "stepped",
             booting => pc' \in Recovering,
             UNCHANGED <<term, vote, hard, outputs, promised, booting>>
      PROVE  FenceInv'
  BY <1>0, QuietKeepsFence
<1>1. CASE AtomicAppend
  BY <1>1, WriteKeepsFence DEF AtomicAppend, HardStateOfNode, kernelVars, releasedVars, Fenced
<1>2. CASE Fence
  BY <1>2, WriteKeepsFence DEF Fence, FencedState, kernelVars, callVars, releasedVars, Fenced
<1>3. CASE PublishHardState
  BY <1>3, WriteKeepsFence
    DEF PublishHardState, HardStateOfNode, kernelVars, callVars, releasedVars, Fenced
<1>4. CASE StageChunk
  <2>1. /\ pc = "snapshots" /\ pc' \in {"snapshots", "broken"}
        /\ UNCHANGED <<term, vote, hard, outputs, promised, booting>>
    BY <1>4, ZenonT(30) DEF StageChunk, Refuse, kernelVars, diskVars, callVars, releasedVars
  <2> QED BY <1>0, <2>1 DEF Fenced, Recovering
<1>5. CASE InstallTruncate
  <2>1. /\ pc = "snapshots" /\ pc' \in {"promote", "broken"}
        /\ UNCHANGED <<term, vote, hard, outputs, promised, booting>>
    BY <1>5, ZenonT(30) DEF InstallTruncate, Refuse, kernelVars, diskVars, callVars, releasedVars
  <2> QED BY <1>0, <2>1 DEF Fenced, Recovering
<1>6. CASE InstallPromote
  <2>1. /\ pc = "promote" /\ pc' \in {"unstage", "broken"}
        /\ UNCHANGED <<term, vote, hard, outputs, promised, booting>>
    BY <1>6, ZenonT(30) DEF InstallPromote, Refuse, kernelVars, diskVars, callVars, releasedVars
  <2> QED BY <1>0, <2>1 DEF Fenced, Recovering
<1>7. CASE InstallUnstage
  BY <1>0, <1>7 DEF InstallUnstage, kernelVars, callVars, releasedVars, Fenced, Recovering
<1>8. CASE InstallCompact
  BY <1>0, <1>8 DEF InstallCompact, kernelVars, releasedVars, Fenced, Recovering
<1>9. CASE ClearStaging
  BY <1>0, <1>9 DEF ClearStaging, kernelVars, callVars, releasedVars, Fenced
<1>10. CASE RepairSuffix
  <2>1. /\ pc = "repair" /\ pc' \in {"append", "broken"}
        /\ UNCHANGED <<term, vote, hard, outputs, promised, booting>>
    BY <1>10, ZenonT(30) DEF RepairSuffix, Refuse, kernelVars, diskVars, callVars, releasedVars
  <2>2. ~booting
    BY <2>1 DEF FenceInv, Recovering
  <2> QED BY <1>0, <2>1, <2>2 DEF Fenced
<1>11. CASE AppendSuffix
  <2>1. /\ pc = "append" /\ pc' \in {"publish", "broken"}
        /\ UNCHANGED <<term, vote, hard, outputs, promised, booting>>
    BY <1>11, ZenonT(30) DEF AppendSuffix, Refuse, kernelVars, diskVars, callVars, releasedVars
  <2>2. ~booting
    BY <2>1 DEF FenceInv, Recovering
  <2> QED BY <1>0, <2>1, <2>2 DEF Fenced
<1>12. CASE Release
  <2>1. /\ pc = "release" /\ pc' = "ready" /\ promised' = promised \cup outputs /\ outputs' = {}
        /\ UNCHANGED <<term, vote, hard, booting>>
    BY <1>12 DEF Release, kernelVars, diskVars
  <2>2. ~booting
    BY <2>1 DEF FenceInv, Recovering
  <2>3. hard.term = term /\ hard.vote = vote /\ \A p \in outputs : Keeps(term, vote, p)
    BY <2>1, <2>2 DEF FenceInv, Fenced
  <2>4. Promises(promised') /\ \A p \in promised' : Keeps(hard.term, hard.vote, p)
    BY <2>1, <2>3 DEF FenceInv, Promises
  <2> QED BY <2>1, <2>2, <2>3, <2>4 DEF FenceInv, Fenced, Promises
<1> QED
  BY <1>1, <1>2, <1>3, <1>4, <1>5, <1>6, <1>7, <1>8, <1>9, <1>10, <1>11, <1>12 DEF Persist

(***************************************************************************)
(* Local compaction, failures and recovery.                                *)
(***************************************************************************)
LEMMA RecoveryKeepsFence ==
    ASSUME FenceInv,
           \/ \E b \in Boundaries : CompactLog(b)
           \/ CompactUnstage \/ CompactRetire \/ Poison \/ Crash \/ Open \/ FinishCompaction
           \/ Hydrate
    PROVE  FenceInv'
<1>1. ASSUME NEW b \in Boundaries, CompactLog(b) PROVE FenceInv'
  BY <1>1, QuietKeepsFence
    DEF CompactLog, kernelVars, callVars, releasedVars, Fenced, FenceInv, Recovering
<1>2. CASE CompactUnstage
  BY <1>2, QuietKeepsFence
    DEF CompactUnstage, kernelVars, callVars, releasedVars, Fenced, FenceInv, Recovering
<1>3. CASE CompactRetire
  BY <1>3, QuietKeepsFence DEF CompactRetire, callVars, releasedVars, Fenced, FenceInv, Recovering
<1>4. CASE Poison
  BY <1>4, QuietKeepsFence DEF Poison, kernelVars, diskVars, callVars, releasedVars, Fenced
<1>5. CASE Crash
  <2>1. /\ term' = 0 /\ pc' = "off" /\ booting' = TRUE /\ outputs' = {}
        /\ UNCHANGED <<hard, promised>>
    BY <1>5 DEF Crash, diskVars, releasedVars
  <2> QED BY <2>1 DEF FenceInv, Fenced, Recovering, Promises
<1>6. CASE Open
  <2>1. booting
    BY <1>6 DEF Open, FenceInv
  <2> QED BY <1>6, <2>1
    DEF Open, FenceInv, Fenced, Recovering, kernelVars, diskVars, releasedVars
<1>7. CASE FinishCompaction
  BY <1>7, QuietKeepsFence
    DEF FinishCompaction, kernelVars, callVars, releasedVars, Fenced, Recovering
<1>8. CASE Hydrate
  <2>1. CASE Refuse
    BY <1>8, <2>1, QuietKeepsFence
      DEF Hydrate, Refuse, kernelVars, diskVars, callVars, releasedVars, Fenced, Recovering
  <2>2. CASE ~Refuse
    <3>1. /\ term' = hard.term /\ vote' = hard.vote /\ pc' = "ready" /\ booting' = FALSE
          /\ booting /\ UNCHANGED <<hard, outputs, promised>>
      BY <1>8, <2>2, ZenonT(30) DEF Hydrate
    <3> QED BY <3>1 DEF FenceInv, Fenced
  <2> QED BY <2>1, <2>2
<1> QED BY <1>1, <1>2, <1>3, <1>4, <1>5, <1>6, <1>7, <1>8

(***************************************************************************)
(* The invariant holds always.                                             *)
(***************************************************************************)
THEOREM FenceInvariant == Spec => []FenceInv
<1>1. Init => FenceInv
  BY DEF Init, FenceInv, Fenced, Recovering, Promises
<1>2. FenceInv /\ [Next]_vars => FenceInv'
  <2> SUFFICES ASSUME FenceInv, [Next]_vars PROVE FenceInv'
    OBVIOUS
  <2>1. CASE UNCHANGED vars
    BY <2>1 DEF FenceInv, vars, kernelVars, diskVars, callVars, releasedVars
  <2>2. CASE Next
    BY <2>2, KernelKeepsFence, PersistKeepsFence, RecoveryKeepsFence, Zenon DEF Next
  <2> QED BY <2>1, <2>2
<1> QED BY <1>1, <1>2, PTL DEF Spec

(***************************************************************************)
(* A vote that has left the node binds it: the hard state holds the vote,  *)
(* or a later term, after any crash, failed write and recovery             *)
(* (step_and_persist, persist_hard_state, hydrate).                        *)
(***************************************************************************)
THEOREM ReleasedVotesAreDurable == Spec => []VotesAreDurable
<1>1. FenceInv => VotesAreDurable
  BY DEF FenceInv, Keeps, VotesAreDurable
<1> QED BY <1>1, FenceInvariant, PTL

=============================================================================
