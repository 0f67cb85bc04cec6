-------------------------------- MODULE Flow --------------------------------
(***************************************************************************)
(* How a leader of the rafter kernel brings one follower level during one  *)
(* term: the probe, the pipelined window of unacknowledged batches, the    *)
(* fall back after a rejection and the contact that repairs losses         *)
(* (node/state/progress.rs and node/replication/send.rs).                  *)
(*                                                                         *)
(* The leader's log is its length: it only grows in a term.  The follower's*)
(* log is the length of the prefix it shares with the leader's, `held`: by *)
(* the log matching property, which Replication establishes, an            *)
(* AppendEntries passes the follower's check exactly when its prev index   *)
(* is at most that, and then the follower holds its entries too.  The log  *)
(* of the leader is not compacted, so snapshot mode is not entered.        *)
(*                                                                         *)
(* Entries are of one size: byte limits are counts of entries, and the     *)
(* window is limited by the number of batches.  The batches in flight are  *)
(* known by their last indexes, which are sent in increasing order, so the *)
(* queue is a set.                                                         *)
(***************************************************************************)
EXTENDS Integers, FiniteSets

CONSTANTS NoopIndex,     \* index of the entry the leadership begins with
          MaxLast,       \* bound: clients stop when the log is this long
          BatchLen,      \* entries that fit max_append_entries_bytes
          MaxInflight,   \* max_inflight_appends
          MaxFlight,     \* bound: frames, and answers, in flight at once
          MaxRepeats     \* bound: messages that arrive more than once

ASSUME FlowAssumption == /\ NoopIndex \in Nat \ {0}
                         /\ MaxLast \in Nat
                         /\ NoopIndex <= MaxLast
                         /\ BatchLen \in Nat \ {0}
                         /\ MaxInflight \in Nat \ {0}
                         /\ MaxFlight \in Nat \ {0}
                         /\ MaxRepeats \in Nat

VARIABLES last,       \* last_log_index() of the leader
          progress,   \* leader.progress of the follower
          held,       \* the follower's agreement with the leader's log
          frames,     \* AppendEntries in flight
          answers,    \* AppendEntriesResponse in flight
          repeats     \* deliveries that left their message in flight

vars == <<last, progress, held, frames, answers, repeats>>

Lesser(a, b) == IF a < b THEN a ELSE b

Greater(a, b) == IF a < b THEN b ELSE a

(***************************************************************************)
(* Progress.  "Probe" and "Awaiting" are Probe {awaiting_response: false   *)
(* and true}.                                                              *)
(***************************************************************************)
Progress(match, next, mode, inflights) ==
    [match |-> match, next |-> next, mode |-> mode, inflights |-> inflights]

Probing(next) == Progress(0, next, "Probe", {})

(***************************************************************************)
(* A rejection forfeits the window and steps back, never below what the    *)
(* follower has acknowledged.                                              *)
(***************************************************************************)
CollapseIntoProbe(p) ==
    Progress(p.match, Greater(p.next - 1, p.match + 1), "Probe", {})

(***************************************************************************)
(* An acknowledgement raises the match index, frees the batches it covers  *)
(* and confirms the position of a follower that was probed.                *)
(***************************************************************************)
Acknowledge_Optimistic(p, reported) ==
    Progress(Greater(p.match, p.next - 1), Greater(p.next, p.match + 1), "Replicate",
             {i \in p.inflights : i > p.next - 1})

Acknowledge(p, reported) ==
    LET match == Greater(p.match, reported)
    IN  Progress(match, Greater(p.next, match + 1), "Replicate",
                 IF p.mode = "Replicate" THEN {i \in p.inflights : i > match} ELSE {})

(***************************************************************************)
(* log_batch_from_bounded: the batch from index i ends here.               *)
(***************************************************************************)
BatchEnd(l, i) == Lesser(l, i + BatchLen - 1)

(***************************************************************************)
(* fill_replication_window sends this many batches: until the window is    *)
(* full or the log is exhausted.                                           *)
(***************************************************************************)
WindowBatches_OneMore(l, p) ==
    Lesser(Greater(MaxInflight + 1 - Cardinality(p.inflights), 0),
           (Greater(l + 1 - p.next, 0) + BatchLen - 1) \div BatchLen)

WindowBatches(l, p) ==
    Lesser(Greater(MaxInflight - Cardinality(p.inflights), 0),
           (Greater(l + 1 - p.next, 0) + BatchLen - 1) \div BatchLen)

BatchEnds(l, p) ==
    {BatchEnd(l, p.next + BatchLen * k) : k \in 0 .. WindowBatches(l, p) - 1}

(***************************************************************************)
(* AppendEntries after index prev.                                         *)
(***************************************************************************)
Frame(prev, len) == [prev |-> prev, len |-> len]

(***************************************************************************)
(* replicate_to_follower: what is sent, and the progress afterwards.  A    *)
(* demand for contact sends at least an empty frame.                       *)
(***************************************************************************)
FramesFor_Silent(l, p, contact) ==
    CASE p.mode = "Probe" -> {Frame(p.next - 1, BatchEnd(l, p.next) + 1 - p.next)}
      [] p.mode = "Replicate" ->
            {Frame(p.next + BatchLen * k - 1,
                   BatchEnd(l, p.next + BatchLen * k) + 1 - p.next - BatchLen * k)
                : k \in 0 .. WindowBatches(l, p) - 1}
      [] OTHER -> {}

FramesFor(l, p, contact) ==
    CASE p.mode = "Probe" -> {Frame(p.next - 1, BatchEnd(l, p.next) + 1 - p.next)}
      [] p.mode = "Replicate" /\ WindowBatches(l, p) > 0 ->
            {Frame(p.next + BatchLen * k - 1,
                   BatchEnd(l, p.next + BatchLen * k) + 1 - p.next - BatchLen * k)
                : k \in 0 .. WindowBatches(l, p) - 1}
      [] OTHER -> IF contact THEN {Frame(p.next - 1, 0)} ELSE {}

AfterSend(l, p) ==
    CASE p.mode = "Probe" -> Progress(p.match, p.next, "Awaiting", {})
      [] p.mode = "Replicate" /\ WindowBatches(l, p) > 0 ->
            Progress(p.match,
                     BatchEnd(l, p.next + BatchLen * (WindowBatches(l, p) - 1)) + 1,
                     "Replicate",
                     p.inflights \cup BatchEnds(l, p))
      [] OTHER -> p

(***************************************************************************)
(* The network takes new messages.  When it holds too many it loses        *)
(* earlier ones.                                                           *)
(***************************************************************************)
Carried(before, new) ==
    LET all  == before \cup new
        kept == Lesser(Cardinality(all), Greater(MaxFlight, Cardinality(new)))
    IN  {S \in SUBSET all : new \subseteq S /\ Cardinality(S) = kept}

Replicate(l, p, contact) ==
    /\ progress' = AfterSend(l, p)
    /\ frames' \in Carried(frames, FramesFor(l, p, contact))

(***************************************************************************)
(* become_leader and its first broadcast.  The follower may lack any of    *)
(* the entries.                                                            *)
(***************************************************************************)
Init ==
    /\ last = NoopIndex
    /\ held \in 0 .. NoopIndex - 1
    /\ progress = AfterSend(last, Probing(NoopIndex))
    /\ frames = FramesFor(last, Probing(NoopIndex), TRUE)
    /\ answers = {}
    /\ repeats = 0

(***************************************************************************)
(* step_client_proposal.                                                   *)
(***************************************************************************)
ClientProposal ==
    /\ last < MaxLast
    /\ last' = last + 1
    /\ Replicate(last + 1, progress, FALSE)
    /\ UNCHANGED <<held, answers, repeats>>

(***************************************************************************)
(* The contact round of a tick.                                            *)
(***************************************************************************)
TickHeartbeat ==
    /\ Replicate(last, progress, TRUE)
    /\ UNCHANGED <<last, held, answers, repeats>>

(***************************************************************************)
(* The messages left when m is delivered: the network may keep a copy.     *)
(* Messages arrive in any order.                                           *)
(***************************************************************************)
Left(before, m, again) == IF again THEN before ELSE before \ {m}

Repeated(again) ==
    /\ repeats' = IF again THEN repeats + 1 ELSE repeats
    /\ repeats' <= MaxRepeats

(***************************************************************************)
(* The follower's handle_append_entries.                                   *)
(***************************************************************************)
HandleAppendEntries(f, again) ==
    LET accepted == f.prev <= held
        answer   == [success |-> accepted, match |-> IF accepted THEN f.prev + f.len ELSE 0]
    IN  /\ f \in frames
        /\ frames' = Left(frames, f, again)
        /\ Repeated(again)
        /\ held' = IF accepted THEN Greater(held, f.prev + f.len) ELSE held
        /\ answers' \in Carried(answers, {answer})
        /\ UNCHANGED <<last, progress>>

(***************************************************************************)
(* handle_append_entries_response: a freed slot pulls the next batch, and  *)
(* a rejection is answered with a probe at once.                           *)
(***************************************************************************)
HandleAppendEntriesResponse(a, again) ==
    /\ a \in answers
    /\ answers' = Left(answers, a, again)
    /\ Repeated(again)
    /\ IF a.success
       THEN Replicate(last, Acknowledge(progress, Lesser(a.match, last)), FALSE)
       ELSE Replicate(last, CollapseIntoProbe(progress), TRUE)
    /\ UNCHANGED <<last, held>>

(***************************************************************************)
(* The network loses a message.                                            *)
(***************************************************************************)
Lose ==
    \/ /\ \E f \in frames : frames' = frames \ {f}
       /\ UNCHANGED <<last, progress, held, answers, repeats>>
    \/ /\ \E a \in answers : answers' = answers \ {a}
       /\ UNCHANGED <<last, progress, held, frames, repeats>>

Next ==
    \/ ClientProposal
    \/ TickHeartbeat
    \/ \E f \in frames, again \in BOOLEAN : HandleAppendEntries(f, again)
    \/ \E a \in answers, again \in BOOLEAN : HandleAppendEntriesResponse(a, again)
    \/ Lose

(***************************************************************************)
(* Ticks keep coming, and a kind of message that is in flight again and    *)
(* again is not lost every time.  The kinds are those that tell the two    *)
(* sides something different: a frame extends the follower's log, is       *)
(* refused, informs the leader of more or confirms what it knows.          *)
(***************************************************************************)
Extends(f) == f.prev <= held /\ held < f.prev + f.len

Refused(f) == held < f.prev

Informs(f) == progress.match < f.prev + f.len /\ f.prev + f.len <= held

Confirms(f) == f.prev + f.len = progress.match

Fairness ==
    /\ WF_vars(TickHeartbeat)
    /\ SF_vars(\E f \in frames : Extends(f) /\ HandleAppendEntries(f, FALSE))
    /\ SF_vars(\E f \in frames : Refused(f) /\ HandleAppendEntries(f, FALSE))
    /\ SF_vars(\E f \in frames : Informs(f) /\ HandleAppendEntries(f, FALSE))
    /\ SF_vars(\E f \in frames : Confirms(f) /\ HandleAppendEntries(f, FALSE))
    /\ SF_vars(\E a \in answers : ~a.success /\ HandleAppendEntriesResponse(a, FALSE))
    /\ SF_vars(\E a \in answers : /\ a.success /\ a.match > progress.match
                                 /\ HandleAppendEntriesResponse(a, FALSE))
    /\ SF_vars(\E a \in answers : /\ a.success /\ a.match = progress.match
                                 /\ HandleAppendEntriesResponse(a, FALSE))

Spec == Init /\ [][Next]_vars

FairSpec == Spec /\ Fairness

----------------------------------------------------------------------------
(* Properties.                                                             *)

FrameType == {f \in [prev : 0 .. MaxLast, len : 0 .. BatchLen] : f.prev + f.len <= MaxLast}

AnswerType == {a \in [success : BOOLEAN, match : 0 .. MaxLast] : ~a.success => a.match = 0}

(***************************************************************************)
(* The type invariant.                                                     *)
(***************************************************************************)
TypeOK ==
    /\ last \in NoopIndex .. MaxLast
    /\ progress \in [match : 0 .. MaxLast, next : 1 .. MaxLast + 1,
                     mode : {"Probe", "Awaiting", "Replicate"},
                     inflights : SUBSET (1 .. MaxLast)]
    /\ held \in 0 .. MaxLast
    /\ frames \subseteq FrameType
    /\ answers \subseteq AnswerType
    /\ repeats \in 0 .. MaxRepeats

(***************************************************************************)
(* The window is consistent: the next index lies between what the follower *)
(* acknowledged and the end of the log; the batches in flight lie in       *)
(* between, the newest just before the next index; there are never more    *)
(* than max_inflight_appends; and only a confirmed follower has any.       *)
(* Rejections and acknowledgements may be late, repeated or out of order.  *)
(***************************************************************************)
WindowSound ==
    LET p == progress
    IN  /\ p.match < p.next
        /\ p.next <= last + 1
        /\ \A i \in p.inflights : p.match < i /\ i < p.next
        /\ p.inflights # {} => p.next - 1 \in p.inflights /\ p.mode = "Replicate"
        /\ Cardinality(p.inflights) <= MaxInflight

(***************************************************************************)
(* What the leader counts as matched, or may come to count when an answer  *)
(* under way arrives, the follower holds (accept_append_response).         *)
(***************************************************************************)
MatchSound ==
    /\ progress.match <= held
    /\ \A a \in answers : a.success => a.match <= held

(***************************************************************************)
(* Whatever is lost, the follower is brought level: every entry of the     *)
(* leader is in the end acknowledged.  An optimistic next index, a full    *)
(* window of lost batches or a lost probe never silences the leader for    *)
(* good.                                                                   *)
(***************************************************************************)
EventuallyMatched ==
    \A i \in NoopIndex .. MaxLast : (last >= i) ~> (progress.match >= i)

=============================================================================
