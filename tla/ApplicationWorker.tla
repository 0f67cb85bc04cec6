------------------------- MODULE ApplicationWorker -------------------------
(***************************************************************************)
(* The application worker of rafter-runtime (src/application): one thread  *)
(* that applies committed entries to a durable store, in batches, for an   *)
(* owner that submits them without blocking and polls for events.          *)
(*                                                                         *)
(* Two actors share a request channel, an event channel, two atomics and a *)
(* mutex: the owner, whose calls are atomic towards the thread because it  *)
(* holds the mutex while it sends, and the thread, whose steps are those   *)
(* between which the owner can look or act.  The store may fail, report a  *)
(* wrong floor or panic.  After the thread has ended the owner may start a *)
(* new worker on the store, at its durable floor, as a restarted process   *)
(* does.                                                                   *)
(*                                                                         *)
(* Entries are their log indexes, and a batch of entries is the interval   *)
(* [first, last].  Byte counts are differences of the running totals       *)
(* RetainedUpTo and BatchUpTo.                                             *)
(***************************************************************************)
EXTENDS Integers, Sequences

CONSTANTS InflightEntries,   \* options.inflight_entries
          InflightBytes,     \* options.inflight_bytes
          BatchEntries,      \* options.batch_entries
          BatchBytes,        \* options.batch_bytes
          MaxIndex,          \* bound: the last entry there is
          RetainedUpTo,      \* retained_bytes of the entries up to an index
          BatchUpTo,         \* batch_bytes of the entries up to an index
          MaxStarts          \* bound: how often a worker is started

Index == 0 .. MaxIndex

(***************************************************************************)
(* ApplicationWorkerOptions::validate.                                     *)
(***************************************************************************)
ASSUME OptionsAssumption ==
    /\ InflightEntries \in Nat \ {0} /\ InflightBytes \in Nat \ {0}
    /\ BatchEntries \in Nat \ {0} /\ BatchBytes \in Nat \ {0}
    /\ BatchEntries <= InflightEntries

ASSUME EntriesAssumption ==
    /\ MaxIndex \in Nat /\ MaxStarts \in Nat \ {0}
    /\ RetainedUpTo \in [Index -> Nat] /\ BatchUpTo \in [Index -> Nat]
    /\ \A i, j \in Index : i <= j =>
          RetainedUpTo[i] <= RetainedUpTo[j] /\ BatchUpTo[i] <= BatchUpTo[j]

VARIABLES accepting,         \* shared.accepting
          acceptedThrough,   \* shared.accepted_through
          inflightEntries,   \* shared.inflight_entries
          inflightBytes,     \* shared.inflight_bytes
          requests,          \* the request channel
          hasSender,         \* the owner's end of it: requests.is_some()
          events,            \* the event channel
          durableThrough,    \* durable_through
          applyingThrough,   \* applying_through
          phase,             \* where the thread is
          work,              \* the batch the thread is working on
          deferred,          \* deferred
          floor,             \* the store's applied_through(), durable
          panicked,          \* the thread is unwinding, or did
          owner,             \* "Live", waiting for the thread, or done with it
          taken,             \* the last entry the owner got back
          starts             \* how many workers were started

shared == <<accepting, acceptedThrough, inflightEntries, inflightBytes>>

thread == <<phase, work, deferred, floor, panicked>>

atomics == <<durableThrough, applyingThrough>>

ownership == <<hasSender, owner, taken, starts>>

vars == <<shared, requests, events, thread, atomics, ownership>>

Batch(first, last) == [first |-> first, last |-> last]

NoWork == Batch(1, 0)

Size(b) == b.last - b.first + 1

Retained(b) == RetainedUpTo[b.last] - RetainedUpTo[b.first - 1]

BytesOfBatch(b) == BatchUpTo[b.last] - BatchUpTo[b.first - 1]

(***************************************************************************)
(* prepare_submission and drain_ready: what one call of apply may get.     *)
(***************************************************************************)
FitsBatch(b) == Size(b) <= BatchEntries /\ BytesOfBatch(b) <= BatchBytes

(***************************************************************************)
(* start.                                                                  *)
(***************************************************************************)
Init ==
    /\ floor \in Index
    /\ starts = 1
    /\ accepting = TRUE
    /\ acceptedThrough = floor
    /\ inflightEntries = 0 /\ inflightBytes = 0
    /\ requests = <<>> /\ events = <<>>
    /\ hasSender = TRUE
    /\ durableThrough = floor /\ applyingThrough = 0
    /\ phase = "Receiving" /\ work = NoWork /\ deferred = <<>>
    /\ panicked = FALSE
    /\ owner = "Live" /\ taken = floor

----------------------------------------------------------------------------
(* The owner.                                                              *)

(***************************************************************************)
(* try_submit: a refusal changes nothing, so it is not a step.  Only if    *)
(* the worker's end of the channel is gone is the admission rolled back,   *)
(* and closed.                                                             *)
(***************************************************************************)
HasRoom_Entries(b) == Size(b) <= InflightEntries - inflightEntries

HasRoom(b) ==
    /\ Size(b) <= InflightEntries - inflightEntries
    /\ Retained(b) <= InflightBytes - inflightBytes

Reachable == hasSender /\ phase # "Exited"

TrySubmit(last) ==
    LET b == Batch(acceptedThrough + 1, last)
    IN  /\ owner \in {"Live", "Joined"}
        /\ accepting
        /\ last > acceptedThrough
        /\ FitsBatch(b)
        /\ HasRoom(b)
        /\ IF Reachable
           THEN /\ acceptedThrough' = last
                /\ inflightEntries' = inflightEntries + Size(b)
                /\ inflightBytes' = inflightBytes + Retained(b)
                /\ requests' = Append(requests, b)
                /\ UNCHANGED accepting
           ELSE /\ accepting' = FALSE
                /\ UNCHANGED <<acceptedThrough, inflightEntries, inflightBytes, requests>>
        /\ UNCHANGED <<events, thread, atomics, ownership>>

(***************************************************************************)
(* try_complete and complete: the next event, whose credits are released;  *)
(* or, when the thread's end of the channel is gone and no event is left,  *)
(* all credits.                                                            *)
(***************************************************************************)
Complete ==
    /\ owner \in {"Live", "Joined"}
    /\ events # <<>>
    /\ events' = Tail(events)
    /\ inflightEntries' = inflightEntries - Size(Head(events))
    /\ inflightBytes' = inflightBytes - Retained(Head(events))
    /\ taken' = Head(events).last
    /\ UNCHANGED <<accepting, acceptedThrough, requests, thread, atomics, hasSender, owner, starts>>

ReleaseStopped ==
    /\ owner \in {"Live", "Joined"}
    /\ events = <<>>
    /\ phase = "Exited"
    /\ accepting' = FALSE
    /\ inflightEntries' = 0
    /\ inflightBytes' = 0
    /\ UNCHANGED <<acceptedThrough, requests, events, thread, atomics, ownership>>

(***************************************************************************)
(* shutdown, shutdown_into_store: refused while there is work.  Drop joins *)
(* a busy thread too, and abandons its events.                             *)
(***************************************************************************)
Join_KeepSender(waiting) ==
    /\ owner = "Live"
    /\ owner' = waiting
    /\ UNCHANGED <<shared, requests, events, thread, atomics, hasSender, taken, starts>>

Join(waiting) ==
    /\ owner = "Live"
    /\ owner' = waiting
    /\ hasSender' = FALSE
    /\ UNCHANGED <<shared, requests, events, thread, atomics, taken, starts>>

Shutdown == inflightEntries = 0 /\ Join("Joining")

Abandon == Join("Dropping")

Joined ==
    /\ owner \in {"Joining", "Dropping"}
    /\ phase = "Exited"
    /\ owner' = IF owner = "Joining" THEN "Joined" ELSE "Dropped"
    /\ UNCHANGED <<shared, requests, events, thread, atomics, hasSender, taken, starts>>

(***************************************************************************)
(* A new worker on the same store; what the old one held is gone.          *)
(***************************************************************************)
Start ==
    /\ owner \in {"Joined", "Dropped"}
    /\ starts < MaxStarts
    /\ starts' = starts + 1
    /\ UNCHANGED floor
    /\ accepting' = TRUE
    /\ acceptedThrough' = floor
    /\ inflightEntries' = 0 /\ inflightBytes' = 0
    /\ requests' = <<>> /\ events' = <<>>
    /\ hasSender' = TRUE
    /\ durableThrough' = floor /\ applyingThrough' = 0
    /\ phase' = "Receiving" /\ work' = NoWork /\ deferred' = <<>>
    /\ panicked' = FALSE
    /\ owner' = "Live" /\ taken' = floor

----------------------------------------------------------------------------
(* The thread (run::State::run).                                           *)

(***************************************************************************)
(* The deferred batch goes first; without one, recv blocks until there is  *)
(* a request, and ends the loop when there is none and no sender.          *)
(***************************************************************************)
Receive ==
    /\ phase = "Receiving"
    /\ \/ /\ deferred # <<>>
          /\ work' = Head(deferred) /\ deferred' = Tail(deferred)
          /\ phase' = "Draining"
          /\ UNCHANGED requests
       \/ /\ deferred = <<>> /\ requests # <<>>
          /\ work' = Head(requests) /\ requests' = Tail(requests)
          /\ phase' = "Draining"
          /\ UNCHANGED deferred
       \/ /\ deferred = <<>> /\ requests = <<>> /\ ~hasSender
          /\ phase' = "Leaving"
          /\ UNCHANGED <<work, deferred, requests>>
    /\ UNCHANGED <<shared, events, atomics, floor, panicked, ownership>>

(***************************************************************************)
(* drain_ready, one try_recv at a time: the batch grows by what is ready   *)
(* until that would exceed a limit, and then goes to the store.            *)
(***************************************************************************)
BeginApply ==
    /\ phase' = "Applying"
    /\ applyingThrough' = work.last
    /\ UNCHANGED work

DrainReady_DropsLarge ==
    LET combined == Batch(work.first, Head(requests).last)
    IN  /\ phase = "Draining"
        /\ IF requests = <<>>
           THEN BeginApply /\ UNCHANGED <<requests, deferred>>
           ELSE /\ requests' = Tail(requests)
                /\ UNCHANGED deferred
                /\ IF FitsBatch(combined)
                   THEN work' = combined /\ UNCHANGED <<phase, applyingThrough>>
                   ELSE BeginApply
        /\ UNCHANGED <<shared, events, durableThrough, floor, panicked, ownership>>

DrainReady ==
    LET combined == Batch(work.first, Head(requests).last)
    IN  /\ phase = "Draining"
        /\ IF requests = <<>>
           THEN BeginApply /\ UNCHANGED <<requests, deferred>>
           ELSE /\ requests' = Tail(requests)
                /\ IF FitsBatch(combined)
                   THEN /\ work' = combined
                        /\ UNCHANGED <<phase, applyingThrough, deferred>>
                   ELSE /\ deferred' = Append(deferred, Head(requests))
                        /\ BeginApply
        /\ UNCHANGED <<shared, events, durableThrough, floor, panicked, ownership>>

(***************************************************************************)
(* store.apply succeeds, with one outcome per entry and the right floor.   *)
(***************************************************************************)
ApplyOk ==
    /\ phase = "Applying"
    /\ floor' = work.last
    /\ durableThrough' = work.last
    /\ phase' = "Publishing"
    /\ UNCHANGED <<shared, requests, events, work, deferred, panicked, applyingThrough, ownership>>

(***************************************************************************)
(* It fails, or returns too few outcomes or another floor than the batch's *)
(* last index: how much of the batch is durable is up to the store.        *)
(***************************************************************************)
ApplyFailed_Reported(applied) ==
    /\ phase = "Applying"
    /\ applied \in floor .. work.last
    /\ floor' = applied
    /\ durableThrough' = work.last
    /\ phase' = "Failing"
    /\ UNCHANGED <<shared, requests, events, work, deferred, panicked, applyingThrough, ownership>>

ApplyFailed(applied) ==
    /\ phase = "Applying"
    /\ applied \in floor .. work.last
    /\ floor' = applied
    /\ phase' = "Failing"
    /\ UNCHANGED <<shared, requests, events, work, deferred, panicked, atomics, ownership>>

(***************************************************************************)
(* failure: under the mutex, admission is closed and everything accepted   *)
(* is collected into the event.                                            *)
(***************************************************************************)
LastOf(b, s) == IF s = <<>> THEN b.last ELSE s[Len(s)].last

Failure_WithoutDeferred ==
    /\ phase = "Failing"
    /\ accepting' = FALSE
    /\ work' = Batch(work.first, LastOf(work, requests))
    /\ deferred' = <<>> /\ requests' = <<>>
    /\ phase' = "PublishingFailure"
    /\ UNCHANGED <<acceptedThrough, inflightEntries, inflightBytes, events, floor, panicked,
                   atomics, ownership>>

Failure ==
    /\ phase = "Failing"
    /\ accepting' = FALSE
    /\ work' = Batch(work.first, LastOf(work, deferred \o requests))
    /\ deferred' = <<>> /\ requests' = <<>>
    /\ phase' = "PublishingFailure"
    /\ UNCHANGED <<acceptedThrough, inflightEntries, inflightBytes, events, floor, panicked,
                   atomics, ownership>>

(***************************************************************************)
(* The event is sent; the owner's end of the channel outlives the thread.  *)
(***************************************************************************)
Publish ==
    /\ phase \in {"Publishing", "PublishingFailure"}
    /\ applyingThrough' = 0
    /\ events' = Append(events, work)
    /\ work' = NoWork
    /\ phase' = IF phase = "Publishing" THEN "Notifying" ELSE "NotifyingFailure"
    /\ UNCHANGED <<shared, requests, deferred, floor, panicked, durableThrough, ownership>>

Notify ==
    /\ phase \in {"Notifying", "NotifyingFailure"}
    /\ phase' = IF phase = "Notifying" THEN "Receiving" ELSE "Leaving"
    /\ UNCHANGED <<shared, requests, events, work, deferred, floor, panicked, atomics, ownership>>

(***************************************************************************)
(* The store panics in apply, or the wake callback does: the batch and the *)
(* deferred one are dropped.                                               *)
(***************************************************************************)
Panic(applied) ==
    /\ \/ phase = "Applying" /\ applied \in floor .. work.last
       \/ phase \in {"Notifying", "NotifyingFailure"} /\ applied = floor
    /\ floor' = applied
    /\ panicked' = TRUE
    /\ work' = NoWork /\ deferred' = <<>>
    /\ phase' = "Leaving"
    /\ UNCHANGED <<shared, requests, events, atomics, ownership>>

(***************************************************************************)
(* TerminationGuard::drop, then the drop of the request channel.           *)
(* Admission is closed before either channel is; then nothing can be sent  *)
(* any more, and that the two close one after the other cannot be seen.    *)
(***************************************************************************)
Terminate_Open ==
    /\ phase = "Leaving"
    /\ applyingThrough' = 0
    /\ phase' = "Closing"
    /\ UNCHANGED <<shared, requests, events, work, deferred, floor, panicked, durableThrough,
                   ownership>>

Terminate ==
    /\ phase = "Leaving"
    /\ applyingThrough' = 0
    /\ accepting' = FALSE
    /\ phase' = "Closing"
    /\ UNCHANGED <<acceptedThrough, inflightEntries, inflightBytes, requests, events, work,
                   deferred, floor, panicked, durableThrough, ownership>>

Exit ==
    /\ phase = "Closing"
    /\ requests' = <<>>
    /\ phase' = "Exited"
    /\ UNCHANGED <<shared, events, work, deferred, floor, panicked, atomics, ownership>>

Runs == \/ Receive \/ DrainReady \/ ApplyOk \/ Failure \/ Publish \/ Notify
        \/ Terminate \/ Exit

Fails == \E i \in Index : ApplyFailed(i) \/ Panic(i)

Next ==
    \/ \E i \in Index : TrySubmit(i)
    \/ Complete \/ ReleaseStopped \/ Shutdown \/ Abandon \/ Joined \/ Start
    \/ Runs
    \/ Fails

(***************************************************************************)
(* The thread is scheduled and every call of apply returns, a join returns *)
(* when the thread has ended, and the owner polls for events.              *)
(***************************************************************************)
Fairness ==
    /\ WF_vars(Runs \/ Fails)
    /\ WF_vars(Joined)
    /\ WF_vars(Complete \/ ReleaseStopped)

Spec == Init /\ [][Next]_vars

FairSpec == Spec /\ Fairness

----------------------------------------------------------------------------
(* Properties.                                                             *)

BatchSet == [first : Index \ {0}, last : Index]

Phases == {"Receiving", "Draining", "Applying", "Failing", "Publishing", "PublishingFailure",
           "Notifying", "NotifyingFailure", "Leaving", "Closing", "Exited"}

(***************************************************************************)
(* The type invariant.  Credits are unsigned: release and release_stopped  *)
(* together never take more than was given.                                *)
(***************************************************************************)
TypeOK ==
    /\ accepting \in BOOLEAN /\ hasSender \in BOOLEAN /\ panicked \in BOOLEAN
    /\ acceptedThrough \in Index /\ taken \in Index /\ floor \in Index
    /\ durableThrough \in Index /\ applyingThrough \in Index
    /\ inflightEntries \in Nat /\ inflightBytes \in Nat
    /\ requests \in Seq(BatchSet) /\ events \in Seq(BatchSet) /\ deferred \in Seq(BatchSet)
    /\ work \in BatchSet \cup {NoWork}
    /\ phase \in Phases
    /\ owner \in {"Live", "Joining", "Dropping", "Joined", "Dropped"}
    /\ starts \in Nat

(***************************************************************************)
(* s is a sequence of nonempty batches that covers the indexes above       *)
(* `after`, up to `through`, each once and in order.                       *)
(***************************************************************************)
Covers(s, after, through) ==
    /\ through = IF s = <<>> THEN after ELSE s[Len(s)].last
    /\ \A k \in DOMAIN s :
          /\ s[k].first <= s[k].last
          /\ s[k].first = 1 + IF k = 1 THEN after ELSE s[k - 1].last

InHand == IF work = NoWork THEN <<>> ELSE <<work>>

(***************************************************************************)
(* Unless the thread panicked, every entry that was accepted and that the  *)
(* owner has not got back is in exactly one place, and the events, the     *)
(* batch in hand, the deferred one and the request channel hold them in    *)
(* order (run, drain_ready, failure): no failure, shutdown or submission   *)
(* that races one loses, repeats or reorders an entry.  The events of a    *)
(* worker that panicked are in order too.                                  *)
(***************************************************************************)
HeldInOrder ==
    IF panicked
    THEN Covers(events, taken, IF events = <<>> THEN taken ELSE events[Len(events)].last)
    ELSE Covers(events \o InHand \o deferred \o requests, taken, acceptedThrough)

(***************************************************************************)
(* The credits in use are those of the entries accepted and not got back,  *)
(* within both limits, until a worker that stopped gives all of them back  *)
(* (try_submit, release, release_stopped).                                 *)
(***************************************************************************)
CreditsExact ==
    /\ \/ /\ inflightEntries = acceptedThrough - taken
          /\ inflightBytes = RetainedUpTo[acceptedThrough] - RetainedUpTo[taken]
       \/ /\ inflightEntries = 0 /\ inflightBytes = 0
          /\ phase = "Exited" /\ panicked /\ events = <<>>
    /\ inflightEntries <= InflightEntries
    /\ inflightBytes <= InflightBytes

(***************************************************************************)
(* While entries are admitted both ends of the request channel are there,  *)
(* so the roll-back in try_submit, which would hand entries back after     *)
(* their credits were taken, is never needed (TerminationGuard::drop).     *)
(***************************************************************************)
AdmissionReachesThread ==
    accepting /\ owner \in {"Live", "Joined"} => Reachable

(***************************************************************************)
(* The worker keeps the promises of ApplyService.                          *)
(***************************************************************************)
Service == INSTANCE ApplyService
             WITH open <- accepting, accepted <- acceptedThrough, durable <- durableThrough

ServiceSpec == Service!ServiceSpec

(***************************************************************************)
(* Shutdown and drop, which wait for the thread, return: the thread is     *)
(* never left waiting for requests that cannot come (shutdown, run).       *)
(***************************************************************************)
JoinReturns ==
    owner \in {"Joining", "Dropping"} ~> owner \in {"Joined", "Dropped"}

(***************************************************************************)
(* An owner that polls gets every accepted entry back in an event, or      *)
(* learns that the worker stopped, unless it stops the worker itself       *)
(* (try_complete, run).                                                    *)
(***************************************************************************)
EntriesAreAnswered ==
    \A i \in Index :
        taken < i /\ i <= acceptedThrough ~>
            \/ i <= taken
            \/ phase = "Exited" /\ events = <<>> /\ inflightEntries = 0
            \/ owner # "Live"

=============================================================================
