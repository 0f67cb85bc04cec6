---------------------- MODULE ApplicationWorkerProofs ----------------------
(***************************************************************************)
(* What holds of the application worker for every option, every sequence   *)
(* of entries and every number of restarts.                                *)
(*                                                                         *)
(* The entries on their way through the worker form a chain: the events    *)
(* begin where the owner's last event ended, the batch in hand begins      *)
(* where the events end, the deferred batch where the batch in hand ends,  *)
(* the request channel behind that, and the last request ends at           *)
(* acceptedThrough.  WorkerInv says so link by link, because a property of *)
(* the concatenation of the four is not preserved in one step of reasoning.*)
(***************************************************************************)
EXTENDS ApplicationWorker, SequenceTheorems, TLAPS

(***************************************************************************)
(* s covers the indexes above `after` up to `through`, and none of its     *)
(* batches passes `through`.                                               *)
(***************************************************************************)
Chain(s, after, through) ==
    /\ \A k \in 1 .. Len(s) : s[k].first <= s[k].last /\ s[k].last <= through
    /\ \A k \in 1 .. Len(s) - 1 : s[k + 1].first = s[k].last + 1
    /\ s = <<>> => through = after
    /\ s # <<>> => s[1].first = after + 1 /\ s[Len(s)].last = through

(***************************************************************************)
(* The phases before a failure, in which the worker takes new entries, and *)
(* those in which it has begun a batch that is not durable yet.            *)
(***************************************************************************)
Working == {"Receiving", "Draining", "Applying", "Failing", "Publishing", "Notifying"}

Busy == {"Draining", "Applying", "Failing"}

(***************************************************************************)
(* Where the events end, where the batch in hand does, and where the       *)
(* deferred one does.                                                      *)
(***************************************************************************)
Answered == IF events = <<>> THEN taken ELSE events[Len(events)].last

Begun == IF phase \in Busy THEN work.last ELSE durableThrough

DeferredEnd == IF deferred = <<>> THEN Begun ELSE deferred[1].last

Types ==
    /\ accepting \in BOOLEAN /\ hasSender \in BOOLEAN /\ panicked \in BOOLEAN
    /\ acceptedThrough \in Index /\ taken \in Index /\ floor \in Index
    /\ durableThrough \in Index /\ applyingThrough \in Index
    /\ inflightEntries \in Int /\ inflightBytes \in Int
    /\ requests \in Seq(BatchSet) /\ events \in Seq(BatchSet) /\ deferred \in Seq(BatchSet)
    /\ work \in BatchSet \cup {NoWork}
    /\ phase \in Phases
    /\ owner \in {"Live", "Joining", "Dropping", "Joined", "Dropped"}
    /\ starts \in Nat

(***************************************************************************)
(* Who may still reach the thread, and when admission is open.             *)
(***************************************************************************)
Admission ==
    /\ owner = "Live" => hasSender
    /\ owner \in {"Joined", "Dropped"} => phase = "Exited"
    /\ phase \in Working => accepting /\ ~panicked
    /\ phase \in {"PublishingFailure", "NotifyingFailure"} => ~accepting /\ ~panicked
    /\ phase \in {"Closing", "Exited"} => ~accepting
    /\ phase = "Leaving" /\ ~panicked => ~accepting \/ ~hasSender

(***************************************************************************)
(* The links of the chain.                                                 *)
(***************************************************************************)
Links ==
    /\ Chain(events, taken, Answered)
    /\ Answered <= acceptedThrough
    /\ phase \in {"Receiving", "Notifying"} \cup Busy => Answered = durableThrough
    /\ phase \in Busy \cup {"Publishing", "PublishingFailure"} =>
          work \in BatchSet /\ work.first = Answered + 1 /\ work.first <= work.last
    /\ phase = "Publishing" => work.last = durableThrough
    /\ phase = "PublishingFailure" => work.last = acceptedThrough
    /\ phase \in {"NotifyingFailure", "Leaving", "Closing", "Exited"} /\ ~panicked =>
          Answered = acceptedThrough
    /\ phase \in Working => /\ Chain(deferred, Begun, DeferredEnd)
                            /\ Chain(requests, DeferredEnd, acceptedThrough)
    /\ phase = "Draining" => deferred = <<>>
    /\ Len(deferred) <= 1
    /\ durableThrough <= floor /\ floor <= acceptedThrough

WorkerInv == Types /\ Admission /\ Links /\ CreditsExact

----------------------------------------------------------------------------
(* Chains.                                                                 *)

(***************************************************************************)
(* Indexes are numbers.                                                    *)
(***************************************************************************)
LEMMA IndexIsInt == 0 \in Index /\ \A i \in Index : i \in Int /\ i >= 0 /\ i <= MaxIndex
<1>1. MaxIndex \in Nat
  BY EntriesAssumption
<1> QED BY <1>1 DEF Index

(***************************************************************************)
(* The ends of a batch are indexes.                                        *)
(***************************************************************************)
LEMMA BatchIsInt ==
    ASSUME NEW b \in BatchSet
    PROVE  /\ b.first \in Int /\ b.last \in Int /\ b.first >= 1
           /\ b.first \in Index /\ b.last \in Index
<1>1. b.first \in Index /\ b.first # 0 /\ b.last \in Index
  BY DEF BatchSet
<1> QED BY <1>1, IndexIsInt

(***************************************************************************)
(* A chain does not end before it begins.                                  *)
(***************************************************************************)
LEMMA ChainEnds ==
    ASSUME NEW s \in Seq(BatchSet), NEW a \in Index, NEW t \in Index, Chain(s, a, t)
    PROVE  a <= t
<1>1. CASE s = <<>>
  BY <1>1, IndexIsInt DEF Chain
<1>2. CASE s # <<>>
  <2>1. Len(s) \in Nat /\ Len(s) >= 1 /\ s[1] \in BatchSet
    BY <1>2
  <2>2. s[1].first \in Int /\ s[1].last \in Int
    BY <2>1, BatchIsInt
  <2>3. s[1].first <= s[1].last /\ s[1].last <= t /\ s[1].first = a + 1
    BY <1>2, <2>1 DEF Chain
  <2> QED BY <2>2, <2>3, IndexIsInt
<1> QED BY <1>1, <1>2

(***************************************************************************)
(* A batch that begins where the chain ends continues it.                  *)
(***************************************************************************)
LEMMA ChainAppend ==
    ASSUME NEW s \in Seq(BatchSet), NEW a \in Index, NEW t \in Index, Chain(s, a, t),
           NEW b \in BatchSet, b.first = t + 1, b.first <= b.last
    PROVE  /\ Chain(Append(s, b), a, b.last)
           /\ Append(s, b) \in Seq(BatchSet) /\ Append(s, b) # <<>>
           /\ Append(s, b)[Len(Append(s, b))] = b
<1> DEFINE r == Append(s, b)
<1>1. /\ r \in Seq(BatchSet) /\ Len(r) = Len(s) + 1 /\ r[Len(r)] = b /\ r # <<>>
      /\ \A k \in 1 .. Len(s) : r[k] = s[k]
  OBVIOUS
<1>2. Len(s) \in Nat /\ t \in Int /\ b.first \in Int /\ b.last \in Int
  BY BatchIsInt, IndexIsInt
<1>3. \A k \in 1 .. Len(s) : s[k].first \in Int /\ s[k].last \in Int
  <2> SUFFICES ASSUME NEW k \in 1 .. Len(s) PROVE s[k].first \in Int /\ s[k].last \in Int
    OBVIOUS
  <2>1. s[k] \in BatchSet
    OBVIOUS
  <2> QED BY <2>1, BatchIsInt
<1> HIDE DEF r
<1>4. \A k \in 1 .. Len(r) : r[k].first <= r[k].last /\ r[k].last <= b.last
  <2> SUFFICES ASSUME NEW k \in 1 .. Len(r)
               PROVE  r[k].first <= r[k].last /\ r[k].last <= b.last
    OBVIOUS
  <2>1. CASE k = Len(r)
    BY <2>1, <1>1, <1>2
  <2>2. CASE k # Len(r)
    <3>1. k \in 1 .. Len(s) /\ r[k] = s[k]
      BY <2>2, <1>1, <1>2
    <3>2. s[k].first <= s[k].last /\ s[k].last <= t
      BY <3>1 DEF Chain
    <3> QED BY <3>1, <3>2, <1>2, <1>3
  <2> QED BY <2>1, <2>2
<1>5. \A k \in 1 .. Len(r) - 1 : r[k + 1].first = r[k].last + 1
  <2>0. Len(r) - 1 = Len(s)
    BY <1>1, <1>2
  <2> SUFFICES ASSUME NEW k \in 1 .. Len(s) PROVE r[k + 1].first = r[k].last + 1
    BY <2>0
  <2>1. CASE k = Len(s)
    <3>1. s # <<>> /\ s[Len(s)].last = t
      BY <2>1 DEF Chain
    <3> QED BY <1>1, <1>2, <2>1, <3>1
  <2>2. CASE k # Len(s)
    <3>1. k \in 1 .. Len(s) - 1 /\ k + 1 \in 1 .. Len(s)
      BY <2>2, <1>2
    <3> QED BY <1>1, <3>1 DEF Chain
  <2> QED BY <2>1, <2>2
<1>6. r[1].first = a + 1
  <2>1. CASE s = <<>>
    BY <2>1, <1>1, <1>2, IndexIsInt DEF Chain
  <2>2. CASE s # <<>>
    BY <2>2, <1>1, <1>2 DEF Chain
  <2> QED BY <2>1, <2>2
<1>7. Chain(r, a, b.last)
  BY <1>1, <1>4, <1>5, <1>6 DEF Chain
<1> QED BY <1>1, <1>7 DEF r

(***************************************************************************)
(* What remains of a chain begins where its first batch ends.              *)
(***************************************************************************)
LEMMA ChainTail ==
    ASSUME NEW s \in Seq(BatchSet), NEW a \in Index, NEW t \in Index, Chain(s, a, t),
           s # <<>>
    PROVE  /\ Head(s) \in BatchSet /\ Tail(s) \in Seq(BatchSet)
           /\ Head(s).first = a + 1 /\ Head(s).first <= Head(s).last /\ Head(s).last <= t
           /\ Chain(Tail(s), Head(s).last, t)
           /\ Tail(s) # <<>> => Tail(s)[Len(Tail(s))] = s[Len(s)]
           /\ Tail(s) = <<>> => Head(s).last = t
<1> DEFINE r == Tail(s)
<1>1. /\ Head(s) = s[1] /\ s[1] \in BatchSet /\ r \in Seq(BatchSet)
      /\ Len(s) \in Nat /\ Len(s) >= 1 /\ Len(r) = Len(s) - 1
      /\ \A k \in 1 .. Len(r) : r[k] = s[k + 1]
      /\ r = <<>> <=> Len(s) = 1
  <2>1. /\ Head(s) = s[1] /\ s[1] \in BatchSet /\ r \in Seq(BatchSet)
        /\ Len(s) \in Nat /\ Len(s) >= 1 /\ Len(r) = Len(s) - 1
    OBVIOUS
  <2>2. \A k \in 1 .. Len(r) : r[k] = s[k + 1]
    BY <2>1
  <2>3. r = <<>> <=> Len(r) = 0
    BY <2>1, EmptySeq
  <2> QED BY <2>1, <2>2, <2>3
<1> HIDE DEF r
<1>2. s[1].first = a + 1 /\ s[1].first <= s[1].last /\ s[1].last <= t
  BY <1>1 DEF Chain
<1>3. \A k \in 1 .. Len(r) : r[k].first <= r[k].last /\ r[k].last <= t
  BY <1>1 DEF Chain
<1>4. \A k \in 1 .. Len(r) - 1 : r[k + 1].first = r[k].last + 1
  <2> SUFFICES ASSUME NEW k \in 1 .. Len(r) - 1 PROVE r[k + 1].first = r[k].last + 1
    OBVIOUS
  <2>1. r[k] = s[k + 1] /\ r[k + 1] = s[(k + 1) + 1] /\ k + 1 \in 1 .. Len(s) - 1
    BY <1>1
  <2> QED BY <2>1 DEF Chain
<1>5. r = <<>> => t = s[1].last
  BY <1>1 DEF Chain
<1>6. r # <<>> => r[1].first = s[1].last + 1 /\ r[Len(r)].last = t /\ r[Len(r)] = s[Len(s)]
  <2> SUFFICES ASSUME r # <<>>
               PROVE  r[1].first = s[1].last + 1 /\ r[Len(r)].last = t /\ r[Len(r)] = s[Len(s)]
    OBVIOUS
  <2>1. Len(s) >= 2 /\ r[1] = s[1 + 1] /\ r[Len(r)] = s[Len(s)]
    BY <1>1
  <2>2. s[1 + 1].first = s[1].last + 1 /\ s[Len(s)].last = t
    BY <1>1, <2>1 DEF Chain
  <2> QED BY <2>1, <2>2
<1>7. Chain(r, s[1].last, t)
  BY <1>3, <1>4, <1>5, <1>6 DEF Chain
<1> QED BY <1>1, <1>2, <1>5, <1>6, <1>7 DEF r

(***************************************************************************)
(* A sequence of at most one batch, as the deferred one is.                *)
(***************************************************************************)
LEMMA OneBatch ==
    ASSUME NEW s \in Seq(BatchSet), s # <<>>, Len(s) <= 1
    PROVE  Tail(s) = <<>> /\ Head(s) = s[1]
<1>1. Len(s) \in Nat /\ Len(s) # 0
  BY EmptySeq
<1>2. \A n \in Nat : n # 0 /\ n <= 1 => n = 1
  OBVIOUS
<1>3. Len(s) = 1
  BY <1>1, <1>2, Zenon
<1>4. Head(s) = s[1] /\ Tail(s) \in Seq(BatchSet) /\ Len(Tail(s)) = 0
  BY <1>3, HeadTailProperties
<1> QED BY <1>4, EmptySeq

----------------------------------------------------------------------------
(* The owner's steps keep the invariant.                                   *)

(***************************************************************************)
(* No batches at all are a chain.                                          *)
(***************************************************************************)
LEMMA EmptyChain == \A a \in Index : Chain(<<>>, a, a)
BY DEF Chain

(***************************************************************************)
(* The worker starts in the invariant.                                     *)
(***************************************************************************)
LEMMA InitWorkerInv == Init => WorkerInv
<1> SUFFICES ASSUME Init PROVE WorkerInv
  OBVIOUS
<1>1. Types
  BY IndexIsInt, EmptySeq DEF Init, Types, Phases
<1>2. Admission
  BY DEF Init, Admission, Working
<1>3. Links
  <2>1. Answered = floor /\ Begun = floor /\ DeferredEnd = floor
    BY DEF Init, Answered, Begun, DeferredEnd, Busy
  <2>2. floor \in Index /\ floor \in Int
    BY IndexIsInt DEF Init
  <2> QED BY <2>1, <2>2, EmptyChain DEF Init, Links, Busy, Working
<1>4. CreditsExact
  <2>1. floor \in Index /\ floor \in Int /\ RetainedUpTo[floor] \in Int
    BY IndexIsInt, EntriesAssumption DEF Init
  <2> QED BY <2>1, OptionsAssumption DEF Init, CreditsExact
<1> QED BY <1>1, <1>2, <1>3, <1>4 DEF WorkerInv

(***************************************************************************)
(* So does one that is started again on the store.                         *)
(***************************************************************************)
LEMMA StartKeepsInv == WorkerInv /\ Start => WorkerInv'
<1> SUFFICES ASSUME WorkerInv, Start PROVE WorkerInv'
  OBVIOUS
<1>0. floor \in Index /\ floor \in Int
  BY IndexIsInt DEF WorkerInv, Types
<1>1. Types'
  <2>1. starts' \in Nat
    BY DEF WorkerInv, Start, Types
  <2> QED BY <1>0, <2>1, IndexIsInt, EmptySeq DEF Start, Types, Phases
<1>2. Admission'
  BY DEF Start, Admission, Working
<1>3. Links'
  <2>1. Answered' = floor /\ Begun' = floor /\ DeferredEnd' = floor
    BY DEF Start, Answered, Begun, DeferredEnd, Busy
  <2> QED BY <1>0, <2>1, EmptyChain DEF Start, Links, Busy, Working
<1>4. CreditsExact'
  <2>1. RetainedUpTo[floor] \in Int
    BY <1>0, EntriesAssumption
  <2> QED BY <1>0, <2>1, OptionsAssumption DEF Start, CreditsExact
<1> QED BY <1>1, <1>2, <1>3, <1>4 DEF WorkerInv

(***************************************************************************)
(* Where the parts of the chain end is within bounds.                      *)
(***************************************************************************)
LEMMA EndsTyped ==
    ASSUME WorkerInv
    PROVE  /\ Answered \in Index /\ taken \in Index /\ taken <= Answered
           /\ phase \in Working => /\ Begun \in Index /\ DeferredEnd \in Index
                                   /\ Begun <= DeferredEnd /\ DeferredEnd <= acceptedThrough
<1>1. Answered \in Index
  <2>1. CASE events = <<>>
    BY <2>1 DEF WorkerInv, Types, Answered
  <2>2. CASE events # <<>>
    <3>1. events[Len(events)] \in BatchSet
      BY <2>2 DEF WorkerInv, Types
    <3> QED BY <2>2, <3>1, BatchIsInt DEF Answered
  <2> QED BY <2>1, <2>2
<1>2. taken \in Index /\ taken <= Answered
  BY <1>1, ChainEnds DEF WorkerInv, Types, Links
<1>3. ASSUME phase \in Working
      PROVE  /\ Begun \in Index /\ DeferredEnd \in Index
             /\ Begun <= DeferredEnd /\ DeferredEnd <= acceptedThrough
  <2>1. Begun \in Index
    <3>1. CASE phase \in Busy
      <4>1. work \in BatchSet
        BY <3>1 DEF WorkerInv, Links
      <4> QED BY <3>1, <4>1, BatchIsInt DEF Begun
    <3>2. CASE phase \notin Busy
      BY <3>2 DEF WorkerInv, Types, Begun
    <3> QED BY <3>1, <3>2
  <2>2. DeferredEnd \in Index
    <3>1. CASE deferred = <<>>
      BY <3>1, <2>1 DEF DeferredEnd
    <3>2. CASE deferred # <<>>
      <4>1. deferred[1] \in BatchSet
        BY <3>2 DEF WorkerInv, Types
      <4> QED BY <3>2, <4>1, BatchIsInt DEF DeferredEnd
    <3> QED BY <3>1, <3>2
  <2>3. Begun <= DeferredEnd
    BY <1>3, <2>1, <2>2, ChainEnds DEF WorkerInv, Types, Links
  <2>4. DeferredEnd <= acceptedThrough
    BY <1>3, <2>2, ChainEnds DEF WorkerInv, Types, Links
  <2> QED BY <2>1, <2>2, <2>3, <2>4
<1> QED BY <1>1, <1>2, <1>3

(***************************************************************************)
(* As long as entries are admitted the thread can be reached: try_submit   *)
(* never has to roll back.                                                 *)
(***************************************************************************)
LEMMA InvMeansReachable == WorkerInv => AdmissionReachesThread
BY DEF WorkerInv, Types, Admission, AdmissionReachesThread, Reachable, Phases

(***************************************************************************)
(* try_submit appends to the last link, and takes the credits of what it   *)
(* appends.                                                                *)
(***************************************************************************)
LEMMA TrySubmitKeepsInv ==
    ASSUME WorkerInv, NEW last \in Index, TrySubmit(last)
    PROVE  WorkerInv'
<1> DEFINE b == Batch(acceptedThrough + 1, last)
<1>0. /\ acceptedThrough \in Index /\ acceptedThrough \in Int /\ last \in Int
      /\ last > acceptedThrough /\ accepting /\ owner \in {"Live", "Joined"}
  BY IndexIsInt DEF WorkerInv, Types, TrySubmit
<1>1. Reachable
  BY <1>0, InvMeansReachable DEF AdmissionReachesThread
<1>2. /\ acceptedThrough' = last
      /\ inflightEntries' = inflightEntries + Size(b)
      /\ inflightBytes' = inflightBytes + Retained(b)
      /\ requests' = Append(requests, b)
      /\ HasRoom(b)
      /\ UNCHANGED <<accepting, events, thread, atomics, ownership>>
  BY <1>1, Zenon DEF TrySubmit
<1>3. acceptedThrough + 1 \in Index \ {0}
  <2>1. MaxIndex \in Nat
    BY EntriesAssumption
  <2> QED BY <1>0, <2>1, IndexIsInt DEF Index
<1>4. b \in BatchSet /\ b.first = acceptedThrough + 1 /\ b.last = last
  BY <1>3 DEF Batch, BatchSet
<1>5. /\ Size(b) = last - acceptedThrough
      /\ Retained(b) = RetainedUpTo[last] - RetainedUpTo[acceptedThrough]
  <2>1. (acceptedThrough + 1) - 1 = acceptedThrough
    BY <1>0
  <2> QED BY <1>0, <1>4, <2>1 DEF Size, Retained
<1>6. RetainedUpTo[last] \in Int /\ RetainedUpTo[acceptedThrough] \in Int
  BY <1>0, EntriesAssumption
<1> HIDE DEF b
<1>7. Types'
  BY <1>0, <1>2, <1>4, <1>5, <1>6
    DEF WorkerInv, Types, thread, atomics, ownership
<1>8. Admission'
  BY <1>2 DEF WorkerInv, Admission, thread, ownership
<1>9. Links'
  <2>0. /\ UNCHANGED <<phase, work, deferred, floor, panicked, durableThrough, taken, events>>
        /\ UNCHANGED <<hasSender, owner>>
    BY <1>2 DEF thread, atomics, ownership
  <2>1. UNCHANGED <<Answered, Begun, DeferredEnd>>
    BY <2>0 DEF Answered, Begun, DeferredEnd
  <2>2. phase \notin {"PublishingFailure", "NotifyingFailure", "Closing", "Exited"}
    BY <1>0 DEF WorkerInv, Admission
  <2>3. phase = "Leaving" => panicked
    <3>1. hasSender
      BY <1>1 DEF Reachable
    <3> QED BY <1>0, <3>1 DEF WorkerInv, Admission
  <2>4. ASSUME phase \in Working
        PROVE  Chain(requests', DeferredEnd', acceptedThrough')
    <3>1. /\ DeferredEnd \in Index /\ requests \in Seq(BatchSet)
          /\ Chain(requests, DeferredEnd, acceptedThrough)
      BY <2>4, EndsTyped DEF WorkerInv, Links, Types
    <3>2. b.first <= b.last
      BY <1>0, <1>4
    <3>3. Chain(Append(requests, b), DeferredEnd, b.last)
      BY <1>0, <1>4, <3>1, <3>2, ChainAppend
    <3> QED BY <1>2, <1>4, <2>1, <3>3
  <2>5. Answered' <= acceptedThrough' /\ floor' <= acceptedThrough'
    <3>1. /\ Answered \in Int /\ Answered <= acceptedThrough
          /\ floor \in Int /\ floor <= acceptedThrough
      BY EndsTyped, IndexIsInt DEF WorkerInv, Links, Types
    <3> QED BY <1>0, <1>2, <2>0, <2>1, <3>1
  <2> QED BY <2>0, <2>1, <2>2, <2>3, <2>4, <2>5 DEF WorkerInv, Links
<1>10. CreditsExact'
  <2>1. /\ UNCHANGED <<taken, phase>>
        /\ taken \in Index /\ RetainedUpTo[taken] \in Int /\ taken \in Int
    BY <1>2, EntriesAssumption, IndexIsInt DEF WorkerInv, Types, ownership, thread
  <2>2. phase # "Exited"
    BY <1>1 DEF Reachable
  <2>3. /\ inflightEntries = acceptedThrough - taken
        /\ inflightBytes = RetainedUpTo[acceptedThrough] - RetainedUpTo[taken]
    BY <2>2 DEF WorkerInv, CreditsExact
  <2>4. /\ Size(b) <= InflightEntries - inflightEntries
        /\ Retained(b) <= InflightBytes - inflightBytes
    BY <1>2 DEF HasRoom
  <2>5. inflightEntries' = acceptedThrough' - taken'
    BY <1>0, <1>2, <1>5, <2>1, <2>3
  <2>6. inflightBytes' = RetainedUpTo[acceptedThrough'] - RetainedUpTo[taken']
    BY <1>0, <1>2, <1>5, <1>6, <2>1, <2>3
  <2>7. inflightEntries' <= InflightEntries /\ inflightBytes' <= InflightBytes
    <3>1. InflightEntries \in Int /\ InflightBytes \in Int
      BY OptionsAssumption
    <3>2. inflightEntries \in Int /\ inflightBytes \in Int /\ Size(b) \in Int /\ Retained(b) \in Int
      BY <1>0, <1>5, <1>6 DEF WorkerInv, Types
    <3> QED BY <1>2, <2>4, <3>1, <3>2
  <2> QED BY <2>5, <2>6, <2>7 DEF CreditsExact
<1> QED BY <1>7, <1>8, <1>9, <1>10 DEF WorkerInv

(***************************************************************************)
(* try_complete takes the first link, and gives its credits back.          *)
(***************************************************************************)
LEMMA CompleteKeepsInv == WorkerInv /\ Complete => WorkerInv'
<1> SUFFICES ASSUME WorkerInv, Complete PROVE WorkerInv'
  OBVIOUS
<1> DEFINE h == Head(events)
<1>0. /\ events # <<>> /\ events \in Seq(BatchSet) /\ Chain(events, taken, Answered)
      /\ taken \in Index /\ Answered \in Index
  BY EndsTyped DEF WorkerInv, Types, Links, Complete
<1>1. /\ h \in BatchSet /\ Tail(events) \in Seq(BatchSet)
      /\ h.first = taken + 1 /\ h.first <= h.last /\ h.last <= Answered
      /\ Chain(Tail(events), h.last, Answered)
      /\ Tail(events) # <<>> => Tail(events)[Len(Tail(events))] = events[Len(events)]
      /\ Tail(events) = <<>> => h.last = Answered
  BY <1>0, ChainTail
<1>2. /\ events' = Tail(events) /\ taken' = h.last
      /\ inflightEntries' = inflightEntries - Size(h)
      /\ inflightBytes' = inflightBytes - Retained(h)
      /\ UNCHANGED <<accepting, acceptedThrough, requests, phase, work, deferred, floor, panicked>>
      /\ UNCHANGED <<durableThrough, applyingThrough, hasSender, owner, starts>>
  BY DEF Complete, thread, atomics
<1>3. /\ h.last \in Index /\ h.last \in Int /\ taken \in Int /\ acceptedThrough \in Index
      /\ acceptedThrough \in Int /\ Answered \in Int
  BY <1>0, <1>1, BatchIsInt, IndexIsInt DEF WorkerInv, Types
<1>4. /\ RetainedUpTo[h.last] \in Int /\ RetainedUpTo[taken] \in Int
      /\ RetainedUpTo[acceptedThrough] \in Int /\ RetainedUpTo[taken] <= RetainedUpTo[h.last]
  <2>1. taken <= h.last
    BY <1>1, <1>3
  <2> QED BY <1>0, <1>3, <2>1, EntriesAssumption
<1>5. Size(h) = h.last - taken /\ Retained(h) = RetainedUpTo[h.last] - RetainedUpTo[taken]
  <2>1. (taken + 1) - 1 = taken
    BY <1>3
  <2>2. h.last - (taken + 1) + 1 = h.last - taken
    BY <1>3
  <2> QED BY <1>1, <2>1, <2>2 DEF Size, Retained
<1> HIDE DEF h
<1>6. Types'
  <2>1. inflightEntries' \in Int /\ inflightBytes' \in Int
    <3>1. inflightEntries \in Int /\ inflightBytes \in Int
      BY DEF WorkerInv, Types
    <3> QED BY <1>2, <1>3, <1>4, <1>5, <3>1
  <2> QED BY <1>1, <1>2, <1>3, <2>1, Zenon DEF WorkerInv, Types
<1>7. Admission'
  BY <1>2 DEF WorkerInv, Admission
<1>8. Links'
  <2>1. Answered' = Answered
    BY <1>0, <1>1, <1>2 DEF Answered
  <2>2. UNCHANGED <<Begun, DeferredEnd>>
    BY <1>2 DEF Begun, DeferredEnd
  <2> QED BY <1>1, <1>2, <2>1, <2>2 DEF WorkerInv, Links
<1>9. CreditsExact'
  <2>1. /\ inflightEntries = acceptedThrough - taken
        /\ inflightBytes = RetainedUpTo[acceptedThrough] - RetainedUpTo[taken]
        /\ inflightEntries <= InflightEntries /\ inflightBytes <= InflightBytes
    BY <1>0 DEF WorkerInv, CreditsExact
  <2>2. InflightEntries \in Int /\ InflightBytes \in Int
    BY OptionsAssumption
  <2>3. inflightEntries' = acceptedThrough' - taken' /\ inflightEntries' <= InflightEntries
    <3>1. taken <= h.last
      BY <1>1, <1>3
    <3>2. inflightEntries' = (acceptedThrough - taken) - (h.last - taken)
      BY <1>2, <1>5, <2>1
    <3> QED BY <1>2, <1>3, <2>1, <2>2, <3>1, <3>2
  <2>4. /\ inflightBytes' = RetainedUpTo[acceptedThrough'] - RetainedUpTo[taken']
        /\ inflightBytes' <= InflightBytes
    BY <1>2, <1>4, <1>5, <2>1, <2>2
  <2> QED BY <2>3, <2>4 DEF CreditsExact
<1> QED BY <1>6, <1>7, <1>8, <1>9 DEF WorkerInv

(***************************************************************************)
(* release_stopped gives back what is left, which is nothing unless the    *)
(* thread panicked.                                                        *)
(***************************************************************************)
LEMMA ReleaseStoppedKeepsInv == WorkerInv /\ ReleaseStopped => WorkerInv'
<1> SUFFICES ASSUME WorkerInv, ReleaseStopped PROVE WorkerInv'
  OBVIOUS
<1>1. /\ phase = "Exited" /\ events = <<>> /\ accepting' = FALSE
      /\ inflightEntries' = 0 /\ inflightBytes' = 0
      /\ UNCHANGED <<acceptedThrough, requests, events, phase, work, deferred, floor, panicked>>
      /\ UNCHANGED <<durableThrough, applyingThrough, hasSender, owner, taken, starts>>
  BY DEF ReleaseStopped, thread, atomics, ownership
<1>2. Types'
  <2>1. inflightEntries' \in Int /\ inflightBytes' \in Int
    BY <1>1
  <2> QED BY <1>1, <2>1, Zenon DEF WorkerInv, Types
<1>3. Admission'
  BY <1>1 DEF WorkerInv, Admission, Working
<1>4. UNCHANGED <<Answered, Begun, DeferredEnd>>
  BY <1>1 DEF Answered, Begun, DeferredEnd
<1>5. Links'
  BY <1>1, <1>4 DEF WorkerInv, Links
<1>6. CreditsExact'
  <2>1. InflightEntries \in Nat /\ InflightBytes \in Nat
    BY OptionsAssumption
  <2>2. CASE panicked
    BY <1>1, <2>1, <2>2 DEF CreditsExact
  <2>3. CASE ~panicked
    <3>1. acceptedThrough = taken
      BY <1>1, <2>3 DEF WorkerInv, Links, Answered
    <3>2. taken \in Int /\ RetainedUpTo[taken] \in Int
      BY EntriesAssumption, IndexIsInt DEF WorkerInv, Types
    <3> QED BY <1>1, <2>1, <3>1, <3>2 DEF CreditsExact
  <2> QED BY <2>2, <2>3 DEF WorkerInv, Types
<1> QED BY <1>2, <1>3, <1>5, <1>6 DEF WorkerInv

(***************************************************************************)
(* A shutdown, a drop and their return touch no entry.                     *)
(***************************************************************************)
LEMMA JoinKeepsInv ==
    ASSUME WorkerInv, Shutdown \/ Abandon \/ Joined
    PROVE  WorkerInv'
<1>1. /\ UNCHANGED <<accepting, acceptedThrough, inflightEntries, inflightBytes, requests, events>>
      /\ UNCHANGED <<phase, work, deferred, floor, panicked, durableThrough, applyingThrough>>
      /\ UNCHANGED <<taken, starts>>
  BY DEF Shutdown, Abandon, Join, Joined, shared, thread, atomics
<1>2. /\ owner' \in {"Joining", "Dropping", "Joined", "Dropped"}
      /\ owner' \in {"Joined", "Dropped"} => phase = "Exited"
      /\ hasSender' = FALSE \/ hasSender' = hasSender
  BY DEF Shutdown, Abandon, Join, Joined
<1>3. Types'
  BY <1>1, <1>2 DEF WorkerInv, Types
<1>4. Admission'
  BY <1>1, <1>2 DEF WorkerInv, Admission
<1>5. UNCHANGED <<Answered, Begun, DeferredEnd>>
  BY <1>1 DEF Answered, Begun, DeferredEnd
<1>6. Links'
  BY <1>1, <1>5 DEF WorkerInv, Links
<1>7. CreditsExact'
  BY <1>1 DEF WorkerInv, CreditsExact
<1> QED BY <1>3, <1>4, <1>6, <1>7 DEF WorkerInv

----------------------------------------------------------------------------
(* The thread's steps keep the invariant.                                  *)

(***************************************************************************)
(* The step of the thread leaves admission, credits and the owner alone,   *)
(* so the credits stay exact if it does not leave "Exited".                *)
(***************************************************************************)
LEMMA CreditsStay ==
    ASSUME WorkerInv, UNCHANGED <<acceptedThrough, inflightEntries, inflightBytes, taken>>,
           phase # "Exited"
    PROVE  CreditsExact'
BY DEF WorkerInv, CreditsExact

(***************************************************************************)
(* recv takes the next batch in hand.                                      *)
(***************************************************************************)
LEMMA ReceiveKeepsInv == WorkerInv /\ Receive => WorkerInv'
<1> SUFFICES ASSUME WorkerInv, Receive PROVE WorkerInv'
  OBVIOUS
<1>0. /\ phase = "Receiving"
      /\ UNCHANGED <<accepting, acceptedThrough, inflightEntries, inflightBytes, events>>
      /\ UNCHANGED <<durableThrough, applyingThrough, floor, panicked>>
      /\ UNCHANGED <<hasSender, owner, taken, starts>>
  BY DEF Receive, shared, atomics, ownership
<1>1. /\ Answered' = Answered /\ Answered = durableThrough /\ Begun = durableThrough
      /\ accepting /\ ~panicked
      /\ Chain(deferred, Begun, DeferredEnd) /\ Chain(requests, DeferredEnd, acceptedThrough)
      /\ Len(deferred) <= 1
  BY <1>0 DEF WorkerInv, Links, Answered, Begun, Busy, Working, Admission
<1>2. /\ Begun \in Index /\ DeferredEnd \in Index /\ Answered \in Index /\ acceptedThrough \in Index
      /\ deferred \in Seq(BatchSet) /\ requests \in Seq(BatchSet)
  BY <1>0, EndsTyped DEF WorkerInv, Types, Working
<1>3. CreditsExact'
  BY <1>0, CreditsStay
<1>4. CASE deferred # <<>> /\ work' = Head(deferred) /\ deferred' = Tail(deferred)
           /\ phase' = "Draining" /\ UNCHANGED requests
  <2>1. /\ Head(deferred) \in BatchSet /\ Head(deferred).first = Begun + 1
        /\ Head(deferred).first <= Head(deferred).last
    BY <1>1, <1>2, <1>4, ChainTail
  <2>2. Tail(deferred) = <<>> /\ Head(deferred) = deferred[1]
    BY <1>1, <1>2, <1>4, OneBatch
  <2>3. Types'
    BY <1>0, <1>2, <1>4, <2>1, <2>2, EmptySeq DEF WorkerInv, Types, Phases
  <2>4. Admission'
    BY <1>0, <1>1, <1>4 DEF WorkerInv, Admission, Working
  <2>5. /\ DeferredEnd = work'.last /\ DeferredEnd' = work'.last
        /\ Begun' = work'.last /\ deferred' = <<>>
    BY <1>4, <2>2 DEF DeferredEnd, Begun, Busy
  <2>6. Links'
    <3>1. Len(deferred') <= 1
      BY <2>5
    <3>2. Chain(deferred', Begun', DeferredEnd') /\ Chain(requests', DeferredEnd', acceptedThrough')
      BY <1>0, <1>1, <1>2, <1>4, <2>5, EmptyChain
    <3> QED BY <1>0, <1>1, <1>4, <2>1, <2>5, <3>1, <3>2 DEF WorkerInv, Links, Busy, Working
  <2> QED BY <1>3, <2>3, <2>4, <2>6 DEF WorkerInv
<1>5. CASE deferred = <<>> /\ requests # <<>> /\ work' = Head(requests)
           /\ requests' = Tail(requests) /\ phase' = "Draining" /\ UNCHANGED deferred
  <2>1. DeferredEnd = Begun
    BY <1>5 DEF DeferredEnd
  <2>2. /\ Head(requests) \in BatchSet /\ Tail(requests) \in Seq(BatchSet)
        /\ Head(requests).first = DeferredEnd + 1 /\ Head(requests).first <= Head(requests).last
        /\ Chain(Tail(requests), Head(requests).last, acceptedThrough)
    BY <1>1, <1>2, <1>5, ChainTail
  <2>3. Types'
    BY <1>0, <1>2, <1>5, <2>2 DEF WorkerInv, Types, Phases
  <2>4. Admission'
    BY <1>0, <1>1, <1>5 DEF WorkerInv, Admission, Working
  <2>5. Begun' = work'.last /\ DeferredEnd' = work'.last /\ work'.last \in Index
    BY <1>5, <2>2, BatchIsInt DEF DeferredEnd, Begun, Busy
  <2>6. Links'
    <3>1. Chain(deferred', Begun', DeferredEnd') /\ Chain(requests', DeferredEnd', acceptedThrough')
      BY <1>0, <1>5, <2>2, <2>5, EmptyChain
    <3> QED BY <1>0, <1>1, <1>5, <2>1, <2>2, <2>5, <3>1 DEF WorkerInv, Links, Busy, Working
  <2> QED BY <1>3, <2>3, <2>4, <2>6 DEF WorkerInv
<1>6. CASE deferred = <<>> /\ requests = <<>> /\ ~hasSender
           /\ phase' = "Leaving" /\ UNCHANGED <<work, deferred, requests>>
  <2>1. acceptedThrough = Answered
    BY <1>1, <1>6 DEF Chain, DeferredEnd
  <2>2. Types'
    BY <1>0, <1>6 DEF WorkerInv, Types, Phases
  <2>3. Admission'
    BY <1>0, <1>6 DEF WorkerInv, Admission, Working
  <2>4. Links'
    BY <1>0, <1>1, <1>6, <2>1 DEF WorkerInv, Links, Busy, Working
  <2> QED BY <1>3, <2>2, <2>3, <2>4 DEF WorkerInv
<1> QED BY <1>4, <1>5, <1>6, Zenon DEF Receive

(***************************************************************************)
(* try_recv moves the next request into the batch in hand, or defers it.   *)
(***************************************************************************)
LEMMA DrainReadyKeepsInv == WorkerInv /\ DrainReady => WorkerInv'
<1> SUFFICES ASSUME WorkerInv, DrainReady PROVE WorkerInv'
  OBVIOUS
<1> DEFINE c == Batch(work.first, Head(requests).last)
<1>0. /\ phase = "Draining"
      /\ UNCHANGED <<accepting, acceptedThrough, inflightEntries, inflightBytes, events>>
      /\ UNCHANGED <<durableThrough, floor, panicked, hasSender, owner, taken, starts>>
  BY DEF DrainReady, shared, ownership
<1>1. /\ Answered' = Answered /\ Answered = durableThrough
      /\ Begun = work.last /\ DeferredEnd = work.last /\ deferred = <<>>
      /\ work \in BatchSet /\ work.first = Answered + 1 /\ work.first <= work.last
      /\ accepting /\ ~panicked
      /\ Chain(requests, DeferredEnd, acceptedThrough)
  BY <1>0 DEF WorkerInv, Links, Answered, Begun, DeferredEnd, Busy, Working, Admission
<1>2. /\ DeferredEnd \in Index /\ Answered \in Index /\ acceptedThrough \in Index
      /\ requests \in Seq(BatchSet)
  BY <1>0, EndsTyped DEF WorkerInv, Types, Working
<1>3. CreditsExact'
  BY <1>0, CreditsStay
<1>4. work.first \in Int /\ work.last \in Int /\ work.last \in Index /\ work.first \in Index \ {0}
  BY <1>1, BatchIsInt DEF BatchSet
<1>5. CASE BeginApply /\ UNCHANGED <<requests, deferred>>
  <2>1. Types'
    BY <1>0, <1>4, <1>5 DEF WorkerInv, Types, Phases, BeginApply
  <2>2. Admission'
    BY <1>0, <1>1, <1>5 DEF WorkerInv, Admission, Working, BeginApply
  <2>3. Begun' = Begun /\ DeferredEnd' = DeferredEnd
    BY <1>0, <1>5 DEF Begun, DeferredEnd, Busy, BeginApply
  <2>4. Links'
    BY <1>0, <1>1, <1>5, <2>3 DEF WorkerInv, Links, Busy, Working, BeginApply
  <2> QED BY <1>3, <2>1, <2>2, <2>4 DEF WorkerInv
<1>6. ASSUME requests # <<>>, requests' = Tail(requests)
      PROVE  /\ Head(requests) \in BatchSet /\ Tail(requests) \in Seq(BatchSet)
             /\ Head(requests).first = work.last + 1
             /\ Head(requests).first <= Head(requests).last
             /\ Head(requests).first \in Int /\ Head(requests).last \in Int
             /\ Head(requests).last \in Index
             /\ Chain(requests', Head(requests).last, acceptedThrough')
  <2>1. /\ Head(requests) \in BatchSet /\ Tail(requests) \in Seq(BatchSet)
        /\ Head(requests).first = DeferredEnd + 1 /\ Head(requests).first <= Head(requests).last
        /\ Chain(Tail(requests), Head(requests).last, acceptedThrough)
    BY <1>1, <1>2, <1>6, ChainTail
  <2> QED BY <1>0, <1>1, <1>6, <2>1, BatchIsInt
<1>7. CASE requests # <<>> /\ requests' = Tail(requests) /\ work' = c
           /\ UNCHANGED <<phase, applyingThrough, deferred>>
  <2>1. c \in BatchSet /\ c.first = work.first /\ c.last = Head(requests).last /\ c.first <= c.last
    <3>1. work.first <= Head(requests).last
      BY <1>1, <1>4, <1>6, <1>7
    <3> QED BY <1>4, <1>6, <1>7, <3>1 DEF Batch, BatchSet
  <2>2. Types'
    BY <1>0, <1>6, <1>7, <2>1 DEF WorkerInv, Types
  <2>3. Admission'
    BY <1>0, <1>7 DEF WorkerInv, Admission
  <2>4. Begun' = c.last /\ DeferredEnd' = c.last /\ c.last \in Index
    BY <1>0, <1>1, <1>6, <1>7, <2>1 DEF Begun, DeferredEnd, Busy
  <2> HIDE DEF c
  <2>5. Links'
    <3>1. Chain(deferred', Begun', DeferredEnd') /\ Chain(requests', DeferredEnd', acceptedThrough')
      BY <1>1, <1>6, <1>7, <2>1, <2>4, EmptyChain
    <3> QED BY <1>0, <1>1, <1>7, <2>1, <3>1 DEF WorkerInv, Links, Busy, Working
  <2> QED BY <1>3, <2>2, <2>3, <2>5 DEF WorkerInv
<1>8. CASE requests # <<>> /\ requests' = Tail(requests)
           /\ deferred' = Append(deferred, Head(requests)) /\ BeginApply
  <2>1. deferred' = <<Head(requests)>>
    BY <1>1, <1>8
  <2>2. /\ deferred' \in Seq(BatchSet) /\ Len(deferred') = 1
        /\ deferred'[1] = Head(requests) /\ deferred' # <<>>
    <3>1. Head(requests) \in BatchSet /\ <<>> \in Seq(BatchSet)
      BY <1>6, <1>8, EmptySeq
    <3> QED BY <1>1, <1>8, <3>1, AppendProperties
  <2>3. Types'
    BY <1>0, <1>4, <1>6, <1>8, <2>2 DEF WorkerInv, Types, Phases, BeginApply
  <2>4. Admission'
    BY <1>0, <1>1, <1>8 DEF WorkerInv, Admission, Working, BeginApply
  <2>5. Begun' = work.last /\ DeferredEnd' = Head(requests).last
    BY <1>8, <2>2 DEF Begun, DeferredEnd, Busy, BeginApply
  <2>6. Chain(deferred', Begun', DeferredEnd')
    BY <1>6, <1>8, <2>2, <2>5 DEF Chain
  <2>7. Links'
    <3>1. Chain(requests', DeferredEnd', acceptedThrough')
      BY <1>6, <1>8, <2>5
    <3>2. Len(deferred') <= 1
      BY <2>2
    <3> QED BY <1>0, <1>1, <1>8, <2>6, <3>1, <3>2 DEF WorkerInv, Links, Busy, Working, BeginApply
  <2> QED BY <1>3, <2>3, <2>4, <2>7 DEF WorkerInv
<1>9. \/ BeginApply /\ UNCHANGED <<requests, deferred>>
      \/ requests # <<>> /\ requests' = Tail(requests) /\ work' = c
           /\ UNCHANGED <<phase, applyingThrough, deferred>>
      \/ requests # <<>> /\ requests' = Tail(requests)
           /\ deferred' = Append(deferred, Head(requests)) /\ BeginApply
  BY Zenon DEF DrainReady
<1> QED BY <1>5, <1>7, <1>8, <1>9

(***************************************************************************)
(* apply succeeds: the batch in hand is durable.                           *)
(***************************************************************************)
LEMMA ApplyOkKeepsInv == WorkerInv /\ ApplyOk => WorkerInv'
<1> SUFFICES ASSUME WorkerInv, ApplyOk PROVE WorkerInv'
  OBVIOUS
<1>0. /\ phase = "Applying" /\ phase' = "Publishing"
      /\ floor' = work.last /\ durableThrough' = work.last
      /\ UNCHANGED <<accepting, acceptedThrough, inflightEntries, inflightBytes, requests, events>>
      /\ UNCHANGED <<work, deferred, panicked, applyingThrough, hasSender, owner, taken, starts>>
  BY DEF ApplyOk, shared, ownership
<1>1. /\ work \in BatchSet /\ work.last \in Index /\ work.last \in Int
      /\ work.last <= acceptedThrough
  <2>1. work \in BatchSet /\ Begun = work.last
    BY <1>0 DEF WorkerInv, Links, Begun, Busy
  <2>2. /\ Begun \in Int /\ DeferredEnd \in Int /\ acceptedThrough \in Int
        /\ Begun <= DeferredEnd /\ DeferredEnd <= acceptedThrough
    BY <1>0, EndsTyped, IndexIsInt DEF WorkerInv, Types, Working
  <2> QED BY <2>1, <2>2, BatchIsInt
<1>2. Types'
  BY <1>0, <1>1 DEF WorkerInv, Types, Phases
<1>3. Admission'
  BY <1>0 DEF WorkerInv, Admission, Working
<1>4. UNCHANGED <<Answered, Begun, DeferredEnd>>
  BY <1>0 DEF Answered, Begun, DeferredEnd, Busy
<1>5. Links'
  BY <1>0, <1>1, <1>4 DEF WorkerInv, Links, Busy, Working
<1>6. CreditsExact'
  BY <1>0, CreditsStay
<1> QED BY <1>2, <1>3, <1>5, <1>6 DEF WorkerInv

(***************************************************************************)
(* Whatever of the batch the store made durable was accepted.              *)
(***************************************************************************)
LEMMA FloorStaysAccepted ==
    ASSUME WorkerInv, phase = "Applying", NEW applied \in floor .. work.last
    PROVE  applied \in Index /\ durableThrough <= applied /\ applied <= acceptedThrough
<1>1. work \in BatchSet /\ Begun = work.last
  BY DEF WorkerInv, Links, Begun, Busy
<1>2. /\ Begun \in Index /\ Begun \in Int /\ DeferredEnd \in Int /\ acceptedThrough \in Int
      /\ Begun <= DeferredEnd /\ DeferredEnd <= acceptedThrough
  BY EndsTyped, IndexIsInt DEF WorkerInv, Types, Working
<1>3. /\ floor \in Int /\ floor >= 0 /\ durableThrough \in Int /\ durableThrough <= floor
      /\ MaxIndex \in Nat /\ Begun <= MaxIndex
  BY <1>2, IndexIsInt, EntriesAssumption DEF WorkerInv, Types, Links
<1>4. applied \in Int /\ floor <= applied /\ applied <= Begun
  BY <1>1, <1>2, <1>3
<1> QED BY <1>2, <1>3, <1>4 DEF Index

(***************************************************************************)
(* apply fails: the store has some of the batch, and no more than that.    *)
(***************************************************************************)
LEMMA ApplyFailedKeepsInv ==
    ASSUME WorkerInv, NEW applied \in Index, ApplyFailed(applied)
    PROVE  WorkerInv'
<1>0. /\ phase = "Applying" /\ phase' = "Failing" /\ floor' = applied
      /\ applied \in floor .. work.last
      /\ UNCHANGED <<accepting, acceptedThrough, inflightEntries, inflightBytes, requests, events>>
      /\ UNCHANGED <<work, deferred, panicked, applyingThrough, durableThrough>>
      /\ UNCHANGED <<hasSender, owner, taken, starts>>
  BY DEF ApplyFailed, shared, atomics, ownership
<1>1. durableThrough <= applied /\ applied <= acceptedThrough
  BY <1>0, FloorStaysAccepted
<1>2. Types'
  BY <1>0 DEF WorkerInv, Types, Phases
<1>3. Admission'
  BY <1>0 DEF WorkerInv, Admission, Working
<1>4. UNCHANGED <<Answered, Begun, DeferredEnd>>
  BY <1>0 DEF Answered, Begun, DeferredEnd, Busy
<1>5. Links'
  BY <1>0, <1>1, <1>4 DEF WorkerInv, Links, Busy, Working
<1>6. CreditsExact'
  BY <1>0, CreditsStay
<1> QED BY <1>2, <1>3, <1>5, <1>6 DEF WorkerInv

(***************************************************************************)
(* failure collects everything up to acceptedThrough into one batch.       *)
(***************************************************************************)
LEMMA FailureKeepsInv == WorkerInv /\ Failure => WorkerInv'
<1> SUFFICES ASSUME WorkerInv, Failure PROVE WorkerInv'
  OBVIOUS
<1> DEFINE rest == deferred \o requests
<1> DEFINE all == Batch(work.first, LastOf(work, rest))
<1>0. /\ phase = "Failing" /\ phase' = "PublishingFailure" /\ accepting' = FALSE
      /\ work' = all /\ deferred' = <<>> /\ requests' = <<>>
      /\ UNCHANGED <<acceptedThrough, inflightEntries, inflightBytes, events, floor, panicked>>
      /\ UNCHANGED <<durableThrough, applyingThrough, hasSender, owner, taken, starts>>
  BY DEF Failure, atomics, ownership
<1>1. /\ work \in BatchSet /\ work.first = Answered + 1 /\ work.first <= work.last
      /\ Begun = work.last /\ ~panicked /\ Len(deferred) <= 1
      /\ Chain(deferred, Begun, DeferredEnd) /\ Chain(requests, DeferredEnd, acceptedThrough)
  BY <1>0 DEF WorkerInv, Links, Begun, Busy, Working, Admission
<1>2. /\ Begun \in Int /\ DeferredEnd \in Int
      /\ acceptedThrough \in Int /\ acceptedThrough \in Index
      /\ Begun <= DeferredEnd /\ DeferredEnd <= acceptedThrough
      /\ work.first \in Int /\ work.last \in Int /\ work.first \in Index \ {0}
  <2>1. work.first \in Int /\ work.last \in Int /\ work.first \in Index \ {0}
    BY <1>1, BatchIsInt DEF BatchSet
  <2> QED BY <1>0, <2>1, EndsTyped, IndexIsInt DEF WorkerInv, Types, Working
<1>3. LastOf(work, rest) = acceptedThrough
  <2>0. /\ deferred \in Seq(BatchSet) /\ requests \in Seq(BatchSet)
        /\ Len(deferred) \in Nat /\ Len(requests) \in Nat
        /\ Len(rest) = Len(deferred) + Len(requests) /\ rest \in Seq(BatchSet)
    BY DEF WorkerInv, Types
  <2>1. CASE requests # <<>>
    <3>1. Len(requests) >= 1 /\ requests[Len(requests)].last = acceptedThrough
      BY <1>1, <2>0, <2>1, EmptySeq DEF Chain
    <3>2. rest # <<>> /\ rest[Len(rest)] = requests[Len(requests)]
      BY <2>0, <3>1
    <3> QED BY <3>1, <3>2 DEF LastOf
  <2>2. CASE requests = <<>>
    <3>1. rest = deferred /\ DeferredEnd = acceptedThrough
      BY <1>1, <2>0, <2>2, ConcatEmptySeq DEF Chain
    <3>2. CASE deferred = <<>>
      BY <1>1, <3>1, <3>2 DEF LastOf, DeferredEnd
    <3>3. CASE deferred # <<>>
      BY <1>1, <3>1, <3>3 DEF LastOf, Chain
    <3> QED BY <3>2, <3>3
  <2> QED BY <2>1, <2>2
<1>4. /\ all \in BatchSet /\ all.first = work.first /\ all.last = acceptedThrough
      /\ all.first <= all.last
  BY <1>1, <1>2, <1>3 DEF Batch, BatchSet
<1> HIDE DEF all
<1>5. Types'
  BY <1>0, <1>4, EmptySeq DEF WorkerInv, Types, Phases
<1>6. Admission'
  BY <1>0, <1>1 DEF WorkerInv, Admission, Working
<1>7. Answered' = Answered
  BY <1>0 DEF Answered
<1>8. Links'
  BY <1>0, <1>1, <1>4, <1>7 DEF WorkerInv, Links, Busy, Working
<1>9. CreditsExact'
  BY <1>0, CreditsStay
<1> QED BY <1>5, <1>6, <1>8, <1>9 DEF WorkerInv

(***************************************************************************)
(* The event for the batch in hand continues the events.                   *)
(***************************************************************************)
LEMMA PublishKeepsInv == WorkerInv /\ Publish => WorkerInv'
<1> SUFFICES ASSUME WorkerInv, Publish PROVE WorkerInv'
  OBVIOUS
<1>0. /\ phase \in {"Publishing", "PublishingFailure"} /\ applyingThrough' = 0
      /\ phase' = IF phase = "Publishing" THEN "Notifying" ELSE "NotifyingFailure"
      /\ events' = Append(events, work) /\ work' = NoWork
      /\ UNCHANGED <<accepting, acceptedThrough, inflightEntries, inflightBytes, requests>>
      /\ UNCHANGED <<deferred, floor, panicked, durableThrough, hasSender, owner, taken, starts>>
  BY DEF Publish, shared, ownership
<1>1. work \in BatchSet /\ work.first = Answered + 1 /\ work.first <= work.last
  BY <1>0 DEF WorkerInv, Links
<1>2. /\ Chain(events', taken, work.last) /\ events' \in Seq(BatchSet)
      /\ events' # <<>> /\ events'[Len(events')] = work
  <2>1. /\ events \in Seq(BatchSet) /\ Chain(events, taken, Answered)
        /\ taken \in Index /\ Answered \in Index
    BY EndsTyped DEF WorkerInv, Types, Links
  <2> QED BY <1>0, <1>1, <2>1, ChainAppend
<1>3. Answered' = work.last
  BY <1>2 DEF Answered
<1>4. Types'
  BY <1>0, <1>2, IndexIsInt DEF WorkerInv, Types, Phases
<1>5. Admission'
  BY <1>0 DEF WorkerInv, Admission, Working
<1>6. Links'
  <2>1. CASE phase = "Publishing"
    <3>1. Begun' = Begun /\ DeferredEnd' = DeferredEnd /\ phase' = "Notifying"
      BY <1>0, <2>1 DEF Begun, DeferredEnd, Busy
    <3>2. work.last = durableThrough /\ work.last <= acceptedThrough
      <4>1. work.last = durableThrough /\ durableThrough <= floor /\ floor <= acceptedThrough
        BY <2>1 DEF WorkerInv, Links
      <4>2. durableThrough \in Int /\ floor \in Int /\ acceptedThrough \in Int
        BY IndexIsInt DEF WorkerInv, Types
      <4> QED BY <4>1, <4>2
    <3> QED BY <1>0, <1>2, <1>3, <2>1, <3>1, <3>2 DEF WorkerInv, Links, Busy, Working
  <2>2. CASE phase = "PublishingFailure"
    <3>1. work.last = acceptedThrough /\ acceptedThrough \in Int
      BY <2>2, IndexIsInt DEF WorkerInv, Links, Types
    <3> QED BY <1>0, <1>2, <1>3, <2>2, <3>1 DEF WorkerInv, Links, Busy, Working
  <2> QED BY <1>0, <2>1, <2>2
<1>7. CreditsExact'
  BY <1>0, CreditsStay
<1> QED BY <1>4, <1>5, <1>6, <1>7 DEF WorkerInv

(***************************************************************************)
(* The wake callback returns.                                              *)
(***************************************************************************)
LEMMA NotifyKeepsInv == WorkerInv /\ Notify => WorkerInv'
<1> SUFFICES ASSUME WorkerInv, Notify PROVE WorkerInv'
  OBVIOUS
<1>0. /\ phase \in {"Notifying", "NotifyingFailure"}
      /\ phase' = IF phase = "Notifying" THEN "Receiving" ELSE "Leaving"
      /\ UNCHANGED <<accepting, acceptedThrough, inflightEntries, inflightBytes, requests, events>>
      /\ UNCHANGED <<work, deferred, floor, panicked, durableThrough, applyingThrough>>
      /\ UNCHANGED <<hasSender, owner, taken, starts>>
  BY DEF Notify, shared, atomics, ownership
<1>1. UNCHANGED <<Answered, Begun, DeferredEnd>>
  BY <1>0 DEF Answered, Begun, DeferredEnd, Busy
<1>2. Types'
  BY <1>0 DEF WorkerInv, Types, Phases
<1>3. Admission'
  BY <1>0 DEF WorkerInv, Admission, Working
<1>4. Links'
  BY <1>0, <1>1 DEF WorkerInv, Links, Busy, Working
<1>5. CreditsExact'
  BY <1>0, CreditsStay
<1> QED BY <1>2, <1>3, <1>4, <1>5 DEF WorkerInv

(***************************************************************************)
(* The store or the wake callback panics: the thread is on its way out, and*)
(* what it held is not accounted for any more.                             *)
(***************************************************************************)
LEMMA PanicKeepsInv ==
    ASSUME WorkerInv, NEW applied \in Index, Panic(applied)
    PROVE  WorkerInv'
<1>0. /\ phase \in {"Applying", "Notifying", "NotifyingFailure"}
      /\ phase' = "Leaving" /\ floor' = applied /\ panicked' = TRUE
      /\ work' = NoWork /\ deferred' = <<>>
      /\ UNCHANGED <<accepting, acceptedThrough, inflightEntries, inflightBytes, requests, events>>
      /\ UNCHANGED <<durableThrough, applyingThrough, hasSender, owner, taken, starts>>
  BY DEF Panic, shared, atomics, ownership
<1>1. durableThrough <= applied /\ applied <= acceptedThrough
  <2>1. CASE phase = "Applying" /\ applied \in floor .. work.last
    BY <2>1, FloorStaysAccepted
  <2>2. CASE applied = floor
    BY <2>2 DEF WorkerInv, Links
  <2> QED BY <2>1, <2>2 DEF Panic
<1>2. Types'
  BY <1>0, EmptySeq DEF WorkerInv, Types, Phases
<1>3. Admission'
  BY <1>0 DEF WorkerInv, Admission, Working
<1>4. Answered' = Answered
  BY <1>0 DEF Answered
<1>5. Links'
  <2>1. Len(deferred') <= 1
    BY <1>0
  <2> QED BY <1>0, <1>1, <1>4, <2>1 DEF WorkerInv, Links, Busy, Working
<1>6. CreditsExact'
  BY <1>0, CreditsStay
<1> QED BY <1>2, <1>3, <1>5, <1>6 DEF WorkerInv

(***************************************************************************)
(* TerminationGuard closes admission.                                      *)
(***************************************************************************)
LEMMA TerminateKeepsInv == WorkerInv /\ Terminate => WorkerInv'
<1> SUFFICES ASSUME WorkerInv, Terminate PROVE WorkerInv'
  OBVIOUS
<1>0. /\ phase = "Leaving" /\ phase' = "Closing" /\ accepting' = FALSE /\ applyingThrough' = 0
      /\ UNCHANGED <<acceptedThrough, inflightEntries, inflightBytes, requests, events>>
      /\ UNCHANGED <<work, deferred, floor, panicked, durableThrough>>
      /\ UNCHANGED <<hasSender, owner, taken, starts>>
  BY DEF Terminate, ownership
<1>1. Types'
  BY <1>0, IndexIsInt DEF WorkerInv, Types, Phases
<1>2. Admission'
  BY <1>0 DEF WorkerInv, Admission, Working
<1>3. Answered' = Answered
  BY <1>0 DEF Answered
<1>4. Links'
  BY <1>0, <1>3 DEF WorkerInv, Links, Busy, Working
<1>5. CreditsExact'
  BY <1>0, CreditsStay
<1> QED BY <1>1, <1>2, <1>4, <1>5 DEF WorkerInv

(***************************************************************************)
(* The thread ends, and the request channel with it.                       *)
(***************************************************************************)
LEMMA ExitKeepsInv == WorkerInv /\ Exit => WorkerInv'
<1> SUFFICES ASSUME WorkerInv, Exit PROVE WorkerInv'
  OBVIOUS
<1>0. /\ phase = "Closing" /\ phase' = "Exited" /\ requests' = <<>>
      /\ UNCHANGED <<accepting, acceptedThrough, inflightEntries, inflightBytes, events>>
      /\ UNCHANGED <<work, deferred, floor, panicked, durableThrough, applyingThrough>>
      /\ UNCHANGED <<hasSender, owner, taken, starts>>
  BY DEF Exit, shared, atomics, ownership
<1>1. Types'
  BY <1>0, EmptySeq DEF WorkerInv, Types, Phases
<1>2. Admission'
  BY <1>0 DEF WorkerInv, Admission, Working
<1>3. Answered' = Answered
  BY <1>0 DEF Answered
<1>4. Links'
  BY <1>0, <1>3 DEF WorkerInv, Links, Busy, Working
<1>5. CreditsExact'
  BY <1>0, CreditsStay
<1> QED BY <1>1, <1>2, <1>4, <1>5 DEF WorkerInv

----------------------------------------------------------------------------
(* The theorems.                                                           *)

(***************************************************************************)
(* Every step of the owner and of the thread keeps the invariant.          *)
(***************************************************************************)
LEMMA StepKeepsInv == WorkerInv /\ [Next]_vars => WorkerInv'
<1> SUFFICES ASSUME WorkerInv, [Next]_vars PROVE WorkerInv'
  OBVIOUS
<1>1. ASSUME NEW i \in Index, TrySubmit(i) PROVE WorkerInv'
  BY <1>1, TrySubmitKeepsInv
<1>2. CASE Complete
  BY <1>2, CompleteKeepsInv
<1>3. CASE ReleaseStopped
  BY <1>3, ReleaseStoppedKeepsInv
<1>4. CASE Shutdown \/ Abandon \/ Joined
  BY <1>4, JoinKeepsInv
<1>5. CASE Start
  BY <1>5, StartKeepsInv
<1>6. CASE Runs
  BY <1>6, ReceiveKeepsInv, DrainReadyKeepsInv, ApplyOkKeepsInv, FailureKeepsInv,
     PublishKeepsInv, NotifyKeepsInv, TerminateKeepsInv, ExitKeepsInv DEF Runs
<1>7. ASSUME NEW i \in Index, ApplyFailed(i) \/ Panic(i) PROVE WorkerInv'
  BY <1>7, ApplyFailedKeepsInv, PanicKeepsInv
<1>8. CASE UNCHANGED vars
  <2>1. /\ UNCHANGED <<accepting, acceptedThrough, inflightEntries, inflightBytes, requests>>
        /\ UNCHANGED <<events, phase, work, deferred, floor, panicked, durableThrough>>
        /\ UNCHANGED <<applyingThrough, hasSender, owner, taken, starts>>
    BY <1>8 DEF vars, shared, thread, atomics, ownership
  <2>2. UNCHANGED <<Answered, Begun, DeferredEnd>>
    BY <2>1 DEF Answered, Begun, DeferredEnd
  <2>3. Types'
    BY <2>1 DEF WorkerInv, Types
  <2>4. Admission'
    BY <2>1 DEF WorkerInv, Admission
  <2>5. Links'
    BY <2>1, <2>2 DEF WorkerInv, Links
  <2>6. CreditsExact'
    BY <2>1 DEF WorkerInv, CreditsExact
  <2> QED BY <2>3, <2>4, <2>5, <2>6 DEF WorkerInv
<1> QED BY <1>1, <1>2, <1>3, <1>4, <1>5, <1>6, <1>7, <1>8 DEF Next, Fails

(***************************************************************************)
(* The invariant holds always.                                             *)
(***************************************************************************)
THEOREM WorkerInvariant == Spec => []WorkerInv
BY InitWorkerInv, StepKeepsInv, PTL DEF Spec

(***************************************************************************)
(* The credits of try_submit, release and release_stopped are those of the *)
(* entries accepted and not got back, and stay within both limits, for all *)
(* options and entries.                                                    *)
(***************************************************************************)
THEOREM CreditsAreExact == Spec => []CreditsExact
<1>1. WorkerInv => CreditsExact
  BY DEF WorkerInv
<1> QED BY <1>1, WorkerInvariant, PTL

(***************************************************************************)
(* While entries are admitted the thread is there to take them, so the     *)
(* roll-back in try_submit is never needed.                                *)
(***************************************************************************)
THEOREM AdmissionIsSound == Spec => []AdmissionReachesThread
BY InvMeansReachable, WorkerInvariant, PTL

(***************************************************************************)
(* Every state is well typed; above all, the unsigned counters of the      *)
(* credits never go below zero.                                            *)
(***************************************************************************)
THEOREM WorkerIsTyped == Spec => []TypeOK
<1>1. WorkerInv => TypeOK
  <2> SUFFICES ASSUME WorkerInv PROVE TypeOK
    OBVIOUS
  <2>1. /\ taken \in Index /\ acceptedThrough \in Index /\ taken \in Int
        /\ acceptedThrough \in Int /\ taken <= acceptedThrough
    <3>1. taken <= Answered /\ Answered <= acceptedThrough /\ Answered \in Index
      BY EndsTyped DEF WorkerInv, Links
    <3>2. taken \in Index /\ acceptedThrough \in Index
      BY DEF WorkerInv, Types
    <3> QED BY <3>1, <3>2, IndexIsInt
  <2>2. /\ RetainedUpTo[taken] \in Int /\ RetainedUpTo[acceptedThrough] \in Int
        /\ RetainedUpTo[taken] <= RetainedUpTo[acceptedThrough]
    BY <2>1, EntriesAssumption
  <2>3. inflightEntries \in Nat /\ inflightBytes \in Nat
    BY <2>1, <2>2 DEF WorkerInv, CreditsExact
  <2> QED BY <2>3, Zenon DEF WorkerInv, Types, TypeOK
<1> QED BY <1>1, WorkerInvariant, PTL

(***************************************************************************)
(* The worker implements ApplyService: whatever fails and whoever restarts *)
(* it, entries are accepted in order and only while it is open, what it    *)
(* reports durable was accepted, is reported while it is open and is never *)
(* taken back, and a restart begins at or above it.                        *)
(***************************************************************************)
THEOREM WorkerImplementsService == Spec => ServiceSpec
<1>1. Init => Service!ServiceInit
  <2> SUFFICES ASSUME Init PROVE Service!ServiceInit
    OBVIOUS
  <2>1. floor \in Nat
    BY IndexIsInt DEF Init
  <2> QED BY <2>1 DEF Init, Service!ServiceInit
<1>2. WorkerInv /\ [Next]_vars => [Service!ServiceNext]_(Service!svars)
  <2> SUFFICES ASSUME WorkerInv, [Next]_vars
               PROVE  [Service!ServiceNext]_(Service!svars)
    OBVIOUS
  <2> USE DEF Service!svars
  <2>0. /\ acceptedThrough \in Int /\ acceptedThrough >= 0 /\ durableThrough \in Int
        /\ durableThrough >= 0 /\ floor \in Int /\ floor >= 0
        /\ durableThrough <= floor /\ floor <= acceptedThrough
    BY IndexIsInt DEF WorkerInv, Types, Links
  <2>1. ASSUME NEW i \in Index, TrySubmit(i) PROVE Service!Accept
    <3>1. accepting /\ i > acceptedThrough /\ owner \in {"Live", "Joined"} /\ i \in Nat
      BY <2>1, IndexIsInt DEF TrySubmit
    <3>2. Reachable
      BY <3>1, InvMeansReachable DEF AdmissionReachesThread
    <3>3. acceptedThrough' = i /\ UNCHANGED <<accepting, durableThrough>>
      BY <2>1, <3>2 DEF TrySubmit, atomics
    <3> QED BY <2>0, <3>1, <3>3 DEF Service!Accept
  <2>2. CASE ApplyOk
    <3>1. /\ accepting /\ durableThrough' = work.last /\ UNCHANGED <<accepting, acceptedThrough>>
          /\ phase = "Applying"
      BY <2>2 DEF ApplyOk, shared, WorkerInv, Admission, Working
    <3>2. work \in BatchSet /\ work.first = durableThrough + 1 /\ work.first <= work.last
      BY <3>1 DEF WorkerInv, Links, Busy
    <3>3. work.last \in Int /\ work.first \in Int /\ durableThrough < work.last
      BY <2>0, <3>2, BatchIsInt
    <3>4. work.last <= acceptedThrough
      <4>1. Begun = work.last
        BY <3>1 DEF Begun, Busy
      <4>2. /\ Begun \in Index /\ DeferredEnd \in Index
            /\ Begun <= DeferredEnd /\ DeferredEnd <= acceptedThrough
        BY <3>1, EndsTyped DEF Working
      <4> QED BY <2>0, <4>1, <4>2, IndexIsInt
    <3> QED BY <2>0, <3>1, <3>3, <3>4 DEF Service!ServiceNext, Service!Report
  <2>3. CASE ReleaseStopped \/ Failure \/ Terminate
    <3>1. accepting' = FALSE /\ UNCHANGED <<acceptedThrough, durableThrough>>
      BY <2>3 DEF ReleaseStopped, Failure, Terminate, atomics
    <3>2. accepting \in BOOLEAN
      BY DEF WorkerInv, Types
    <3> QED BY <3>1, <3>2 DEF Service!ServiceNext, Service!Close
  <2>4. CASE Start
    <3>1. /\ accepting' = TRUE /\ acceptedThrough' = floor /\ durableThrough' = floor
          /\ owner \in {"Joined", "Dropped"}
      BY <2>4 DEF Start
    <3>2. ~accepting
      BY <3>1 DEF WorkerInv, Admission
    <3>3. /\ durableThrough' \in Nat /\ durableThrough <= durableThrough'
          /\ durableThrough' <= acceptedThrough /\ acceptedThrough' = durableThrough'
      BY <2>0, <3>1
    <3>4. Service!Reopen
      BY <3>1, <3>2, <3>3, Zenon DEF Service!Reopen
    <3> QED BY <3>4 DEF Service!ServiceNext
  <2>5. CASE \/ Complete \/ Shutdown \/ Abandon \/ Joined \/ Receive \/ DrainReady
             \/ Publish \/ Notify \/ Exit
    BY <2>5 DEF Complete, Shutdown, Abandon, Join, Joined, Receive, DrainReady, Publish, Notify,
       Exit, shared, atomics
  <2>6. ASSUME NEW i \in Index, ApplyFailed(i) \/ Panic(i)
        PROVE  UNCHANGED Service!svars
    BY <2>6 DEF ApplyFailed, Panic, shared, atomics
  <2>7. CASE UNCHANGED vars
    BY <2>7 DEF vars, shared, atomics
  <2> QED BY <2>1, <2>2, <2>3, <2>4, <2>5, <2>6, <2>7
        DEF Next, Runs, Fails, Service!ServiceNext
<1> QED BY <1>1, <1>2, WorkerInvariant, PTL DEF Spec, ServiceSpec, Service!ServiceSpec

----------------------------------------------------------------------------
(* Entries are held in order.                                              *)

(***************************************************************************)
(* Where nothing is left: the batch in hand is gone once its event is sent *)
(* or its thread unwinds, and a thread that ends in order leaves neither a *)
(* deferred batch nor a request behind.                                    *)
(***************************************************************************)
Emptied ==
    /\ phase \in {"Receiving", "Notifying", "NotifyingFailure", "Leaving", "Closing", "Exited"}
          => work = NoWork
    /\ phase \in {"PublishingFailure", "NotifyingFailure", "Leaving", "Closing", "Exited"}
          /\ ~panicked => deferred = <<>> /\ requests = <<>>

LEMMA InitEmptied == Init => Emptied
BY DEF Init, Emptied

LEMMA StepKeepsEmptied == WorkerInv /\ Emptied /\ [Next]_vars => Emptied'
<1> SUFFICES ASSUME WorkerInv, Emptied, [Next]_vars PROVE Emptied'
  OBVIOUS
<1> USE DEF Emptied
<1>1. ASSUME NEW i \in Index, TrySubmit(i) PROVE Emptied'
  <2>1. accepting /\ owner \in {"Live", "Joined"}
    BY <1>1 DEF TrySubmit
  <2>2. phase \in Phases /\ phase \notin {"Closing", "Exited"}
        /\ phase \notin {"PublishingFailure", "NotifyingFailure"}
    BY <2>1 DEF WorkerInv, Types, Admission
  <2>3. phase = "Leaving" => panicked
    BY <2>1 DEF WorkerInv, Types, Admission
  <2>4. UNCHANGED <<phase, work, deferred, panicked>>
    BY <1>1 DEF TrySubmit, thread
  <2> QED BY <2>2, <2>3, <2>4
<1>2. CASE Complete \/ ReleaseStopped \/ Shutdown \/ Abandon \/ Joined
  BY <1>2 DEF Complete, ReleaseStopped, Shutdown, Abandon, Join, Joined, thread
<1>3. CASE Start
  BY <1>3 DEF Start
<1>4. CASE Receive
  BY <1>4 DEF Receive
<1>5. CASE DrainReady
  <2>1. phase = "Draining" /\ phase' \in {"Draining", "Applying"}
    BY <1>5 DEF DrainReady, BeginApply
  <2> QED BY <2>1
<1>6. CASE ApplyOk \/ \E i \in Index : ApplyFailed(i)
  <2>1. phase' \in {"Publishing", "Failing"}
    BY <1>6 DEF ApplyOk, ApplyFailed
  <2> QED BY <2>1
<1>7. CASE Failure
  BY <1>7 DEF Failure
<1>8. CASE Publish
  <2>1. work' = NoWork /\ UNCHANGED <<deferred, requests, panicked>>
    BY <1>8 DEF Publish, shared
  <2>2. \/ phase = "Publishing" /\ phase' = "Notifying"
        \/ phase = "PublishingFailure" /\ phase' = "NotifyingFailure"
    BY <1>8 DEF Publish
  <2> QED BY <2>1, <2>2
<1>9. CASE Notify
  <2>1. UNCHANGED <<work, deferred, requests, panicked>>
    BY <1>9 DEF Notify
  <2>2. \/ phase = "Notifying" /\ phase' = "Receiving"
        \/ phase = "NotifyingFailure" /\ phase' = "Leaving"
    BY <1>9 DEF Notify
  <2> QED BY <2>1, <2>2
<1>10. CASE Terminate
  BY <1>10 DEF Terminate
<1>11. CASE Exit
  BY <1>11 DEF Exit
<1>12. CASE \E i \in Index : Panic(i)
  <2>1. work' = NoWork /\ panicked' /\ phase' = "Leaving"
    BY <1>12 DEF Panic
  <2> QED BY <2>1
<1>13. CASE UNCHANGED vars
  BY <1>13 DEF vars, thread
<1> QED
  BY <1>1, <1>2, <1>3, <1>4, <1>5, <1>6, <1>7, <1>8, <1>9, <1>10, <1>11, <1>12, <1>13
     DEF Next, Runs, Fails

(***************************************************************************)
(* Two chains that meet are one.                                           *)
(***************************************************************************)
LEMMA ChainConcat ==
    ASSUME NEW s \in Seq(BatchSet), NEW r \in Seq(BatchSet),
           NEW a \in Index, NEW b \in Index, NEW c \in Index, Chain(s, a, b), Chain(r, b, c)
    PROVE  Chain(s \o r, a, c) /\ s \o r \in Seq(BatchSet)
<1> DEFINE q == s \o r
<1>1. /\ Len(s) \in Nat /\ Len(r) \in Nat /\ q \in Seq(BatchSet) /\ Len(q) = Len(s) + Len(r)
      /\ \A k \in 1 .. Len(s) : q[k] = s[k]
      /\ \A k \in 1 .. Len(r) : q[Len(s) + k] = r[k]
  BY ConcatProperties
<1>2. s = <<>> <=> Len(s) = 0
  BY EmptySeq
<1>3. r = <<>> <=> Len(r) = 0
  BY EmptySeq
<1>4. q = <<>> <=> Len(q) = 0
  BY <1>1, EmptySeq
<1>5. b <= c /\ a \in Int /\ b \in Int /\ c \in Int
  BY ChainEnds, IndexIsInt
<1>6. /\ \A k \in 1 .. Len(s) : s[k] \in BatchSet /\ s[k].last \in Int
      /\ \A k \in 1 .. Len(r) : r[k] \in BatchSet /\ r[k].last \in Int
  <2>1. /\ \A k \in 1 .. Len(s) : s[k] \in BatchSet
        /\ \A k \in 1 .. Len(r) : r[k] \in BatchSet
    OBVIOUS
  <2> QED BY <2>1, BatchIsInt
<1> HIDE DEF q
<1>7. \A k \in 1 .. Len(q) : q[k].first <= q[k].last /\ q[k].last <= c
  <2> SUFFICES ASSUME NEW k \in 1 .. Len(q) PROVE q[k].first <= q[k].last /\ q[k].last <= c
    OBVIOUS
  <2>1. CASE k <= Len(s)
    <3>1. k \in 1 .. Len(s)
      BY <1>1, <2>1
    <3>2. q[k] = s[k] /\ s[k].first <= s[k].last /\ s[k].last <= b /\ s[k].last \in Int
      BY <1>1, <1>6, <3>1 DEF Chain
    <3> QED BY <1>5, <3>2
  <2>2. CASE ~(k <= Len(s))
    <3>1. PICK j : j = k - Len(s)
      OBVIOUS
    <3>2. j \in 1 .. Len(r) /\ k = Len(s) + j
      BY <1>1, <2>2, <3>1
    <3>3. q[k] = r[j]
      BY <1>1, <3>2
    <3> QED BY <3>2, <3>3 DEF Chain
  <2> QED BY <2>1, <2>2
<1>8. \A k \in 1 .. Len(q) - 1 : q[k + 1].first = q[k].last + 1
  <2> SUFFICES ASSUME NEW k \in 1 .. Len(q) - 1 PROVE q[k + 1].first = q[k].last + 1
    OBVIOUS
  <2>1. CASE k < Len(s)
    <3>1. k \in 1 .. Len(s) - 1 /\ k \in 1 .. Len(s) /\ k + 1 \in 1 .. Len(s)
      BY <1>1, <2>1
    <3>2. q[k] = s[k] /\ q[k + 1] = s[k + 1]
      BY <1>1, <3>1
    <3> QED BY <3>1, <3>2 DEF Chain
  <2>2. CASE k = Len(s)
    <3>1. k \in 1 .. Len(s) /\ 1 \in 1 .. Len(r)
      BY <1>1, <2>2
    <3>2. q[k] = s[Len(s)] /\ q[k + 1] = r[1]
      BY <1>1, <2>2, <3>1
    <3>3. s # <<>> /\ r # <<>>
      BY <1>1, <1>2, <1>3, <3>1
    <3>4. s[Len(s)].last = b /\ r[1].first = b + 1
      BY <3>3 DEF Chain
    <3> QED BY <3>2, <3>4
  <2>3. CASE k > Len(s)
    <3>1. PICK j : j = k - Len(s)
      OBVIOUS
    <3>2. /\ j \in 1 .. Len(r) - 1 /\ j \in 1 .. Len(r) /\ j + 1 \in 1 .. Len(r)
          /\ k = Len(s) + j /\ k + 1 = Len(s) + (j + 1)
      BY <1>1, <2>3, <3>1
    <3>3. q[k] = r[j] /\ q[k + 1] = r[j + 1]
      BY <1>1, <3>2
    <3> QED BY <3>2, <3>3 DEF Chain
  <2> QED BY <1>1, <2>1, <2>2, <2>3
<1>9. q = <<>> => c = a
  BY <1>1, <1>2, <1>3, <1>4 DEF Chain
<1>10. ASSUME q # <<>> PROVE q[1].first = a + 1 /\ q[Len(q)].last = c
  <2>1. q[1].first = a + 1
    <3>1. CASE s = <<>>
      <4>1. Len(s) = 0 /\ 1 \in 1 .. Len(r) /\ r # <<>> /\ b = a
        BY <1>1, <1>2, <1>3, <1>4, <1>10, <3>1 DEF Chain
      <4>2. q[Len(s) + 1] = r[1] /\ Len(s) + 1 = 1
        BY <1>1, <4>1
      <4> QED BY <4>1, <4>2 DEF Chain
    <3>2. CASE s # <<>>
      <4>1. 1 \in 1 .. Len(s)
        BY <1>1, <1>2, <3>2
      <4> QED BY <1>1, <3>2, <4>1 DEF Chain
    <3> QED BY <3>1, <3>2
  <2>2. q[Len(q)].last = c
    <3>1. CASE r = <<>>
      <4>1. Len(q) = Len(s) /\ Len(s) \in 1 .. Len(s) /\ s # <<>> /\ c = b
        BY <1>1, <1>2, <1>3, <1>4, <1>10, <3>1 DEF Chain
      <4> QED BY <1>1, <4>1 DEF Chain
    <3>2. CASE r # <<>>
      <4>1. Len(r) \in 1 .. Len(r)
        BY <1>1, <1>3, <3>2
      <4>2. q[Len(q)] = r[Len(r)]
        BY <1>1, <4>1
      <4> QED BY <3>2, <4>2 DEF Chain
    <3> QED BY <3>1, <3>2
  <2> QED BY <2>1, <2>2
<1> QED BY <1>1, <1>7, <1>8, <1>9, <1>10 DEF Chain, q

(***************************************************************************)
(* A chain covers its indexes in order.                                    *)
(***************************************************************************)
LEMMA ChainCovers ==
    ASSUME NEW s \in Seq(BatchSet), NEW a \in Index, NEW t \in Index, Chain(s, a, t)
    PROVE  Covers(s, a, t)
<1>1. Len(s) \in Nat /\ DOMAIN s = 1 .. Len(s) /\ (s = <<>> <=> Len(s) = 0)
  BY EmptySeq
<1>2. t = IF s = <<>> THEN a ELSE s[Len(s)].last
  BY DEF Chain
<1>3. a \in Int
  BY IndexIsInt
<1>4. ASSUME NEW k \in 1 .. Len(s)
      PROVE  /\ s[k].first <= s[k].last
             /\ s[k].first = 1 + IF k = 1 THEN a ELSE s[k - 1].last
  <2>1. s[k].first <= s[k].last
    BY DEF Chain
  <2>2. CASE k = 1
    <3>1. s # <<>>
      BY <1>1, <1>4
    <3> QED BY <1>3, <2>1, <2>2, <3>1 DEF Chain
  <2>3. CASE k # 1
    <3>1. PICK j : j = k - 1
      OBVIOUS
    <3>2. j \in 1 .. Len(s) - 1 /\ j \in 1 .. Len(s) /\ k = j + 1
      BY <1>1, <2>3, <3>1
    <3>3. s[j + 1].first = s[j].last + 1
      BY <3>2 DEF Chain
    <3>4. s[j].last \in Int
      BY <3>2, BatchIsInt
    <3>5. s[k].first = 1 + s[j].last
      BY <3>2, <3>3, <3>4
    <3>6. s[k].first = 1 + s[k - 1].last
      BY <3>1, <3>5, Zenon
    <3> QED BY <2>1, <2>3, <3>6, Zenon
  <2> QED BY <2>2, <2>3
<1> QED BY <1>1, <1>2, <1>4 DEF Covers

(***************************************************************************)
(* The batch in hand is a link of the chain.                               *)
(***************************************************************************)
LEMMA WorkIsChain ==
    ASSUME NEW b \in BatchSet, NEW a \in Index, b.first = a + 1, b.first <= b.last
    PROVE  <<b>> \in Seq(BatchSet) /\ Chain(<<b>>, a, b.last)
<1>1. <<b>> \in Seq(BatchSet) /\ Len(<<b>>) = 1 /\ <<b>>[1] = b /\ <<b>> # <<>>
  OBVIOUS
<1>2. b.last \in Int /\ b.last \in Index
  BY BatchIsInt
<1> QED BY <1>1, <1>2 DEF Chain

LEMMA InvHeldInOrder == WorkerInv /\ Emptied => HeldInOrder
<1> SUFFICES ASSUME WorkerInv, Emptied PROVE HeldInOrder
  OBVIOUS
<1>0. /\ Answered \in Index /\ taken \in Index /\ acceptedThrough \in Index
      /\ events \in Seq(BatchSet) /\ deferred \in Seq(BatchSet) /\ requests \in Seq(BatchSet)
      /\ phase \in Phases /\ panicked \in BOOLEAN /\ durableThrough \in Index
  BY EndsTyped DEF WorkerInv, Types
<1>1. Chain(events, taken, Answered)
  BY DEF WorkerInv, Links
<1>2. CASE panicked
  <2>1. Covers(events, taken, Answered)
    BY <1>0, <1>1, ChainCovers
  <2> QED BY <1>2, <2>1 DEF HeldInOrder, Answered
<1>3. CASE ~panicked
  <2> SUFFICES /\ Chain(events \o InHand \o deferred \o requests, taken, acceptedThrough)
               /\ events \o InHand \o deferred \o requests \in Seq(BatchSet)
    BY <1>0, <1>3, ChainCovers DEF HeldInOrder
  <2>a. ASSUME NEW h \in Seq(BatchSet), NEW d \in Seq(BatchSet), NEW r \in Seq(BatchSet),
               NEW x \in Index, NEW y \in Index, Chain(h, Answered, x), Chain(d, x, y),
               Chain(r, y, acceptedThrough)
        PROVE  /\ Chain(events \o h \o d \o r, taken, acceptedThrough)
               /\ events \o h \o d \o r \in Seq(BatchSet)
    <3>1. Chain(events \o h, taken, x) /\ events \o h \in Seq(BatchSet)
      BY <1>0, <1>1, <2>a, ChainConcat
    <3>2. Chain((events \o h) \o d, taken, y) /\ (events \o h) \o d \in Seq(BatchSet)
      BY <1>0, <2>a, <3>1, ChainConcat
    <3> QED BY <1>0, <2>a, <3>2, ChainConcat
  <2>0. <<>> \in Seq(BatchSet)
    OBVIOUS
  <2>1. CASE phase \in {"Receiving", "Notifying"}
    <3>1. InHand = <<>>
      BY <2>1 DEF Emptied, InHand
    <3>2. phase \in Working /\ Begun = durableThrough /\ Answered = durableThrough
      BY <2>1 DEF Working, Begun, Busy, WorkerInv, Links
    <3>3. Chain(deferred, Answered, DeferredEnd) /\ Chain(requests, DeferredEnd, acceptedThrough)
      BY <3>2 DEF WorkerInv, Links
    <3>4. DeferredEnd \in Index
      BY <3>2, EndsTyped
    <3>5. Chain(<<>>, Answered, Answered)
      BY <1>0, EmptyChain
    <3> QED BY <1>0, <2>0, <2>a, <3>1, <3>3, <3>4, <3>5
  <2>2. CASE phase \in Busy \cup {"Publishing"}
    <3>1. work \in BatchSet /\ work.first = Answered + 1 /\ work.first <= work.last
      BY <2>2 DEF WorkerInv, Links
    <3>2. InHand = <<work>>
      <4>1. work # NoWork
        <5>1. NoWork.first = 1 /\ NoWork.last = 0
          BY DEF NoWork, Batch
        <5> QED BY <3>1, <5>1
      <4> QED BY <4>1 DEF InHand
    <3>3. <<work>> \in Seq(BatchSet) /\ Chain(<<work>>, Answered, work.last)
      BY <1>0, <3>1, WorkIsChain
    <3>4. phase \in Working /\ Begun = work.last
      BY <2>2 DEF Working, Begun, Busy, WorkerInv, Links
    <3>5. Chain(deferred, work.last, DeferredEnd) /\ Chain(requests, DeferredEnd, acceptedThrough)
      BY <3>4 DEF WorkerInv, Links
    <3>6. DeferredEnd \in Index /\ work.last \in Index
      BY <3>1, <3>4, EndsTyped, BatchIsInt
    <3> QED BY <1>0, <2>a, <3>2, <3>3, <3>5, <3>6
  <2>3. CASE phase = "PublishingFailure"
    <3>1. /\ work \in BatchSet /\ work.first = Answered + 1 /\ work.first <= work.last
          /\ work.last = acceptedThrough
      BY <2>3 DEF WorkerInv, Links
    <3>2. InHand = <<work>>
      <4>1. work # NoWork
        <5>1. NoWork.first = 1 /\ NoWork.last = 0
          BY DEF NoWork, Batch
        <5> QED BY <3>1, <5>1
      <4> QED BY <4>1 DEF InHand
    <3>3. <<work>> \in Seq(BatchSet) /\ Chain(<<work>>, Answered, work.last)
      BY <1>0, <3>1, WorkIsChain
    <3>4. deferred = <<>> /\ requests = <<>>
      BY <1>3, <2>3 DEF Emptied
    <3>5. Chain(<<>>, acceptedThrough, acceptedThrough)
      BY <1>0, EmptyChain
    <3> QED BY <1>0, <2>0, <2>a, <3>1, <3>2, <3>3, <3>4, <3>5
  <2>4. CASE phase \in {"NotifyingFailure", "Leaving", "Closing", "Exited"}
    <3>1. InHand = <<>> /\ deferred = <<>> /\ requests = <<>>
      BY <1>3, <2>4 DEF Emptied, InHand
    <3>2. Answered = acceptedThrough
      BY <1>3, <2>4 DEF WorkerInv, Links
    <3>3. Chain(<<>>, acceptedThrough, acceptedThrough)
      BY <1>0, EmptyChain
    <3> QED BY <1>0, <2>0, <2>a, <3>1, <3>2, <3>3
  <2> QED BY <1>0, <2>1, <2>2, <2>3, <2>4 DEF Phases, Busy
<1> QED BY <1>0, <1>2, <1>3

(***************************************************************************)
(* Every entry that was accepted and that the owner has not got back is in *)
(* exactly one place, and the events, the batch in hand, the deferred one  *)
(* and the requests hold them in order, in every behaviour and for all     *)
(* options and entries (run, drain_ready, failure, try_submit).            *)
(***************************************************************************)
THEOREM EntriesAreHeldInOrder == Spec => []HeldInOrder
<1>1. Init => WorkerInv /\ Emptied
  BY InitWorkerInv, InitEmptied
<1>2. WorkerInv /\ Emptied /\ [Next]_vars => (WorkerInv /\ Emptied)'
  BY StepKeepsInv, StepKeepsEmptied
<1> QED BY <1>1, <1>2, InvHeldInOrder, PTL DEF Spec

=============================================================================
