----------------------------- MODULE FlowProofs -----------------------------
(***************************************************************************)
(* The replication window of the leader is sound for every batch size,     *)
(* window size and length of the log, whatever is lost, repeated or        *)
(* reordered.                                                              *)
(*                                                                         *)
(* The window changes in the leader's steps only, and each of them applies *)
(* some of the operations of Progress, one after the other: Acknowledge or *)
(* CollapseIntoProbe, then AfterSend.  So the window's soundness is stated *)
(* of a log length and a progress, Sound, and shown for each operation.    *)
(***************************************************************************)
EXTENDS Flow, FiniteSetTheorems, TLAPS

ProgressSet == [match : Int, next : Int, mode : {"Probe", "Awaiting", "Replicate"},
                inflights : SUBSET Int]

Sound(l, p) ==
    /\ p \in ProgressSet
    /\ IsFiniteSet(p.inflights)
    /\ p.match < p.next
    /\ p.next <= l + 1
    /\ \A i \in p.inflights : p.match < i /\ i < p.next
    /\ p.inflights # {} => p.next - 1 \in p.inflights /\ p.mode = "Replicate"
    /\ Cardinality(p.inflights) <= MaxInflight

FrameSet == [prev : Int, len : Int]

AnswerSet == [success : BOOLEAN, match : Int]

FlowInv ==
    /\ last \in Int /\ held \in Int
    /\ Sound(last, progress)
    /\ frames \subseteq FrameSet
    /\ answers \subseteq AnswerSet
    /\ MatchSound

----------------------------------------------------------------------------
(* The operations of Progress.                                             *)

(***************************************************************************)
(* The lesser and the greater of two numbers.                              *)
(***************************************************************************)
LEMMA LesserGreater ==
    ASSUME NEW a \in Int, NEW b \in Int
    PROVE  /\ Lesser(a, b) \in Int /\ Lesser(a, b) <= a /\ Lesser(a, b) <= b
           /\ Lesser(a, b) \in {a, b}
           /\ Greater(a, b) \in Int /\ Greater(a, b) >= a /\ Greater(a, b) >= b
           /\ Greater(a, b) \in {a, b}
BY DEF Lesser, Greater

(***************************************************************************)
(* A progress made of parts has these parts.                               *)
(***************************************************************************)
LEMMA ProgressParts ==
    ASSUME NEW m, NEW n, NEW d, NEW f
    PROVE  /\ Progress(m, n, d, f).match = m /\ Progress(m, n, d, f).next = n
           /\ Progress(m, n, d, f).mode = d /\ Progress(m, n, d, f).inflights = f
BY DEF Progress

(***************************************************************************)
(* A progress without batches in flight is sound if its indexes are.       *)
(***************************************************************************)
LEMMA EmptyWindow ==
    ASSUME NEW l \in Int, NEW m \in Int, NEW n \in Int, m < n, n <= l + 1,
           NEW d \in {"Probe", "Awaiting", "Replicate"}
    PROVE  Sound(l, Progress(m, n, d, {}))
<1>1. Progress(m, n, d, {}) \in ProgressSet
  BY DEF Progress, ProgressSet
<1>2. IsFiniteSet({}) /\ Cardinality({}) = 0 /\ MaxInflight \in Nat
  BY FS_EmptySet, FlowAssumption
<1>3. Cardinality({}) <= MaxInflight
  BY <1>2
<1> QED BY <1>1, <1>2, <1>3, ProgressParts DEF Sound

(***************************************************************************)
(* A longer log leaves the window sound.                                   *)
(***************************************************************************)
LEMMA SoundGrows ==
    ASSUME NEW l \in Int, NEW p, Sound(l, p)
    PROVE  Sound(l + 1, p)
<1>1. p.next \in Int /\ p.next <= l + 1
  BY DEF Sound, ProgressSet
<1>2. p.next <= (l + 1) + 1
  BY <1>1
<1> QED BY <1>2 DEF Sound

(***************************************************************************)
(* A rejection leaves it sound, and the match index alone.                 *)
(***************************************************************************)
LEMMA CollapseSound ==
    ASSUME NEW l \in Int, NEW p, Sound(l, p)
    PROVE  Sound(l, CollapseIntoProbe(p)) /\ CollapseIntoProbe(p).match = p.match
<1>1. p.match \in Int /\ p.next \in Int /\ p.match < p.next /\ p.next <= l + 1
  BY DEF Sound, ProgressSet
<1> DEFINE n == Greater(p.next - 1, p.match + 1)
<1>2. n \in Int /\ p.match < n /\ n <= l + 1
  BY <1>1 DEF Greater
<1> HIDE DEF n
<1>3. Sound(l, Progress(p.match, n, "Probe", {}))
  BY <1>1, <1>2, EmptyWindow
<1> QED BY <1>3, ProgressParts DEF CollapseIntoProbe, n

(***************************************************************************)
(* An acknowledgement of entries the leader has leaves the window sound.   *)
(***************************************************************************)
LEMMA AcknowledgeSound ==
    ASSUME NEW l \in Int, NEW p, Sound(l, p), NEW r \in Int, r <= l
    PROVE  Sound(l, Acknowledge(p, r)) /\ Acknowledge(p, r).match = Greater(p.match, r)
<1>1. p.match \in Int /\ p.next \in Int /\ p.match < p.next /\ p.next <= l + 1
  BY DEF Sound, ProgressSet
<1> DEFINE m == Greater(p.match, r)
           n == Greater(p.next, m + 1)
           f == IF p.mode = "Replicate" THEN {i \in p.inflights : i > m} ELSE {}
<1>2. m \in Int /\ p.match <= m /\ m <= l
  BY <1>1 DEF Greater
<1> HIDE DEF m
<1>3. n \in Int /\ m < n /\ n <= l + 1 /\ p.next <= n /\ (n = p.next \/ n = m + 1)
  BY <1>1, <1>2 DEF Greater
<1>4. f \subseteq p.inflights /\ \A i \in f : i > m /\ p.mode = "Replicate"
  OBVIOUS
<1>5. p.inflights \subseteq Int /\ IsFiniteSet(p.inflights)
      /\ Cardinality(p.inflights) <= MaxInflight
  BY DEF Sound, ProgressSet
<1>6. IsFiniteSet(f) /\ Cardinality(f) <= MaxInflight
  <2>1. IsFiniteSet(f) /\ Cardinality(f) <= Cardinality(p.inflights)
    BY <1>4, <1>5, FS_Subset
  <2>2. Cardinality(f) \in Nat /\ Cardinality(p.inflights) \in Nat /\ MaxInflight \in Nat
    BY <1>5, <2>1, FS_CardinalityType, FlowAssumption
  <2> QED BY <1>5, <2>1, <2>2
<1>7. ASSUME NEW i \in f PROVE m < i /\ i < n
  <2>1. i \in Int /\ i > m /\ i < p.next
    BY <1>4, <1>5, <1>7 DEF Sound
  <2> QED BY <1>1, <1>2, <1>3, <2>1
<1>8. f # {} => n - 1 \in f
  <2> SUFFICES ASSUME NEW i \in f PROVE n - 1 \in f
    OBVIOUS
  <2>1. i \in Int /\ i > m /\ i < p.next /\ p.mode = "Replicate" /\ p.inflights # {}
    BY <1>4, <1>5 DEF Sound
  <2>2. n = p.next /\ n - 1 > m
    BY <1>1, <1>2, <1>3, <2>1 DEF Greater
  <2>3. n - 1 \in p.inflights
    BY <2>1, <2>2 DEF Sound
  <2> QED BY <2>1, <2>2, <2>3
<1> HIDE DEF n, f
<1>9. Progress(m, n, "Replicate", f) \in ProgressSet
  BY <1>2, <1>3, <1>4, <1>5 DEF Progress, ProgressSet
<1>10. Sound(l, Progress(m, n, "Replicate", f))
  BY <1>3, <1>6, <1>7, <1>8, <1>9, ProgressParts DEF Sound
<1>11. Acknowledge(p, r) = Progress(m, n, "Replicate", f)
  BY DEF Acknowledge, m, n, f
<1> QED BY <1>10, <1>11, ProgressParts DEF m

----------------------------------------------------------------------------
(* fill_replication_window.                                                *)

(***************************************************************************)
(* The arithmetic of batches.                                              *)
(***************************************************************************)
LEMMA Products ==
    ASSUME NEW b \in Nat, NEW k \in Int, NEW w \in Int, k <= w
    PROVE  b * k \in Int /\ b * w \in Int /\ b * k <= b * w /\ b * (w - 1) = b * w - b
BY SMTT(30)

LEMMA Quotient ==
    ASSUME NEW n \in Nat, NEW b \in Nat \ {0}
    PROVE  (n + b - 1) \div b \in Nat /\ b * ((n + b - 1) \div b) <= n + b - 1
OBVIOUS

(***************************************************************************)
(* The batches that are sent fit the window, and each of them begins       *)
(* within the log.                                                         *)
(***************************************************************************)
LEMMA WindowFits ==
    ASSUME NEW l \in Int, NEW p, Sound(l, p)
    PROVE  LET w == WindowBatches(l, p)
           IN  /\ w \in Nat
               /\ Cardinality(p.inflights) + w <= MaxInflight
               /\ \A k \in 0 .. w - 1 : /\ BatchLen * k \in Int /\ 0 <= BatchLen * k
                                        /\ BatchLen * k <= BatchLen * (w - 1)
                                        /\ BatchLen * (w - 1) \in Int
                                        /\ p.next + BatchLen * (w - 1) <= l
<1> DEFINE w == WindowBatches(l, p)
           c == Cardinality(p.inflights)
           n == Greater(l + 1 - p.next, 0)
           q == (n + BatchLen - 1) \div BatchLen
<1>1. p.next \in Int /\ p.next <= l + 1 /\ c \in Nat /\ c <= MaxInflight
  BY FS_CardinalityType DEF Sound, ProgressSet
<1>2. BatchLen \in Nat \ {0} /\ BatchLen \in Nat /\ MaxInflight \in Nat
  BY FlowAssumption
<1>3. n \in Nat /\ n = l + 1 - p.next
  BY <1>1 DEF Greater
<1>4. q \in Nat /\ BatchLen * q <= n + BatchLen - 1
  BY <1>2, <1>3, Quotient
<1>5. w = Lesser(Greater(MaxInflight - c, 0), q)
  BY DEF WindowBatches
<1> HIDE DEF w, c, q, n
<1>6. w \in Nat /\ w <= q /\ c + w <= MaxInflight
  BY <1>1, <1>2, <1>4, <1>5 DEF Lesser, Greater
<1>7. ASSUME NEW k \in 0 .. w - 1
      PROVE  /\ BatchLen * k \in Int /\ 0 <= BatchLen * k
             /\ BatchLen * k <= BatchLen * (w - 1)
             /\ BatchLen * (w - 1) \in Int
             /\ p.next + BatchLen * (w - 1) <= l
  <2>1. k \in Int /\ 0 <= k /\ k <= w - 1 /\ w - 1 \in Int
    BY <1>6
  <2>2. BatchLen * k \in Int /\ BatchLen * (w - 1) \in Int /\ BatchLen * k <= BatchLen * (w - 1)
    BY <1>2, <2>1, Products
  <2>3. 0 <= BatchLen * k
    BY <1>2, <2>1
  <2>4. /\ BatchLen * w <= BatchLen * q /\ BatchLen * w \in Int /\ BatchLen * q \in Int
        /\ BatchLen * (w - 1) = BatchLen * w - BatchLen
    <3>1. w \in Int /\ q \in Int
      BY <1>4, <1>6
    <3>2. BatchLen * w <= BatchLen * q /\ BatchLen * w \in Int /\ BatchLen * q \in Int
      BY <1>2, <1>6, <3>1, Products
    <3>3. BatchLen * (w - 1) = BatchLen * w - BatchLen
      BY <1>2, <3>1, Products
    <3> QED BY <3>2, <3>3
  <2> DEFINE x == BatchLen * w
             y == BatchLen * q
             z == BatchLen * (w - 1)
  <2>5. /\ x \in Int /\ y \in Int /\ z \in Int /\ x <= y /\ z = x - BatchLen
        /\ y <= n + BatchLen - 1
    BY <1>4, <2>2, <2>4
  <2> HIDE DEF x, y, z
  <2>6. p.next + z <= l
    BY <1>1, <1>2, <1>3, <2>5
  <2> QED BY <2>2, <2>3, <2>6 DEF z
<1> QED BY <1>6, <1>7 DEF w, c

(***************************************************************************)
(* A batch that begins at i in the log ends there or after, within it.     *)
(***************************************************************************)
LEMMA BatchEndBounds ==
    ASSUME NEW l \in Int, NEW i \in Int
    PROVE  /\ BatchEnd(l, i) \in Int /\ BatchEnd(l, i) <= l
           /\ i <= l => i <= BatchEnd(l, i)
           /\ \A j \in Int : i <= j => BatchEnd(l, i) <= BatchEnd(l, j)
<1>1. BatchLen \in Int /\ BatchLen >= 1
  BY FlowAssumption
<1> QED BY <1>1 DEF BatchEnd, Lesser

(***************************************************************************)
(* Sending leaves the window sound, and the match index alone.             *)
(***************************************************************************)
LEMMA AfterSendSound ==
    ASSUME NEW l \in Int, NEW p, Sound(l, p)
    PROVE  Sound(l, AfterSend(l, p)) /\ AfterSend(l, p).match = p.match
<1>0. /\ p.match \in Int /\ p.next \in Int /\ p.match < p.next /\ p.next <= l + 1
      /\ p.inflights \subseteq Int /\ IsFiniteSet(p.inflights)
  BY DEF Sound, ProgressSet
<1>1. CASE p.mode = "Probe"
  <2>1. AfterSend(l, p) = Progress(p.match, p.next, "Awaiting", {})
    BY <1>1 DEF AfterSend
  <2> QED BY <1>0, <2>1, EmptyWindow, ProgressParts
<1>2. CASE p.mode = "Replicate" /\ WindowBatches(l, p) > 0
  <2> DEFINE w == WindowBatches(l, p)
             b(k) == BatchEnd(l, p.next + BatchLen * k)
             e == b(w - 1)
             f == p.inflights \cup BatchEnds(l, p)
  <2>1. /\ w \in Nat /\ w > 0 /\ Cardinality(p.inflights) + w <= MaxInflight
        /\ \A k \in 0 .. w - 1 : /\ BatchLen * k \in Int /\ 0 <= BatchLen * k
                                 /\ BatchLen * k <= BatchLen * (w - 1)
                                 /\ BatchLen * (w - 1) \in Int
                                 /\ p.next + BatchLen * (w - 1) <= l
    BY <1>2, WindowFits
  <2>2. AfterSend(l, p) = Progress(p.match, e + 1, "Replicate", f)
    BY <1>2 DEF AfterSend
  <2>3. BatchEnds(l, p) = {b(k) : k \in 0 .. w - 1}
    BY DEF BatchEnds
  <2> HIDE DEF w
  <2>4. w - 1 \in 0 .. w - 1
    BY <2>1
  <2>5. \A k \in 0 .. w - 1 : b(k) \in Int /\ p.next <= b(k) /\ b(k) <= e /\ b(k) <= l
    <3> SUFFICES ASSUME NEW k \in 0 .. w - 1
                 PROVE  b(k) \in Int /\ p.next <= b(k) /\ b(k) <= e /\ b(k) <= l
      OBVIOUS
    <3> DEFINE i == p.next + BatchLen * k
               j == p.next + BatchLen * (w - 1)
    <3>1. i \in Int /\ j \in Int /\ p.next <= i /\ i <= j /\ i <= l
      <4>1. /\ BatchLen * k \in Int /\ 0 <= BatchLen * k /\ BatchLen * (w - 1) \in Int
            /\ BatchLen * k <= BatchLen * (w - 1) /\ p.next + BatchLen * (w - 1) <= l
        BY <2>1
      <4> QED BY <1>0, <4>1
    <3> HIDE DEF i, j
    <3>2. /\ BatchEnd(l, i) \in Int /\ BatchEnd(l, i) <= l /\ i <= BatchEnd(l, i)
          /\ BatchEnd(l, i) <= BatchEnd(l, j)
      BY <3>1, BatchEndBounds
    <3>3. p.next <= BatchEnd(l, i)
      BY <1>0, <3>1, <3>2
    <3> QED BY <3>2, <3>3 DEF i, j
  <2>6. e \in BatchEnds(l, p) /\ BatchEnds(l, p) \subseteq Int
    BY <2>3, <2>4, <2>5
  <2>7. IsFiniteSet(BatchEnds(l, p)) /\ Cardinality(BatchEnds(l, p)) <= w
    <3> DEFINE g == [k \in 0 .. w - 1 |-> b(k)]
    <3>1. g \in Surjection(0 .. w - 1, BatchEnds(l, p))
      BY <2>3 DEF Surjection
    <3>2. IsFiniteSet(0 .. w - 1) /\ Cardinality(0 .. w - 1) = w
      <4>1. 0 \in Int /\ w - 1 \in Int /\ ~(0 > w - 1) /\ (w - 1) - 0 + 1 = w
        BY <2>1
      <4> QED BY <4>1, FS_Interval
    <3> HIDE DEF g, b
    <3>3. /\ IsFiniteSet(BatchEnds(l, p))
          /\ Cardinality(BatchEnds(l, p)) <= Cardinality(0 .. w - 1)
      BY <3>1, <3>2, FS_Surjection
    <3> QED BY <3>2, <3>3
  <2>8. e \in Int /\ p.next <= e /\ e <= l
    BY <2>4, <2>5
  <2>9. \A i \in f : i \in Int /\ p.match < i /\ i < e + 1
    <3> SUFFICES ASSUME NEW i \in f PROVE i \in Int /\ p.match < i /\ i < e + 1
      OBVIOUS
    <3>1. CASE i \in p.inflights
      <4>1. i \in Int /\ p.match < i /\ i < p.next
        BY <1>0, <3>1 DEF Sound
      <4> QED BY <1>0, <2>8, <4>1
    <3>2. CASE i \in BatchEnds(l, p)
      <4>1. PICK k \in 0 .. w - 1 : i = b(k)
        BY <2>3, <3>2
      <4>2. i \in Int /\ p.next <= i /\ i <= e
        BY <2>5, <4>1
      <4> QED BY <1>0, <2>8, <4>2
    <3> QED BY <3>1, <3>2
  <2>10. IsFiniteSet(f) /\ Cardinality(f) <= MaxInflight
    <3>1. /\ IsFiniteSet(f)
          /\ Cardinality(f) = Cardinality(p.inflights) + Cardinality(BatchEnds(l, p))
                                - Cardinality(p.inflights \cap BatchEnds(l, p))
      BY <1>0, <2>7, FS_Union
    <3>2. IsFiniteSet(p.inflights \cap BatchEnds(l, p))
      BY <1>0, FS_Subset
    <3>3. /\ Cardinality(p.inflights) \in Nat /\ Cardinality(BatchEnds(l, p)) \in Nat
          /\ Cardinality(p.inflights \cap BatchEnds(l, p)) \in Nat /\ MaxInflight \in Nat
      BY <1>0, <2>7, <3>2, FS_CardinalityType, FlowAssumption
    <3> QED BY <2>1, <2>7, <3>1, <3>3
  <2> HIDE DEF e
  <2>11. (e + 1) - 1 \in f /\ e + 1 \in Int /\ p.match < e + 1 /\ e + 1 <= l + 1
    <3>1. (e + 1) - 1 = e
      BY <2>8
    <3>2. e + 1 \in Int /\ p.match < e + 1 /\ e + 1 <= l + 1
      BY <1>0, <2>8
    <3> QED BY <2>6, <3>1, <3>2
  <2>12. f \subseteq Int
    BY <2>9
  <2> HIDE DEF f
  <2>13. Progress(p.match, e + 1, "Replicate", f) \in ProgressSet
    BY <1>0, <2>11, <2>12 DEF Progress, ProgressSet
  <2>14. Sound(l, Progress(p.match, e + 1, "Replicate", f))
    BY <2>9, <2>10, <2>11, <2>13, ProgressParts DEF Sound
  <2> QED BY <2>2, <2>14, ProgressParts
<1>3. CASE p.mode # "Probe" /\ ~(p.mode = "Replicate" /\ WindowBatches(l, p) > 0)
  BY <1>3 DEF AfterSend
<1> QED BY <1>1, <1>2, <1>3

(***************************************************************************)
(* What is sent are frames.                                                *)
(***************************************************************************)
LEMMA FramesTyped ==
    ASSUME NEW l \in Int, NEW p, Sound(l, p), NEW contact \in BOOLEAN
    PROVE  FramesFor(l, p, contact) \subseteq FrameSet
<1>0. p.next \in Int /\ BatchLen \in Int
  BY FlowAssumption DEF Sound, ProgressSet
<1>1. CASE p.mode = "Probe"
  <2>1. BatchEnd(l, p.next) \in Int
    BY <1>0, BatchEndBounds
  <2> QED BY <1>0, <1>1, <2>1 DEF FramesFor, Frame, FrameSet
<1>2. CASE p.mode = "Replicate" /\ WindowBatches(l, p) > 0
  <2>1. ASSUME NEW k \in 0 .. WindowBatches(l, p) - 1
        PROVE  Frame(p.next + BatchLen * k - 1,
                     BatchEnd(l, p.next + BatchLen * k) + 1 - p.next - BatchLen * k) \in FrameSet
    <3>1. BatchLen * k \in Int
      BY WindowFits
    <3>2. p.next + BatchLen * k \in Int
      BY <1>0, <3>1
    <3>3. BatchEnd(l, p.next + BatchLen * k) \in Int
      BY <3>2, BatchEndBounds
    <3> QED BY <1>0, <3>1, <3>3 DEF Frame, FrameSet
  <2>2. FramesFor(l, p, contact) =
          {Frame(p.next + BatchLen * k - 1,
                 BatchEnd(l, p.next + BatchLen * k) + 1 - p.next - BatchLen * k)
              : k \in 0 .. WindowBatches(l, p) - 1}
    BY <1>2 DEF FramesFor
  <2> QED BY <2>1, <2>2
<1>3. CASE p.mode # "Probe" /\ ~(p.mode = "Replicate" /\ WindowBatches(l, p) > 0)
  BY <1>0, <1>3 DEF FramesFor, Frame, FrameSet
<1> QED BY <1>1, <1>2, <1>3

----------------------------------------------------------------------------
(* The theorems.                                                           *)

(***************************************************************************)
(* replicate_to_follower keeps the window sound and the match index.       *)
(***************************************************************************)
LEMMA ReplicateSound ==
    ASSUME NEW l \in Int, NEW p, Sound(l, p), NEW contact \in BOOLEAN,
           frames \subseteq FrameSet, Replicate(l, p, contact)
    PROVE  Sound(l, progress') /\ progress'.match = p.match /\ frames' \subseteq FrameSet
<1>1. frames' \subseteq frames \cup FramesFor(l, p, contact)
  BY DEF Replicate, Carried
<1> QED BY <1>1, AfterSendSound, FramesTyped DEF Replicate

(***************************************************************************)
(* A leader begins with a sound window.                                    *)
(***************************************************************************)
LEMMA InitFlow == Init => FlowInv
<1> SUFFICES ASSUME Init PROVE FlowInv
  OBVIOUS
<1>1. NoopIndex \in Int /\ 0 < NoopIndex /\ NoopIndex <= NoopIndex + 1
  BY FlowAssumption
<1>2. Sound(NoopIndex, Probing(NoopIndex)) /\ Probing(NoopIndex).match = 0
  BY <1>1, EmptyWindow, ProgressParts DEF Probing
<1>3. Sound(last, progress) /\ progress.match = 0
  BY <1>1, <1>2, AfterSendSound DEF Init
<1>4. frames \subseteq FrameSet
  BY <1>1, <1>2, FramesTyped DEF Init
<1>5. held \in Int /\ 0 <= held /\ last \in Int /\ answers = {}
  BY <1>1 DEF Init
<1> QED BY <1>3, <1>4, <1>5 DEF FlowInv, MatchSound

(***************************************************************************)
(* The follower's step: what it answers, it holds.                         *)
(***************************************************************************)
LEMMA FollowerStep ==
    ASSUME FlowInv, NEW f \in frames, NEW again \in BOOLEAN, HandleAppendEntries(f, again)
    PROVE  FlowInv'
<1> DEFINE ok == f.prev <= held
           answer == [success |-> ok, match |-> IF ok THEN f.prev + f.len ELSE 0]
<1>0. f.prev \in Int /\ f.len \in Int /\ held \in Int
  BY DEF FlowInv, FrameSet
<1>1. /\ held' = IF ok THEN Greater(held, f.prev + f.len) ELSE held
      /\ answers' \subseteq answers \cup {answer}
      /\ frames' \subseteq frames
      /\ UNCHANGED <<last, progress>>
  BY DEF HandleAppendEntries, Carried, Left
<1>2. held' \in Int /\ held <= held' /\ (ok => f.prev + f.len <= held')
  BY <1>0, <1>1 DEF Greater
<1>3. answer \in AnswerSet /\ (answer.success => answer.match <= held')
  <2> DEFINE m == IF ok THEN f.prev + f.len ELSE 0
  <2>1. m \in Int /\ (ok => m <= held')
    BY <1>0, <1>2
  <2>2. ok \in BOOLEAN
    BY <1>0
  <2> HIDE DEF m, ok
  <2>3. [success |-> ok, match |-> m] \in AnswerSet
    BY <2>1, <2>2, Zenon DEF AnswerSet
  <2>4. [success |-> ok, match |-> m].success = ok /\ [success |-> ok, match |-> m].match = m
    BY Zenon
  <2> QED BY <2>1, <2>3, <2>4, Zenon DEF m
<1> HIDE DEF answer
<1>4. answers' \subseteq AnswerSet
  BY <1>1, <1>3 DEF FlowInv
<1>5. MatchSound'
  <2>1. progress'.match <= held'
    <3>1. progress.match \in Int /\ progress.match <= held
      BY DEF FlowInv, Sound, ProgressSet, MatchSound
    <3> QED BY <1>0, <1>1, <1>2, <3>1
  <2>2. ASSUME NEW a \in answers', a.success PROVE a.match <= held'
    <3>1. CASE a = answer
      BY <1>3, <2>2, <3>1
    <3>2. CASE a \in answers
      <4>1. a.match \in Int /\ a.match <= held
        BY <2>2, <3>2 DEF FlowInv, AnswerSet, MatchSound
      <4> QED BY <1>0, <1>2, <4>1
    <3> QED BY <1>1, <3>1, <3>2
  <2> QED BY <2>1, <2>2 DEF MatchSound
<1> QED BY <1>1, <1>2, <1>4, <1>5 DEF FlowInv

(***************************************************************************)
(* The leader's step on an answer: it counts no more than the answer says. *)
(***************************************************************************)
LEMMA LeaderStep ==
    ASSUME FlowInv, NEW a \in answers, NEW again \in BOOLEAN,
           HandleAppendEntriesResponse(a, again)
    PROVE  FlowInv'
<1>0. /\ last \in Int /\ held \in Int /\ Sound(last, progress) /\ frames \subseteq FrameSet
      /\ a.match \in Int /\ progress.match \in Int /\ progress.match <= held
      /\ a.success => a.match <= held
  BY DEF FlowInv, AnswerSet, Sound, ProgressSet, MatchSound
<1>1. answers' \subseteq answers /\ UNCHANGED <<last, held>>
  BY DEF HandleAppendEntriesResponse, Left
<1>2. CASE a.success /\ Replicate(last, Acknowledge(progress, Lesser(a.match, last)), FALSE)
  <2> DEFINE r == Lesser(a.match, last)
             q == Acknowledge(progress, r)
  <2>1. r \in Int /\ r <= last /\ r <= held
    BY <1>0, <1>2 DEF Lesser
  <2> HIDE DEF r
  <2>2. Sound(last, q) /\ q.match = Greater(progress.match, r)
    BY <1>0, <2>1, AcknowledgeSound
  <2>3. q.match <= held
    BY <1>0, <2>1, <2>2 DEF Greater
  <2>4. Replicate(last, q, FALSE)
    BY <1>2 DEF r
  <2> HIDE DEF q
  <2>5. Sound(last, progress') /\ progress'.match = q.match /\ frames' \subseteq FrameSet
    BY <1>0, <2>2, <2>4, ReplicateSound
  <2> QED BY <1>0, <1>1, <2>3, <2>5 DEF FlowInv, MatchSound
<1>3. CASE Replicate(last, CollapseIntoProbe(progress), TRUE)
  <2>1. /\ Sound(last, CollapseIntoProbe(progress))
        /\ CollapseIntoProbe(progress).match = progress.match
    BY <1>0, CollapseSound
  <2>2. /\ Sound(last, progress') /\ progress'.match = progress.match
        /\ frames' \subseteq FrameSet
    BY <1>0, <1>3, <2>1, ReplicateSound
  <2> QED BY <1>0, <1>1, <2>2 DEF FlowInv, MatchSound
<1> QED BY <1>2, <1>3, Zenon DEF HandleAppendEntriesResponse

(***************************************************************************)
(* Every step keeps the invariant.                                         *)
(***************************************************************************)
LEMMA StepKeepsFlow == FlowInv /\ [Next]_vars => FlowInv'
<1> SUFFICES ASSUME FlowInv, [Next]_vars PROVE FlowInv'
  OBVIOUS
<1>0. /\ last \in Int /\ Sound(last, progress) /\ frames \subseteq FrameSet
  BY DEF FlowInv
<1>1. CASE ClientProposal
  <2>1. /\ last' = last + 1 /\ Replicate(last + 1, progress, FALSE)
        /\ UNCHANGED <<held, answers>>
    BY <1>1 DEF ClientProposal
  <2>2. last + 1 \in Int /\ Sound(last + 1, progress)
    BY <1>0, SoundGrows
  <2>3. /\ Sound(last + 1, progress') /\ progress'.match = progress.match
        /\ frames' \subseteq FrameSet
    BY <1>0, <2>1, <2>2, ReplicateSound
  <2> QED BY <2>1, <2>2, <2>3 DEF FlowInv, MatchSound
<1>2. CASE TickHeartbeat
  <2>1. Replicate(last, progress, TRUE) /\ UNCHANGED <<last, held, answers>>
    BY <1>2 DEF TickHeartbeat
  <2>2. /\ Sound(last, progress') /\ progress'.match = progress.match
        /\ frames' \subseteq FrameSet
    BY <1>0, <2>1, ReplicateSound
  <2> QED BY <2>1, <2>2 DEF FlowInv, MatchSound
<1>3. ASSUME NEW f \in frames, NEW again \in BOOLEAN, HandleAppendEntries(f, again)
      PROVE  FlowInv'
  BY <1>3, FollowerStep
<1>4. ASSUME NEW a \in answers, NEW again \in BOOLEAN, HandleAppendEntriesResponse(a, again)
      PROVE  FlowInv'
  BY <1>4, LeaderStep
<1>5. CASE Lose
  <2>1. frames' \subseteq frames /\ answers' \subseteq answers /\ UNCHANGED <<last, progress, held>>
    BY <1>5 DEF Lose
  <2> QED BY <2>1 DEF FlowInv, MatchSound
<1>6. CASE UNCHANGED vars
  BY <1>6 DEF FlowInv, MatchSound, vars
<1> QED BY <1>1, <1>2, <1>3, <1>4, <1>5, <1>6 DEF Next

(***************************************************************************)
(* The invariant holds always.                                             *)
(***************************************************************************)
THEOREM FlowInvariant == Spec => []FlowInv
BY InitFlow, StepKeepsFlow, PTL DEF Spec

(***************************************************************************)
(* The window of unacknowledged batches is consistent and never larger     *)
(* than max_inflight_appends, for every size of batch, window and log and  *)
(* any loss, repetition and order of frames and answers (progress.rs).     *)
(***************************************************************************)
THEOREM WindowIsSound == Spec => []WindowSound
<1>1. FlowInv => WindowSound
  BY DEF FlowInv, Sound, WindowSound
<1> QED BY <1>1, FlowInvariant, PTL

(***************************************************************************)
(* What the leader counts as matched, now or when an answer arrives, the   *)
(* follower holds (accept_append_response).                                *)
(***************************************************************************)
THEOREM MatchIsSound == Spec => []MatchSound
<1>1. FlowInv => MatchSound
  BY DEF FlowInv
<1> QED BY <1>1, FlowInvariant, PTL

=============================================================================
