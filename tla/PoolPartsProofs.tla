--------------------------- MODULE PoolPartsProofs --------------------------
(***************************************************************************)
(* What holds of the two parts a buffer pool is built on, for every size.  *)
(*                                                                         *)
(* LayeredClockLoop: the loops of LayeredClock::Victim compute what module *)
(* LayeredClock says without them, for any number of frames, any priority  *)
(* and both outcomes of locking latch_ twice.  LoopInv describes a round   *)
(* by how far the hand has come from where it stood at the call: the use   *)
(* bits are those of the call without the ones cleared on the way, and no  *)
(* frame on the way was one to return.                                     *)
(*                                                                         *)
(* DiskManager: for every size of file, every content and every width of   *)
(* the offset, a manager loses at most one write, never hands out the id   *)
(* of a page that is in the file, and reads the page it was asked for.     *)
(***************************************************************************)
EXTENDS LayeredClockLoop, DiskManager, FiniteSetTheorems, FunctionTheorems, TLAPS

-----------------------------------------------------------------------------
(* The loops of Victim: the inductive invariant *)

TypeOK ==
    /\ use_bits \in [Frames -> BOOLEAN]
    /\ in_replacer \in [Frames -> BOOLEAN]
    /\ is_hot \in [Frames -> BOOLEAN]
    /\ clock_hand \in Frames
    /\ pc \in {"idle", "size", "round1", "round2", "blocked"}
    /\ start_hand \in Frames
    /\ cold_scan_count \in Nat
    /\ entry \in [use_bits : [Frames -> BOOLEAN], clock_hand : Frames]

\* How far the hand has come in a round, and the frame it sees there.
Offsets == 0 .. (frame_count - 1)
FrameAt(start, i) == (start + i) % frame_count

\* The hand has left the frame f behind when it stands at offset i.
Passed(f, i) == \E j \in Offsets : j < i /\ f = FrameAt(entry.clock_hand, j)

UnusedHot(f) == f \in UnusedAtEntry /\ is_hot[f]
HotBefore(i) == {j \in 0 .. (i - 1) : UnusedHot(FrameAt(entry.clock_hand, j))}

\* The first round would have returned at offset j.
Stop(j) ==
    /\ FrameAt(entry.clock_hand, j) \in UnusedAtEntry
    /\ is_hot[FrameAt(entry.clock_hand, j)] => Cardinality(HotBefore(j + 1)) >= COLD_EVICTION_PRIORITY

\* The first round has passed i frames: it found none to return, cleared the
\* bits of the candidates and counted the unused hot ones.
FirstRoundAt(i) ==
    /\ clock_hand = FrameAt(entry.clock_hand, i)
    /\ use_bits = [f \in Frames |-> entry.use_bits[f] /\ ~(in_replacer[f] /\ Passed(f, i))]
    /\ cold_scan_count = Cardinality(HotBefore(i))
    /\ \A j \in Offsets : j < i => ~Stop(j)

\* The second round has passed i frames, none of them a candidate.
SecondRoundAt(i) ==
    /\ clock_hand = FrameAt(entry.clock_hand, i)
    /\ use_bits = [f \in Frames |-> (entry.use_bits[f] /\ ~in_replacer[f]) /\ ~Passed(f, i)]
    /\ cold_scan_count = Cardinality(HotBefore(frame_count))
    /\ \A j \in Offsets : ~Stop(j)
    /\ \A j \in Offsets : j < i => ~in_replacer[FrameAt(entry.clock_hand, j)]

LoopInv ==
    /\ TypeOK
    /\ pc = "size" => entry.use_bits = use_bits /\ entry.clock_hand = clock_hand
    /\ pc \in {"round1", "round2"} =>
          /\ "works" \in RelockOutcomes
          /\ start_hand = entry.clock_hand
          /\ cold_scan_count < COLD_EVICTION_PRIORITY
          /\ \E f \in Frames : in_replacer[f]
    /\ pc = "round1" => \E i \in Offsets : FirstRoundAt(i)
    /\ pc = "round2" => \E i \in Offsets : SecondRoundAt(i)

-----------------------------------------------------------------------------
(* The clock *)

\* One turn of the clock is enough to bring a position back onto it.
LEMMA AroundOnce ==
  ASSUME NEW n \in Nat \ {0}, NEW x \in 0 .. (2 * n - 1)
  PROVE  x % n = IF x < n THEN x ELSE x - n
<1>1. CASE x < n
  BY <1>1
<1>2. CASE x >= n
  BY <1>2
<1> QED BY <1>1, <1>2

\* In one round the hand sees every frame once, and then the first one again
\* (LayeredClock.cpp:47-49, 62-64).
LEMMA RoundVisitsAll ==
  ASSUME NEW start \in Frames
  PROVE  /\ 0 \in Offsets /\ FrameAt(start, 0) = start
         /\ \A i \in Offsets : FrameAt(start, i) \in Frames
         /\ \A i, j \in Offsets : FrameAt(start, i) = FrameAt(start, j) => i = j
         /\ \A f \in Frames : \E i \in Offsets : f = FrameAt(start, i)
         /\ \A i \in Offsets : i + 1 \in Offsets => Advanced(FrameAt(start, i)) = FrameAt(start, i + 1)
         /\ \A i \in Offsets : i + 1 \notin Offsets => Advanced(FrameAt(start, i)) = start
         /\ \A f \in Frames : Advanced(f) \in Frames
<1> DEFINE n == frame_count
<1>1. n \in Nat \ {0} /\ start \in 0 .. (n - 1) /\ Frames = 0 .. (n - 1) /\ Offsets = 0 .. (n - 1)
  BY FrameCountAssumption DEF Frames, Offsets
<1> HIDE DEF n
<1>2. \A i \in 0 .. (n - 1) : FrameAt(start, i) = IF start + i < n THEN start + i ELSE start + i - n
  <2> SUFFICES ASSUME NEW i \in 0 .. (n - 1)
               PROVE  (start + i) % n = IF start + i < n THEN start + i ELSE start + i - n
    BY DEF FrameAt, n
  <2>1. PICK x \in 0 .. (2 * n - 1) : x = start + i
    BY <1>1
  <2>2. x % n = IF x < n THEN x ELSE x - n
    BY <1>1, AroundOnce
  <2> QED BY <1>1, <2>1, <2>2
<1>3. \A x \in 0 .. (n - 1) : Advanced(x) = IF x + 1 < n THEN x + 1 ELSE 0
  <2> SUFFICES ASSUME NEW x \in 0 .. (n - 1)
               PROVE  (x + 1) % n = IF x + 1 < n THEN x + 1 ELSE 0
    BY DEF Advanced, n
  <2>1. PICK y \in 0 .. (2 * n - 1) : y = x + 1
    BY <1>1
  <2>2. y % n = IF y < n THEN y ELSE y - n
    BY <1>1, AroundOnce
  <2> QED BY <1>1, <2>1, <2>2
<1>4. 0 \in 0 .. (n - 1) /\ FrameAt(start, 0) = start
  BY <1>1, <1>2
<1>5. \A i \in 0 .. (n - 1) : FrameAt(start, i) \in 0 .. (n - 1)
  BY <1>1, <1>2
<1>6. \A i, j \in 0 .. (n - 1) : FrameAt(start, i) = FrameAt(start, j) => i = j
  BY <1>1, <1>2
<1>7. ASSUME NEW f \in 0 .. (n - 1) PROVE \E i \in 0 .. (n - 1) : f = FrameAt(start, i)
  <2>1. CASE f >= start
    <3>1. f - start \in 0 .. (n - 1) /\ f = FrameAt(start, f - start)
      BY <1>1, <1>2, <2>1
    <3> QED BY <3>1
  <2>2. CASE f < start
    <3>1. f - start + n \in 0 .. (n - 1) /\ f = FrameAt(start, f - start + n)
      BY <1>1, <1>2, <2>2
    <3> QED BY <3>1
  <2> QED BY <1>1, <2>1, <2>2
<1>8. ASSUME NEW i \in 0 .. (n - 1)
      PROVE  Advanced(FrameAt(start, i)) = IF i + 1 \in 0 .. (n - 1) THEN FrameAt(start, i + 1) ELSE start
  <2>1. PICK x \in 0 .. (n - 1) : x = FrameAt(start, i)
    BY <1>5
  <2>2. Advanced(x) = IF x + 1 < n THEN x + 1 ELSE 0
    BY <1>3
  <2>3. x = IF start + i < n THEN start + i ELSE start + i - n
    BY <1>2, <2>1
  <2>4. CASE i + 1 \in 0 .. (n - 1)
    <3>1. FrameAt(start, i + 1) = IF start + (i + 1) < n THEN start + (i + 1) ELSE start + (i + 1) - n
      BY <1>2, <2>4
    <3> QED BY <1>1, <2>1, <2>2, <2>3, <2>4, <3>1
  <2>5. CASE i + 1 \notin 0 .. (n - 1)
    <3>1. i = n - 1
      BY <1>1, <2>5
    <3>2. Advanced(x) = start
      BY <1>1, <2>2, <2>3, <3>1
    <3> QED BY <2>1, <2>5, <3>2
  <2> QED BY <2>4, <2>5
<1>9. \A x \in 0 .. (n - 1) : Advanced(x) \in 0 .. (n - 1)
  BY <1>1, <1>3
<1> QED BY <1>1, <1>4, <1>5, <1>6, <1>7, <1>8, <1>9

\* Counting the unused hot frames one by one (LayeredClock.cpp:38).
LEMMA CountOneMore ==
  ASSUME NEW i \in Offsets
  PROVE  /\ Cardinality(HotBefore(i)) \in Nat
         /\ Cardinality(HotBefore(i + 1)) =
               Cardinality(HotBefore(i)) + IF UnusedHot(FrameAt(entry.clock_hand, i)) THEN 1 ELSE 0
<1>1. i \in Nat /\ i - 1 \in Int
  BY FrameCountAssumption DEF Offsets
<1>2. IsFiniteSet(0 .. (i - 1))
  BY <1>1, FS_Interval
<1>3. HotBefore(i) \subseteq 0 .. (i - 1)
  BY DEF HotBefore
<1>4. IsFiniteSet(HotBefore(i))
  BY <1>2, <1>3, FS_Subset
<1>5. i \notin HotBefore(i)
  BY <1>1 DEF HotBefore
<1>6. \A j : j \in 0 .. ((i + 1) - 1) <=> j \in 0 .. (i - 1) \/ j = i
  BY <1>1
<1>7. HotBefore(i + 1) = IF UnusedHot(FrameAt(entry.clock_hand, i)) THEN HotBefore(i) \cup {i} ELSE HotBefore(i)
  BY <1>6 DEF HotBefore
<1>8. Cardinality(HotBefore(i)) \in Nat
  BY <1>4, FS_CardinalityType
<1>9. Cardinality(HotBefore(i) \cup {i}) = Cardinality(HotBefore(i)) + 1
  BY <1>4, <1>5, FS_AddElement
<1> QED BY <1>7, <1>8, <1>9

LEMMA CountFromZero == Cardinality(HotBefore(0)) = 0
<1>1. HotBefore(0) = {}
  BY DEF HotBefore
<1> QED BY <1>1, FS_EmptySet

\* While Victim runs, what it found at its call stays.
LEMMA EntryStays ==
  ASSUME UNCHANGED <<in_replacer, is_hot, entry>>
  PROVE  /\ UnusedAtEntry' = UnusedAtEntry
         /\ \A f, i : Passed(f, i)' <=> Passed(f, i)
         /\ \A i : HotBefore(i)' = HotBefore(i)
         /\ \A i : Stop(i)' <=> Stop(i)
<1>1. UnusedAtEntry' = UnusedAtEntry
  BY DEF UnusedAtEntry
<1>2. \A f, i : Passed(f, i)' <=> Passed(f, i)
  BY DEF Passed
<1>3. \A i : HotBefore(i)' = HotBefore(i)
  BY <1>1 DEF HotBefore, UnusedHot
<1>4. \A i : Stop(i)' <=> Stop(i)
  BY <1>1, <1>3 DEF Stop
<1> QED BY <1>1, <1>2, <1>3, <1>4

\* Passing the frame at offset i.
LEMMA PassedNext ==
  ASSUME TypeOK, NEW i \in Offsets
  PROVE  /\ \A f : ~Passed(f, 0)
         /\ ~Passed(FrameAt(entry.clock_hand, i), i)
         /\ \A f : Passed(f, i + 1) <=> Passed(f, i) \/ f = FrameAt(entry.clock_hand, i)
         /\ i + 1 \notin Offsets => \A f \in Frames : Passed(f, i + 1)
<1>1. entry.clock_hand \in Frames
  BY DEF TypeOK
<1>2. \A j \in Offsets : j \in Nat
  BY FrameCountAssumption DEF Offsets
<1>3. \A f : ~Passed(f, 0)
  BY <1>2 DEF Passed
<1>4. ~Passed(FrameAt(entry.clock_hand, i), i)
  BY <1>1, <1>2, RoundVisitsAll DEF Passed
<1>5. \A j \in Offsets : j < i + 1 <=> j < i \/ j = i
  BY <1>2
<1>6. \A f : Passed(f, i + 1) <=> Passed(f, i) \/ f = FrameAt(entry.clock_hand, i)
  BY <1>5 DEF Passed
<1>7. ASSUME i + 1 \notin Offsets, NEW f \in Frames
      PROVE  Passed(f, i + 1)
  <2>1. \A j \in Offsets : j < i + 1
    BY <1>7, FrameCountAssumption DEF Offsets
  <2>2. PICK j \in Offsets : f = FrameAt(entry.clock_hand, j)
    BY <1>1, RoundVisitsAll
  <2> QED BY <2>1, <2>2 DEF Passed
<1> QED BY <1>3, <1>4, <1>6, <1>7

-----------------------------------------------------------------------------
(* The rounds *)

\* In the first round, the bit and the count that the loop sees are those that
\* the call found.
LEMMA FirstRoundSees ==
  ASSUME TypeOK, NEW i \in Offsets, FirstRoundAt(i)
  PROVE  /\ Unused <=> clock_hand \in UnusedAtEntry
         /\ CountedHot = Cardinality(HotBefore(i + 1))
         /\ (Unused /\ (is_hot[clock_hand] => CountedHot >= COLD_EVICTION_PRIORITY)) <=> Stop(i)
<1>1. clock_hand = FrameAt(entry.clock_hand, i) /\ clock_hand \in Frames
  BY DEF FirstRoundAt, TypeOK
<1>2. ~Passed(clock_hand, i)
  BY <1>1, PassedNext
<1>3. use_bits[clock_hand] <=> entry.use_bits[clock_hand]
  BY <1>1, <1>2 DEF FirstRoundAt
<1>4. Unused <=> clock_hand \in UnusedAtEntry
  BY <1>1, <1>3 DEF Unused, UnusedAtEntry
<1>5. CountedHot = Cardinality(HotBefore(i + 1))
  BY <1>1, <1>4, CountOneMore DEF CountedHot, UnusedHot, FirstRoundAt
<1> QED BY <1>1, <1>4, <1>5 DEF Stop

LEMMA FirstRoundPassesInv ==
  ASSUME LoopInv, FirstRoundPasses
  PROVE  LoopInv'
<1>1. PICK i \in Offsets : FirstRoundAt(i)
  BY DEF LoopInv, FirstRoundPasses
<1>2. TypeOK /\ "works" \in RelockOutcomes /\ start_hand = entry.clock_hand
      /\ cold_scan_count < COLD_EVICTION_PRIORITY /\ \E f \in Frames : in_replacer[f]
  BY DEF LoopInv, FirstRoundPasses
<1>3. /\ use_bits' = [use_bits EXCEPT ![clock_hand] = @ /\ ~in_replacer[clock_hand]]
      /\ cold_scan_count' = CountedHot /\ clock_hand' = Advanced(clock_hand)
      /\ pc' = (IF clock_hand' = start_hand THEN "round2" ELSE "round1")
      /\ UNCHANGED <<in_replacer, is_hot, start_hand, entry>>
  BY DEF FirstRoundPasses
<1>4. ~Stop(i) /\ CountedHot = Cardinality(HotBefore(i + 1)) /\ (Unused <=> clock_hand \in UnusedAtEntry)
  BY <1>1, <1>2, FirstRoundSees DEF FirstRoundPasses
<1>5. clock_hand = FrameAt(entry.clock_hand, i) /\ entry.clock_hand \in Frames
  BY <1>1, <1>2 DEF FirstRoundAt, TypeOK
<1>6. CountedHot \in Nat /\ CountedHot < COLD_EVICTION_PRIORITY
  <2>1. CASE Unused /\ is_hot[clock_hand]
    BY <1>2, <2>1, PriorityAssumption DEF CountedHot, TypeOK, FirstRoundPasses
  <2>2. CASE ~(Unused /\ is_hot[clock_hand])
    BY <1>2, <2>2 DEF CountedHot, TypeOK
  <2> QED BY <2>1, <2>2
<1>7. clock_hand' \in Frames
  BY <1>2, <1>3, RoundVisitsAll DEF TypeOK
<1>8. use_bits' = [f \in Frames |-> entry.use_bits[f] /\ ~(in_replacer[f] /\ Passed(f, i + 1))]
  <2>1. use_bits = [f \in Frames |-> entry.use_bits[f] /\ ~(in_replacer[f] /\ Passed(f, i))]
    BY <1>1 DEF FirstRoundAt
  <2>2. \A f : Passed(f, i + 1) <=> Passed(f, i) \/ f = clock_hand
    BY <1>2, <1>5, PassedNext
  <2>3. \A f \in Frames : use_bits'[f] = (entry.use_bits[f] /\ ~(in_replacer[f] /\ Passed(f, i + 1)))
    <3> SUFFICES ASSUME NEW f \in Frames
                 PROVE  use_bits'[f] = (entry.use_bits[f] /\ ~(in_replacer[f] /\ Passed(f, i + 1)))
      OBVIOUS
    <3>1. CASE f = clock_hand
      BY <1>2, <1>3, <2>1, <2>2, <3>1 DEF TypeOK
    <3>2. CASE f # clock_hand
      BY <1>3, <2>1, <2>2, <3>2
    <3> QED BY <3>1, <3>2
  <2>4. use_bits' = [f \in Frames |-> use_bits'[f]]
    BY <1>3, <2>1
  <2> QED BY <2>3, <2>4, Zenon
<1>9. TypeOK'
  <2>1. use_bits' \in [Frames -> BOOLEAN]
    BY <1>2, <1>3 DEF TypeOK
  <2> QED BY <1>2, <1>3, <1>6, <1>7, <2>1 DEF TypeOK
<1>10. \A j \in Offsets : j < i + 1 => ~Stop(j)
  <2>1. \A j \in Offsets : j < i + 1 => j < i \/ j = i
    BY FrameCountAssumption DEF Offsets
  <2> QED BY <1>1, <1>4, <2>1 DEF FirstRoundAt
<1>11. CASE i + 1 \in Offsets
  <2>1. clock_hand' = FrameAt(entry.clock_hand, i + 1)
    BY <1>3, <1>5, <1>11, RoundVisitsAll
  <2>2. clock_hand' # start_hand
    <3>1. i + 1 # 0
      BY FrameCountAssumption DEF Offsets
    <3>2. PICK start \in Frames : start = entry.clock_hand
      BY <1>5
    <3>3. /\ 0 \in Offsets /\ FrameAt(start, 0) = start
          /\ FrameAt(start, i + 1) = FrameAt(start, 0) => i + 1 = 0
      BY <1>11, RoundVisitsAll
    <3> QED BY <1>2, <2>1, <3>1, <3>2, <3>3
  <2>3. FirstRoundAt(i + 1)'
    <3> USE DEF FirstRoundAt
    <3>1. \A j \in Offsets : j < i + 1 => ~Stop(j)'
      BY <1>3, <1>10, EntryStays
    <3>2. use_bits' = [f \in Frames |-> entry'.use_bits[f] /\ ~(in_replacer'[f] /\ Passed(f, i + 1)')]
      BY <1>3, <1>8, EntryStays
    <3>3. cold_scan_count' = Cardinality(HotBefore(i + 1)')
      BY <1>3, <1>4, EntryStays
    <3> QED BY <1>3, <2>1, <3>1, <3>2, <3>3
  <2>4. pc' = "round1"
    BY <1>3, <2>2
  <2> QED BY <1>2, <1>3, <1>6, <1>9, <1>11, <2>3, <2>4 DEF LoopInv
<1>12. CASE i + 1 \notin Offsets
  <2>1. clock_hand' = entry.clock_hand /\ pc' = "round2"
    BY <1>2, <1>3, <1>5, <1>12, RoundVisitsAll
  <2>2. i + 1 = frame_count
    BY <1>12, FrameCountAssumption DEF Offsets
  <2>3. SecondRoundAt(0)'
    <3>1. clock_hand' = FrameAt(entry'.clock_hand, 0)
      BY <1>3, <1>5, <2>1, RoundVisitsAll
    <3>2. \A f \in Frames : Passed(f, i + 1) /\ ~Passed(f, 0)
      BY <1>2, <1>12, PassedNext
    <3>3. use_bits' = [f \in Frames |-> (entry'.use_bits[f] /\ ~in_replacer'[f]) /\ ~Passed(f, 0)']
      <4>1. \A f \in Frames : (entry.use_bits[f] /\ ~(in_replacer[f] /\ Passed(f, i + 1)))
                              = ((entry'.use_bits[f] /\ ~in_replacer'[f]) /\ ~Passed(f, 0)')
        BY <1>3, <3>2, EntryStays
      <4> QED BY <1>8, <4>1, Zenon
    <3>4. cold_scan_count' = Cardinality(HotBefore(frame_count)')
      BY <1>3, <1>4, <2>2, EntryStays
    <3>5. \A j \in Offsets : ~Stop(j)'
      <4>1. \A j \in Offsets : j < i + 1
        BY <2>2, FrameCountAssumption DEF Offsets
      <4> QED BY <1>3, <1>10, <4>1, EntryStays
    <3>6. \A j \in Offsets : ~(j < 0)
      BY FrameCountAssumption DEF Offsets
    <3> QED BY <3>1, <3>3, <3>4, <3>5, <3>6 DEF SecondRoundAt
  <2>4. 0 \in Offsets
    BY FrameCountAssumption DEF Offsets
  <2> QED BY <1>2, <1>3, <1>6, <1>9, <2>1, <2>3, <2>4 DEF LoopInv
<1> QED BY <1>11, <1>12

\* In the second round no candidate has its bit set any more, so the loop takes
\* the first candidate it meets (LayeredClock.cpp:52-64).
LEMMA SecondRoundSees ==
  ASSUME TypeOK, NEW i \in Offsets, SecondRoundAt(i)
  PROVE  Unused <=> in_replacer[clock_hand]
<1>1. clock_hand \in Frames
  BY DEF TypeOK
<1> QED BY <1>1 DEF SecondRoundAt, Unused

LEMMA SecondRoundPassesInv ==
  ASSUME LoopInv, SecondRoundPasses
  PROVE  LoopInv' /\ pc' = "round2"
<1>1. PICK i \in Offsets : SecondRoundAt(i)
  BY DEF LoopInv, SecondRoundPasses
<1>2. TypeOK /\ "works" \in RelockOutcomes /\ start_hand = entry.clock_hand
      /\ cold_scan_count < COLD_EVICTION_PRIORITY /\ \E f \in Frames : in_replacer[f]
  BY DEF LoopInv, SecondRoundPasses
<1>3. /\ use_bits' = [use_bits EXCEPT ![clock_hand] = FALSE]
      /\ clock_hand' = Advanced(clock_hand)
      /\ pc' = (IF clock_hand' = start_hand THEN "idle" ELSE "round2")
      /\ UNCHANGED <<in_replacer, is_hot, start_hand, cold_scan_count, entry>>
  BY DEF SecondRoundPasses
<1>4. clock_hand = FrameAt(entry.clock_hand, i) /\ entry.clock_hand \in Frames
  BY <1>1, <1>2 DEF SecondRoundAt, TypeOK
<1>5. ~in_replacer[clock_hand]
  BY <1>1, <1>2, SecondRoundSees DEF SecondRoundPasses
<1>6. \A j \in Offsets : j < i + 1 => ~in_replacer[FrameAt(entry.clock_hand, j)]
  <2>1. \A j \in Offsets : j < i + 1 => j < i \/ j = i
    BY FrameCountAssumption DEF Offsets
  <2> QED BY <1>1, <1>4, <1>5, <2>1 DEF SecondRoundAt
<1>7. i + 1 \in Offsets
  <2> SUFFICES ASSUME i + 1 \notin Offsets PROVE FALSE
    OBVIOUS
  <2>1. PICK f \in Frames : in_replacer[f]
    BY <1>2
  <2>2. PICK j \in Offsets : f = FrameAt(entry.clock_hand, j)
    BY <1>4, RoundVisitsAll
  <2>3. j < i + 1
    BY FrameCountAssumption DEF Offsets
  <2> QED BY <1>6, <2>1, <2>2, <2>3
<1>8. clock_hand' = FrameAt(entry.clock_hand, i + 1)
  BY <1>3, <1>4, <1>7, RoundVisitsAll
<1>9. pc' = "round2"
  <2>1. i + 1 # 0
    BY FrameCountAssumption DEF Offsets
  <2>2. PICK start \in Frames : start = entry.clock_hand
    BY <1>4
  <2>3. /\ 0 \in Offsets /\ FrameAt(start, 0) = start
        /\ FrameAt(start, i + 1) = FrameAt(start, 0) => i + 1 = 0
    BY <1>7, RoundVisitsAll
  <2> QED BY <1>2, <1>3, <1>8, <2>1, <2>2, <2>3
<1>10. use_bits' = [f \in Frames |-> (entry.use_bits[f] /\ ~in_replacer[f]) /\ ~Passed(f, i + 1)]
  <2>1. use_bits = [f \in Frames |-> (entry.use_bits[f] /\ ~in_replacer[f]) /\ ~Passed(f, i)]
    BY <1>1 DEF SecondRoundAt
  <2>2. \A f : Passed(f, i + 1) <=> Passed(f, i) \/ f = clock_hand
    BY <1>2, <1>4, PassedNext
  <2>3. \A f \in Frames : use_bits'[f] = ((entry.use_bits[f] /\ ~in_replacer[f]) /\ ~Passed(f, i + 1))
    <3> SUFFICES ASSUME NEW f \in Frames
                 PROVE  use_bits'[f] = ((entry.use_bits[f] /\ ~in_replacer[f]) /\ ~Passed(f, i + 1))
      OBVIOUS
    <3>1. CASE f = clock_hand
      BY <1>3, <2>1, <2>2, <3>1
    <3>2. CASE f # clock_hand
      BY <1>3, <2>1, <2>2, <3>2
    <3> QED BY <3>1, <3>2
  <2>4. use_bits' = [f \in Frames |-> use_bits'[f]]
    BY <1>3, <2>1
  <2> QED BY <2>3, <2>4, Zenon
<1>11. TypeOK'
  <2>1. clock_hand' \in Frames
    BY <1>2, <1>3, RoundVisitsAll DEF TypeOK
  <2>2. use_bits' \in [Frames -> BOOLEAN]
    BY <1>2, <1>3 DEF TypeOK
  <2> QED BY <1>2, <1>3, <1>9, <2>1, <2>2 DEF TypeOK
<1>12. SecondRoundAt(i + 1)'
  <2>1. use_bits' = [f \in Frames |-> (entry'.use_bits[f] /\ ~in_replacer'[f]) /\ ~Passed(f, i + 1)']
    BY <1>3, <1>10, EntryStays
  <2>2. cold_scan_count' = Cardinality(HotBefore(frame_count)')
    BY <1>1, <1>3, EntryStays DEF SecondRoundAt
  <2>3. \A j \in Offsets : ~Stop(j)'
    BY <1>1, <1>3, EntryStays DEF SecondRoundAt
  <2> QED BY <1>3, <1>6, <1>8, <2>1, <2>2, <2>3 DEF SecondRoundAt
<1> QED BY <1>2, <1>3, <1>7, <1>9, <1>11, <1>12 DEF LoopInv

-----------------------------------------------------------------------------
(* The specification *)

LEMMA LoopInit == Init => LoopInv
  BY FrameCountAssumption DEF Init, LoopInv, TypeOK, Frames, NoEntry

\* A frame is returned: Victim forgets its locals.
LEMMA ReturnFrameInv ==
  ASSUME TypeOK, ReturnFrame
  PROVE  LoopInv'
<1>1. 0 \in Frames /\ clock_hand' \in Frames
  BY FrameCountAssumption, RoundVisitsAll DEF ReturnFrame, TypeOK, Frames
<1>2. in_replacer' \in [Frames -> BOOLEAN]
  BY DEF ReturnFrame, TypeOK
<1>3. NoEntry \in [use_bits : [Frames -> BOOLEAN], clock_hand : Frames]
  BY <1>1 DEF NoEntry
<1> QED BY <1>1, <1>2, <1>3 DEF ReturnFrame, TypeOK, LoopInv

LEMMA LoopNext == LoopInv /\ [Next]_vars => LoopInv'
<1> SUFFICES ASSUME LoopInv, [Next]_vars PROVE LoopInv'
  OBVIOUS
<1>1. TypeOK
  BY DEF LoopInv
<1>2. CASE CallVictim
  BY <1>1, <1>2 DEF CallVictim, LoopInv, TypeOK
<1>3. CASE RelockHangs
  BY <1>1, <1>3 DEF RelockHangs, LoopInv, TypeOK
<1>4. CASE RelockWorks
  <2>1. /\ entry.use_bits = use_bits /\ entry.clock_hand = clock_hand
        /\ "works" \in RelockOutcomes
        /\ start_hand' = clock_hand /\ cold_scan_count' = 0
        /\ pc' = (IF Size = 0 THEN "idle" ELSE "round1")
        /\ UNCHANGED <<use_bits, in_replacer, is_hot, clock_hand, entry>>
    BY <1>4 DEF RelockWorks, LoopInv
  <2>2. TypeOK'
    BY <1>1, <2>1 DEF TypeOK
  <2>3. CASE Size = 0
    BY <2>1, <2>2, <2>3 DEF LoopInv
  <2>4. CASE Size # 0
    <3>1. \E f \in Frames : in_replacer[f]
      <4> SUFFICES ASSUME \A f \in Frames : ~in_replacer[f] PROVE FALSE
        OBVIOUS
      <4>1. {f \in Frames : in_replacer[f]} = {}
        OBVIOUS
      <4> QED BY <2>4, <4>1, FS_EmptySet DEF Size
    <3>2. 0 \in Offsets /\ clock_hand = FrameAt(entry.clock_hand, 0)
      BY <1>1, <2>1, RoundVisitsAll DEF TypeOK
    <3>3. \A f : ~Passed(f, 0)
      BY <1>1, <3>2, PassedNext
    <3>4. use_bits = [f \in Frames |-> entry.use_bits[f] /\ ~(in_replacer[f] /\ Passed(f, 0))]
      <4>1. \A f \in Frames : use_bits[f] = (entry.use_bits[f] /\ ~(in_replacer[f] /\ Passed(f, 0)))
        BY <1>1, <2>1, <3>3 DEF TypeOK
      <4>2. use_bits = [f \in Frames |-> use_bits[f]]
        BY <1>1 DEF TypeOK
      <4> QED BY <4>1, <4>2, Zenon
    <3>5. \A j \in Offsets : ~(j < 0)
      BY FrameCountAssumption DEF Offsets
    <3>6. FirstRoundAt(0)'
      <4>1. use_bits' = [f \in Frames |-> entry'.use_bits[f] /\ ~(in_replacer'[f] /\ Passed(f, 0)')]
        BY <2>1, <3>4, EntryStays
      <4>2. cold_scan_count' = Cardinality(HotBefore(0)')
        BY <2>1, CountFromZero, EntryStays
      <4> QED BY <2>1, <3>2, <3>5, <4>1, <4>2 DEF FirstRoundAt
    <3> QED BY <2>1, <2>2, <2>4, <3>1, <3>2, <3>6, PriorityAssumption DEF LoopInv
  <2> QED BY <2>3, <2>4
<1>5. CASE FirstRoundReturns \/ SecondRoundReturns
  BY <1>1, <1>5, ReturnFrameInv DEF FirstRoundReturns, SecondRoundReturns
<1>6. CASE FirstRoundPasses
  BY <1>6, FirstRoundPassesInv
<1>7. CASE SecondRoundPasses
  BY <1>7, SecondRoundPassesInv
<1>8. ASSUME NEW f \in Frames, Pin(f) PROVE LoopInv'
  BY <1>1, <1>8 DEF Pin, LoopInv, TypeOK
<1>9. ASSUME NEW f \in Frames, NEW hot \in BOOLEAN, Unpin(f, hot) PROVE LoopInv'
  BY <1>1, <1>9 DEF Unpin, LoopInv, TypeOK
<1>10. CASE UNCHANGED vars
  <2>1. \A f, i : /\ Passed(f, i)' <=> Passed(f, i)
                  /\ HotBefore(i)' = HotBefore(i)
                  /\ Stop(i)' <=> Stop(i)
    BY <1>10, EntryStays DEF vars
  <2>2. \A i : FirstRoundAt(i)' <=> FirstRoundAt(i)
    BY <1>10, <2>1 DEF vars, FirstRoundAt
  <2>3. \A i : SecondRoundAt(i)' <=> SecondRoundAt(i)
    BY <1>10, <2>1 DEF vars, SecondRoundAt
  <2> QED BY <1>1, <1>10, <2>2, <2>3 DEF vars, LoopInv, TypeOK
<1> QED BY <1>2, <1>3, <1>4, <1>5, <1>6, <1>7, <1>8, <1>9, <1>10 DEF Next, VictimStep

LEMMA LoopInvariant == Spec => []LoopInv
  BY LoopInit, LoopNext, PTL DEF Spec

-----------------------------------------------------------------------------
(* Second chance *)

\* A first round that returned nothing has counted every unused candidate.
LEMMA AllUnusedCounted ==
  ASSUME TypeOK, NEW i \in Offsets, SecondRoundAt(i)
  PROVE  /\ \A f \in UnusedAtEntry : is_hot[f]
         /\ Cardinality(UnusedAtEntry) = cold_scan_count
<1>1. PICK start \in Frames : start = entry.clock_hand
  BY DEF TypeOK
<1>2. ASSUME NEW f \in UnusedAtEntry PROVE is_hot[f]
  <2>1. PICK j \in Offsets : f = FrameAt(start, j)
    BY RoundVisitsAll DEF UnusedAtEntry
  <2> QED BY <1>1, <2>1 DEF SecondRoundAt, Stop
<1>3. HotBefore(frame_count) = {j \in Offsets : FrameAt(start, j) \in UnusedAtEntry}
  BY <1>1, <1>2 DEF HotBefore, UnusedHot, Offsets
<1> DEFINE at == [j \in HotBefore(frame_count) |-> FrameAt(start, j)]
<1>4. at \in Bijection(HotBefore(frame_count), UnusedAtEntry)
  <2>1. \A j \in HotBefore(frame_count) : FrameAt(start, j) \in UnusedAtEntry
    BY <1>3
  <2>2. \A j, k \in HotBefore(frame_count) : FrameAt(start, j) = FrameAt(start, k) => j = k
    BY <1>3, RoundVisitsAll
  <2>3. ASSUME NEW f \in UnusedAtEntry
        PROVE  \E j \in HotBefore(frame_count) : FrameAt(start, j) = f
    <3>1. PICK j \in Offsets : f = FrameAt(start, j)
      BY RoundVisitsAll DEF UnusedAtEntry
    <3> QED BY <1>3, <3>1
  <2> QED BY <2>1, <2>2, <2>3, Fun_IsBij
<1>5. IsFiniteSet(HotBefore(frame_count))
  <2>1. IsFiniteSet(Offsets) /\ HotBefore(frame_count) \subseteq Offsets
    BY <1>3, FrameCountAssumption, FS_Interval DEF Offsets
  <2> QED BY <2>1, FS_Subset
<1>6. Cardinality(UnusedAtEntry) = Cardinality(HotBefore(frame_count))
  BY <1>4, <1>5, FS_Bijection DEF ExistsBijection
<1> QED BY <1>2, <1>6 DEF SecondRoundAt

\* For any number of frames and any priority: a frame whose use bit was set when
\* Victim was called leaves only if there was no unused cold candidate then and
\* fewer than COLD_EVICTION_PRIORITY unused hot ones (LayeredClock.cpp:27-49).
THEOREM UsedFramesGetSecondChance == Spec => SecondChance
<1>1. ASSUME LoopInv, FirstRoundReturns PROVE ~entry.use_bits[clock_hand]
  <2>1. PICK i \in Offsets : FirstRoundAt(i)
    BY <1>1 DEF LoopInv, FirstRoundReturns
  <2>2. clock_hand \in UnusedAtEntry
    BY <1>1, <2>1, FirstRoundSees DEF LoopInv, FirstRoundReturns
  <2> QED BY <2>2 DEF UnusedAtEntry
<1>2. ASSUME LoopInv, SecondRoundReturns
      PROVE  /\ \A f \in UnusedAtEntry : is_hot[f]
             /\ Cardinality(UnusedAtEntry) < COLD_EVICTION_PRIORITY
  <2>1. PICK i \in Offsets : SecondRoundAt(i)
    BY <1>2 DEF LoopInv, SecondRoundReturns
  <2>2. TypeOK /\ cold_scan_count < COLD_EVICTION_PRIORITY
    BY <1>2 DEF LoopInv, SecondRoundReturns
  <2> QED BY <2>1, <2>2, AllUnusedCounted
<1>3. LoopInv => [(FirstRoundReturns \/ SecondRoundReturns) /\ entry.use_bits[clock_hand] =>
                     /\ \A f \in UnusedAtEntry : is_hot[f]
                     /\ Cardinality(UnusedAtEntry) < COLD_EVICTION_PRIORITY]_vars
  BY <1>1, <1>2
<1> QED BY <1>3, LoopInvariant, PTL DEF SecondChance

-----------------------------------------------------------------------------
(* The refinement *)

\* What LayeredClock sees of the replacer while a round runs.
LEMMA SeenFromOutside ==
  ASSUME TypeOK, pc \in {"round1", "round2"}
  PROVE  /\ \A i : AtomicClock!FrameAt(i) = FrameAt(entry.clock_hand, i)
         /\ AtomicClock!FirstRoundStops = {i \in Offsets : Stop(i)}
         /\ \A f, i : AtomicClock!PassedBefore(f, i) <=> Passed(f, i)
<1>1. \A i : AtomicClock!FrameAt(i) = FrameAt(entry.clock_hand, i)
  BY DEF AtomicClock!FrameAt, FrameAt
<1>2. \A f \in Frames : AtomicClock!Unused(f) <=> f \in UnusedAtEntry
  BY DEF AtomicClock!Unused, UnusedAtEntry
<1>3. AtomicClock!Offsets = Offsets
  BY DEF AtomicClock!Offsets, Offsets
<1>4. entry.clock_hand \in Frames
  BY DEF TypeOK
<1>5. \A i \in Offsets : FrameAt(entry.clock_hand, i) \in Frames
  BY <1>4, RoundVisitsAll
<1>6. \A i \in Offsets : AtomicClock!ColdScanCount(i) = Cardinality(HotBefore(i + 1))
  <2> SUFFICES ASSUME NEW i \in Offsets
               PROVE  AtomicClock!ColdScanCount(i) = Cardinality(HotBefore(i + 1))
    OBVIOUS
  <2>1. \A j \in 0 .. i : j \in Offsets
    BY FrameCountAssumption DEF Offsets
  <2>2. 0 .. i = 0 .. ((i + 1) - 1)
    BY FrameCountAssumption DEF Offsets
  <2>3. {j \in 0 .. i : AtomicClock!Unused(AtomicClock!FrameAt(j)) /\ is_hot[AtomicClock!FrameAt(j)]} = HotBefore(i + 1)
    BY <1>1, <1>2, <1>5, <2>1, <2>2 DEF HotBefore, UnusedHot
  <2>4. \A S : AtomicClock!Cardinality(S) = Cardinality(S)
    BY Zenon DEF AtomicClock!Cardinality, Cardinality
  <2> QED BY <2>3, <2>4 DEF AtomicClock!ColdScanCount
<1>7. AtomicClock!FirstRoundStops = {i \in Offsets : Stop(i)}
  BY <1>1, <1>2, <1>3, <1>5, <1>6 DEF AtomicClock!FirstRoundStops, Stop
<1>8. \A f, i : AtomicClock!PassedBefore(f, i) <=> Passed(f, i)
  BY <1>1, <1>3 DEF AtomicClock!PassedBefore, Passed
<1> QED BY <1>1, <1>7, <1>8

LEMMA FirstRoundReturnsVictim ==
  ASSUME LoopInv, FirstRoundReturns
  PROVE  AtomicClock!VictimFirstRound(clock_hand)
<1>1. TypeOK /\ pc = "round1"
  BY DEF LoopInv, FirstRoundReturns
<1>2. PICK i \in Offsets : FirstRoundAt(i)
  BY <1>1 DEF LoopInv
<1>3. Stop(i)
  BY <1>1, <1>2, FirstRoundSees DEF FirstRoundReturns
<1>4. AtomicClock!IsFirst(i, AtomicClock!FirstRoundStops)
  <2>1. AtomicClock!FirstRoundStops = {j \in Offsets : Stop(j)}
    BY <1>1, SeenFromOutside
  <2>2. \A j \in Offsets : Stop(j) => i <= j
    BY <1>2, FrameCountAssumption DEF FirstRoundAt, Offsets
  <2> QED BY <1>3, <2>1, <2>2 DEF AtomicClock!IsFirst
<1>5. clock_hand = AtomicClock!FrameAt(i)
  BY <1>1, <1>2, SeenFromOutside DEF FirstRoundAt
<1>6. use_bits' = [g \in Frames |-> entry.use_bits[g] /\ ~(in_replacer[g] /\ AtomicClock!PassedBefore(g, i))]
  BY <1>1, <1>2, SeenFromOutside DEF FirstRoundAt, FirstRoundReturns, ReturnFrame
<1>7. AtomicClock!Take(clock_hand)
  BY <1>1 DEF AtomicClock!Take, FirstRoundReturns, ReturnFrame, Advanced
<1>8. pc' = "idle" /\ i \in AtomicClock!Offsets /\ AtomicClock!Frames = Frames
  BY DEF FirstRoundReturns, ReturnFrame, AtomicClock!Offsets, Offsets, AtomicClock!Frames, Frames
<1> QED BY <1>1, <1>4, <1>5, <1>6, <1>7, <1>8 DEF AtomicClock!VictimFirstRound

LEMMA SecondRoundReturnsVictim ==
  ASSUME LoopInv, SecondRoundReturns
  PROVE  AtomicClock!VictimSecondRound(clock_hand)
<1>1. TypeOK /\ pc = "round2"
  BY DEF LoopInv, SecondRoundReturns
<1>2. PICK i \in Offsets : SecondRoundAt(i)
  BY <1>1 DEF LoopInv
<1>3. AtomicClock!FirstRoundStops = {}
  <2>1. AtomicClock!FirstRoundStops = {j \in Offsets : Stop(j)}
    BY <1>1, SeenFromOutside
  <2> QED BY <1>2, <2>1 DEF SecondRoundAt
<1>4. AtomicClock!Offsets = Offsets /\ AtomicClock!Frames = Frames
  BY DEF AtomicClock!Offsets, Offsets, AtomicClock!Frames, Frames
<1>5. AtomicClock!UseBitsAfterFirstRound = [f \in Frames |-> entry.use_bits[f] /\ ~in_replacer[f]]
  BY <1>1, <1>4 DEF AtomicClock!UseBitsAfterFirstRound
<1>6. \A j \in Offsets : FrameAt(entry.clock_hand, j) \in Frames /\ AtomicClock!FrameAt(j) = FrameAt(entry.clock_hand, j)
  BY <1>1, SeenFromOutside, RoundVisitsAll DEF TypeOK
<1>7. AtomicClock!SecondRoundStops = {j \in Offsets : in_replacer[FrameAt(entry.clock_hand, j)]}
  BY <1>4, <1>5, <1>6 DEF AtomicClock!SecondRoundStops
<1>8. clock_hand = FrameAt(entry.clock_hand, i) /\ in_replacer[clock_hand]
  BY <1>2 DEF SecondRoundAt, SecondRoundReturns, Unused
<1>9. AtomicClock!IsFirst(i, AtomicClock!SecondRoundStops)
  <2>1. \A j \in Offsets : in_replacer[FrameAt(entry.clock_hand, j)] => i <= j
    BY <1>2, FrameCountAssumption DEF SecondRoundAt, Offsets
  <2> QED BY <1>7, <1>8, <2>1 DEF AtomicClock!IsFirst
<1>10. use_bits' = [g \in Frames |-> AtomicClock!UseBitsAfterFirstRound[g] /\ ~AtomicClock!PassedBefore(g, i)]
  BY <1>1, <1>2, <1>5, SeenFromOutside DEF SecondRoundAt, SecondRoundReturns, ReturnFrame
<1>11. AtomicClock!Take(clock_hand)
  BY <1>1 DEF AtomicClock!Take, SecondRoundReturns, ReturnFrame, Advanced
<1>12. pc' = "idle"
  BY DEF SecondRoundReturns, ReturnFrame
<1> QED BY <1>1, <1>3, <1>4, <1>6, <1>8, <1>9, <1>10, <1>11, <1>12 DEF AtomicClock!VictimSecondRound

\* Every step of a loop is a step of the atomic replacer or unseen by it.
LEMMA StepSimulates ==
  ASSUME LoopInv, [Next]_vars
  PROVE  AtomicClock!Next \/ UNCHANGED AtomicClock!clockVars
<1> USE DEF AtomicClock!clockVars
<1>1. TypeOK /\ AtomicClock!Frames = Frames
  BY DEF LoopInv, AtomicClock!Frames, Frames
<1>2. CASE CallVictim
  BY <1>2 DEF CallVictim
<1>3. CASE RelockHangs
  <2>1. AtomicClock!VictimHangs
    BY <1>3 DEF RelockHangs, LoopInv, AtomicClock!VictimHangs
  <2> QED BY <2>1 DEF AtomicClock!Next
<1>4. CASE RelockWorks
  BY <1>4 DEF RelockWorks, LoopInv
<1>5. CASE FirstRoundReturns \/ SecondRoundReturns
  <2>1. clock_hand \in Frames /\ pc \in {"round1", "round2"} /\ "works" \in RelockOutcomes
    BY <1>1, <1>5 DEF TypeOK, LoopInv, FirstRoundReturns, SecondRoundReturns
  <2>2. AtomicClock!VictimFirstRound(clock_hand) \/ AtomicClock!VictimSecondRound(clock_hand)
    BY <1>5, FirstRoundReturnsVictim, SecondRoundReturnsVictim
  <2>3. AtomicClock!Victim(clock_hand)
    BY <2>1, <2>2 DEF AtomicClock!Victim
  <2> QED BY <1>1, <2>1, <2>3 DEF AtomicClock!Next
<1>6. CASE FirstRoundPasses
  BY <1>6 DEF FirstRoundPasses
<1>7. CASE SecondRoundPasses
  <2>1. pc = "round2" /\ pc' = "round2" /\ UNCHANGED <<in_replacer, is_hot, entry>>
    BY <1>7, SecondRoundPassesInv DEF SecondRoundPasses
  <2> QED BY <2>1
<1>8. ASSUME NEW f \in Frames, Pin(f) PROVE AtomicClock!Next
  <2>1. AtomicClock!Pin(f)
    BY <1>8 DEF Pin, AtomicClock!Pin
  <2> QED BY <1>1, <2>1 DEF AtomicClock!Next
<1>9. ASSUME NEW f \in Frames, NEW hot \in BOOLEAN, Unpin(f, hot) PROVE AtomicClock!Next
  <2>1. AtomicClock!Unpin(f, hot)
    BY <1>9 DEF Unpin, AtomicClock!Unpin
  <2> QED BY <1>1, <2>1 DEF AtomicClock!Next
<1>10. CASE UNCHANGED vars
  BY <1>10 DEF vars
<1> QED BY <1>2, <1>3, <1>4, <1>5, <1>6, <1>7, <1>8, <1>9, <1>10 DEF Next, VictimStep

\* For any number of frames, any priority and both outcomes of the second lock:
\* seen from outside latch_, the loops of Victim are one step of LayeredClock
\* (LayeredClock.cpp:18-67).
THEOREM LoopsImplementClock == Spec => ImplementsLayeredClock
<1>1. Init => AtomicClock!Init
  BY DEF Init, AtomicClock!Init, AtomicClock!Frames, Frames
<1>2. LoopInv /\ [Next]_vars => [AtomicClock!Next]_(AtomicClock!clockVars)
  BY StepSimulates
<1> QED BY <1>1, <1>2, LoopInvariant, PTL DEF Spec, ImplementsLayeredClock, AtomicClock!Spec

-----------------------------------------------------------------------------
(* The disk manager *)

\* A manager has written, or lost a write, only if its stream is closed; a closed
\* stream loses no write and delivers no read (DiskManager.cpp:48-62).
DiskInv ==
    /\ disk \in DiskState
    /\ dropped \in {0, 1}
    /\ dropped = 1 => disk.stream = "closed"
    /\ has_written => disk.stream = "closed"
    /\ delivered => disk.stream = "open"
    /\ AllocIsFresh

-----------------------------------------------------------------------------

\* The product of a small page number and PAGE_SIZE fits an int.
LEMMA SmallOffsetFits ==
  ASSUME NEW p \in Nat, p < INT_PAGES
  PROVE  IntOffset(p) = p
<1>1. 2 * INT_PAGES \in Nat \ {0} /\ p < 2 * INT_PAGES
  BY IntPagesAssumption
<1>2. p % (2 * INT_PAGES) = p
  BY <1>1
<1> QED BY <1>2 DEF IntOffset

LEMMA OffsetIsInt ==
  ASSUME NEW p \in Int
  PROVE  IntOffset(p) \in Int
<1>1. 2 * INT_PAGES \in Nat \ {0}
  BY IntPagesAssumption
<1>2. p % (2 * INT_PAGES) \in Int
  BY <1>1
<1> QED BY <1>1, <1>2, IntPagesAssumption DEF IntOffset

\* OpenManager takes the next id from the length of the file.
LEMMA OpenIsFresh ==
  ASSUME NEW file \in [PageIds -> Contents], NEW pages \in 0 .. MAX_PAGES
  PROVE  /\ OpenManager(file, pages) \in DiskState
         /\ OpenManager(file, pages).pages = pages
         /\ pages < INT_PAGES => OpenManager(file, pages).next_page_id = pages
<1>1. pages \in Nat /\ pages \in Int
  BY MaxPagesAssumption
<1> QED BY <1>1, OffsetIsInt, SmallOffsetFits DEF OpenManager, DiskState

\* WritePage leaves the stream closed, and grows the file to the page at most.
LEMMA WriteCloses ==
  ASSUME disk \in DiskState, NEW p \in Known \cup {-1}, NEW data \in Contents
  PROVE  /\ AfterWrite(disk, p, data) \in DiskState
         /\ AfterWrite(disk, p, data).stream = "closed"
         /\ AfterWrite(disk, p, data).next_page_id = disk.next_page_id
         /\ \/ AfterWrite(disk, p, data).pages = disk.pages
            \/ AfterWrite(disk, p, data).pages = p + 1 /\ disk.pages <= p /\ p < disk.next_page_id
<1>1. CASE WriteLands(disk, p)
  <2>1. p \in PageIds /\ (p < disk.next_page_id \/ p < disk.pages)
    BY <1>1 DEF WriteLands, Known
  <2>2. p + 1 \in 0 .. MAX_PAGES /\ p \in Int /\ disk.pages \in Int
    BY <2>1, MaxPagesAssumption DEF PageIds, DiskState
  <2>3. [disk.file EXCEPT ![p] = data] \in [PageIds -> Contents]
    BY <2>1 DEF DiskState
  <2> DEFINE size == IF p < disk.pages THEN disk.pages ELSE p + 1
  <2>4. AfterWrite(disk, p, data) =
          [disk EXCEPT !.file = [disk.file EXCEPT ![p] = data], !.pages = size]
    BY <1>1 DEF AfterWrite
  <2>5. size \in 0 .. MAX_PAGES /\ disk.stream = "closed"
    BY <1>1, <2>2 DEF WriteLands, DiskState
  <2>6. size = disk.pages \/ (size = p + 1 /\ disk.pages <= p /\ p < disk.next_page_id)
    BY <2>1, <2>2
  <2> HIDE DEF size
  <2> QED BY <2>3, <2>4, <2>5, <2>6 DEF DiskState
<1>2. CASE ~WriteLands(disk, p)
  BY <1>2 DEF AfterWrite, DiskState
<1> QED BY <1>1, <1>2

LEMMA DiskInvariant == DiskSpec => []DiskInv
<1>1. DiskInit => DiskInv
  <2> SUFFICES ASSUME DiskInit PROVE DiskInv
    OBVIOUS
  <2>1. [p \in PageIds |-> Zero] \in [PageIds -> Contents] /\ 0 \in 0 .. MAX_PAGES
    BY ZeroAssumption, MaxPagesAssumption
  <2> QED BY <2>1, OpenIsFresh, IntPagesAssumption DEF DiskInit, DiskInv, AllocIsFresh
<1>2. DiskInv /\ [DiskNext]_diskVars => DiskInv'
  <2> SUFFICES ASSUME DiskInv, [DiskNext]_diskVars PROVE DiskInv'
    OBVIOUS
  <2>1. CASE UNCHANGED diskVars
    BY <2>1 DEF diskVars, DiskInv, AllocIsFresh
  <2>2. ASSUME NEW p \in Known \cup {-1}, ReadPage(p)
        PROVE  DiskInv'
    BY <2>2 DEF ReadPage, ReadDelivers, AfterRead, DiskInv, DiskState, AllocIsFresh
  <2>3. ASSUME NEW p \in Known \cup {-1}, NEW data \in Contents, WritePage(p, data)
        PROVE  DiskInv'
    <3>1. disk' = AfterWrite(disk, p, data) /\ disk \in DiskState
      BY <2>3 DEF WritePage, DiskInv
    <3>2. AllocIsFresh'
      BY <3>1, WriteCloses, IntPagesAssumption DEF DiskInv, AllocIsFresh, DiskState, Known, PageIds
    <3>3. dropped' \in {0, 1}
      BY <2>3 DEF WritePage, WriteLands, DiskInv
    <3>4. ~delivered'
      BY <2>3 DEF WritePage
    <3> QED BY <3>1, <3>2, <3>3, <3>4, WriteCloses DEF DiskInv
  <2>4. CASE AllocPage
    BY <2>4, IntPagesAssumption DEF AllocPage, AfterAlloc, DiskInv, DiskState, AllocIsFresh
  <2>5. CASE Restart
    <3>1. disk.file \in [PageIds -> Contents] /\ disk.pages \in 0 .. MAX_PAGES
      BY DEF DiskInv, DiskState
    <3> QED BY <2>5, <3>1, OpenIsFresh DEF Restart, DiskInv, AllocIsFresh
  <2> QED BY <2>1, <2>2, <2>3, <2>4, <2>5 DEF DiskNext
<1> QED BY <1>1, <1>2, PTL DEF DiskSpec

\* In the life of a manager at most one write of a real page is lost, whatever
\* is read and written (DiskManager.cpp:57).
THEOREM AtMostOneWriteLost == DiskSpec => []OneWriteLost
<1>1. DiskInv => OneWriteLost
  BY DEF DiskInv, OneWriteLost
<1> QED BY <1>1, DiskInvariant, PTL

\* AllocPage never hands out the id of a page that is in the file, across
\* restarts (DiskManager.cpp:45, 65-71).
THEOREM AllocatedIdsAreFresh == DiskSpec => []AllocIsFresh
<1>1. DiskInv => AllocIsFresh
  BY DEF DiskInv
<1> QED BY <1>1, DiskInvariant, PTL

\* From the first WritePage of a manager on, no read delivers anything
\* (DiskManager.cpp:48-63), whatever the calls and their order.
THEOREM NoReadAfterWrite == DiskSpec => []ReadsEndAtFirstWrite
<1>1. DiskInv => ReadsEndAtFirstWrite
  BY DEF DiskInv, ReadsEndAtFirstWrite
<1> QED BY <1>1, DiskInvariant, PTL
=============================================================================
