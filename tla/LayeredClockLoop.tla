-------------------------- MODULE LayeredClockLoop --------------------------
(***************************************************************************)
(* LayeredClock::Victim one loop iteration at a time                       *)
(* (src/MiniDB/src/buffer/LayeredClock.cpp:18-67), with Pin, Unpin and     *)
(* Size.  latch_ is held from the call of Victim to its return, so no      *)
(* other method runs in between.  AtomicClock!Spec says that the loops     *)
(* compute what module LayeredClock defines without them.                  *)
(***************************************************************************)
EXTENDS Naturals, FiniteSets

CONSTANTS frame_count, COLD_EVICTION_PRIORITY, RelockOutcomes

ASSUME FrameCountAssumption == frame_count \in Nat \ {0}
ASSUME PriorityAssumption == COLD_EVICTION_PRIORITY \in Nat \ {0}
ASSUME RelockAssumption == RelockOutcomes \subseteq {"works", "hangs"}

Frames == 0 .. (frame_count - 1)

VARIABLES
    use_bits, in_replacer, is_hot, clock_hand,
    pc,                \* where Victim is; "idle": latch_ is free
    start_hand,        \* where the current round began
    cold_scan_count,   \* unused hot frames passed in the first round
    entry              \* use_bits and clock_hand when Victim was called (ghost)

vars == <<use_bits, in_replacer, is_hot, clock_hand, pc, start_hand,
          cold_scan_count, entry>>

NoEntry == [use_bits |-> [f \in Frames |-> FALSE], clock_hand |-> 0]

Init ==
    /\ use_bits = [f \in Frames |-> FALSE]
    /\ in_replacer = [f \in Frames |-> FALSE]
    /\ is_hot = [f \in Frames |-> TRUE]
    /\ clock_hand = 0
    /\ pc = "idle"
    /\ start_hand = 0
    /\ cold_scan_count = 0
    /\ entry = NoEntry

Size == Cardinality({f \in Frames : in_replacer[f]})

Advanced(hand) == (hand + 1) % frame_count

-----------------------------------------------------------------------------
\* Victim takes latch_.
CallVictim ==
    /\ pc = "idle"
    /\ pc' = "size"
    /\ entry' = [use_bits |-> use_bits, clock_hand |-> clock_hand]
    /\ UNCHANGED <<use_bits, in_replacer, is_hot, clock_hand, start_hand, cold_scan_count>>

\* Size locks latch_ again: it never returns, or the lock is a no-op.
RelockHangs ==
    /\ pc = "size" /\ "hangs" \in RelockOutcomes
    /\ pc' = "blocked"
    /\ UNCHANGED <<use_bits, in_replacer, is_hot, clock_hand, start_hand, cold_scan_count, entry>>

RelockWorks ==
    /\ pc = "size" /\ "works" \in RelockOutcomes
    /\ pc' = IF Size = 0 THEN "idle" ELSE "round1"
    /\ start_hand' = clock_hand
    /\ cold_scan_count' = 0
    /\ UNCHANGED <<use_bits, in_replacer, is_hot, clock_hand, entry>>

\* Victim returns true with the frame under the hand; the locals die with it.
ReturnFrame ==
    /\ in_replacer' = [in_replacer EXCEPT ![clock_hand] = FALSE]
    /\ clock_hand' = Advanced(clock_hand)
    /\ pc' = "idle"
    /\ start_hand' = 0
    /\ cold_scan_count' = 0
    /\ entry' = NoEntry
    /\ UNCHANGED <<use_bits, is_hot>>

\* Mutant: the use bit is not looked at.
Candidate == in_replacer[clock_hand]

Unused == in_replacer[clock_hand] /\ ~use_bits[clock_hand]

\* The number of unused hot frames seen once the current frame is counted.
CountedHot == cold_scan_count + IF Unused /\ is_hot[clock_hand] THEN 1 ELSE 0

FirstRoundReturns ==
    /\ pc = "round1"
    /\ Unused
    /\ is_hot[clock_hand] => CountedHot >= COLD_EVICTION_PRIORITY
    /\ ReturnFrame

\* Mutant: the hand moves on only from candidates.
FirstRoundStays ==
    /\ pc = "round1"
    /\ ~(Unused /\ (is_hot[clock_hand] => CountedHot >= COLD_EVICTION_PRIORITY))
    /\ use_bits' = [use_bits EXCEPT ![clock_hand] = @ /\ ~in_replacer[clock_hand]]
    /\ cold_scan_count' = CountedHot
    /\ clock_hand' = IF in_replacer[clock_hand] THEN Advanced(clock_hand) ELSE clock_hand
    /\ pc' = IF in_replacer[clock_hand] /\ clock_hand' = start_hand THEN "round2" ELSE "round1"
    /\ UNCHANGED <<in_replacer, is_hot, start_hand, entry>>

FirstRoundPasses ==
    /\ pc = "round1"
    /\ ~(Unused /\ (is_hot[clock_hand] => CountedHot >= COLD_EVICTION_PRIORITY))
    /\ use_bits' = [use_bits EXCEPT ![clock_hand] = @ /\ ~in_replacer[clock_hand]]
    /\ cold_scan_count' = CountedHot
    /\ clock_hand' = Advanced(clock_hand)
    /\ pc' = IF clock_hand' = start_hand THEN "round2" ELSE "round1"
    /\ UNCHANGED <<in_replacer, is_hot, start_hand, entry>>

SecondRoundReturns ==
    /\ pc = "round2"
    /\ Unused
    /\ ReturnFrame

\* Mutant: the second round, like the first, clears the bits of candidates only.
SecondRoundClearsCandidates ==
    /\ pc = "round2"
    /\ ~Unused
    /\ use_bits' = [use_bits EXCEPT ![clock_hand] = @ /\ ~in_replacer[clock_hand]]
    /\ clock_hand' = Advanced(clock_hand)
    /\ pc' = IF clock_hand' = start_hand THEN "idle" ELSE "round2"
    /\ UNCHANGED <<in_replacer, is_hot, start_hand, cold_scan_count, entry>>

\* Coming round to start_hand would leave the loop and return false.
SecondRoundPasses ==
    /\ pc = "round2"
    /\ ~Unused
    /\ use_bits' = [use_bits EXCEPT ![clock_hand] = FALSE]
    /\ clock_hand' = Advanced(clock_hand)
    /\ pc' = IF clock_hand' = start_hand THEN "idle" ELSE "round2"
    /\ UNCHANGED <<in_replacer, is_hot, start_hand, cold_scan_count, entry>>

Pin(f) ==
    /\ pc = "idle"
    /\ in_replacer' = [in_replacer EXCEPT ![f] = FALSE]
    /\ UNCHANGED <<use_bits, is_hot, clock_hand, pc, start_hand, cold_scan_count, entry>>

Unpin(f, hot) ==
    /\ pc = "idle"
    /\ ~in_replacer[f]
    /\ in_replacer' = [in_replacer EXCEPT ![f] = TRUE]
    /\ use_bits' = [use_bits EXCEPT ![f] = TRUE]
    /\ is_hot' = [is_hot EXCEPT ![f] = hot]
    /\ UNCHANGED <<clock_hand, pc, start_hand, cold_scan_count, entry>>

VictimStep ==
    \/ RelockHangs \/ RelockWorks
    \/ FirstRoundReturns \/ FirstRoundPasses
    \/ SecondRoundReturns \/ SecondRoundPasses

Next ==
    \/ CallVictim
    \/ VictimStep
    \/ \E f \in Frames : Pin(f)
    \/ \E f \in Frames, hot \in BOOLEAN : Unpin(f, hot)

\* A thread inside Victim keeps running; the callers need not call anything.
Spec == Init /\ [][Next]_vars /\ WF_vars(VictimStep)

-----------------------------------------------------------------------------
(* Properties *)

\* The loops of Victim (LayeredClock.cpp:27-64) implement the atomic replacer:
\* seen from outside latch_, a call of Victim is one step of LayeredClock,
\* with the use bits and the hand unchanged until it returns.
AtomicClock == INSTANCE LayeredClock WITH
    use_bits <- IF pc \in {"idle", "blocked"} THEN use_bits ELSE entry.use_bits,
    clock_hand <- IF pc \in {"idle", "blocked"} THEN clock_hand ELSE entry.clock_hand,
    stuck <- pc = "blocked"
ImplementsLayeredClock == AtomicClock!Spec

\* The two do-while loops end (LayeredClock.cpp:49 and 64): a Victim that gets
\* past the second lock of latch_ returns.
VictimReturns == pc = "round1" ~> pc = "idle"

\* Second chance (LayeredClock.cpp:27-49): a frame whose use bit was set when
\* Victim was called leaves only if there was no unused cold candidate then and
\* fewer than COLD_EVICTION_PRIORITY unused hot ones.
UnusedAtEntry == {f \in Frames : in_replacer[f] /\ ~entry.use_bits[f]}
SecondChance ==
    [][(FirstRoundReturns \/ SecondRoundReturns) /\ entry.use_bits[clock_hand] =>
            /\ \A f \in UnusedAtEntry : is_hot[f]
            /\ Cardinality(UnusedAtEntry) < COLD_EVICTION_PRIORITY]_vars
=============================================================================
