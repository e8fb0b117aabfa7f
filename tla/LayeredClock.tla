---------------------------- MODULE LayeredClock ----------------------------
(***************************************************************************)
(* The page replacer of the buffer pool (src/MiniDB/src/buffer/            *)
(* LayeredClock.cpp): a clock over the frames in which an unused cold      *)
(* frame is taken at once and an unused hot frame only after several of    *)
(* them have been passed over.  Every method runs under latch_, so every   *)
(* call is one step; LayeredClockLoop models the two loops of Victim one   *)
(* iteration at a time and is proved to implement this module.             *)
(***************************************************************************)
EXTENDS Naturals, FiniteSets

CONSTANTS
    frame_count,              \* number of frames the clock runs over
    COLD_EVICTION_PRIORITY,   \* unused hot frames passed before one is taken
    RelockOutcomes            \* what locking a std::mutex twice in one thread
                              \* does (undefined behaviour): "works" where the
                              \* mutex is a no-op, "hangs" where it is real

Frames == 0 .. (frame_count - 1)

VARIABLES
    use_bits,      \* use_bits_[f]: frame f was unpinned since the hand last passed
    in_replacer,   \* in_replacer_[f]: frame f may be evicted
    is_hot,        \* is_hot_[f]: f held a hot page when it was last unpinned
    clock_hand,    \* clock_hand_: the next frame to look at
    stuck          \* a thread waits for latch_ while it holds latch_ itself

clockVars == <<use_bits, in_replacer, is_hot, clock_hand, stuck>>

TypeOK ==
    /\ use_bits \in [Frames -> BOOLEAN]
    /\ in_replacer \in [Frames -> BOOLEAN]
    /\ is_hot \in [Frames -> BOOLEAN]
    /\ clock_hand \in Frames
    /\ stuck \in BOOLEAN

\* The constructor: no frame is a candidate and every frame counts as hot.
Init ==
    /\ use_bits = [f \in Frames |-> FALSE]
    /\ in_replacer = [f \in Frames |-> FALSE]
    /\ is_hot = [f \in Frames |-> TRUE]
    /\ clock_hand = 0
    /\ stuck = FALSE

-----------------------------------------------------------------------------
(* Victim *)

Size == Cardinality({f \in Frames : in_replacer[f]})

\* Offsets from the hand, in the order the hand visits the frames.
Offsets == 0 .. (frame_count - 1)
FrameAt(i) == (clock_hand + i) % frame_count

Unused(f) == in_replacer[f] /\ ~use_bits[f]

\* cold_scan_count once the frame at offset i has been looked at.
ColdScanCount(i) ==
    Cardinality({j \in 0 .. i : Unused(FrameAt(j)) /\ is_hot[FrameAt(j)]})

\* The offsets at which the first round may return: the first one does.
FirstRoundStops ==
    {i \in Offsets : /\ Unused(FrameAt(i))
                     /\ is_hot[FrameAt(i)] => ColdScanCount(i) >= COLD_EVICTION_PRIORITY}

\* A first round that returns nothing has cleared the bit of every candidate.
UseBitsAfterFirstRound == [f \in Frames |-> use_bits[f] /\ ~in_replacer[f]]

SecondRoundStops ==
    {i \in Offsets : in_replacer[FrameAt(i)] /\ ~UseBitsAfterFirstRound[FrameAt(i)]}

IsFirst(k, S) == k \in S /\ \A i \in S : k <= i

PassedBefore(f, k) == \E j \in Offsets : j < k /\ f = FrameAt(j)

\* What both rounds do with the frame they settle on.
Take(f) ==
    /\ in_replacer' = [in_replacer EXCEPT ![f] = FALSE]
    /\ clock_hand' = (f + 1) % frame_count
    /\ UNCHANGED <<is_hot, stuck>>

VictimFirstRound(f) ==
    \E k \in Offsets :
        /\ IsFirst(k, FirstRoundStops)
        /\ f = FrameAt(k)
        /\ use_bits' = [g \in Frames |->
                          use_bits[g] /\ ~(in_replacer[g] /\ PassedBefore(g, k))]
        /\ Take(f)

\* The second round takes the first candidate it meets, and clears the bits of
\* the frames it passes even if they are not candidates.
VictimSecondRound(f) ==
    /\ FirstRoundStops = {}
    /\ \E k \in Offsets :
        /\ IsFirst(k, SecondRoundStops)
        /\ f = FrameAt(k)
        /\ use_bits' = [g \in Frames |-> UseBitsAfterFirstRound[g] /\ ~PassedBefore(g, k)]
        /\ Take(f)

\* Victim returns true with frame_id = f.
Victim(f) ==
    /\ ~stuck /\ "works" \in RelockOutcomes
    /\ VictimFirstRound(f) \/ VictimSecondRound(f)

\* Victim returns false.
VictimEmpty ==
    /\ ~stuck /\ "works" \in RelockOutcomes
    /\ Size = 0
    /\ UNCHANGED clockVars

\* Victim calls Size, which locks the latch_ that Victim holds already.
VictimHangs ==
    /\ ~stuck /\ "hangs" \in RelockOutcomes
    /\ stuck' = TRUE
    /\ UNCHANGED <<use_bits, in_replacer, is_hot, clock_hand>>

-----------------------------------------------------------------------------
\* Mutant: Pin has no effect.
PinIgnored(f) == ~stuck /\ UNCHANGED clockVars

Pin(f) ==
    /\ ~stuck
    /\ in_replacer' = [in_replacer EXCEPT ![f] = FALSE]
    /\ UNCHANGED <<use_bits, is_hot, clock_hand, stuck>>

\* A frame that is a candidate already keeps its bits.
Unpin(f, hot) ==
    /\ ~stuck
    /\ IF in_replacer[f]
       THEN UNCHANGED clockVars
       ELSE /\ in_replacer' = [in_replacer EXCEPT ![f] = TRUE]
            /\ use_bits' = [use_bits EXCEPT ![f] = TRUE]
            /\ is_hot' = [is_hot EXCEPT ![f] = hot]
            /\ UNCHANGED <<clock_hand, stuck>>

Next ==
    \/ \E f \in Frames : Victim(f) \/ Pin(f)
    \/ \E f \in Frames, hot \in BOOLEAN : Unpin(f, hot)
    \/ VictimEmpty
    \/ VictimHangs

Spec == Init /\ [][Next]_clockVars
=============================================================================
