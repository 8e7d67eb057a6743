----------------------------- MODULE AuditBuffer -----------------------------
(***************************************************************************)
(* auditor::segmented_log_buffer (benchmarks/audit_buffer.hpp): threads    *)
(* reserve space in a memory mapped segment without a lock around the      *)
(* reservation, and the thread that runs over the end of a segment retires *)
(* it and publishes the next one.  Fresh segments are made by the thread   *)
(* that runs the io_service.                                               *)
(*                                                                         *)
(* A segment is named by the number in its file name.  The spin lock only  *)
(* guards single reads and writes of a slot, so those are single steps.    *)
(***************************************************************************)
EXTENDS Integers, FiniteSets

CONSTANTS
  Writers,       \* threads that call reserve
  FileSize,      \* filesize_: bytes in a segment
  Requests,      \* sizes asked for that pass the "too much memory" check,
                 \* FileSize - 1 among them, which fits no segment
  Slots,         \* segments_.size(): 3 in the code
  MaxCalls,      \* bound on the calls of reserve, see Weight
  MaxSegments    \* bound on the segments made

ASSUME FileSizeAssumption == FileSize \in Nat \ {0}
ASSUME RequestsAssumption == Requests \subseteq 1..(FileSize - 1)
ASSUME SlotsAssumption == Slots \in Nat \ {0, 1}
ASSUME BoundsAssumption == MaxCalls \in Nat /\ MaxSegments \in Nat \ {0, 1}

NoSegment == -1
SegmentIds == 0..MaxSegments
LastPos == FileSize - 1

VARIABLES
  segment_idx,        \* atomic: index of the current segment
  make_segment_idx,   \* next segment to make; io_service thread only
  segments,           \* slot -> segment in it, or NoSegment
  offset,             \* segment -> its atomic offset_
  requested,          \* calls of prep_next_segment queued in the io_service
  pc,                 \* writer -> next step of reserve
  idx, seg, pos, size,\* writer -> its locals segment_idx, segment, pos and
                      \* required_size
  calls,              \* calls of reserve so far
  taken,              \* every reservation handed out
  retired,            \* segment -> how often it was retired
  clobbered,          \* prep_next_segment found its slot occupied
  misled              \* a thread that slept through a lap of the ring retired
                      \* a segment later than the one its index meant

vars == <<segment_idx, make_segment_idx, segments, offset, requested, pc, idx,
          seg, pos, size, calls, taken, retired, clobbered, misled>>

locals == <<idx, seg, pos, size>>

Init ==
  /\ segment_idx = 0
  \* the constructor prepares two segments
  /\ make_segment_idx = 2
  /\ segments = [s \in 0..(Slots - 1) |-> IF s < 2 THEN s ELSE NoSegment]
  /\ offset = [g \in SegmentIds |-> 0]
  /\ requested = 0
  /\ pc = [w \in Writers |-> "idle"]
  /\ idx = [w \in Writers |-> 0]
  /\ seg = [w \in Writers |-> NoSegment]
  /\ pos = [w \in Writers |-> 0]
  /\ size = [w \in Writers |-> 0]
  /\ calls = 0
  /\ taken = {}
  /\ retired = [g \in SegmentIds |-> 0]
  /\ clobbered = FALSE
  /\ misled = FALSE

(* The next round of the loop: segment.reset(), and the index is loaded     *)
(* again.  What the locals held is not read any more.                       *)
NextRound(w) ==
  /\ idx' = [idx EXCEPT ![w] = 0]
  /\ seg' = [seg EXCEPT ![w] = NoSegment]
  /\ pos' = [pos EXCEPT ![w] = 0]

Goto(w, label) == pc' = [pc EXCEPT ![w] = label]

SlotOf(i) == i % Slots

-----------------------------------------------------------------------------
Oversized(n) == n >= LastPos

(* BOUND: a request that fits no segment uses up segment after segment, and  *)
(* counts as the calls it takes to do so otherwise.                          *)
Weight(n) == IF Oversized(n) THEN MaxSegments - 2 ELSE 1

(* reserve(required_size), entry *)
Call(w, n) ==
  /\ pc[w] = "idle"
  /\ calls + Weight(n) <= MaxCalls
  /\ calls' = calls + Weight(n)
  /\ size' = [size EXCEPT ![w] = n]
  /\ Goto(w, "load")
  /\ UNCHANGED <<segment_idx, make_segment_idx, segments, offset, requested,
                 idx, seg, pos, taken, retired, clobbered, misled>>

(* segment_idx_.load *)
LoadIndex(w) ==
  /\ pc[w] = "load"
  /\ idx' = [idx EXCEPT ![w] = segment_idx]
  /\ Goto(w, "read")
  /\ UNCHANGED <<segment_idx, make_segment_idx, segments, offset, requested,
                 seg, pos, size, calls, taken, retired, clobbered, misled>>

(* Mutant of ReadSlot: the empty slot is not noticed. *)
ReadSlotUnchecked(w) ==
  /\ pc[w] = "read"
  /\ seg' = [seg EXCEPT ![w] = segments[SlotOf(idx[w])]]
  /\ Goto(w, "reserve")
  /\ UNCHANGED <<segment_idx, make_segment_idx, segments, offset, requested,
                 idx, pos, size, calls, taken, retired, clobbered, misled>>

(* Copy the shared_ptr out of the slot; an empty slot means retry. *)
ReadSlot(w) ==
  /\ pc[w] = "read"
  /\ \/ /\ segments[SlotOf(idx[w])] = NoSegment
        /\ NextRound(w)
        /\ Goto(w, "load")
     \/ /\ segments[SlotOf(idx[w])] # NoSegment
        /\ seg' = [seg EXCEPT ![w] = segments[SlotOf(idx[w])]]
        /\ Goto(w, "reserve")
        /\ UNCHANGED <<idx, pos>>
  /\ UNCHANGED <<segment_idx, make_segment_idx, segments, offset, requested,
                 size, calls, taken, retired, clobbered, misled>>

(* Mutants of Crosses and Advanced: every thread past the end retires the  *)
(* segment; a reservation leaves a byte of the previous one unclaimed.     *)
CrossesAgain(p, n) == p + n >= LastPos

AdvancedShort(off, n) == IF off + n > LastPos THEN LastPos ELSE off + n - 1

(* log_segment::reserve: fetch_add on the offset.  All offsets from the    *)
(* last position on behave alike, so the counter stops there.              *)
Advanced(off, n) == IF off + n > LastPos THEN LastPos ELSE off + n

Crosses(p, n) == p < LastPos /\ p + n >= LastPos

FetchAdd(w) ==
  LET p == offset[seg[w]]
      n == size[w]
  IN  /\ pc[w] = "reserve"
      /\ offset' = [offset EXCEPT ![seg[w]] = Advanced(p, n)]
      /\ \/ /\ Crosses(p, n)
            /\ Goto(w, "retire")
            /\ pos' = [pos EXCEPT ![w] = p]
            /\ retired' = [retired EXCEPT ![seg[w]] = @ + 1]
            /\ misled' = (misled \/ seg[w] # idx[w])
            /\ UNCHANGED <<idx, seg, size, taken>>
         \/ /\ p >= LastPos
            /\ Goto(w, "load")
            /\ NextRound(w)
            /\ UNCHANGED <<size, taken, retired, misled>>
         \/ /\ p + n < LastPos
            /\ Goto(w, "idle")
            /\ NextRound(w)
            /\ size' = [size EXCEPT ![w] = 0]
            /\ taken' = taken \cup {[call |-> Cardinality(taken), seg |-> seg[w],
                                     from |-> p, to |-> p + n]}
            /\ UNCHANGED <<retired, misled>>
      /\ UNCHANGED <<segment_idx, make_segment_idx, segments, requested,
                     calls, clobbered>>

(* The crossing thread empties the slot it read the segment from ... *)
ResetSlot(w) ==
  /\ pc[w] = "retire"
  /\ segments' = [segments EXCEPT ![SlotOf(idx[w])] = NoSegment]
  /\ Goto(w, "request")
  /\ UNCHANGED <<segment_idx, make_segment_idx, offset, requested, locals,
                 calls, taken, retired, clobbered, misled>>

(* ... queues the making of another segment ... *)
RequestNextSegment(w) ==
  /\ pc[w] = "request"
  /\ requested' = requested + 1
  /\ Goto(w, "publish")
  /\ UNCHANGED <<segment_idx, make_segment_idx, segments, offset, locals,
                 calls, taken, retired, clobbered, misled>>

(* Mutant of Publish: the thread goes on without publishing. *)
PublishNothing(w) ==
  /\ pc[w] = "publish"
  /\ Goto(w, "load")
  /\ UNCHANGED <<segment_idx, make_segment_idx, segments, offset, requested,
                 locals, calls, taken, retired, clobbered, misled>>

(* ... writes End-of-Media at pos, publishes the next index and retries. *)
Publish(w) ==
  /\ pc[w] = "publish"
  /\ segment_idx' = idx[w] + 1
  /\ Goto(w, "load")
  /\ NextRound(w) /\ UNCHANGED size
  /\ UNCHANGED <<make_segment_idx, segments, offset, requested, calls,
                 taken, retired, clobbered, misled>>

(* prep_next_segment on the io_service thread.  Built with NDEBUG it       *)
(* replaces whatever the slot holds; otherwise the assert stops the        *)
(* program, and clobbered is the last thing that happens.                  *)
PrepNextSegment ==
  /\ requested > 0
  /\ make_segment_idx < MaxSegments
  /\ requested' = requested - 1
  /\ clobbered' = (clobbered \/ segments[SlotOf(make_segment_idx)] # NoSegment)
  /\ segments' = [segments EXCEPT ![SlotOf(make_segment_idx)] = make_segment_idx]
  /\ make_segment_idx' = make_segment_idx + 1
  /\ UNCHANGED <<segment_idx, offset, pc, locals, calls, taken, retired, misled>>

-----------------------------------------------------------------------------
Reserving(w) ==
  \/ LoadIndex(w)
  \/ ReadSlot(w)
  \/ FetchAdd(w)
  \/ ResetSlot(w)
  \/ RequestNextSegment(w)
  \/ Publish(w)

Next ==
  \/ \E w \in Writers : Reserving(w) \/ \E n \in Requests : Call(w, n)
  \/ PrepNextSegment

Spec == Init /\ [][Next]_vars

(* Threads are scheduled, and the io_service thread runs what is queued. *)
Fairness == (\A w \in Writers : WF_vars(Reserving(w))) /\ WF_vars(PrepNextSegment)

FairSpec == Spec /\ Fairness

-----------------------------------------------------------------------------
TypeOK ==
  /\ segment_idx \in Nat
  /\ make_segment_idx \in SegmentIds
  /\ segments \in [0..(Slots - 1) -> SegmentIds \cup {NoSegment}]
  /\ offset \in [SegmentIds -> 0..LastPos]
  /\ requested \in Nat
  /\ pc \in [Writers -> {"idle", "load", "read", "reserve", "retire", "request", "publish"}]
  /\ idx \in [Writers -> Nat]
  /\ seg \in [Writers -> SegmentIds \cup {NoSegment}]
  /\ \A w \in Writers : pc[w] \in {"reserve", "retire"} => seg[w] # NoSegment
  /\ pos \in [Writers -> 0..LastPos]
  /\ size \in [Writers -> 0..(FileSize - 1)]
  /\ calls \in 0..MaxCalls
  /\ retired \in [SegmentIds -> Nat]
  /\ clobbered \in BOOLEAN /\ misled \in BOOLEAN

(* The ranges handed out never overlap, whatever the schedule, even when a *)
(* thread that slept through several switches reserves in a segment it     *)
(* never meant; and each leaves the byte for End-of-Media free.            *)
ReservationsDisjoint ==
  \A r \in taken :
    /\ 0 <= r.from /\ r.from < r.to /\ r.to < LastPos
    /\ \A s \in taken : r # s /\ r.seg = s.seg => r.to <= s.from \/ s.to <= r.from

(* At most one thread retires a segment, so that a slot is emptied and a   *)
(* replacement requested once for it.                                      *)
RetiredOnce ==
  \A g \in SegmentIds : retired[g] <= 1

(* "assert(!*psegment)" in prep_next_segment: the slot that receives a new *)
(* segment has been emptied before.                                        *)
SlotFreeForNextSegment == ~clobbered

(* "Thread safe chunked log buffer": unless a switch is under way or a     *)
(* segment is queued to be made, the current index leads to a segment, so  *)
(* that a thread which calls reserve does not spin for ever.               *)
CurrentSegmentAvailable ==
  requested = 0 /\ (\A w \in Writers : pc[w] \notin {"retire", "request", "publish"})
    => segments[SlotOf(segment_idx)] # NoSegment

(* "automatically switching to the next file when no space is left in the  *)
(* current one": a segment none of which has been reserved is not retired. *)
SwitchOnlyWhenNoSpaceLeft ==
  \A w \in Writers : pc[w] = "retire" => pos[w] > 0

(* A call of reserve returns: a thread that found its segment full, empty  *)
(* or gone is not left spinning, given that threads are scheduled and the  *)
(* io_service makes the segments asked for.  There are two exceptions: a   *)
(* thread that slept through a lap of the ring has stored its index last,  *)
(* and it leads to no segment; and a request of filesize_ - 1, of this or  *)
(* another thread, which fits no segment and retires one after another.    *)
ReserveReturns ==
  \A w \in Writers :
    pc[w] # "idle" ~>
      \/ pc[w] = "idle"
      \/ misled /\ ~CurrentSegmentAvailable
      \/ \E v \in Writers : pc[v] # "idle" /\ Oversized(size[v])

=============================================================================
