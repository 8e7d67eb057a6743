-------------------------- MODULE AuditBufferProofs --------------------------
(***************************************************************************)
(* Proofs about AuditBuffer for any number of threads, slots and calls and *)
(* any segment size.                                                       *)
(***************************************************************************)
EXTENDS AuditBuffer, TLAPS

(* An index always leads to a slot of the ring. *)
LEMMA SlotInRing ==
  ASSUME NEW i \in Nat
  PROVE  SlotOf(i) \in 0..(Slots - 1)
BY SlotsAssumption DEF SlotOf

(* The constants as numbers. *)
LEMMA Sizes ==
  /\ FileSize \in Nat /\ FileSize > 0 /\ LastPos \in Nat /\ LastPos < FileSize
  /\ \A n \in Requests : n \in 1..(FileSize - 1)
BY FileSizeAssumption, RequestsAssumption DEF LastPos

(* The sizes in use are sizes that were asked for. *)
SizesAsked == \A w \in Writers : pc[w] # "idle" => size[w] \in Requests

(* What another round of the loop leaves in the locals.                    *)
LEMMA RoundTyped ==
  ASSUME TypeOK, NEW w \in Writers, NextRound(w)
  PROVE  /\ idx' \in [Writers -> Nat] /\ seg' \in [Writers -> SegmentIds \cup {NoSegment}]
         /\ pos' \in [Writers -> 0..LastPos]
         /\ \A v \in Writers : v # w => seg'[v] = seg[v]
<1>1. 0 \in 0..LastPos
  BY Sizes
<1>2. QED
  BY <1>1 DEF NextRound, TypeOK

(* Type correctness, with the requests in progress.                        *)
LEMMA TypeStep ==
  ASSUME TypeOK, SizesAsked, [Next]_vars
  PROVE  TypeOK' /\ SizesAsked'
<1>1. ASSUME NEW w \in Writers, NEW n \in Requests, Call(w, n)
      PROVE  TypeOK' /\ SizesAsked'
  <2>1. n \in 0..(FileSize - 1)
    BY Sizes
  <2>2. calls' \in 0..MaxCalls
    BY <1>1, BoundsAssumption DEF Call, Weight, TypeOK
  <2>3. SizesAsked'
    BY <1>1 DEF Call, TypeOK, SizesAsked, Goto
  <2>4. QED
    BY <1>1, <2>1, <2>2, <2>3 DEF Call, TypeOK, Goto
<1>2. ASSUME NEW w \in Writers, LoadIndex(w) PROVE TypeOK' /\ SizesAsked'
  BY <1>2 DEF LoadIndex, TypeOK, SizesAsked, Goto
<1>3. ASSUME NEW w \in Writers, ReadSlot(w) PROVE TypeOK' /\ SizesAsked'
  <2>1. idx[w] \in Nat
    BY DEF TypeOK
  <2>2. segments[SlotOf(idx[w])] \in SegmentIds \cup {NoSegment}
    BY <2>1, SlotInRing DEF TypeOK
  <2>3. SizesAsked'
    BY <1>3 DEF ReadSlot, TypeOK, SizesAsked, Goto
  <2>4. CASE segments[SlotOf(idx[w])] = NoSegment
    <3>1. NextRound(w) /\ pc' = [pc EXCEPT ![w] = "load"]
      BY <1>3, <2>4 DEF ReadSlot, Goto
    <3>2. QED
      BY <1>3, <2>3, <3>1, RoundTyped DEF ReadSlot, TypeOK
  <2>5. CASE segments[SlotOf(idx[w])] # NoSegment
    BY <1>3, <2>2, <2>3, <2>5 DEF ReadSlot, TypeOK, Goto
  <2>6. QED
    BY <2>4, <2>5
<1>4. ASSUME NEW w \in Writers, FetchAdd(w) PROVE TypeOK' /\ SizesAsked'
  <2> DEFINE p == offset[seg[w]]
  <2>1. seg[w] \in SegmentIds /\ p \in 0..LastPos /\ size[w] \in Nat
    BY <1>4, Sizes DEF FetchAdd, TypeOK
  <2>2. Advanced(p, size[w]) \in 0..LastPos
    BY <2>1, Sizes DEF Advanced
  <2>3. SizesAsked'
    BY <1>4 DEF FetchAdd, TypeOK, SizesAsked, Goto
  <2>4. retired' \in [SegmentIds -> Nat]
    <3>1. retired' = retired \/ retired' = [retired EXCEPT ![seg[w]] = @ + 1]
      BY <1>4 DEF FetchAdd
    <3>2. retired \in [SegmentIds -> Nat]
      BY DEF TypeOK
    <3>3. QED
      BY <3>1, <3>2, <2>1
  <2>5. pc' \in [Writers -> {"idle", "load", "read", "reserve", "retire", "request", "publish"}]
    BY <1>4 DEF FetchAdd, TypeOK, Goto
  <2>6. \A v \in Writers : pc'[v] \in {"reserve", "retire"} => seg'[v] # NoSegment
    BY <1>4 DEF FetchAdd, NextRound, TypeOK, Goto
  <2>7. idx' \in [Writers -> Nat] /\ seg' \in [Writers -> SegmentIds \cup {NoSegment}]
        /\ pos' \in [Writers -> 0..LastPos] /\ size' \in [Writers -> 0..(FileSize - 1)]
    <3>1. CASE idx' = idx /\ seg' = seg /\ size' = size /\ pos' = [pos EXCEPT ![w] = p]
      <4>1. pos' \in [Writers -> 0..LastPos]
        BY <2>1, <3>1 DEF TypeOK
      <4>2. QED
        BY <3>1, <4>1 DEF TypeOK
    <3>2. CASE NextRound(w) /\ (size' = size \/ size' = [size EXCEPT ![w] = 0])
      <4>1. 0 \in 0..(FileSize - 1) /\ size \in [Writers -> 0..(FileSize - 1)]
        BY Sizes DEF TypeOK
      <4>2. size' \in [Writers -> 0..(FileSize - 1)]
        BY <3>2, <4>1
      <4>3. QED
        BY <3>2, <4>2, RoundTyped
    <3>3. QED
      BY <1>4, <3>1, <3>2 DEF FetchAdd
  <2>8. misled' \in BOOLEAN
    <3>1. misled' = misled \/ misled' = (misled \/ seg[w] # idx[w])
      BY <1>4 DEF FetchAdd
    <3>2. QED
      BY <3>1, Zenon DEF TypeOK
  <2>9. QED
    BY <1>4, <2>1, <2>2, <2>3, <2>4, <2>5, <2>6, <2>7, <2>8 DEF FetchAdd, TypeOK
<1>5. ASSUME NEW w \in Writers, ResetSlot(w) PROVE TypeOK' /\ SizesAsked'
  <2>1. SlotOf(idx[w]) \in 0..(Slots - 1)
    BY SlotInRing DEF TypeOK
  <2>2. QED
    BY <1>5, <2>1 DEF ResetSlot, TypeOK, SizesAsked, Goto, locals
<1>6. ASSUME NEW w \in Writers, RequestNextSegment(w) PROVE TypeOK' /\ SizesAsked'
  BY <1>6 DEF RequestNextSegment, TypeOK, SizesAsked, Goto, locals
<1>7. ASSUME NEW w \in Writers, Publish(w) PROVE TypeOK' /\ SizesAsked'
  <2>1. NextRound(w) /\ segment_idx' = idx[w] + 1 /\ pc' = [pc EXCEPT ![w] = "load"]
    BY <1>7 DEF Publish, Goto
  <2>2. segment_idx' \in Nat
    BY <2>1 DEF TypeOK
  <2>3. SizesAsked'
    BY <1>7 DEF Publish, TypeOK, SizesAsked, Goto
  <2>4. \A v \in Writers : pc'[v] \in {"reserve", "retire"} => seg'[v] # NoSegment
    BY <2>1, RoundTyped DEF TypeOK
  <2>5. pc' \in [Writers -> {"idle", "load", "read", "reserve", "retire", "request", "publish"}]
    BY <2>1 DEF TypeOK
  <2>6. QED
    BY <1>7, <2>1, <2>2, <2>3, <2>4, <2>5, RoundTyped DEF Publish, TypeOK
<1>8. CASE PrepNextSegment
  <2>1. clobbered' \in BOOLEAN
    BY <1>8, Zenon DEF PrepNextSegment, TypeOK
  <2>2. make_segment_idx \in Nat
    BY DEF TypeOK, SegmentIds
  <2>3. SlotOf(make_segment_idx) \in 0..(Slots - 1)
    BY <2>2, SlotInRing
  <2>4. make_segment_idx' \in SegmentIds /\ requested' \in Nat
    BY <1>8, BoundsAssumption DEF PrepNextSegment, TypeOK, SegmentIds
  <2>5. segments' \in [0..(Slots - 1) -> SegmentIds \cup {NoSegment}]
    BY <1>8, <2>3 DEF PrepNextSegment, TypeOK
  <2>6. QED
    BY <1>8, <2>1, <2>4, <2>5 DEF PrepNextSegment, TypeOK, SizesAsked, locals
<1>9. CASE UNCHANGED vars
  BY <1>9 DEF vars, TypeOK, SizesAsked
<1>10. QED
  BY <1>1, <1>2, <1>3, <1>4, <1>5, <1>6, <1>7, <1>8, <1>9 DEF Next, Reserving

LEMMA TypeInit == Init => TypeOK /\ SizesAsked
<1> SUFFICES ASSUME Init PROVE TypeOK /\ SizesAsked
  OBVIOUS
<1>1. segments \in [0..(Slots - 1) -> SegmentIds \cup {NoSegment}]
  BY BoundsAssumption, SlotsAssumption DEF Init, SegmentIds
<1>2. make_segment_idx \in SegmentIds
  BY BoundsAssumption DEF Init, SegmentIds
<1>3. offset \in [SegmentIds -> 0..LastPos] /\ pos \in [Writers -> 0..LastPos]
  BY Sizes DEF Init
<1>4. size \in [Writers -> 0..(FileSize - 1)] /\ calls \in 0..MaxCalls
  BY Sizes, BoundsAssumption DEF Init
<1>5. QED
  BY <1>1, <1>2, <1>3, <1>4 DEF Init, TypeOK, SizesAsked

(* Every reachable state is well typed: slots stay in the ring, and a      *)
(* thread that is about to reserve or retire has a segment in hand.        *)
THEOREM TypeCorrect == Spec => []TypeOK
<1>1. TypeOK /\ SizesAsked /\ [Next]_vars => TypeOK' /\ SizesAsked'
  BY TypeStep
<1>2. QED
  BY <1>1, TypeInit, PTL DEF Spec

(***************************************************************************)
(* Reservations.                                                           *)
(***************************************************************************)

(* The strengthening: the offset of a segment is past everything reserved  *)
(* in it.                                                                  *)
TakenBelowOffset ==
  \A r \in taken :
    /\ r.seg \in SegmentIds /\ r.from \in Nat /\ r.to \in Nat
    /\ r.from < r.to /\ r.to < LastPos
    /\ r.to <= offset[r.seg]

Disjoint ==
  \A r \in taken, s \in taken :
    r # s /\ r.seg = s.seg => r.to <= s.from \/ s.to <= r.from

LEMMA ReserveStep ==
  ASSUME TypeOK, SizesAsked, TakenBelowOffset, Disjoint, [Next]_vars
  PROVE  TakenBelowOffset' /\ Disjoint'
<1>1. CASE \E w \in Writers : FetchAdd(w)
  <2>1. PICK w \in Writers : FetchAdd(w)
    BY <1>1
  <2> DEFINE g == seg[w]
             p == offset[g]
             n == size[w]
  <2>2. g \in SegmentIds /\ p \in 0..LastPos /\ p \in Nat /\ n \in Nat /\ n > 0
    <3>1. pc[w] = "reserve"
      BY <2>1 DEF FetchAdd
    <3>2. g \in SegmentIds
      BY <3>1 DEF TypeOK
    <3>3. n \in Nat /\ n > 0
      BY <3>1, Sizes DEF SizesAsked
    <3>4. QED
      BY <3>2, <3>3, Sizes DEF TypeOK
  <2>3. \A h \in SegmentIds : offset'[h] = IF h = g THEN Advanced(p, n) ELSE offset[h]
    BY <2>1, <2>2 DEF FetchAdd, TypeOK
  <2>4. \A h \in SegmentIds : offset[h] \in Nat /\ offset'[h] \in Nat /\ offset[h] <= offset'[h]
    <3>1. Advanced(p, n) \in Nat /\ p <= Advanced(p, n)
      BY <2>2, Sizes DEF Advanced
    <3>2. \A h \in SegmentIds : offset[h] \in Nat
      BY DEF TypeOK
    <3>3. QED
      BY <2>3, <3>1, <3>2
  <2>5. CASE taken' = taken
    <3>1. Disjoint'
      BY <2>5 DEF Disjoint
    <3>2. ASSUME NEW r \in taken
          PROVE  /\ r.seg \in SegmentIds /\ r.from \in Nat /\ r.to \in Nat
                 /\ r.from < r.to /\ r.to < LastPos
                 /\ r.to <= offset'[r.seg]
      BY <2>4 DEF TakenBelowOffset
    <3>3. QED
      BY <2>5, <3>1, <3>2 DEF TakenBelowOffset
  <2>6. CASE taken' # taken
    <3> DEFINE new == [call |-> Cardinality(taken), seg |-> g, from |-> p, to |-> p + n]
    <3>1. taken' = taken \cup {new} /\ p + n < LastPos
      BY <2>1, <2>6 DEF FetchAdd
    <3>2. new.seg = g /\ new.from = p /\ new.to = p + n
      OBVIOUS
    <3>3. Advanced(p, n) = p + n
      BY <2>2, <3>1, Sizes DEF Advanced
    <3> HIDE DEF new
    <3>4. ASSUME NEW r \in taken'
          PROVE  /\ r.seg \in SegmentIds /\ r.from \in Nat /\ r.to \in Nat
                 /\ r.from < r.to /\ r.to < LastPos
                 /\ r.to <= offset'[r.seg]
      <4>1. CASE r = new
        BY <2>2, <2>3, <3>1, <3>2, <3>3, <4>1
      <4>2. CASE r \in taken
        BY <2>4, <4>2 DEF TakenBelowOffset
      <4>3. QED
        BY <3>1, <4>1, <4>2
    <3>5. ASSUME NEW r \in taken, r.seg = g
          PROVE  r.to <= p
      BY <3>5 DEF TakenBelowOffset
    <3>6. ASSUME NEW r \in taken', NEW s \in taken', r # s, r.seg = s.seg
          PROVE  r.to <= s.from \/ s.to <= r.from
      <4>1. CASE r \in taken /\ s \in taken
        BY <3>6, <4>1 DEF Disjoint
      <4>2. CASE r = new /\ s \in taken
        BY <3>2, <3>5, <3>6, <4>2
      <4>3. CASE r \in taken /\ s = new
        BY <3>2, <3>5, <3>6, <4>3
      <4>4. QED
        BY <3>1, <3>6, <4>1, <4>2, <4>3
    <3>7. QED
      BY <3>4, <3>6 DEF TakenBelowOffset, Disjoint
  <2>7. QED
    BY <2>5, <2>6
<1>2. CASE UNCHANGED <<taken, offset>>
  BY <1>2 DEF TakenBelowOffset, Disjoint
<1>3. QED
  <2>1. \/ \E w \in Writers : FetchAdd(w)
        \/ UNCHANGED <<taken, offset>>
    BY DEF Next, Reserving, Call, LoadIndex, ReadSlot, ResetSlot, RequestNextSegment,
           Publish, PrepNextSegment, vars
  <2>2. QED
    BY <1>1, <1>2, <2>1

(* No two calls of reserve are ever given overlapping bytes, and none is   *)
(* given the End-of-Media byte, for any number of threads and any          *)
(* schedule, whatever becomes of the ring of slots.                        *)
THEOREM DisjointTheorem == Spec => []ReservationsDisjoint
<1>1. Init => TakenBelowOffset /\ Disjoint
  BY DEF Init, TakenBelowOffset, Disjoint
<1>2. TypeOK /\ SizesAsked /\ TakenBelowOffset /\ Disjoint /\ [Next]_vars
        => TypeOK' /\ SizesAsked' /\ TakenBelowOffset' /\ Disjoint'
  BY TypeStep, ReserveStep
<1>3. TakenBelowOffset /\ Disjoint => ReservationsDisjoint
  BY DEF TakenBelowOffset, Disjoint, ReservationsDisjoint
<1>4. QED
  BY <1>1, <1>2, <1>3, TypeInit, PTL DEF Spec

(***************************************************************************)
(* Retirement.                                                             *)
(***************************************************************************)

(* The strengthening: the offset of a retired segment is past the point    *)
(* where a request can cross the end.                                      *)
RetiredIsFull ==
  \A g \in SegmentIds : /\ retired[g] \in {0, 1}
                        /\ retired[g] = 1 => offset[g] >= LastPos

LEMMA RetireStep ==
  ASSUME TypeOK, SizesAsked, RetiredIsFull, [Next]_vars
  PROVE  RetiredIsFull'
<1>1. CASE \E w \in Writers : FetchAdd(w)
  <2>1. PICK w \in Writers : FetchAdd(w)
    BY <1>1
  <2> DEFINE g == seg[w]
             p == offset[g]
             n == size[w]
  <2>2. g \in SegmentIds /\ p \in 0..LastPos /\ p \in Nat /\ n \in Nat
    BY <2>1, Sizes DEF FetchAdd, TypeOK
  <2>3. \A h \in SegmentIds : h # g => offset'[h] = offset[h] /\ retired'[h] = retired[h]
    BY <2>1 DEF FetchAdd, TypeOK
  <2>4. offset'[g] = Advanced(p, n) /\ p <= offset'[g]
    BY <2>1, <2>2, Sizes DEF FetchAdd, TypeOK, Advanced
  <2>5. CASE Crosses(p, n)
    <3>1. retired'[g] = retired[g] + 1
      BY <2>1, <2>2, <2>5, Sizes DEF FetchAdd, TypeOK, Crosses
    <3>2. retired[g] = 0
      BY <2>2, <2>5, Sizes DEF RetiredIsFull, Crosses
    <3>3. Advanced(p, n) >= LastPos
      BY <2>2, <2>5, Sizes DEF Advanced, Crosses
    <3>4. QED
      BY <2>3, <2>4, <3>1, <3>2, <3>3 DEF RetiredIsFull
  <2>6. CASE ~Crosses(p, n)
    <3>1. retired' = retired
      BY <2>1, <2>6 DEF FetchAdd
    <3>2. QED
      BY <2>2, <2>3, <2>4, <3>1, Sizes DEF RetiredIsFull, Advanced
  <2>7. QED
    BY <2>5, <2>6
<1>2. CASE UNCHANGED <<retired, offset>>
  BY <1>2 DEF RetiredIsFull
<1>3. QED
  <2>1. \/ \E w \in Writers : FetchAdd(w)
        \/ UNCHANGED <<retired, offset>>
    BY DEF Next, Reserving, Call, LoadIndex, ReadSlot, ResetSlot, RequestNextSegment,
           Publish, PrepNextSegment, vars
  <2>2. QED
    BY <1>1, <1>2, <2>1

(* However many threads run over the end of a segment at the same time,    *)
(* exactly one of them takes itself for the one that crossed it.           *)
THEOREM RetireTheorem == Spec => []RetiredOnce
<1>1. Init => RetiredIsFull
  BY DEF Init, RetiredIsFull
<1>2. TypeOK /\ SizesAsked /\ RetiredIsFull /\ [Next]_vars
        => TypeOK' /\ SizesAsked' /\ RetiredIsFull'
  BY TypeStep, RetireStep
<1>3. RetiredIsFull => RetiredOnce
  BY DEF RetiredIsFull, RetiredOnce
<1>4. QED
  BY <1>1, <1>2, <1>3, TypeInit, PTL DEF Spec

=============================================================================
