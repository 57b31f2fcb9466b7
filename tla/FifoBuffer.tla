----------------------------- MODULE FifoBuffer -----------------------------
(***************************************************************************)
(* The segmented buffer of src/fifo.c as operators on its value.  A fifo   *)
(* is the list of its segments (empty when front is NULL), each an array   *)
(* of SegCap slots, with the offset of the next element to take from the   *)
(* first segment and of the next slot to write in the last one.            *)
(***************************************************************************)
EXTENDS Integers, Sequences

CONSTANTS
  SegCap,   \* elements that fit one segment: (segm_size - header) / el_size
  Junk      \* contents of a slot of malloc'ed memory that was never written

ASSUME SegCapAssumption == SegCap \in Nat \ {0}

\* fifoReset: all pointers NULL.
EmptyFifo == [segs |-> <<>>, front_el |-> 0, back_el |-> 0]

segmNew == [k \in 1..SegCap |-> Junk]

IsEmpty(f) == f.segs = <<>>

\* borFifoFront, of a fifo that is not empty.
Front(f) == f.segs[1][f.front_el]

\* borFifoPush: a first segment, a next segment when the last one is full, or
\* neither; then the element is copied behind the last one.
Push(f, x) ==
  LET g == IF IsEmpty(f)
           THEN [segs |-> <<segmNew>>, front_el |-> 1, back_el |-> 1]
           ELSE IF f.back_el > SegCap
           THEN [f EXCEPT !.segs = Append(@, segmNew), !.back_el = 1]
           ELSE f
  IN  [g EXCEPT !.segs[Len(g.segs)][g.back_el] = x, !.back_el = @ + 1]

\* Mutants: a segment is released only when it is used up; a segment is
\* released as soon as the writer's offset is reached, whichever segment the
\* writer is in.
PopKeepsLast(f) ==
  LET g == [f EXCEPT !.front_el = @ + 1] IN
  IF IsEmpty(f) THEN f
  ELSE IF g.front_el <= SegCap THEN g
  ELSE IF Len(f.segs) = 1 THEN EmptyFifo
  ELSE [g EXCEPT !.segs = Tail(@), !.front_el = 1]
PopAnySegment(f) ==
  LET g == [f EXCEPT !.front_el = @ + 1] IN
  IF IsEmpty(f) THEN f
  ELSE IF g.front_el <= SegCap /\ g.front_el < g.back_el THEN g
  ELSE IF Len(f.segs) = 1 THEN EmptyFifo
  ELSE [g EXCEPT !.segs = Tail(@), !.front_el = 1]

\* borFifoPop: the offset moves on; the first segment is released when it is
\* used up or when its last element was also the last of the fifo.
Pop(f) ==
  LET g == [f EXCEPT !.front_el = @ + 1] IN
  IF IsEmpty(f) THEN f
  ELSE IF g.front_el <= SegCap /\ (Len(f.segs) > 1 \/ g.front_el < g.back_el) THEN g
  ELSE IF Len(f.segs) = 1 THEN EmptyFifo
  ELSE [g EXCEPT !.segs = Tail(@), !.front_el = 1]

----------------------------------------------------------------------------
(* What a fifo value stands for.                                           *)

Size(f) == IF IsEmpty(f) THEN 0 ELSE (Len(f.segs) - 1) * SegCap + f.back_el - f.front_el

\* The elements from front to back.
Contents(f) ==
  [i \in 1..Size(f) |->
     LET k == f.front_el + i - 2 IN f.segs[(k \div SegCap) + 1][(k % SegCap) + 1]]

\* The offsets lie in their segments and no segment is kept for nothing.
WellFormed(f) ==
  \/ f = EmptyFifo
  \/ /\ f.segs # <<>>
     /\ f.front_el \in 1..SegCap
     /\ f.back_el \in 2..(SegCap + 1)
     /\ Len(f.segs) = 1 => f.front_el < f.back_el
============================================================================
