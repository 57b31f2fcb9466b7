----------------------------- MODULE FifoProofs -----------------------------
(***************************************************************************)
(* Proofs about the segmented buffer of fifo.c and the queues built on it, *)
(* Fifo and FifoSem: for every capacity of a segment, every number of      *)
(* threads and every size of the queue, elements leave in the order in     *)
(* which they came; and about the segmented stack of lifo.c, which they    *)
(* leave in the opposite order.                                            *)
(***************************************************************************)
EXTENDS FifoSem, FiniteSetTheorems, TLAPS

----------------------------------------------------------------------------
(* The buffer: offsets and slots.                                          *)

USE SegCapAssumption DEF SegCapAssumption

\* A segmented buffer of values from V.
Buffers(V) == [segs : Seq([1..SegCap -> V]), front_el : Nat, back_el : Nat]

\* The slot at offset k, counted from the start of the first segment.
Slot(f, k) == f.segs[(k \div SegCap) + 1][(k % SegCap) + 1]

\* Division with remainder, by the capacity of a segment.
LEMMA Quotient == ASSUME NEW k \in Nat
  PROVE  /\ k \div SegCap \in Nat /\ k % SegCap \in 0..(SegCap - 1)
         /\ k = (k \div SegCap) * SegCap + (k % SegCap)
<1>1. k \div SegCap \in Nat
  OBVIOUS
<1>2. k % SegCap \in 0..(SegCap - 1)
  OBVIOUS
<1>3. SegCap \in Int /\ SegCap > 0 /\ k \in Int
  OBVIOUS
<1>4. k = (k \div SegCap) * SegCap + (k % SegCap)
  BY ONLY <1>3, Z3T(60)
<1> QED
  BY <1>1, <1>2, <1>4

\* Place r of segment q has the offset q * SegCap + r, and no other has.
LEMMA Offset == ASSUME NEW q \in Nat, NEW r \in 0..(SegCap - 1)
  PROVE  /\ q * SegCap + r \in Nat
         /\ (q * SegCap + r) \div SegCap = q
         /\ (q * SegCap + r) % SegCap = r
<1>1. ASSUME NEW S \in Int, S > 0, NEW k \in Int, NEW p \in Int, NEW s \in Int, 0 <= s, s < S, k = p * S + s
      PROVE  k \div S = p /\ k % S = s
  <2>1. k \div S = p
    BY <1>1
  <2>2. k % S = s
    BY <1>1
  <2> QED
    BY <2>1, <2>2
<1>2. q * SegCap + r \in Nat
  OBVIOUS
<1>3. q * SegCap + r \in Int /\ 0 <= r /\ r < SegCap /\ SegCap \in Int /\ SegCap > 0 /\ r \in Int /\ q \in Int
  BY <1>2
<1> QED
  BY <1>1, <1>2, <1>3

\* A buffer is empty exactly if its size is 0.
LEMMA SizeNat == ASSUME NEW V, NEW f \in Buffers(V), WellFormed(f)
  PROVE  /\ Size(f) \in Nat
         /\ IsEmpty(f) <=> Size(f) = 0
         /\ IsEmpty(f) => Contents(f) = <<>>
<1>1. CASE IsEmpty(f)
  <2>1. Size(f) = 0
    BY <1>1 DEF Size
  <2>2. Contents(f) = <<>>
    BY <2>1 DEF Contents
  <2> QED
    BY <1>1, <2>1, <2>2
<1>2. CASE ~IsEmpty(f)
  <2>1. /\ f.segs \in Seq([1..SegCap -> V]) /\ f.segs # <<>> /\ f.front_el \in 1..SegCap
        /\ f.back_el \in 2..(SegCap + 1) /\ (Len(f.segs) = 1 => f.front_el < f.back_el)
    BY <1>2 DEF Buffers, WellFormed, EmptyFifo, IsEmpty
  <2>2. PICK n \in Nat : n + 1 = Len(f.segs)
    <3>1. Len(f.segs) \in Nat /\ Len(f.segs) # 0
      BY <2>1
    <3>2. Len(f.segs) - 1 \in Nat /\ (Len(f.segs) - 1) + 1 = Len(f.segs)
      BY <3>1
    <3> QED
      BY <3>2
  <2>3. Size(f) = n * SegCap + f.back_el - f.front_el
    BY <1>2, <2>2 DEF Size
  <2>4. CASE n = 0
    BY <1>2, <2>1, <2>2, <2>3, <2>4
  <2>5. CASE n # 0
    <3>1. PICK m \in Nat : n = m + 1
      <4>1. n - 1 \in Nat /\ n = (n - 1) + 1
        BY <2>5
      <4> QED
        BY <4>1
    <3>2. n * SegCap = m * SegCap + SegCap /\ m * SegCap \in Nat
      BY <3>1
    <3> QED
      <4>1. PICK a \in Nat : a = m * SegCap
        BY <3>2
      <4>2. Size(f) = a + SegCap + f.back_el - f.front_el
        BY <2>3, <3>2, <4>1
      <4>3. PICK b \in 2..(SegCap + 1), e \in 1..SegCap : b = f.back_el /\ e = f.front_el
        BY <2>1
      <4>4. a + SegCap + b - e \in Nat /\ a + SegCap + b - e # 0
        OBVIOUS
      <4> QED
        BY <1>2, <4>2, <4>3, <4>4
  <2> QED
    BY <2>4, <2>5
<1> QED
  BY <1>1, <1>2

\* The offset behind the last element.
End(f) == (Len(f.segs) - 1) * SegCap + (f.back_el - 1)

\* What is known of a buffer that is not empty.
LEMMA Shape == ASSUME NEW V, NEW f \in Buffers(V), WellFormed(f), ~IsEmpty(f)
  PROVE  /\ f.segs \in Seq([1..SegCap -> V]) /\ Len(f.segs) \in Nat \ {0}
         /\ f.front_el \in 1..SegCap /\ f.back_el \in 2..(SegCap + 1)
         /\ Len(f.segs) = 1 => f.front_el < f.back_el
         /\ End(f) \in Nat /\ Size(f) = End(f) - (f.front_el - 1) /\ Size(f) \in Nat \ {0}
<1>1. /\ f.segs \in Seq([1..SegCap -> V]) /\ f.segs # <<>> /\ f.front_el \in 1..SegCap
      /\ f.back_el \in 2..(SegCap + 1) /\ (Len(f.segs) = 1 => f.front_el < f.back_el)
  BY DEF Buffers, WellFormed, EmptyFifo, IsEmpty
<1>2. Len(f.segs) \in Nat /\ Len(f.segs) # 0
  BY <1>1
<1>3. Len(f.segs) - 1 \in Nat
  BY <1>2
<1>4. PICK a \in Nat : a = (Len(f.segs) - 1) * SegCap
  BY <1>3
<1>5. End(f) = a + (f.back_el - 1) /\ Size(f) = a + f.back_el - f.front_el
  BY <1>4 DEF End, Size
<1>6. PICK b \in 2..(SegCap + 1), e \in 1..SegCap : b = f.back_el /\ e = f.front_el
  BY <1>1
<1>7. a + (b - 1) \in Nat /\ a + b - e = a + (b - 1) - (e - 1)
  OBVIOUS
<1>8. Size(f) \in Nat \ {0}
  BY SizeNat
<1>9. End(f) \in Nat /\ Size(f) = End(f) - (f.front_el - 1)
  BY <1>5, <1>6, <1>7
<1> QED
  BY <1>1, <1>2, <1>8, <1>9

\* The elements lie between the first offset and the end, inside the segments.
LEMMA Within == ASSUME NEW V, NEW f \in Buffers(V), WellFormed(f), NEW i \in 1..Size(f)
  PROVE  /\ f.front_el + i - 2 \in Nat /\ f.front_el + i - 2 < End(f)
         /\ (f.front_el + i - 2) \div SegCap \in 0..(Len(f.segs) - 1)
         /\ (f.front_el + i - 2) % SegCap \in 0..(SegCap - 1)
         /\ Slot(f, f.front_el + i - 2) \in V
<1>1. ~IsEmpty(f)
  BY SizeNat
<1>2. /\ f.segs \in Seq([1..SegCap -> V]) /\ Len(f.segs) \in Nat \ {0}
      /\ f.front_el \in 1..SegCap /\ f.back_el \in 2..(SegCap + 1)
      /\ End(f) \in Nat /\ Size(f) = End(f) - (f.front_el - 1)
  BY <1>1, Shape
<1>3. PICK k \in Nat : k = f.front_el + i - 2
  BY <1>2
<1>4. k < End(f)
  BY <1>2, <1>3
<1>5. PICK q \in Nat, r \in 0..(SegCap - 1) : q = k \div SegCap /\ r = k % SegCap /\ k = q * SegCap + r
  BY Quotient
<1>6. PICK n \in Nat : Len(f.segs) = n + 1
  <2>1. Len(f.segs) - 1 \in Nat /\ Len(f.segs) = (Len(f.segs) - 1) + 1
    BY <1>2
  <2> QED
    BY <2>1
<1>7. q <= n
  <2>1. End(f) = n * SegCap + (f.back_el - 1)
    BY <1>6 DEF End
  <2>2. CASE n < q
    <3>1. PICK d \in Nat : q = n + 1 + d
      <4>1. q - n - 1 \in Nat /\ q = n + 1 + (q - n - 1)
        BY <2>2
      <4> QED
        BY <4>1
    <3>2. q * SegCap = n * SegCap + SegCap + d * SegCap
      BY <3>1
    <3>3. PICK a \in Nat, b \in Nat, c \in Nat : a = q * SegCap /\ b = n * SegCap /\ c = d * SegCap
      OBVIOUS
    <3>4. a = b + SegCap + c /\ a + r < b + (f.back_el - 1)
      BY <1>4, <1>5, <2>1, <3>2, <3>3
    <3> QED
      BY <1>2, <3>4
  <2> QED
    BY <2>2
<1>8. q + 1 \in 1..Len(f.segs) /\ r + 1 \in 1..SegCap
  BY <1>6, <1>7
<1>9. Slot(f, k) = f.segs[q + 1][r + 1]
  BY <1>5 DEF Slot
<1>10. Slot(f, k) \in V
  BY <1>2, <1>8, <1>9
<1>11. q \in 0..(Len(f.segs) - 1)
  BY <1>6, <1>7
<1> QED
  BY <1>3, <1>4, <1>5, <1>10, <1>11

\* The contents are a sequence of as many values.
LEMMA ContentsSeq == ASSUME NEW V, NEW f \in Buffers(V), WellFormed(f)
  PROVE  /\ Contents(f) \in Seq(V) /\ Len(Contents(f)) = Size(f)
         /\ \A i \in 1..Size(f) : Contents(f)[i] = Slot(f, f.front_el + i - 2)
<1>1. Size(f) \in Nat
  BY SizeNat
<1>2. Contents(f) = [i \in 1..Size(f) |-> Slot(f, f.front_el + i - 2)]
  BY DEF Contents, Slot
<1>3. \A i \in 1..Size(f) : Slot(f, f.front_el + i - 2) \in V
  BY Within
<1> QED
  BY <1>1, <1>2, <1>3

----------------------------------------------------------------------------
(* borFifoPush.                                                            *)

\* A buffer in which the segments and the writer's offset were replaced.
LEMMA Fields ==
  ASSUME NEW V, NEW f \in Buffers(V), NEW s, NEW b
  PROVE  /\ [f EXCEPT !.segs = s, !.back_el = b] = [segs |-> s, front_el |-> f.front_el, back_el |-> b]
         /\ [f EXCEPT !.segs = s] = [segs |-> s, front_el |-> f.front_el, back_el |-> f.back_el]
<1> DEFINE g == [f EXCEPT !.segs = s]
<1>1. g = [segs |-> s, front_el |-> f.front_el, back_el |-> f.back_el]
  BY DEF Buffers
<1>2. [f EXCEPT !.segs = s, !.back_el = b] = [g EXCEPT !.back_el = b]
  BY Zenon
<1> HIDE DEF g
<1>3. [g EXCEPT !.back_el = b] = [segs |-> s, front_el |-> f.front_el, back_el |-> b]
  BY <1>1
<1> QED
  BY <1>1, <1>2, <1>3 DEF g

\* g is f with x behind the last element, which is place b of segment n.
Extends(g, f, x, n, b) ==
  /\ Len(g.segs) = n /\ g.segs[n][b] = x /\ g.back_el = b + 1 /\ ~IsEmpty(g)
  /\ ~IsEmpty(f) => /\ g.front_el = f.front_el /\ End(f) = (n - 1) * SegCap + (b - 1)
                    /\ \A q \in 1..Len(f.segs), s \in 1..SegCap :
                         ~(q = n /\ s = b) => g.segs[q][s] = f.segs[q][s]
  /\ IsEmpty(f) => n = 1 /\ b = 1 /\ g.front_el = 1

\* The fifo that borFifoPush writes to: with room in its last segment.
WithRoom(f) ==
  IF IsEmpty(f) THEN [segs |-> <<segmNew>>, front_el |-> 1, back_el |-> 1]
  ELSE IF f.back_el > SegCap THEN [f EXCEPT !.segs = Append(@, segmNew), !.back_el = 1]
  ELSE f

\* What borFifoPush returns is that fifo with x in the slot of the writer.
LEMMA PushWritten ==
  ASSUME NEW V, NEW f, NEW x, WithRoom(f) \in Buffers(V), NEW n, NEW b,
         n = Len(WithRoom(f).segs), b = WithRoom(f).back_el
  PROVE  Push(f, x) = [segs |-> [WithRoom(f).segs EXCEPT ![n] = [WithRoom(f).segs[n] EXCEPT ![b] = x]],
                       front_el |-> WithRoom(f).front_el, back_el |-> b + 1]
<1>1. PICK g : g = WithRoom(f)
  OBVIOUS
<1>2. Push(f, x) = [g EXCEPT !.segs[Len(g.segs)][g.back_el] = x, !.back_el = @ + 1]
  BY <1>1, Zenon DEF Push, WithRoom
<1>3. g \in Buffers(V) /\ n = Len(g.segs) /\ b = g.back_el
  BY <1>1
<1> DEFINE s == [g.segs EXCEPT ![n] = [g.segs[n] EXCEPT ![b] = x]]
<1>4. [g EXCEPT !.segs[Len(g.segs)][g.back_el] = x, !.back_el = @ + 1] = [g EXCEPT !.segs = s, !.back_el = b + 1]
  <2>1. [g EXCEPT !.segs[n][b] = x, !.back_el = @ + 1] = [g EXCEPT !.segs = s, !.back_el = g.back_el + 1]
    OBVIOUS
  <2>2. ASSUME NEW m, NEW c, m = n, c = b
        PROVE  [g EXCEPT !.segs[m][c] = x, !.back_el = @ + 1] = [g EXCEPT !.segs[n][b] = x, !.back_el = @ + 1]
    BY <2>2
  <2> QED
    BY <1>3, <2>1, <2>2
<1>5. Push(f, x) = [g EXCEPT !.segs = s, !.back_el = b + 1]
  BY <1>2, <1>4
<1>6. \A t : [g EXCEPT !.segs = t, !.back_el = b + 1] = [segs |-> t, front_el |-> g.front_el, back_el |-> b + 1]
  BY <1>3, Fields
<1> HIDE DEF s
<1>7. Push(f, x) = [segs |-> s, front_el |-> g.front_el, back_el |-> b + 1]
  BY <1>5, <1>6
<1> QED
  BY <1>1, <1>7, Zenon DEF s

\* Where borFifoPush writes, in each of its three cases.
LEMMA RoomShape ==
  ASSUME NEW V, Junk \in V, NEW f \in Buffers(V), WellFormed(f)
  PROVE  /\ WithRoom(f) \in Buffers(V)
         /\ \E n \in Nat \ {0}, b \in 1..SegCap :
              /\ n = Len(WithRoom(f).segs) /\ b = WithRoom(f).back_el
              /\ WithRoom(f).front_el \in 1..SegCap
              /\ n = 1 => WithRoom(f).front_el <= b
              /\ ~IsEmpty(f) => /\ WithRoom(f).front_el = f.front_el /\ End(f) = (n - 1) * SegCap + (b - 1)
                                /\ Len(f.segs) <= n
                                /\ \A q \in 1..Len(f.segs) : WithRoom(f).segs[q] = f.segs[q]
              /\ IsEmpty(f) => n = 1 /\ b = 1 /\ WithRoom(f).front_el = 1
<1>0. segmNew \in [1..SegCap -> V] /\ 1 \in 1..SegCap
  BY DEF segmNew
<1>1. CASE IsEmpty(f)
  <2>1. WithRoom(f) = [segs |-> <<segmNew>>, front_el |-> 1, back_el |-> 1]
    BY <1>1 DEF WithRoom
  <2>2. <<segmNew>> \in Seq([1..SegCap -> V]) /\ Len(<<segmNew>>) = 1
    BY <1>0
  <2> QED
    BY <1>0, <1>1, <2>1, <2>2 DEF Buffers
<1>2. CASE ~IsEmpty(f)
  <2>0. /\ f.segs \in Seq([1..SegCap -> V]) /\ Len(f.segs) \in Nat \ {0}
        /\ f.front_el \in 1..SegCap /\ f.back_el \in 2..(SegCap + 1)
        /\ Len(f.segs) = 1 => f.front_el < f.back_el
    BY <1>2, Shape
  <2>a. PICK n0 \in Nat \ {0} : n0 = Len(f.segs)
    BY <2>0
  <2>b. PICK b0 \in 2..(SegCap + 1), e0 \in 1..SegCap : b0 = f.back_el /\ e0 = f.front_el
    BY <2>0
  <2>1. CASE f.back_el > SegCap
    <3>1. WithRoom(f) = [segs |-> Append(f.segs, segmNew), front_el |-> f.front_el, back_el |-> 1]
      <4>1. WithRoom(f) = [f EXCEPT !.segs = Append(f.segs, segmNew), !.back_el = 1]
        BY <1>2, <2>1, Zenon DEF WithRoom
      <4> QED
        BY <4>1, Fields
    <3>2. /\ Append(f.segs, segmNew) \in Seq([1..SegCap -> V]) /\ Len(Append(f.segs, segmNew)) = n0 + 1
          /\ \A q \in 1..Len(f.segs) : Append(f.segs, segmNew)[q] = f.segs[q]
      BY <1>0, <2>0, <2>a
    <3>3. WithRoom(f) \in Buffers(V)
      BY <3>1, <3>2, <2>0 DEF Buffers
    <3>4. End(f) = ((n0 + 1) - 1) * SegCap + (1 - 1)
      <4>1. b0 = SegCap + 1
        BY <2>1, <2>b
      <4>2. PICK m \in Nat : n0 = m + 1
        <5>1. n0 - 1 \in Nat /\ n0 = (n0 - 1) + 1
          OBVIOUS
        <5> QED
          BY <5>1
      <4>3. (n0 + 1) - 1 = m + 1 /\ (m + 1) * SegCap = m * SegCap + SegCap /\ n0 - 1 = m /\ b0 - 1 = SegCap
        BY <4>1, <4>2
      <4>4. End(f) = m * SegCap + SegCap
        BY <2>a, <2>b, <4>3 DEF End
      <4>5. PICK z \in Nat : z = m * SegCap
        OBVIOUS
      <4>6. ((n0 + 1) - 1) * SegCap + (1 - 1) = z + SegCap
        BY <4>3, <4>5
      <4> QED
        BY <4>4, <4>5, <4>6
    <3>5. n0 + 1 \in Nat \ {0} /\ n0 + 1 # 1 /\ n0 <= n0 + 1
      OBVIOUS
    <3>6. /\ n0 + 1 = Len(WithRoom(f).segs) /\ 1 = WithRoom(f).back_el
          /\ WithRoom(f).front_el = f.front_el
          /\ \A q \in 1..Len(f.segs) : WithRoom(f).segs[q] = f.segs[q]
      BY <3>1, <3>2
    <3>7. f.front_el \in 1..SegCap /\ Len(f.segs) <= n0 + 1
      BY <2>0, <2>a, <3>5
    <3> QED
      BY <1>0, <1>2, <3>3, <3>4, <3>5, <3>6, <3>7, Zenon
  <2>2. CASE ~(f.back_el > SegCap)
    <3>1. WithRoom(f) = f
      BY <1>2, <2>2 DEF WithRoom
    <3>2. b0 \in 1..SegCap /\ (n0 = 1 => e0 <= b0)
      BY <2>0, <2>2, <2>a, <2>b
    <3>3. End(f) = (n0 - 1) * SegCap + (b0 - 1)
      BY <2>a, <2>b DEF End
    <3> QED
      <4>1. /\ n0 = Len(f.segs) /\ b0 = f.back_el /\ f.front_el \in 1..SegCap
            /\ n0 = 1 => f.front_el <= b0
            /\ End(f) = (n0 - 1) * SegCap + (b0 - 1) /\ Len(f.segs) <= n0
        BY <2>0, <2>a, <2>b, <3>2, <3>3
      <4> QED
        BY <1>2, <3>1, <3>2, <4>1, Zenon
  <2> QED
    BY <2>1, <2>2
<1> QED
  BY <1>1, <1>2

\* borFifoPush leaves a well-formed buffer that has x behind the last element.
LEMMA PushShape ==
  ASSUME NEW V, Junk \in V, NEW x \in V, NEW f \in Buffers(V), WellFormed(f)
  PROVE  /\ Push(f, x) \in Buffers(V) /\ WellFormed(Push(f, x))
         /\ \E n \in Nat \ {0}, b \in 1..SegCap : Extends(Push(f, x), f, x, n, b)
<1>1. PICK g \in Buffers(V) : g = WithRoom(f)
  BY RoomShape
<1>2. PICK n \in Nat \ {0}, b \in 1..SegCap :
              /\ n = Len(g.segs) /\ b = g.back_el
              /\ g.front_el \in 1..SegCap
              /\ n = 1 => g.front_el <= b
              /\ ~IsEmpty(f) => /\ g.front_el = f.front_el /\ End(f) = (n - 1) * SegCap + (b - 1)
                                /\ Len(f.segs) <= n
                                /\ \A q \in 1..Len(f.segs) : g.segs[q] = f.segs[q]
              /\ IsEmpty(f) => n = 1 /\ b = 1 /\ g.front_el = 1
  BY <1>1, RoomShape, ZenonT(30)
<1> DEFINE s == [g.segs EXCEPT ![n] = [g.segs[n] EXCEPT ![b] = x]]
           h == [segs |-> s, front_el |-> g.front_el, back_el |-> b + 1]
<1>3. Push(f, x) = h
  <2>1. WithRoom(f) \in Buffers(V) /\ n = Len(WithRoom(f).segs) /\ b = WithRoom(f).back_el
    BY <1>1, <1>2
  <2>2. Push(f, x) = [segs |-> [WithRoom(f).segs EXCEPT ![n] = [WithRoom(f).segs[n] EXCEPT ![b] = x]],
                      front_el |-> WithRoom(f).front_el, back_el |-> b + 1]
    BY <2>1, PushWritten
  <2> QED
    BY <1>1, <2>2, Zenon
<1>4. g.segs \in Seq([1..SegCap -> V]) /\ n \in 1..Len(g.segs)
  BY <1>2 DEF Buffers
<1>5. g.segs[n] \in [1..SegCap -> V]
  BY <1>4
<1>6. [g.segs[n] EXCEPT ![b] = x] \in [1..SegCap -> V]
  BY <1>5
<1>7. /\ s \in Seq([1..SegCap -> V]) /\ Len(s) = n /\ s[n] = [g.segs[n] EXCEPT ![b] = x]
      /\ \A q \in 1..n : q # n => s[q] = g.segs[q]
  BY <1>2, <1>4, <1>6
<1>8. s[n][b] = x /\ \A r \in 1..SegCap : r # b => s[n][r] = g.segs[n][r]
  BY <1>5, <1>7
<1>9. s # <<>>
  BY <1>7
<1> HIDE DEF s
<1>10. h \in Buffers(V) /\ WellFormed(h) /\ ~IsEmpty(h)
  <2>1. PICK e \in 1..SegCap : e = g.front_el
    BY <1>2
  <2>2. b + 1 \in 2..(SegCap + 1) /\ (n = 1 => e < b + 1) /\ e \in Nat /\ b + 1 \in Nat
    BY <1>2, <2>1
  <2> QED
    BY <1>7, <1>9, <2>1, <2>2 DEF Buffers, WellFormed, IsEmpty
<1>11. \A q \in 1..n, r \in 1..SegCap : ~(q = n /\ r = b) => s[q][r] = g.segs[q][r]
  BY <1>7, <1>8
<1>12. Extends(h, f, x, n, b)
  <2>1. ~IsEmpty(f) => \A q \in 1..Len(f.segs), r \in 1..SegCap : ~(q = n /\ r = b) => s[q][r] = f.segs[q][r]
    <3> SUFFICES ASSUME ~IsEmpty(f), NEW q \in 1..Len(f.segs), NEW r \in 1..SegCap, ~(q = n /\ r = b)
                 PROVE  s[q][r] = f.segs[q][r]
      OBVIOUS
    <3>1. Len(f.segs) \in Nat
      BY Shape
    <3>2. q \in 1..n
      BY <1>2, <3>1
    <3> QED
      BY <1>2, <1>11, <3>2, SMTT(30)
  <2> QED
    <3>1. Len(h.segs) = n /\ h.segs[n][b] = x /\ h.back_el = b + 1
      BY <1>7, <1>8
    <3>2. h.segs = s /\ h.front_el = g.front_el
      OBVIOUS
    <3> HIDE DEF h
    <3> QED
      BY <1>2, <1>10, <2>1, <3>1, <3>2 DEF Extends
<1> QED
  BY <1>3, <1>10, <1>12

\* borFifoPush appends to the contents.
LEMMA PushContents ==
  ASSUME NEW V, Junk \in V, NEW x \in V, NEW f \in Buffers(V), WellFormed(f)
  PROVE  /\ Push(f, x) \in Buffers(V) /\ WellFormed(Push(f, x)) /\ ~IsEmpty(Push(f, x))
         /\ Size(Push(f, x)) = Size(f) + 1
         /\ Contents(Push(f, x)) = Append(Contents(f), x)
<1>1. PICK h \in Buffers(V) : h = Push(f, x)
  BY PushShape
<1>2. WellFormed(h)
  BY <1>1, PushShape
<1>3. PICK n \in Nat \ {0}, b \in 1..SegCap : Extends(h, f, x, n, b)
  BY <1>1, PushShape
<1>4. ~IsEmpty(h) /\ Len(h.segs) = n /\ h.segs[n][b] = x /\ h.back_el = b + 1
  BY <1>3 DEF Extends
<1>5. PICK z \in Nat : z = (n - 1) * SegCap
  BY Offset
<1>6. /\ h.segs \in Seq([1..SegCap -> V]) /\ Len(h.segs) \in Nat \ {0}
      /\ h.front_el \in 1..SegCap /\ h.back_el \in 2..(SegCap + 1)
      /\ End(h) \in Nat /\ Size(h) = End(h) - (h.front_el - 1)
  BY <1>2, <1>4, Shape
<1>7. End(h) = z + b
  BY <1>4, <1>5 DEF End
<1>8. /\ Contents(h) \in Seq(V) /\ Len(Contents(h)) = Size(h)
      /\ \A i \in 1..Size(h) : Contents(h)[i] = Slot(h, h.front_el + i - 2)
  BY <1>2, ContentsSeq
<1>9. /\ Contents(f) \in Seq(V) /\ Len(Contents(f)) = Size(f) /\ Size(f) \in Nat
      /\ \A i \in 1..Size(f) : Contents(f)[i] = Slot(f, f.front_el + i - 2)
  BY ContentsSeq, SizeNat
<1>10. Slot(h, z + (b - 1)) = x
  <2>1. n - 1 \in Nat /\ b - 1 \in 0..(SegCap - 1) /\ (n - 1) + 1 = n /\ (b - 1) + 1 = b
    OBVIOUS
  <2>2. (z + (b - 1)) \div SegCap = n - 1 /\ (z + (b - 1)) % SegCap = b - 1
    BY <1>5, <2>1, Offset
  <2> QED
    BY <1>4, <2>1, <2>2 DEF Slot
<1>11. /\ Size(h) = Size(f) + 1
       /\ h.front_el + Size(h) - 2 = z + (b - 1)
       /\ \A i \in 1..Size(f) : Slot(h, h.front_el + i - 2) = Slot(f, f.front_el + i - 2)
  <2>1. CASE IsEmpty(f)
    <3>1. Size(f) = 0 /\ n = 1 /\ b = 1 /\ h.front_el = 1
      BY <1>3, <2>1, SizeNat DEF Extends
    <3>2. z = 0
      BY <1>5, <3>1
    <3> QED
      BY <1>6, <1>7, <3>1, <3>2
  <2>2. CASE ~IsEmpty(f)
    <3>1. /\ h.front_el = f.front_el /\ End(f) = z + (b - 1)
          /\ \A q \in 1..Len(f.segs), s \in 1..SegCap : ~(q = n /\ s = b) => h.segs[q][s] = f.segs[q][s]
      BY <1>3, <1>5, <2>2 DEF Extends
    <3>2. Size(f) = End(f) - (f.front_el - 1) /\ Len(f.segs) \in Nat
      BY <2>2, Shape
    <3>3. Size(h) = Size(f) + 1
      BY <1>6, <1>7, <3>1, <3>2
    <3>4. ASSUME NEW i \in 1..Size(f)
          PROVE  Slot(h, h.front_el + i - 2) = Slot(f, f.front_el + i - 2)
      <4>1. PICK k \in Nat : k = f.front_el + i - 2
        BY Within
      <4>2. k < End(f) /\ k \div SegCap \in 0..(Len(f.segs) - 1) /\ k % SegCap \in 0..(SegCap - 1)
        BY <4>1, Within
      <4>3. PICK q \in Nat, r \in 0..(SegCap - 1) : q = k \div SegCap /\ r = k % SegCap /\ k = q * SegCap + r
        BY Quotient
      <4>4. q + 1 \in 1..Len(f.segs) /\ r + 1 \in 1..SegCap
        BY <3>2, <4>2, <4>3
      <4>5. ~(q + 1 = n /\ r + 1 = b)
        <5>1. ASSUME q + 1 = n, r + 1 = b PROVE FALSE
          <6>1. q = n - 1 /\ r = b - 1
            BY <5>1
          <6>2. k = z + (b - 1)
            BY <1>5, <4>3, <6>1
          <6> QED
            BY <3>1, <4>2, <6>2
        <5> QED
          BY <5>1
      <4>6. h.segs[q + 1][r + 1] = f.segs[q + 1][r + 1]
        BY <3>1, <4>4, <4>5
      <4> QED
        BY <3>1, <4>1, <4>3, <4>6 DEF Slot
    <3> QED
      BY <1>6, <1>7, <3>1, <3>3, <3>4
  <2> QED
    BY <2>1, <2>2
<1>12. Contents(h) = Append(Contents(f), x)
  <2>1. Append(Contents(f), x) \in Seq(V) /\ Len(Append(Contents(f), x)) = Size(f) + 1
    BY <1>9
  <2>2. ASSUME NEW i \in 1..(Size(f) + 1) PROVE Contents(h)[i] = Append(Contents(f), x)[i]
    <3>1. CASE i \in 1..Size(f)
      <4>1. Append(Contents(f), x)[i] = Contents(f)[i]
        BY <1>9, <3>1
      <4> QED
        BY <1>8, <1>9, <1>11, <3>1, <4>1
    <3>2. CASE i = Size(f) + 1
      <4>1. Append(Contents(f), x)[i] = x
        BY <1>9, <3>2
      <4>2. Contents(h)[i] = Slot(h, h.front_el + i - 2)
        BY <1>8, <1>11
      <4> QED
        BY <1>10, <1>11, <3>2, <4>1, <4>2
    <3> QED
      BY <1>9, <3>1, <3>2
  <2>3. Len(Contents(h)) = Size(f) + 1
    BY <1>8, <1>11
  <2> QED
    BY <1>8, <2>1, <2>2, <2>3
<1> QED
  BY <1>1, <1>2, <1>4, <1>11, <1>12

----------------------------------------------------------------------------
(* borFifoPop.                                                             *)

\* h is f without its first element, and without d slots in front of it.
Shortens(h, f, d) ==
  /\ h.front_el + d = f.front_el + 1 /\ End(h) + d = End(f)
  /\ \A i \in 1..Size(h) : Slot(h, h.front_el + i - 2) = Slot(f, h.front_el + i - 2 + d)

\* The three ways in which borFifoPop ends.
LEMMA PopCases ==
  ASSUME NEW V, NEW f \in Buffers(V), WellFormed(f), ~IsEmpty(f)
  PROVE  \/ /\ f.front_el < SegCap /\ (Len(f.segs) = 1 => f.front_el + 1 < f.back_el)
            /\ Pop(f) = [segs |-> f.segs, front_el |-> f.front_el + 1, back_el |-> f.back_el]
         \/ Len(f.segs) = 1 /\ f.back_el = f.front_el + 1 /\ Pop(f) = EmptyFifo
         \/ /\ Len(f.segs) # 1 /\ f.front_el = SegCap
            /\ Pop(f) = [segs |-> Tail(f.segs), front_el |-> 1, back_el |-> f.back_el]
<1> DEFINE g == [f EXCEPT !.front_el = @ + 1]
<1>1. g = [segs |-> f.segs, front_el |-> f.front_el + 1, back_el |-> f.back_el]
  BY DEF Buffers
<1>2. Pop(f) = IF g.front_el <= SegCap /\ (Len(f.segs) > 1 \/ g.front_el < g.back_el) THEN g
               ELSE IF Len(f.segs) = 1 THEN EmptyFifo
               ELSE [g EXCEPT !.segs = Tail(@), !.front_el = 1]
  BY Zenon DEF Pop
<1>3. [g EXCEPT !.segs = Tail(@), !.front_el = 1] = [segs |-> Tail(f.segs), front_el |-> 1, back_el |-> f.back_el]
  <2>1. g.segs = f.segs
    BY <1>1
  <2> HIDE DEF g
  <2>2. PICK t : t = Tail(f.segs)
    OBVIOUS
  <2> DEFINE h == [g EXCEPT !.segs = t]
  <2>3. h = [segs |-> t, front_el |-> f.front_el + 1, back_el |-> f.back_el]
    BY <1>1
  <2>4. [g EXCEPT !.segs = Tail(@), !.front_el = 1] = [h EXCEPT !.front_el = 1]
    BY <2>1, <2>2, Zenon
  <2> HIDE DEF h
  <2>5. [h EXCEPT !.front_el = 1] = [segs |-> t, front_el |-> 1, back_el |-> f.back_el]
    BY <2>3
  <2> QED
    BY <2>2, <2>4, <2>5
<1>4. g.front_el = f.front_el + 1 /\ g.back_el = f.back_el
  BY <1>1
<1> HIDE DEF g
<1>5. /\ Len(f.segs) \in Nat \ {0} /\ f.front_el \in 1..SegCap /\ f.back_el \in 2..(SegCap + 1)
      /\ Len(f.segs) = 1 => f.front_el < f.back_el
  BY Shape
<1>6. PICK n \in Nat \ {0}, e \in 1..SegCap, b \in 2..(SegCap + 1) :
        n = Len(f.segs) /\ e = f.front_el /\ b = f.back_el
  BY <1>5
<1>7. CASE e + 1 <= SegCap /\ (n > 1 \/ e + 1 < b)
  <2>1. Pop(f) = g
    BY <1>2, <1>4, <1>6, <1>7, Zenon
  <2>2. e < SegCap /\ (n = 1 => e + 1 < b)
    BY <1>7
  <2> QED
    BY <1>1, <1>6, <2>1, <2>2
<1>8. CASE ~(e + 1 <= SegCap /\ (n > 1 \/ e + 1 < b)) /\ n = 1
  <2>1. Pop(f) = EmptyFifo
    BY <1>2, <1>4, <1>6, <1>8, Zenon
  <2>2. b = e + 1
    BY <1>5, <1>6, <1>8
  <2> QED
    BY <1>6, <1>8, <2>1, <2>2
<1>9. CASE ~(e + 1 <= SegCap /\ (n > 1 \/ e + 1 < b)) /\ n # 1
  <2>1. Pop(f) = [g EXCEPT !.segs = Tail(@), !.front_el = 1]
    BY <1>2, <1>4, <1>6, <1>9, Zenon
  <2>2. e = SegCap
    BY <1>9
  <2> QED
    BY <1>3, <1>6, <1>9, <2>1, <2>2
<1> QED
  BY <1>7, <1>8, <1>9

\* After borFifoPop the buffer is well-formed: empty, or without its first element.
LEMMA PopShape ==
  ASSUME NEW V, NEW f \in Buffers(V), WellFormed(f), ~IsEmpty(f)
  PROVE  /\ Pop(f) \in Buffers(V) /\ WellFormed(Pop(f))
         /\ \/ IsEmpty(Pop(f)) /\ Size(f) = 1
            \/ ~IsEmpty(Pop(f)) /\ \E d \in {0, SegCap} : Shortens(Pop(f), f, d)
<1>1. /\ f.segs \in Seq([1..SegCap -> V]) /\ Len(f.segs) \in Nat \ {0}
      /\ f.front_el \in 1..SegCap /\ f.back_el \in 2..(SegCap + 1)
      /\ Len(f.segs) = 1 => f.front_el < f.back_el
      /\ End(f) \in Nat /\ Size(f) = End(f) - (f.front_el - 1) /\ Size(f) \in Nat \ {0}
  BY Shape
<1>2. CASE /\ f.front_el < SegCap /\ (Len(f.segs) = 1 => f.front_el + 1 < f.back_el)
           /\ Pop(f) = [segs |-> f.segs, front_el |-> f.front_el + 1, back_el |-> f.back_el]
  <2>1. PICK h : h = [segs |-> f.segs, front_el |-> f.front_el + 1, back_el |-> f.back_el]
    OBVIOUS
  <2>2. h.segs = f.segs /\ h.front_el = f.front_el + 1 /\ h.back_el = f.back_el
    BY <2>1
  <2>3. f.front_el + 1 \in 1..SegCap /\ f.front_el + 1 \in Nat
    BY <1>1, <1>2
  <2>4. f.segs # <<>>
    BY <1>1
  <2>5. h \in Buffers(V) /\ WellFormed(h) /\ ~IsEmpty(h)
    BY <1>1, <1>2, <2>1, <2>3, <2>4 DEF Buffers, WellFormed, IsEmpty
  <2>6. End(h) = End(f)
    BY <2>2 DEF End
  <2>7. ASSUME NEW i \in 1..Size(h)
        PROVE  Slot(h, h.front_el + i - 2) = Slot(f, h.front_el + i - 2 + 0)
    <3>1. PICK k \in Nat : k = h.front_el + i - 2
      BY <2>5, Within
    <3>2. Slot(h, k) = Slot(f, k) /\ k + 0 = k
      BY <2>2 DEF Slot
    <3> QED
      BY <3>1, <3>2
  <2>8. Shortens(h, f, 0)
    BY <1>1, <2>2, <2>6, <2>7 DEF Shortens
  <2> QED
    BY <1>2, <2>1, <2>5, <2>8
<1>3. CASE Len(f.segs) = 1 /\ f.back_el = f.front_el + 1 /\ Pop(f) = EmptyFifo
  <2>1. Size(f) = 1
    <3>1. (Len(f.segs) - 1) * SegCap = 0
      BY <1>3
    <3>2. PICK e \in 1..SegCap : e = f.front_el
      BY <1>1
    <3>3. Size(f) = 0 + (e + 1) - e
      BY <1>3, <3>1, <3>2 DEF Size
    <3> QED
      BY <3>3
  <2>2. EmptyFifo \in Buffers(V) /\ WellFormed(EmptyFifo) /\ IsEmpty(EmptyFifo)
    BY DEF EmptyFifo, Buffers, WellFormed, IsEmpty
  <2> QED
    BY <1>3, <2>1, <2>2
<1>4. CASE /\ Len(f.segs) # 1 /\ f.front_el = SegCap
           /\ Pop(f) = [segs |-> Tail(f.segs), front_el |-> 1, back_el |-> f.back_el]
  <2>1. PICK h : h = [segs |-> Tail(f.segs), front_el |-> 1, back_el |-> f.back_el]
    OBVIOUS
  <2>2. h.segs = Tail(f.segs) /\ h.front_el = 1 /\ h.back_el = f.back_el
    BY <2>1
  <2>3. /\ Tail(f.segs) \in Seq([1..SegCap -> V]) /\ Len(Tail(f.segs)) = Len(f.segs) - 1
        /\ \A q \in 1..(Len(f.segs) - 1) : Tail(f.segs)[q] = f.segs[q + 1]
    BY <1>1
  <2>4. PICK m \in Nat \ {0} : Len(f.segs) = m + 1
    <3>1. Len(f.segs) - 1 \in Nat \ {0} /\ Len(f.segs) = (Len(f.segs) - 1) + 1
      BY <1>1, <1>4
    <3> QED
      BY <3>1
  <2>5. Len(h.segs) = m /\ h.segs # <<>>
    <3>1. Len(Tail(f.segs)) = m
      BY <2>3, <2>4
    <3>2. Tail(f.segs) # <<>>
      BY <3>1
    <3> QED
      BY <2>2, <3>1, <3>2
  <2>6. h \in Buffers(V) /\ WellFormed(h) /\ ~IsEmpty(h)
    <3>1. 1 < f.back_el /\ 1 \in 1..SegCap /\ f.back_el \in Nat
      BY <1>1
    <3> QED
      BY <1>1, <2>1, <2>2, <2>3, <2>5, <3>1 DEF Buffers, WellFormed, IsEmpty
  <2>7. End(h) + SegCap = End(f)
    <3>1. PICK l \in Nat : m = l + 1
      <4>1. m - 1 \in Nat /\ m = (m - 1) + 1
        OBVIOUS
      <4> QED
        BY <4>1
    <3>2. m * SegCap = l * SegCap + SegCap
      BY <3>1
    <3>3. PICK y \in Nat, z \in Nat : y = m * SegCap /\ z = l * SegCap
      OBVIOUS
    <3>4. PICK b \in 2..(SegCap + 1) : b = f.back_el
      BY <1>1
    <3>5. End(f) = y + (b - 1)
      BY <2>4, <3>3, <3>4 DEF End
    <3>6. End(h) = z + (b - 1)
      <4>1. Len(h.segs) - 1 = l
        BY <2>5, <3>1
      <4> QED
        BY <2>2, <3>3, <3>4, <4>1 DEF End
    <3> QED
      BY <3>2, <3>3, <3>5, <3>6
  <2>8. ASSUME NEW i \in 1..Size(h)
        PROVE  Slot(h, h.front_el + i - 2) = Slot(f, h.front_el + i - 2 + SegCap)
    <3>1. PICK k \in Nat : k = h.front_el + i - 2
      BY <2>6, Within
    <3>2. k \div SegCap \in 0..(m - 1)
      BY <2>5, <2>6, <3>1, Within
    <3>3. PICK q \in Nat, r \in 0..(SegCap - 1) : q = k \div SegCap /\ r = k % SegCap /\ k = q * SegCap + r
      BY Quotient
    <3>4. q + 1 \in Nat /\ (q + 1) * SegCap = q * SegCap + SegCap /\ q * SegCap \in Nat
      OBVIOUS
    <3>5. k + SegCap = (q + 1) * SegCap + r
      BY <3>3, <3>4
    <3>6. (k + SegCap) \div SegCap = q + 1 /\ (k + SegCap) % SegCap = r
      BY <3>4, <3>5, Offset
    <3>7. q + 1 \in 1..(Len(f.segs) - 1)
      BY <2>4, <3>2, <3>3
    <3>8. h.segs[q + 1] = f.segs[(q + 1) + 1]
      BY <2>2, <2>3, <3>7
    <3> QED
      BY <3>1, <3>3, <3>6, <3>8 DEF Slot
  <2>9. Shortens(h, f, SegCap)
    BY <1>1, <1>4, <2>2, <2>7, <2>8 DEF Shortens
  <2> QED
    BY <1>4, <2>1, <2>6, <2>9
<1> QED
  BY <1>2, <1>3, <1>4, PopCases

\* borFifoFront is the first of the contents and borFifoPop removes it.
LEMMA PopContents ==
  ASSUME NEW V, NEW f \in Buffers(V), WellFormed(f), ~IsEmpty(f)
  PROVE  /\ Pop(f) \in Buffers(V) /\ WellFormed(Pop(f)) /\ Size(Pop(f)) = Size(f) - 1
         /\ Contents(f) # <<>> /\ Front(f) = Head(Contents(f)) /\ Front(f) \in V
         /\ Contents(Pop(f)) = Tail(Contents(f))
<1>1. /\ f.segs \in Seq([1..SegCap -> V]) /\ Len(f.segs) \in Nat \ {0}
      /\ f.front_el \in 1..SegCap
      /\ End(f) \in Nat /\ Size(f) = End(f) - (f.front_el - 1) /\ Size(f) \in Nat \ {0}
  BY Shape
<1>2. /\ Contents(f) \in Seq(V) /\ Len(Contents(f)) = Size(f)
      /\ \A i \in 1..Size(f) : Contents(f)[i] = Slot(f, f.front_el + i - 2)
  BY ContentsSeq
<1>3. Contents(f) # <<>> /\ Head(Contents(f)) = Contents(f)[1]
  BY <1>1, <1>2
<1>4. Front(f) = Contents(f)[1] /\ Contents(f)[1] \in V
  <2>1. PICK e \in 1..SegCap : e = f.front_el
    BY <1>1
  <2>2. e - 1 \in 0..(SegCap - 1) /\ 0 * SegCap + (e - 1) = e + 1 - 2 /\ (e - 1) + 1 = e
    OBVIOUS
  <2>3. (0 * SegCap + (e - 1)) \div SegCap = 0 /\ (0 * SegCap + (e - 1)) % SegCap = e - 1
    BY <2>2, Offset
  <2>4. Slot(f, e + 1 - 2) = f.segs[1][e]
    BY <2>2, <2>3 DEF Slot
  <2>5. Contents(f)[1] = Slot(f, e + 1 - 2)
    BY <1>1, <1>2, <2>1
  <2> QED
    BY <1>1, <1>2, <2>1, <2>4, <2>5, SMTT(30) DEF Front
<1>5. PICK h \in Buffers(V) : h = Pop(f) /\ WellFormed(h)
  BY PopShape
<1>6. /\ Contents(h) \in Seq(V) /\ Len(Contents(h)) = Size(h) /\ Size(h) \in Nat
      /\ \A i \in 1..Size(h) : Contents(h)[i] = Slot(h, h.front_el + i - 2)
  BY <1>5, ContentsSeq, SizeNat
<1>7. /\ Tail(Contents(f)) \in Seq(V) /\ Len(Tail(Contents(f))) = Size(f) - 1
      /\ \A i \in 1..(Size(f) - 1) : Tail(Contents(f))[i] = Contents(f)[i + 1]
  BY <1>1, <1>2, <1>3
<1>8. CASE IsEmpty(h) /\ Size(f) = 1
  <2>1. Size(h) = 0 /\ Contents(h) = <<>>
    BY <1>5, <1>8, SizeNat
  <2>2. Len(Tail(Contents(f))) = 0
    BY <1>7, <1>8
  <2>3. Tail(Contents(f)) = <<>>
    <3>1. PICK t : t = Tail(Contents(f))
      OBVIOUS
    <3>2. t \in Seq(V) /\ Len(t) = 0
      BY <1>7, <2>2, <3>1
    <3>3. t = <<>>
      BY ONLY <3>2
    <3> QED
      BY <3>1, <3>3
  <2> QED
    BY <1>3, <1>4, <1>5, <1>8, <2>1, <2>3
<1>9. CASE ~IsEmpty(h) /\ \E d \in {0, SegCap} : Shortens(h, f, d)
  <2>1. PICK d \in {0, SegCap} : Shortens(h, f, d)
    BY <1>9
  <2>2. /\ h.front_el + d = f.front_el + 1 /\ End(h) + d = End(f) /\ d \in Nat
        /\ \A i \in 1..Size(h) : Slot(h, h.front_el + i - 2) = Slot(f, h.front_el + i - 2 + d)
    BY <2>1 DEF Shortens
  <2>3. h.front_el \in 1..SegCap /\ End(h) \in Nat /\ Size(h) = End(h) - (h.front_el - 1)
    BY <1>5, <1>9, Shape
  <2>a. PICK u \in Nat, v \in Nat, y \in Nat, z \in Nat :
          u = h.front_el /\ v = f.front_el /\ y = End(h) /\ z = End(f)
    BY <1>1, <2>3
  <2>b. u + d = v + 1 /\ y + d = z
    BY <2>2, <2>a
  <2>4. Size(h) = Size(f) - 1
    <3>1. Size(h) = y - (u - 1) /\ Size(f) = z - (v - 1)
      BY <1>1, <2>3, <2>a
    <3>2. y - (u - 1) = z - (v - 1) - 1
      BY <2>2, <2>b
    <3> QED
      BY <3>1, <3>2
  <2>5. ASSUME NEW i \in 1..Size(h) PROVE Contents(h)[i] = Tail(Contents(f))[i]
    <3>1. i + 1 \in 1..Size(f) /\ i \in 1..(Size(f) - 1)
      BY <1>1, <2>4
    <3>2. h.front_el + i - 2 + d = f.front_el + (i + 1) - 2
      BY <2>2, <2>a, <2>b
    <3>3. Contents(f)[i + 1] = Slot(f, f.front_el + (i + 1) - 2)
      BY <1>2, <3>1
    <3> QED
      BY <1>6, <1>7, <2>2, <3>1, <3>2, <3>3
  <2>6. Contents(h) = Tail(Contents(f))
    BY <1>6, <1>7, <2>4, <2>5
  <2> QED
    BY <1>3, <1>4, <1>5, <2>4, <2>6
<1> QED
  BY <1>5, <1>8, <1>9, PopShape

USE SizeAssumption, NameAssumption DEF SizeAssumption, NameAssumption

----------------------------------------------------------------------------
(* Where the threads stand.                                                *)

ProducerPlaces == {"idle", "reserve", "append", "post", "stray"}
ConsumerPlaces == {"idle", "wait", "timed", "pick", "room", "stray"}
Places == ProducerPlaces \cup ConsumerPlaces

\* The values that a slot of the buffer may hold.
Values == Elements \cup {Junk}

\* What every variable is; a thread that pushes carries an element.
BufferOK == fifo \in Buffers(Values) /\ WellFormed(fifo) /\ Contents(fifo) \in Seq(Elements)
SemsOK == full \in Nat /\ empty \in 0..QueueSize /\ interrupts \in 0..MaxInterrupts
ThreadsOK ==
  /\ pc \in [Procs -> Places]
  /\ \A p \in Producers : pc[p] \in ProducerPlaces
  /\ \A c \in Consumers : pc[c] \in ConsumerPlaces
  /\ item \in [Producers -> Elements \cup {None}]
  /\ \A p \in Producers : pc[p] \in {"reserve", "append", "post"} => item[p] \in Elements
Typed == BufferOK /\ SemsOK /\ ThreadsOK

\* How many of the threads stand at place k when f says where each stands.
Count(f, k) == Cardinality({q \in Procs : f[q] = k})

\* Those that have a unit of full for an element of the buffer, or owe one, and
\* those that have a unit of empty for a place that holds no element.
NAnnounced == Count(pc, "pick") + Count(pc, "post")
NOccupying == Count(pc, "append") + Count(pc, "room")

\* The two equations of SemaphoresMatchBuffer, as long as every wait has taken
\* a unit; and what is left of the second one afterwards: each interrupted
\* push puts at most one element more into the buffer.
Synchronised ==
  /\ interrupts = 0 => /\ \A p \in Procs : pc[p] # "stray"
                       /\ full + NAnnounced = Size(fifo)
                       /\ empty + Size(fifo) + NOccupying = QueueSize
  /\ empty + Size(fifo) + NOccupying <= QueueSize + interrupts

Inv == Typed /\ Synchronised

\* Counts are numbers.
LEMMA CountNat == ASSUME NEW f, NEW k PROVE Count(f, k) \in Nat
BY FS_Subset, FS_CardinalityType DEF Count

\* One thread goes from one place to another.
LEMMA CountMove ==
  ASSUME NEW f \in [Procs -> Places], NEW p \in Procs, NEW l, f[p] # l,
         NEW g, g[p] = l, \A q \in Procs \ {p} : g[q] = f[q], NEW k
  PROVE  /\ k = l => Count(g, k) = Count(f, k) + 1
         /\ k = f[p] => Count(g, k) = Count(f, k) - 1
         /\ k \notin {l, f[p]} => Count(g, k) = Count(f, k)
<1> DEFINE A == {q \in Procs : f[q] = k}
           B == {q \in Procs : g[q] = k}
<1>1. IsFiniteSet(A) /\ Count(f, k) = Cardinality(A) /\ Count(g, k) = Cardinality(B)
  BY FS_Subset DEF Count
<1>2. CASE k = l
  <2>1. B = A \cup {p} /\ p \notin A
    BY <1>2
  <2>2. Cardinality(A \cup {p}) = Cardinality(A) + 1
    BY <1>1, <2>1, FS_AddElement
  <2> HIDE DEF A, B
  <2> QED
    BY <1>1, <1>2, <2>1, <2>2
<1>3. CASE k = f[p]
  <2>1. B = A \ {p} /\ p \in A
    BY <1>3
  <2>2. Cardinality(A \ {p}) = Cardinality(A) - 1
    BY <1>1, <2>1, FS_RemoveElement
  <2> HIDE DEF A, B
  <2> QED
    BY <1>1, <1>3, <2>1, <2>2
<1>4. CASE k \notin {l, f[p]}
  <2>1. B = A
    BY <1>4
  <2> HIDE DEF A, B
  <2> QED
    BY <1>1, <1>4, <2>1
<1> QED
  BY <1>2, <1>3, <1>4

\* A thread that stands at k is counted there.
LEMMA CountPositive == ASSUME NEW f, NEW p \in Procs PROVE Count(f, f[p]) >= 1
<1> DEFINE A == {q \in Procs : f[q] = f[p]}
<1>1. IsFiniteSet(A) /\ p \in A
  BY FS_Subset
<1>2. Cardinality(A) # 0 /\ Cardinality(A) \in Nat
  BY <1>1, FS_EmptySet, FS_CardinalityType
<1> QED
  BY <1>2 DEF Count

Announced(k) == IF k \in {"pick", "post"} THEN 1 ELSE 0
Occupying(k) == IF k \in {"append", "room"} THEN 1 ELSE 0

\* The two groups follow the move of a thread.
LEMMA GroupsMove ==
  ASSUME pc \in [Procs -> Places], NEW p \in Procs, NEW l, pc[p] # l, pc' = [pc EXCEPT ![p] = l]
  PROVE  /\ NAnnounced \in Nat /\ NAnnounced' \in Nat /\ NOccupying \in Nat /\ NOccupying' \in Nat
         /\ NAnnounced' + Announced(pc[p]) = NAnnounced + Announced(l)
         /\ NOccupying' + Occupying(pc[p]) = NOccupying + Occupying(l)
         /\ NAnnounced >= Announced(pc[p]) /\ NOccupying >= Occupying(pc[p])
<1> DEFINE n(k) == Count(pc, k)
           m(k) == Count(pc', k)
<1>1. \A k : n(k) \in Nat /\ m(k) \in Nat
  BY CountNat
<1>2. \A k : /\ k = l => m(k) = n(k) + 1
             /\ k = pc[p] => m(k) = n(k) - 1
             /\ k \notin {l, pc[p]} => m(k) = n(k)
  <2> SUFFICES ASSUME NEW k
               PROVE  /\ k = l => m(k) = n(k) + 1
                      /\ k = pc[p] => m(k) = n(k) - 1
                      /\ k \notin {l, pc[p]} => m(k) = n(k)
    OBVIOUS
  <2>1. pc'[p] = l /\ \A q \in Procs \ {p} : pc'[q] = pc[q]
    OBVIOUS
  <2>2. /\ k = l => Count(pc', k) = Count(pc, k) + 1
        /\ k = pc[p] => Count(pc', k) = Count(pc, k) - 1
        /\ k \notin {l, pc[p]} => Count(pc', k) = Count(pc, k)
    <3>1. ASSUME NEW f \in [Procs -> Places], f[p] # l, NEW g, g[p] = l, \A q \in Procs \ {p} : g[q] = f[q]
          PROVE  /\ k = l => Count(g, k) = Count(f, k) + 1
                 /\ k = f[p] => Count(g, k) = Count(f, k) - 1
                 /\ k \notin {l, f[p]} => Count(g, k) = Count(f, k)
      BY ONLY <3>1, p \in Procs, CountMove
    <3> QED
      BY ONLY <2>1, <3>1, pc \in [Procs -> Places], pc[p] # l
  <2> QED
    BY <2>2
<1>3. n(pc[p]) >= 1
  BY CountPositive
<1>4. /\ NAnnounced = n("pick") + n("post") /\ NAnnounced' = m("pick") + m("post")
      /\ NOccupying = n("append") + n("room") /\ NOccupying' = m("append") + m("room")
  BY DEF NAnnounced, NOccupying, Count
<1> HIDE DEF n, m
<1>5. ASSUME NEW a, NEW b, a # b
      PROVE  /\ n(a) + n(b) \in Nat /\ m(a) + m(b) \in Nat
             /\ m(a) + m(b) + (IF pc[p] \in {a, b} THEN 1 ELSE 0) = n(a) + n(b) + (IF l \in {a, b} THEN 1 ELSE 0)
             /\ n(a) + n(b) >= IF pc[p] \in {a, b} THEN 1 ELSE 0
  <2>1. PICK na \in Nat, nb \in Nat, ma \in Nat, mb \in Nat : na = n(a) /\ nb = n(b) /\ ma = m(a) /\ mb = m(b)
    BY <1>1
  <2>2. /\ a = l => ma = na + 1
        /\ a = pc[p] => ma = na - 1 /\ na >= 1
        /\ a \notin {l, pc[p]} => ma = na
    BY <1>2, <1>3, <2>1
  <2>3. /\ b = l => mb = nb + 1
        /\ b = pc[p] => mb = nb - 1 /\ nb >= 1
        /\ b \notin {l, pc[p]} => mb = nb
    BY <1>2, <1>3, <2>1
  <2> QED
    BY <1>5, <2>1, <2>2, <2>3
<1>6. "pick" # "post" /\ "append" # "room"
  OBVIOUS
<1> QED
  BY <1>4, <1>5, <1>6 DEF Announced, Occupying

----------------------------------------------------------------------------
(* The steps of FifoSem.                                                   *)

\* borFifoSemInitSize.
LEMMA InitInv == Init => Inv
<1> SUFFICES ASSUME Init PROVE Inv
  OBVIOUS
<1>1. BufferOK /\ Size(fifo) = 0
  <2>1. fifo = EmptyFifo
    BY DEF Init
  <2>2. EmptyFifo \in Buffers(Values) /\ WellFormed(EmptyFifo) /\ IsEmpty(EmptyFifo)
    BY DEF EmptyFifo, Buffers, WellFormed, IsEmpty
  <2>3. Size(EmptyFifo) = 0 /\ Contents(EmptyFifo) = <<>>
    BY <2>2, SizeNat
  <2> QED
    BY <2>1, <2>2, <2>3 DEF BufferOK
<1>2. SemsOK
  BY DEF Init, SemsOK
<1>3. ThreadsOK
  BY DEF Init, ThreadsOK, Procs, Places, ProducerPlaces, ConsumerPlaces
<1>4. \A k : k # "idle" => Count(pc, k) = 0
  <2> SUFFICES ASSUME NEW k, k # "idle" PROVE Count(pc, k) = 0
    OBVIOUS
  <2>1. {q \in Procs : pc[q] = k} = {}
    BY DEF Init
  <2> QED
    BY <2>1, FS_EmptySet DEF Count
<1>5. NAnnounced = 0 /\ NOccupying = 0
  BY <1>4 DEF NAnnounced, NOccupying
<1>6. Synchronised
  <2>1. full = 0 /\ empty = QueueSize /\ interrupts = 0 /\ \A p \in Procs : pc[p] # "stray"
    BY DEF Init
  <2> QED
    BY <1>1, <1>5, <2>1 DEF Synchronised
<1> QED
  BY <1>1, <1>2, <1>3, <1>6 DEF Inv, Typed

\* A thread goes from one place to another, with the item of a push.
LEMMA MoveThreads ==
  ASSUME ThreadsOK, NEW p \in Procs, NEW l, pc' = [pc EXCEPT ![p] = l],
         p \in Producers => l \in ProducerPlaces, p \in Consumers => l \in ConsumerPlaces,
         item' = item, p \in Producers /\ l \in {"reserve", "append", "post"} => item[p] \in Elements
  PROVE  ThreadsOK'
<1>1. l \in Places /\ pc' \in [Procs -> Places]
  BY DEF ThreadsOK, Places, Procs
<1>2. \A q \in Procs : pc'[q] = IF q = p THEN l ELSE pc[q]
  BY DEF ThreadsOK
<1>3. \A q \in Producers : pc'[q] \in ProducerPlaces
  BY <1>2 DEF ThreadsOK, Procs
<1>4. \A q \in Consumers : pc'[q] \in ConsumerPlaces
  BY <1>2 DEF ThreadsOK, Procs
<1>5. \A q \in Producers : pc'[q] \in {"reserve", "append", "post"} => item'[q] \in Elements
  BY <1>2 DEF ThreadsOK, Procs
<1> QED
  BY <1>1, <1>3, <1>4, <1>5 DEF ThreadsOK

\* What the semaphores say and what there is change by the same numbers.
LEMMA MoveSync ==
  ASSUME Typed, Synchronised, NEW p \in Procs, NEW l, pc[p] # l, l # "stray", pc' = [pc EXCEPT ![p] = l],
         full' \in Nat, empty' \in Nat, Size(fifo') \in Nat, interrupts' = interrupts,
         full' + Announced(l) + Size(fifo) = full + Announced(pc[p]) + Size(fifo'),
         empty' + Size(fifo') + Occupying(l) = empty + Size(fifo) + Occupying(pc[p])
  PROVE  Synchronised'
<1>1. /\ NAnnounced \in Nat /\ NAnnounced' \in Nat /\ NOccupying \in Nat /\ NOccupying' \in Nat
      /\ NAnnounced' + Announced(pc[p]) = NAnnounced + Announced(l)
      /\ NOccupying' + Occupying(pc[p]) = NOccupying + Occupying(l)
  BY GroupsMove DEF Typed, ThreadsOK
<1>2. PICK a \in Nat, a1 \in Nat, o \in Nat, o1 \in Nat :
        a = NAnnounced /\ a1 = NAnnounced' /\ o = NOccupying /\ o1 = NOccupying'
  BY <1>1
<1>3. PICK s \in Nat, s1 \in Nat, f \in Nat, f1 \in Nat, e \in Nat, e1 \in Nat, i \in Nat :
        s = Size(fifo) /\ s1 = Size(fifo') /\ f = full /\ f1 = full' /\ e = empty /\ e1 = empty' /\ i = interrupts
  BY SizeNat DEF Typed, BufferOK, SemsOK
<1>4. PICK x \in 0..1, x1 \in 0..1, y \in 0..1, y1 \in 0..1 :
        x = Announced(pc[p]) /\ x1 = Announced(l) /\ y = Occupying(pc[p]) /\ y1 = Occupying(l)
  BY DEF Announced, Occupying
<1>5. /\ f1 + x1 + s = f + x + s1 /\ e1 + s1 + y1 = e + s + y
      /\ a1 + x = a + x1 /\ o1 + y = o + y1
  BY <1>1, <1>2, <1>3, <1>4
<1>6. /\ i = 0 => f + a = s /\ e + s + o = QueueSize
      /\ e + s + o <= QueueSize + i
  BY <1>2, <1>3 DEF Synchronised
<1>7. /\ i = 0 => f1 + a1 = s1 /\ e1 + s1 + o1 = QueueSize
      /\ e1 + s1 + o1 <= QueueSize + i
  BY <1>5, <1>6
<1>8. Size(fifo)' = s1 /\ interrupts' = i
  BY <1>3
<1>9. i = 0 => \A q \in Procs : pc'[q] # "stray"
  BY <1>3 DEF Synchronised, Typed, ThreadsOK
<1> QED
  BY <1>2, <1>3, <1>7, <1>8, <1>9 DEF Synchronised

\* The steps that leave the buffer, and with it the promised queue, alone.
BufferStays == BufferOK' /\ Size(fifo') = Size(fifo) /\ Size(fifo') \in Nat /\ UNCHANGED Line!vars

\* A step that leaves the buffer and the deliveries alone leaves the promised queue alone.
LEMMA Stays == ASSUME BufferOK, fifo' = fifo, delivered' = delivered PROVE BufferStays
<1>1. Size(fifo) \in Nat
  BY SizeNat DEF BufferOK
<1> QED
  BY <1>1 DEF BufferStays, BufferOK, Line!vars

\* A producer calls borFifoSemPush.
LEMMA PushCallStep ==
  ASSUME Inv, NEW p \in Producers, NEW x \in Elements, PushCall(p, x)
  PROVE  Inv' /\ UNCHANGED Line!vars
<1> USE DEF PushCall, Goto, sems
<1>0. Typed /\ Synchronised /\ BufferOK /\ SemsOK /\ ThreadsOK /\ p \in Procs
  BY DEF Inv, Typed, Procs
<1>1. BufferStays
  BY <1>0, Stays
<1>2. SemsOK'
  BY <1>0 DEF SemsOK
<1>3. ThreadsOK'
  <2>1. \A q \in Procs : pc'[q] = IF q = p THEN "reserve" ELSE pc[q]
    BY <1>0 DEF ThreadsOK
  <2>2. item' \in [Producers -> Elements \cup {None}] /\ item'[p] \in Elements
    BY <1>0 DEF ThreadsOK
  <2>3. \A q \in Producers : pc'[q] \in {"reserve", "append", "post"} => item'[q] \in Elements
    BY <1>0, <2>1, <2>2 DEF ThreadsOK, Procs
  <2>4. pc' \in [Procs -> Places]
    BY <1>0 DEF ThreadsOK, Places, ProducerPlaces
  <2>5. (\A q \in Producers : pc'[q] \in ProducerPlaces) /\ (\A q \in Consumers : pc'[q] \in ConsumerPlaces)
    BY <1>0, <2>1 DEF ThreadsOK, Procs, ProducerPlaces
  <2> QED
    BY <2>2, <2>3, <2>4, <2>5 DEF ThreadsOK
<1>4. Synchronised'
  <2>1. /\ pc[p] = "idle" /\ pc' = [pc EXCEPT ![p] = "reserve"]
        /\ full' = full /\ empty' = empty /\ interrupts' = interrupts
    OBVIOUS
  <2>2. full \in Nat /\ empty \in Nat /\ Size(fifo') = Size(fifo) /\ Size(fifo') \in Nat
    BY <1>0, <1>1 DEF SemsOK, BufferStays
  <2>3. Announced("reserve") = Announced("idle") /\ Occupying("reserve") = Occupying("idle")
    BY DEF Announced, Occupying
  <2> HIDE DEF PushCall
  <2> QED
    BY <1>0, <2>1, <2>2, <2>3, MoveSync
<1> QED
  BY <1>1, <1>2, <1>3, <1>4 DEF Inv, Typed, BufferStays

\* The steps of a call that moves a unit, or none, between a semaphore and the
\* thread.
LEMMA SemStep ==
  ASSUME Inv, NEW p \in Procs, NEW l, l # "stray", pc[p] # l, Goto(p, l),
         p \in Producers => l \in ProducerPlaces, p \in Consumers => l \in ConsumerPlaces,
         p \in Producers /\ l \in {"reserve", "append", "post"} => item[p] \in Elements,
         UNCHANGED <<fifo, item, interrupts, delivered>>, full' \in Nat, empty' \in 0..QueueSize,
         full' + Announced(l) = full + Announced(pc[p]),
         empty' + Occupying(l) = empty + Occupying(pc[p])
  PROVE  Inv' /\ UNCHANGED Line!vars
<1>0. Typed /\ Synchronised /\ BufferOK /\ SemsOK /\ ThreadsOK
  BY DEF Inv, Typed
<1>1. BufferStays
  BY <1>0, Stays
<1>2. SemsOK'
  BY <1>0 DEF SemsOK
<1>3. ThreadsOK'
  BY <1>0, MoveThreads DEF Goto
<1>4. Synchronised'
  <2>1. PICK s \in Nat, f \in Nat, f1 \in Nat, e \in Nat, e1 \in Nat :
          s = Size(fifo) /\ f = full /\ f1 = full' /\ e = empty /\ e1 = empty'
    BY <1>0, <1>1 DEF SemsOK, BufferStays
  <2>2. PICK x \in 0..1, x1 \in 0..1, y \in 0..1, y1 \in 0..1 :
          x = Announced(pc[p]) /\ x1 = Announced(l) /\ y = Occupying(pc[p]) /\ y1 = Occupying(l)
    BY DEF Announced, Occupying
  <2>3. f1 + x1 = f + x /\ e1 + y1 = e + y
    BY <2>1, <2>2
  <2>4. f1 + x1 + s = f + x + s /\ e1 + s + y1 = e + s + y
    BY <2>3
  <2>5. Size(fifo') = s
    BY <1>1, <2>1 DEF BufferStays
  <2>6. full' + Announced(l) + Size(fifo) = full + Announced(pc[p]) + Size(fifo')
    BY <2>1, <2>2, <2>4, <2>5
  <2>7. empty' + Size(fifo') + Occupying(l) = empty + Size(fifo) + Occupying(pc[p])
    BY <2>1, <2>2, <2>4, <2>5
  <2>8. full' \in Nat /\ empty' \in Nat /\ Size(fifo') \in Nat
    BY <2>1, <2>5
  <2> QED
    BY <1>0, <2>6, <2>7, <2>8, MoveSync DEF Goto
<1> QED
  BY <1>1, <1>2, <1>3, <1>4 DEF Inv, Typed, BufferStays

\* The critical section of borFifoSemPush: the buffer has room in the promised
\* queue, because the thread has a unit of empty or was interrupted.
LEMMA AppendStep ==
  ASSUME Inv, NEW p \in Producers, Append1(p)
  PROVE  Inv' /\ \E x \in Elements : Line!Enqueue(x)
<1>0. Typed /\ Synchronised /\ BufferOK /\ SemsOK /\ ThreadsOK /\ p \in Procs
  BY DEF Inv, Typed, Procs
<1>1. pc[p] = "append" /\ item[p] \in Elements /\ pc' = [pc EXCEPT ![p] = "post"]
  BY <1>0 DEF Append1, Goto, ThreadsOK
<1>2. PICK x \in Elements : x = item[p]
  BY <1>1
<1>3. fifo' = Push(fifo, x) /\ UNCHANGED <<full, empty, item, interrupts, delivered>>
  BY <1>2 DEF Append1, sems, history
<1>4. /\ fifo' \in Buffers(Values) /\ WellFormed(fifo') /\ Size(fifo') = Size(fifo) + 1
      /\ Contents(fifo') = Append(Contents(fifo), x)
  <2>1. Junk \in Values /\ x \in Values
    BY DEF Values
  <2>2. fifo \in Buffers(Values) /\ WellFormed(fifo)
    BY <1>0 DEF BufferOK
  <2> QED
    BY ONLY <1>3, <2>1, <2>2, PushContents
<1>5. BufferOK' /\ Contents(fifo) \in Seq(Elements)
  BY <1>0, <1>4 DEF BufferOK
<1>6. SemsOK'
  BY <1>0, <1>3 DEF SemsOK
<1>7. ThreadsOK'
  BY <1>0, <1>1, <1>3, MoveThreads DEF ProducerPlaces
<1>8. PICK s \in Nat, f \in Nat, e \in Nat, i \in Nat : s = Size(fifo) /\ f = full /\ e = empty /\ i = interrupts
  BY <1>0, SizeNat DEF BufferOK, SemsOK
<1>9. Synchronised'
  <2>1. Announced("append") = 0 /\ Announced("post") = 1 /\ Occupying("append") = 1 /\ Occupying("post") = 0
    BY DEF Announced, Occupying
  <2>2. full' + Announced("post") + Size(fifo) = full + Announced(pc[p]) + Size(fifo')
    BY <1>1, <1>3, <1>4, <1>8, <2>1
  <2>3. empty' + Size(fifo') + Occupying("post") = empty + Size(fifo) + Occupying(pc[p])
    BY <1>1, <1>3, <1>4, <1>8, <2>1
  <2>4. full' \in Nat /\ empty' \in Nat /\ Size(fifo') \in Nat
    BY <1>3, <1>4, <1>8
  <2> QED
    BY <1>0, <1>1, <1>3, <2>2, <2>3, <2>4, MoveSync
<1>10. Len(Contents(fifo)) < QueueSize + MaxInterrupts
  <2>1. NOccupying \in Nat /\ NOccupying >= 1
    <3>1. NOccupying >= Occupying("append") /\ NOccupying \in Nat
      BY <1>0, <1>1, GroupsMove DEF ThreadsOK
    <3> QED
      BY <3>1 DEF Occupying
  <2>2. e + s + NOccupying <= QueueSize + i
    BY <1>0, <1>8 DEF Synchronised
  <2>3. i <= MaxInterrupts
    BY <1>0, <1>8 DEF SemsOK
  <2>4. Len(Contents(fifo)) = s
    BY <1>0, <1>8, ContentsSeq DEF BufferOK
  <2> QED
    BY <2>1, <2>2, <2>3, <2>4
<1>11. Line!Enqueue(x)
  BY <1>3, <1>4, <1>10 DEF Line!Enqueue
<1> QED
  BY <1>5, <1>6, <1>7, <1>9, <1>11 DEF Inv, Typed

\* popPost finds an element, unless a wait was interrupted.
LEMMA PickStep ==
  ASSUME Inv, NEW c \in Consumers, Pick(c)
  PROVE  Inv' /\ (Line!Dequeue \/ UNCHANGED Line!vars)
<1>0. Typed /\ Synchronised /\ BufferOK /\ SemsOK /\ ThreadsOK /\ c \in Procs /\ c \notin Producers
  BY DEF Inv, Typed, Procs
<1>1. pc[c] = "pick" /\ UNCHANGED <<full, empty, item, interrupts>>
  BY DEF Pick, sems
<1>2. PICK s \in Nat, f \in Nat, e \in Nat, i \in Nat : s = Size(fifo) /\ f = full /\ e = empty /\ i = interrupts
  BY <1>0, SizeNat DEF BufferOK, SemsOK
<1>3. SemsOK'
  BY <1>0, <1>1 DEF SemsOK
<1>4. CASE ~IsEmpty(fifo)
  <2>1. /\ delivered' = Append(delivered, Front(fifo)) /\ fifo' = Pop(fifo)
        /\ pc' = [pc EXCEPT ![c] = "room"]
    BY <1>4 DEF Pick, Goto
  <2>2. /\ fifo' \in Buffers(Values) /\ WellFormed(fifo') /\ Size(fifo') = Size(fifo) - 1
        /\ Contents(fifo) # <<>> /\ Front(fifo) = Head(Contents(fifo))
        /\ Contents(fifo') = Tail(Contents(fifo))
    <3>1. fifo \in Buffers(Values) /\ WellFormed(fifo)
      BY <1>0 DEF BufferOK
    <3> QED
      BY ONLY <1>4, <2>1, <3>1, PopContents
  <2>3. BufferOK'
    <3>1. Tail(Contents(fifo)) \in Seq(Elements)
      BY <1>0, <2>2 DEF BufferOK
    <3> QED
      BY <2>2, <3>1 DEF BufferOK
  <2>4. ThreadsOK'
    BY <1>0, <1>1, <2>1, MoveThreads DEF ConsumerPlaces
  <2>5. Size(fifo') \in Nat
    BY <2>3, SizeNat DEF BufferOK
  <2>6. Synchronised'
    <3>1. Announced("pick") = 1 /\ Announced("room") = 0 /\ Occupying("pick") = 0 /\ Occupying("room") = 1
      BY DEF Announced, Occupying
    <3>2. full' + Announced("room") + Size(fifo) = full + Announced(pc[c]) + Size(fifo')
      BY <1>1, <1>2, <2>2, <3>1
    <3>3. empty' + Size(fifo') + Occupying("room") = empty + Size(fifo) + Occupying(pc[c])
      BY <1>1, <1>2, <2>2, <3>1
    <3>4. full' \in Nat /\ empty' \in Nat
      BY <1>1, <1>2
    <3> QED
      BY <1>0, <1>1, <2>1, <2>5, <3>2, <3>3, <3>4, MoveSync
  <2>7. Line!Dequeue
    BY <2>1, <2>2 DEF Line!Dequeue
  <2> QED
    BY <1>3, <2>3, <2>4, <2>6, <2>7 DEF Inv, Typed
<1>5. CASE IsEmpty(fifo)
  <2>1. pc' = [p \in Procs |-> "stray"] /\ UNCHANGED <<fifo, delivered>>
    BY <1>5 DEF Pick
  <2>2. BufferStays /\ s = 0
    BY <1>0, <1>2, <1>5, <2>1, Stays, SizeNat DEF BufferOK
  <2>3. ThreadsOK'
    BY <1>0, <1>1, <2>1 DEF ThreadsOK, Procs, Places, ProducerPlaces, ConsumerPlaces
  <2>4. i # 0
    <3>1. NAnnounced \in Nat /\ NAnnounced >= 1
      <4>1. NAnnounced >= Announced("pick")
        <5>1. Count(pc, "pick") >= 1 /\ Count(pc, "pick") \in Nat /\ Count(pc, "post") \in Nat
          BY <1>0, <1>1, CountPositive, CountNat
        <5> QED
          BY <5>1 DEF Announced, NAnnounced
      <4>2. NAnnounced \in Nat
        <5>1. PICK x \in Nat, y \in Nat : x = Count(pc, "pick") /\ y = Count(pc, "post")
          BY CountNat
        <5> QED
          BY <5>1 DEF NAnnounced
      <4> QED
        BY <4>1, <4>2 DEF Announced
    <3>2. i = 0 => f + NAnnounced = s
      BY <1>0, <1>2 DEF Synchronised
    <3> QED
      BY <2>2, <3>1, <3>2
  <2>5. NOccupying' = 0
    <3>1. \A k : k # "stray" => {q \in Procs : pc'[q] = k} = {}
      BY <2>1
    <3>2. Count(pc', "append") = 0 /\ Count(pc', "room") = 0
      BY <3>1, FS_EmptySet DEF Count
    <3>3. NOccupying' = Count(pc', "append") + Count(pc', "room")
      BY DEF NOccupying, Count
    <3> QED
      BY <3>2, <3>3
  <2>6. e + s + 0 <= QueueSize + i
    BY <1>0, <1>2, <2>2 DEF SemsOK
  <2>7. Synchronised'
    <3>1. empty' = e /\ Size(fifo)' = s /\ interrupts' = i
      BY <1>1, <1>2, <2>1
    <3> QED
      BY <2>4, <2>5, <2>6, <3>1 DEF Synchronised
  <2> QED
    BY <1>3, <2>2, <2>3, <2>7 DEF Inv, Typed, BufferStays
<1> QED
  BY <1>4, <1>5

\* The semaphore empty does not rise above its maximum.
LEMMA RoomStep ==
  ASSUME Inv, NEW c \in Consumers, Room(c)
  PROVE  Inv' /\ UNCHANGED Line!vars
<1>0. Typed /\ Synchronised /\ BufferOK /\ SemsOK /\ ThreadsOK /\ c \in Procs /\ c \notin Producers
  BY DEF Inv, Typed, Procs
<1>1. pc[c] = "room" /\ Goto(c, "idle") /\ UNCHANGED <<fifo, full, item, interrupts, delivered>>
  BY DEF Room, history
<1>2. CASE empty < QueueSize
  <2>1. empty' = empty + 1
    BY <1>2 DEF Room
  <2>2. empty' \in 0..QueueSize /\ full' \in Nat
    BY <1>0, <1>1, <1>2, <2>1 DEF SemsOK
  <2>3. Announced("room") = 0 /\ Announced("idle") = 0 /\ Occupying("room") = 1 /\ Occupying("idle") = 0
    BY DEF Announced, Occupying
  <2>4. full' + Announced("idle") = full + Announced(pc[c]) /\ empty' + Occupying("idle") = empty + Occupying(pc[c])
    BY <1>0, <1>1, <2>1, <2>3 DEF SemsOK
  <2> QED
    BY <1>0, <1>1, <2>2, <2>4, SemStep DEF ConsumerPlaces
<1>3. CASE ~(empty < QueueSize)
  <2>1. empty' = empty /\ empty = QueueSize
    BY <1>0, <1>3 DEF Room, SemsOK
  <2>2. BufferStays /\ SemsOK'
    BY <1>0, <1>1, <2>1, Stays DEF SemsOK
  <2>3. ThreadsOK'
    BY <1>0, <1>1, MoveThreads DEF ConsumerPlaces, Goto
  <2>4. /\ NOccupying \in Nat /\ NOccupying' \in Nat
        /\ NOccupying' + 1 = NOccupying
    <3>1. /\ NOccupying \in Nat /\ NOccupying' \in Nat
          /\ NOccupying' + Occupying("room") = NOccupying + Occupying("idle")
      BY <1>0, <1>1, GroupsMove DEF ThreadsOK, Goto
    <3>2. Occupying("room") = 1 /\ Occupying("idle") = 0
      BY DEF Occupying
    <3>3. PICK o \in Nat, o1 \in Nat : o = NOccupying /\ o1 = NOccupying'
      BY <3>1
    <3>4. o1 + 1 = o + 0
      BY <3>1, <3>2, <3>3
    <3>5. o1 + 1 = o
      BY ONLY o \in Nat, o1 \in Nat, <3>4
    <3> QED
      BY ONLY <3>1, <3>3, <3>5
  <2>a. PICK o \in Nat, o1 \in Nat : o = NOccupying /\ o1 = NOccupying' /\ o1 + 1 = o
    BY <2>4
  <2>b. o1 + 1 = o
    BY <2>a, Zenon
  <2>5. PICK s \in Nat, i \in Nat : s = Size(fifo) /\ i = interrupts /\ Size(fifo)' = s /\ interrupts' = i
    BY <1>0, <1>1, SizeNat DEF BufferOK, SemsOK
  <2>6. i # 0
    <3>1. i = 0 => QueueSize + s + o = QueueSize
      BY <1>0, <2>1, <2>5, <2>a DEF Synchronised
    <3> QED
      BY ONLY QueueSize \in Nat, s \in Nat, o \in Nat, o1 \in Nat, <2>b, <3>1
  <2>7. QueueSize + s + o <= QueueSize + i
    BY <1>0, <2>1, <2>5, <2>a DEF Synchronised
  <2>8. QueueSize + s + o1 <= QueueSize + i
    BY ONLY QueueSize \in Nat, s \in Nat, i \in Nat, o \in Nat, o1 \in Nat, <2>b, <2>7
  <2>9. Synchronised'
    BY <2>1, <2>5, <2>6, <2>8, <2>a DEF Synchronised
  <2> QED
    BY <2>2, <2>3, <2>9 DEF Inv, Typed, BufferStays
<1> QED
  BY <1>2, <1>3

\* From the first interrupted wait on, only the bound on what is inside is kept.
LEMMA InterruptStep ==
  ASSUME Inv, NEW p \in Procs, Interrupt(p)
  PROVE  Inv' /\ UNCHANGED Line!vars
<1>0. Typed /\ Synchronised /\ BufferOK /\ SemsOK /\ ThreadsOK
  BY DEF Inv, Typed
<1>1. UNCHANGED <<fifo, full, empty, item, delivered>> /\ interrupts' = interrupts + 1 /\ interrupts < MaxInterrupts
  BY DEF Interrupt, sems, history
<1>2. PICK l : /\ \/ pc[p] = "wait" /\ l = "pick"
                  \/ pc[p] = "reserve" /\ l = "append"
                  \/ pc[p] = "timed" /\ l = "idle"
               /\ pc' = [pc EXCEPT ![p] = l]
  BY DEF Interrupt, Goto
<1>3. BufferStays /\ SemsOK'
  BY <1>0, <1>1, Stays DEF SemsOK
<1>4. ThreadsOK'
  <2>1. p \in Producers => pc[p] = "reserve"
    BY <1>0, <1>2 DEF ThreadsOK, ProducerPlaces
  <2>2. p \in Consumers => pc[p] # "reserve"
    BY <1>0 DEF ThreadsOK, ConsumerPlaces
  <2>3. (p \in Producers => l \in ProducerPlaces) /\ (p \in Consumers => l \in ConsumerPlaces)
    BY <1>2, <2>1, <2>2 DEF ProducerPlaces, ConsumerPlaces
  <2>4. p \in Producers => item[p] \in Elements
    BY <1>0, <2>1 DEF ThreadsOK
  <2> QED
    BY <1>0, <1>1, <1>2, <2>3, <2>4, MoveThreads
<1>5. /\ NOccupying \in Nat /\ NOccupying' \in Nat /\ NOccupying' <= NOccupying + 1
  <2>1. /\ NOccupying \in Nat /\ NOccupying' \in Nat
        /\ NOccupying' + Occupying(pc[p]) = NOccupying + Occupying(l)
    <3>1. pc[p] # l /\ pc \in [Procs -> Places]
      BY <1>0, <1>2 DEF ThreadsOK
    <3> QED
      BY <1>2, <3>1, GroupsMove
  <2>2. Occupying(pc[p]) = 0 /\ Occupying(l) \in 0..1
    BY <1>2 DEF Occupying
  <2> QED
    BY <2>1, <2>2
<1>6. Synchronised'
  <2>1. PICK s \in Nat, e \in Nat, i \in Nat :
          s = Size(fifo) /\ e = empty /\ i = interrupts /\ Size(fifo)' = s /\ empty' = e /\ interrupts' = i + 1
    BY <1>0, <1>1, SizeNat DEF BufferOK, SemsOK
  <2>2. e + s + NOccupying <= QueueSize + i
    BY <1>0, <2>1 DEF Synchronised
  <2>3. e + s + NOccupying' <= QueueSize + (i + 1)
    BY <1>5, <2>1, <2>2
  <2>4. i + 1 # 0
    OBVIOUS
  <2> QED
    BY <2>1, <2>3, <2>4 DEF Synchronised
<1> QED
  BY <1>3, <1>4, <1>6 DEF Inv, Typed, BufferStays

\* Every step keeps the invariant and is a step of the queue, or none.
LEMMA Step == Inv /\ [Next]_vars => Inv' /\ [Line!Next]_(Line!vars)
<1> SUFFICES ASSUME Inv, [Next]_vars PROVE Inv' /\ [Line!Next]_(Line!vars)
  OBVIOUS
<1>0. SemsOK /\ ThreadsOK
  BY DEF Inv, Typed
<1>a. \A k : /\ Announced(k) = (IF k \in {"pick", "post"} THEN 1 ELSE 0)
             /\ Occupying(k) = (IF k \in {"append", "room"} THEN 1 ELSE 0)
  BY DEF Announced, Occupying
<1>1. ASSUME NEW p \in Producers, ProducerStep(p) PROVE Inv' /\ [Line!Next]_(Line!vars)
  <2>0. p \in Procs /\ p \notin Consumers
    BY DEF Procs
  <2>1. CASE Reserve(p)
    <3>1. /\ pc[p] = "reserve" /\ Goto(p, "append") /\ UNCHANGED <<fifo, item, interrupts, delivered>>
          /\ full' \in Nat /\ empty' \in 0..QueueSize /\ item[p] \in Elements
          /\ full' + 0 = full + 0 /\ empty' + 1 = empty + 0
      BY <1>0, <2>1 DEF Reserve, history, SemsOK, ThreadsOK
    <3> QED
      BY <1>a, <2>0, <3>1, SemStep DEF ProducerPlaces
  <2>2. CASE Append1(p)
    BY <2>2, AppendStep DEF Line!Next
  <2>3. CASE Post(p)
    <3> USE DEF Post, Goto, history
    <3>1. Typed /\ Synchronised /\ BufferOK
      BY DEF Inv, Typed
    <3>2. BufferStays /\ SemsOK'
      BY <1>0, <2>3, <3>1, Stays DEF SemsOK
    <3>3. ThreadsOK'
      <4>1. \A q \in Procs : pc'[q] = IF q = p THEN "idle" ELSE pc[q]
        BY <1>0, <2>3 DEF ThreadsOK
      <4>2. item' \in [Producers -> Elements \cup {None}] /\ \A q \in Producers : q # p => item'[q] = item[q]
        BY <1>0, <2>3 DEF ThreadsOK
      <4>3. pc' \in [Procs -> Places]
        BY <1>0, <2>3 DEF ThreadsOK, Places, ProducerPlaces
      <4>4. (\A q \in Producers : pc'[q] \in ProducerPlaces) /\ (\A q \in Consumers : pc'[q] \in ConsumerPlaces)
        BY <1>0, <4>1 DEF ThreadsOK, Procs, ProducerPlaces, ConsumerPlaces
      <4>5. \A q \in Producers : pc'[q] \in {"reserve", "append", "post"} => item'[q] \in Elements
        BY <1>0, <4>1, <4>2 DEF ThreadsOK, Procs
      <4> QED
        BY <4>2, <4>3, <4>4, <4>5 DEF ThreadsOK
    <3>4. Synchronised'
      <4>1. /\ pc[p] = "post" /\ pc' = [pc EXCEPT ![p] = "idle"] /\ full' = full + 1 /\ empty' = empty
            /\ interrupts' = interrupts /\ Size(fifo') = Size(fifo) /\ Size(fifo') \in Nat
        BY <2>3, <3>2 DEF BufferStays
      <4>2. full' + 0 + Size(fifo) = full + 1 + Size(fifo') /\ empty' + Size(fifo') + 0 = empty + Size(fifo) + 0
        BY <1>0, <4>1 DEF SemsOK
      <4>3. full' \in Nat /\ empty' \in Nat
        BY <1>0, <4>1 DEF SemsOK
      <4> HIDE DEF Post
      <4> QED
        BY <1>a, <2>0, <3>1, <4>1, <4>2, <4>3, MoveSync
    <3> QED
      BY <1>0, <3>2, <3>3, <3>4 DEF Inv, Typed, BufferStays
  <2> QED
    BY <1>1, <2>1, <2>2, <2>3 DEF ProducerStep
<1>2. ASSUME NEW c \in Consumers, NEW l, pc[c] # l, Goto(c, l),
             l \in {"idle", "wait", "timed"}, pc[c] \in {"idle", "timed"},
             UNCHANGED <<fifo, sems, item, interrupts, history>>
      PROVE  Inv' /\ [Line!Next]_(Line!vars)
  <2>0. c \in Procs /\ c \notin Producers
    BY DEF Procs
  <2>1. /\ UNCHANGED <<fifo, item, interrupts, delivered>>
        /\ full' \in Nat /\ empty' \in 0..QueueSize
        /\ full' + 0 = full + 0 /\ empty' + 0 = empty + 0
    BY <1>0, <1>2 DEF sems, history, SemsOK
  <2>2. /\ l \in ConsumerPlaces /\ l # "stray" /\ l \notin {"pick", "post", "append", "room"}
        /\ pc[c] \notin {"pick", "post", "append", "room"}
    BY <1>2 DEF ConsumerPlaces
  <2> QED
    BY <1>2, <1>a, <2>0, <2>1, <2>2, SemStep
<1>3. ASSUME NEW c \in Consumers, pc[c] \in {"idle", "wait", "timed"}, Acquire(c)
      PROVE  Inv' /\ [Line!Next]_(Line!vars)
  <2>0. c \in Procs /\ c \notin Producers
    BY DEF Procs
  <2>1. /\ Goto(c, "pick") /\ UNCHANGED <<fifo, item, interrupts, delivered>>
        /\ full' \in Nat /\ empty' \in 0..QueueSize
        /\ full' + 1 = full + 0 /\ empty' + 0 = empty + 0
    BY <1>0, <1>3 DEF Acquire, history, SemsOK
  <2>2. "pick" \in ConsumerPlaces /\ pc[c] # "pick" /\ pc[c] \notin {"pick", "post", "append", "room"}
    BY <1>3 DEF ConsumerPlaces
  <2> QED
    BY <1>a, <2>0, <2>1, <2>2, SemStep
<1>4. ASSUME NEW c \in Consumers, pc[c] = "idle", Refuse(c)
      PROVE  Inv' /\ [Line!Next]_(Line!vars)
  <2>0. c \in Procs
    BY DEF Procs
  <2>1. UNCHANGED vars
    <3>1. pc' = pc
      BY <1>0, <1>4, <2>0 DEF Refuse, Goto, ThreadsOK
    <3> QED
      BY <1>4, <3>1 DEF Refuse, vars
  <2>2. Inv' /\ UNCHANGED Line!vars
    <3>1. UNCHANGED <<fifo, full, empty, pc, item, interrupts, delivered>>
      BY <2>1 DEF vars, sems, history
    <3>2. NAnnounced' = NAnnounced /\ NOccupying' = NOccupying
      BY <3>1 DEF NAnnounced, NOccupying, Count
    <3> QED
      BY <3>1, <3>2 DEF Inv, Typed, BufferOK, SemsOK, ThreadsOK, Synchronised, Line!vars
  <2> QED
    BY <2>2
<1>5. CASE UNCHANGED vars
  <2>1. UNCHANGED <<fifo, full, empty, pc, item, interrupts, delivered>>
    BY <1>5 DEF vars, sems, history
  <2>2. NAnnounced' = NAnnounced /\ NOccupying' = NOccupying
    BY <2>1 DEF NAnnounced, NOccupying, Count
  <2> QED
    BY <2>1, <2>2 DEF Inv, Typed, BufferOK, SemsOK, ThreadsOK, Synchronised, Line!vars
<1>6. ASSUME NEW c \in Consumers, ConsumerStep(c) PROVE Inv' /\ [Line!Next]_(Line!vars)
  <2>1. CASE Wait(c) \/ TimedWait(c)
    BY <1>3, <2>1 DEF Wait, TimedWait
  <2>2. CASE Timeout(c)
    BY <1>2, <2>2 DEF Timeout, Refuse
  <2>3. CASE Pick(c)
    BY <2>3, PickStep DEF Line!Next
  <2>4. CASE Room(c)
    BY <2>4, RoomStep
  <2> QED
    BY <1>6, <2>1, <2>2, <2>3, <2>4 DEF ConsumerStep
<1>7. ASSUME NEW c \in Consumers, TryPop(c) \/ TryPopEmpty(c) \/ PopBlock(c) \/ TimedPop(c) \/ TimedPopInvalid(c)
      PROVE  Inv' /\ [Line!Next]_(Line!vars)
  <2>1. CASE TryPop(c)
    BY <1>3, <2>1 DEF TryPop
  <2>2. CASE TryPopEmpty(c) \/ TimedPopInvalid(c)
    BY <1>4, <2>2 DEF TryPopEmpty, TimedPopInvalid
  <2>3. CASE PopBlock(c)
    BY <1>2, <2>3 DEF PopBlock
  <2>4. CASE TimedPop(c)
    BY <1>2, <2>4 DEF TimedPop
  <2> QED
    BY <1>7, <2>1, <2>2, <2>3, <2>4
<1>8. ASSUME NEW p \in Producers, NEW x \in Elements, PushCall(p, x) PROVE Inv' /\ [Line!Next]_(Line!vars)
  BY <1>8, PushCallStep
<1>9. ASSUME NEW p \in Procs, Interrupt(p) PROVE Inv' /\ [Line!Next]_(Line!vars)
  BY <1>9, InterruptStep
<1>10. CASE Quiescent
  BY <1>5, <1>10 DEF Quiescent
<1> QED
  BY <1>1, <1>5, <1>6, <1>7, <1>8, <1>9, <1>10 DEF Next

\* The invariant holds throughout.
LEMMA Inductive == Spec => []Inv
BY InitInv, Step, PTL DEF Spec

\* Offsets stay inside their segments, no segment is kept for nothing, and the
\* semaphore empty stays between 0 and its maximum, whatever the interleaving of
\* borFifoSemPush and the pops.
THEOREM TypeCorrect == Spec => []TypeOK
<1>1. Inv => TypeOK
  BY DEF Inv, Typed, BufferOK, SemsOK, ThreadsOK, TypeOK, Places, ProducerPlaces, ConsumerPlaces
<1> QED
  BY <1>1, Inductive, PTL

\* As long as no wait is interrupted the semaphores of fifo-sem.c count the elements
\* and the room, and popPost, which does not look, never copies from an empty buffer.
THEOREM SemaphoresCount == Spec => []SemaphoresMatchBuffer
<1>1. Inv => SemaphoresMatchBuffer
  <2> SUFFICES ASSUME Inv, interrupts = 0
               PROVE  /\ At("stray") = {}
                      /\ full + Cardinality(At("pick")) + Cardinality(At("post")) = Size(fifo)
                      /\ empty + Size(fifo) + Cardinality(At("append")) + Cardinality(At("room")) = QueueSize
    BY DEF SemaphoresMatchBuffer
  <2>1. \A k : Cardinality(At(k)) = Count(pc, k) /\ Count(pc, k) \in Nat
    BY CountNat DEF At, Count
  <2>2. PICK a \in Nat, b \in Nat, c \in Nat, d \in Nat :
          a = Count(pc, "pick") /\ b = Count(pc, "post") /\ c = Count(pc, "append") /\ d = Count(pc, "room")
    BY <2>1
  <2>3. PICK s \in Nat, f \in Nat, e \in Nat : s = Size(fifo) /\ f = full /\ e = empty
    BY SizeNat DEF Inv, Typed, BufferOK, SemsOK
  <2>4. f + (a + b) = s /\ e + s + (c + d) = QueueSize /\ \A p \in Procs : pc[p] # "stray"
    BY <2>2, <2>3 DEF Inv, Synchronised, NAnnounced, NOccupying
  <2>5. f + a + b = s /\ e + s + c + d = QueueSize
    BY <2>4
  <2> QED
    BY <2>1, <2>2, <2>3, <2>4, <2>5 DEF At
<1> QED
  BY <1>1, Inductive, PTL

\* FifoSem implements the promised queue: elements are delivered in the order in
\* which borFifoSemPush stored them, each once, and at most QueueSize plus one for
\* each interrupted wait are inside; also when waits are interrupted.
THEOREM KeepsOrder == Spec => ImplementsQueue
<1>1. Init => Line!Init
  <2> SUFFICES ASSUME Init PROVE Line!Init
    OBVIOUS
  <2>1. fifo = EmptyFifo /\ delivered = <<>>
    BY DEF Init
  <2>2. EmptyFifo \in Buffers(Values) /\ WellFormed(EmptyFifo) /\ IsEmpty(EmptyFifo)
    BY DEF EmptyFifo, Buffers, WellFormed, IsEmpty
  <2>3. Contents(fifo) = <<>>
    BY <2>1, <2>2, SizeNat
  <2> QED
    BY <2>1, <2>3 DEF Line!Init
<1> QED
  BY <1>1, Inductive, Step, PTL DEF Spec, ImplementsQueue, Line!Spec

----------------------------------------------------------------------------
(* The same buffer under one caller: src/fifo.c alone.                     *)

Single == INSTANCE Fifo WITH MaxKept <- QueueSize + MaxInterrupts

\* The instance has the same operators on buffers.
LEMMA SameBuffer ==
  /\ Single!EmptyFifo = EmptyFifo
  /\ \A f : /\ Single!IsEmpty(f) <=> IsEmpty(f)
            /\ Single!Front(f) = Front(f) /\ Single!Pop(f) = Pop(f) /\ Single!Contents(f) = Contents(f)
            /\ \A x : Single!Push(f, x) = Push(f, x)
<1>1. Single!EmptyFifo = EmptyFifo /\ \A f : (Single!IsEmpty(f) <=> IsEmpty(f)) /\ Single!Front(f) = Front(f)
  BY DEF Single!EmptyFifo, EmptyFifo, Single!IsEmpty, IsEmpty, Single!Front, Front
<1>2. \A f : Single!Pop(f) = Pop(f)
  BY <1>1, Zenon DEF Single!Pop, Pop, Single!IsEmpty, IsEmpty
<1>3. Single!segmNew = segmNew /\ \A f : Single!Size(f) = Size(f)
  BY <1>1 DEF Single!segmNew, segmNew, Single!Size, Size
<1>4. \A f : Single!Contents(f) = Contents(f)
  BY <1>3, Zenon DEF Single!Contents, Contents
<1>5. \A f, x : Single!Push(f, x) = Push(f, x)
  BY Zenon DEF Single!Push, Push, Single!IsEmpty, IsEmpty, Single!segmNew, segmNew
<1> QED
  BY <1>1, <1>2, <1>4, <1>5

\* Every call of fifo.c is a step of the promised queue, or none.
LEMMA SingleStep ==
  BufferOK /\ delivered \in Seq(Elements) /\ [Single!Next]_(Single!vars)
    => (BufferOK /\ delivered \in Seq(Elements))' /\ [Line!ClearingNext]_(Line!vars)
<1> SUFFICES ASSUME BufferOK, delivered \in Seq(Elements), [Single!Next]_(Single!vars)
             PROVE  (BufferOK /\ delivered \in Seq(Elements))' /\ [Line!ClearingNext]_(Line!vars)
  OBVIOUS
<1>0. fifo \in Buffers(Values) /\ WellFormed(fifo) /\ Contents(fifo) \in Seq(Elements)
  BY DEF BufferOK
<1>1. ASSUME NEW x \in Elements, Single!PushCall(x)
      PROVE  (BufferOK /\ delivered \in Seq(Elements))' /\ Line!Enqueue(x)
  <2>1. fifo' = Push(fifo, x) /\ delivered' = delivered /\ Len(Contents(fifo)) + Len(delivered) < QueueSize + MaxInterrupts
    BY <1>1, SameBuffer DEF Single!PushCall
  <2>2. /\ fifo' \in Buffers(Values) /\ WellFormed(fifo')
        /\ Contents(fifo') = Append(Contents(fifo), x)
    <3>1. Junk \in Values /\ x \in Values
      BY DEF Values
    <3> QED
      BY ONLY <1>0, <2>1, <3>1, PushContents
  <2>3. Append(Contents(fifo), x) \in Seq(Elements)
    BY <1>0
  <2>4. Len(Contents(fifo)) < QueueSize + MaxInterrupts
    <3>1. PICK m \in Nat, n \in Nat : m = Len(Contents(fifo)) /\ n = Len(delivered)
      BY <1>0
    <3> QED
      BY <2>1, <3>1
  <2> QED
    BY <2>1, <2>2, <2>3, <2>4 DEF BufferOK, Line!Enqueue
<1>2. ASSUME Single!PopCall
      PROVE  (BufferOK /\ delivered \in Seq(Elements))' /\ [Line!ClearingNext]_(Line!vars)
  <2>1. /\ fifo' = Pop(fifo)
        /\ delivered' = IF IsEmpty(fifo) THEN delivered ELSE Append(delivered, Front(fifo))
    BY <1>2, SameBuffer DEF Single!PopCall
  <2>2. CASE IsEmpty(fifo)
    <3>1. Pop(fifo) = fifo
      BY <2>2 DEF Pop
    <3> QED
      BY <2>1, <2>2, <3>1 DEF BufferOK, Line!vars
  <2>3. CASE ~IsEmpty(fifo)
    <3>1. /\ fifo' \in Buffers(Values) /\ WellFormed(fifo')
          /\ Contents(fifo) # <<>> /\ Front(fifo) = Head(Contents(fifo))
          /\ Contents(fifo') = Tail(Contents(fifo))
      BY ONLY <1>0, <2>1, <2>3, PopContents
    <3>2. Tail(Contents(fifo)) \in Seq(Elements) /\ Head(Contents(fifo)) \in Elements
      BY <1>0, <3>1
    <3>3. BufferOK' /\ delivered' = Append(delivered, Head(Contents(fifo)))
      BY <2>1, <2>3, <3>1, <3>2 DEF BufferOK
    <3>4. delivered' \in Seq(Elements)
      BY <3>2, <3>3
    <3> QED
      BY <3>1, <3>3, <3>4 DEF Line!ClearingNext, Line!Next, Line!Dequeue
  <2> QED
    BY <2>2, <2>3
<1>3. ASSUME Single!Clear
      PROVE  (BufferOK /\ delivered \in Seq(Elements))' /\ Line!Discard
  <2>1. EmptyFifo \in Buffers(Values) /\ WellFormed(EmptyFifo) /\ IsEmpty(EmptyFifo)
    BY DEF EmptyFifo, Buffers, WellFormed, IsEmpty
  <2>2. Contents(EmptyFifo) = <<>> /\ <<>> \in Seq(Elements)
    BY <2>1, SizeNat
  <2>3. fifo' = EmptyFifo /\ delivered' = delivered
    BY <1>3, SameBuffer DEF Single!Clear
  <2> QED
    BY <2>1, <2>2, <2>3 DEF BufferOK, Line!Discard
<1>4. CASE UNCHANGED Single!vars
  <2>1. fifo' = fifo /\ delivered' = delivered
    BY <1>4 DEF Single!vars
  <2> QED
    BY <2>1 DEF BufferOK, Line!vars
<1> QED
  BY <1>1, <1>2, <1>3, <1>4 DEF Single!Next, Line!ClearingNext, Line!Next

\* fifo.c under one caller implements the same queue, with clearing: borFifoPush
\* appends, borFifoFront and borFifoPop take the first element, borFifoClear
\* discards what is inside; nothing else does.
THEOREM SingleKeepsOrder == Single!Spec => Line!ClearingSpec
<1>1. Single!Init => Line!Init /\ BufferOK /\ delivered \in Seq(Elements)
  <2> SUFFICES ASSUME Single!Init PROVE Line!Init /\ BufferOK /\ delivered \in Seq(Elements)
    OBVIOUS
  <2>1. EmptyFifo \in Buffers(Values) /\ WellFormed(EmptyFifo) /\ IsEmpty(EmptyFifo)
    BY DEF EmptyFifo, Buffers, WellFormed, IsEmpty
  <2>2. Contents(EmptyFifo) = <<>> /\ <<>> \in Seq(Elements)
    BY <2>1, SizeNat
  <2>3. fifo = EmptyFifo /\ delivered = <<>>
    BY SameBuffer DEF Single!Init
  <2> QED
    BY <2>1, <2>2, <2>3 DEF BufferOK, Line!Init
<1> QED
  BY <1>1, SingleStep, PTL DEF Single!Spec, Line!ClearingSpec

----------------------------------------------------------------------------
(* The segmented stack of src/lifo.c under one caller.                     *)

Pile == INSTANCE Lifo WITH MaxLen <- QueueSize, store <- fifo

\* A segmented stack of values from V: cur lies in the last segment.
Piles(V) ==
  {l \in [segms : Seq([1..SegCap -> V]), cur : 0..SegCap] : l.segms = <<>> <=> l.cur = 0}

\* The slot at offset k, counted from the start of the first segment.
Cell(l, k) == l.segms[(k \div SegCap) + 1][(k % SegCap) + 1]

\* The offset of place c of the segment after n others, counted from 0.
Place(n, c) == n * SegCap + c

LEMMA PlaceSteps == ASSUME NEW n \in Nat, NEW c \in Nat
  PROVE  /\ Place(n, c) \in Nat /\ Place(n, c + 1) = Place(n, c) + 1 /\ Place(n + 1, 0) = Place(n, SegCap)
         /\ c # 0 => Place(n, c) # 0
<1>1. PICK z \in Nat : z = n * SegCap
  OBVIOUS
<1>2. (n + 1) * SegCap = n * SegCap + SegCap
  OBVIOUS
<1>3. z + c \in Nat /\ z + (c + 1) = (z + c) + 1 /\ (c # 0 => z + c # 0)
  OBVIOUS
<1>4. Place(n, c) = z + c /\ Place(n, c + 1) = z + (c + 1)
  BY <1>1 DEF Place
<1>5. Place(n + 1, 0) = Place(n, SegCap)
  BY <1>1, <1>2 DEF Place
<1> QED
  BY <1>3, <1>4, <1>5

\* The slot at the offset of a place is that place.
LEMMA CellAt == ASSUME NEW n \in Nat, NEW c \in 0..(SegCap - 1), NEW l
  PROVE  Cell(l, Place(n, c)) = l.segms[n + 1][c + 1]
<1>1. Place(n, c) \div SegCap = n /\ Place(n, c) % SegCap = c
  BY Offset DEF Place
<1> QED
  BY <1>1, Zenon DEF Cell

\* Every offset is that of a place.
LEMMA PlaceOf == ASSUME NEW k \in Nat
  PROVE  k \div SegCap \in Nat /\ k % SegCap \in 0..(SegCap - 1) /\ k = Place(k \div SegCap, k % SegCap)
BY Quotient DEF Place

\* What is in a later segment is behind.
LEMMA PlaceOrder == ASSUME NEW n \in Nat, NEW q \in Nat, n < q, NEW c \in 0..SegCap, NEW i \in Nat
  PROVE  Place(n, c) <= Place(q, i)
<1>1. q - n - 1 \in Nat /\ q = n + 1 + (q - n - 1)
  OBVIOUS
<1>2. PICK d \in Nat : q = n + 1 + d
  BY <1>1
<1>3. q * SegCap = n * SegCap + SegCap + d * SegCap
  BY <1>2
<1>4. PICK x \in Nat, y \in Nat, z \in Nat : x = q * SegCap /\ y = n * SegCap /\ z = d * SegCap
  OBVIOUS
<1>5. x = y + SegCap + z /\ Place(n, c) = y + c /\ Place(q, i) = x + i
  BY <1>3, <1>4 DEF Place
<1>6. y + c <= (y + SegCap + z) + i
  OBVIOUS
<1> QED
  BY <1>5, <1>6

\* The top of a stack that is not empty lies in the last segment, one place before
\* the size.
LEMMA PilePlace == ASSUME NEW V, NEW l \in Piles(V), ~Pile!IsEmpty(l)
  PROVE  /\ l.segms \in Seq([1..SegCap -> V]) /\ l.segms # <<>> /\ l.cur \in 1..SegCap
         /\ \E n \in Nat : Len(l.segms) = n + 1 /\ Pile!Size(l) = Place(n, l.cur)
<1>1. l.segms \in Seq([1..SegCap -> V]) /\ l.cur \in 0..SegCap /\ (l.segms = <<>> <=> l.cur = 0)
  BY DEF Piles
<1>2. l.segms # <<>> /\ l.cur \in 1..SegCap
  BY <1>1 DEF Pile!IsEmpty
<1>3. Len(l.segms) - 1 \in Nat /\ Len(l.segms) = (Len(l.segms) - 1) + 1
  BY <1>1, <1>2
<1>4. Pile!Size(l) = Place(Len(l.segms) - 1, l.cur)
  BY DEF Pile!Size, Place
<1> QED
  BY <1>1, <1>2, <1>3, <1>4

\* The size of a stack.
LEMMA PileSize == ASSUME NEW V, NEW l \in Piles(V)
  PROVE  /\ l.segms \in Seq([1..SegCap -> V]) /\ Len(l.segms) \in Nat /\ Pile!Size(l) \in Nat
         /\ Pile!IsEmpty(l) => Len(l.segms) = 0 /\ Pile!Size(l) = 0
         /\ ~Pile!IsEmpty(l) => Pile!Size(l) # 0 /\ Len(l.segms) # 0
<1>1. l.segms \in Seq([1..SegCap -> V]) /\ Len(l.segms) \in Nat
  BY DEF Piles
<1>2. CASE Pile!IsEmpty(l)
  BY <1>1, <1>2 DEF Pile!IsEmpty, Pile!Size
<1>3. CASE ~Pile!IsEmpty(l)
  <2>1. PICK n \in Nat : Len(l.segms) = n + 1 /\ Pile!Size(l) = Place(n, l.cur)
    BY <1>3, PilePlace
  <2>2. l.cur \in Nat /\ l.cur # 0
    <3>1. l.cur \in 1..SegCap
      BY <1>3, PilePlace
    <3> QED
      BY <3>1
  <2>3. Pile!Size(l) \in Nat /\ Pile!Size(l) # 0
    BY <2>1, <2>2, PlaceSteps
  <2> QED
    BY <1>1, <1>3, <2>1, <2>3
<1> QED
  BY <1>2, <1>3

\* Each element lies in a slot of a segment that is there.
LEMMA PileWithin == ASSUME NEW V, NEW l \in Piles(V), NEW i \in 1..Pile!Size(l)
  PROVE  /\ i - 1 \in Nat /\ i - 1 < Pile!Size(l)
         /\ (i - 1) \div SegCap \in 0..(Len(l.segms) - 1) /\ (i - 1) % SegCap \in 0..(SegCap - 1)
         /\ Cell(l, i - 1) \in V
<1>1. Pile!Size(l) \in Nat
  BY PileSize
<1>2. Pile!Size(l) # 0 /\ i - 1 \in Nat /\ i - 1 < Pile!Size(l)
  BY <1>1
<1>3. ~Pile!IsEmpty(l)
  BY <1>2, PileSize
<1>4. PICK n \in Nat : Len(l.segms) = n + 1 /\ Pile!Size(l) = Place(n, l.cur)
  BY <1>3, PilePlace
<1>5. l.cur \in 1..SegCap /\ l.cur \in 0..SegCap /\ l.segms \in Seq([1..SegCap -> V])
  <2>1. l.cur \in 1..SegCap /\ l.segms \in Seq([1..SegCap -> V])
    BY <1>3, PilePlace
  <2> QED
    BY <2>1
<1>6. PICK q \in Nat, r \in 0..(SegCap - 1) :
        q = (i - 1) \div SegCap /\ r = (i - 1) % SegCap /\ i - 1 = Place(q, r)
  BY <1>2, PlaceOf
<1>7. q <= n
  <2> SUFFICES ASSUME n < q PROVE FALSE
    OBVIOUS
  <2>1. Place(n, l.cur) <= Place(q, r)
    BY <1>5, PlaceOrder
  <2> QED
    BY <1>1, <1>2, <1>4, <1>6, <2>1
<1>8. q + 1 \in 1..Len(l.segms) /\ r + 1 \in 1..SegCap /\ q \in 0..(Len(l.segms) - 1)
  BY <1>4, <1>7
<1>9. Cell(l, i - 1) = l.segms[q + 1][r + 1]
  BY <1>6 DEF Cell
<1>10. Cell(l, i - 1) \in V
  BY <1>5, <1>8, <1>9
<1> QED
  BY <1>2, <1>6, <1>8, <1>10

\* The contents are a sequence of as many values.
LEMMA PileContents == ASSUME NEW V, NEW l \in Piles(V)
  PROVE  /\ Pile!Contents(l) \in Seq(V) /\ Len(Pile!Contents(l)) = Pile!Size(l)
         /\ DOMAIN Pile!Contents(l) = 1..Pile!Size(l)
         /\ \A i \in 1..Pile!Size(l) : Pile!Contents(l)[i] = Cell(l, i - 1)
<1>1. Pile!Size(l) \in Nat
  BY PileSize
<1>2. Pile!Contents(l) = [i \in 1..Pile!Size(l) |-> Cell(l, i - 1)]
  BY DEF Pile!Contents, Cell
<1>3. \A i \in 1..Pile!Size(l) : Cell(l, i - 1) \in V
  BY PileWithin
<1> QED
  BY <1>1, <1>2, <1>3

\* h has one element more than l, in place c of the segment after n others, and the
\* rest where it was.
OneMore(h, l, n, c) ==
  /\ Len(h.segms) = n + 1 /\ h.cur = c + 1
  /\ Pile!Size(l) = Place(n, c) /\ Len(l.segms) <= n + 1
  /\ \A q \in 1..Len(l.segms), s \in 1..SegCap :
       ~(q = n + 1 /\ s = c + 1) => h.segms[q][s] = l.segms[q][s]

\* Then it has that element on top of the contents.
LEMMA PileGrows ==
  ASSUME NEW V, NEW l \in Piles(V), NEW h \in Piles(V), NEW n \in Nat, NEW c \in 0..(SegCap - 1),
         OneMore(h, l, n, c)
  PROVE  Pile!Contents(h) = Append(Pile!Contents(l), h.segms[n + 1][c + 1])
<1> DEFINE A == Pile!Contents(l)
           B == Pile!Contents(h)
<1>0. Pile!Size(l) \in Nat /\ Pile!Size(h) \in Nat /\ Len(l.segms) \in Nat
  BY PileSize
<1>1. ~Pile!IsEmpty(h)
  <2>1. Len(h.segms) # 0
    BY DEF OneMore
  <2> QED
    BY <2>1, PileSize
<1>2. PICK m \in Nat : Len(h.segms) = m + 1 /\ Pile!Size(h) = Place(m, h.cur)
  BY <1>1, PilePlace
<1>3. m = n /\ h.cur = c + 1 /\ Pile!Size(l) = Place(n, c)
  BY <1>2 DEF OneMore
<1>4. c \in Nat /\ c < SegCap
  OBVIOUS
<1>5. Pile!Size(h) = Pile!Size(l) + 1
  BY <1>2, <1>3, <1>4, PlaceSteps
<1>6. Cell(h, Pile!Size(l)) = h.segms[n + 1][c + 1]
  BY <1>3, CellAt
<1>7. ASSUME NEW i \in 1..Pile!Size(l) PROVE Cell(h, i - 1) = Cell(l, i - 1)
  <2>1. i - 1 \in Nat /\ i - 1 < Pile!Size(l)
    BY PileWithin
  <2>2. PICK q \in 0..(Len(l.segms) - 1), s \in 0..(SegCap - 1) : q = (i - 1) \div SegCap /\ s = (i - 1) % SegCap
    BY PileWithin
  <2>3. i - 1 = Place(q, s)
    BY <2>1, <2>2, PlaceOf
  <2>4. ~(q = n /\ s = c)
    BY <1>0, <1>3, <2>1, <2>3
  <2>5. q + 1 \in 1..Len(l.segms) /\ s + 1 \in 1..SegCap /\ ~(q + 1 = n + 1 /\ s + 1 = c + 1)
    BY <1>0, <2>4
  <2>6. h.segms[q + 1][s + 1] = l.segms[q + 1][s + 1]
    BY <2>5 DEF OneMore
  <2> QED
    BY <2>2, <2>6 DEF Cell
<1>8. /\ A \in Seq(V) /\ Len(A) = Pile!Size(l) /\ \A i \in 1..Pile!Size(l) : A[i] = Cell(l, i - 1)
      /\ B \in Seq(V) /\ Len(B) = Pile!Size(h) /\ \A i \in 1..Pile!Size(h) : B[i] = Cell(h, i - 1)
  BY PileContents
<1>9. PICK e : e = h.segms[n + 1][c + 1]
  OBVIOUS
<1> HIDE DEF A, B
<1>10. Len(B) = Len(A) + 1 /\ (\A i \in 1..Len(A) : B[i] = A[i]) /\ B[Len(A) + 1] = e
  <2>1. Len(B) = Len(A) + 1
    BY <1>5, <1>8
  <2>2. ASSUME NEW i \in 1..Len(A) PROVE B[i] = A[i]
    <3>1. i \in 1..Pile!Size(l) /\ i \in 1..Pile!Size(h)
      BY <1>0, <1>5, <1>8
    <3> QED
      BY <1>7, <1>8, <3>1
  <2>3. B[Len(A) + 1] = e
    <3>1. Pile!Size(l) + 1 \in 1..Pile!Size(h) /\ (Pile!Size(l) + 1) - 1 = Pile!Size(l)
      BY <1>0, <1>5
    <3>2. B[Pile!Size(l) + 1] = Cell(h, Pile!Size(l))
      BY <1>8, <3>1
    <3> QED
      BY <1>6, <1>8, <1>9, <3>2
  <2> QED
    BY <2>1, <2>2, <2>3
<1>11. e \in V
  <2>1. Len(A) + 1 \in 1..Len(B) /\ B \in Seq(V)
    BY <1>8, <1>10
  <2> QED
    BY <1>10, <2>1
<1>12. B = Append(A, e)
  BY <1>8, <1>10, <1>11
<1> QED
  BY <1>9, <1>12 DEF A, B

\* borLifoPush writes into a stack with room behind the top element: place cur of
\* the last segment.
PileRoom(l) ==
  IF Pile!IsEmpty(l) \/ l.cur + 1 > SegCap THEN Pile!AddSegment(l) ELSE [l EXCEPT !.cur = @ + 1]

\* Where that is, in each of the three cases.
LEMMA PileRoomShape ==
  ASSUME NEW V, Junk \in V, NEW l \in Piles(V)
  PROVE  /\ PileRoom(l) \in Piles(V)
         /\ \E n \in Nat, c \in 0..(SegCap - 1) :
              /\ Len(PileRoom(l).segms) = n + 1 /\ PileRoom(l).cur = c + 1
              /\ Pile!Size(l) = Place(n, c) /\ Len(l.segms) <= n + 1
              /\ \A q \in 1..Len(l.segms) : PileRoom(l).segms[q] = l.segms[q]
<1> DEFINE fresh == [i \in 1..SegCap |-> Junk]
<1>0. fresh \in [1..SegCap -> V] /\ l.segms \in Seq([1..SegCap -> V]) /\ Len(l.segms) \in Nat
  BY PileSize
<1>1. CASE Pile!IsEmpty(l) \/ l.cur + 1 > SegCap
  <2>1. PileRoom(l) = [segms |-> Append(l.segms, fresh), cur |-> 1]
    BY <1>1 DEF PileRoom, Pile!AddSegment
  <2> HIDE DEF fresh
  <2>2. /\ Append(l.segms, fresh) \in Seq([1..SegCap -> V]) /\ Append(l.segms, fresh) # <<>>
        /\ Len(Append(l.segms, fresh)) = Len(l.segms) + 1
        /\ \A q \in 1..Len(l.segms) : Append(l.segms, fresh)[q] = l.segms[q]
    BY <1>0
  <2>3. PileRoom(l) \in Piles(V)
    BY <2>1, <2>2 DEF Piles
  <2>4. Pile!Size(l) = Place(Len(l.segms), 0)
    <3>1. CASE Pile!IsEmpty(l)
      <4>1. Pile!Size(l) = 0 /\ Len(l.segms) = 0
        BY <3>1, PileSize
      <4> QED
        BY <4>1 DEF Place
    <3>2. CASE ~Pile!IsEmpty(l)
      <4>1. PICK n \in Nat : Len(l.segms) = n + 1 /\ Pile!Size(l) = Place(n, l.cur)
        BY <3>2, PilePlace
      <4>2. l.cur = SegCap
        <5>1. l.cur \in 1..SegCap
          BY <3>2, PilePlace
        <5> QED
          BY <1>1, <3>2, <5>1
      <4> QED
        BY <4>1, <4>2, PlaceSteps
    <3> QED
      BY <3>1, <3>2
  <2>5. Len(l.segms) \in Nat /\ 0 \in 0..(SegCap - 1) /\ 0 + 1 = 1 /\ Len(l.segms) <= Len(l.segms) + 1
    BY <1>0
  <2>6. PICK n \in Nat, c \in 0..(SegCap - 1) : n = Len(l.segms) /\ c = 0
    BY <2>5
  <2>7. /\ Len(PileRoom(l).segms) = n + 1 /\ PileRoom(l).cur = c + 1
        /\ Pile!Size(l) = Place(n, c) /\ Len(l.segms) <= n + 1
        /\ \A q \in 1..Len(l.segms) : PileRoom(l).segms[q] = l.segms[q]
    BY <2>1, <2>2, <2>4, <2>5, <2>6
  <2> QED
    BY <2>3, <2>7
<1>2. CASE ~(Pile!IsEmpty(l) \/ l.cur + 1 > SegCap)
  <2>1. l.cur \in 1..SegCap /\ l.segms # <<>>
    BY <1>2, PilePlace
  <2>2. PileRoom(l) = [segms |-> l.segms, cur |-> l.cur + 1]
    BY <1>2 DEF PileRoom, Piles
  <2>3. l.cur \in 0..(SegCap - 1) /\ l.cur + 1 \in 0..SegCap /\ l.cur + 1 # 0
    BY <1>2, <2>1
  <2>4. PileRoom(l) \in Piles(V)
    BY <1>0, <2>1, <2>2, <2>3 DEF Piles
  <2>5. PICK n \in Nat : Len(l.segms) = n + 1 /\ Pile!Size(l) = Place(n, l.cur)
    BY <1>2, PilePlace
  <2> QED
    BY <2>2, <2>3, <2>4, <2>5
<1> QED
  BY <1>1, <1>2

\* borLifoPush puts the element on top, whether or not a segment is full.
LEMMA PilePush ==
  ASSUME NEW V, Junk \in V, NEW l \in Piles(V), NEW x \in V
  PROVE  /\ Pile!Push(l, x) \in Piles(V)
         /\ Pile!Contents(Pile!Push(l, x)) = Append(Pile!Contents(l), x)
<1>1. PICK g \in Piles(V) : g = PileRoom(l)
  BY PileRoomShape
<1>2. PICK n \in Nat, c \in 0..(SegCap - 1) :
        /\ Len(g.segms) = n + 1 /\ g.cur = c + 1
        /\ Pile!Size(l) = Place(n, c) /\ Len(l.segms) <= n + 1
        /\ \A q \in 1..Len(l.segms) : g.segms[q] = l.segms[q]
  BY <1>1, PileRoomShape
<1>3. Pile!Push(l, x) = [g EXCEPT !.segms[Len(g.segms)][g.cur] = x]
  BY <1>1, Zenon DEF Pile!Push, PileRoom
<1> DEFINE t == [g.segms EXCEPT ![n + 1] = [g.segms[n + 1] EXCEPT ![c + 1] = x]]
<1>4. Pile!Push(l, x) = [g EXCEPT !.segms = t]
  <2>1. [g EXCEPT !.segms[n + 1][c + 1] = x] = [g EXCEPT !.segms = t]
    OBVIOUS
  <2> QED
    BY <1>2, <1>3, <2>1
<1>5. g.segms \in Seq([1..SegCap -> V]) /\ n + 1 \in 1..Len(g.segms) /\ c + 1 \in 1..SegCap
  <2>1. g.segms \in Seq([1..SegCap -> V])
    BY PileSize
  <2> QED
    BY <1>2, <2>1
<1>6. [g.segms[n + 1] EXCEPT ![c + 1] = x] \in [1..SegCap -> V]
  BY <1>5
<1>7. /\ t \in Seq([1..SegCap -> V]) /\ Len(t) = n + 1 /\ t # <<>>
      /\ t[n + 1][c + 1] = x
      /\ \A q \in 1..(n + 1), s \in 1..SegCap : ~(q = n + 1 /\ s = c + 1) => t[q][s] = g.segms[q][s]
  BY <1>2, <1>5, <1>6
<1> HIDE DEF t
<1>8. Pile!Push(l, x) = [segms |-> t, cur |-> c + 1]
  BY <1>2, <1>4 DEF Piles
<1>9. PICK h : h = Pile!Push(l, x)
  OBVIOUS
<1>10. h.segms = t /\ h.cur = c + 1 /\ h \in Piles(V)
  BY <1>5, <1>7, <1>8, <1>9 DEF Piles
<1>11. \A q \in 1..Len(l.segms), s \in 1..SegCap :
         ~(q = n + 1 /\ s = c + 1) => h.segms[q][s] = l.segms[q][s]
  <2>1. Len(l.segms) \in Nat
    BY PileSize
  <2>2. \A q \in 1..Len(l.segms) : q \in 1..(n + 1)
    BY <1>2, <2>1
  <2> QED
    BY <1>2, <1>7, <1>10, <2>2
<1>12. OneMore(h, l, n, c)
  BY <1>2, <1>7, <1>10, <1>11 DEF OneMore
<1>13. Pile!Contents(h) = Append(Pile!Contents(l), h.segms[n + 1][c + 1])
  BY <1>10, <1>12, PileGrows
<1> QED
  BY <1>7, <1>9, <1>10, <1>13

\* What borLifoPop leaves: place c of the segment after n others is free again.
LEMMA PilePopShape ==
  ASSUME NEW V, NEW l \in Piles(V), NEW n \in Nat, NEW c \in 0..(SegCap - 1),
         ~Pile!IsEmpty(l), Len(l.segms) = n + 1, l.cur = c + 1
  PROVE  Pile!Pop(l) \in Piles(V) /\ OneMore(l, Pile!Pop(l), n, c)
<1>0. PICK h : h = Pile!Pop(l)
  OBVIOUS
<1>1. l.segms \in Seq([1..SegCap -> V]) /\ l.segms # <<>>
  BY PilePlace
<1>2. ASSUME c > 0 PROVE h \in Piles(V) /\ OneMore(l, h, n, c)
  <2>1. h = [segms |-> l.segms, cur |-> c]
    <3>1. l.cur > 1 /\ l.cur - 1 = c
      BY <1>2
    <3>2. h = [l EXCEPT !.cur = l.cur - 1]
      BY <1>0, <3>1 DEF Pile!Pop
    <3> QED
      BY <3>1, <3>2 DEF Piles
  <2>2. h \in Piles(V) /\ ~Pile!IsEmpty(h) /\ Len(h.segms) = n + 1
    BY <1>1, <1>2, <2>1 DEF Piles, Pile!IsEmpty
  <2>3. PICK m \in Nat : Len(h.segms) = m + 1 /\ Pile!Size(h) = Place(m, h.cur)
    BY <2>2, PilePlace
  <2>4. m = n
    BY <2>2, <2>3
  <2> QED
    BY <2>1, <2>2, <2>3, <2>4 DEF OneMore
<1>3. ASSUME c = 0 PROVE h \in Piles(V) /\ OneMore(l, h, n, c)
  <2> DEFINE t == SubSeq(l.segms, 1, Len(l.segms) - 1)
  <2>1. h = [segms |-> t, cur |-> IF Len(l.segms) = 1 THEN 0 ELSE SegCap]
    BY <1>0, <1>3 DEF Pile!Pop, Pile!Front
  <2>2. t \in Seq([1..SegCap -> V]) /\ Len(t) = n /\ \A q \in 1..n : t[q] = l.segms[q]
    BY <1>1
  <2> HIDE DEF t
  <2>3. CASE n = 0
    <3>1. t = <<>>
      BY <2>2, <2>3
    <3>2. h = [segms |-> <<>>, cur |-> 0]
      BY <2>1, <2>3, <3>1
    <3>3. h \in Piles(V) /\ Pile!IsEmpty(h) /\ Len(h.segms) = 0
      BY <3>2 DEF Piles, Pile!IsEmpty
    <3>4. Pile!Size(h) = 0 /\ Place(n, c) = 0
      <4>1. Pile!Size(h) = 0
        BY <3>3, PileSize
      <4>2. Place(0, 0) = 0
        BY DEF Place
      <4> QED
        BY <1>3, <2>3, <4>1, <4>2
    <3> QED
      BY <2>3, <3>3, <3>4 DEF OneMore
  <2>4. CASE n # 0
    <3>1. h = [segms |-> t, cur |-> SegCap] /\ t # <<>>
      BY <2>1, <2>2, <2>4
    <3>2. h \in Piles(V) /\ ~Pile!IsEmpty(h) /\ Len(h.segms) = n
      BY <2>2, <3>1 DEF Piles, Pile!IsEmpty
    <3>3. PICK m \in Nat : Len(h.segms) = m + 1 /\ Pile!Size(h) = Place(m, h.cur)
      BY <3>2, PilePlace
    <3>4. n = m + 1 /\ h.cur = SegCap
      BY <3>1, <3>2, <3>3
    <3>5. Pile!Size(h) = Place(n, c)
      BY <1>3, <3>3, <3>4, PlaceSteps
    <3> QED
      BY <2>2, <3>1, <3>2, <3>5 DEF OneMore
  <2> QED
    BY <2>3, <2>4
<1>4. c > 0 \/ c = 0
  OBVIOUS
<1> QED
  BY <1>0, <1>2, <1>3, <1>4

\* borLifoPop takes the top element off, also when it was the only one of its
\* segment, which is freed; an empty stack stays as it is.
LEMMA PilePop ==
  ASSUME NEW V, NEW l \in Piles(V)
  PROVE  /\ Pile!Pop(l) \in Piles(V)
         /\ Pile!IsEmpty(l) => Pile!Pop(l) = l
         /\ ~Pile!IsEmpty(l) =>
              \E x \in V : Pile!Contents(l) = Append(Pile!Contents(Pile!Pop(l)), x)
<1>1. CASE Pile!IsEmpty(l)
  BY <1>1 DEF Pile!Pop
<1>2. CASE ~Pile!IsEmpty(l)
  <2>1. PICK n \in Nat : Len(l.segms) = n + 1
    BY <1>2, PilePlace
  <2>2. l.cur \in 1..SegCap /\ l.segms \in Seq([1..SegCap -> V])
    BY <1>2, PilePlace
  <2>3. PICK c \in 0..(SegCap - 1) : l.cur = c + 1
    <3>1. l.cur - 1 \in 0..(SegCap - 1) /\ l.cur = (l.cur - 1) + 1
      BY <2>2
    <3> QED
      BY <3>1
  <2>4. Pile!Pop(l) \in Piles(V) /\ OneMore(l, Pile!Pop(l), n, c)
    BY <1>2, <2>1, <2>3, PilePopShape
  <2>5. Pile!Contents(l) = Append(Pile!Contents(Pile!Pop(l)), l.segms[n + 1][c + 1])
    BY <2>4, PileGrows
  <2>6. l.segms[n + 1][c + 1] \in V
    BY <2>1, <2>2
  <2> QED
    BY <1>2, <2>4, <2>5, <2>6
<1> QED
  BY <1>1, <1>2

\* What the stack holds, from the bottom.
Held == Pile!Contents(fifo)

Stack == INSTANCE Collections WITH
  Nodes <- {}, Keys <- {}, Values <- {}, Names <- {}, inside <- Held, result <- None

\* lifo.c keeps its elements in one sequence: borLifoPush appends, borLifoPop takes
\* the last one off, borLifoClear leaves none.
StackPromise == Held = <<>> /\ [][Stack!StackNext]_Held

\* What always holds of the stack.
PileOK == fifo \in Piles(Values) /\ Held \in Seq(Elements)

\* A new stack, and a cleared one, holds nothing.
LEMMA PileEmpty == Pile!EmptyLifo \in Piles(Values) /\ Pile!Contents(Pile!EmptyLifo) = <<>>
<1>1. Pile!EmptyLifo \in Piles(Values) /\ Pile!IsEmpty(Pile!EmptyLifo)
  BY DEF Pile!EmptyLifo, Piles, Pile!IsEmpty
<1>2. Pile!Size(Pile!EmptyLifo) = 0
  BY <1>1, PileSize
<1> QED
  BY <1>1, <1>2, PileContents

\* Every call on the stack is a call of the promise, or changes nothing.
LEMMA PileStep == PileOK /\ [Pile!Next]_fifo => PileOK' /\ [Stack!StackNext]_Held
<1> SUFFICES ASSUME PileOK, [Pile!Next]_fifo PROVE PileOK' /\ [Stack!StackNext]_Held
  OBVIOUS
<1>0. fifo \in Piles(Values) /\ Held \in Seq(Elements) /\ Junk \in Values
  BY DEF PileOK, Values
<1>1. ASSUME NEW x \in Elements, Pile!PushCall(x) PROVE PileOK' /\ Stack!StackNext
  <2>1. fifo' = Pile!Push(fifo, x) /\ x \in Values
    BY <1>1 DEF Pile!PushCall, Values
  <2>2. fifo' \in Piles(Values) /\ Held' = Append(Held, x)
    BY <1>0, <2>1, PilePush DEF Held
  <2> QED
    BY <1>0, <2>2 DEF PileOK, Stack!StackNext, Stack!Push
<1>2. ASSUME Pile!PopCall PROVE PileOK' /\ [Stack!StackNext]_Held
  <2>1. fifo' = Pile!Pop(fifo)
    BY <1>2 DEF Pile!PopCall
  <2>2. CASE Pile!IsEmpty(fifo)
    <3>1. fifo' = fifo
      BY <1>0, <2>1, <2>2, PilePop
    <3> QED
      BY <1>0, <3>1 DEF PileOK, Held
  <2>3. CASE ~Pile!IsEmpty(fifo)
    <3>1. PICK x \in Values : Held = Append(Held', x) /\ fifo' \in Piles(Values)
      BY <1>0, <2>1, <2>3, PilePop DEF Held
    <3>2. Held' \in Seq(Values)
      BY <3>1, PileContents DEF Held
    <3>3. PICK n \in Nat : n = Len(Held')
      BY <3>2
    <3>4. Len(Held) = n + 1 /\ \A i \in 1..n : Held[i] = Held'[i]
      BY <3>1, <3>2, <3>3
    <3>5. Held # <<>> /\ Held' = SubSeq(Held, 1, Len(Held) - 1)
      BY <3>1, <3>2, <3>3, <3>4
    <3>6. Held' \in Seq(Elements)
      BY <1>0, <3>5
    <3> QED
      BY <3>1, <3>5, <3>6 DEF PileOK, Stack!StackNext, Stack!Pop, Stack!Front
  <2> QED
    BY <2>2, <2>3
<1>3. ASSUME Pile!Clear PROVE PileOK' /\ Stack!StackNext
  BY <1>3, PileEmpty DEF Pile!Clear, PileOK, Held, Stack!StackNext, Stack!Empty
<1>4. CASE UNCHANGED fifo
  BY <1>0, <1>4 DEF PileOK, Held
<1> QED
  BY <1>1, <1>2, <1>3, <1>4 DEF Pile!Next

\* A new stack is an empty one.
LEMMA InitPile == Pile!Init => PileOK /\ Held = <<>>
BY PileEmpty DEF Pile!Init, PileOK, Held

\* lifo.c is a stack: what was pushed last leaves first, and nothing is lost or
\* left over where a segment ends, is added or is freed.
THEOREM LastLeavesFirst == Pile!Spec => StackPromise
BY InitPile, PileStep, PTL DEF Pile!Spec, StackPromise

\* cur stays inside the last segment, which is there as long as the stack is not
\* empty; borLifoBack is the last element, and an element that was pushed.
THEOREM PileWellFormed == ASSUME Junk \notin Elements PROVE Pile!Spec => []Pile!WellFormed(fifo)
<1>1. PileOK => Pile!WellFormed(fifo)
  <2> SUFFICES ASSUME PileOK PROVE Pile!WellFormed(fifo)
    OBVIOUS
  <2>1. fifo \in Piles(Values) /\ Held \in Seq(Elements)
    BY DEF PileOK
  <2>2. CASE Pile!IsEmpty(fifo)
    BY <2>1, <2>2 DEF Pile!WellFormed, Pile!IsEmpty, Piles
  <2>3. CASE ~Pile!IsEmpty(fifo)
    <3>1. PICK n \in Nat : Len(fifo.segms) = n + 1 /\ Pile!Size(fifo) = Place(n, fifo.cur)
      BY <2>1, <2>3, PilePlace
    <3>2. fifo.cur \in 1..SegCap /\ Pile!Size(fifo) \in Nat /\ Pile!Size(fifo) # 0
      BY <2>1, <2>3, PileSize, PilePlace
    <3>3. Len(Held) = Pile!Size(fifo) /\ Held[Pile!Size(fifo)] = Cell(fifo, Pile!Size(fifo) - 1)
      BY <2>1, <3>2, PileContents DEF Held
    <3>4. PICK c \in 0..(SegCap - 1) : fifo.cur = c + 1
      <4>1. fifo.cur - 1 \in 0..(SegCap - 1) /\ fifo.cur = (fifo.cur - 1) + 1
        BY <3>2
      <4> QED
        BY <4>1
    <3>5. c \in Nat /\ c < SegCap
      OBVIOUS
    <3>6. Place(n, c) \in Nat /\ Pile!Size(fifo) = Place(n, c) + 1
      BY <3>1, <3>4, <3>5, PlaceSteps
    <3>7. Cell(fifo, Pile!Size(fifo) - 1) = fifo.segms[n + 1][fifo.cur]
      <4>1. Pile!Size(fifo) - 1 = Place(n, c)
        BY <3>6
      <4> QED
        BY <3>4, <4>1, CellAt
    <3>8. Pile!Back(fifo) = Pile!Last(Held)
      BY <3>1, <3>3, <3>7 DEF Pile!Back, Pile!Last
    <3>9. Junk \notin Pile!Range(Held)
      BY <2>1 DEF Pile!Range
    <3> QED
      BY <2>3, <3>2, <3>8, <3>9 DEF Pile!WellFormed, Held
  <2> QED
    BY <2>2, <2>3
<1>2. PileOK /\ [Pile!Next]_fifo => PileOK'
  BY PileStep
<1> QED
  BY <1>1, <1>2, InitPile, PTL DEF Pile!Spec
=============================================================================
