------------------------------- MODULE Arrays -------------------------------
(***************************************************************************)
(* The arrays that grow: the template _arr.h, the arrays of varr.h, the    *)
(* extendable array extarr.c on the segments of segmarr.c, and the point   *)
(* cloud pc.c on its chunks.  Memory that was allocated and never written  *)
(* holds Junk, memory that is left keeps its content.  result is the last  *)
(* call: its name, its argument and its answer.                            *)
(***************************************************************************)
EXTENDS Integers, Sequences, FiniteSets, SequencesExt

CONSTANTS
  Values,        \* what is stored: pairs, as the points of a cloud are
  MaxSize,       \* bound on the number of elements
  PerSegment,    \* els_per_segm
  MinChunk, PointSize, PageSize, MemHeader, Align,   \* of a chunk, in bytes
  Junk, None

VARIABLES store, result

vars == <<store, result>>

Indices == 0 .. MaxSize - 1
Garbage(n) == [i \in 1 .. n |-> Junk]
Answer(call, x, y) == result' = <<call, x, y>>

-----------------------------------------------------------------------------
(* _arr.h and varr.h: a block of slots, the first size of them in use.     *)

Block(kind, n) == [kind |-> kind, mem |-> Garbage(n), size |-> 0]
Alloc(a) == Len(a.mem)

RECURSIVE Enough(_, _)
Enough(alloc, size) ==
  IF size <= alloc THEN alloc ELSE Enough(2 * (IF alloc = 0 THEN 1 ELSE alloc), size)

Realloc(a, size) == [a EXCEPT !.mem = @ \o Garbage(Enough(Len(@), size) - Len(@))]

\* borVArrExpand: an empty block begins with BOR_VARR_INIT_SIZE.
Expand(a) ==
  LET alloc == 2 * (IF Alloc(a) = 0 THEN 2 ELSE Alloc(a))
  IN [a EXCEPT !.mem = @ \o Garbage(alloc - Len(@))]

\* A bug the checks must find: a shrinking block keeps its size.
ResizeUp(a, size) ==
  LET b == IF size > Alloc(a) THEN Realloc(a, size) ELSE a
  IN [b EXCEPT !.size = IF size > @ THEN size ELSE @]

Resize(a, size) ==
  LET b == IF size > Alloc(a) THEN Realloc(a, size) ELSE a IN [b EXCEPT !.size = size]

Put(a, i, v) == [a EXCEPT !.mem[i + 1] = v]

Roomy(a) ==
  CASE a.size # Alloc(a) -> a
    [] a.size = Alloc(a) /\ a.kind = "arr" -> Realloc(a, a.size + 1)
    [] a.size = Alloc(a) /\ a.kind = "varr" -> Expand(a)

Add(v) ==
  /\ store.kind \in {"arr", "varr"} /\ store.size < MaxSize
  /\ store' = [Put(Roomy(store), store.size, v) EXCEPT !.size = @ + 1]
  /\ Answer("add", v, store.size)

\* The elements move up from the last to the first.
Prepend(v) ==
  /\ store.kind = "arr" /\ store.size < MaxSize
  /\ LET b == Roomy(store)
         n == store.size
     IN store' = [b EXCEPT !.size = n + 1,
                    !.mem = <<v>> \o SubSeq(b.mem, 1, n) \o SubSeq(b.mem, n + 2, Alloc(b))]
  /\ Answer("prepend", v, None)

SetAt(i, v) ==
  /\ store.kind = "arr" \/ (store.kind = "varr" /\ i < store.size)
  /\ store' = Put(IF store.size <= i THEN Resize(store, i + 1) ELSE store, i, v)
  /\ Answer("set", <<i, v>>, None)

ResizeCall(n) ==
  /\ store.kind = "arr"
  /\ store' = Resize(store, n)
  /\ Answer("resize", n, None)

RmLast ==
  /\ store.kind = "arr"
  /\ store' = [store EXCEPT !.size = IF @ > 0 THEN @ - 1 ELSE @]
  /\ Answer("rmlast", None, None)

PopLast ==
  /\ store.kind = "arr" /\ store.size > 0
  /\ store' = [store EXCEPT !.size = @ - 1]
  /\ Answer("pop", None, store.mem[store.size])

Empty ==
  /\ store.kind = "arr"
  /\ store' = [store EXCEPT !.size = 0]
  /\ Answer("empty", None, None)

\* The first half changes places with the last.
ReverseCall ==
  /\ store.kind = "arr"
  /\ store' = [store EXCEPT !.mem = Reverse(SubSeq(@, 1, store.size)) \o SubSeq(@, store.size + 1, Len(@))]
  /\ Answer("reverse", None, None)

\* The block may be appended to itself: it is read after it has moved.
AppendArr(app) ==
  /\ store.kind = "arr" /\ store.size + Len(app) <= MaxSize
  /\ LET b == Realloc(store, store.size + Len(app))
     IN store' = [b EXCEPT !.size = @ + Len(app),
                    !.mem = SubSeq(@, 1, b.size) \o app \o SubSeq(@, b.size + Len(app) + 1, Len(@))]
  /\ Answer("append", app, None)

\* BOR_VARR_REMOVE: the last element takes the place.
Remove1(i) ==
  /\ store.kind = "varr" /\ i < store.size
  /\ store' = [Put(store, i, store.mem[store.size]) EXCEPT !.size = @ - 1]
  /\ Answer("remove", i, None)

-----------------------------------------------------------------------------
(* segmarr.c and extarr.c: segments that never move, size elements that    *)
(* have been asked for, each initialised before it is first returned.      *)

Extendable(init) == [kind |-> "extarr", segm |-> <<>>, alloc |-> 0, size |-> 0, init |-> init]

InitOf(a, i) == IF a.init = "fn" THEN <<i, i>> ELSE <<0, 0>>

ExpandSegments(a, n) ==
  IF n <= Len(a.segm) THEN a
  ELSE [a EXCEPT !.alloc = IF @ >= n THEN @ ELSE IF 2 * @ >= n THEN 2 * @ ELSE n,
                 !.segm = @ \o [k \in 1 .. n - Len(@) |-> Garbage(PerSegment)]]

Reached(a, i) == ExpandSegments(a, (i \div PerSegment) + 1)
At(a, i) == a.segm[(i \div PerSegment) + 1][(i % PerSegment) + 1]
Write(a, i, v) == [Reached(a, i) EXCEPT !.segm[(i \div PerSegment) + 1][(i % PerSegment) + 1] = v]

RECURSIVE Initialise(_, _, _)
Initialise(a, i, end) == IF i > end THEN a ELSE Initialise(Write(a, i, InitOf(a, i)), i + 1, end)

\* A bug the checks must find: the new elements are not initialised.
ExtendBare(a, i) == [a EXCEPT !.size = i + 1]

Extend(a, i) ==
  [(IF a.init = "none" THEN a ELSE Initialise(a, a.size, i)) EXCEPT !.size = i + 1]

\* borExtArrGet, whose answer a program reads or writes through.
Got(a, i) == Reached(IF i >= a.size THEN Extend(a, i) ELSE a, i)

GetEl(i) ==
  /\ store.kind = "extarr"
  /\ store' = Got(store, i)
  /\ Answer("get", i, At(store', i))

SetEl(i, v) ==
  /\ store.kind = "extarr"
  /\ store' = Write(Got(store, i), i, v)
  /\ Answer("set", <<i, v>>, None)

ExtendCall(i) ==
  /\ store.kind = "extarr"
  /\ store' = Extend(store, i)
  /\ Answer("extend", i, None)

RECURSIVE Copied(_, _, _)
Copied(to, from, i) ==
  IF i = from.size THEN to ELSE Copied(Write(to, i, At(from, i)), from, i + 1)

\* The program goes on with the clone.
CloneCall ==
  /\ store.kind = "extarr"
  /\ LET from == IF store.size = 0 THEN store ELSE Reached(store, store.size - 1)
     IN store' = Copied([Extendable(store.init) EXCEPT !.size = store.size], from, 0)
  /\ Answer("clone", None, None)

-----------------------------------------------------------------------------
(* pc.c: points in chunks of whole pages, and an iterator over them.       *)

\* What borPCMemNew leaves of its pages behind the aligned header, in points.
MemSize(min, el) ==
  LET bytes == (((min * el + MemHeader) \div PageSize) + 1) * PageSize
      data == ((MemHeader + Align - 1) \div Align) * Align
  IN (bytes - data) \div el

Cloud == [kind |-> "cloud", chunks |-> <<>>, len |-> 0, it |-> None]

\* An iterator that stands behind the last point does not survive borPCAdd.
ItEnd(c, it) == it.mem = Len(c.chunks) /\ it.pos >= Len(c.chunks[it.mem])

AddPoint(p) ==
  /\ store.kind = "cloud" /\ store.len < MaxSize
  /\ LET n == Len(store.chunks)
         full == n = 0 \/ Len(store.chunks[n]) >= MemSize(MinChunk, PointSize)
         chunks == IF full THEN Append(store.chunks, <<p>>)
                   ELSE [store.chunks EXCEPT ![n] = Append(@, p)]
     IN store' = [store EXCEPT !.chunks = chunks, !.len = @ + 1,
                    !.it = IF @ # None /\ ItEnd(store, @) THEN None ELSE @]
  /\ Answer("add", p, None)

RECURSIVE Place(_, _, _)
\* The n'th point counted from the start of chunk k: <<chunk, position>>.
Place(chunks, k, n) ==
  IF n < Len(chunks[k]) THEN <<k, n>> ELSE Place(chunks, k + 1, n - Len(chunks[k]))

PointAt(chunks, x) == chunks[x[1]][x[2] + 1]

GetPoint(n) ==
  /\ store.kind = "cloud"
  /\ UNCHANGED store
  /\ Answer("point", n, IF n >= store.len THEN None ELSE PointAt(store.chunks, Place(store.chunks, 1, n)))

Swapped(chunks, x, y) ==
  [[chunks EXCEPT ![x[1]][x[2] + 1] = PointAt(chunks, y)] EXCEPT ![y[1]][y[2] + 1] = PointAt(chunks, x)]

RECURSIVE Shuffles(_, _, _, _)
\* Every point changes places with one behind it; left is counted from chunk k.
Shuffles(chunks, k, pos, left) ==
  IF k > Len(chunks) THEN {chunks}
  ELSE IF pos < Len(chunks[k]) /\ left - pos > 1
  THEN UNION {Shuffles(Swapped(chunks, <<k, pos>>, Place(chunks, k, other)), k, pos + 1, left) :
                other \in pos + 1 .. left - 1}
  ELSE Shuffles(chunks, k + 1, 0, left - Len(chunks[k]))

Permutate ==
  /\ store.kind = "cloud"
  /\ \E chunks \in Shuffles(store.chunks, 1, 0, store.len) : store' = [store EXCEPT !.chunks = chunks]
  /\ Answer("permutate", None, None)

First == [mem |-> 1, pos |-> 0]
ItGet(c, it) == c.chunks[it.mem][it.pos + 1]

Next1(c, it) ==
  IF it.pos + 1 >= Len(c.chunks[it.mem]) /\ it.mem < Len(c.chunks)
  THEN [mem |-> it.mem + 1, pos |-> 0] ELSE [it EXCEPT !.pos = @ + 1]

\* A bug the checks must find: the chunk before is entered behind its last point.
PrevLate(c, it) ==
  IF it.pos = 0 /\ it.mem > 1 THEN [mem |-> it.mem - 1, pos |-> Len(c.chunks[it.mem - 1])]
  ELSE [it EXCEPT !.pos = @ - 1]

Prev1(c, it) ==
  IF it.pos = 0 /\ it.mem > 1 THEN [mem |-> it.mem - 1, pos |-> Len(c.chunks[it.mem - 1]) - 1]
  ELSE [it EXCEPT !.pos = @ - 1]

\* borPCItInit; an iterator over no chunk at all reads what is not its own.
ItInit ==
  /\ store.kind = "cloud" /\ store.chunks # <<>>
  /\ store' = [store EXCEPT !.it = First]
  /\ Answer("first", None, None)

ItNext ==
  /\ store.kind = "cloud" /\ store.it # None
  /\ ~ItEnd(store, store.it)
  /\ store' = [store EXCEPT !.it = Next1(store, @)]
  /\ Answer("next", None, None)

ItPrev ==
  /\ store.kind = "cloud" /\ store.it # None
  /\ store.it # First
  /\ store' = [store EXCEPT !.it = Prev1(store, @)]
  /\ Answer("prev", None, None)

RECURSIVE Walk(_, _)
Walk(c, it) == IF ItEnd(c, it) THEN <<>> ELSE <<ItGet(c, it)>> \o Walk(c, Next1(c, it))

Least(f) == CHOOSE x \in Range(f) : \A y \in Range(f) : x <= y
Greatest(f) == CHOOSE x \in Range(f) : \A y \in Range(f) : x >= y

\* borPCAABB walks over all points; a point is a pair.
AABB ==
  /\ store.kind = "cloud" /\ store.chunks # <<>>
  /\ UNCHANGED store
  /\ LET ps == Walk(store, First)
         xs == [k \in DOMAIN ps |-> ps[k][1]]
         ys == [k \in DOMAIN ps |-> ps[k][2]]
     IN Answer("aabb", None, <<Least(xs), Greatest(xs), Least(ys), Greatest(ys)>>)

-----------------------------------------------------------------------------

Init ==
  /\ \/ store = Block("arr", 0)
     \/ \E n \in {0, 3} : store = Block("varr", n)
     \/ \E init \in {"none", "value", "fn"} : store = Extendable(init)
     \/ store = Cloud
  /\ result = <<None, None, None>>

ArrNext ==
  \/ \E v \in Values : Add(v) \/ Prepend(v)
  \/ \E i \in Indices, v \in Values : SetAt(i, v)
  \/ \E n \in 0 .. MaxSize : ResizeCall(n)
  \/ \E i \in Indices : Remove1(i)
  \/ RmLast \/ PopLast \/ Empty \/ ReverseCall
  \/ \E app \in {<<>>, <<CHOOSE v \in Values : TRUE>>, SubSeq(store.mem, 1, store.size)} : AppendArr(app)

ExtNext ==
  \/ \E i \in Indices : GetEl(i) \/ ExtendCall(i)
  \/ \E i \in Indices, v \in Values : SetEl(i, v)
  \/ CloneCall

CloudNext ==
  \/ \E p \in Values : AddPoint(p)
  \/ \E n \in 0 .. MaxSize : GetPoint(n)
  \/ Permutate \/ ItInit \/ ItNext \/ ItPrev \/ AABB

Next ==
  \/ store.kind \in {"arr", "varr"} /\ ArrNext
  \/ store.kind = "extarr" /\ ExtNext
  \/ store.kind = "cloud" /\ CloudNext

Spec == Init /\ [][Next]_vars

-----------------------------------------------------------------------------
(* What they promise.                                                      *)

Contents(a) ==
  CASE a.kind \in {"arr", "varr"} -> SubSeq(a.mem, 1, a.size)
    [] a.kind = "extarr" -> [i \in 1 .. a.size |-> At(Reached(a, a.size), i - 1)]
    [] a.kind = "cloud" -> FlattenSeq(a.chunks)

\* The slots and segments suffice for the elements, and every element that an
\* initialised array has returned was written.
WellFormed(a) ==
  CASE a.kind \in {"arr", "varr"} -> a.size <= Alloc(a)
    [] a.kind = "extarr" ->
         Len(a.segm) <= a.alloc /\ (a.init # "none" => Junk \notin Range(Contents(a)))
    [] a.kind = "cloud" ->
         /\ a.len = Len(Contents(a))
         /\ \A k \in 1 .. Len(a.chunks) - 1 : Len(a.chunks[k]) = MemSize(MinChunk, PointSize)

\* A chunk has room for the points that were asked for, and the iterator is
\* at a point until it is at the end, from which it comes back the way it went.
WalksRight(a) ==
  a.kind = "cloud" =>
    /\ \A min \in 1 .. 3, el \in 1 .. 3 : MemSize(min, el * PointSize) >= min
    /\ a.it # None /\ ~ItEnd(a, a.it) =>
         /\ a.it.pos < Len(a.chunks[a.it.mem])
         /\ Prev1(a, Next1(a, a.it)) = a.it
    /\ a.chunks # <<>> => Walk(a, First) = Contents(a)

Count(s, x) == Cardinality({i \in DOMAIN s : s[i] = x})

\* Old elements that are still there stayed as they were; new ones have their
\* initial value where the array has one.  Those at but are not looked at.
Stayed(old, new, but) ==
  \A i \in DOMAIN new \ but :
    IF i <= Len(old) THEN new[i] = old[i]
    ELSE store.kind = "extarr" /\ store.init # "none" => new[i] = InitOf(store, i - 1)
Resized(old, new, n, but) == Len(new) = n /\ Stayed(old, new, but)

Longer(old, i) == IF i < Len(old) THEN Len(old) ELSE i + 1

\* Every call does to the elements what its name says; borExtArrResize gives an
\* array of at least the elements asked for, which may be fewer than before.
Promised ==
  LET old == Contents(store)
      new == Contents(store')
      call == result'[1]
      x == result'[2]
      answer == result'[3]
  IN CASE call = "add" -> new = Append(old, x) /\ answer \in {None, Len(old)}
       [] call = "prepend" -> new = <<x>> \o old
       [] call = "set" ->
            /\ new[x[1] + 1] = x[2]
            /\ Resized(old, new, Longer(old, x[1]), {x[1] + 1})
       [] call = "get" -> Resized(old, new, Longer(old, x), {}) /\ answer = new[x + 1]
       [] call = "resize" -> Resized(old, new, x, {})
       [] call = "extend" -> Len(new) >= x /\ Stayed(old, new, {})
       [] call = "pop" -> new = Front(old) /\ answer = Last(old)
       [] call = "rmlast" -> new = IF old = <<>> THEN old ELSE Front(old)
       [] call = "empty" -> new = <<>>
       [] call = "reverse" -> new = Reverse(old)
       [] call = "append" -> new = old \o x
       [] call = "remove" ->
            LET moved == [old EXCEPT ![x + 1] = Last(old)] IN new = Front(moved)
       [] call = "permutate" -> \A v \in Values : Count(new, v) = Count(old, v)
       [] call = "point" -> new = old /\ answer = IF x < Len(old) THEN old[x + 1] ELSE None
       [] call = "aabb" ->
            /\ new = old
            /\ \A v \in Range(old) : /\ answer[1] <= v[1] /\ v[1] <= answer[2]
                                     /\ answer[3] <= v[2] /\ v[2] <= answer[4]
            /\ \A k \in 1 .. 4 : \E v \in Range(old) : v[(k + 1) \div 2] = answer[k]
       [] OTHER -> new = old
=============================================================================
