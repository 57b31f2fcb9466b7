------------------------------- MODULE Sorting -------------------------------
(***************************************************************************)
(* The sorts of sort.h: src/sort.c, qsort.c, heapsort.c, mergesort.c,      *)
(* listsort.c and timsort.  An element is <<key, place, sign>>: its key,   *)
(* the place it came from and the sign bit of the key as a real number,    *)
(* which is also set in negative zero.  Arrays and lists are sequences.    *)
(* Block sizes that only decide which path is taken are scaled down.       *)
(***************************************************************************)
EXTENDS Integers, SequencesExt, FiniteSetsExt

CONSTANTS
  Inputs,        \* arrays to sort
  Digits, Base,  \* sizeof(bor_real_t) and 256: bytes of a key and their values
  From, To,      \* range of keys for the counting sort
  QSmall, QLarge,    \* 7 and 40: when quicksort takes insertion, one or three medians
  MThreshold, MWins, \* THRESHOLD of mergesort and the 6 wins before it searches exponentially
  MinMerge, MinGallop, TmpLength,  \* MIN_MERGE, MIN_GALLOP, INITIAL_TMP_STORAGE_LENGTH
  None

VARIABLES store, result    \* the array given, and what a sort made of it

vars == <<store, result>>

\* The compare functions order by key.
Less(x, y) == x[1] < y[1]
Swap(a, i, j) == [a EXCEPT ![i] = a[j], ![j] = a[i]]
Pos(cond) == IF cond THEN 1 ELSE 0

-----------------------------------------------------------------------------
(* Insertion sort, in its three versions and on lists.                     *)

\* A bug the checks must find: an equal element is passed as well.
InsertedPastEqual(a, lo, i) ==
  LET ins == 1 + Max({lo - 1} \cup {j \in lo..(i - 1) : Less(a[j], a[i])})
  IN SubSeq(a, 1, ins - 1) \o <<a[i]>> \o SubSeq(a, ins, i - 1) \o SubSeq(a, i + 1, Len(a))

\* a[i] moves down to behind the last element of a[lo..i-1] that is not greater.
Inserted(a, lo, i) ==
  LET ins == 1 + Max({lo - 1} \cup {j \in lo..(i - 1) : ~Less(a[i], a[j])})
  IN SubSeq(a, 1, ins - 1) \o <<a[i]>> \o SubSeq(a, ins, i - 1) \o SubSeq(a, i + 1, Len(a))

RECURSIVE InsertFrom(_, _, _, _)
InsertFrom(a, lo, i, hi) ==
  IF i > hi THEN a ELSE InsertFrom(Inserted(a, lo, i), lo, i + 1, hi)

Sort2(a, i, j) == IF Less(a[j], a[i]) THEN Swap(a, i, j) ELSE a
Sort3(a) == Sort2(Sort2(Sort2(a, 1, 2), 2, 3), 1, 2)

InsertSort(a) ==
  CASE Len(a) <= 1 -> a
    [] Len(a) = 2 -> Sort2(a, 1, 2)
    [] Len(a) = 3 -> Sort3(a)
    [] OTHER -> InsertFrom(a, 1, 2, Len(a))

InsertSortInt(a) == IF Len(a) <= 1 THEN a ELSE InsertFrom(a, 1, 2, Len(a))

\* Items leave the front of the list for their place in another one.
ListInsertSort(a) ==
  LET RECURSIVE Out(_, _)
      Out(list, out) ==
        IF list = <<>> THEN out
        ELSE Out(Tail(list), Inserted(Append(out, Head(list)), 1, Len(out) + 1))
  IN IF Len(a) <= 1 THEN a ELSE Out(a, <<>>)

-----------------------------------------------------------------------------
(* Radix sort and counting sort.                                           *)

\* borRealAsUInt: the sign is the highest bit, so negative numbers are greater
\* than the others and the greater the further they are below zero.
RealAsUInt(e) == (IF e[1] < 0 THEN -e[1] ELSE e[1]) + e[3] * (Base ^ Digits \div 2)
RadixSortVal(e, shift) == (RealAsUInt(e) \div Base ^ shift) % Base

\* The place, from 0, that the counters give to src[i].
Counted(src, i, shift) ==
  LET val(j) == RadixSortVal(src[j], shift)
  IN Cardinality({j \in DOMAIN src : val(j) < val(i) \/ (val(j) = val(i) /\ j < i)})

\* src[i] goes to place at[i], counted from 0.
Placed(src, at) == [p \in DOMAIN src |-> src[CHOOSE i \in DOMAIN src : at[i] = p - 1]] \o <<>>

\* A bug the checks must find: the negative numbers are not turned round.
FinalPosUnturned(src, i, negative) ==
  LET pos == Counted(src, i, Digits - 1)
  IN IF pos >= Len(src) - negative THEN pos - (Len(src) - negative) ELSE negative + pos

\* In the last pass the negative numbers go to the front, in reverse.
FinalPos(src, i, negative) ==
  LET pos == Counted(src, i, Digits - 1)
  IN IF pos >= Len(src) - negative THEN Len(src) - pos - 1 ELSE negative + pos

RadixSort(a, desc) ==
  LET RECURSIVE Passes(_, _)
      Passes(src, shift) ==
        IF shift = Digits - 1 THEN src
        ELSE Passes(Placed(src, [i \in DOMAIN src |-> Counted(src, i, shift)] \o <<>>), shift + 1)
      src == Passes(a, 0)
      negative == Cardinality({i \in DOMAIN src : src[i][1] < 0})
      at(i) == FinalPos(src, i, negative)
  IN Placed(src, [i \in DOMAIN src |-> IF desc THEN Len(a) - 1 - at(i) ELSE at(i)] \o <<>>)

\* Counters run down while the array is read upwards.
CountSort(a) ==
  LET cnt(key) == Cardinality({j \in DOMAIN a : a[j][1] \in From..key})
      at(i) == cnt(a[i][1]) - 1 - Cardinality({j \in 1..(i - 1) : a[j][1] = a[i][1]})
  IN Placed(a, [i \in DOMAIN a |-> at(i)] \o <<>>)

-----------------------------------------------------------------------------
(* Heapsort.                                                               *)

GreaterChild(a, i, n) == 2 * i + Pos(2 * i < n /\ Less(a[2 * i], a[2 * i + 1]))

\* CREATE
RECURSIVE SiftDown(_, _, _)
SiftDown(a, i, n) ==
  LET c == GreaterChild(a, i, n)
  IN IF 2 * i > n \/ ~Less(a[i], a[c]) THEN a ELSE SiftDown(Swap(a, i, c), c, n)

\* SELECT: the greater children move up all the way, and k comes from below.
RECURSIVE Rise(_, _, _)
Rise(a, i, k) ==
  IF i = 1 \/ Less(k, a[i \div 2]) THEN [a EXCEPT ![i] = k]
  ELSE Rise([a EXCEPT ![i] = a[i \div 2]], i \div 2, k)
RECURSIVE Sink(_, _, _, _)
Sink(a, i, n, k) ==
  LET c == GreaterChild(a, i, n)
  IN IF 2 * i > n THEN Rise(a, i, k) ELSE Sink([a EXCEPT ![i] = a[c]], c, n, k)

HeapSort(a) ==
  LET RECURSIVE Create(_, _)
      Create(b, l) == IF l = 0 THEN b ELSE Create(SiftDown(b, l, Len(a)), l - 1)
      RECURSIVE Select(_, _)
      Select(b, n) ==
        IF n <= 1 THEN b ELSE Select(Sink([b EXCEPT ![n] = b[1]], 1, n - 1, b[n]), n - 1)
  IN IF Len(a) <= 1 THEN a ELSE Select(Create(a, Len(a) \div 2), Len(a))

-----------------------------------------------------------------------------
(* Quicksort.                                                              *)

Med3(a, x, y, z) ==
  IF Less(a[x], a[y])
  THEN IF Less(a[y], a[z]) THEN y ELSE IF Less(a[x], a[z]) THEN z ELSE x
  ELSE IF Less(a[z], a[y]) THEN y ELSE IF Less(a[x], a[z]) THEN x ELSE z

\* The place of the pivot in the n elements from lo.
Pivot(a, lo, n) ==
  LET d == n \div 8
      pl == lo
      pm == lo + n \div 2
      pn == lo + n - 1
  IN IF n = QSmall THEN pm
     ELSE IF n <= QLarge THEN Med3(a, pl, pm, pn)
     ELSE Med3(a, Med3(a, pl, pl + d, pl + 2 * d), Med3(a, pm - d, pm, pm + d),
               Med3(a, pn - 2 * d, pn - d, pn))

\* Both ends walk to the middle; what equals the pivot a[lo] goes to the ends.
RECURSIVE WalkUp(_, _), WalkDown(_, _), Partition(_, _)
WalkUp(p, lo) ==
  IF p.pb > p.pc \/ Less(p.a[lo], p.a[p.pb]) THEN p
  ELSE IF Less(p.a[p.pb], p.a[lo]) THEN WalkUp([p EXCEPT !.pb = @ + 1], lo)
  ELSE WalkUp([p EXCEPT !.a = Swap(@, p.pa, p.pb), !.pa = @ + 1, !.pb = @ + 1, !.swaps = 1], lo)
WalkDown(p, lo) ==
  IF p.pb > p.pc \/ Less(p.a[p.pc], p.a[lo]) THEN p
  ELSE IF Less(p.a[lo], p.a[p.pc]) THEN WalkDown([p EXCEPT !.pc = @ - 1], lo)
  ELSE WalkDown([p EXCEPT !.a = Swap(@, p.pc, p.pd), !.pd = @ - 1, !.pc = @ - 1, !.swaps = 1], lo)
Partition(p, lo) ==
  LET q == WalkDown(WalkUp(p, lo), lo)
  IN IF q.pb > q.pc THEN q
     ELSE Partition([q EXCEPT !.a = Swap(@, q.pb, q.pc), !.swaps = 1, !.pb = @ + 1, !.pc = @ - 1], lo)

VecSwap(a, i, j, r) ==
  [k \in DOMAIN a |-> IF k \in i..(i + r - 1) THEN a[k - i + j]
                      ELSE IF k \in j..(j + r - 1) THEN a[k - j + i] ELSE a[k]]

\* What equals the pivot comes back from the ends.
Joined(p, lo, pn) ==
  LET r1 == Min({p.pa - lo, p.pb - p.pa})
      r2 == Min({p.pd - p.pc, pn - p.pd - 1})
  IN VecSwap(VecSwap(p.a, lo, p.pb - r1, r1), p.pb, pn - r2, r2)

\* Without a single swap the rest is taken to be nearly sorted.
RECURSIVE QSortPart(_, _, _), Partitioned(_, _, _), QSortIfAny(_, _, _)
QSortPart(a, lo, n) ==
  IF n < QSmall THEN InsertFrom(a, lo, lo + 1, lo + n - 1)
  ELSE Partitioned(Partition([a |-> Swap(a, lo, Pivot(a, lo, n)), pa |-> lo + 1, pb |-> lo + 1,
                              pc |-> lo + n - 1, pd |-> lo + n - 1, swaps |-> 0], lo), lo, n)
Partitioned(p, lo, n) ==
  LET right == p.pd - p.pc
  IN IF p.swaps = 0 THEN InsertFrom(p.a, lo, lo + 1, lo + n - 1)
     ELSE QSortIfAny(QSortIfAny(Joined(p, lo, lo + n), lo, p.pb - p.pa), lo + n - right, right)
QSortIfAny(a, lo, n) == IF n > 1 THEN QSortPart(a, lo, n) ELSE a
QSort(a) == QSortPart(a, 1, Len(a))

-----------------------------------------------------------------------------
(* Mergesort.  The linked list that the code lays over the second array is *)
(* the sequence ends: where the runs end.                                  *)

ReversePart(a, i, j) == [k \in DOMAIN a |-> IF k \in i..j THEN a[i + j - k] ELSE a[k]]

\* The pairs of a[f1..f2-1] compare alike; they are turned round if they
\* descend.  A short row makes runs of two, a long one runs as far as the
\* pairs fit together.
RECURSIVE Pairwise(_, _, _), Natural(_, _, _, _, _, _)
Pairwise(s, f2, sense) ==
  IF s.f1 >= f2 THEN s
  ELSE Pairwise([a |-> IF sense THEN Swap(s.a, s.f1, s.f1 + 1) ELSE s.a,
                 ends |-> Append(s.ends, s.f1 + 2), f1 |-> s.f1 + 2], f2, sense)
Natural(s, f2, l2, sense, last, n) ==
  LET turned(b) == IF sense THEN ReversePart(b, s.f1, f2 - 1) ELSE b
  IN IF f2 < l2
     THEN IF Less(s.a[f2], s.a[f2 - 1]) # sense
          THEN Natural([a |-> turned(s.a), ends |-> Append(s.ends, f2), f1 |-> f2],
                       f2 + 2, l2, sense, last, n)
          ELSE Natural(s, f2 + 2, l2, sense, last, n)
     ELSE [a |-> turned(s.a), f1 |-> f2,
           ends |-> Append(s.ends, IF f2 < last \/ Less(turned(s.a)[f2], turned(s.a)[f2 - 1])
                                   THEN f2 ELSE n + 1)]

RECURSIVE Rows(_, _, _, _)
Rows(s, sense, last, n) ==
  IF s.f1 >= last THEN s
  ELSE LET breaks == {f \in s.f1..last : (f - s.f1) % 2 = 0 /\ f > s.f1
                        /\ (f = last \/ Less(s.a[f + 1], s.a[f]) # sense)}
           f2 == Min(breaks)
       IN Rows(IF f2 - s.f1 < MThreshold THEN Pairwise(s, f2, sense)
               ELSE Natural(s, s.f1 + 2, f2, sense, last, n), ~sense, last, n)

Setup(a) ==
  LET n == Len(a)
      i == 4 + (n % 2)
      last == n - i + 1
      b == InsertFrom(a, last, last + 1, n)
      s == Rows([a |-> b, ends |-> <<>>, f1 |-> 1], Less(b[2], b[1]), last, n)
  IN IF n <= 5 THEN [a |-> InsertFrom(a, 1, 2, n), ends |-> <<n + 1>>]
     ELSE [a |-> s.a, ends |-> IF Last(s.ends) = n + 1 THEN s.ends ELSE Append(s.ends, n + 1)]

\* How far the winning run may be copied: the first place in b..t-1 whose
\* element q must precede.  big tells whether the search is exponential.
Searched(from, to, big, stop) ==
  LET RECURSIVE Bisect(_, _), Gallop(_, _), Linear(_, _)
      Bisect(b, t) ==
        IF t <= b + 1 THEN t
        ELSE LET p == b + (t - b) \div 2 IN IF stop[p] THEN Bisect(b, p) ELSE Bisect(p, t)
      Gallop(b, i) ==
        LET p == b + i
        IN IF p >= to
           THEN IF to - 1 > b /\ stop[to - 1] THEN [at |-> Bisect(b, to - 1), big |-> TRUE]
                ELSE [at |-> Bisect(to - 1, to), big |-> TRUE]
           ELSE IF stop[p] THEN [at |-> Bisect(b, p), big |-> i # 1]
           ELSE Gallop(p, 2 * i)
      Linear(b, i) ==
        IF b + 1 >= to \/ stop[b + 1] THEN [at |-> b + 1, big |-> FALSE]
        ELSE IF i + 1 = MWins THEN Gallop(b + 1, 1)
        ELSE Linear(b + 1, i + 1)
  IN IF big THEN Gallop(from, 1) ELSE Linear(from, 0)

\* Two runs a[f1..l1-1] and a[f2..l2-1] are merged behind out.
RECURSIVE MergeRuns(_, _, _, _, _, _, _)
MergeRuns(a, f1, l1, f2, l2, out, big) ==
  IF f1 >= l1 \/ f2 >= l2
  THEN [out |-> out \o SubSeq(a, f2, l2 - 1) \o SubSeq(a, f1, l1 - 1), big |-> big]
  ELSE IF ~Less(a[f2], a[f1])
  THEN LET stop == [p \in f1..(l1 - 1) |-> Less(a[f2], a[p])]
           s == Searched(f1, l1, big, stop)
       IN MergeRuns(a, s.at, l1, f2 + 1, l2, out \o SubSeq(a, f1, s.at - 1) \o <<a[f2]>>, s.big)
  ELSE LET stop == [p \in f2..(l2 - 1) |-> ~Less(a[p], a[f1])]
           s == Searched(f2, l2, big, stop)
       IN MergeRuns(a, f1 + 1, l1, s.at, l2, out \o SubSeq(a, f2, s.at - 1) \o <<a[f1]>>, s.big)

\* Runs are merged in pairs, an odd one is copied, until one is left.
RECURSIVE MergePass(_, _, _), MergeAll(_, _, _)
MergePass(a, ends, s) ==
  IF ends = <<>> THEN s
  ELSE LET l1 == ends[1]
           l2 == IF Len(ends) > 1 THEN ends[2] ELSE l1
           m == MergeRuns(a, Len(s.out) + 1, l1, l1, l2, s.out, s.big)
       IN MergePass(a, SubSeq(ends, 3, Len(ends)),
                    [out |-> m.out, big |-> m.big, ends |-> Append(s.ends, l2)])
MergeAll(a, ends, big) ==
  IF Len(ends) = 1 THEN a
  ELSE LET s == MergePass(a, ends, [out |-> <<>>, big |-> big, ends |-> <<>>])
       IN MergeAll(s.out, s.ends, s.big)

MergeSort(a) == IF a = <<>> THEN a ELSE LET s == Setup(a) IN MergeAll(s.a, s.ends, FALSE)

-----------------------------------------------------------------------------
(* Timsort.  ts holds the array, the stack of runs <<base, len>>, and what *)
(* carries over from merge to merge; ok turns FALSE when an assertion      *)
(* fails, a merge needs more of tmp than there is, or FAILURE is returned. *)

BinarySort(a, base, hi, start) == InsertFrom(a, base, base + Max({start, 1}), base + hi - 1)

\* The run at base of at most hi elements, and the array with it ascending.
CountRun(a, base, hi) ==
  LET down == hi > 1 /\ Less(a[base + 1], a[base])
      ends == {r \in 1..hi : r = hi \/ (r > 1 /\ Less(a[base + r], a[base + r - 1]) # down)}
      len == Min(ends)
  IN [len |-> len, a |-> IF down THEN ReversePart(a, base, base + len - 1) ELSE a]

RECURSIVE MinRunLength(_, _)
MinRunLength(n, r) ==
  IF n < MinMerge THEN n + r ELSE MinRunLength(n \div 2, IF n % 2 = 1 THEN 1 ELSE r)

\* How many elements of run go before key: those that are in before.  The
\* steps from hint double, then the gap is halved.
GallopTo(run, hint, before) ==
  LET up == run[hint + 1] \in before
      maxOfs == IF up THEN Len(run) - hint ELSE hint + 1
      RECURSIVE Wide(_, _)
      Wide(lastOfs, ofs) ==
        IF ofs < maxOfs /\ (run[1 + IF up THEN hint + ofs ELSE hint - ofs] \in before) = up
        THEN Wide(ofs, 2 * ofs + 1) ELSE <<lastOfs, Min({ofs, maxOfs})>>
      RECURSIVE Half(_, _)
      Half(lo, hi) ==
        IF lo >= hi THEN hi
        ELSE LET m == (lo + hi) \div 2 IN IF run[m + 1] \in before THEN Half(m + 1, hi) ELSE Half(lo, m)
      Within(w) == Half(IF up THEN hint + 1 + w[1] ELSE hint + 1 - w[2], IF up THEN hint + w[2] ELSE hint - w[1])
  IN Within(Wide(0, 1))
GallopLeft(key, run, hint) == GallopTo(run, hint, {x \in Range(run) : Less(x, key)})
\* A bug the checks must find: an element that equals the key counts as greater.
GallopRightLeft(key, run, hint) == GallopTo(run, hint, {x \in Range(run) : Less(x, key)})
GallopRight(key, run, hint) == GallopTo(run, hint, {x \in Range(run) : ~Less(key, x)})

\* The merges.  tmp holds what is left of the run that was copied (the shorter
\* one), in the order in which it is merged, and other what is left of the run
\* that stays: mergeLo goes up and copies the first run, mergeHi goes down and
\* copies the second.
Precedes(lo, x, y) == IF lo THEN Less(x, y) ELSE Less(y, x)
Take1(s) == [s EXCEPT !.out = Append(@, Head(s.tmp)), !.tmp = Tail(@)]
Take2(s) == [s EXCEPT !.out = Append(@, Head(s.other)), !.other = Tail(@)]
Over(s) == Len(s.tmp) <= 1 \/ s.other = <<>>

\* The whole number of elements that win, in one step.
Gallop1(s, lo) ==
  LET n == IF lo THEN GallopRight(Head(s.other), s.tmp, 0)
           ELSE Len(s.tmp) - GallopLeft(Head(s.other), Reverse(s.tmp), Len(s.tmp) - 1)
  IN [s EXCEPT !.out = @ \o SubSeq(s.tmp, 1, n), !.tmp = SubSeq(@, n + 1, Len(@)), !.n1 = n]
Gallop2(s, lo) ==
  LET n == IF lo THEN GallopLeft(Head(s.tmp), s.other, 0)
           ELSE Len(s.other) - GallopRight(Head(s.tmp), Reverse(s.other), Len(s.other) - 1)
  IN [s EXCEPT !.out = @ \o SubSeq(s.other, 1, n), !.other = SubSeq(@, n + 1, Len(@)), !.n2 = n]

\* A round of the galloping mode, step by step.  mergeLo looks at the copied
\* run first, mergeHi at the other one.
Step(s, lo, i) ==
  IF i \in {1, 3}
  THEN IF lo = (i = 1) THEN Gallop1(s, lo) ELSE Gallop2(s, lo)
  ELSE IF lo = (i = 2) THEN Take2(s) ELSE Take1(s)
RECURSIVE Round(_, _, _)
Round(s, lo, i) == IF i > 4 \/ Over(s) THEN s ELSE Round(Step(s, lo, i), lo, i + 1)

\* One element at a time until a run has won minGallop times in a row, then
\* rounds while they are worth it.
RECURSIVE OneByOne(_, _), AfterOne(_, _), Galloping(_, _), AfterRound(_, _)
OneByOne(s, lo) ==
  AfterOne(IF Precedes(lo, Head(s.other), Head(s.tmp)) THEN [Take2(s) EXCEPT !.n2 = @ + 1, !.n1 = 0]
           ELSE [Take1(s) EXCEPT !.n1 = @ + 1, !.n2 = 0], lo)
AfterOne(t, lo) ==
  IF Over(t) THEN t
  ELSE IF t.n1 >= t.minGallop \/ t.n2 >= t.minGallop THEN Galloping(t, lo)
  ELSE OneByOne(t, lo)
Galloping(s, lo) == AfterRound(Round(s, lo, 1), lo)
AfterRound(t, lo) ==
  LET lower == IF t.minGallop > 0 THEN t.minGallop - 1 ELSE t.minGallop
  IN IF Over(t) THEN t
     ELSE IF t.n1 >= MinGallop \/ t.n2 >= MinGallop THEN Galloping([t EXCEPT !.minGallop = lower], lo)
     ELSE OneByOne([t EXCEPT !.minGallop = lower + 2, !.n1 = 0, !.n2 = 0], lo)

\* Two runs next to each other become one: [out, minGallop, ok].  mergeLo
\* when the first is not the longer one; FAILURE if nothing is left of the copy.
Finished(t, lo, minGallop) ==
  LET all == t.out \o t.other \o t.tmp
  IN [out |-> IF lo THEN all ELSE Reverse(all), ok |-> t.tmp # <<>>, minGallop |-> minGallop]
AfterMerge(t, lo) == Finished(t, lo, Max({1, t.minGallop}))
MergedFrom(s, lo) ==
  IF s.other = <<>> \/ Len(s.tmp) = 1 THEN Finished(s, lo, s.minGallop) ELSE AfterMerge(OneByOne(s, lo), lo)
Merged(r1, r2, minGallop) ==
  LET lo == Len(r1) <= Len(r2)
  IN MergedFrom(Take2([tmp |-> IF lo THEN r1 ELSE Reverse(r2), other |-> IF lo THEN r2 ELSE Reverse(r1),
                       out |-> <<>>, n1 |-> 0, n2 |-> 0, minGallop |-> minGallop]), lo)

\* The length of tmp when a run of need elements is to be copied.
RECURSIVE PowerAbove(_, _)
PowerAbove(p, n) == IF p > n THEN p ELSE PowerAbove(2 * p, n)
Capacity(ts, need) ==
  LET wanted == Min({PowerAbove(1, need), Len(ts.a) \div 2})
  IN IF ts.tmp_length >= need THEN ts.tmp_length ELSE IF wanted = 0 THEN need ELSE wanted

\* Runs i and i + 1 are merged; the k elements of the first that are in place
\* already, and what follows the first len2 of the second, take no part.
RunAt(ts, i) == SubSeq(ts.a, ts.runs[i].base, ts.runs[i].base + ts.runs[i].len - 1)
MergeBetween(ts, i, k, len2) ==
  LET b1 == ts.runs[i].base
      b2 == ts.runs[i + 1].base
      need == Min({ts.runs[i].len - k, len2})
      into(m, cap) ==
        [ts EXCEPT !.a = SubSeq(@, 1, b1 + k - 1) \o m.out \o SubSeq(@, b2 + len2, Len(@)),
                   !.minGallop = m.minGallop, !.tmp_length = cap,
                   !.ok = @ /\ m.ok /\ b2 = b1 + ts.runs[i].len /\ cap >= need]
  IN IF need = 0 THEN ts
     ELSE into(Merged(SubSeq(RunAt(ts, i), k + 1, ts.runs[i].len), SubSeq(RunAt(ts, i + 1), 1, len2), ts.minGallop),
               Capacity(ts, need))
MergeAt(ts, i) ==
  LET second == ts.runs[i + 1]
      k == GallopRight(ts.a[second.base], RunAt(ts, i), 0)
      len2 == GallopLeft(ts.a[second.base - 1], RunAt(ts, i + 1), second.len - 1)
  IN [MergeBetween(ts, i, k, len2) EXCEPT
        !.runs = [SubSeq(@, 1, i) \o SubSeq(@, i + 2, Len(@)) EXCEPT ![i].len = @ + second.len]]

\* Runs are merged until every one is longer than the two above it together,
\* and at the end until one is left.
RECURSIVE MergeCollapse(_), MergeForceCollapse(_)
MergeCollapse(ts) ==
  LET n == Len(ts.runs) - 1
      len(i) == ts.runs[i].len
      close == \/ n > 1 /\ len(n - 1) <= len(n) + len(n + 1)
               \/ n > 2 /\ len(n - 2) <= len(n) + len(n - 1)
  IN IF n < 1 \/ ~ts.ok \/ (~close /\ len(n) > len(n + 1)) THEN ts
     ELSE MergeCollapse(MergeAt(ts, IF close /\ len(n - 1) < len(n + 1) THEN n - 1 ELSE n))
MergeForceCollapse(ts) ==
  LET n == Len(ts.runs) - 1
  IN IF n < 1 \/ ~ts.ok THEN ts
     ELSE MergeForceCollapse(MergeAt(ts,
            IF n > 1 /\ ts.runs[n - 1].len < ts.runs[n + 1].len THEN n - 1 ELSE n))

\* The next run is found, made long enough, pushed, and merges follow.
Pushed(ts, base, r, len) ==
  MergeCollapse([ts EXCEPT !.a = IF r.len < len THEN BinarySort(r.a, base, len, r.len) ELSE r.a,
                           !.runs = Append(@, [base |-> base, len |-> len])])
NextRun(ts, base, left, minRun) ==
  LET r == CountRun(ts.a, base, left) IN Pushed(ts, base, r, Max({r.len, Min({left, minRun})}))
RECURSIVE March(_, _, _), MarchOn(_, _)
March(ts, base, minRun) ==
  IF base > Len(ts.a) \/ ~ts.ok THEN ts ELSE MarchOn(NextRun(ts, base, Len(ts.a) - base + 1, minRun), minRun)
MarchOn(ts, minRun) == March(ts, Last(ts.runs).base + Last(ts.runs).len, minRun)

TimSorted(a) ==
  MergeForceCollapse(
    March([a |-> a, runs |-> <<>>, minGallop |-> MinGallop, ok |-> TRUE,
           tmp_length |-> IF Len(a) < 2 * TmpLength THEN Len(a) \div 2 ELSE TmpLength],
          1, MinRunLength(Len(a), 0)))

\* Nothing comes back when the program has stopped at an assertion.
Answered(ts) == IF ts.ok /\ Len(ts.runs) = 1 THEN ts.a ELSE <<>>
TimSort(a) ==
  IF Len(a) < 2 THEN a
  ELSE IF Len(a) >= MinMerge THEN Answered(TimSorted(a))
  ELSE LET r == CountRun(a, 1, Len(a)) IN BinarySort(r.a, 1, Len(a), r.len)

-----------------------------------------------------------------------------
(* The list sort, and the sort by default.                                 *)

\* A bug the checks must find: ties go to the list that came later.
MergedListsLate(a, b) ==
  LET RECURSIVE From2(_, _, _)
      From2(x, y, out) ==
        IF x = <<>> \/ y = <<>> THEN out \o x \o y
        ELSE IF Less(Head(x), Head(y)) THEN From2(Tail(x), y, Append(out, Head(x)))
        ELSE From2(x, Tail(y), Append(out, Head(y)))
  IN From2(a, b, <<>>)

MergedLists(a, b) ==
  LET RECURSIVE From2(_, _, _)
      From2(x, y, out) ==
        IF x = <<>> \/ y = <<>> THEN out \o x \o y
        ELSE IF ~Less(Head(y), Head(x)) THEN From2(Tail(x), y, Append(out, Head(x)))
        ELSE From2(x, Tail(y), Append(out, Head(y)))
  IN From2(a, b, <<>>)

\* accum counts in binary: its i-th list has 2^(i-1) elements or none.
RECURSIVE Carry(_, _, _)
Carry(accum, i, sorted) ==
  IF i > Len(accum) THEN Append(accum, sorted)
  ELSE IF accum[i] = <<>> THEN [accum EXCEPT ![i] = sorted]
  ELSE Carry([accum EXCEPT ![i] = <<>>], i + 1, MergedLists(accum[i], sorted))
ListSort(a) ==
  LET RECURSIVE Accumulated(_, _)
      Accumulated(accum, i) ==
        IF i > Len(a) THEN accum ELSE Accumulated(Carry(accum, 1, <<a[i]>>), i + 1)
      accum == Accumulated(<<>>, 1)
      RECURSIVE Together(_, _)
      Together(i, sorted) ==
        IF i > Len(accum) THEN sorted ELSE Together(i + 1, MergedLists(accum[i], sorted))
  IN Together(1, <<>>)

\* borSort: the default build, which defines BOR_TIMSORT, sorts with borQSort.
Sort(a) ==
  CASE Len(a) <= 1 -> a
    [] Len(a) = 2 -> Sort2(a, 1, 2)
    [] Len(a) = 3 -> Sort3(a)
    [] OTHER -> QSort(a)

-----------------------------------------------------------------------------
(* One call sorts the array.                                               *)

Init == store \in Inputs /\ result = None

Returns(algorithm, out) ==
  result = None /\ result' = <<algorithm, out>> /\ UNCHANGED store

InsertSortCall == Returns("insert", InsertSort(store))
InsertSortIntCall == Returns("insert int", InsertSortInt(store))
ListInsertSortCall == Returns("list insert", ListInsertSort(store))
RadixSortCall == Returns("radix", RadixSort(store, FALSE))
RadixSortPtrCall == Returns("descending", RadixSort(store, TRUE))
HeapSortCall == Returns("heap", HeapSort(store))
QSortCall == Returns("quick", QSort(store))
MergeSortCall == Returns("merge", MergeSort(store))
TimSortCall == Returns("tim", TimSort(store))
ListSortCall == Returns("list", ListSort(store))
SortCall == Returns("sort", Sort(store))

\* Keys must be in the range that is given.
CountSortCall ==
  /\ \A i \in DOMAIN store : store[i][1] \in From..To
  /\ Returns("count", CountSort(store))

Next ==
  \/ InsertSortCall \/ InsertSortIntCall \/ ListInsertSortCall \/ RadixSortCall
  \/ RadixSortPtrCall \/ HeapSortCall \/ QSortCall \/ MergeSortCall \/ TimSortCall
  \/ ListSortCall \/ SortCall \/ CountSortCall

Spec == Init /\ [][Next]_vars

-----------------------------------------------------------------------------

Ordered(out, desc) ==
  \A i \in 1..(Len(out) - 1) : IF desc THEN out[i][1] >= out[i + 1][1] ELSE out[i][1] <= out[i + 1][1]
SameElements(a, out) ==
  Len(out) = Len(a) /\ {out[i] : i \in DOMAIN out} = {a[i] : i \in DOMAIN a}

Stable == {"insert", "list insert", "merge", "tim", "list"}

\* Every sort returns the elements it was given in order, and those that keep
\* equal elements in the order they came in do so; timsort keeps within tmp,
\* merges only neighbours and ends with one run.
SortsRight ==
  result # None =>
    /\ SameElements(store, result[2])
    /\ Ordered(result[2], result[1] = "descending")
    /\ result[1] \in Stable =>
         \A i \in 1..(Len(store) - 1) :
           result[2][i][1] = result[2][i + 1][1] => result[2][i][2] < result[2][i + 1][2]
=============================================================================
