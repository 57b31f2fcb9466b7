------------------------------- MODULE Filter -------------------------------
(***************************************************************************)
(* A sequence without the occurrences of one value: the jobs in a list of  *)
(* tasks, without the tasks that tell a thread to finish.  The lemmas say  *)
(* how it changes when the sequence grows at its end or loses its head.    *)
(*                                                                         *)
(* Without is a recursive function; that it has the values its definition  *)
(* says, and what these are for every sequence, is shown by induction, for *)
(* which Climb stands: a set of numbers with 0 and with the successors of  *)
(* its elements has every number.                                          *)
(***************************************************************************)
EXTENDS Integers, Sequences, Functions, WellFoundedInduction, TLAPS

Without(s, x) ==
  LET Kept[n \in 0..Len(s)] ==
        IF n = 0 THEN <<>>
        ELSE IF s[n] = x THEN Kept[n - 1] ELSE Append(Kept[n - 1], s[n])
  IN  Kept[Len(s)]

----------------------------------------------------------------------------
\* A set of natural numbers has a least one.
LEMMA Least ==
  ASSUME NEW T, T \subseteq Nat, T # {}
  PROVE  \E m \in T : \A n \in T : m <= n
<1> DEFINE Less == {p \in Nat \X Nat : p[1] < p[2]}
<1>1. IsWellFoundedOn(Less, Nat)
  BY NatLessThanWellFounded DEF OpToRel
<1> HIDE DEF Less
<1>2. PICK m \in T : \A n \in T : ~(<<n, m>> \in Less)
  BY <1>1, WFMin
<1>3. \A n \in T : ~(n < m)
  BY <1>2 DEF Less
<1> QED
  BY <1>3

\* A set of numbers with 0 and with the successors of its elements has every number.
LEMMA Climb ==
  ASSUME NEW T, 0 \in T, \A n \in Nat : n \in T => n + 1 \in T
  PROVE  Nat \subseteq T
<1> DEFINE Left == Nat \ T
<1>1. SUFFICES ASSUME Left # {} PROVE FALSE
  OBVIOUS
<1>2. PICK m \in Left : \A n \in Left : m <= n
  BY <1>1, Least
<1>3. m # 0 /\ m - 1 \in Nat
  BY <1>2
<1>4. m - 1 \in T
  BY <1>2, <1>3
<1> QED
  BY <1>2, <1>3, <1>4

----------------------------------------------------------------------------
\* f gives for n the first n elements of s without x, up to m.
Filters(f, s, x, m) ==
  f = [n \in 0..m |-> IF n = 0 THEN <<>>
                      ELSE IF s[n] = x THEN f[n - 1] ELSE Append(f[n - 1], s[n])]

\* What such a function gives, step by step.
LEMMA FilterSteps ==
  ASSUME NEW f, NEW s, NEW x, NEW m \in Nat, Filters(f, s, x, m)
  PROVE  /\ f[0] = <<>>
         /\ \A n \in 1..m : f[n] = IF s[n] = x THEN f[n - 1] ELSE Append(f[n - 1], s[n])
<1> DEFINE E(n) == IF n = 0 THEN <<>> ELSE IF s[n] = x THEN f[n - 1] ELSE Append(f[n - 1], s[n])
<1>1. f = [n \in 0..m |-> E(n)]
  BY DEF Filters
<1> HIDE DEF E
<1>2. \A n \in 0..m : f[n] = E(n)
  BY <1>1
<1> QED
  BY <1>2 DEF E

\* There is such a function for every length.
LEMMA FilterExists ==
  ASSUME NEW s, NEW x, NEW m \in Nat
  PROVE  \E f : Filters(f, s, x, m)
<1> DEFINE T == {k \in Nat : \E f : Filters(f, s, x, k)}
<1>1. 0 \in T
  <2> DEFINE f == [n \in 0..0 |-> <<>>]
  <2>1. Filters(f, s, x, 0)
    BY DEF Filters
  <2> QED
    BY <2>1
<1>2. ASSUME NEW k \in Nat, k \in T PROVE k + 1 \in T
  <2>1. PICK f : Filters(f, s, x, k)
    BY <1>2
  <2>2. /\ f[0] = <<>>
        /\ \A n \in 1..k : f[n] = IF s[n] = x THEN f[n - 1] ELSE Append(f[n - 1], s[n])
    BY <2>1, FilterSteps
  <2> DEFINE last == IF s[k + 1] = x THEN f[k] ELSE Append(f[k], s[k + 1])
             g == [n \in 0..(k + 1) |-> IF n = k + 1 THEN last ELSE f[n]]
             E(n) == IF n = 0 THEN <<>> ELSE IF s[n] = x THEN g[n - 1] ELSE Append(g[n - 1], s[n])
  <2>3. ASSUME NEW n \in 0..(k + 1) PROVE g[n] = E(n)
    <3>1. CASE n = 0
      BY <3>1, <2>2
    <3>2. CASE n \in 1..k
      <4>1. g[n] = f[n] /\ g[n - 1] = f[n - 1]
        BY <3>2
      <4> HIDE DEF g
      <4> QED
        BY <4>1, <3>2, <2>2
    <3>3. CASE n = k + 1
      <4>1. g[n] = last /\ g[n - 1] = f[k] /\ n # 0
        BY <3>3
      <4> HIDE DEF g
      <4> QED
        BY <4>1, <3>3
    <3> QED
      BY <3>1, <3>2, <3>3
  <2>4. g = [n \in 0..(k + 1) |-> E(n)]
    <3>1. g = [n \in 0..(k + 1) |-> g[n]]
      OBVIOUS
    <3> HIDE DEF g, E
    <3> QED
      BY <3>1, <2>3
  <2> HIDE DEF g
  <2>5. Filters(g, s, x, k + 1)
    BY <2>4 DEF Filters
  <2> QED
    BY <2>5
<1> HIDE DEF T
<1>3. Nat \subseteq T
  BY <1>1, <1>2, Climb
<1> QED
  BY <1>3 DEF T

\* Without is the last value of such a function.
LEMMA WithoutFilters ==
  ASSUME NEW s, NEW x, Len(s) \in Nat
  PROVE  \E f : Filters(f, s, x, Len(s)) /\ Without(s, x) = f[Len(s)]
<1> DEFINE F == CHOOSE f : Filters(f, s, x, Len(s))
<1>1. Filters(F, s, x, Len(s))
  BY FilterExists
<1>2. Without(s, x) = F[Len(s)]
  BY Zenon DEF Without, Filters
<1> QED
  BY <1>1, <1>2

\* Equal beginnings have the same values left.
LEMMA FilterAgrees ==
  ASSUME NEW f, NEW g, NEW s, NEW t, NEW x, NEW a \in Nat, NEW b \in Nat,
         Filters(f, s, x, a), Filters(g, t, x, b),
         NEW k \in Nat, k <= a, k <= b, \A n \in 1..k : s[n] = t[n]
  PROVE  f[k] = g[k]
<1> DEFINE T == {n \in Nat : n <= k => f[n] = g[n]}
<1>1. /\ f[0] = <<>> /\ g[0] = <<>>
      /\ \A n \in 1..a : f[n] = IF s[n] = x THEN f[n - 1] ELSE Append(f[n - 1], s[n])
      /\ \A n \in 1..b : g[n] = IF t[n] = x THEN g[n - 1] ELSE Append(g[n - 1], t[n])
  BY FilterSteps
<1>2. 0 \in T
  BY <1>1
<1>3. ASSUME NEW n \in Nat, n \in T PROVE n + 1 \in T
  <2>1. SUFFICES ASSUME n + 1 <= k PROVE f[n + 1] = g[n + 1]
    OBVIOUS
  <2>2. n + 1 \in 1..a /\ n + 1 \in 1..b /\ n + 1 \in 1..k /\ (n + 1) - 1 = n
    BY <2>1
  <2>3. f[n] = g[n] /\ s[n + 1] = t[n + 1]
    BY <2>1, <2>2, <1>3
  <2>4. f[n + 1] = IF s[n + 1] = x THEN f[n] ELSE Append(f[n], s[n + 1])
    BY <1>1, <2>2
  <2>5. g[n + 1] = IF t[n + 1] = x THEN g[n] ELSE Append(g[n], t[n + 1])
    BY <1>1, <2>2
  <2> QED
    BY <2>3, <2>4, <2>5
<1> HIDE DEF T
<1>4. Nat \subseteq T
  BY <1>2, <1>3, Climb
<1> QED
  BY <1>4 DEF T

\* What is left is a sequence of other values.
LEMMA FilterType ==
  ASSUME NEW S, NEW s \in Seq(S), NEW x, NEW f, Filters(f, s, x, Len(s))
  PROVE  \A n \in 0..Len(s) : f[n] \in Seq(S \ {x})
<1> DEFINE T == {n \in Nat : n <= Len(s) => f[n] \in Seq(S \ {x})}
<1>1. /\ f[0] = <<>>
      /\ \A n \in 1..Len(s) : f[n] = IF s[n] = x THEN f[n - 1] ELSE Append(f[n - 1], s[n])
  BY FilterSteps
<1>2. 0 \in T
  <2>1. <<>> \in Seq(S \ {x})
    OBVIOUS
  <2> QED
    BY <1>1, <2>1
<1>3. ASSUME NEW n \in Nat, n \in T PROVE n + 1 \in T
  <2>1. SUFFICES ASSUME n + 1 <= Len(s) PROVE f[n + 1] \in Seq(S \ {x})
    OBVIOUS
  <2>2. n + 1 \in 1..Len(s) /\ (n + 1) - 1 = n /\ f[n] \in Seq(S \ {x}) /\ s[n + 1] \in S
    BY <2>1, <1>3
  <2>3. f[n + 1] = IF s[n + 1] = x THEN f[n] ELSE Append(f[n], s[n + 1])
    BY <1>1, <2>2
  <2> QED
    BY <2>2, <2>3
<1> HIDE DEF T
<1>4. Nat \subseteq T
  BY <1>2, <1>3, Climb
<1> QED
  BY <1>4 DEF T

----------------------------------------------------------------------------
\* Without gives a sequence of the other values.
LEMMA WithoutType ==
  ASSUME NEW S, NEW s \in Seq(S), NEW x
  PROVE  Without(s, x) \in Seq(S \ {x})
<1>1. PICK f : Filters(f, s, x, Len(s)) /\ Without(s, x) = f[Len(s)]
  BY WithoutFilters
<1>2. \A n \in 0..Len(s) : f[n] \in Seq(S \ {x})
  BY <1>1, FilterType
<1> QED
  BY <1>1, <1>2

\* Nothing is left of an empty sequence.
LEMMA WithoutEmpty ==
  ASSUME NEW x
  PROVE  Without(<<>>, x) = <<>>
<1>1. PICK f : Filters(f, <<>>, x, 0) /\ Without(<<>>, x) = f[0]
  BY WithoutFilters
<1> QED
  BY <1>1, FilterSteps

\* A value is appended to what is left, unless it is the one left out.
LEMMA WithoutAppend ==
  ASSUME NEW S, NEW s \in Seq(S), NEW e \in S, NEW x
  PROVE  Without(Append(s, e), x) = IF e = x THEN Without(s, x) ELSE Append(Without(s, x), e)
<1> DEFINE t == Append(s, e)
           m == Len(s)
<1>1. t \in Seq(S) /\ Len(t) = m + 1 /\ t[m + 1] = e /\ m \in Nat /\ \A n \in 1..m : s[n] = t[n]
  OBVIOUS
<1> HIDE DEF t, m
<1>2. PICK f : Filters(f, s, x, m) /\ Without(s, x) = f[m]
  BY <1>1, WithoutFilters DEF m
<1>3. PICK g : Filters(g, t, x, m + 1) /\ Without(t, x) = g[m + 1]
  <2>1. Len(t) \in Nat /\ Len(t) = m + 1
    BY <1>1
  <2>2. \E g : Filters(g, t, x, Len(t)) /\ Without(t, x) = g[Len(t)]
    BY <2>1, WithoutFilters
  <2> QED
    BY <2>1, <2>2
<1>4. f[m] = g[m]
  BY <1>1, <1>2, <1>3, FilterAgrees
<1>5. g[m + 1] = IF t[m + 1] = x THEN g[(m + 1) - 1] ELSE Append(g[(m + 1) - 1], t[m + 1])
  BY <1>1, <1>3, FilterSteps
<1>6. (m + 1) - 1 = m
  BY <1>1
<1> QED
  BY <1>1, <1>2, <1>3, <1>4, <1>5, <1>6 DEF t

\* The head of a sequence is the head of what is left, unless it is left out.
LEMMA WithoutTail ==
  ASSUME NEW S, NEW s \in Seq(S), s # <<>>, NEW x
  PROVE  IF Head(s) = x THEN Without(s, x) = Without(Tail(s), x)
         ELSE /\ Without(s, x) # <<>>
              /\ Head(Without(s, x)) = Head(s)
              /\ Tail(Without(s, x)) = Without(Tail(s), x)
<1> DEFINE t == Tail(s)
           m == Len(t)
           Q == S \ {x}
<1>1. t \in Seq(S) /\ m \in Nat /\ Len(s) = m + 1 /\ Head(s) = s[1] /\ s[1] \in S /\ \A n \in 1..m : t[n] = s[n + 1]
  OBVIOUS
<1> HIDE DEF t, m
<1>2. PICK f : Filters(f, s, x, m + 1) /\ Without(s, x) = f[m + 1]
  BY <1>1, WithoutFilters, SMTT(30)
<1>3. PICK g : Filters(g, t, x, m) /\ Without(t, x) = g[m]
  BY <1>1, WithoutFilters DEF m
<1>4. /\ f[0] = <<>> /\ g[0] = <<>>
      /\ \A n \in 1..(m + 1) : f[n] = IF s[n] = x THEN f[n - 1] ELSE Append(f[n - 1], s[n])
      /\ \A n \in 1..m : g[n] = IF t[n] = x THEN g[n - 1] ELSE Append(g[n - 1], t[n])
  BY <1>1, <1>2, <1>3, FilterSteps
<1>5. (\A n \in 0..(m + 1) : f[n] \in Seq(Q)) /\ \A n \in 0..m : g[n] \in Seq(Q)
  BY <1>1, <1>2, <1>3, FilterType DEF m
<1> DEFINE Related(n) == IF s[1] = x THEN f[n + 1] = g[n]
                         ELSE f[n + 1] # <<>> /\ Head(f[n + 1]) = s[1] /\ Tail(f[n + 1]) = g[n]
           T == {n \in Nat : n <= m => Related(n)}
<1> HIDE DEF Q
<1>6. 0 \in T
  <2>0. 1 \in 1..(m + 1) /\ 1 - 1 = 0 /\ 0 + 1 = 1
    BY <1>1
  <2>1. f[1] = IF s[1] = x THEN f[0] ELSE Append(f[0], s[1])
    BY <1>4, <2>0
  <2>2. s[1] # x => f[1] = <<s[1]>>
    BY <1>4, <2>1
  <2>3. s[1] # x => /\ <<s[1]>> # <<>> /\ Head(<<s[1]>>) = s[1] /\ Tail(<<s[1]>>) = <<>>
    BY <1>1
  <2>4. Related(0)
    <3>1. CASE s[1] = x
      BY <3>1, <1>4, <2>0, <2>1
    <3>2. CASE s[1] # x
      BY <3>2, <1>4, <2>0, <2>2, <2>3
    <3> QED
      BY <3>1, <3>2
  <2> QED
    BY <2>4
<1>7. ASSUME NEW n \in Nat, n \in T PROVE n + 1 \in T
  <2>1. SUFFICES ASSUME n + 1 <= m PROVE Related(n + 1)
    OBVIOUS
  <2> DEFINE e == s[n + 2]
             p == f[n + 1]
             q == g[n]
  <2>2. /\ n + 2 \in 1..(m + 1) /\ (n + 2) - 1 = n + 1 /\ (n + 1) + 1 = n + 2 /\ n + 1 \in 0..(m + 1)
        /\ n + 1 \in 1..m /\ (n + 1) - 1 = n /\ n \in 0..m /\ t[n + 1] = e
    BY <1>1, <2>1
  <2>3. f[n + 2] = IF e = x THEN p ELSE Append(p, e)
    BY <1>4, <2>2
  <2>4. g[n + 1] = IF e = x THEN q ELSE Append(q, e)
    BY <1>4, <2>2
  <2>5. p \in Seq(Q) /\ q \in Seq(Q) /\ (e # x => e \in Q)
    BY <1>1, <1>5, <2>2 DEF Q
  <2>6. IF s[1] = x THEN p = q ELSE p # <<>> /\ Head(p) = s[1] /\ Tail(p) = q
    <3>1. n <= m
      BY <1>1, <2>1
    <3> QED
      BY <1>7, <3>1
  <2> HIDE DEF e, p, q
  <2>7. ASSUME p # <<>>, e \in Q
        PROVE  Append(p, e) # <<>> /\ Head(Append(p, e)) = Head(p) /\ Tail(Append(p, e)) = Append(Tail(p), e)
    BY <2>5, <2>7
  <2>8. IF s[1] = x THEN f[n + 2] = g[n + 1]
        ELSE f[n + 2] # <<>> /\ Head(f[n + 2]) = s[1] /\ Tail(f[n + 2]) = g[n + 1]
    BY <2>3, <2>4, <2>5, <2>6, <2>7
  <2> QED
    BY <2>2, <2>8
<1> HIDE DEF T
<1>8. Nat \subseteq T
  BY <1>6, <1>7, Climb
<1>9. Related(m)
  BY <1>1, <1>8 DEF T
<1> QED
  BY <1>1, <1>2, <1>3, <1>9 DEF t

\* Nothing else is left out.
LEMMA WithoutMembers ==
  ASSUME NEW S, NEW s \in Seq(S), NEW x
  PROVE  Range(Without(s, x)) = Range(s) \ {x}
<1> DEFINE First(n) == {s[i] : i \in 1..n}
<1>1. PICK f : Filters(f, s, x, Len(s)) /\ Without(s, x) = f[Len(s)]
  BY WithoutFilters
<1>2. /\ f[0] = <<>> /\ \A n \in 0..Len(s) : f[n] \in Seq(S \ {x})
      /\ \A n \in 1..Len(s) : f[n] = IF s[n] = x THEN f[n - 1] ELSE Append(f[n - 1], s[n])
  <2>1. Len(s) \in Nat
    OBVIOUS
  <2>2. \A n \in 0..Len(s) : f[n] \in Seq(S \ {x})
    BY <1>1, FilterType
  <2>3. f[0] = <<>> /\ \A n \in 1..Len(s) : f[n] = IF s[n] = x THEN f[n - 1] ELSE Append(f[n - 1], s[n])
    BY ONLY <1>1, <2>1, FilterSteps
  <2> QED
    BY <2>2, <2>3
<1> DEFINE T == {n \in Nat : n <= Len(s) => Range(f[n]) = First(n) \ {x}}
<1>3. 0 \in T
  <2>1. Range(<<>>) = {} /\ First(0) = {}
    BY DEF Range
  <2> QED
    BY <1>2, <2>1
<1>4. ASSUME NEW n \in Nat, n \in T PROVE n + 1 \in T
  <2> HIDE DEF First
  <2>1. SUFFICES ASSUME n + 1 <= Len(s) PROVE Range(f[n + 1]) = First(n + 1) \ {x}
    OBVIOUS
  <2>2. n + 1 \in 1..Len(s) /\ (n + 1) - 1 = n /\ n \in 0..Len(s) /\ n <= Len(s) /\ s[n + 1] \in S
    BY <2>1
  <2>3. f[n + 1] = IF s[n + 1] = x THEN f[n] ELSE Append(f[n], s[n + 1])
    BY <1>2, <2>2
  <2>4. First(n + 1) = First(n) \cup {s[n + 1]}
    BY <2>2 DEF First
  <2>5. ASSUME NEW q \in Seq(S \ {x}), NEW e \in S \ {x} PROVE Range(Append(q, e)) = Range(q) \cup {e}
    <3>1. /\ DOMAIN Append(q, e) = 1..(Len(q) + 1) /\ DOMAIN q = 1..Len(q) /\ Len(q) \in Nat
          /\ \A i \in 1..Len(q) : Append(q, e)[i] = q[i]
          /\ Append(q, e)[Len(q) + 1] = e
      OBVIOUS
    <3>2. DOMAIN Append(q, e) = DOMAIN q \cup {Len(q) + 1}
      BY <3>1
    <3> QED
      BY <3>1, <3>2 DEF Range
  <2>6. Range(f[n]) = First(n) \ {x}
    BY <1>4, <2>2
  <2>7. CASE s[n + 1] = x
    BY <2>3, <2>4, <2>6, <2>7
  <2>8. CASE s[n + 1] # x
    <3>1. f[n] \in Seq(S \ {x}) /\ s[n + 1] \in S \ {x}
      BY <1>2, <2>2, <2>8
    <3>2. Range(Append(f[n], s[n + 1])) = Range(f[n]) \cup {s[n + 1]}
      BY <2>5, <3>1
    <3> QED
      BY <2>3, <2>4, <2>6, <2>8, <3>2
  <2> QED
    BY <2>7, <2>8
<1> HIDE DEF T
<1>5. Nat \subseteq T
  BY <1>3, <1>4, Climb
<1>6. Len(s) \in Nat /\ DOMAIN s = 1..Len(s)
  OBVIOUS
<1>7. Range(f[Len(s)]) = First(Len(s)) \ {x}
  <2> HIDE DEF First
  <2> QED
    BY <1>5, <1>6 DEF T
<1>8. First(Len(s)) = Range(s)
  BY <1>6 DEF Range
<1> QED
  BY <1>1, <1>7, <1>8
============================================================================
