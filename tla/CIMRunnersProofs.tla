-------------------------- MODULE CIMRunnersProofs --------------------------
(***************************************************************************)
(* Proofs about the two backends, for every executable of the shape the    *)
(* compiler gives.                                                         *)
(***************************************************************************)
EXTENDS CIMRunners, TLAPS, WellFoundedInduction, FiniteSetTheorems

-----------------------------------------------------------------------------
(* Sequences.                                                              *)

\* A nonempty set of naturals has a least element.
LEMMA LeastOf ==
  ASSUME NEW S, S \subseteq Nat, S # {}
  PROVE  \E m \in S : \A k \in S : m <= k
<1> DEFINE R == OpToRel(<, Nat)
<1>1. \A x, y \in Nat : x < y => <<x, y>> \in R
  BY DEF OpToRel
<1>2. IsWellFoundedOn(R, Nat)
  BY NatLessThanWellFounded
<1> HIDE DEF R
<1>3. PICK m \in S : \A k \in S : ~ (<<k, m>> \in R)
  BY <1>2, WFMin, Zenon
<1>4. \A k \in S : ~ (k < m)
  BY <1>1, <1>3, Zenon
<1> QED
  BY <1>4

\* The values of a recursion over 1..N.
Recurses(g, T, N, base, step) ==
  /\ g \in [0..N -> T] /\ g[0] = base
  /\ \A n \in 1..N : g[n] = step[n][g[n - 1]]
\* Every recursion has values.
LEMMA Recursion ==
  ASSUME NEW T, NEW N \in Nat, NEW base \in T, NEW step \in [1..N -> [T -> T]]
  PROVE  \E g : Recurses(g, T, N, base, step)
<1> DEFINE Goes(g, m) == /\ g \in [0..m -> T] /\ g[0] = base
                         /\ \A n \in 1..m : g[n] = step[n][g[n - 1]]
           Bad == {m \in 0..N : ~\E g : Goes(g, m)}
<1>1. Bad = {}
  <2> SUFFICES ASSUME Bad # {} PROVE FALSE
    OBVIOUS
  <2>1. PICK m \in Bad : \A k \in Bad : m <= k
    <3>1. Bad \subseteq Nat
      OBVIOUS
    <3> HIDE DEF Bad
    <3> QED
      BY <3>1, LeastOf
  <2>2. m # 0
    <3> DEFINE g == [i \in 0..0 |-> base]
    <3>1. Goes(g, 0)
      OBVIOUS
    <3> QED
      BY <3>1
  <2>3. m \in 1..N /\ m - 1 \in 0..N /\ m - 1 \notin Bad
    <3>1. m \in 0..N
      OBVIOUS
    <3> HIDE DEF Bad
    <3> QED
      BY <2>1, <2>2, <3>1
  <2>4. PICK g : Goes(g, m - 1)
    BY <2>3
  <2> DEFINE h == [i \in 0..m |-> IF i = m THEN step[m][g[m - 1]] ELSE g[i]]
  <2>5. Goes(h, m)
    <3>1. step[m][g[m - 1]] \in T
      BY <2>3, <2>4
    <3>2. h \in [0..m -> T] /\ h[0] = base
      BY <2>3, <2>4, <3>1
    <3>3. ASSUME NEW n \in 1..m PROVE h[n] = step[n][h[n - 1]]
      <4>1. h[n - 1] = g[n - 1]
        <5>1. n - 1 \in 0..m /\ n - 1 # m
          BY <2>3
        <5> QED
          BY <5>1
      <4>2. CASE n = m
        <5>1. h[m] = step[m][g[m - 1]]
          BY <2>3
        <5> QED
          BY <4>1, <4>2, <5>1
      <4>3. CASE n # m
        <5>1. n \in 1..m - 1 /\ h[n] = g[n]
          BY <2>3, <4>3
        <5> QED
          BY <2>4, <4>1, <5>1
      <4> QED
        BY <4>2, <4>3
    <3> QED
      BY <3>2, <3>3
  <2> QED
    BY <2>1, <2>5
<1>2. PICK g : Goes(g, N)
  BY <1>1
<1> QED
  BY <1>2, Zenon DEF Recurses

\* A concatenation, part by part.
LEMMA FlatFrom ==
  ASSUME NEW S, NEW s \in Seq(Seq(S))
  PROVE  \E g \in [0..Len(s) -> Seq(S)] :
           /\ g[0] = <<>> /\ \A n \in 1..Len(s) : g[n] = g[n - 1] \o s[n]
           /\ Flat(s) = g[Len(s)]
<1> DEFINE N == Len(s)
           step == [n \in 1..N |-> [t \in Seq(S) |-> t \o s[n]]]
<1>1. N \in Nat /\ <<>> \in Seq(S) /\ \A n \in 1..N : s[n] \in Seq(S)
  OBVIOUS
<1>2. step \in [1..N -> [Seq(S) -> Seq(S)]]
  BY <1>1
<1> HIDE DEF N
<1>3. PICK g : Recurses(g, Seq(S), N, <<>>, step)
  <2> DEFINE T == Seq(S)
  <2>1. N \in Nat /\ <<>> \in T /\ step \in [1..N -> [T -> T]]
    BY <1>1, <1>2
  <2> HIDE DEF step, T
  <2>2. \E f : Recurses(f, T, N, <<>>, step)
    BY <2>1, Recursion
  <2> QED
    BY <2>2 DEF T
<1>4. /\ g \in [0..N -> Seq(S)] /\ g[0] = <<>>
      /\ \A n \in 1..N : g[n] = g[n - 1] \o s[n]
  <2>1. /\ g \in [0..N -> Seq(S)] /\ g[0] = <<>>
        /\ \A n \in 1..N : g[n] = step[n][g[n - 1]]
    BY <1>3, Zenon DEF Recurses
  <2>2. ASSUME NEW n \in 1..N PROVE g[n] = g[n - 1] \o s[n]
    <3>1. g[n - 1] \in Seq(S)
      BY <1>1, <2>1
    <3> QED
      BY <2>1, <3>1
  <2> QED
    BY <2>1, <2>2
<1> HIDE DEF step
\* A stretch from one of the values on.
<1> DEFINE Next16(from) == IF from + Stretch < N THEN from + Stretch ELSE N
           Body(acc, from, f) == [i \in from..N |-> IF i = from THEN acc ELSE f[i - 1] \o s[i]]
           Run(acc, from) == CHOOSE f : f = Body(acc, from, f)
           Steps(acc, from) == Run(acc, from)[Next16(from)]
<1>5. ASSUME NEW from \in 0..N
      PROVE  Steps(g[from], from) = g[Next16(from)]
  <2> DEFINE f == Run(g[from], from)  h == [i \in from..N |-> g[i]]
  <2>1. h = Body(g[from], from, h)
    <3>1. ASSUME NEW i \in from..N, i # from
          PROVE  h[i] = h[i - 1] \o s[i]
      <4>1. i \in 1..N /\ i - 1 \in from..N
        BY <1>1, <3>1
      <4> QED
        BY <1>4, <4>1
    <3> QED
      BY <1>1, <3>1
  <2>2. f = Body(g[from], from, f)
    <3> HIDE DEF h, Body
    <3> QED
      BY <2>1, Zenon
  <2> HIDE DEF f, h
  <2> DEFINE Bad == {i \in from..N : f[i] # g[i]}
  <2>3. Bad = {}
    <3> SUFFICES ASSUME Bad # {} PROVE FALSE
      OBVIOUS
    <3>1. PICK m \in Bad : \A k \in Bad : m <= k
      <4>1. Bad \subseteq Nat
        BY <1>1
      <4> HIDE DEF Bad
      <4> QED
        BY <4>1, LeastOf
    <3>2. f[from] = g[from]
      BY <1>1, <2>2
    <3>3. m \in from..N /\ m # from /\ m - 1 \in from..N /\ m \in 1..N /\ m - 1 \notin Bad
      BY <1>1, <3>1, <3>2
    <3>4. f[m - 1] = g[m - 1]
      BY <3>3
    <3>5. f[m] = f[m - 1] \o s[m]
      BY <2>2, <3>3
    <3> QED
      BY <1>4, <3>1, <3>3, <3>4, <3>5
  <2>4. Next16(from) \in from..N
    BY <1>1 DEF Stretch
  <2>5. f[Next16(from)] = g[Next16(from)]
    BY <2>3, <2>4
  <2> QED
    BY <2>5 DEF f
\* The stretches.
<1> DEFINE count == (N + Stretch - 1) \div Stretch
           Then(f, b) == CHOOSE r \in {Steps(x, (b - 1) * Stretch) : x \in {f[b - 1]}} : TRUE
           Stretches(f) == [b \in 0..count |-> IF b = 0 THEN <<>> ELSE Then(f, b)]
           after == CHOOSE f : f = Stretches(f)
           At16(b) == IF b * Stretch < N THEN b * Stretch ELSE N
           h == [b \in 0..count |-> g[At16(b)]]
<1>6. Flat(s) = after[count]
  BY Zenon DEF Flat, Fold, Eagerly, N
<1>7. /\ count \in Nat /\ At16(count) = N
      /\ \A b \in 1..count : /\ (b - 1) * Stretch \in 0..N /\ At16(b - 1) = (b - 1) * Stretch
                             /\ Next16((b - 1) * Stretch) = At16(b)
  BY <1>1 DEF Stretch
<1> HIDE DEF Steps, Next16, At16, count, Body, Run
<1>8. \A f, b : Then(f, b) = Steps(f[b - 1], (b - 1) * Stretch)
  OBVIOUS
<1> HIDE DEF Then
<1>9. h = Stretches(h)
  <2>1. ASSUME NEW b \in 0..count, b # 0
        PROVE  h[b] = Then(h, b)
    <3>1. b \in 1..count /\ b - 1 \in 0..count
      BY <1>7, <2>1
    <3>2. h[b - 1] = g[(b - 1) * Stretch] /\ h[b] = g[Next16((b - 1) * Stretch)]
      BY <1>7, <3>1
    <3>3. Steps(g[(b - 1) * Stretch], (b - 1) * Stretch) = g[Next16((b - 1) * Stretch)]
      BY <1>5, <1>7, <3>1
    <3> QED
      BY <1>8, <3>2, <3>3
  <2>2. h[0] = <<>>
    BY <1>1, <1>4, <1>7 DEF At16, Stretch
  <2> QED
    BY <1>7, <2>1, <2>2
<1> HIDE DEF h
<1>10. after = Stretches(after)
  <2> HIDE DEF Stretches
  <2> QED
    BY <1>9, Zenon
<1> HIDE DEF after
<1> DEFINE Bad == {b \in 0..count : after[b] # h[b]}
<1>11. Bad = {}
  <2> SUFFICES ASSUME Bad # {} PROVE FALSE
    OBVIOUS
  <2>1. PICK m \in Bad : \A k \in Bad : m <= k
    <3>1. Bad \subseteq Nat
      BY <1>7
    <3> HIDE DEF Bad
    <3> QED
      BY <3>1, LeastOf
  <2>2. m \in 1..count /\ m - 1 \in 0..count /\ m - 1 \notin Bad
    BY <1>7, <1>9, <1>10, <2>1
  <2>3. after[m] = Then(after, m) /\ h[m] = Then(h, m)
    BY <1>9, <1>10, <2>2
  <2>4. after[m - 1] = h[m - 1]
    BY <2>2
  <2> QED
    BY <1>8, <2>1, <2>3, <2>4
<1>12. after[count] = h[count] /\ h[count] = g[N]
  <2>1. count \in 0..count
    BY <1>7
  <2> QED
    BY <1>7, <1>11, <2>1 DEF h
<1>13. Flat(s) = g[N]
  BY <1>6, <1>12
<1> QED
  BY <1>4, <1>13 DEF N

\* A sum, term by term.
LEMMA TotalFrom ==
  ASSUME NEW s \in Seq(Int)
  PROVE  \E g \in [0..Len(s) -> Int] :
           /\ g[0] = 0 /\ \A n \in 1..Len(s) : g[n] = g[n - 1] + s[n]
           /\ Total(s) = g[Len(s)]
<1> DEFINE N == Len(s)
           step == [n \in 1..N |-> [t \in Int |-> t + s[n]]]
<1>1. N \in Nat /\ 0 \in Int /\ \A n \in 1..N : s[n] \in Int
  OBVIOUS
<1>2. step \in [1..N -> [Int -> Int]]
  BY <1>1
<1> HIDE DEF N
<1>3. PICK g : Recurses(g, Int, N, 0, step)
  <2> DEFINE T == Int
  <2>1. N \in Nat /\ 0 \in T /\ step \in [1..N -> [T -> T]]
    BY <1>1, <1>2
  <2> HIDE DEF step, T
  <2>2. \E f : Recurses(f, T, N, 0, step)
    BY <2>1, Recursion
  <2> QED
    BY <2>2 DEF T
<1>4. /\ g \in [0..N -> Int] /\ g[0] = 0
      /\ \A n \in 1..N : g[n] = g[n - 1] + s[n]
  <2>1. /\ g \in [0..N -> Int] /\ g[0] = 0
        /\ \A n \in 1..N : g[n] = step[n][g[n - 1]]
    BY <1>3, Zenon DEF Recurses
  <2>2. ASSUME NEW n \in 1..N PROVE g[n] = g[n - 1] + s[n]
    <3>1. g[n - 1] \in Int
      BY <1>1, <2>1
    <3> QED
      BY <2>1, <3>1
  <2> QED
    BY <2>1, <2>2
<1> HIDE DEF step
\* A stretch from one of the values on.
<1> DEFINE Next16(from) == IF from + Stretch < N THEN from + Stretch ELSE N
           Body(acc, from, f) == [i \in from..N |-> IF i = from THEN acc ELSE f[i - 1] + s[i]]
           Run(acc, from) == CHOOSE f : f = Body(acc, from, f)
           Steps(acc, from) == Run(acc, from)[Next16(from)]
<1>5. ASSUME NEW from \in 0..N
      PROVE  Steps(g[from], from) = g[Next16(from)]
  <2> DEFINE f == Run(g[from], from)  h == [i \in from..N |-> g[i]]
  <2>1. h = Body(g[from], from, h)
    <3>1. ASSUME NEW i \in from..N, i # from
          PROVE  h[i] = h[i - 1] + s[i]
      <4>1. i \in 1..N /\ i - 1 \in from..N
        BY <1>1, <3>1
      <4> QED
        BY <1>4, <4>1
    <3> QED
      BY <1>1, <3>1
  <2>2. f = Body(g[from], from, f)
    <3> HIDE DEF h, Body
    <3> QED
      BY <2>1, Zenon
  <2> HIDE DEF f, h
  <2> DEFINE Bad == {i \in from..N : f[i] # g[i]}
  <2>3. Bad = {}
    <3> SUFFICES ASSUME Bad # {} PROVE FALSE
      OBVIOUS
    <3>1. PICK m \in Bad : \A k \in Bad : m <= k
      <4>1. Bad \subseteq Nat
        BY <1>1
      <4> HIDE DEF Bad
      <4> QED
        BY <4>1, LeastOf
    <3>2. f[from] = g[from]
      BY <1>1, <2>2
    <3>3. m \in from..N /\ m # from /\ m - 1 \in from..N /\ m \in 1..N /\ m - 1 \notin Bad
      BY <1>1, <3>1, <3>2
    <3>4. f[m - 1] = g[m - 1]
      BY <3>3
    <3>5. f[m] = f[m - 1] + s[m]
      BY <2>2, <3>3
    <3> QED
      BY <1>4, <3>1, <3>3, <3>4, <3>5
  <2>4. Next16(from) \in from..N
    BY <1>1 DEF Stretch
  <2>5. f[Next16(from)] = g[Next16(from)]
    BY <2>3, <2>4
  <2> QED
    BY <2>5 DEF f
\* The stretches.
<1> DEFINE count == (N + Stretch - 1) \div Stretch
           Then(f, b) == CHOOSE r \in {Steps(x, (b - 1) * Stretch) : x \in {f[b - 1]}} : TRUE
           Stretches(f) == [b \in 0..count |-> IF b = 0 THEN 0 ELSE Then(f, b)]
           after == CHOOSE f : f = Stretches(f)
           At16(b) == IF b * Stretch < N THEN b * Stretch ELSE N
           h == [b \in 0..count |-> g[At16(b)]]
<1>6. Total(s) = after[count]
  BY Zenon DEF Total, Fold, Eagerly, N
<1>7. /\ count \in Nat /\ At16(count) = N
      /\ \A b \in 1..count : /\ (b - 1) * Stretch \in 0..N /\ At16(b - 1) = (b - 1) * Stretch
                             /\ Next16((b - 1) * Stretch) = At16(b)
  BY <1>1 DEF Stretch
<1> HIDE DEF Steps, Next16, At16, count, Body, Run
<1>8. \A f, b : Then(f, b) = Steps(f[b - 1], (b - 1) * Stretch)
  OBVIOUS
<1> HIDE DEF Then
<1>9. h = Stretches(h)
  <2>1. ASSUME NEW b \in 0..count, b # 0
        PROVE  h[b] = Then(h, b)
    <3>1. b \in 1..count /\ b - 1 \in 0..count
      BY <1>7, <2>1
    <3>2. h[b - 1] = g[(b - 1) * Stretch] /\ h[b] = g[Next16((b - 1) * Stretch)]
      BY <1>7, <3>1
    <3>3. Steps(g[(b - 1) * Stretch], (b - 1) * Stretch) = g[Next16((b - 1) * Stretch)]
      BY <1>5, <1>7, <3>1
    <3> QED
      BY <1>8, <3>2, <3>3
  <2>2. h[0] = 0
    BY <1>1, <1>4, <1>7 DEF At16, Stretch
  <2> QED
    BY <1>7, <2>1, <2>2
<1> HIDE DEF h
<1>10. after = Stretches(after)
  <2> HIDE DEF Stretches
  <2> QED
    BY <1>9, Zenon
<1> HIDE DEF after
<1> DEFINE Bad == {b \in 0..count : after[b] # h[b]}
<1>11. Bad = {}
  <2> SUFFICES ASSUME Bad # {} PROVE FALSE
    OBVIOUS
  <2>1. PICK m \in Bad : \A k \in Bad : m <= k
    <3>1. Bad \subseteq Nat
      BY <1>7
    <3> HIDE DEF Bad
    <3> QED
      BY <3>1, LeastOf
  <2>2. m \in 1..count /\ m - 1 \in 0..count /\ m - 1 \notin Bad
    BY <1>7, <1>9, <1>10, <2>1
  <2>3. after[m] = Then(after, m) /\ h[m] = Then(h, m)
    BY <1>9, <1>10, <2>2
  <2>4. after[m - 1] = h[m - 1]
    BY <2>2
  <2> QED
    BY <1>8, <2>1, <2>3, <2>4
<1>12. after[count] = h[count] /\ h[count] = g[N]
  <2>1. count \in 0..count
    BY <1>7
  <2> QED
    BY <1>7, <1>11, <2>1 DEF h
<1>13. Total(s) = g[N]
  BY <1>6, <1>12
<1> QED
  BY <1>4, <1>13 DEF N

\* Where the parts of a concatenation are in it: part i begins after off[i].
Placed(s, n, f, off) ==
  /\ \A i \in 1..n : \A j \in 1..Len(s[i]) :
       off[i] + j \in 1..Len(f) /\ f[off[i] + j] = s[i][j]
  /\ \A p \in 1..Len(f) : \E i \in 1..n : \E j \in 1..Len(s[i]) : p = off[i] + j

\* One part more.
LEMMA PlacedStep ==
  ASSUME NEW S, NEW past \in Seq(S), NEW more \in Seq(S), NEW s, NEW m \in Nat \ {0}, NEW off,
         Placed(s, m - 1, past, off), off[m] = Len(past), s[m] = more
  PROVE  Placed(s, m, past \o more, off)
<1> DEFINE f == past \o more  a == Len(past)  b == Len(more)
<1>1. /\ Len(f) = a + b /\ a \in Nat /\ b \in Nat
      /\ \A p \in 1..a : p \in 1..a + b /\ f[p] = past[p]
      /\ \A j \in 1..b : a + j \in 1..a + b /\ f[a + j] = more[j]
  OBVIOUS
<1>2. /\ \A i \in 1..m - 1 : \A j \in 1..Len(s[i]) :
           off[i] + j \in 1..a /\ past[off[i] + j] = s[i][j]
      /\ \A p \in 1..a : \E i \in 1..m - 1 : \E j \in 1..Len(s[i]) : p = off[i] + j
  BY DEF Placed
<1>3. off[m] = a /\ s[m] = more
  OBVIOUS
<1> HIDE DEF f, a
<1>4. ASSUME NEW i \in 1..m, NEW j \in 1..Len(s[i])
      PROVE  off[i] + j \in 1..Len(f) /\ f[off[i] + j] = s[i][j]
  <2>1. CASE i = m
    BY <1>1, <1>3, <2>1
  <2>2. CASE i # m
    <3>1. i \in 1..m - 1
      BY <2>2
    <3> QED
      BY <1>1, <1>2, <3>1
  <2> QED
    BY <2>1, <2>2
<1>5. ASSUME NEW p \in 1..Len(f)
      PROVE  \E i \in 1..m : \E j \in 1..Len(s[i]) : p = off[i] + j
  <2>1. CASE p <= a
    <3>1. p \in 1..a
      BY <1>1, <2>1
    <3>2. PICK i \in 1..m - 1 : \E j \in 1..Len(s[i]) : p = off[i] + j
      BY <1>2, <3>1
    <3>3. i \in 1..m
      OBVIOUS
    <3> QED
      BY <3>2, <3>3
  <2>2. CASE ~(p <= a)
    <3>1. p - a \in 1..Len(s[m]) /\ m \in 1..m /\ p = off[m] + (p - a)
      BY <1>1, <1>3, <2>2
    <3> QED
      BY <3>1
  <2> QED
    BY <2>1, <2>2
<1> QED
  BY <1>4, <1>5 DEF Placed, f

\* A concatenation is its parts one after the other.
LEMMA FlatOf ==
  ASSUME NEW S, NEW s \in Seq(Seq(S))
  PROVE  /\ Flat(s) \in Seq(S)
         /\ \E off \in [1..Len(s) -> Nat] : Placed(s, Len(s), Flat(s), off)
<1> DEFINE N == Len(s)
<1>1. PICK g \in [0..N -> Seq(S)] :
        /\ g[0] = <<>> /\ \A n \in 1..N : g[n] = g[n - 1] \o s[n]
        /\ Flat(s) = g[N]
  BY FlatFrom
<1>2. N \in Nat /\ \A n \in 1..N : s[n] \in Seq(S)
  OBVIOUS
<1> HIDE DEF N
<1>3. \A n \in 0..N : g[n] \in Seq(S) /\ Len(g[n]) \in Nat
  BY <1>1
<1> DEFINE off == [i \in 1..N |-> Len(g[i - 1])]
<1>4. off \in [1..N -> Nat]
  BY <1>2, <1>3
<1>5. \A i \in 1..N : off[i] = Len(g[i - 1])
  OBVIOUS
<1> HIDE DEF off
<1> DEFINE Bad == {n \in 0..N : ~Placed(s, n, g[n], off)}
<1>6. Bad = {}
  <2> SUFFICES ASSUME Bad # {} PROVE FALSE
    OBVIOUS
  <2>1. PICK m \in Bad : \A k \in Bad : m <= k
    <3>1. Bad \subseteq Nat
      BY <1>2
    <3> HIDE DEF Bad
    <3> QED
      BY <3>1, LeastOf
  <2>2. m # 0
    <3>1. Placed(s, 0, <<>>, off)
      BY DEF Placed
    <3> QED
      BY <1>1, <3>1
  <2>3. m \in 1..N /\ m - 1 \in 0..N /\ m \in 0..N
    BY <1>2, <2>2
  <2>4. m - 1 \notin Bad
    BY <2>1, <2>3
  <2>5. Placed(s, m - 1, g[m - 1], off)
    BY <2>3, <2>4
  <2>6. /\ g[m - 1] \in Seq(S) /\ s[m] \in Seq(S) /\ g[m] = g[m - 1] \o s[m]
        /\ off[m] = Len(g[m - 1])
    BY <1>1, <1>2, <1>3, <1>5, <2>3
  <2>7. m \in Nat \ {0}
    BY <2>3
  <2>8. Placed(s, m, g[m - 1] \o s[m], off)
    BY <2>5, <2>6, <2>7, PlacedStep
  <2> QED
    BY <2>1, <2>6, <2>8
<1>7. N \in 0..N
  BY <1>2
<1>8. Placed(s, N, g[N], off)
  BY <1>6, <1>7
<1> QED
  BY <1>1, <1>3, <1>4, <1>7, <1>8 DEF N

\* A list is the function it lists.
LEMMA ListIs ==
  ASSUME NEW n \in Nat, NEW f, f = [i \in 1..n |-> f[i]]
  PROVE  <<>> \o f = f
<1>1. f \in Seq({f[i] : i \in 1..n})
  OBVIOUS
<1> QED
  BY <1>1

\* A set of numbers from the least one up has them all, and nothing else.
LEMMA AscendingOf ==
  ASSUME NEW S, S \subseteq Nat, IsFiniteSet(S)
  PROVE  /\ Ascending(S) \in Seq(S) /\ Len(Ascending(S)) = Cardinality(S)
         /\ \A x \in S : \E n \in 1..Len(Ascending(S)) : Ascending(S)[n] = x
<1> DEFINE N == Cardinality(S)
           Below(i) == {j \in S : j <= i}
           At1(n) == CHOOSE i \in S : Cardinality(Below(i)) = n
           f == [n \in 1..N |-> At1(n)]
<1>1. N \in Nat
  BY FS_CardinalityType
<1>2. ASSUME NEW i \in S
      PROVE  Cardinality(Below(i)) \in 1..N
  <2>1. Below(i) \subseteq S /\ i \in Below(i)
    OBVIOUS
  <2>2. IsFiniteSet(Below(i)) /\ Cardinality(Below(i)) <= N
    BY <2>1, FS_Subset
  <2>3. Cardinality(Below(i)) \in Nat /\ Cardinality(Below(i)) # 0
    BY <2>1, <2>2, FS_CardinalityType, FS_EmptySet
  <2> QED
    BY <1>1, <2>2, <2>3
<1>3. ASSUME NEW i \in S, NEW j \in S, Cardinality(Below(i)) = Cardinality(Below(j))
      PROVE  i = j
  <2>1. ASSUME NEW a \in S, NEW b \in S, a < b
        PROVE  Cardinality(Below(a)) # Cardinality(Below(b))
    <3>1. IsFiniteSet(Below(b))
      BY FS_Subset
    <3>2. Below(a) \subseteq Below(b) /\ b \in Below(b) /\ b \notin Below(a)
      <4>1. a \in Nat /\ b \in Nat /\ \A c \in S : c \in Nat
        OBVIOUS
      <4>2. \A c \in S : c <= a => c <= b
        BY <2>1, <4>1
      <4>3. b <= b /\ ~(b <= a)
        BY <2>1, <4>1
      <4> QED
        BY <4>2, <4>3
    <3>3. Below(a) # Below(b)
      BY <3>2
    <3> HIDE DEF Below
    <3> QED
      BY <3>1, <3>2, <3>3, FS_Subset
  <2> HIDE DEF Below
  <2>2. i < j \/ j < i \/ i = j
    OBVIOUS
  <2> QED
    BY <1>3, <2>1, <2>2
<1> DEFINE rank == [i \in S |-> Cardinality(Below(i))]
<1>4. rank \in Injection(S, 1..N)
  <2>1. \A i \in S : rank[i] = Cardinality(Below(i))
    OBVIOUS
  <2>2. rank \in [S -> 1..N]
    BY <1>2
  <2> HIDE DEF rank, Below
  <2>3. \A i, j \in S : rank[i] = rank[j] => i = j
    BY <1>3, <2>1
  <2> QED
    BY <2>2, <2>3 DEF Injection, IsInjective
<1>5. IsFiniteSet(1..N) /\ Cardinality(1..N) = N
  <2>1. 1 \in Int /\ N \in Int /\ (1 > N => N = 0) /\ (N - 1) + 1 = N
    BY <1>1
  <2> HIDE DEF N
  <2> QED
    BY <2>1, FS_Interval
<1>6. rank \in Surjection(S, 1..N)
  <2> HIDE DEF rank
  <2> QED
    BY <1>4, <1>5, FS_Injection
<1>7. ASSUME NEW n \in 1..N
      PROVE  f[n] \in S /\ Cardinality(Below(f[n])) = n
  <2>1. \E i \in S : Cardinality(Below(i)) = n
    <3>1. \E i \in S : rank[i] = n
      <4> HIDE DEF rank
      <4> QED
        BY <1>6 DEF Surjection
    <3> QED
      BY <3>1
  <2>2. f[n] = At1(n)
    OBVIOUS
  <2> HIDE DEF Below, f
  <2> QED
    BY <2>1, <2>2
<1> HIDE DEF Below
<1>8. f \in Seq(S) /\ Len(f) = N /\ f = [n \in 1..N |-> f[n]]
  BY <1>1, <1>7
<1>9. Ascending(S) = <<>> \o f
  BY DEF Ascending, List, Below
<1> HIDE DEF f
<1>10. Ascending(S) = f
  BY <1>1, <1>8, <1>9, ListIs
<1>11. ASSUME NEW x \in S
       PROVE  \E n \in 1..N : f[n] = x
  <2> DEFINE n == Cardinality(Below(x))
  <2>1. n \in 1..N /\ f[n] \in S /\ Cardinality(Below(f[n])) = n
    BY <1>2, <1>7
  <2>2. f[n] = x
    BY <1>3, <2>1
  <2> QED
    BY <2>1, <2>2
<1> QED
  BY <1>8, <1>10, <1>11

-----------------------------------------------------------------------------
(* The i21 contract of the chip.                                           *)

\* One term more of a sum within bounds.
LEMMA BoundStep ==
  ASSUME NEW n \in Nat, NEW M \in Nat, NEW a \in Int, NEW b \in -M..M,
         -(n * M) <= a, a <= n * M
  PROVE  /\ -((n + 1) * M) <= a + b /\ a + b <= (n + 1) * M
         /\ a + b = (n + 1) * M => a = n * M /\ b = M
<1>1. (n + 1) * M = n * M + M /\ n * M \in Int
  OBVIOUS
<1> QED
  BY <1>1

\* The sum of terms of at most M is at most M for each, and reaches it only
\* when every one does.
LEMMA TotalBounds ==
  ASSUME NEW s \in Seq(Int), NEW M \in Nat, \A i \in 1..Len(s) : s[i] \in -M..M
  PROVE  /\ Total(s) \in Int /\ -(Len(s) * M) <= Total(s) /\ Total(s) <= Len(s) * M
         /\ Total(s) = Len(s) * M => \A i \in 1..Len(s) : s[i] = M
<1> DEFINE N == Len(s)
<1>1. PICK g \in [0..N -> Int] :
        /\ g[0] = 0 /\ \A n \in 1..N : g[n] = g[n - 1] + s[n]
        /\ Total(s) = g[N]
  BY TotalFrom
<1>2. N \in Nat /\ \A n \in 1..N : s[n] \in -M..M
  OBVIOUS
<1> HIDE DEF N
<1> DEFINE Good(n) == /\ -(n * M) <= g[n] /\ g[n] <= n * M
                      /\ g[n] = n * M => \A i \in 1..n : s[i] = M
           Bad == {n \in 0..N : ~Good(n)}
<1>3. Good(0)
  <2>1. 0 * M = 0
    OBVIOUS
  <2> QED
    BY <1>1, <2>1
<1>4. ASSUME NEW n \in 0..N, n + 1 \in 0..N, Good(n) PROVE Good(n + 1)
  <2>1. /\ g[n] \in Int /\ s[n + 1] \in -M..M /\ g[n + 1] = g[n] + s[n + 1]
        /\ n \in Nat
    BY <1>1, <1>2, <1>4
  <2> DEFINE a == g[n]  b == s[n + 1]
  <2> HIDE DEF a, b
  <2>2. /\ -((n + 1) * M) <= a + b /\ a + b <= (n + 1) * M
        /\ a + b = (n + 1) * M => a = n * M /\ b = M
    <3>1. a \in Int /\ b \in -M..M /\ -(n * M) <= a /\ a <= n * M
      BY <1>4, <2>1 DEF a, b
    <3> QED
      BY <2>1, <3>1, BoundStep
  <2>3. g[n + 1] = a + b
    BY <2>1 DEF a, b
  <2>4. ASSUME g[n + 1] = (n + 1) * M, NEW i \in 1..n + 1 PROVE s[i] = M
    <3>1. g[n] = n * M /\ s[n + 1] = M
      BY <2>2, <2>3, <2>4 DEF a, b
    <3>2. i \in 1..n \/ i = n + 1
      BY <2>1
    <3> QED
      BY <1>4, <3>1, <3>2
  <2> QED
    BY <2>2, <2>3, <2>4
<1> HIDE DEF Good
<1>5. Bad = {}
  <2> SUFFICES ASSUME Bad # {} PROVE FALSE
    OBVIOUS
  <2>1. PICK m \in Bad : \A k \in Bad : m <= k
    <3>1. Bad \subseteq Nat
      BY <1>2
    <3> HIDE DEF Bad
    <3> QED
      BY <3>1, LeastOf
  <2>2. m - 1 \in 0..N /\ m - 1 \notin Bad /\ m \in 0..N /\ (m - 1) + 1 = m
    BY <1>2, <1>3, <2>1
  <2>3. Good(m - 1)
    BY <2>2
  <2>4. Good(m)
    BY <1>4, <2>2, <2>3
  <2> QED
    BY <2>1, <2>4
<1>6. N \in 0..N
  BY <1>2
<1>7. Good(N)
  BY <1>5, <1>6
<1> QED
  BY <1>1, <1>6, <1>7 DEF Good, N

\* The product of two bytes, which is largest for the lowest ones only.
LEMMA ByteProduct ==
  ASSUME NEW B \in Nat \ {0}, NEW a \in -B..B - 1, NEW b \in -B..B - 1
  PROVE  a * b \in -(B * B)..B * B /\ (a * b = B * B => a = -B /\ b = -B)
OBVIOUS

\* A lane of a weight tile.
LEMMA LaneIs ==
  ASSUME NEW values \in ByteLists(Outs * Lanes), NEW r \in 1..Outs
  PROVE  /\ Lane(values, r) = [k \in 1..Lanes |-> values[(r - 1) * Lanes + k]]
         /\ \A k \in 1..Lanes : (r - 1) * Lanes + k \in 1..Outs * Lanes
         /\ Lane(values, r) \in ByteLists(Lanes)
<1> DEFINE f == [k \in 1..Lanes |-> values[(r - 1) * Lanes + k]]
<1>1. Lanes \in Nat \ {0} /\ Outs \in Nat \ {0} /\ r \in Nat \ {0} /\ r <= Outs
  BY ProgramAssumption
<1>2. ASSUME NEW k \in 1..Lanes
      PROVE  (r - 1) * Lanes + k \in 1..Outs * Lanes
  <2>1. (r - 1) * Lanes >= 0 /\ (r - 1) * Lanes + Lanes = r * Lanes /\ r * Lanes <= Outs * Lanes
        /\ (r - 1) * Lanes \in Int /\ Outs * Lanes \in Int
    BY <1>1
  <2> QED
    BY <1>1, <2>1
<1>3. f = [i \in 1..Lanes |-> f[i]]
  OBVIOUS
<1>4. f \in ByteLists(Lanes)
  BY <1>2 DEF ByteLists
<1>5. Lane(values, r) = <<>> \o f
  BY DEF Lane, List
<1> HIDE DEF f
<1>6. Lane(values, r) = f
  BY <1>1, <1>3, <1>5, ListIs
<1> QED
  BY <1>2, <1>4, <1>6 DEF f

\* A partial sum of bytes leaves an i21 only when every weight and every input
\* is the lowest byte.
THEOREM PartialSumFits ==
  ASSUME NEW lane \in ByteLists(Lanes), NEW x \in ByteLists(Lanes),
         \E k \in 1..Lanes : lane[k] # -Byte \/ x[k] # -Byte
  PROVE  IsFit(Acc, DotLane(lane, x))
<1> DEFINE f == [k \in 1..Lanes |-> lane[k] * x[k]]
           M == Byte * Byte
<1>1. /\ Lanes \in Nat /\ Byte \in Nat \ {0} /\ M \in Nat /\ Acc = Lanes * M
      /\ Acc \in Nat \ {0}
  <2>1. Lanes \in Nat \ {0} /\ Byte \in Nat \ {0} /\ Acc = Lanes * Byte * Byte
        /\ Acc \in Nat \ {0}
    BY ProgramAssumption
  <2>2. Lanes * Byte * Byte = Lanes * (Byte * Byte)
    BY <2>1
  <2> QED
    BY <2>1, <2>2
<1>2. ASSUME NEW k \in 1..Lanes
      PROVE  f[k] \in -M..M /\ (f[k] = M => lane[k] = -Byte /\ x[k] = -Byte)
  <2>1. lane[k] \in -Byte..Byte - 1 /\ x[k] \in -Byte..Byte - 1
    BY DEF ByteLists
  <2> QED
    BY <1>1, <2>1, ByteProduct
<1>3. f = [i \in 1..Lanes |-> f[i]]
  OBVIOUS
<1>4. DotLane(lane, x) = Total(<<>> \o f)
  BY DEF DotLane, List
<1> HIDE DEF f, M
<1>5. <<>> \o f = f
  BY <1>1, <1>3, ListIs
<1>6. f \in Seq(Int) /\ Len(f) = Lanes
  <2>1. \A k \in 1..Lanes : f[k] \in Int
    BY <1>1, <1>2
  <2>2. f \in [1..Lanes -> Int]
    BY <1>3, <2>1
  <2> QED
    BY <1>1, <2>2
<1>7. /\ Total(f) \in Int /\ -(Lanes * M) <= Total(f) /\ Total(f) <= Lanes * M
      /\ Total(f) = Lanes * M => \A i \in 1..Lanes : f[i] = M
  BY <1>1, <1>2, <1>6, TotalBounds
<1>8. Total(f) # Lanes * M
  BY <1>2, <1>7
<1> QED
  BY <1>1, <1>4, <1>5, <1>7, <1>8 DEF IsFit

\* What validateBF16Group accepts cannot overflow on the chip: with branches
\* split by sign whatever the inputs are, and with whole weights because it
\* excludes the only group that would.
THEOREM AcceptedGroupFits ==
  ASSUME NEW weight, weight.values \in ByteLists(Outs * Lanes),
         NEW input, input.mantissas \in ByteLists(Lanes),
         NEW mode \in {"legacy", "sign-split"}, validateBF16Group(weight, input, mode),
         NEW r \in 1..Outs
  PROVE  IsFit(Acc, DotLane(Lane(weight.values, r), input.mantissas))
<1> DEFINE lane == Lane(weight.values, r)
<1>1. /\ lane = [k \in 1..Lanes |-> weight.values[(r - 1) * Lanes + k]]
      /\ \A k \in 1..Lanes : (r - 1) * Lanes + k \in 1..Outs * Lanes
      /\ lane \in ByteLists(Lanes)
  BY LaneIs
<1>2. Lanes \in Nat \ {0} /\ Byte \in Nat \ {0}
  BY ProgramAssumption
<1>3. DOMAIN weight.values = 1..Outs * Lanes /\ DOMAIN input.mantissas = 1..Lanes
      /\ DOMAIN lane = 1..Lanes
  BY <1>1 DEF ByteLists
<1> HIDE DEF lane
<1>4. \E k \in 1..Lanes : lane[k] # -Byte \/ input.mantissas[k] # -Byte
  <2>1. CASE mode = "legacy"
    <3>1. ~ /\ \A k \in DOMAIN input.mantissas : input.mantissas[k] = -Byte
            /\ \A k \in DOMAIN lane : lane[k] = -Byte
      BY <2>1 DEF validateBF16Group, lane
    <3> QED
      BY <1>3, <3>1
  <2>2. CASE mode = "sign-split"
    <3>1. \A i \in DOMAIN weight.values : weight.values[i] >= 0
      BY <2>2 DEF validateBF16Group
    <3>2. 1 \in 1..Lanes
      BY <1>2
    <3>3. (r - 1) * Lanes + 1 \in DOMAIN weight.values
      BY <1>1, <1>3, <3>2
    <3>4. lane[1] >= 0
      BY <1>1, <3>1, <3>2, <3>3
    <3> QED
      BY <1>2, <3>2, <3>4
  <2> QED
    BY <2>1, <2>2
<1> QED
  BY <1>1, <1>4, PartialSumFits DEF lane

-----------------------------------------------------------------------------
(* What the compiler proves of the partial sums of a contraction: the i21  *)
(* analysis of a matmul of bytes.                                          *)

\* The terms of tile t of row r of a weight matrix with k columns, and their sum
\* as a Macro accumulates it.
TileTerms(k, weights, x, r, t) ==
  [j \in 1..Least(k - t * Lanes, Lanes) |->
     weights[r * k + (t * Lanes + j)] * x[t * Lanes + j]]
TileSum(k, weights, x, r, t) == Total(TileTerms(k, weights, x, r, t))
\* The matrix and the input ranges the analysis gets, and an input within them.
IsMatrix(rows, k, weights) == weights \in [1..rows * k -> Int]
AreRanges(k, ranges) ==
  ranges \in [1..k -> Int \X Int] /\ \A l \in 1..k : ranges[l][1] <= ranges[l][2]
WithinRanges(k, ranges, x) ==
  x \in [1..k -> Int] /\ \A l \in 1..k : x[l] \in ranges[l][1]..ranges[l][2]
\* The input that makes every sum of row r as large, or as small, as it gets.
Corner(k, weights, ranges, r, up) ==
  [l \in 1..k |-> ranges[l][IF (weights[r * k + l] >= 0) = up THEN 2 ELSE 1]]

\* A sum of terms that are not larger is not larger.
LEMMA TotalMonotone ==
  ASSUME NEW s \in Seq(Int), NEW u \in Seq(Int), Len(s) = Len(u),
         \A i \in 1..Len(s) : s[i] <= u[i]
  PROVE  Total(s) \in Int /\ Total(u) \in Int /\ Total(s) <= Total(u)
<1> DEFINE N == Len(s)
<1>1. PICK g \in [0..N -> Int] :
        /\ g[0] = 0 /\ \A n \in 1..N : g[n] = g[n - 1] + s[n]
        /\ Total(s) = g[N]
  BY TotalFrom
<1>2. PICK h \in [0..N -> Int] :
        /\ h[0] = 0 /\ \A n \in 1..N : h[n] = h[n - 1] + u[n]
        /\ Total(u) = h[N]
  BY TotalFrom
<1>3. N \in Nat /\ \A i \in 1..N : s[i] \in Int /\ u[i] \in Int /\ s[i] <= u[i]
  OBVIOUS
<1> HIDE DEF N
<1> DEFINE Bad == {n \in 0..N : ~ (g[n] <= h[n])}
<1>4. Bad = {}
  <2> SUFFICES ASSUME Bad # {} PROVE FALSE
    OBVIOUS
  <2>1. PICK m \in Bad : \A i \in Bad : m <= i
    <3>1. Bad \subseteq Nat
      BY <1>3
    <3> HIDE DEF Bad
    <3> QED
      BY <3>1, LeastOf
  <2>2. m \in 1..N /\ m - 1 \in 0..N /\ m - 1 \notin Bad
    BY <1>1, <1>2, <1>3, <2>1
  <2>3. g[m - 1] <= h[m - 1] /\ g[m - 1] \in Int /\ h[m - 1] \in Int
    BY <1>1, <1>2, <2>2
  <2>4. g[m] = g[m - 1] + s[m] /\ h[m] = h[m - 1] + u[m]
    BY <1>1, <1>2, <2>2
  <2>5. s[m] \in Int /\ u[m] \in Int /\ s[m] <= u[m]
    BY <1>3, <2>2
  <2> DEFINE a == g[m - 1]  b == h[m - 1]  c == s[m]  d == u[m]
  <2>6. g[m] <= h[m]
    <3>1. a \in Int /\ b \in Int /\ c \in Int /\ d \in Int /\ a <= b /\ c <= d
          /\ g[m] = a + c /\ h[m] = b + d
      BY <2>3, <2>4, <2>5, Zenon
    <3> HIDE DEF a, b, c, d, Bad
    <3>2. a + c <= b + d
      BY <3>1
    <3> QED
      BY <3>1, <3>2, Zenon
  <2> QED
    BY <2>1, <2>6
<1>5. N \in 0..N
  BY <1>3
<1> QED
  BY <1>1, <1>2, <1>4, <1>5

\* The columns of a tile, and the weights of a row of it.
LEMMA TileColumns ==
  ASSUME NEW rows \in Nat, NEW k \in Nat \ {0}, NEW r \in 0..rows - 1,
         NEW t \in 0..CeilDiv(k, Lanes) - 1
  PROVE  /\ Least(k - t * Lanes, Lanes) \in Nat
         /\ \A l \in 1..k : r * k + l \in 1..rows * k
         /\ \A j \in 1..Least(k - t * Lanes, Lanes) : t * Lanes + j \in 1..k
<1>1. Lanes \in Nat \ {0}
  BY ProgramAssumption
<1> DEFINE c == CeilDiv(k, Lanes)
<1>2. c \in Int /\ c * Lanes <= k + Lanes - 1
  BY <1>1 DEF CeilDiv
<1>3. t \in Nat /\ t + 1 <= c
  BY <1>2
<1> HIDE DEF c
<1>4. (t + 1) * Lanes <= c * Lanes /\ (t + 1) * Lanes = t * Lanes + Lanes
      /\ t * Lanes \in Nat /\ c * Lanes \in Int
  BY <1>1, <1>2, <1>3
<1>5. t * Lanes < k
  BY <1>1, <1>2, <1>4
<1>6. ASSUME NEW l \in 1..k PROVE r * k + l \in 1..rows * k
  <2>1. r \in Nat /\ r + 1 <= rows /\ (r + 1) * k = r * k + k /\ r * k \in Nat
    OBVIOUS
  <2>2. (r + 1) * k <= rows * k /\ rows * k \in Nat
    BY <2>1
  <2> QED
    BY <2>1, <2>2
<1> DEFINE T == t * Lanes
<1>7. T \in Nat /\ T < k
  BY <1>4, <1>5
<1> HIDE DEF T
<1>8. /\ Least(k - T, Lanes) \in Nat
      /\ \A j \in 1..Least(k - T, Lanes) : T + j \in 1..k
  BY <1>1, <1>7 DEF Least
<1> QED
  BY <1>6, <1>8 DEF T

\* The terms of a tile are integers, and a list.
LEMMA TermsOf ==
  ASSUME NEW rows \in Nat, NEW k \in Nat \ {0}, NEW weights, IsMatrix(rows, k, weights),
         NEW x \in [1..k -> Int], NEW r \in 0..rows - 1, NEW t \in 0..CeilDiv(k, Lanes) - 1
  PROVE  /\ TileTerms(k, weights, x, r, t) \in Seq(Int)
         /\ Len(TileTerms(k, weights, x, r, t)) = Least(k - t * Lanes, Lanes)
         /\ \A j \in 1..Least(k - t * Lanes, Lanes) :
              /\ TileTerms(k, weights, x, r, t)[j]
                   = weights[r * k + (t * Lanes + j)] * x[t * Lanes + j]
              /\ t * Lanes + j \in 1..k /\ weights[r * k + (t * Lanes + j)] \in Int
              /\ x[t * Lanes + j] \in Int
<1> DEFINE n == Least(k - t * Lanes, Lanes)
           l(j) == t * Lanes + j
           w(j) == weights[r * k + l(j)]
           f == [j \in 1..n |-> w(j) * x[l(j)]]
<1>1. n \in Nat /\ \A j \in 1..n : l(j) \in 1..k /\ r * k + l(j) \in 1..rows * k
  BY TileColumns
<1>2. \A j \in 1..n : w(j) \in Int /\ x[l(j)] \in Int
  BY <1>1 DEF IsMatrix
<1>3. f \in Seq(Int) /\ Len(f) = n /\ \A j \in 1..n : f[j] = w(j) * x[l(j)]
  <2> HIDE DEF n, l, w
  <2>1. f \in [1..n -> Int]
    BY <1>2
  <2> QED
    BY <1>1, <2>1
<1>4. TileTerms(k, weights, x, r, t) = f
  BY DEF TileTerms
<1> QED
  BY <1>1, <1>2, <1>3, <1>4, Zenon

\* A corner is an input within the ranges.
LEMMA CornerWithin ==
  ASSUME NEW k \in Nat \ {0}, NEW weights, NEW ranges, AreRanges(k, ranges), NEW r,
         NEW up \in BOOLEAN
  PROVE  WithinRanges(k, ranges, Corner(k, weights, ranges, r, up))
<1> DEFINE which(l) == IF (weights[r * k + l] >= 0) = up THEN 2 ELSE 1
           x == [l \in 1..k |-> ranges[l][which(l)]]
<1>1. ASSUME NEW l \in 1..k
      PROVE  x[l] \in Int /\ x[l] \in ranges[l][1]..ranges[l][2]
  <2>1. ranges[l] \in Int \X Int /\ ranges[l][1] <= ranges[l][2]
    BY DEF AreRanges
  <2>2. ranges[l][1] \in Int /\ ranges[l][2] \in Int
    BY <2>1
  <2>3. x[l] = ranges[l][1] \/ x[l] = ranges[l][2]
    <3>1. which(l) = 1 \/ which(l) = 2
      BY Zenon
    <3>2. x[l] = ranges[l][which(l)]
      OBVIOUS
    <3> QED
      BY <3>1, <3>2, Zenon
  <2> QED
    BY <2>1, <2>2, <2>3
<1>2. x = Corner(k, weights, ranges, r, up)
  BY DEF Corner
<1>3. x = [l \in 1..k |-> x[l]]
  OBVIOUS
<1> HIDE DEF x
<1>4. x \in [1..k -> Int]
  BY <1>1, <1>3
<1> QED
  BY <1>1, <1>2, <1>4 DEF WithinRanges

\* The analysis looks at the two corners of every row.
LEMMA AnalysisIs ==
  ASSUME NEW rows \in Nat, NEW k \in Nat \ {0}, NEW weights, IsMatrix(rows, k, weights),
         NEW ranges, AreRanges(k, ranges)
  PROVE  proveMatMulIntegerRanges(rows, k, weights, ranges)
         <=> \A r \in 0..rows - 1, t \in 0..CeilDiv(k, Lanes) - 1 :
               \A up \in BOOLEAN :
                 IsFit(Acc, TileSum(k, weights, Corner(k, weights, ranges, r, up), r, t))
<1> DEFINE List1(r, t, up) ==
             List(Least(k - t * Lanes, Lanes), LAMBDA j :
               LET l == t * Lanes + j  w == weights[r * k + l]
               IN w * ranges[l][IF (w >= 0) = up THEN 2 ELSE 1])
<1>1. ASSUME NEW r \in 0..rows - 1, NEW t \in 0..CeilDiv(k, Lanes) - 1, NEW up \in BOOLEAN
      PROVE  List1(r, t, up) = TileTerms(k, weights, Corner(k, weights, ranges, r, up), r, t)
  <2> DEFINE n == Least(k - t * Lanes, Lanes)
             x == Corner(k, weights, ranges, r, up)
             f == [j \in 1..n |->
                     weights[r * k + (t * Lanes + j)]
                       * ranges[t * Lanes + j]
                           [IF (weights[r * k + (t * Lanes + j)] >= 0) = up THEN 2 ELSE 1]]
  <2>1. n \in Nat /\ \A j \in 1..n : t * Lanes + j \in 1..k
    BY TileColumns
  <2>2. List1(r, t, up) = <<>> \o f
    BY DEF List
  <2>3. f = [j \in 1..n |-> f[j]]
    OBVIOUS
  <2>4. <<>> \o f = f
    <3> HIDE DEF f, n
    <3> QED
      BY <2>1, <2>3, ListIs
  <2>5. ASSUME NEW j \in 1..n
        PROVE  f[j] = weights[r * k + (t * Lanes + j)] * x[t * Lanes + j]
    <3> DEFINE l == t * Lanes + j
    <3>1. l \in 1..k
      BY <2>1
    <3> HIDE DEF l
    <3>2. x[l] = ranges[l][IF (weights[r * k + l] >= 0) = up THEN 2 ELSE 1]
      BY <3>1 DEF Corner
    <3> QED
      BY <3>2 DEF l
  <2>6. TileTerms(k, weights, x, r, t)
          = [j \in 1..n |-> weights[r * k + (t * Lanes + j)] * x[t * Lanes + j]]
    BY DEF TileTerms
  <2> HIDE DEF n, x, f
  <2>7. f = TileTerms(k, weights, x, r, t)
    BY <2>3, <2>5, <2>6
  <2> QED
    BY <2>2, <2>4, <2>7 DEF x
<1>2. proveMatMulIntegerRanges(rows, k, weights, ranges)
      <=> \A r \in 0..rows - 1, t \in 0..CeilDiv(k, Lanes) - 1 :
            IsFit(Acc, Total(List1(r, t, FALSE))) /\ IsFit(Acc, Total(List1(r, t, TRUE)))
  BY Zenon DEF proveMatMulIntegerRanges
<1> HIDE DEF List1
<1> QED
  BY <1>1, <1>2, Zenon DEF TileSum

\* A product with an input within its range lies between those with its ends.
LEMMA ProductBetween ==
  ASSUME NEW w \in Int, NEW low \in Int, NEW high \in Int, NEW x \in low..high
  PROVE  /\ w * (IF (w >= 0) = FALSE THEN high ELSE low) <= w * x
         /\ w * x <= w * (IF (w >= 0) = TRUE THEN high ELSE low)
<1>1. CASE w >= 0
  <2>1. w * low <= w * x /\ w * x <= w * high
    BY <1>1
  <2> QED
    BY <1>1, <2>1
<1>2. CASE ~ (w >= 0)
  <2>1. w * high <= w * x /\ w * x <= w * low
    BY <1>2
  <2> QED
    BY <1>2, <2>1
<1> QED
  BY <1>1, <1>2

\* What proveMatMulIntegerRanges admits is exactly what the chip computes right:
\* it holds if and only if no input within the ranges makes a tile of any row
\* leave an i21, whatever the number of rows and columns, the weights and the
\* ranges are.  Nothing that fits is refused, and nothing that overflows passes.
THEOREM RangesExact ==
  ASSUME NEW rows \in Nat, NEW k \in Nat \ {0}, NEW weights, IsMatrix(rows, k, weights),
         NEW ranges, AreRanges(k, ranges)
  PROVE  proveMatMulIntegerRanges(rows, k, weights, ranges)
         <=> \A x : WithinRanges(k, ranges, x) =>
               \A r \in 0..rows - 1, t \in 0..CeilDiv(k, Lanes) - 1 :
                 IsFit(Acc, TileSum(k, weights, x, r, t))
<1> DEFINE Tiles == 0..CeilDiv(k, Lanes) - 1
           C(r, up) == Corner(k, weights, ranges, r, up)
<1>1. ASSUME \A r \in 0..rows - 1, t \in Tiles : \A up \in BOOLEAN :
               IsFit(Acc, TileSum(k, weights, C(r, up), r, t)),
             NEW x, WithinRanges(k, ranges, x), NEW r \in 0..rows - 1, NEW t \in Tiles
      PROVE  IsFit(Acc, TileSum(k, weights, x, r, t))
  <2> DEFINE n == Least(k - t * Lanes, Lanes)
             low == TileTerms(k, weights, C(r, FALSE), r, t)
             mid == TileTerms(k, weights, x, r, t)
             high == TileTerms(k, weights, C(r, TRUE), r, t)
  <2>1. /\ x \in [1..k -> Int] /\ C(r, FALSE) \in [1..k -> Int] /\ C(r, TRUE) \in [1..k -> Int]
    BY <1>1, CornerWithin DEF WithinRanges
  <2> DEFINE Terms(y) == TileTerms(k, weights, y, r, t)
  <2>2. ASSUME NEW y \in [1..k -> Int]
        PROVE  /\ Terms(y) \in Seq(Int) /\ Len(Terms(y)) = n
               /\ \A j \in 1..n :
                    /\ Terms(y)[j] = weights[r * k + (t * Lanes + j)] * y[t * Lanes + j]
                    /\ t * Lanes + j \in 1..k /\ weights[r * k + (t * Lanes + j)] \in Int
    <3>1. t \in 0..CeilDiv(k, Lanes) - 1
      OBVIOUS
    <3> HIDE DEF n, Terms, Tiles
    <3>2. /\ TileTerms(k, weights, y, r, t) \in Seq(Int)
          /\ Len(TileTerms(k, weights, y, r, t)) = Least(k - t * Lanes, Lanes)
          /\ \A j \in 1..Least(k - t * Lanes, Lanes) :
               /\ TileTerms(k, weights, y, r, t)[j]
                    = weights[r * k + (t * Lanes + j)] * y[t * Lanes + j]
               /\ t * Lanes + j \in 1..k /\ weights[r * k + (t * Lanes + j)] \in Int
               /\ y[t * Lanes + j] \in Int
      BY <3>1, TermsOf, Zenon
    <3> QED
      BY <3>2, Zenon DEF n, Terms
  <2> HIDE DEF n, Terms
  <2>3. low = Terms(C(r, FALSE)) /\ mid = Terms(x) /\ high = Terms(C(r, TRUE))
    BY DEF Terms
  <2>4. low \in Seq(Int) /\ mid \in Seq(Int) /\ high \in Seq(Int)
        /\ Len(low) = n /\ Len(mid) = n /\ Len(high) = n
    <3> HIDE DEF low, mid, high, C
    <3> QED
      BY <2>1, <2>2, <2>3
  <2>5. ASSUME NEW j \in 1..n PROVE low[j] <= mid[j] /\ mid[j] <= high[j]
    <3> DEFINE l == t * Lanes + j
               w == weights[r * k + l]
    <3>1. l \in 1..k /\ w \in Int
      BY <2>1, <2>2
    <3>2. low[j] = w * C(r, FALSE)[l] /\ mid[j] = w * x[l] /\ high[j] = w * C(r, TRUE)[l]
      <4> HIDE DEF low, mid, high, C
      <4> QED
        BY <2>1, <2>2, <2>3
    <3> HIDE DEF l
    <3>3. /\ C(r, FALSE)[l] = ranges[l][IF (w >= 0) = FALSE THEN 2 ELSE 1]
          /\ C(r, TRUE)[l] = ranges[l][IF (w >= 0) = TRUE THEN 2 ELSE 1]
      BY <3>1 DEF Corner
    <3> HIDE DEF w, C, low, mid, high
    <3>4. ranges[l][1] \in Int /\ ranges[l][2] \in Int /\ x[l] \in ranges[l][1]..ranges[l][2]
      BY <1>1, <3>1 DEF WithinRanges, AreRanges
    <3>5. /\ w * (IF (w >= 0) = FALSE THEN ranges[l][2] ELSE ranges[l][1]) <= w * x[l]
          /\ w * x[l] <= w * (IF (w >= 0) = TRUE THEN ranges[l][2] ELSE ranges[l][1])
      BY <3>1, <3>4, ProductBetween
    <3>6. /\ ranges[l][IF (w >= 0) = FALSE THEN 2 ELSE 1]
               = (IF (w >= 0) = FALSE THEN ranges[l][2] ELSE ranges[l][1])
          /\ ranges[l][IF (w >= 0) = TRUE THEN 2 ELSE 1]
               = (IF (w >= 0) = TRUE THEN ranges[l][2] ELSE ranges[l][1])
      BY Zenon
    <3> QED
      BY <3>2, <3>3, <3>5, <3>6
  <2>6. IsFit(Acc, Total(low)) /\ IsFit(Acc, Total(high))
    BY <1>1 DEF TileSum
  <2> HIDE DEF low, mid, high
  <2>7. /\ Total(low) \in Int /\ Total(mid) \in Int /\ Total(high) \in Int
        /\ Total(low) <= Total(mid) /\ Total(mid) <= Total(high)
    BY <2>4, <2>5, TotalMonotone
  <2>8. IsFit(Acc, Total(mid))
    <3>1. Acc \in Nat
      BY ProgramAssumption
    <3> QED
      BY <2>6, <2>7, <3>1 DEF IsFit
  <2> QED
    BY <2>8 DEF TileSum, mid
<1>2. ASSUME \A x : WithinRanges(k, ranges, x) =>
               \A r \in 0..rows - 1, t \in Tiles : IsFit(Acc, TileSum(k, weights, x, r, t)),
             NEW r \in 0..rows - 1, NEW t \in Tiles, NEW up \in BOOLEAN
      PROVE  IsFit(Acc, TileSum(k, weights, C(r, up), r, t))
  <2>1. WithinRanges(k, ranges, C(r, up))
    BY CornerWithin
  <2> QED
    BY <1>2, <2>1
<1>3. proveMatMulIntegerRanges(rows, k, weights, ranges)
      <=> \A r \in 0..rows - 1, t \in Tiles : \A up \in BOOLEAN :
            IsFit(Acc, TileSum(k, weights, C(r, up), r, t))
  BY AnalysisIs
<1> HIDE DEF C, Tiles
<1>4. ASSUME proveMatMulIntegerRanges(rows, k, weights, ranges)
      PROVE  \A x : WithinRanges(k, ranges, x) =>
               \A r \in 0..rows - 1, t \in Tiles : IsFit(Acc, TileSum(k, weights, x, r, t))
  BY <1>1, <1>3, <1>4, Zenon
<1>5. ASSUME \A x : WithinRanges(k, ranges, x) =>
               \A r \in 0..rows - 1, t \in Tiles : IsFit(Acc, TileSum(k, weights, x, r, t))
      PROVE  proveMatMulIntegerRanges(rows, k, weights, ranges)
  BY <1>2, <1>3, <1>5, Zenon
<1> QED
  BY <1>4, <1>5, Zenon DEF Tiles

-----------------------------------------------------------------------------
(* The waves of an execution plan.                                         *)

\* Works as map-cim-schedule leaves them: with their identity, on a Core there
\* is, all of one group on one Core.
HasIdentity(w) ==
  /\ "at" \in DOMAIN w /\ {"tx", "group", "work", "core"} \subseteq DOMAIN w.at
  /\ w.at.tx \in Nat /\ w.at.group \in Nat /\ w.at.core \in 0..Cores - 1
IsMapped(works) ==
  /\ IsList(works)
  /\ \A i \in DOMAIN works : HasIdentity(works[i])
  /\ \A i, j \in DOMAIN works :
       works[i].at.tx = works[j].at.tx /\ works[i].at.group = works[j].at.group
         => works[i].at.core = works[j].at.core

\* The states of the fold over the works of a schedule.
PlacedFrom(g, works) ==
  /\ g = [n \in 0..Len(works) |-> g[n]] /\ g[0] = NoWave
  /\ \A n \in 1..Len(works) : g[n] = PlaceInWave(g[n - 1], works[n])

\* There are such states, and the waves are those of the last.
LEMMA WaveStates ==
  ASSUME NEW works, IsList(works)
  PROVE  \E g : PlacedFrom(g, works) /\ Waves(works) = g[Len(works)].out
<1> DEFINE N == Len(works)
           Goes(g, m) == /\ g = [n \in 0..m |-> g[n]] /\ g[0] = NoWave
                         /\ \A n \in 1..m : g[n] = PlaceInWave(g[n - 1], works[n])
<1>1. N \in Nat
  BY DEF IsList
<1> HIDE DEF N
<1> DEFINE Bad == {m \in 0..N : ~\E g : Goes(g, m)}
<1>2. Bad = {}
  <2> SUFFICES ASSUME Bad # {} PROVE FALSE
    OBVIOUS
  <2>1. PICK m \in Bad : \A k \in Bad : m <= k
    <3>1. Bad \subseteq Nat
      BY <1>1
    <3> HIDE DEF Bad
    <3> QED
      BY <3>1, LeastOf
  <2>2. m # 0
    <3> DEFINE g == [i \in 0..0 |-> NoWave]
    <3>1. g = [n \in 0..0 |-> g[n]] /\ g[0] = NoWave /\ 1..0 = {}
      OBVIOUS
    <3>2. Goes(g, 0)
      BY <3>1, Zenon
    <3> QED
      BY <3>2
  <2>3. m \in 1..N /\ m - 1 \in 0..N /\ m - 1 \notin Bad
    BY <1>1, <2>1, <2>2
  <2>4. PICK g : Goes(g, m - 1)
    BY <2>3
  <2> DEFINE h == [n \in 0..m |-> IF n = m THEN PlaceInWave(g[m - 1], works[m]) ELSE g[n]]
  <2>5. h = [n \in 0..m |-> h[n]]
    OBVIOUS
  <2>6. /\ \A n \in 0..m - 1 : h[n] = g[n]
        /\ h[m] = PlaceInWave(g[m - 1], works[m])
    BY <1>1, <2>3
  <2> HIDE DEF h
  <2>7. h[0] = NoWave
    BY <1>1, <2>3, <2>4, <2>6
  <2>8. ASSUME NEW n \in 1..m PROVE h[n] = PlaceInWave(h[n - 1], works[n])
    <3>1. CASE n = m
      <4>1. m - 1 \in 0..m - 1
        BY <2>3
      <4> QED
        BY <2>6, <3>1, <4>1
    <3>2. CASE n # m
      <4>1. n \in 1..m - 1 /\ n \in 0..m - 1 /\ n - 1 \in 0..m - 1
        BY <2>3, <3>2
      <4> QED
        BY <2>4, <2>6, <4>1
    <3> QED
      BY <3>1, <3>2
  <2>9. Goes(h, m)
    BY <2>5, <2>7, <2>8, Zenon
  <2> QED
    BY <2>1, <2>9
<1>3. PICK g : Goes(g, N)
  <2>1. N \in 0..N
    BY <1>1
  <2> QED
    BY <1>2, <2>1
<1>4. g[0] = NoWave /\ \A n \in 1..N : g[n] = PlaceInWave(g[n - 1], works[n])
  BY <1>3, Zenon
\* A stretch from one of the states on.
<1> DEFINE Next16(from) == IF from + Stretch < N THEN from + Stretch ELSE N
           Body(acc, from, f) ==
             [i \in from..N |-> IF i = from THEN acc ELSE PlaceInWave(f[i - 1], works[i])]
           Run(acc, from) == CHOOSE f : f = Body(acc, from, f)
           Steps(acc, from) == Run(acc, from)[Next16(from)]
<1>5. ASSUME NEW from \in 0..N
      PROVE  Steps(g[from], from) = g[Next16(from)]
  <2> DEFINE f == Run(g[from], from)  h == [i \in from..N |-> g[i]]
  <2>1. h = Body(g[from], from, h)
    <3>1. ASSUME NEW i \in from..N, i # from
          PROVE  h[i] = PlaceInWave(h[i - 1], works[i])
      <4>1. i \in 1..N /\ i - 1 \in from..N
        BY <1>1, <3>1
      <4>2. h[i] = g[i] /\ h[i - 1] = g[i - 1]
        BY <4>1
      <4> QED
        BY <1>4, <4>1, <4>2
    <3> QED
      BY <1>1, <3>1
  <2>2. f = Body(g[from], from, f)
    <3> HIDE DEF h, Body
    <3> QED
      BY <2>1, Zenon
  <2> HIDE DEF f, h
  <2> DEFINE Wrong == {i \in from..N : f[i] # g[i]}
  <2>3. Wrong = {}
    <3> SUFFICES ASSUME Wrong # {} PROVE FALSE
      OBVIOUS
    <3>1. PICK m \in Wrong : \A k \in Wrong : m <= k
      <4>1. Wrong \subseteq Nat
        BY <1>1
      <4> HIDE DEF Wrong
      <4> QED
        BY <4>1, LeastOf
    <3>2. f[from] = g[from]
      BY <1>1, <2>2
    <3>3. m \in from..N /\ m # from /\ m - 1 \in from..N /\ m \in 1..N /\ m - 1 \notin Wrong
      BY <1>1, <3>1, <3>2
    <3>4. f[m - 1] = g[m - 1]
      BY <3>3
    <3>5. f[m] = PlaceInWave(f[m - 1], works[m])
      BY <2>2, <3>3
    <3>6. f[m] = g[m]
      BY <1>4, <3>3, <3>4, <3>5
    <3> QED
      BY <3>1, <3>6
  <2>4. Next16(from) \in from..N
    BY <1>1 DEF Stretch
  <2>5. f[Next16(from)] = g[Next16(from)]
    BY <2>3, <2>4
  <2> QED
    BY <2>5 DEF f
\* The stretches.
<1> DEFINE count == (N + Stretch - 1) \div Stretch
           Then(f, b) == CHOOSE r \in {Steps(x, (b - 1) * Stretch) : x \in {f[b - 1]}} : TRUE
           Stretches(f) == [b \in 0..count |-> IF b = 0 THEN NoWave ELSE Then(f, b)]
           after == CHOOSE f : f = Stretches(f)
           At16(b) == IF b * Stretch < N THEN b * Stretch ELSE N
           h == [b \in 0..count |-> g[At16(b)]]
<1>6. Fold(PlaceInWave, NoWave, works) = after[count]
  BY Zenon DEF Fold, Eagerly, N
<1>7. /\ count \in Nat /\ At16(count) = N
      /\ \A b \in 1..count : /\ (b - 1) * Stretch \in 0..N /\ At16(b - 1) = (b - 1) * Stretch
                             /\ Next16((b - 1) * Stretch) = At16(b)
  BY <1>1 DEF Stretch
<1> HIDE DEF Steps, Next16, At16, count, Body, Run
<1>8. \A f, b : Then(f, b) = Steps(f[b - 1], (b - 1) * Stretch)
  OBVIOUS
<1> HIDE DEF Then
<1>9. h = Stretches(h)
  <2>1. ASSUME NEW b \in 0..count, b # 0
        PROVE  h[b] = Then(h, b)
    <3>1. b \in 1..count /\ b - 1 \in 0..count
      BY <1>7, <2>1
    <3>2. h[b - 1] = g[(b - 1) * Stretch] /\ h[b] = g[Next16((b - 1) * Stretch)]
      BY <1>7, <3>1
    <3>3. Steps(g[(b - 1) * Stretch], (b - 1) * Stretch) = g[Next16((b - 1) * Stretch)]
      BY <1>5, <1>7, <3>1
    <3> QED
      BY <1>8, <3>2, <3>3
  <2>2. h[0] = NoWave
    BY <1>1, <1>4, <1>7 DEF At16, Stretch
  <2> QED
    BY <1>7, <2>1, <2>2
<1> HIDE DEF h
<1>10. after = Stretches(after)
  <2> HIDE DEF Stretches
  <2> QED
    BY <1>9, Zenon
<1> HIDE DEF after
<1> DEFINE Wrong == {b \in 0..count : after[b] # h[b]}
<1>11. Wrong = {}
  <2> SUFFICES ASSUME Wrong # {} PROVE FALSE
    OBVIOUS
  <2>1. PICK m \in Wrong : \A k \in Wrong : m <= k
    <3>1. Wrong \subseteq Nat
      BY <1>7
    <3> HIDE DEF Wrong
    <3> QED
      BY <3>1, LeastOf
  <2>2. m \in 1..count /\ m - 1 \in 0..count /\ m - 1 \notin Wrong
    BY <1>7, <1>9, <1>10, <2>1
  <2>3. after[m] = Then(after, m) /\ h[m] = Then(h, m)
    BY <1>9, <1>10, <2>2
  <2>4. after[m - 1] = h[m - 1]
    BY <2>2
  <2> QED
    BY <1>8, <2>1, <2>3, <2>4
<1>12. after[count] = h[count] /\ h[count] = g[N]
  <2>1. count \in 0..count
    BY <1>7
  <2> QED
    BY <1>7, <1>11, <2>1 DEF h
<1>13. Waves(works) = g[N].out
  <2>1. Fold(PlaceInWave, NoWave, works) = g[N]
    BY <1>6, <1>12
  <2> HIDE DEF N
  <2> QED
    BY <2>1 DEF Waves
<1> QED
  BY <1>3, <1>4, <1>13, Zenon DEF N, PlacedFrom

\* What a step of the fold says of one more work.
LEMMA PlaceIs ==
  ASSUME NEW s, NEW w, NEW p, p = PlaceInWave(s, w)
  PROVE  /\ p.source = w.at.tx /\ p.group = w.at.group
         /\ OpensWave(s, w) => /\ p.tx = s.tx + 1 /\ p.local = 0 /\ p.work = 0
                               /\ p.cores = {w.at.core}
         /\ ~OpensWave(s, w) /\ OpensGroup(s, w) =>
              /\ p.tx = s.tx /\ p.local = s.local + 1 /\ p.work = s.work + 1
              /\ p.cores = s.cores \cup {w.at.core}
         /\ ~OpensWave(s, w) /\ ~OpensGroup(s, w) =>
              /\ p.tx = s.tx /\ p.local = s.local /\ p.work = s.work + 1
              /\ p.cores = s.cores
         /\ p.out = Append(s.out, Numbered(w, p.tx, p.local, p.work))
         /\ OpensWave(s, w) => OpensGroup(s, w)
<1> DEFINE fresh == OpensWave(s, w)
           opens == OpensGroup(s, w)
<1>1. fresh => opens
  BY DEF OpensWave, OpensGroup
<1>2. PlaceInWave(s, w) =
        LET tx == IF fresh THEN s.tx + 1 ELSE s.tx
            group == IF fresh THEN 0 ELSE IF opens THEN s.local + 1 ELSE s.local
            work == IF fresh THEN 0 ELSE s.work + 1
        IN [source |-> w.at.tx, group |-> w.at.group, tx |-> tx, local |-> group, work |-> work,
            cores |-> (IF fresh THEN {} ELSE s.cores) \cup (IF opens THEN {w.at.core} ELSE {}),
            out |-> Append(s.out, Numbered(w, tx, group, work))]
  BY Zenon DEF PlaceInWave
<1> HIDE DEF fresh, opens
<1>3. /\ p.source = w.at.tx /\ p.group = w.at.group
      /\ p.tx = (IF fresh THEN s.tx + 1 ELSE s.tx)
      /\ p.local = (IF fresh THEN 0 ELSE IF opens THEN s.local + 1 ELSE s.local)
      /\ p.work = (IF fresh THEN 0 ELSE s.work + 1)
      /\ p.cores = (IF fresh THEN {} ELSE s.cores) \cup (IF opens THEN {w.at.core} ELSE {})
      /\ p.out = Append(s.out, Numbered(w, p.tx, p.local, p.work))
  BY <1>2
<1>4. \A S, x : {} \cup {x} = {x} /\ S \cup {} = S
  OBVIOUS
<1>5. CASE fresh
  BY <1>1, <1>3, <1>4, <1>5 DEF fresh, opens
<1>6. CASE ~fresh /\ opens
  BY <1>3, <1>6 DEF fresh, opens
<1>7. CASE ~fresh /\ ~opens
  BY <1>3, <1>4, <1>7 DEF fresh, opens
<1> QED
  BY <1>5, <1>6, <1>7

\* The works so far, each with its numbers.
LEMMA OutOf ==
  ASSUME NEW works, IsMapped(works), NEW g, PlacedFrom(g, works), NEW n \in 0..Len(works)
  PROVE  /\ Len(g[n].out) = n
         /\ \A j \in 1..n : g[n].out[j] = Numbered(works[j], g[j].tx, g[j].local, g[j].work)
<1> DEFINE N == Len(works)
           W(j) == Numbered(works[j], g[j].tx, g[j].local, g[j].work)
           S == {W(j) : j \in 1..N}
           Good(m) == /\ g[m].out \in Seq(S) /\ Len(g[m].out) = m
                      /\ \A j \in 1..m : g[m].out[j] = W(j)
           Bad == {m \in 0..N : ~Good(m)}
<1>1. N \in Nat
  BY DEF IsMapped, IsList
<1>2. ASSUME NEW m \in 1..N PROVE g[m].out = Append(g[m - 1].out, W(m))
  <2>1. g[m] = PlaceInWave(g[m - 1], works[m])
    BY DEF PlacedFrom
  <2> QED
    BY <2>1, PlaceIs
<1>3. \A m \in 1..N : W(m) \in S
  OBVIOUS
<1>4. g[0].out = <<>>
  BY DEF PlacedFrom, NoWave
<1> HIDE DEF N, W, S
<1>5. Good(0)
  BY <1>4
<1>6. Bad = {}
  <2> SUFFICES ASSUME Bad # {} PROVE FALSE
    OBVIOUS
  <2>1. PICK m \in Bad : \A k \in Bad : m <= k
    <3>1. Bad \subseteq Nat
      BY <1>1
    <3> HIDE DEF Bad
    <3> QED
      BY <3>1, LeastOf
  <2>2. m \in 1..N /\ m - 1 \in 0..N /\ m - 1 \notin Bad
    <3>1. m # 0
      BY <1>5, <2>1
    <3> HIDE DEF Good
    <3> QED
      BY <1>1, <2>1, <3>1
  <2>3. Good(m - 1)
    <3> HIDE DEF Good
    <3> QED
      BY <2>2
  <2> DEFINE past == g[m - 1].out  x == W(m)
  <2>4. past \in Seq(S) /\ Len(past) = m - 1 /\ (\A j \in 1..m - 1 : past[j] = W(j)) /\ x \in S
    BY <1>3, <2>2, <2>3
  <2>5. g[m].out = Append(past, x)
    BY <1>2, <2>2
  <2> HIDE DEF past, x
  <2>6. Append(past, x) \in Seq(S) /\ Len(Append(past, x)) = m
        /\ \A j \in 1..m - 1 : Append(past, x)[j] = past[j]
    BY <2>2, <2>4
  <2>7. Append(past, x)[m] = W(m)
    BY <2>2, <2>4 DEF x
  <2>8. ASSUME NEW j \in 1..m PROVE g[m].out[j] = W(j)
    <3>1. j = m \/ j \in 1..m - 1
      BY <2>2
    <3> QED
      BY <2>4, <2>5, <2>6, <2>7, <3>1
  <2>9. Good(m)
    BY <2>5, <2>6, <2>8
  <2> QED
    BY <2>1, <2>9
<1>7. n \in 0..N
  BY DEF N
<1>8. Good(n)
  <2> HIDE DEF Good
  <2> QED
    BY <1>6, <1>7
<1> QED
  BY <1>8 DEF W

\* The wave a state fills: its works are of one transaction of the schedule, its
\* groups are numbered as they come, each has a Core of its own.
Earlier(g, works, n, j) ==
  /\ g[j].tx \in Nat /\ g[j].local \in Nat /\ g[j].tx <= g[n].tx
  /\ g[j].tx = g[n].tx =>
       /\ works[j].at.tx = works[n].at.tx
       /\ g[j].local <= g[n].local
       /\ works[j].at.core \in g[n].cores
       /\ g[j].local = g[n].local => works[j].at.group = works[n].at.group
       /\ works[j].at.core = works[n].at.core <=> g[j].local = g[n].local
Filled(g, works, n) ==
  /\ g[n].source = works[n].at.tx /\ g[n].group = works[n].at.group
  /\ g[n].tx \in Nat /\ g[n].local \in Nat /\ g[n].work \in Nat
  /\ IsFiniteSet(g[n].cores) /\ Cardinality(g[n].cores) = g[n].local + 1
  /\ \A c \in g[n].cores : \E j \in 1..n : g[j].tx = g[n].tx /\ works[j].at.core = c
  /\ \A j \in 1..n : Earlier(g, works, n, j)

\* What happens at the first work and at the ones after it.
LEMMA FirstFilled ==
  ASSUME NEW works, IsMapped(works), NEW g, PlacedFrom(g, works), 1 \in 1..Len(works)
  PROVE  /\ Filled(g, works, 1)
         /\ g[1].tx = 0 /\ g[1].local = 0 /\ g[1].work = 0
<1>1. g[1] = PlaceInWave(g[0], works[1]) /\ g[0] = NoWave
  <2>1. g[1] = PlaceInWave(g[1 - 1], works[1]) /\ g[0] = NoWave
    BY DEF PlacedFrom
  <2> QED
    BY <2>1
<1>2. HasIdentity(works[1])
  BY DEF IsMapped, IsList
<1>3. OpensWave(g[0], works[1])
  BY <1>1, <1>2 DEF OpensWave, NoWave, HasIdentity
<1>4. /\ g[1].source = works[1].at.tx /\ g[1].group = works[1].at.group
      /\ g[1].tx = g[0].tx + 1 /\ g[1].local = 0 /\ g[1].work = 0
      /\ g[1].cores = {works[1].at.core}
  BY <1>1, <1>3, PlaceIs
<1>5. g[1].tx = 0
  BY <1>1, <1>4 DEF NoWave
<1>6. IsFiniteSet(g[1].cores) /\ Cardinality(g[1].cores) = 1
  BY <1>4, FS_Singleton
<1>7. 1..1 = {1}
  OBVIOUS
<1>8. Earlier(g, works, 1, 1)
  BY <1>4, <1>5 DEF Earlier
<1> QED
  BY <1>4, <1>5, <1>6, <1>7, <1>8 DEF Filled

LEMMA NextFilled ==
  ASSUME NEW works, IsMapped(works), NEW g, PlacedFrom(g, works), NEW n \in 1..Len(works) - 1,
         Filled(g, works, n)
  PROVE  Filled(g, works, n + 1)
<1> DEFINE s == g[n]  w == works[n + 1]  p == g[n + 1]
<1>1. n \in Nat /\ n + 1 \in 1..Len(works) /\ n \in 1..Len(works)
      /\ \A j \in 1..n + 1 : j \in 1..n \/ j = n + 1
  BY DEF IsMapped, IsList
<1>2. p = PlaceInWave(s, w)
  <2>1. g[n + 1] = PlaceInWave(g[(n + 1) - 1], works[n + 1])
    BY <1>1 DEF PlacedFrom
  <2> QED
    BY <1>1, <2>1
<1>3. /\ s.source = works[n].at.tx /\ s.group = works[n].at.group
      /\ s.tx \in Nat /\ s.local \in Nat /\ s.work \in Nat
      /\ IsFiniteSet(s.cores) /\ Cardinality(s.cores) = s.local + 1
      /\ \A c \in s.cores : \E j \in 1..n : g[j].tx = s.tx /\ works[j].at.core = c
      /\ \A j \in 1..n : Earlier(g, works, n, j)
  BY DEF Filled
<1>4. \A j \in 1..n :
        /\ g[j].tx \in Nat /\ g[j].local \in Nat /\ g[j].tx <= s.tx
        /\ g[j].tx = s.tx =>
             /\ works[j].at.tx = s.source
             /\ g[j].local <= s.local
             /\ works[j].at.core \in s.cores
             /\ g[j].local = s.local => works[j].at.group = s.group
             /\ works[j].at.core = works[n].at.core <=> g[j].local = s.local
  BY <1>3 DEF Earlier
<1>5. p.source = w.at.tx /\ p.group = w.at.group
  BY <1>2, PlaceIs
\* A new wave has one work.
<1>6. CASE OpensWave(s, w)
  <2>1. p.tx = s.tx + 1 /\ p.local = 0 /\ p.work = 0 /\ p.cores = {w.at.core}
    BY <1>2, <1>6, PlaceIs
  <2>2. IsFiniteSet(p.cores) /\ Cardinality(p.cores) = 1
    <3>1. IsFiniteSet({w.at.core}) /\ Cardinality({w.at.core}) = 1
      BY FS_Singleton
    <3> QED
      BY <2>1, <3>1
  <2>3. ASSUME NEW j \in 1..n + 1 PROVE Earlier(g, works, n + 1, j)
    <3>1. CASE j \in 1..n
      <4>1. g[j].tx \in Nat /\ g[j].local \in Nat /\ g[j].tx <= s.tx
        BY <1>4, <3>1
      <4>2. g[j].tx <= p.tx /\ g[j].tx # p.tx
        BY <1>3, <2>1, <4>1
      <4> QED
        BY <4>1, <4>2 DEF Earlier
    <3>2. CASE j = n + 1
      <4>1. p.tx \in Nat /\ p.local \in Nat /\ p.tx <= p.tx /\ w.at.core \in p.cores
        BY <1>3, <2>1
      <4> QED
        BY <3>2, <4>1 DEF Earlier
    <3> QED
      BY <1>1, <3>1, <3>2
  <2>4. \A c \in p.cores : c = works[n + 1].at.core
    BY <2>1
  <2>5. n + 1 \in 1..n + 1
    BY <1>1
  <2>6. p.tx \in Nat /\ p.local \in Nat /\ p.work \in Nat /\ Cardinality(p.cores) = p.local + 1
    BY <1>3, <2>1, <2>2
  <2> QED
    BY <1>5, <2>2, <2>3, <2>4, <2>5, <2>6 DEF Filled
\* A new group has a Core the wave has not.
<1>7. CASE ~OpensWave(s, w) /\ OpensGroup(s, w)
  <2>1. /\ p.tx = s.tx /\ p.local = s.local + 1 /\ p.work = s.work + 1
        /\ p.cores = s.cores \cup {w.at.core}
    BY <1>2, <1>7, PlaceIs
  <2>2. w.at.tx = s.source /\ w.at.core \notin s.cores
    BY <1>7 DEF OpensWave
  <2>3. IsFiniteSet(p.cores) /\ Cardinality(p.cores) = Cardinality(s.cores) + 1
    BY <1>3, <2>1, <2>2, FS_AddElement
  <2>4. ASSUME NEW j \in 1..n + 1 PROVE Earlier(g, works, n + 1, j)
    <3>1. CASE j \in 1..n
      <4>1. /\ g[j].tx \in Nat /\ g[j].local \in Nat /\ g[j].tx <= p.tx
            /\ g[j].tx = p.tx => /\ works[j].at.tx = s.source
                                 /\ g[j].local <= s.local
                                 /\ works[j].at.core \in s.cores
        BY <1>4, <2>1, <3>1
      <4>2. g[j].tx = p.tx => g[j].local <= p.local /\ g[j].local # p.local
                              /\ works[j].at.core # w.at.core /\ works[j].at.core \in p.cores
        BY <1>3, <2>1, <2>2, <4>1
      <4>3. g[j].tx = p.tx =>
              /\ works[j].at.tx = w.at.tx /\ g[j].local <= p.local
              /\ works[j].at.core \in p.cores
              /\ g[j].local = p.local => works[j].at.group = w.at.group
              /\ works[j].at.core = w.at.core <=> g[j].local = p.local
        BY <2>2, <4>1, <4>2, Zenon
      <4> QED
        BY <4>1, <4>3, Zenon DEF Earlier
    <3>2. CASE j = n + 1
      <4>1. p.tx \in Nat /\ p.local \in Nat /\ p.tx <= p.tx /\ w.at.core \in p.cores
            /\ p.local <= p.local
        BY <1>3, <2>1
      <4> QED
        BY <3>2, <4>1 DEF Earlier
    <3> QED
      BY <1>1, <3>1, <3>2
  <2>5. ASSUME NEW c \in p.cores
        PROVE  \E j \in 1..n + 1 : g[j].tx = p.tx /\ works[j].at.core = c
    <3>1. CASE c \in s.cores
      <4>1. PICK j \in 1..n : g[j].tx = s.tx /\ works[j].at.core = c
        BY <1>3, <3>1
      <4>2. j \in 1..n + 1
        BY <1>1
      <4> QED
        BY <2>1, <4>1, <4>2
    <3>2. CASE c = w.at.core
      <4>1. n + 1 \in 1..n + 1
        BY <1>1
      <4> QED
        BY <3>2, <4>1
    <3> QED
      BY <2>1, <3>1, <3>2
  <2>6. /\ p.tx \in Nat /\ p.local \in Nat /\ p.work \in Nat
        /\ Cardinality(p.cores) = p.local + 1
    BY <1>3, <2>1, <2>3
  <2> QED
    BY <1>5, <2>3, <2>4, <2>5, <2>6 DEF Filled
\* One work more of the same group.
<1>8. CASE ~OpensWave(s, w) /\ ~OpensGroup(s, w)
  <2>1. p.tx = s.tx /\ p.local = s.local /\ p.work = s.work + 1 /\ p.cores = s.cores
    BY <1>2, <1>8, PlaceIs
  <2>2. w.at.tx = s.source /\ w.at.group = s.group
    BY <1>8 DEF OpensGroup
  <2>3. w.at.core = works[n].at.core
    <3>1. DOMAIN works = 1..Len(works)
      BY DEF IsMapped, IsList
    <3>2. works[n + 1].at.tx = works[n].at.tx /\ works[n + 1].at.group = works[n].at.group
      BY <1>3, <2>2
    <3> QED
      BY <1>1, <3>1, <3>2 DEF IsMapped
  <2>4. ASSUME NEW j \in 1..n + 1 PROVE Earlier(g, works, n + 1, j)
    <3>1. CASE j \in 1..n
      <4>1. /\ g[j].tx \in Nat /\ g[j].local \in Nat /\ g[j].tx <= s.tx
            /\ g[j].tx = s.tx =>
                 /\ works[j].at.tx = s.source /\ g[j].local <= s.local
                 /\ works[j].at.core \in s.cores
                 /\ g[j].local = s.local => works[j].at.group = s.group
                 /\ works[j].at.core = works[n].at.core <=> g[j].local = s.local
        BY <1>4, <3>1, Zenon
      <4>2. /\ g[j].tx \in Nat /\ g[j].local \in Nat /\ g[j].tx <= p.tx
            /\ g[j].tx = p.tx =>
                 /\ works[j].at.tx = w.at.tx /\ g[j].local <= p.local
                 /\ works[j].at.core \in p.cores
                 /\ g[j].local = p.local => works[j].at.group = w.at.group
                 /\ works[j].at.core = w.at.core <=> g[j].local = p.local
        <5> HIDE DEF s, w, p
        <5> QED
          BY <2>1, <2>2, <2>3, <4>1
      <4> QED
        BY <4>2, Zenon DEF Earlier
    <3>2. CASE j = n + 1
      <4>1. n \in 1..n
        BY <1>1
      <4>2. works[n].at.core \in s.cores
        BY <1>4, <4>1
      <4>3. p.tx \in Nat /\ p.local \in Nat /\ p.tx <= p.tx /\ w.at.core \in p.cores
            /\ p.local <= p.local
        BY <1>3, <2>1, <2>3, <4>2
      <4> QED
        BY <3>2, <4>3 DEF Earlier
    <3> QED
      BY <1>1, <3>1, <3>2
  <2>5. ASSUME NEW c \in p.cores
        PROVE  \E j \in 1..n + 1 : g[j].tx = p.tx /\ works[j].at.core = c
    <3>1. PICK j \in 1..n : g[j].tx = s.tx /\ works[j].at.core = c
      BY <1>3, <2>1
    <3>2. j \in 1..n + 1
      BY <1>1
    <3> QED
      BY <2>1, <3>1, <3>2
  <2>6. /\ p.tx \in Nat /\ p.local \in Nat /\ p.work \in Nat /\ IsFiniteSet(p.cores)
        /\ Cardinality(p.cores) = p.local + 1
    BY <1>3, <2>1
  <2> QED
    BY <1>5, <2>4, <2>5, <2>6 DEF Filled
<1> QED
  BY <1>6, <1>7, <1>8

LEMMA AllFilled ==
  ASSUME NEW works, IsMapped(works), NEW g, PlacedFrom(g, works), NEW n \in 1..Len(works)
  PROVE  Filled(g, works, n)
<1> DEFINE N == Len(works)
           Bad == {m \in 1..N : ~Filled(g, works, m)}
<1>1. N \in Nat /\ n \in 1..N
  BY DEF IsMapped, IsList
<1> HIDE DEF N
<1>2. Bad = {}
  <2> SUFFICES ASSUME Bad # {} PROVE FALSE
    OBVIOUS
  <2>1. PICK m \in Bad : \A k \in Bad : m <= k
    <3>1. Bad \subseteq Nat
      BY <1>1
    <3> HIDE DEF Bad
    <3> QED
      BY <3>1, LeastOf
  <2>2. m # 1
    <3>1. 1 \in 1..N
      BY <1>1
    <3> QED
      BY <2>1, <3>1, FirstFilled DEF N
  <2>3. m - 1 \in 1..N - 1 /\ m - 1 \in 1..N /\ m - 1 \notin Bad /\ (m - 1) + 1 = m
    BY <1>1, <2>1, <2>2
  <2>4. Filled(g, works, m - 1)
    BY <2>3
  <2>5. Filled(g, works, (m - 1) + 1)
    BY <2>3, <2>4, NextFilled DEF N
  <2> QED
    BY <2>1, <2>3, <2>5
<1> QED
  BY <1>1, <1>2

\* A work with new numbers, and nothing else of it changed.
LEMMA NumberedIs ==
  ASSUME NEW w, HasIdentity(w), NEW tx, NEW group, NEW work
  PROVE  /\ Numbered(w, tx, group, work).at.tx = tx
         /\ Numbered(w, tx, group, work).at.group = group
         /\ Numbered(w, tx, group, work).at.work = work
         /\ Numbered(w, tx, group, work).at.core = w.at.core
BY DEF Numbered, HasIdentity

\* The waves of a schedule.  Order and everything but the numbers are kept; the
\* transactions, their groups and their works are numbered densely, from zero;
\* a transaction is of one transaction of the schedule and has one group per
\* Core, no more than there are Cores.
WaveStep(a, b, v, w) ==
  \/ b.at.tx = a.at.tx + 1 /\ b.at.group = 0 /\ b.at.work = 0
  \/ /\ b.at.tx = a.at.tx /\ b.at.work = a.at.work + 1
     /\ b.at.group = a.at.group + (IF v.at.group = w.at.group THEN 0 ELSE 1)
AreWaves(works, out) ==
  /\ Len(out) = Len(works)
  /\ \A i \in 1..Len(works) :
       /\ out[i] = Numbered(works[i], out[i].at.tx, out[i].at.group, out[i].at.work)
       /\ out[i].at.core = works[i].at.core
       /\ out[i].at.tx \in Nat /\ out[i].at.group \in 0..Cores - 1 /\ out[i].at.work \in Nat
  /\ 1 <= Len(works) => out[1].at.tx = 0 /\ out[1].at.group = 0 /\ out[1].at.work = 0
  /\ \A i \in 1..Len(works) - 1 : WaveStep(out[i], out[i + 1], works[i], works[i + 1])
  /\ \A i, j \in 1..Len(works) : out[i].at.tx = out[j].at.tx =>
       /\ works[i].at.tx = works[j].at.tx
       /\ out[i].at.group = out[j].at.group => works[i].at.group = works[j].at.group
       /\ out[i].at.core = out[j].at.core <=> out[i].at.group = out[j].at.group
\* A wave ends only where the schedule's transaction does or where the next group
\* needs a Core the wave has already.
NoneTooSmall(works, out) ==
  \A i \in 1..Len(works) - 1 :
    out[i + 1].at.tx # out[i].at.tx =>
      \/ works[i + 1].at.tx # works[i].at.tx
      \/ \E j \in 1..i : out[j].at.tx = out[i].at.tx /\ out[j].at.core = out[i + 1].at.core

\* The plan of any mapped schedule, whatever its size and the number of Cores,
\* never configures a Core for two groups in one transaction, mixes no two
\* transactions of the schedule, numbers what it makes as its readers expect, and
\* has no more waves than the Cores ask for.
THEOREM WavesPlaced ==
  ASSUME NEW works, IsMapped(works)
  PROVE  AreWaves(works, Waves(works)) /\ NoneTooSmall(works, Waves(works))
<1> DEFINE N == Len(works)
           out == Waves(works)
<1>1. N \in Nat /\ IsList(works) /\ DOMAIN works = 1..N
      /\ \A i \in 1..N : HasIdentity(works[i])
  BY DEF IsMapped, IsList
<1>2. PICK g : PlacedFrom(g, works) /\ out = g[N].out
  BY <1>1, WaveStates
<1>3. /\ Len(out) = N
      /\ \A i \in 1..N : out[i] = Numbered(works[i], g[i].tx, g[i].local, g[i].work)
  <2>1. N \in 0..Len(works)
    BY <1>1
  <2> QED
    BY <1>2, <2>1, OutOf
<1> HIDE DEF out, N
<1>4. ASSUME NEW i \in 1..N
      PROVE  /\ out[i].at.tx = g[i].tx /\ out[i].at.group = g[i].local
             /\ out[i].at.work = g[i].work /\ out[i].at.core = works[i].at.core
  BY <1>1, <1>3, NumberedIs
<1>5. ASSUME NEW i \in 1..N PROVE Filled(g, works, i)
  BY <1>2, AllFilled DEF N
<1>6. ASSUME NEW i \in 1..N, NEW j \in 1..i PROVE Earlier(g, works, i, j)
  BY <1>5 DEF Filled
\* Every Core of a wave is a Core.
<1>7. ASSUME NEW i \in 1..N
      PROVE  g[i].cores \subseteq 0..Cores - 1
  <2>1. ASSUME NEW c \in g[i].cores PROVE c \in 0..Cores - 1
    <3>1. PICK j \in 1..i : works[j].at.core = c
      BY <1>5 DEF Filled
    <3>2. j \in 1..N
      BY <1>1
    <3> QED
      BY <1>1, <3>1, <3>2 DEF HasIdentity
  <2> QED
    BY <2>1
<1>8. IsFiniteSet(0..Cores - 1) /\ Cardinality(0..Cores - 1) = Cores /\ Cores \in Nat
  <2>1. Cores \in Nat \ {0} /\ 0 \in Int /\ Cores - 1 \in Int /\ ~ (0 > Cores - 1)
        /\ (Cores - 1) - 0 + 1 = Cores
    BY FormAssumption
  <2> QED
    BY <2>1, FS_Interval
<1>9. ASSUME NEW i \in 1..N
      PROVE  g[i].tx \in Nat /\ g[i].local \in 0..Cores - 1 /\ g[i].work \in Nat
  <2>1. /\ g[i].tx \in Nat /\ g[i].local \in Nat /\ g[i].work \in Nat
        /\ Cardinality(g[i].cores) = g[i].local + 1
    BY <1>5 DEF Filled
  <2>2. Cardinality(g[i].cores) <= Cores
    BY <1>7, <1>8, FS_Subset
  <2> QED
    BY <1>8, <2>1, <2>2
<1>10. ASSUME 1 <= N PROVE g[1].tx = 0 /\ g[1].local = 0 /\ g[1].work = 0
  <2>1. 1 \in 1..N
    BY <1>1, <1>10
  <2> QED
    BY <1>2, <2>1, FirstFilled DEF N
<1>11. ASSUME NEW i \in 1..N - 1
       PROVE  /\ i \in 1..N /\ i + 1 \in 1..N
              /\ g[i + 1] = PlaceInWave(g[i], works[i + 1])
              /\ g[i].source = works[i].at.tx /\ g[i].group = works[i].at.group
  <2>1. i \in 1..N /\ i + 1 \in 1..N /\ (i + 1) - 1 = i
    BY <1>1
  <2>2. g[i + 1] = PlaceInWave(g[(i + 1) - 1], works[i + 1])
    BY <1>2, <2>1 DEF PlacedFrom, N
  <2> QED
    BY <1>5, <2>1, <2>2 DEF Filled
<1>12. ASSUME NEW i \in 1..N - 1
       PROVE  WaveStep(out[i], out[i + 1], works[i], works[i + 1])
  <2>1. CASE OpensWave(g[i], works[i + 1])
    <3>1. g[i + 1].tx = g[i].tx + 1 /\ g[i + 1].local = 0 /\ g[i + 1].work = 0
      BY <1>11, <2>1, PlaceIs
    <3> QED
      BY <1>4, <1>11, <3>1 DEF WaveStep
  <2>2. CASE ~OpensWave(g[i], works[i + 1])
    <3>1. g[i + 1].tx = g[i].tx /\ g[i + 1].work = g[i].work + 1
      BY <1>11, <2>2, PlaceIs
    <3>2. works[i + 1].at.tx = works[i].at.tx
      BY <1>11, <2>2 DEF OpensWave
    <3>3. OpensGroup(g[i], works[i + 1]) <=> works[i].at.group # works[i + 1].at.group
      BY <1>11, <3>2 DEF OpensGroup
    <3>4. g[i].local \in Nat
      BY <1>8, <1>9, <1>11
    <3>5. g[i + 1].local
            = g[i].local + (IF works[i].at.group = works[i + 1].at.group THEN 0 ELSE 1)
      <4>1. CASE OpensGroup(g[i], works[i + 1])
        BY <1>11, <2>2, <3>3, <4>1, PlaceIs
      <4>2. CASE ~OpensGroup(g[i], works[i + 1])
        <5>1. g[i + 1].local = g[i].local
          BY <1>11, <2>2, <4>2, PlaceIs
        <5> QED
          BY <3>3, <3>4, <4>2, <5>1
      <4> QED
        BY <4>1, <4>2
    <3> QED
      BY <1>4, <1>11, <3>1, <3>5 DEF WaveStep
  <2> QED
    BY <2>1, <2>2
\* Two works of one transaction, whichever comes first.
<1>13. ASSUME NEW i \in 1..N, NEW j \in 1..N, out[i].at.tx = out[j].at.tx
       PROVE  /\ works[i].at.tx = works[j].at.tx
              /\ out[i].at.group = out[j].at.group => works[i].at.group = works[j].at.group
              /\ out[i].at.core = out[j].at.core <=> out[i].at.group = out[j].at.group
  <2>1. g[i].tx = g[j].tx
    BY <1>4, <1>13
  <2>2. /\ works[i].at.tx = works[j].at.tx
        /\ g[i].local = g[j].local => works[i].at.group = works[j].at.group
        /\ works[i].at.core = works[j].at.core <=> g[i].local = g[j].local
    <3>1. CASE j <= i
      <4>1. j \in 1..i
        BY <3>1
      <4>2. Earlier(g, works, i, j)
        BY <1>6, <4>1
      <4> QED
        BY <2>1, <4>2 DEF Earlier
    <3>2. CASE i <= j
      <4>1. i \in 1..j
        BY <3>2
      <4>2. Earlier(g, works, j, i)
        BY <1>6, <4>1
      <4> QED
        BY <2>1, <4>2 DEF Earlier
    <3>3. j <= i \/ i <= j
      BY <1>1
    <3> QED
      BY <3>1, <3>2, <3>3
  <2> QED
    BY <1>4, <2>2
<1>14. ASSUME NEW i \in 1..N - 1, out[i + 1].at.tx # out[i].at.tx
       PROVE  \/ works[i + 1].at.tx # works[i].at.tx
              \/ \E j \in 1..i :
                   out[j].at.tx = out[i].at.tx /\ out[j].at.core = out[i + 1].at.core
  <2> DEFINE core == works[i + 1].at.core
  <2> SUFFICES ASSUME works[i + 1].at.tx = works[i].at.tx
               PROVE  \E j \in 1..i :
                        out[j].at.tx = out[i].at.tx /\ out[j].at.core = out[i + 1].at.core
    OBVIOUS
  <2>1. g[i + 1].tx # g[i].tx
    BY <1>4, <1>11, <1>14
  <2>2. OpensWave(g[i], works[i + 1])
    BY <1>11, <2>1, PlaceIs
  <2>3. core \in g[i].cores \/ Cardinality(g[i].cores) = Cores
    BY <1>11, <2>2 DEF OpensWave
  <2>4. core \in 0..Cores - 1
    BY <1>1, <1>11 DEF HasIdentity
  <2>5. core \in g[i].cores
    <3>1. CASE Cardinality(g[i].cores) = Cores
      <4>1. g[i].cores \subseteq 0..Cores - 1
        BY <1>7, <1>11
      <4>2. g[i].cores = 0..Cores - 1
        BY <1>8, <3>1, <4>1, FS_Subset
      <4> QED
        BY <2>4, <4>2
    <3> QED
      BY <2>3, <3>1
  <2>6. PICK j \in 1..i : g[j].tx = g[i].tx /\ works[j].at.core = core
    <3>1. Filled(g, works, i)
      BY <1>5, <1>11
    <3> QED
      BY <2>5, <3>1 DEF Filled
  <2>7. j \in 1..N
    BY <1>1, <1>11
  <2> QED
    BY <1>4, <1>11, <2>6, <2>7
<1>15. AreWaves(works, out)
  <2>1. \A i \in 1..N :
          /\ out[i] = Numbered(works[i], out[i].at.tx, out[i].at.group, out[i].at.work)
          /\ out[i].at.core = works[i].at.core
          /\ out[i].at.tx \in Nat /\ out[i].at.group \in 0..Cores - 1 /\ out[i].at.work \in Nat
    BY <1>3, <1>4, <1>9
  <2>2. 1 <= N => out[1].at.tx = 0 /\ out[1].at.group = 0 /\ out[1].at.work = 0
    <3> SUFFICES ASSUME 1 <= N
                 PROVE  out[1].at.tx = 0 /\ out[1].at.group = 0 /\ out[1].at.work = 0
      OBVIOUS
    <3>1. 1 \in 1..N
      BY <1>1
    <3> QED
      BY <1>4, <1>10, <3>1
  <2> QED
    BY <1>3, <1>12, <1>13, <2>1, <2>2, Zenon DEF AreWaves, N
<1>16. NoneTooSmall(works, out)
  BY <1>14, Zenon DEF NoneTooSmall, N
<1> QED
  BY <1>15, <1>16 DEF out

-----------------------------------------------------------------------------
(* The works of an executable and the plan of the software runner.         *)

\* The elements of a list.
LEMMA Listed ==
  ASSUME NEW S, NEW s \in Seq(S)
  PROVE  /\ Len(s) \in Nat /\ DOMAIN s = 1..Len(s) /\ s = [i \in 1..Len(s) |-> s[i]]
         /\ ToSet(s) = {s[i] : i \in 1..Len(s)} /\ ToSet(s) \subseteq S
BY DEF ToSet

\* Groups and their works are lists.
HasGroups(groups) ==
  /\ groups \in Seq(ToSet(groups))
  /\ \A g \in ToSet(groups) : g.works \in Seq(ToSet(g.works))
WorksOf(groups) == UNION {{WorkKey(g, w) : w \in ToSet(g.works)} : g \in ToSet(groups)}

\* The works of an executable, or of a wave, are those of its groups.
LEMMA WorkKeysOf ==
  ASSUME NEW exe, HasGroups(exe.groups)
  PROVE  /\ WorkKeys(exe) \in Seq(WorksOf(exe.groups))
         /\ ToSet(WorkKeys(exe)) = WorksOf(exe.groups)
<1> DEFINE groups == exe.groups
           W == WorksOf(groups)
           WorksIn(g) == <<>> \o [i \in 1..Len(g.works) |-> WorkKey(g, g.works[i])]
           parts == <<>> \o [n \in 1..Len(groups) |-> WorksIn(groups[n])]
<1>1. WorkKeys(exe) = Flat(parts)
  BY DEF WorkKeys, Mapped, List
<1>2. /\ Len(groups) \in Nat /\ ToSet(groups) = {groups[n] : n \in 1..Len(groups)}
  BY Listed DEF HasGroups
<1> HIDE DEF W, groups
<1>3. ASSUME NEW n \in 1..Len(groups)
      PROVE  LET g == groups[n]
             IN /\ WorksIn(g) \in Seq(W) /\ Len(WorksIn(g)) = Len(g.works)
                /\ Len(g.works) \in Nat /\ ToSet(g.works) = {g.works[i] : i \in 1..Len(g.works)}
                /\ \A i \in 1..Len(g.works) : WorksIn(g)[i] = WorkKey(g, g.works[i])
  <2> DEFINE g == groups[n]
             f == [i \in 1..Len(g.works) |-> WorkKey(g, g.works[i])]
  <2>1. g \in ToSet(groups)
    BY <1>2
  <2>2. g.works \in Seq(ToSet(g.works))
    BY <2>1 DEF HasGroups, groups
  <2> HIDE DEF g
  <2>3. Len(g.works) \in Nat /\ ToSet(g.works) = {g.works[i] : i \in 1..Len(g.works)}
    BY <2>2, Listed
  <2>4. f = [i \in 1..Len(g.works) |-> f[i]]
    OBVIOUS
  <2>5. \A i \in 1..Len(g.works) : f[i] \in W /\ f[i] = WorkKey(g, g.works[i])
    BY <2>1, <2>3 DEF W, WorksOf
  <2>6. WorksIn(g) = <<>> \o f
    OBVIOUS
  <2> HIDE DEF f, Part
  <2>7. WorksIn(g) = f
    BY <2>3, <2>4, <2>6, ListIs
  <2>8. f \in Seq(W) /\ Len(f) = Len(g.works)
    BY <2>3, <2>4, <2>5
  <2> QED
    BY <2>3, <2>5, <2>7, <2>8 DEF g
<1> HIDE DEF WorksIn
<1>4. parts \in Seq(Seq(W)) /\ Len(parts) = Len(groups)
      /\ \A n \in 1..Len(groups) : parts[n] = WorksIn(groups[n])
  <2> DEFINE f == [n \in 1..Len(groups) |-> WorksIn(groups[n])]
  <2>1. f = [n \in 1..Len(groups) |-> f[n]] /\ \A n \in 1..Len(groups) : f[n] = WorksIn(groups[n])
    OBVIOUS
  <2>2. parts = <<>> \o f
    OBVIOUS
  <2> HIDE DEF f, parts
  <2>3. parts = f
    BY <1>2, <2>1, <2>2, ListIs
  <2>4. \A n \in 1..Len(groups) : f[n] \in Seq(W)
    BY <1>3, <2>1
  <2>5. f \in Seq(Seq(W)) /\ Len(f) = Len(groups)
    BY <1>2, <2>1, <2>4
  <2> QED
    BY <2>1, <2>3, <2>5
<1> HIDE DEF parts
<1>5. PICK off : Placed(parts, Len(parts), Flat(parts), off) /\ Flat(parts) \in Seq(W)
  BY <1>4, FlatOf
<1>6. ToSet(Flat(parts)) = {Flat(parts)[p] : p \in 1..Len(Flat(parts))}
  BY <1>5, Listed
<1>7. ASSUME NEW k \in W
      PROVE  k \in ToSet(Flat(parts))
  <2>1. PICK n \in 1..Len(groups) : \E w \in ToSet(groups[n].works) : k = WorkKey(groups[n], w)
    BY <1>2, <1>7 DEF W, WorksOf
  <2>2. PICK i \in 1..Len(groups[n].works) : k = WorkKey(groups[n], groups[n].works[i])
    <3> DEFINE works == groups[n].works
    <3>1. ToSet(works) = {works[i] : i \in 1..Len(works)}
      BY <1>3
    <3>2. PICK w \in ToSet(works) : k = WorkKey(groups[n], w)
      BY <2>1
    <3> HIDE DEF works
    <3>3. \E i \in 1..Len(works) : k = WorkKey(groups[n], works[i])
      BY <3>1, <3>2
    <3> QED
      BY <3>3 DEF works
  <2>3. n \in 1..Len(parts) /\ i \in 1..Len(parts[n]) /\ parts[n][i] = k
    BY <1>3, <1>4, <2>2
  <2>4. off[n] + i \in 1..Len(Flat(parts)) /\ Flat(parts)[off[n] + i] = k
    BY <1>5, <2>3 DEF Placed
  <2> QED
    BY <1>6, <2>4
<1>8. ToSet(Flat(parts)) \subseteq W
  BY <1>5, Listed
<1> QED
  BY <1>1, <1>5, <1>7, <1>8 DEF W, groups

\* A list with one element more.
LEMMA LastAppended ==
  ASSUME NEW S, NEW s \in Seq(S), NEW x \in S
  PROVE  Append(s, x) \in Seq(S) /\ ToSet(Append(s, x)) = ToSet(s) \cup {x}
<1>1. /\ Append(s, x) \in Seq(S) /\ Len(Append(s, x)) = Len(s) + 1 /\ Len(s) \in Nat
      /\ Append(s, x)[Len(s) + 1] = x
      /\ \A i \in 1..Len(s) : Append(s, x)[i] = s[i]
  OBVIOUS
<1> DEFINE f == Append(s, x)  N == Len(s)
<1>2. ToSet(f) = {f[i] : i \in 1..Len(f)} /\ ToSet(s) = {s[i] : i \in 1..N}
  BY <1>1, Listed
<1> HIDE DEF f, N
<1>3. /\ Len(f) = N + 1 /\ N \in Nat /\ f[N + 1] = x /\ \A i \in 1..N : f[i] = s[i]
  BY <1>1 DEF f, N
<1>4. ASSUME NEW y \in ToSet(f) PROVE y \in ToSet(s) \cup {x}
  <2>1. PICK i \in 1..N + 1 : y = f[i]
    BY <1>2, <1>3
  <2>2. i \in 1..N \/ i = N + 1
    BY <1>3
  <2> QED
    BY <1>2, <1>3, <2>1, <2>2
<1>5. ASSUME NEW y \in ToSet(s) PROVE y \in ToSet(f)
  <2>1. PICK i \in 1..N : y = s[i]
    BY <1>2
  <2>2. i \in 1..N + 1
    BY <1>3
  <2> QED
    BY <1>2, <1>3, <2>1, <2>2
<1>6. x \in ToSet(f)
  <2>1. N + 1 \in 1..N + 1
    BY <1>3
  <2> QED
    BY <1>2, <1>3, <2>1
<1> QED
  BY <1>1, <1>4, <1>5, <1>6 DEF f

\* A list with another last element.
LEMMA LastReplaced ==
  ASSUME NEW S, NEW s \in Seq(S), s # <<>>, NEW x \in S
  PROVE  LET f == [s EXCEPT ![Len(s)] = x]
         IN /\ Len(s) \in 1..Len(s) /\ s[Len(s)] \in S
            /\ f \in Seq(S) /\ x \in ToSet(f) /\ ToSet(f) \subseteq ToSet(s) \cup {x}
            /\ ToSet(s) \subseteq ToSet(f) \cup {s[Len(s)]}
<1> DEFINE f == [s EXCEPT ![Len(s)] = x]  N == Len(s)
<1>1. /\ N \in Nat \ {0} /\ f \in Seq(S) /\ Len(f) = N /\ f[N] = x /\ s[N] \in S
      /\ \A i \in 1..N : i # N => f[i] = s[i]
  OBVIOUS
<1> HIDE DEF f
<1>2. ToSet(f) = {f[i] : i \in 1..N} /\ ToSet(s) = {s[i] : i \in 1..N}
  <2>1. ToSet(f) = {f[i] : i \in 1..Len(f)} /\ ToSet(s) = {s[i] : i \in 1..Len(s)}
    BY <1>1, Listed
  <2> QED
    BY <1>1, <2>1
<1> HIDE DEF N
<1>3. N \in 1..N
  BY <1>1
<1>4. ASSUME NEW y \in ToSet(f) PROVE y \in ToSet(s) \cup {x}
  BY <1>1, <1>2
<1>5. ASSUME NEW y \in ToSet(s) PROVE y \in ToSet(f) \cup {s[N]}
  BY <1>1, <1>2
<1> QED
  BY <1>1, <1>2, <1>3, <1>4, <1>5 DEF f, N

\* Waves of groups of G.
WavesOf(G) == [groups : Seq(G), batchable : BOOLEAN]
\* Wave w has the groups of v.
IsIn(v, w) == ToSet(v.groups) \subseteq ToSet(w.groups)
\* What one group more leaves of the waves.
LEMMA PlaceGroupStep ==
  ASSUME NEW exe, NEW G, NEW g \in G, NEW waves \in Seq(WavesOf(G))
  PROVE  LET then == PlaceGroup(exe, waves, g)
         IN /\ then \in Seq(WavesOf(G))
            /\ \E w \in ToSet(then) : g \in ToSet(w.groups)
            /\ \A v \in ToSet(waves) : \E w \in ToSet(then) : IsIn(v, w)
<1> DEFINE new == [groups |-> <<g>>, batchable |-> Batchable(exe, g)]
           longer == [waves[Len(waves)] EXCEPT !.groups = Append(@, g)]
           then == PlaceGroup(exe, waves, g)
<1>1. \/ then = Append(waves, new)
      \/ waves # <<>> /\ then = [waves EXCEPT ![Len(waves)] = longer]
  BY DEF PlaceGroup
<1>2. new \in WavesOf(G) /\ new.groups = <<g>>
  BY DEF WavesOf, Batchable
<1>3. g \in ToSet(<<g>>)
  BY DEF ToSet
<1>4. ASSUME waves # <<>>, waves[Len(waves)] \in WavesOf(G)
      PROVE  /\ longer \in WavesOf(G) /\ g \in ToSet(longer.groups)
             /\ ToSet(waves[Len(waves)].groups) \subseteq ToSet(longer.groups)
  <2> DEFINE last == waves[Len(waves)]
  <2>1. last.groups \in Seq(G) /\ last = [groups |-> last.groups, batchable |-> last.batchable]
        /\ last.batchable \in BOOLEAN
    BY <1>4 DEF WavesOf
  <2>2. Append(last.groups, g) \in Seq(G)
        /\ ToSet(Append(last.groups, g)) = ToSet(last.groups) \cup {g}
    BY <2>1, LastAppended
  <2>3. longer = [groups |-> Append(last.groups, g), batchable |-> last.batchable]
    <3>1. longer = [last EXCEPT !.groups = Append(last.groups, g)]
      OBVIOUS
    <3> HIDE DEF last, longer
    <3> QED
      BY <2>1, <3>1
  <2> HIDE DEF last, longer
  <2>4. longer \in WavesOf(G) /\ longer.groups = Append(last.groups, g)
    BY <2>1, <2>2, <2>3 DEF WavesOf
  <2> QED
    BY <2>2, <2>4 DEF last
<1> HIDE DEF new, longer, then
<1>5. CASE then = Append(waves, new)
  <2>1. then \in Seq(WavesOf(G)) /\ ToSet(then) = ToSet(waves) \cup {new}
    BY <1>2, <1>5, LastAppended
  <2>2. \A v \in ToSet(waves) : v \in ToSet(then) /\ IsIn(v, v)
    BY <2>1 DEF IsIn
  <2> QED
    BY <1>2, <1>3, <2>1, <2>2 DEF then
<1>6. CASE waves # <<>> /\ then = [waves EXCEPT ![Len(waves)] = longer]
  <2>1. Len(waves) \in 1..Len(waves) /\ waves[Len(waves)] \in WavesOf(G)
    <3>1. new \in WavesOf(G)
      BY <1>2
    <3> QED
      BY <1>6, <3>1, LastReplaced
  <2>2. /\ longer \in WavesOf(G) /\ g \in ToSet(longer.groups)
        /\ ToSet(waves[Len(waves)].groups) \subseteq ToSet(longer.groups)
    BY <1>4, <1>6, <2>1
  <2>3. /\ then \in Seq(WavesOf(G)) /\ longer \in ToSet(then)
        /\ ToSet(waves) \subseteq ToSet(then) \cup {waves[Len(waves)]}
    BY <1>6, <2>2, LastReplaced
  <2>4. /\ IsIn(waves[Len(waves)], longer)
        /\ \A v \in ToSet(waves) : v = waves[Len(waves)] \/ (v \in ToSet(then) /\ IsIn(v, v))
    BY <2>2, <2>3 DEF IsIn
  <2> QED
    BY <2>2, <2>3, <2>4 DEF then
<1> QED
  BY <1>1, <1>5, <1>6

\* The elements of a concatenation are those of its parts.
LEMMA FlatSet ==
  ASSUME NEW S, NEW s \in Seq(Seq(S))
  PROVE  /\ Flat(s) \in Seq(S)
         /\ \A y : y \in ToSet(Flat(s)) <=> \E i \in 1..Len(s) : y \in ToSet(s[i])
<1> DEFINE f == Flat(s)  N == Len(s)
<1>1. PICK off : Placed(s, N, f, off) /\ f \in Seq(S)
  BY FlatOf
<1>2. /\ \A i \in 1..N : \A j \in 1..Len(s[i]) :
           off[i] + j \in 1..Len(f) /\ f[off[i] + j] = s[i][j]
      /\ \A p \in 1..Len(f) : \E i \in 1..N : \E j \in 1..Len(s[i]) : p = off[i] + j
  BY <1>1 DEF Placed
<1>3. \A i \in 1..N : s[i] \in Seq(S)
  OBVIOUS
<1>4. ToSet(f) = {f[p] : p \in 1..Len(f)}
  BY <1>1, Listed
<1>5. \A i \in 1..N : ToSet(s[i]) = {s[i][j] : j \in 1..Len(s[i])}
  BY <1>3, Listed
<1> HIDE DEF f, N
<1>6. ASSUME NEW y \in ToSet(f) PROVE \E i \in 1..N : y \in ToSet(s[i])
  <2>1. PICK p \in 1..Len(f) : y = f[p]
    BY <1>4
  <2>2. PICK i \in 1..N : \E j \in 1..Len(s[i]) : p = off[i] + j
    BY <1>2
  <2>3. PICK j \in 1..Len(s[i]) : p = off[i] + j
    BY <2>2
  <2>4. y = s[i][j]
    BY <1>2, <2>1, <2>3
  <2> QED
    BY <1>5, <2>4
<1>7. ASSUME NEW i \in 1..N, NEW y \in ToSet(s[i]) PROVE y \in ToSet(f)
  <2>1. PICK j \in 1..Len(s[i]) : y = s[i][j]
    BY <1>5
  <2> QED
    BY <1>2, <1>4, <2>1
<1> QED
  BY <1>1, <1>6, <1>7 DEF f, N

\* The waves of the first groups.
LEMMA WavesFrom ==
  ASSUME NEW exe, NEW G, NEW groups \in Seq(G)
  PROVE  \E g : /\ g \in [0..Len(groups) -> Seq(WavesOf(G))] /\ g[0] = <<>>
                /\ \A n \in 1..Len(groups) : g[n] = PlaceGroup(exe, g[n - 1], groups[n])
                /\ PlanWaves(exe, groups)[Len(groups)] = g[Len(groups)]
<1> DEFINE N == Len(groups)
           T == Seq(WavesOf(G))
           step == [n \in 1..N |-> [t \in T |-> PlaceGroup(exe, t, groups[n])]]
<1>1. N \in Nat /\ <<>> \in T /\ \A n \in 1..N : groups[n] \in G
  OBVIOUS
<1> HIDE DEF N
<1>2. step \in [1..N -> [T -> T]]
  <2>1. ASSUME NEW n \in 1..N, NEW t \in T PROVE PlaceGroup(exe, t, groups[n]) \in T
    BY <1>1, PlaceGroupStep
  <2> HIDE DEF T
  <2> QED
    BY <2>1
<1>3. PICK g : Recurses(g, T, N, <<>>, step)
  <2> HIDE DEF step, T
  <2> QED
    BY <1>1, <1>2, Recursion
<1>4. /\ g \in [0..N -> T] /\ g[0] = <<>>
      /\ \A n \in 1..N : g[n] = step[n][g[n - 1]]
  BY <1>3, Zenon DEF Recurses
<1> HIDE DEF T
<1>5. ASSUME NEW n \in 1..N PROVE g[n] = PlaceGroup(exe, g[n - 1], groups[n])
  <2>1. g[n - 1] \in T
    BY <1>1, <1>4
  <2> QED
    BY <1>4, <2>1
<1> HIDE DEF step
<1> DEFINE Body(f) == [n \in 0..N |-> IF n = 0 THEN <<>> ELSE PlaceGroup(exe, f[n - 1], groups[n])]
           after == CHOOSE f : f = Body(f)
<1>6. PlanWaves(exe, groups) = after
  BY Zenon DEF PlanWaves, N
<1>7. g = Body(g)
  <2>1. \A n \in 0..N : n = 0 \/ n \in 1..N
    BY <1>1
  <2> QED
    BY <1>4, <1>5, <2>1
<1>8. after = Body(after)
  <2> HIDE DEF Body
  <2> QED
    BY <1>7, Zenon
<1> HIDE DEF after
<1>9. \A n \in 0..N : after[n] = g[n]
  <2> DEFINE Bad == {n \in 0..N : after[n] # g[n]}
  <2> SUFFICES ASSUME Bad # {} PROVE FALSE
    OBVIOUS
  <2>1. PICK m \in Bad : \A k \in Bad : m <= k
    <3>1. Bad \subseteq Nat
      BY <1>1
    <3> HIDE DEF Bad
    <3> QED
      BY <3>1, LeastOf
  <2>2. m \in 0..N
    OBVIOUS
  <2>3. after[0] = g[0]
    BY <1>1, <1>4, <1>8
  <2>4. m # 0 /\ m - 1 \in 0..N
    BY <1>1, <2>2, <2>3
  <2>5. m - 1 \notin Bad
    <3> HIDE DEF Bad
    <3> QED
      BY <2>1, <2>2, <2>4
  <2>6. after[m - 1] = g[m - 1]
    BY <2>4, <2>5
  <2>7. after[m] = PlaceGroup(exe, after[m - 1], groups[m])
    BY <1>8, <2>2, <2>4
  <2>8. g[m] = PlaceGroup(exe, g[m - 1], groups[m])
    BY <1>5, <2>2, <2>4
  <2> QED
    BY <2>1, <2>6, <2>7, <2>8
<1>10. N \in 0..N
  BY <1>1
<1> QED
  BY <1>4, <1>5, <1>6, <1>9, <1>10 DEF N, T

\* Every group is in a wave.
LEMMA WavesCover ==
  ASSUME NEW exe, NEW G, NEW groups \in Seq(G)
  PROVE  LET waves == PlanWaves(exe, groups)[Len(groups)]
         IN /\ waves \in Seq(WavesOf(G))
            /\ \A x \in ToSet(groups) : \E w \in ToSet(waves) : x \in ToSet(w.groups)
<1> DEFINE N == Len(groups)
<1>1. PICK g : /\ g \in [0..N -> Seq(WavesOf(G))] /\ g[0] = <<>>
               /\ \A n \in 1..N : g[n] = PlaceGroup(exe, g[n - 1], groups[n])
               /\ PlanWaves(exe, groups)[N] = g[N]
  BY WavesFrom
<1>2. N \in Nat /\ ToSet(groups) = {groups[i] : i \in 1..N} /\ \A n \in 1..N : groups[n] \in G
  <2>1. ToSet(groups) = {groups[i] : i \in 1..N}
    BY Listed
  <2> QED
    BY <2>1
<1> HIDE DEF N
<1> DEFINE In(x, n) == \E w \in ToSet(g[n]) : x \in ToSet(w.groups)
           Good(n) == \A i \in 1..n : In(groups[i], n)
           Bad == {n \in 0..N : ~Good(n)}
<1>3. ASSUME NEW n \in 1..N, Good(n - 1) PROVE Good(n)
  <2>1. g[n - 1] \in Seq(WavesOf(G)) /\ g[n] = PlaceGroup(exe, g[n - 1], groups[n])
        /\ groups[n] \in G
    BY <1>1, <1>2
  <2>2. /\ \E w \in ToSet(g[n]) : groups[n] \in ToSet(w.groups)
        /\ \A v \in ToSet(g[n - 1]) : \E w \in ToSet(g[n]) : IsIn(v, w)
    BY <2>1, PlaceGroupStep
  <2>3. ASSUME NEW i \in 1..n PROVE In(groups[i], n)
    <3>1. CASE i = n
      BY <2>2, <3>1
    <3>2. CASE i # n
      <4>1. i \in 1..n - 1
        BY <1>2, <3>2
      <4>2. PICK v \in ToSet(g[n - 1]) : groups[i] \in ToSet(v.groups)
        BY <1>3, <4>1
      <4>3. PICK w \in ToSet(g[n]) : IsIn(v, w)
        BY <2>2, <4>2
      <4> QED
        BY <4>2, <4>3 DEF IsIn
    <3> QED
      BY <3>1, <3>2
  <2> QED
    BY <2>3
<1>4. Good(0)
  OBVIOUS
<1> HIDE DEF Good
<1>5. Bad = {}
  <2> SUFFICES ASSUME Bad # {} PROVE FALSE
    OBVIOUS
  <2>1. PICK m \in Bad : \A k \in Bad : m <= k
    <3>1. Bad \subseteq Nat
      BY <1>2
    <3> HIDE DEF Bad
    <3> QED
      BY <3>1, LeastOf
  <2>2. m \in 1..N /\ m - 1 \in 0..N /\ m - 1 \notin Bad
    BY <1>2, <1>4, <2>1
  <2>3. Good(m - 1)
    BY <2>2
  <2> QED
    BY <1>3, <2>1, <2>2, <2>3
<1>6. N \in 0..N
  BY <1>2
<1>7. Good(N)
  BY <1>5, <1>6
<1>8. g[N] \in Seq(WavesOf(G))
  BY <1>1, <1>6
<1> QED
  BY <1>1, <1>2, <1>7, <1>8 DEF Good, N

\* The groups of an executable have numbers, each its own.
HasNumbers(groups) ==
  /\ \A g \in ToSet(groups) : g.group \in Nat
  /\ \A g, h \in ToSet(groups) : g.group = h.group => g = h

\* The numbers of a list of groups are a finite set.
LEMMA NumbersFinite ==
  ASSUME NEW groups, groups \in Seq(ToSet(groups))
  PROVE  IsFiniteSet({g.group : g \in ToSet(groups)})
<1> DEFINE S == {g.group : g \in ToSet(groups)}
           N == Len(groups)
           f == [n \in 1..N |-> groups[n].group]
<1>1. N \in Nat /\ ToSet(groups) = {groups[n] : n \in 1..N}
  BY Listed
<1>2. f \in Surjection(1..N, S)
  <2>1. f \in [1..N -> S] /\ \A n \in 1..N : f[n] = groups[n].group
    BY <1>1
  <2>2. ASSUME NEW x \in S PROVE \E n \in 1..N : f[n] = x
    BY <1>1
  <2> HIDE DEF f, S
  <2> QED
    BY <2>1, <2>2 DEF Surjection
<1>3. IsFiniteSet(1..N)
  BY <1>1, FS_Interval
<1> HIDE DEF f, S, N
<1>4. IsFiniteSet(S)
  BY <1>2, <1>3, FS_Surjection
<1> QED
  BY <1>4 DEF S

\* Sorted, they are the same groups.
LEMMA SortedOf ==
  ASSUME NEW groups, groups \in Seq(ToSet(groups)), HasNumbers(groups)
  PROVE  /\ SortedGroups(groups) \in Seq(ToSet(groups))
         /\ ToSet(SortedGroups(groups)) = ToSet(groups)
<1> DEFINE G == ToSet(groups)
           S == {g.group : g \in G}
           order == Ascending(S)
           The(n) == CHOOSE g \in G : g.group = n
           f == [i \in 1..Len(order) |-> The(order[i])]
<1>1. S \subseteq Nat /\ IsFiniteSet(S)
  BY NumbersFinite DEF HasNumbers
<1>2. /\ order \in Seq(S) /\ Len(order) \in Nat
      /\ \A x \in S : \E n \in 1..Len(order) : order[n] = x
  <2> HIDE DEF S
  <2>1. order \in Seq(S) /\ \A x \in S : \E n \in 1..Len(order) : order[n] = x
    BY <1>1, AscendingOf
  <2> QED
    BY <2>1
<1>3. SortedGroups(groups) = <<>> \o f
  BY DEF SortedGroups, Mapped, List
<1> HIDE DEF order
<1>4. \A g \in G : The(g.group) = g
  <2>1. \A g, h \in G : g.group = h.group => g = h
    BY DEF HasNumbers
  <2> HIDE DEF G
  <2> QED
    BY <2>1
<1>5. \A i \in 1..Len(order) : \E g \in G : order[i] = g.group /\ f[i] = g
  BY <1>2, <1>4
<1>6. f = [i \in 1..Len(order) |-> f[i]]
  OBVIOUS
<1>7. \A g \in G : \E i \in 1..Len(order) : f[i] = g
  BY <1>2, <1>4
<1> HIDE DEF f, G, S
<1>8. SortedGroups(groups) = f
  BY <1>2, <1>3, <1>6, ListIs
<1>9. f \in Seq(G) /\ Len(f) = Len(order)
  <2>1. \A i \in 1..Len(order) : f[i] \in G
    BY <1>5
  <2> QED
    BY <1>2, <1>6, <2>1
<1>10. ToSet(f) = {f[i] : i \in 1..Len(f)}
  BY <1>9, Listed
<1>11. ToSet(f) = G
  <2>1. \A x \in ToSet(f) : x \in G
    BY <1>5, <1>9, <1>10
  <2>2. \A x \in G : x \in ToSet(f)
    BY <1>7, <1>9, <1>10
  <2> QED
    BY <2>1, <2>2
<1> QED
  BY <1>8, <1>9, <1>11 DEF G

\* The readbacks of a wave or of a group.
ReadbacksIn(exe, groups) ==
  {i \in DOMAIN exe.readbacks : \E g \in groups : exe.readbacks[i].key[1] = g.group}
\* The readbacks of a group, as numbers from the least one up.
LEMMA GroupReadbacksOf ==
  ASSUME NEW exe, exe.readbacks \in Seq(ToSet(exe.readbacks)), NEW g
  PROVE  /\ GroupReadbacks(exe, g) \in Seq(DOMAIN exe.readbacks)
         /\ ToSet(GroupReadbacks(exe, g)) = ReadbacksIn(exe, {g})
<1> DEFINE R == {i \in DOMAIN exe.readbacks : exe.readbacks[i].key[1] = g.group}
           D == DOMAIN exe.readbacks
<1>1. Len(exe.readbacks) \in Nat /\ D = 1..Len(exe.readbacks)
  BY Listed
<1>2. IsFiniteSet(D) /\ D \subseteq Nat
  BY <1>1, FS_Interval
<1>3. R \subseteq D
  OBVIOUS
<1>4. GroupReadbacks(exe, g) = Ascending(R)
  BY DEF GroupReadbacks
<1>5. R = ReadbacksIn(exe, {g})
  BY DEF ReadbacksIn
<1> HIDE DEF R, D
<1>6. IsFiniteSet(R) /\ R \subseteq Nat
  BY <1>2, <1>3, FS_Subset
<1>7. /\ Ascending(R) \in Seq(R)
      /\ \A x \in R : \E n \in 1..Len(Ascending(R)) : Ascending(R)[n] = x
  BY <1>6, AscendingOf
<1> DEFINE f == Ascending(R)
<1>8. f \in Seq(R) /\ \A x \in R : \E n \in 1..Len(f) : f[n] = x
  BY <1>7
<1> HIDE DEF f
<1>9. ToSet(f) = {f[n] : n \in 1..Len(f)} /\ ToSet(f) \subseteq R /\ Len(f) \in Nat
      /\ \A n \in 1..Len(f) : f[n] \in R
  BY <1>8, Listed
<1>10. ToSet(f) = R
  BY <1>8, <1>9
<1>11. f \in Seq(D)
  <2>1. f = [n \in 1..Len(f) |-> f[n]]
    BY <1>8, Listed
  <2> QED
    BY <1>3, <1>9, <2>1
<1> QED
  BY <1>4, <1>5, <1>10, <1>11 DEF f, D

\* Of a list of readbacks, those of one Macro.
LEMMA OfMacroOf ==
  ASSUME NEW exe, NEW D, NEW readbacks \in Seq(D), NEW macro
  PROVE  /\ OfMacro(exe, readbacks, macro) \in Seq(D)
         /\ ToSet(OfMacro(exe, readbacks, macro)) =
              {i \in ToSet(readbacks) : exe.readbacks[i].macro = macro}
<1> DEFINE N == Len(readbacks)
           P == {n \in DOMAIN readbacks : exe.readbacks[readbacks[n]].macro = macro}
           order == Ascending(P)
           f == [n \in 1..Len(order) |-> readbacks[order[n]]]
<1>1. N \in Nat /\ DOMAIN readbacks = 1..N /\ ToSet(readbacks) = {readbacks[n] : n \in 1..N}
      /\ \A n \in 1..N : readbacks[n] \in D
  <2>1. N \in Nat /\ DOMAIN readbacks = 1..N /\ ToSet(readbacks) = {readbacks[n] : n \in 1..N}
    BY Listed
  <2> QED
    BY <2>1
<1> HIDE DEF N
<1>2. P \subseteq 1..N /\ P \subseteq Nat /\ IsFiniteSet(P)
  <2>1. P \subseteq 1..N
    BY <1>1
  <2>2. IsFiniteSet(1..N) /\ 1..N \subseteq Nat
    BY <1>1, FS_Interval
  <2> HIDE DEF P
  <2> QED
    BY <2>1, <2>2, FS_Subset
<1>3. OfMacro(exe, readbacks, macro) = <<>> \o f
  BY DEF OfMacro, Mapped, List
<1>4. /\ order \in Seq(P) /\ \A x \in P : \E n \in 1..Len(order) : order[n] = x
  <2> HIDE DEF P
  <2> QED
    BY <1>2, AscendingOf
<1> HIDE DEF order
<1>5. Len(order) \in Nat /\ \A n \in 1..Len(order) : order[n] \in P
  BY <1>4
<1>6. \A n \in 1..Len(order) : f[n] = readbacks[order[n]]
  OBVIOUS
<1>7. f = [n \in 1..Len(order) |-> f[n]]
  OBVIOUS
<1> HIDE DEF f
<1>8. OfMacro(exe, readbacks, macro) = f
  BY <1>3, <1>5, <1>7, ListIs
<1>9. f \in Seq(D) /\ Len(f) = Len(order)
  <2>1. \A n \in 1..Len(order) : f[n] \in D
    BY <1>1, <1>2, <1>5, <1>6
  <2> QED
    BY <1>5, <1>7, <2>1
<1>10. ToSet(f) = {f[n] : n \in 1..Len(f)}
  BY <1>9, Listed
<1>11. ASSUME NEW i \in ToSet(f)
       PROVE  i \in ToSet(readbacks) /\ exe.readbacks[i].macro = macro
  <2>1. PICK n \in 1..Len(order) : i = readbacks[order[n]]
    BY <1>6, <1>9, <1>10
  <2>2. order[n] \in P
    BY <1>5
  <2> QED
    BY <1>1, <2>1, <2>2
<1>12. ASSUME NEW i \in ToSet(readbacks), exe.readbacks[i].macro = macro
       PROVE  i \in ToSet(f)
  <2>1. PICK m \in 1..N : i = readbacks[m]
    BY <1>1
  <2>2. m \in P
    BY <1>1, <1>12, <2>1
  <2>3. PICK n \in 1..Len(order) : order[n] = m
    BY <1>4, <2>2
  <2> QED
    BY <1>6, <1>9, <1>10, <2>1, <2>3
<1> QED
  BY <1>8, <1>9, <1>11, <1>12

\* The readbacks of a wave are those of its groups.
LEMMA WaveReadbacksOf ==
  ASSUME NEW exe, exe.readbacks \in Seq(ToSet(exe.readbacks)),
         \A i \in DOMAIN exe.readbacks : exe.readbacks[i].macro \in {0, 1},
         NEW G, NEW w \in WavesOf(G)
  PROVE  /\ WaveReadbacks(exe, w) \in Seq(DOMAIN exe.readbacks)
         /\ \A i : i \in ToSet(WaveReadbacks(exe, w)) <=> i \in ReadbacksIn(exe, ToSet(w.groups))
<1> DEFINE D == DOMAIN exe.readbacks
           N == Len(w.groups)
           f == [n \in 1..N |-> GroupReadbacks(exe, w.groups[n])]
           readbacks == Flat(<<>> \o f)
<1>1. w.groups \in Seq(G)
  BY DEF WavesOf
<1>2. N \in Nat /\ ToSet(w.groups) = {w.groups[n] : n \in 1..N}
  BY <1>1, Listed
<1> HIDE DEF N
<1>3. \A n \in 1..N : /\ f[n] = GroupReadbacks(exe, w.groups[n]) /\ f[n] \in Seq(D)
                      /\ ToSet(f[n]) = ReadbacksIn(exe, {w.groups[n]})
  <2>1. ASSUME NEW n \in 1..N
        PROVE  /\ GroupReadbacks(exe, w.groups[n]) \in Seq(D)
               /\ ToSet(GroupReadbacks(exe, w.groups[n])) = ReadbacksIn(exe, {w.groups[n]})
    BY GroupReadbacksOf
  <2> HIDE DEF D
  <2> QED
    BY <2>1
<1>4. f = [n \in 1..N |-> f[n]]
  OBVIOUS
<1>5. /\ WaveReadbacks(exe, w) = IF w.batchable
                                 THEN OfMacro(exe, readbacks, 0) \o OfMacro(exe, readbacks, 1)
                                 ELSE readbacks
  BY DEF WaveReadbacks, Mapped, List, N
<1> HIDE DEF f
<1>6. <<>> \o f = f
  BY <1>2, <1>4, ListIs
<1>7. f \in Seq(Seq(D)) /\ Len(f) = N
  <2> DEFINE T == Seq(D)
  <2>1. \A n \in 1..N : f[n] \in T
    BY <1>3
  <2> HIDE DEF T
  <2>2. f \in Seq(T) /\ Len(f) = N
    BY <1>2, <1>4, <2>1
  <2> QED
    BY <2>2 DEF T
<1>8. readbacks = Flat(f)
  BY <1>6
<1>9. /\ readbacks \in Seq(D)
      /\ \A y : y \in ToSet(readbacks) <=> \E n \in 1..N : y \in ToSet(f[n])
  <2> HIDE DEF D, readbacks
  <2> QED
    BY <1>7, <1>8, FlatSet
<1> HIDE DEF readbacks
<1>10. \A i : i \in ToSet(readbacks) <=> i \in ReadbacksIn(exe, ToSet(w.groups))
  <2>1. ASSUME NEW i \in ToSet(readbacks) PROVE i \in ReadbacksIn(exe, ToSet(w.groups))
    <3>0. PICK n \in 1..N : i \in ToSet(f[n])
      BY <1>9
    <3>1. i \in ReadbacksIn(exe, {w.groups[n]})
      BY <1>3, <3>0
    <3>2. i \in D /\ exe.readbacks[i].key[1] = w.groups[n].group
      BY <3>1 DEF ReadbacksIn
    <3>3. w.groups[n] \in ToSet(w.groups)
      BY <1>2
    <3> QED
      BY <3>2, <3>3 DEF ReadbacksIn
  <2>2. ASSUME NEW i \in ReadbacksIn(exe, ToSet(w.groups)) PROVE i \in ToSet(readbacks)
    <3>1. PICK g \in ToSet(w.groups) : i \in D /\ exe.readbacks[i].key[1] = g.group
      BY DEF ReadbacksIn
    <3>2. PICK n \in 1..N : g = w.groups[n]
      BY <1>2
    <3>3. i \in ReadbacksIn(exe, {w.groups[n]})
      BY <3>1, <3>2 DEF ReadbacksIn
    <3> QED
      BY <1>3, <1>9, <3>3
  <2> QED
    BY <2>1, <2>2
<1>11. CASE ~w.batchable
  BY <1>5, <1>9, <1>10, <1>11
<1>12. CASE w.batchable
  <2> DEFINE a == OfMacro(exe, readbacks, 0)  b == OfMacro(exe, readbacks, 1)
  <2>1. /\ a \in Seq(D) /\ ToSet(a) = {i \in ToSet(readbacks) : exe.readbacks[i].macro = 0}
        /\ b \in Seq(D) /\ ToSet(b) = {i \in ToSet(readbacks) : exe.readbacks[i].macro = 1}
    <3> HIDE DEF D
    <3>1. readbacks \in Seq(D)
      BY <1>9
    <3>2. a \in Seq(D) /\ ToSet(a) = {i \in ToSet(readbacks) : exe.readbacks[i].macro = 0}
      BY <3>1, OfMacroOf
    <3>3. b \in Seq(D) /\ ToSet(b) = {i \in ToSet(readbacks) : exe.readbacks[i].macro = 1}
      BY <3>1, OfMacroOf
    <3> QED
      BY <3>2, <3>3
  <2>2. WaveReadbacks(exe, w) = a \o b
    BY <1>5, <1>12
  <2> HIDE DEF a, b
  <2>3. /\ a \o b \in Seq(D) /\ Len(a) \in Nat /\ Len(b) \in Nat
        /\ Len(a \o b) = Len(a) + Len(b)
        /\ \A n \in 1..Len(a) : (a \o b)[n] = a[n]
        /\ \A n \in 1..Len(b) : (a \o b)[Len(a) + n] = b[n]
    BY <2>1
  <2>4. /\ ToSet(a \o b) = {(a \o b)[n] : n \in 1..Len(a \o b)}
        /\ ToSet(a) = {a[n] : n \in 1..Len(a)} /\ ToSet(b) = {b[n] : n \in 1..Len(b)}
    <3>1. ASSUME NEW s \in Seq(D) PROVE ToSet(s) = {s[n] : n \in 1..Len(s)}
      BY Listed
    <3> HIDE DEF D
    <3> QED
      BY <2>1, <2>3, <3>1
  <2> DEFINE c == a \o b
  <2>5. /\ c \in Seq(D) /\ Len(c) = Len(a) + Len(b) /\ ToSet(c) = {c[n] : n \in 1..Len(c)}
        /\ \A n \in 1..Len(a) : c[n] = a[n]
        /\ \A n \in 1..Len(b) : c[Len(a) + n] = b[n]
    BY <2>3, <2>4
  <2> HIDE DEF c
  <2>6. ASSUME NEW i \in ToSet(c) PROVE i \in ToSet(a) \/ i \in ToSet(b)
    <3>1. PICK n \in 1..Len(c) : i = c[n]
      BY <2>5
    <3>2. CASE n <= Len(a)
      <4>1. n \in 1..Len(a)
        BY <2>3, <2>5, <3>2
      <4>2. i = a[n]
        BY <2>5, <3>1, <4>1
      <4> QED
        BY <2>4, <4>1, <4>2
    <3>3. CASE ~(n <= Len(a))
      <4>1. PICK m \in 1..Len(b) : n = Len(a) + m
        <5>1. n - Len(a) \in 1..Len(b) /\ Len(a) + (n - Len(a)) = n
          BY <2>3, <2>5, <3>3
        <5> QED
          BY <5>1
      <4>2. i = b[m]
        BY <2>5, <3>1, <4>1
      <4> QED
        BY <2>4, <4>2
    <3> QED
      BY <3>2, <3>3
  <2>7. ASSUME NEW i \in ToSet(a) \cup ToSet(b) PROVE i \in ToSet(c)
    <3>1. CASE i \in ToSet(a)
      <4>1. PICK n \in 1..Len(a) : i = a[n]
        BY <2>4, <3>1
      <4>2. n \in 1..Len(c) /\ c[n] = i
        BY <2>3, <2>5, <4>1
      <4> QED
        BY <2>5, <4>2
    <3>2. CASE i \in ToSet(b)
      <4>1. PICK n \in 1..Len(b) : i = b[n]
        BY <2>4, <3>2
      <4>2. Len(a) + n \in 1..Len(c) /\ c[Len(a) + n] = i
        BY <2>3, <2>5, <4>1
      <4> QED
        BY <2>5, <4>2
    <3> QED
      BY <3>1, <3>2
  <2>8. \A i \in ToSet(readbacks) : exe.readbacks[i].macro \in {0, 1}
    BY <1>10 DEF ReadbacksIn
  <2>9. \A i : i \in ToSet(c) <=> i \in ToSet(readbacks)
    BY <2>1, <2>6, <2>7, <2>8
  <2> QED
    BY <1>10, <2>2, <2>5, <2>9 DEF c
<1> QED
  BY <1>11, <1>12

\* The readbacks of an executable are a list and are of the two Macros.
HasReadbacks(readbacks) ==
  /\ readbacks \in Seq(ToSet(readbacks))
  /\ \A i \in DOMAIN readbacks : readbacks[i].macro \in {0, 1}
\* A wave of the plan: groups of the executable, and their readbacks.
IsWave(exe, w) ==
  /\ w.groups \in Seq(ToSet(exe.groups))
  /\ w.readbacks \in Seq(DOMAIN exe.readbacks)
  /\ \A i : i \in ToSet(w.readbacks) <=> i \in ReadbacksIn(exe, ToSet(w.groups))
\* The plan: waves, every group in one of them.
LEMMA PlanOf ==
  ASSUME NEW exe, HasGroups(exe.groups), HasNumbers(exe.groups), HasReadbacks(exe.readbacks)
  PROVE  LET plan == SoftwarePlan(exe)
         IN /\ plan = [n \in 1..Len(plan) |-> plan[n]] /\ Len(plan) \in Nat
            /\ \A n \in 1..Len(plan) : IsWave(exe, plan[n])
            /\ \A g \in ToSet(exe.groups) : \E n \in 1..Len(plan) : g \in ToSet(plan[n].groups)
<1> DEFINE G == ToSet(exe.groups)
           sorted == SortedGroups(exe.groups)
           waves == PlanWaves(exe, sorted)[Len(sorted)]
           Wave(w) == [groups |-> w.groups, readbacks |-> WaveReadbacks(exe, w)]
           f == [n \in 1..Len(waves) |-> Wave(waves[n])]
<1>1. sorted \in Seq(G) /\ ToSet(sorted) = G
  BY SortedOf DEF HasGroups
<1>2. SoftwarePlan(exe) = <<>> \o f
  BY DEF SoftwarePlan, Mapped, List
<1> HIDE DEF G, sorted
<1>3. /\ waves \in Seq(WavesOf(G))
      /\ \A x \in ToSet(sorted) : \E w \in ToSet(waves) : x \in ToSet(w.groups)
  BY <1>1, WavesCover
<1> HIDE DEF waves
<1>4. /\ Len(waves) \in Nat /\ ToSet(waves) = {waves[n] : n \in 1..Len(waves)}
  BY <1>3, Listed
<1>5. \A n \in 1..Len(waves) : waves[n] \in WavesOf(G)
  BY <1>3
<1>6. ASSUME NEW n \in 1..Len(waves) PROVE IsWave(exe, f[n]) /\ f[n].groups = waves[n].groups
  <2>1. f[n] = [groups |-> waves[n].groups, readbacks |-> WaveReadbacks(exe, waves[n])]
    OBVIOUS
  <2> DEFINE w == waves[n]
  <2>2. w \in WavesOf(G) /\ w.groups \in Seq(G)
    BY <1>5 DEF WavesOf
  <2> HIDE DEF w
  <2>3. /\ exe.readbacks \in Seq(ToSet(exe.readbacks))
        /\ \A i \in DOMAIN exe.readbacks : exe.readbacks[i].macro \in {0, 1}
    BY DEF HasReadbacks
  <2>4. /\ WaveReadbacks(exe, w) \in Seq(DOMAIN exe.readbacks)
        /\ \A i : i \in ToSet(WaveReadbacks(exe, w)) <=> i \in ReadbacksIn(exe, ToSet(w.groups))
    BY <2>2, <2>3, WaveReadbacksOf
  <2>5. /\ f[n].groups = w.groups /\ f[n].readbacks = WaveReadbacks(exe, w)
    BY <2>1 DEF w
  <2> QED
    BY <2>2, <2>4, <2>5 DEF IsWave, G, w
<1>7. f = [n \in 1..Len(waves) |-> f[n]]
  OBVIOUS
<1> HIDE DEF f
<1>8. SoftwarePlan(exe) = f
  BY <1>2, <1>4, <1>7, ListIs
<1>9. Len(f) = Len(waves)
  <2>1. f \in Seq({f[n] : n \in 1..Len(waves)})
    BY <1>4, <1>7
  <2> QED
    BY <1>4, <1>7, <2>1
<1>10. ASSUME NEW g \in G PROVE \E n \in 1..Len(waves) : g \in ToSet(f[n].groups)
  <2>1. PICK w \in ToSet(waves) : g \in ToSet(w.groups)
    BY <1>1, <1>3
  <2>2. PICK n \in 1..Len(waves) : w = waves[n]
    BY <1>4
  <2> QED
    BY <1>6, <2>1, <2>2
<1> QED
  BY <1>4, <1>6, <1>7, <1>8, <1>9, <1>10 DEF G
\* The steps of the software runner.
WorkStep(k) == [kind |-> "work", work |-> k]
ReadStep(i) == [kind |-> "read", readback |-> i]
StepsOf(exe) ==
  {WorkStep(k) : k \in ToSet(WorkKeys(exe))} \cup {ReadStep(i) : i \in DOMAIN exe.readbacks}
\* A work and a readback are different steps.
LEMMA StepKinds ==
  ASSUME NEW k, NEW i
  PROVE  /\ WorkStep(k).kind = "work" /\ WorkStep(k).work = k
         /\ ReadStep(i).kind = "read" /\ ReadStep(i).readback = i
         /\ WorkStep(k) # ReadStep(i)
<1>1. WorkStep(k).kind = "work" /\ ReadStep(i).kind = "read" /\ "work" # "read"
  BY DEF WorkStep, ReadStep
<1> QED
  BY <1>1 DEF WorkStep, ReadStep

\* The steps of a wave: its works, then its readbacks.
WaveSteps(w) ==
  (<<>> \o [n \in 1..Len(WorkKeys(w)) |-> WorkStep(WorkKeys(w)[n])])
    \o (<<>> \o [n \in 1..Len(w.readbacks) |-> ReadStep(w.readbacks[n])])
LEMMA WaveStepsOf ==
  ASSUME NEW exe, HasGroups(exe.groups), NEW w, IsWave(exe, w)
  PROVE  /\ WaveSteps(w) \in Seq(StepsOf(exe))
         /\ Len(WaveSteps(w)) = Len(WorkKeys(w)) + Len(w.readbacks)
         /\ Len(WorkKeys(w)) \in Nat /\ Len(w.readbacks) \in Nat
         /\ \A n \in 1..Len(WorkKeys(w)) : WaveSteps(w)[n] = WorkStep(WorkKeys(w)[n])
         /\ \A n \in 1..Len(w.readbacks) :
              WaveSteps(w)[Len(WorkKeys(w)) + n] = ReadStep(w.readbacks[n])
         /\ ToSet(WorkKeys(w)) = WorksOf(w.groups)
         /\ ToSet(WorkKeys(w)) = {WorkKeys(w)[n] : n \in 1..Len(WorkKeys(w))}
<1> DEFINE G == ToSet(exe.groups)
           keys == WorkKeys(w)
           a == [n \in 1..Len(keys) |-> WorkStep(keys[n])]
           b == [n \in 1..Len(w.readbacks) |-> ReadStep(w.readbacks[n])]
           T == StepsOf(exe)
<1>1. w.groups \in Seq(G) /\ w.readbacks \in Seq(DOMAIN exe.readbacks)
  BY DEF IsWave
<1>2. HasGroups(w.groups) /\ ToSet(w.groups) \subseteq G
  <2>1. w.groups \in Seq(ToSet(w.groups)) /\ ToSet(w.groups) \subseteq G
    <3>1. /\ Len(w.groups) \in Nat /\ w.groups = [i \in 1..Len(w.groups) |-> w.groups[i]]
          /\ ToSet(w.groups) = {w.groups[i] : i \in 1..Len(w.groups)}
          /\ ToSet(w.groups) \subseteq G
      BY <1>1, Listed
    <3> DEFINE f == w.groups
    <3>2. \A i \in 1..Len(f) : f[i] \in ToSet(f)
      BY <3>1
    <3> HIDE DEF f
    <3>3. f \in Seq(ToSet(f))
      BY <3>1, <3>2 DEF f
    <3> QED
      BY <3>1, <3>3 DEF f
  <2>2. \A g \in G : g.works \in Seq(ToSet(g.works))
    BY DEF HasGroups
  <2> HIDE DEF G
  <2> QED
    BY <2>1, <2>2 DEF HasGroups
<1>3. /\ keys \in Seq(WorksOf(w.groups)) /\ ToSet(keys) = WorksOf(w.groups)
  BY <1>2, WorkKeysOf
<1>4. WorksOf(w.groups) \subseteq WorksOf(exe.groups)
  BY <1>2 DEF WorksOf
<1>5. ToSet(WorkKeys(exe)) = WorksOf(exe.groups)
  BY WorkKeysOf
<1>6. WaveSteps(w) = (<<>> \o a) \o (<<>> \o b)
  BY DEF WaveSteps
<1> HIDE DEF keys
<1>7. Len(keys) \in Nat /\ Len(w.readbacks) \in Nat
      /\ ToSet(keys) = {keys[n] : n \in 1..Len(keys)}
  BY <1>1, <1>3, Listed
<1>8. \A n \in 1..Len(keys) : a[n] = WorkStep(keys[n]) /\ a[n] \in T
  <2>1. \A n \in 1..Len(keys) : keys[n] \in ToSet(WorkKeys(exe))
    BY <1>3, <1>4, <1>5
  <2> QED
    BY <2>1 DEF StepsOf
<1>9. \A n \in 1..Len(w.readbacks) : b[n] = ReadStep(w.readbacks[n]) /\ b[n] \in T
  <2>1. \A n \in 1..Len(w.readbacks) : w.readbacks[n] \in DOMAIN exe.readbacks
    BY <1>1
  <2> QED
    BY <2>1 DEF StepsOf
<1>10. a = [n \in 1..Len(keys) |-> a[n]] /\ b = [n \in 1..Len(w.readbacks) |-> b[n]]
  OBVIOUS
<1> HIDE DEF a, b, T
<1>11. <<>> \o a = a /\ <<>> \o b = b
  BY <1>7, <1>10, ListIs
<1>12. /\ a \in Seq(T) /\ Len(a) = Len(keys)
       /\ b \in Seq(T) /\ Len(b) = Len(w.readbacks)
  BY <1>7, <1>8, <1>9, <1>10
<1>13. /\ a \o b \in Seq(T) /\ Len(a \o b) = Len(keys) + Len(w.readbacks)
       /\ \A n \in 1..Len(keys) : (a \o b)[n] = a[n]
       /\ \A n \in 1..Len(w.readbacks) : (a \o b)[Len(keys) + n] = b[n]
  BY <1>7, <1>12
<1>14. WaveSteps(w) = a \o b
  BY <1>6, <1>11
<1> QED
  BY <1>3, <1>7, <1>8, <1>9, <1>13, <1>14 DEF keys, T

\* The steps: the works and the readbacks of the executable; every readback is
\* read, after the works with its key have been computed.
THEOREM SoftwareStepsOf ==
  ASSUME NEW exe, HasGroups(exe.groups), HasNumbers(exe.groups), HasReadbacks(exe.readbacks)
  PROVE  LET steps == SoftwareSteps(exe)
         IN /\ steps \in Seq(StepsOf(exe))
            /\ \A p \in 1..Len(steps) : \A i \in DOMAIN exe.readbacks :
                 \A k \in ToSet(WorkKeys(exe)) :
                   steps[p] = ReadStep(i) /\ k.key = exe.readbacks[i].key
                   => \E q \in 1..p - 1 : steps[q] = WorkStep(k)
            /\ \A i \in DOMAIN exe.readbacks :
                 (\E k \in ToSet(WorkKeys(exe)) : k.key = exe.readbacks[i].key)
                 => \E p \in 1..Len(steps) : steps[p] = ReadStep(i)
<1> DEFINE plan == SoftwarePlan(exe)
           parts == [n \in 1..Len(plan) |-> WaveSteps(plan[n])]
           steps == SoftwareSteps(exe)
           T == StepsOf(exe)
<1>1. /\ plan = [n \in 1..Len(plan) |-> plan[n]] /\ Len(plan) \in Nat
      /\ \A n \in 1..Len(plan) : IsWave(exe, plan[n])
      /\ \A g \in ToSet(exe.groups) : \E n \in 1..Len(plan) : g \in ToSet(plan[n].groups)
  BY PlanOf
<1>2. steps = Flat(<<>> \o parts)
  BY DEF SoftwareSteps, Mapped, List, WaveSteps, WorkStep, ReadStep
<1> HIDE DEF plan, T
<1>3. \A n \in 1..Len(plan) : parts[n] = WaveSteps(plan[n]) /\ parts[n] \in Seq(T)
  BY <1>1, WaveStepsOf DEF T
<1>4. parts = [n \in 1..Len(plan) |-> parts[n]]
  OBVIOUS
<1> HIDE DEF parts
<1>5. <<>> \o parts = parts
  BY <1>1, <1>4, ListIs
<1>6. parts \in Seq(Seq(T)) /\ Len(parts) = Len(plan)
  <2> DEFINE U == Seq(T)
  <2>1. \A n \in 1..Len(plan) : parts[n] \in U
    BY <1>3
  <2> HIDE DEF U
  <2>2. parts \in Seq(U) /\ Len(parts) = Len(plan)
    BY <1>1, <1>4, <2>1
  <2> QED
    BY <2>2 DEF U
<1>7. steps = Flat(parts)
  BY <1>2, <1>5
<1>8. PICK off \in [1..Len(parts) -> Nat] : Placed(parts, Len(parts), steps, off)
  BY <1>6, <1>7, FlatOf
<1>9. steps \in Seq(T)
  BY <1>6, <1>7, FlatOf
<1> HIDE DEF steps
<1>10. /\ \A n \in 1..Len(plan) : \A j \in 1..Len(parts[n]) :
            off[n] + j \in 1..Len(steps) /\ steps[off[n] + j] = parts[n][j]
       /\ \A p \in 1..Len(steps) :
            \E n \in 1..Len(plan) : \E j \in 1..Len(parts[n]) : p = off[n] + j
  <2>1. Placed(parts, Len(plan), steps, off)
    BY <1>6, <1>8
  <2> QED
    BY <2>1, Zenon DEF Placed
<1>11. ASSUME NEW k \in ToSet(WorkKeys(exe))
       PROVE  \E g \in ToSet(exe.groups) : \E w \in ToSet(g.works) : k = WorkKey(g, w)
  <2>1. k \in WorksOf(exe.groups)
    BY WorkKeysOf
  <2> QED
    BY <2>1 DEF WorksOf
<1>12. ASSUME NEW p \in 1..Len(steps), NEW i \in DOMAIN exe.readbacks,
              NEW k \in ToSet(WorkKeys(exe)),
              steps[p] = ReadStep(i), k.key = exe.readbacks[i].key
       PROVE  \E q \in 1..p - 1 : steps[q] = WorkStep(k)
  <2>1. PICK n \in 1..Len(plan) : \E j \in 1..Len(parts[n]) : p = off[n] + j
    BY <1>10
  <2>2. PICK j \in 1..Len(parts[n]) : p = off[n] + j
    BY <2>1
  <2> DEFINE w == plan[n]  M == Len(WorkKeys(w))
  <2>3. parts[n] = WaveSteps(w) /\ IsWave(exe, w) /\ off[n] \in Nat
    BY <1>1, <1>3, <1>6
  <2> HIDE DEF w
  <2>4. /\ Len(WaveSteps(w)) = M + Len(w.readbacks)
        /\ M \in Nat /\ Len(w.readbacks) \in Nat
        /\ \A x \in 1..M : WaveSteps(w)[x] = WorkStep(WorkKeys(w)[x])
        /\ \A x \in 1..Len(w.readbacks) : WaveSteps(w)[M + x] = ReadStep(w.readbacks[x])
        /\ ToSet(WorkKeys(w)) = WorksOf(w.groups)
        /\ ToSet(WorkKeys(w)) = {WorkKeys(w)[x] : x \in 1..M}
    BY <2>3, WaveStepsOf
  <2>5. WaveSteps(w)[j] = ReadStep(i)
    BY <1>10, <1>12, <2>2, <2>3
  <2> HIDE DEF M
  <2>6. ~(j \in 1..M)
    BY <2>4, <2>5, StepKinds
  <2>7. PICK x \in 1..Len(w.readbacks) : j = M + x
    <3>1. j - M \in 1..Len(w.readbacks) /\ j = M + (j - M)
      BY <2>2, <2>3, <2>4, <2>6
    <3> QED
      BY <3>1
  <2>8. ReadStep(w.readbacks[x]) = ReadStep(i)
    BY <2>4, <2>5, <2>7
  <2>9. w.readbacks[x] = i
    BY <2>8, StepKinds
  <2>10. i \in ToSet(w.readbacks)
    <3>1. ToSet(w.readbacks) = {w.readbacks[y] : y \in 1..Len(w.readbacks)}
      BY <2>3, Listed DEF IsWave
    <3> QED
      BY <2>9, <3>1
  <2>11. PICK g \in ToSet(w.groups) : exe.readbacks[i].key[1] = g.group
    BY <2>3, <2>10 DEF IsWave, ReadbacksIn
  <2>12. g \in ToSet(exe.groups)
    BY <2>3, <2>11, Listed DEF IsWave
  <2>13. PICK h \in ToSet(exe.groups) : \E v \in ToSet(h.works) : k = WorkKey(h, v)
    BY <1>11
  <2>14. PICK v \in ToSet(h.works) : k = WorkKey(h, v)
    BY <2>13
  <2>15. k.key = <<h.group, v.work>>
    BY <2>14 DEF WorkKey, Key
  <2>16. h = g
    <3>1. h.group = g.group
      BY <1>12, <2>11, <2>15
    <3> QED
      BY <2>12, <3>1 DEF HasNumbers
  <2>17. k \in WorksOf(w.groups)
    BY <2>11, <2>14, <2>16 DEF WorksOf
  <2>18. PICK y \in 1..M : k = WorkKeys(w)[y]
    BY <2>4, <2>17
  <2>19. y \in 1..Len(parts[n]) /\ parts[n][y] = WorkStep(k) /\ y < j
    BY <2>3, <2>4, <2>7, <2>18
  <2>20. off[n] + y \in 1..Len(steps) /\ steps[off[n] + y] = WorkStep(k)
    BY <1>10, <2>19
  <2>21. off[n] + y \in 1..p - 1
    BY <2>2, <2>3, <2>4, <2>19, <2>20
  <2> QED
    BY <2>20, <2>21
<1>13. ASSUME NEW i \in DOMAIN exe.readbacks, NEW k \in ToSet(WorkKeys(exe)),
              k.key = exe.readbacks[i].key
       PROVE  \E p \in 1..Len(steps) : steps[p] = ReadStep(i)
  <2>1. PICK g \in ToSet(exe.groups) : \E v \in ToSet(g.works) : k = WorkKey(g, v)
    BY <1>11
  <2>2. exe.readbacks[i].key[1] = g.group
    BY <1>13, <2>1 DEF WorkKey, Key
  <2>3. PICK n \in 1..Len(plan) : g \in ToSet(plan[n].groups)
    BY <1>1
  <2> DEFINE w == plan[n]  M == Len(WorkKeys(w))
  <2>4. parts[n] = WaveSteps(w) /\ IsWave(exe, w)
    BY <1>1, <1>3
  <2>5. g \in ToSet(w.groups)
    BY <2>3
  <2> HIDE DEF w
  <2>6. i \in ToSet(w.readbacks)
    BY <2>2, <2>4, <2>5 DEF IsWave, ReadbacksIn
  <2>7. PICK x \in 1..Len(w.readbacks) : w.readbacks[x] = i
    BY <2>4, <2>6, Listed DEF IsWave
  <2>8. /\ Len(WaveSteps(w)) = M + Len(w.readbacks)
        /\ M \in Nat /\ Len(w.readbacks) \in Nat
        /\ \A y \in 1..Len(w.readbacks) : WaveSteps(w)[M + y] = ReadStep(w.readbacks[y])
    BY <2>4, WaveStepsOf
  <2> HIDE DEF M
  <2> DEFINE j == M + x  p == off[n] + j
  <2>9. j \in 1..Len(parts[n]) /\ parts[n][j] = ReadStep(i)
    BY <2>4, <2>7, <2>8
  <2> HIDE DEF j
  <2>10. p \in 1..Len(steps) /\ steps[p] = parts[n][j]
    BY <1>10, <2>9, Zenon
  <2> HIDE DEF p
  <2>11. steps[p] = ReadStep(i)
    BY <2>9, <2>10, Zenon
  <2> QED
    BY <2>10, <2>11, Zenon
<1> QED
  BY <1>9, <1>12, <1>13 DEF steps, T

-----------------------------------------------------------------------------
(* Bindings.                                                               *)

\* The first element with a key, of a list where keys are their own.
LEMMA FindOf ==
  ASSUME NEW s, Keyed(s), NEW key, Find(s, key) # <<>>
  PROVE  LET n == BindingOf(s, key)
         IN n \in DOMAIN s /\ s[n].key = key /\ Find(s, key) = <<s[n]>>
<1> DEFINE hits == {i \in DOMAIN s : s[i].key = key}
           n == BindingOf(s, key)
<1>1. Find(s, key) = IF hits = {} THEN <<>> ELSE <<s[Min(hits)]>>
  BY DEF Find
<1>2. hits # {}
  BY <1>1
<1>3. n \in DOMAIN s /\ s[n].key = key
  BY <1>2 DEF BindingOf
<1>4. hits = {n}
  BY <1>3 DEF Keyed
<1>5. n \in Nat
  BY <1>3, Listed DEF Keyed, IsList
<1> HIDE DEF n, hits
<1>6. Min(hits) = n
  BY <1>4, <1>5 DEF Min
<1> QED
  BY <1>1, <1>2, <1>3, <1>6 DEF n

\* What is found with a key, however often.
LEMMA FoundIs ==
  ASSUME NEW s, Keyed(s), NEW i \in DOMAIN s
  PROVE  Find(s, s[i].key) # <<>> /\ BindingOf(s, s[i].key) = i
<1>1. <<s[Min({j \in DOMAIN s : s[j].key = s[i].key})]>> # <<>>
  OBVIOUS
<1>2. Find(s, s[i].key) # <<>>
  BY <1>1 DEF Find
<1>3. /\ BindingOf(s, s[i].key) \in DOMAIN s
      /\ s[BindingOf(s, s[i].key)].key = s[i].key
  BY <1>2, FindOf
<1> QED
  BY <1>2, <1>3 DEF Keyed

-----------------------------------------------------------------------------
(* The board: what the operations of a program leave on the chip and in    *)
(* the table of residents.                                                 *)

\* The recursion has a solution.
LEMMA OperatedFrom ==
  ASSUME NEW ch, NEW re, NEW ops, NEW tracked, Len(ops) \in Nat
  PROVE  LET states == Operated(ch, re, ops, tracked)
         IN /\ states[0] = [chip |-> ch, resid |-> re]
            /\ \A n \in 1..Len(ops) : states[n] = Operate(states[n - 1], ops[n], tracked)
<1> DEFINE N == Len(ops)
           start == [chip |-> ch, resid |-> re]
           Run(g, m) == /\ g = [i \in 0..m |-> g[i]] /\ g[0] = start
                        /\ \A n \in 1..m : g[n] = Operate(g[n - 1], ops[n], tracked)
           Bad == {m \in 0..N : ~\E g : Run(g, m)}
<1> HIDE DEF start
<1>1. Bad = {}
  <2> SUFFICES ASSUME Bad # {} PROVE FALSE
    OBVIOUS
  <2>1. PICK m \in Bad : \A k \in Bad : m <= k
    <3>1. Bad \subseteq Nat
      OBVIOUS
    <3> HIDE DEF Bad
    <3> QED
      BY <3>1, LeastOf
  <2>2. m # 0
    <3> DEFINE g == [i \in 0..0 |-> start]
    <3>1. Run(g, 0)
      OBVIOUS
    <3> QED
      BY <3>1
  <2>3. m \in 1..N /\ m - 1 \in 0..N /\ m - 1 \notin Bad
    BY <2>1, <2>2
  <2>4. PICK g : Run(g, m - 1)
    BY <2>3
  <2> DEFINE h == [i \in 0..m |-> IF i = m THEN Operate(g[m - 1], ops[m], tracked) ELSE g[i]]
  <2>5. Run(h, m)
    <3>1. h = [i \in 0..m |-> h[i]] /\ h[0] = start
      BY <2>3, <2>4
    <3> HIDE DEF N
    <3>2. ASSUME NEW n \in 1..m PROVE h[n] = Operate(h[n - 1], ops[n], tracked)
      <4>1. h[n - 1] = g[n - 1]
        <5>1. n - 1 \in 0..m /\ n - 1 # m
          BY <2>3
        <5> QED
          BY <5>1
      <4>2. CASE n = m
        <5>1. h[m] = Operate(g[m - 1], ops[m], tracked)
          BY <2>3
        <5> QED
          BY <4>1, <4>2, <5>1
      <4>3. CASE n # m
        <5>1. n \in 1..m - 1 /\ h[n] = g[n]
          BY <2>3, <4>3
        <5> QED
          BY <2>4, <4>1, <5>1
      <4> QED
        BY <4>2, <4>3
    <3> QED
      BY <3>1, <3>2
  <2> QED
    BY <2>1, <2>5
<1>2. PICK g : Run(g, N)
  BY <1>1
<1> DEFINE After(f) == [n \in 0..N |-> IF n = 0 THEN start ELSE Operate(f[n - 1], ops[n], tracked)]
           states == Operated(ch, re, ops, tracked)
<1>3. states = CHOOSE f : f = After(f)
  BY Zenon DEF Operated, start
<1>4. g = After(g)
  BY <1>2
<1> HIDE DEF After, states
<1>5. states = After(states)
  BY <1>3, <1>4, Zenon
<1>6. /\ states[0] = start
      /\ \A n \in 1..N : states[n] = Operate(states[n - 1], ops[n], tracked)
  BY <1>5 DEF After
<1> QED
  BY <1>6 DEF start, states

\* The chip and the table while operations are written.
IsState(st) == st = [chip |-> st.chip, resid |-> st.resid] /\ IsChip(st.chip) /\ IsTable(st.resid)

\* A selection keeps the weights and the table of residents.
LEMMA SelectStep ==
  ASSUME NEW st, IsState(st), NEW op, op.kind = "select", op.core \in AllCores, NEW tracked
  PROVE  LET then == Operate(st, op, tracked)
         IN /\ IsState(then) /\ then.chip.selected[op.core] = op.macro
            /\ then.chip.weights = st.chip.weights /\ then.resid = st.resid
<1> DEFINE then == Operate(st, op, tracked)
<1>1. PICK types : then = [st EXCEPT !.chip.selected[op.core] = op.macro, !.chip.types = types]
  BY DEF Operate
<1>2. then.chip = [st.chip EXCEPT !.selected[op.core] = op.macro, !.types = types]
  BY <1>1 DEF IsState, IsChip
<1>3. then = [chip |-> then.chip, resid |-> st.resid]
  BY <1>1 DEF IsState
<1> HIDE DEF then
<1>4. /\ IsChip(then.chip) /\ then.chip.selected[op.core] = op.macro
      /\ then.chip.weights = st.chip.weights
  BY <1>2 DEF IsState, IsChip
<1>5. IsState(then) /\ then.resid = st.resid
  BY <1>3, <1>4 DEF IsState, IsTable
<1> QED
  BY <1>4, <1>5 DEF then

\* An input keeps the selections, the weights and the table.
LEMMA InputStep ==
  ASSUME NEW st, IsState(st), NEW op, op.kind = "input", NEW tracked
  PROVE  LET then == Operate(st, op, tracked)
         IN /\ IsState(then) /\ then.chip.selected = st.chip.selected
            /\ then.chip.weights = st.chip.weights /\ then.resid = st.resid
BY DEF Operate, IsState, IsChip, IsTable

\* A weight for the selected Macro keeps a true table true, hit or miss.
LEMMA WeightStep ==
  ASSUME NEW st, IsState(st), NEW op, op.kind = "weight", op.core \in AllCores,
         op.slot \in Slots, op.slot = Slot(op.core, st.chip.selected[op.core]),
         NEW tracked \in BOOLEAN
  PROVE  LET then == Operate(st, op, tracked)
         IN /\ IsState(then)
            /\ Holds(st.chip, st.resid) => Holds(then.chip, then.resid)
<1> DEFINE slot == op.slot
           hit == tracked /\ st.resid[slot] = Resident(op.image, op.mode)
           then == Operate(st, op, tracked)
           image == IF hit THEN st.chip.weights[slot] ELSE op.image
           table == IF tracked
                    THEN [st.resid EXCEPT ![slot] = Resident(op.image, op.mode)]
                    ELSE NothingResident
<1>1. then = [st EXCEPT !.chip.weights[slot] = image, !.resid = table]
  BY DEF Operate, IsState
<1>2. /\ then.chip = [st.chip EXCEPT !.weights[slot] = image] /\ then.resid = table
      /\ then = [chip |-> then.chip, resid |-> then.resid]
  BY <1>1 DEF IsState, IsChip
<1>3. IsState(then)
  BY <1>2 DEF IsState, IsChip, IsTable, NothingResident
<1>4. ASSUME Holds(st.chip, st.resid), NEW s \in Slots, table[s] # NoImage
      PROVE  then.chip.weights[s] = table[s].image
  <2>1. tracked
    BY <1>4 DEF NothingResident
  <2>2. CASE s = slot
    <3>1. table[s] = Resident(op.image, op.mode) /\ table[s].image = op.image
      BY <2>1, <2>2 DEF IsState, IsTable, Resident
    <3>2. then.chip.weights[s] = image
      BY <1>2, <2>2 DEF IsState, IsChip
    <3>3. hit => st.chip.weights[s] = op.image
      BY <1>4, <2>2, <3>1 DEF Holds
    <3> QED
      BY <2>2, <3>1, <3>2, <3>3
  <2>3. CASE s # slot
    BY <1>2, <1>4, <2>1, <2>3 DEF IsState, IsChip, IsTable, Holds
  <2> QED
    BY <2>2, <2>3
<1> QED
  BY <1>2, <1>3, <1>4 DEF Holds

\* A weight follows the selection of its Macro and the input of its work.
Selects(ops, n) ==
    /\ n > 2 /\ ops[n].slot \in Slots
    /\ ops[n - 1].kind = "input" /\ ops[n - 2].kind = "select"
    /\ ops[n - 2].core = ops[n].core
    /\ ops[n].slot = Slot(ops[n].core, ops[n - 2].macro)

Orderly(ops) ==
    /\ Len(ops) \in Nat
    /\ \A n \in 1..Len(ops) :
          /\ ops[n].core \in AllCores
          /\ ops[n].kind \in {"select", "input", "weight"}
          /\ ops[n].kind = "weight" => Selects(ops, n)

\* Operation n of the list belongs to work (n + 2) \div 3.
LEMMA Thirds ==
  ASSUME NEW N \in Nat, NEW n \in 1..3 * N
  PROVE  LET k(i) == (i + 2) \div 3
             j(i) == 1 + ((i + 2) % 3)
         IN /\ k(n) \in 1..N /\ j(n) \in 1..3
            /\ j(n) = 3 => /\ n > 2 /\ k(n - 1) = k(n) /\ k(n - 2) = k(n)
                          /\ j(n - 1) = 2 /\ j(n - 2) = 1
OBVIOUS

\* The operations of a program are the writes of its works, three by three.
LEMMA ProgramOperations ==
  ASSUME NEW exe, WorkKeys(exe) \in Seq(ToSet(WorkKeys(exe))), NEW inputs, NEW mode, NEW ids,
         BoardProgram(exe, inputs, mode, ids).ok
  PROVE  LET works == WorkKeys(exe)  N == Len(works)
             program == BoardProgram(exe, inputs, mode, ids)
             ops == program.operations
         IN /\ N \in Nat /\ Len(ops) = 3 * N /\ program.tracked = (ids # <<>>)
            /\ \A n \in 1..3 * N : (n + 2) \div 3 \in 1..N =>
                 ops[n] = WorkOperations(exe, inputs, mode, ids, works[(n + 2) \div 3])
                            [1 + ((n + 2) % 3)]
            /\ \A k \in 1..N : resolveWorkBindings(exe, works[k])
<1> DEFINE works == WorkKeys(exe)
           program == BoardProgram(exe, inputs, mode, ids)
           writes == <<>> \o [k \in 1..Len(works) |->
                               WorkOperations(exe, inputs, mode, ids, works[k])]
           ops == <<>> \o [n \in 1..3 * Len(works) |->
                            writes[(n + 2) \div 3][1 + ((n + 2) % 3)]]
<1>1. PICK batches : program = AssembledProgram(exe, inputs, mode, ids, works, batches)
  BY Zenon DEF BoardProgram, materializeProgram, Rejected
<1>2. \A k \in ToSet(works) : resolveWorkBindings(exe, k)
  BY <1>1 DEF AssembledProgram, Rejected
<1>3. program.operations = ops /\ program.tracked = (ids # <<>>)
  BY <1>1 DEF AssembledProgram, Rejected, List, Mapped
<1> HIDE DEF program
<1> DEFINE N == Len(works)
           Writes(k) == WorkOperations(exe, inputs, mode, ids, works[k])
<1>4. N \in Nat /\ DOMAIN works = 1..N /\ 3 * N \in Nat
  OBVIOUS
<1> HIDE DEF works
<1>5. writes = [k \in 1..N |-> Writes(k)]
  <2> DEFINE f == [k \in 1..N |-> Writes(k)]
  <2>1. f = [i \in 1..N |-> f[i]]
    OBVIOUS
  <2> HIDE DEF f
  <2>2. <<>> \o f = f
    BY <1>4, <2>1, ListIs
  <2> QED
    BY <2>2 DEF f
<1> DEFINE Operation(n) == writes[(n + 2) \div 3][1 + ((n + 2) % 3)]
<1> HIDE DEF writes
<1>6. ops = [n \in 1..3 * N |-> Operation(n)]
  <2> DEFINE f == [n \in 1..3 * N |-> Operation(n)]
  <2>1. f = [i \in 1..3 * N |-> f[i]]
    OBVIOUS
  <2> HIDE DEF f
  <2>2. <<>> \o f = f
    BY <1>4, <2>1, ListIs
  <2> QED
    BY <2>2 DEF f
<1>7. Len(ops) = 3 * N
  BY <1>4, <1>6
<1> HIDE DEF ops
<1>8. \A n \in 1..3 * N : (n + 2) \div 3 \in 1..N =>
        ops[n] = Writes((n + 2) \div 3)[1 + ((n + 2) % 3)]
  BY <1>5, <1>6
<1>9. \A k \in 1..N : resolveWorkBindings(exe, works[k])
  BY <1>2, <1>4 DEF ToSet
<1> QED
  BY <1>3, <1>4, <1>7, <1>8, <1>9 DEF program, works

\* What is written for a work.
LEMMA WorkIs ==
  ASSUME NEW exe, NEW inputs, NEW mode, NEW ids, NEW k, resolveWorkBindings(exe, k)
  PROVE  LET op == WorkOperations(exe, inputs, mode, ids, k)
         IN /\ \A j \in 1..3 : op[j].core = k.w.core
            /\ op[1].kind = "select" /\ op[2].kind = "input" /\ op[3].kind = "weight"
            /\ op[1].macro = k.w.macro /\ op[3].slot = Slot(k.w.core, k.w.macro)
            /\ k.w.core \in AllCores /\ op[3].slot \in Slots
<1>1. k.w.core \in AllCores /\ k.w.macro \in {0, 1}
  BY DEF resolveWorkBindings
<1>2. Slot(k.w.core, k.w.macro) \in Slots
  BY <1>1, FormAssumption DEF AllCores, Slots, Slot
<1> QED
  BY <1>1, <1>2 DEF WorkOperations

\* What the board runner assembles is orderly.
LEMMA ProgramOrderly ==
  ASSUME NEW exe, WorkKeys(exe) \in Seq(ToSet(WorkKeys(exe))), NEW inputs, NEW mode, NEW ids,
         BoardProgram(exe, inputs, mode, ids).ok
  PROVE  LET program == BoardProgram(exe, inputs, mode, ids)
         IN Orderly(program.operations) /\ program.tracked \in BOOLEAN
<1> DEFINE program == BoardProgram(exe, inputs, mode, ids)
           ops == program.operations
           N == Len(WorkKeys(exe))
           Writes(k) == WorkOperations(exe, inputs, mode, ids, WorkKeys(exe)[k])
<1>1. /\ N \in Nat /\ Len(ops) = 3 * N /\ program.tracked = (ids # <<>>)
      /\ \A n \in 1..3 * N : (n + 2) \div 3 \in 1..N =>
           ops[n] = Writes((n + 2) \div 3)[1 + ((n + 2) % 3)]
      /\ \A k \in 1..N : resolveWorkBindings(exe, WorkKeys(exe)[k])
  BY ProgramOperations
<1>2. ASSUME NEW k \in 1..N
      PROVE  LET op == Writes(k)
             IN /\ \A j \in 1..3 : op[j].core = op[1].core
                /\ op[1].kind = "select" /\ op[2].kind = "input" /\ op[3].kind = "weight"
                /\ op[3].slot = Slot(op[1].core, op[1].macro)
                /\ op[1].core \in AllCores /\ op[3].slot \in Slots
  <2> DEFINE work == WorkKeys(exe)[k]
             op == WorkOperations(exe, inputs, mode, ids, work)
  <2>1. resolveWorkBindings(exe, work)
    BY <1>1
  <2> HIDE DEF work
  <2>2. /\ \A j \in 1..3 : op[j].core = work.w.core
        /\ op[1].kind = "select" /\ op[2].kind = "input" /\ op[3].kind = "weight"
        /\ op[1].macro = work.w.macro /\ op[3].slot = Slot(work.w.core, work.w.macro)
        /\ work.w.core \in AllCores /\ op[3].slot \in Slots
    BY <2>1, WorkIs
  <2>3. op = Writes(k)
    BY DEF work
  <2> HIDE DEF op, Writes
  <2>4. op[1].core = work.w.core
    BY <2>2
  <2> QED
    BY <2>2, <2>3, <2>4
<1> HIDE DEF program, N, Writes
<1>3. ASSUME NEW n \in 1..3 * N
      PROVE  /\ ops[n].core \in AllCores
             /\ ops[n].kind \in {"select", "input", "weight"}
             /\ ops[n].kind = "weight" => Selects(ops, n)
  <2> DEFINE k(i) == (i + 2) \div 3
             j(i) == 1 + ((i + 2) % 3)
  <2>1. /\ k(n) \in 1..N /\ j(n) \in 1..3
        /\ j(n) = 3 => /\ n > 2 /\ k(n - 1) = k(n) /\ k(n - 2) = k(n)
                      /\ j(n - 1) = 2 /\ j(n - 2) = 1
    BY <1>1, Thirds
  <2>2. \A i \in 1..3 * N : k(i) \in 1..N => ops[i] = Writes(k(i))[j(i)]
    BY <1>1
  <2> HIDE DEF k, j, Writes
  <2>3. ops[n] = Writes(k(n))[j(n)]
    BY <2>1, <2>2
  <2>4. CASE j(n) = 3
    <3>1. /\ ops[n] = Writes(k(n))[3] /\ ops[n - 1] = Writes(k(n))[2]
          /\ ops[n - 2] = Writes(k(n))[1] /\ n > 2
      <4>1. n - 1 \in 1..3 * N /\ n - 2 \in 1..3 * N
        BY <1>1, <2>1, <2>4
      <4> QED
        BY <2>1, <2>2, <2>4, <4>1
    <3> QED
      BY <1>2, <2>1, <3>1 DEF Selects
  <2>5. CASE j(n) # 3
    BY <1>2, <2>1, <2>3, <2>5
  <2> QED
    BY <2>4, <2>5
<1> QED
  BY <1>1, <1>3 DEF Orderly, program

\* Every prefix of an orderly program leaves a chip, and a true table true: by
\* the least operation that would not.
LEMMA WrittenRight ==
  ASSUME NEW ch, IsChip(ch), NEW re, IsTable(re), NEW ops, Orderly(ops),
         NEW tracked \in BOOLEAN
  PROVE  LET states == Operated(ch, re, ops, tracked)
         IN \A n \in 0..Len(ops) :
              /\ IsState(states[n])
              /\ Holds(ch, re) => Holds(states[n].chip, states[n].resid)
<1> DEFINE N == Len(ops)
           states == Operated(ch, re, ops, tracked)
           Right(n) == /\ IsState(states[n])
                       /\ Holds(ch, re) => Holds(states[n].chip, states[n].resid)
           Bad == {n \in 0..N : ~Right(n)}
<1>1. /\ N \in Nat /\ states[0] = [chip |-> ch, resid |-> re]
      /\ \A n \in 1..N : states[n] = Operate(states[n - 1], ops[n], tracked)
  <2>1. N \in Nat
    BY DEF Orderly
  <2> QED
    BY <2>1, OperatedFrom
<1> HIDE DEF N, states
<1> SUFFICES ASSUME Bad # {} PROVE FALSE
  BY DEF N, states
<1>2. PICK m \in Bad : \A k \in Bad : m <= k
  <2>1. Bad \subseteq Nat
    OBVIOUS
  <2> HIDE DEF Bad
  <2> QED
    BY <2>1, LeastOf
<1>3. Right(0)
  BY <1>1 DEF IsState
<1>4. /\ m \in 1..N /\ m - 1 \in 0..N
      /\ \A k \in 0..N : k < m => Right(k)
  BY <1>1, <1>2, <1>3
<1> DEFINE before == states[m - 1]
           op == ops[m]
<1>5. Right(m - 1) /\ states[m] = Operate(before, op, tracked)
  BY <1>1, <1>4
<1>6. /\ op.core \in AllCores /\ op.kind \in {"select", "input", "weight"}
      /\ op.kind = "weight" => Selects(ops, m)
  BY <1>4 DEF Orderly, N
<1>7. CASE op.kind = "select"
  <2>1. /\ IsState(states[m])
        /\ states[m].chip.weights = before.chip.weights /\ states[m].resid = before.resid
    BY <1>5, <1>6, <1>7, SelectStep
  <2> QED
    BY <1>2, <1>5, <2>1 DEF Holds
<1>8. CASE op.kind = "input"
  <2>1. /\ IsState(states[m])
        /\ states[m].chip.weights = before.chip.weights /\ states[m].resid = before.resid
    BY <1>5, <1>6, <1>8, InputStep
  <2> QED
    BY <1>2, <1>5, <2>1 DEF Holds
<1>9. CASE op.kind = "weight"
  <2>1. /\ m > 2 /\ op.slot \in Slots /\ ops[m - 1].kind = "input"
        /\ ops[m - 2].kind = "select" /\ ops[m - 2].core = op.core
        /\ op.slot = Slot(op.core, ops[m - 2].macro)
    BY <1>6, <1>9 DEF Selects
  <2>2. /\ m - 2 \in 1..N /\ m - 1 \in 1..N /\ m - 3 \in 0..N
        /\ (m - 2) - 1 = m - 3 /\ (m - 1) - 1 = m - 2 /\ m - 2 \in 0..N
        /\ m - 3 < m /\ m - 2 < m
    BY <1>1, <1>4, <2>1
  <2>3. states[m - 2] = Operate(states[m - 3], ops[m - 2], tracked)
    BY <1>1, <2>2
  <2>4. states[m - 1] = Operate(states[m - 2], ops[m - 1], tracked)
    BY <1>1, <2>2
  <2>5. IsState(states[m - 3]) /\ IsState(states[m - 2])
    BY <1>4, <2>2
  <2>6. states[m - 2].chip.selected[op.core] = ops[m - 2].macro
    BY <1>6, <2>1, <2>3, <2>5, SelectStep
  <2>7. before.chip.selected = states[m - 2].chip.selected
    BY <2>1, <2>4, <2>5, InputStep
  <2>8. op.slot = Slot(op.core, before.chip.selected[op.core])
    BY <2>1, <2>6, <2>7
  <2>9. /\ IsState(states[m])
        /\ Holds(before.chip, before.resid) => Holds(states[m].chip, states[m].resid)
    BY <1>5, <1>6, <1>9, <2>1, <2>8, WeightStep
  <2> QED
    BY <1>2, <1>5, <2>9
<1> QED
  BY <1>6, <1>7, <1>8, <1>9

\* So does a program that is executed whole.
LEMMA ExecuteRight ==
  ASSUME NEW ch, IsChip(ch), NEW re, IsTable(re), NEW program,
         Orderly(program.operations), program.tracked \in BOOLEAN
  PROVE  LET run == Execute(ch, re, program)
         IN /\ IsChip(run.chip) /\ IsTable(run.resid)
            /\ Holds(ch, re) => Holds(run.chip, run.resid)
<1> DEFINE written == Operated(ch, re, program.operations, program.tracked)
                        [Len(program.operations)]
           run == Execute(ch, re, program)
<1>1. /\ IsState(written)
      /\ Holds(ch, re) => Holds(written.chip, written.resid)
  <2>1. Len(program.operations) \in 0..Len(program.operations)
    BY DEF Orderly
  <2> QED
    BY <2>1, WrittenRight
<1> HIDE DEF written
<1>2. PICK cores : ChipWork(written.chip, program.work) = [written.chip EXCEPT !.cache = cores]
  BY DEF ChipWork
<1>3. PICK macros : /\ run.chip = [ChipWork(written.chip, program.work) EXCEPT
                                     !.selected = [c \in AllCores |-> macros[c]]]
                    /\ run.resid = written.resid
  <2> DEFINE worked == ChipWork(written.chip, program.work)
             macros == [c \in AllCores |-> SelectedAfter(worked, program.batches,
                                                          Len(program.batches), c)]
  <2>1. /\ run.chip = [worked EXCEPT !.selected = macros]
        /\ run.resid = written.resid
    BY DEF Execute, written
  <2>2. macros = [c \in AllCores |-> macros[c]]
    OBVIOUS
  <2>3. /\ run.chip = [worked EXCEPT !.selected = [c \in AllCores |-> macros[c]]]
        /\ run.resid = written.resid
    BY <2>1, <2>2, Zenon
  <2> HIDE DEF macros, run
  <2> QED
    BY <2>3
<1>4. IsChip(run.chip) /\ run.chip.weights = written.chip.weights
  <2> HIDE DEF run
  <2> QED
    BY <1>1, <1>2, <1>3 DEF IsState, IsChip
<1> QED
  BY <1>1, <1>3, <1>4 DEF IsState, Holds

\* Nothing resident is true of every chip.
LEMMA NothingHolds ==
  ASSUME NEW ch
  PROVE  IsTable(NothingResident) /\ Holds(ch, NothingResident)
BY DEF IsTable, Holds, NothingResident

-----------------------------------------------------------------------------
(* The software runner: what is resident does not show in the results.     *)

\* Two states of a software run that differ only in what is resident.
IsRun(s) == s = [ok |-> s.ok, macros |-> s.macros, resid |-> s.resid, outs |-> s.outs]

Alike(s, t) ==
  IsRun(s) /\ IsRun(t) /\ s.ok = t.ok /\ s.macros = t.macros /\ s.outs = t.outs

\* Failing, computing and reading keep two runs alike.
LEMMA CacheAlike ==
  ASSUME NEW s, NEW t, Alike(s, t), NEW cell, NEW image, NEW input, NEW mode
  PROVE  Alike(CacheWork(s, cell, image, input, mode), CacheWork(t, cell, image, input, mode))
BY DEF Alike, IsRun, CacheWork

\* A run fails whatever is resident.
LEMMA FailAlike ==
  ASSUME NEW s, NEW t, Alike(s, t)
  PROVE  Alike([s EXCEPT !.ok = FALSE], [t EXCEPT !.ok = FALSE])
<1>1. ASSUME NEW u, IsRun(u), NEW ok
      PROVE  [u EXCEPT !.ok = ok]
               = [ok |-> ok, macros |-> u.macros, resid |-> u.resid, outs |-> u.outs]
  BY <1>1 DEF IsRun
<1> DEFINE failed(u) == [ok |-> FALSE, macros |-> u.macros, resid |-> u.resid, outs |-> u.outs]
<1>2. Alike(failed(s), failed(t))
  BY DEF Alike, IsRun
<1>3. [s EXCEPT !.ok = FALSE] = failed(s) /\ [t EXCEPT !.ok = FALSE] = failed(t)
  BY <1>1 DEF Alike
<1> QED
  BY <1>2, <1>3, Zenon

\* A resident weight computes what its section would.
LEMMA PlaceAlike ==
  ASSUME NEW s, NEW t, Alike(s, t), NEW exe, NEW k, NEW weight, NEW id, NEW input, NEW mode,
         validateWork(exe, k) => id = NoImage \/ id.image = intern(weight)
  PROVE  Alike(PlaceWork(exe, s, k, weight, id, input, mode),
               PlaceWork(exe, t, k, weight, NoImage, input, mode))
<1> DEFINE slot == Slot(k.w.core, k.w.macro)
           cell == <<slot, Find(exe.readbacks, k.key)[1].row>>
           valid == /\ validateWork(exe, k) /\ input.ok
                    /\ weight.dataType = "bf16" => validateBF16Group(weight, input, mode)
           stored == [s EXCEPT !.resid[slot] = id]
<1> HIDE DEF cell, slot
<1>1. CASE ~valid
  <2>1. /\ PlaceWork(exe, s, k, weight, id, input, mode) = [s EXCEPT !.ok = FALSE]
        /\ PlaceWork(exe, t, k, weight, NoImage, input, mode) = [t EXCEPT !.ok = FALSE]
    BY <1>1 DEF PlaceWork
  <2>2. Alike([s EXCEPT !.ok = FALSE], [t EXCEPT !.ok = FALSE])
    BY FailAlike
  <2> QED
    BY <2>1, <2>2
<1>2. CASE valid
  <2>1. PlaceWork(exe, t, k, weight, NoImage, input, mode)
          = CacheWork(t, cell, intern(weight), input, mode)
    BY <1>2 DEF PlaceWork, slot, cell
  <2>2. CASE id = NoImage
    <3>1. PlaceWork(exe, s, k, weight, id, input, mode)
            = CacheWork(s, cell, intern(weight), input, mode)
      BY <1>2, <2>2 DEF PlaceWork, slot, cell
    <3> QED
      BY <2>1, <3>1, CacheAlike
  <2>3. CASE id # NoImage
    <3>1. PlaceWork(exe, s, k, weight, id, input, mode)
            = CacheWork(stored, cell,
                        IF s.resid[slot] = id THEN id.image ELSE intern(weight), input, mode)
      BY <1>2, <2>3 DEF PlaceWork, slot, cell
    <3>2. id.image = intern(weight)
      BY <1>2, <2>3
    <3>3. Alike(stored, t)
      BY DEF Alike, IsRun
    <3> HIDE DEF stored
    <3>4. PlaceWork(exe, s, k, weight, id, input, mode)
            = CacheWork(stored, cell, intern(weight), input, mode)
      BY <3>1, <3>2
    <3> QED
      BY <2>1, <3>3, <3>4, CacheAlike
  <2> QED
    BY <2>2, <2>3
<1> QED
  BY <1>1, <1>2

\* The weight of a work that is valid is a section of the transaction.
LEMMA WeightFound ==
  ASSUME NEW exe, exe.weights \in Seq(ToSet(exe.weights)), NEW k, validateWork(exe, k),
         NEW j, j = BindingOf(exe.weights, k.key)
  PROVE  Images(exe)[j] = intern(exe.weights[j])
<1> DEFINE weights == exe.weights
<1>1. Find(weights, k.key) # <<>>
  BY DEF validateWork
<1>2. \E i \in DOMAIN weights : weights[i].key = k.key
  BY <1>1 DEF Find
<1>3. j \in DOMAIN weights
  BY <1>2 DEF BindingOf
<1>4. Len(weights) \in Nat /\ DOMAIN weights = 1..Len(weights)
  OBVIOUS
<1> DEFINE f == [i \in 1..Len(weights) |-> intern(weights[i])]
<1>5. Images(exe) = <<>> \o f
  BY DEF Images, Mapped, List
<1>6. f = [i \in 1..Len(weights) |-> f[i]] /\ \A i \in 1..Len(weights) : f[i] = intern(weights[i])
  OBVIOUS
<1> HIDE DEF f
<1>7. Images(exe) = f
  BY <1>4, <1>5, <1>6, ListIs
<1> QED
  BY <1>3, <1>4, <1>6, <1>7

\* A work or a readback of two runs that differ only in what is resident.
LEMMA StepAlike ==
  ASSUME NEW exe, exe.weights \in Seq(ToSet(exe.weights)), NEW inputs, NEW mode,
         NEW ids \in {<<>>, Images(exe)}, NEW s, NEW t, Alike(s, t), NEW step
  PROVE  Alike(SoftwareStep(exe, inputs, mode, ids, s, step),
               SoftwareStep(exe, inputs, mode, <<>>, t, step))
<1>1. CASE step.kind # "work"
  <2>1. Alike(ReadOutput(exe, s, step.readback), ReadOutput(exe, t, step.readback))
    BY DEF ReadOutput, Alike, IsRun
  <2> QED
    BY <1>1, <2>1 DEF SoftwareStep
<1>2. CASE step.kind = "work"
  <2> DEFINE k == step.work
             n == BindingOf(exe.inputs, k.key)
             j == BindingOf(exe.weights, k.key)
             input == PreparedInput(exe.inputs[n], inputs[n], mode)
             id == IF ids = <<>> THEN NoImage ELSE Resident(ids[j], mode)
  <2>1. validateWork(exe, k) => id = NoImage \/ id.image = intern(exe.weights[j])
    <3>1. validateWork(exe, k) => Images(exe)[j] = intern(exe.weights[j])
      <4> SUFFICES ASSUME validateWork(exe, k) PROVE Images(exe)[j] = intern(exe.weights[j])
        OBVIOUS
      <4>1. j = BindingOf(exe.weights, k.key)
        OBVIOUS
      <4> HIDE DEF j, k
      <4> QED
        BY <4>1, WeightFound
    <3>2. \A image : Resident(image, mode).image = image
      BY DEF Resident
    <3> HIDE DEF j
    <3> QED
      BY <3>1, <3>2
  <2> DEFINE there == PlaceWork(exe, s, k, exe.weights[j], id, input, mode)
             here == PlaceWork(exe, t, k, exe.weights[j], NoImage, input, mode)
  <2>2. /\ SoftwareStep(exe, inputs, mode, ids, s, step) = IF ~s.ok THEN s ELSE there
        /\ SoftwareStep(exe, inputs, mode, <<>>, t, step) = IF ~t.ok THEN t ELSE here
    BY <1>2 DEF SoftwareStep, ExecuteWork
  <2> HIDE DEF k, n, j, input, id
  <2>3. Alike(there, here)
    BY <2>1, PlaceAlike
  <2> QED
    BY <2>2, <2>3 DEF Alike
<1> QED
  BY <1>1, <1>2

\* The recursion of a software run has a solution.
LEMMA SoftwareFrom ==
  ASSUME NEW exe, NEW steps, NEW inputs, NEW mode, NEW ids, NEW start, Len(steps) \in Nat
  PROVE  LET states == SoftwareStates(exe, steps, inputs, mode, ids, start)
         IN /\ states[0] = start
            /\ \A n \in 1..Len(steps) :
                 states[n] = SoftwareStep(exe, inputs, mode, ids, states[n - 1], steps[n])
<1> DEFINE N == Len(steps)
           Run(g, m) == /\ g = [i \in 0..m |-> g[i]] /\ g[0] = start
                        /\ \A n \in 1..m :
                             g[n] = SoftwareStep(exe, inputs, mode, ids, g[n - 1], steps[n])
           Bad == {m \in 0..N : ~\E g : Run(g, m)}
<1>1. Bad = {}
  <2> SUFFICES ASSUME Bad # {} PROVE FALSE
    OBVIOUS
  <2>1. PICK m \in Bad : \A k \in Bad : m <= k
    <3>1. Bad \subseteq Nat
      OBVIOUS
    <3> HIDE DEF Bad
    <3> QED
      BY <3>1, LeastOf
  <2>2. m # 0
    <3> DEFINE g == [i \in 0..0 |-> start]
    <3>1. Run(g, 0)
      OBVIOUS
    <3> QED
      BY <3>1
  <2>3. m \in 1..N /\ m - 1 \in 0..N /\ m - 1 \notin Bad
    BY <2>1, <2>2
  <2>4. PICK g : Run(g, m - 1)
    BY <2>3
  <2> DEFINE h == [i \in 0..m |->
                     IF i = m THEN SoftwareStep(exe, inputs, mode, ids, g[m - 1], steps[m])
                     ELSE g[i]]
  <2>5. Run(h, m)
    <3>1. h = [i \in 0..m |-> h[i]] /\ h[0] = start
      BY <2>3, <2>4
    <3> HIDE DEF N
    <3>2. ASSUME NEW n \in 1..m
          PROVE  h[n] = SoftwareStep(exe, inputs, mode, ids, h[n - 1], steps[n])
      <4>1. h[n - 1] = g[n - 1]
        <5>1. n - 1 \in 0..m /\ n - 1 # m
          BY <2>3
        <5> QED
          BY <5>1
      <4>2. CASE n = m
        <5>1. h[m] = SoftwareStep(exe, inputs, mode, ids, g[m - 1], steps[m])
          BY <2>3
        <5> QED
          BY <4>1, <4>2, <5>1
      <4>3. CASE n # m
        <5>1. n \in 1..m - 1 /\ h[n] = g[n]
          BY <2>3, <4>3
        <5> QED
          BY <2>4, <4>1, <5>1
      <4> QED
        BY <4>2, <4>3
    <3> QED
      BY <3>1, <3>2
  <2> QED
    BY <2>1, <2>5
<1>2. PICK g : Run(g, N)
  BY <1>1
<1> DEFINE After(f) ==
             [n \in 0..N |->
                IF n = 0 THEN start
                ELSE SoftwareStep(exe, inputs, mode, ids, f[n - 1], steps[n])]
           states == SoftwareStates(exe, steps, inputs, mode, ids, start)
<1>3. states = CHOOSE f : f = After(f)
  BY Zenon DEF SoftwareStates
<1>4. g = After(g)
  BY <1>2
<1> HIDE DEF After, states
<1>5. states = After(states)
  BY <1>3, <1>4, Zenon
<1>6. /\ states[0] = start
      /\ \A n \in 1..N : states[n] = SoftwareStep(exe, inputs, mode, ids, states[n - 1], steps[n])
  BY <1>5 DEF After
<1> QED
  BY <1>6 DEF states

\* What is resident does not show in what a software run computes.
LEMMA SoftwareAlike ==
  ASSUME NEW exe, exe.weights \in Seq(ToSet(exe.weights)), NEW steps, Len(steps) \in Nat,
         NEW inputs, NEW mode, NEW ids \in {<<>>, Images(exe)}, NEW s, NEW t, Alike(s, t)
  PROVE  Alike(SoftwareStates(exe, steps, inputs, mode, ids, s)[Len(steps)],
               SoftwareStates(exe, steps, inputs, mode, <<>>, t)[Len(steps)])
<1> DEFINE N == Len(steps)
           there == SoftwareStates(exe, steps, inputs, mode, ids, s)
           here == SoftwareStates(exe, steps, inputs, mode, <<>>, t)
           Bad == {n \in 0..N : ~Alike(there[n], here[n])}
<1>1. /\ there[0] = s
      /\ \A n \in 1..N : there[n] = SoftwareStep(exe, inputs, mode, ids, there[n - 1], steps[n])
  BY SoftwareFrom
<1>2. /\ here[0] = t
      /\ \A n \in 1..N : here[n] = SoftwareStep(exe, inputs, mode, <<>>, here[n - 1], steps[n])
  BY SoftwareFrom
<1> HIDE DEF there, here
<1> SUFFICES ASSUME Bad # {} PROVE FALSE
  BY DEF there, here
<1>3. PICK m \in Bad : \A k \in Bad : m <= k
  <2>1. Bad \subseteq Nat
    OBVIOUS
  <2> HIDE DEF Bad
  <2> QED
    BY <2>1, LeastOf
<1>4. m # 0
  BY <1>1, <1>2
<1>5. m \in 1..N /\ m - 1 \in 0..N /\ m - 1 \notin Bad
  BY <1>3, <1>4
<1>6. Alike(there[m - 1], here[m - 1])
  BY <1>5
<1> DEFINE step == steps[m]  past == there[m - 1]  present == here[m - 1]
<1>7. /\ there[m] = SoftwareStep(exe, inputs, mode, ids, past, step)
      /\ here[m] = SoftwareStep(exe, inputs, mode, <<>>, present, step)
  BY <1>1, <1>2, <1>5
<1>8. Alike(past, present)
  BY <1>6
<1> HIDE DEF past, present, step
<1>9. Alike(SoftwareStep(exe, inputs, mode, ids, past, step),
            SoftwareStep(exe, inputs, mode, <<>>, present, step))
  BY <1>8, StepAlike
<1>10. Alike(there[m], here[m])
  BY <1>7, <1>9
<1> QED
  BY <1>3, <1>10

-----------------------------------------------------------------------------
(* The programs of the board runner, work by work, and their batches.      *)

\* What a selection, an input and a weight write on the chip.
LEMMA SelectWrites ==
  ASSUME NEW st, IsState(st), NEW op, op.kind = "select", op.core \in AllCores, NEW tracked
  PROVE  LET then == Operate(st, op, tracked).chip
         IN /\ then.types = With(st.chip.types, Slot(op.core, op.macro), op.dataType)
            /\ then.inputs = st.chip.inputs /\ then.cache = st.chip.cache
<1> DEFINE types == With(st.chip.types, Slot(op.core, op.macro), op.dataType)
           then == Operate(st, op, tracked)
<1> HIDE DEF types
<1>1. then = [st EXCEPT !.chip.selected[op.core] = op.macro, !.chip.types = types]
  BY DEF Operate, types
<1>2. then.chip = [st.chip EXCEPT !.selected[op.core] = op.macro, !.types = types]
  BY <1>1 DEF IsState, IsChip
<1> HIDE DEF then
<1>3. then.chip.types = types /\ then.chip.inputs = st.chip.inputs
      /\ then.chip.cache = st.chip.cache
  BY <1>2 DEF IsState, IsChip
<1> QED
  BY <1>3 DEF types, then

\* An input goes to the Macro that is selected.
LEMMA InputWrites ==
  ASSUME NEW st, IsState(st), NEW op, op.kind = "input", NEW tracked
  PROVE  LET then == Operate(st, op, tracked).chip
         IN /\ then.inputs = With(st.chip.inputs, Slot(op.core, st.chip.selected[op.core]),
                                  [row |-> op.row, values |-> op.values])
            /\ then.types = st.chip.types /\ then.cache = st.chip.cache
<1> DEFINE inputs == With(st.chip.inputs, Slot(op.core, st.chip.selected[op.core]),
                          [row |-> op.row, values |-> op.values])
<1> HIDE DEF inputs
<1>1. Operate(st, op, tracked) = [st EXCEPT !.chip.inputs = inputs]
  BY DEF Operate, inputs
<1>2. Operate(st, op, tracked).chip = [st.chip EXCEPT !.inputs = inputs]
  BY <1>1 DEF IsState, IsChip
<1> QED
  BY <1>2 DEF inputs, IsState, IsChip

\* A weight is in the chip afterwards, sent or resident.
LEMMA WeightWrites ==
  ASSUME NEW st, IsState(st), Holds(st.chip, st.resid), NEW op, op.kind = "weight",
         op.core \in AllCores, op.slot \in Slots,
         op.slot = Slot(op.core, st.chip.selected[op.core]),
         Resident(op.image, op.mode) # NoImage, NEW tracked \in BOOLEAN
  PROVE  LET then == Operate(st, op, tracked).chip
         IN /\ then.weights = [st.chip.weights EXCEPT ![op.slot] = op.image]
            /\ then.inputs = st.chip.inputs /\ then.types = st.chip.types
            /\ then.cache = st.chip.cache
<1> DEFINE slot == op.slot
           hit == tracked /\ st.resid[slot] = Resident(op.image, op.mode)
           then == Operate(st, op, tracked)
           image == IF hit THEN st.chip.weights[slot] ELSE op.image
           table == IF tracked
                    THEN [st.resid EXCEPT ![slot] = Resident(op.image, op.mode)]
                    ELSE NothingResident
<1>1. then = [st EXCEPT !.chip.weights[slot] = image, !.resid = table]
  BY DEF Operate, IsState
<1>2. image = op.image
  BY DEF Holds, Resident
<1> HIDE DEF image, table, then
<1>3. then.chip = [st.chip EXCEPT !.weights[slot] = image]
  BY <1>1 DEF IsState, IsChip
<1>4. /\ then.chip.weights = [st.chip.weights EXCEPT ![slot] = image]
      /\ then.chip.inputs = st.chip.inputs /\ then.chip.types = st.chip.types
      /\ then.chip.cache = st.chip.cache
  BY <1>3 DEF IsState, IsChip
<1> QED
  BY <1>2, <1>4 DEF then

\* The three operations of one work: its Macro is selected, and gets its input
\* and its weight.
OneWork(a, b, c) ==
  /\ a.kind = "select" /\ b.kind = "input" /\ c.kind = "weight"
  /\ a.core \in AllCores /\ b.core = a.core /\ c.core = a.core
  /\ c.slot \in Slots /\ c.slot = Slot(a.core, a.macro)
  /\ Resident(c.image, c.mode) # NoImage

ByWorks(ops, N) ==
  /\ N \in Nat /\ Len(ops) = 3 * N
  /\ \A k \in 1..N : OneWork(ops[3 * k - 2], ops[3 * k - 1], ops[3 * k])

\* What a work leaves on the chip, whatever was resident.
WorkLeaves(ch, then, a, b, c) ==
  /\ then.inputs = With(ch.inputs, c.slot, [row |-> b.row, values |-> b.values])
  /\ then.types = With(ch.types, c.slot, a.dataType)
  /\ then.weights = [ch.weights EXCEPT ![c.slot] = c.image]
  /\ then.cache = ch.cache

\* The operations of a work leave it in its Macro.
LEMMA WorkWrites ==
  ASSUME NEW st, IsState(st), Holds(st.chip, st.resid), NEW a, NEW b, NEW c, OneWork(a, b, c),
         NEW tracked \in BOOLEAN,
         NEW s1, s1 = Operate(st, a, tracked), NEW s2, s2 = Operate(s1, b, tracked),
         NEW s3, s3 = Operate(s2, c, tracked)
  PROVE  WorkLeaves(st.chip, s3.chip, a, b, c)
<1>1. /\ IsState(s1) /\ s1.chip.selected[a.core] = a.macro
      /\ s1.chip.weights = st.chip.weights /\ s1.resid = st.resid
  BY SelectStep DEF OneWork
<1>2. /\ s1.chip.types = With(st.chip.types, Slot(a.core, a.macro), a.dataType)
      /\ s1.chip.inputs = st.chip.inputs /\ s1.chip.cache = st.chip.cache
  BY SelectWrites DEF OneWork
<1>3. /\ IsState(s2) /\ s2.chip.selected = s1.chip.selected
      /\ s2.chip.weights = s1.chip.weights /\ s2.resid = s1.resid
  BY <1>1, InputStep DEF OneWork
<1>4. /\ s2.chip.inputs = With(s1.chip.inputs, Slot(b.core, s1.chip.selected[b.core]),
                               [row |-> b.row, values |-> b.values])
      /\ s2.chip.types = s1.chip.types /\ s2.chip.cache = s1.chip.cache
  BY <1>1, InputWrites DEF OneWork
<1>5. Holds(s2.chip, s2.resid)
  BY <1>1, <1>3 DEF Holds
<1>6. /\ c.kind = "weight" /\ c.core \in AllCores /\ c.slot \in Slots
      /\ c.slot = Slot(c.core, s2.chip.selected[c.core])
      /\ Resident(c.image, c.mode) # NoImage
  BY <1>1, <1>3 DEF OneWork
<1>7. /\ s3.chip.weights = [s2.chip.weights EXCEPT ![c.slot] = c.image]
      /\ s3.chip.inputs = s2.chip.inputs /\ s3.chip.types = s2.chip.types
      /\ s3.chip.cache = s2.chip.cache
  BY <1>3, <1>5, <1>6, WeightWrites
<1>8. b.core = a.core /\ c.slot = Slot(a.core, a.macro)
  BY DEF OneWork
<1> QED
  BY <1>1, <1>2, <1>3, <1>4, <1>7, <1>8 DEF WorkLeaves

\* Every target of the batches is on a Core its batch selects, and each output
\* is the target of one batch.
Serves(batches, outs) ==
  /\ Len(batches) \in Nat /\ DOMAIN batches = 1..Len(batches)
  /\ \A n \in DOMAIN batches : \A t \in batches[n].targets :
       t.out \in outs /\ batches[n].select \cap {"all", ToString(t.core)} # {}
  /\ \A n, m \in DOMAIN batches : \A t \in batches[n].targets : \A u \in batches[m].targets :
       t.out = u.out => n = m /\ t = u

\* The batch of a Macro selects it on the Core of every target.
LEMMA BatchServes ==
  ASSUME NEW exe, NEW macro
  PROVE  LET batch == ReadbackBatch(exe, macro)
         IN /\ \A t \in batch.targets :
                 /\ t.out \in DOMAIN exe.readbacks /\ exe.readbacks[t.out].macro = macro
                 /\ batch.select \cap {"all", ToString(t.core)} # {}
            /\ \A t, u \in batch.targets : t.out = u.out => t = u
<1> DEFINE mine == {i \in DOMAIN exe.readbacks : exe.readbacks[i].macro = macro}
           CoreOf(i) == WorkOf(exe, exe.readbacks[i])[1].w.core
           Target(i) == [out |-> i, core |-> CoreOf(i), row |-> exe.readbacks[i].row]
           batch == ReadbackBatch(exe, macro)
<1>1. /\ batch.targets = {Target(i) : i \in mine}
      /\ batch.select = {"all"} \/ batch.select = {ToString(c) : c \in {CoreOf(i) : i \in mine}}
  BY DEF ReadbackBatch
<1> HIDE DEF batch, CoreOf
<1>2. ASSUME NEW t \in batch.targets
      PROVE  \E i \in mine : t = Target(i)
  BY <1>1, <1>2
<1>3. ASSUME NEW t \in batch.targets
      PROVE  batch.select \cap {"all", ToString(t.core)} # {}
  <2>1. PICK i \in mine : t = Target(i)
    BY <1>2, <1>3
  <2>2. t.core = CoreOf(i)
    BY <2>1
  <2> QED
    BY <1>1, <2>1, <2>2
<1>4. ASSUME NEW t \in batch.targets, NEW u \in batch.targets, t.out = u.out
      PROVE  t = u
  BY <1>2, <1>4
<1> QED
  BY <1>2, <1>3, <1>4 DEF batch

\* The batches of a program serve its readbacks.
LEMMA ProgramServes ==
  ASSUME NEW exe, NEW inputs, NEW mode, NEW ids, BoardProgram(exe, inputs, mode, ids).ok
  PROVE  Serves(BoardProgram(exe, inputs, mode, ids).batches, DOMAIN exe.readbacks)
<1> DEFINE b0 == ReadbackBatch(exe, 0)  b1 == ReadbackBatch(exe, 1)
           program == BoardProgram(exe, inputs, mode, ids)
           Batch(b) == IF b.targets = {} THEN <<>> ELSE <<b>>
           batches == Batch(b0) \o Batch(b1)
<1>1. program = AssembledProgram(exe, inputs, mode, ids, WorkKeys(exe), batches)
  BY Zenon DEF BoardProgram, materializeProgram, Rejected
<1> HIDE DEF program, b0, b1
<1>3. batches \in {<<>>, <<b0>>, <<b1>>, <<b0, b1>>}
  <2>1. ASSUME NEW b, NEW c
        PROVE  <<b>> \o <<>> = <<b>> /\ <<>> \o <<b>> = <<b>> /\ <<b>> \o <<c>> = <<b, c>>
    <3> DEFINE both == <<b>> \o <<c>>
    <3>1. <<b>> \in Seq({b, c}) /\ <<c>> \in Seq({b, c})
      OBVIOUS
    <3>2. both \in Seq({b, c}) /\ Len(both) = 2 /\ both[1] = b /\ both[2] = c
      BY <3>1
    <3>3. <<b>> \o <<>> = <<b>> /\ <<>> \o <<b>> = <<b>>
      BY <3>1
    <3> HIDE DEF both
    <3>4. both = <<b, c>>
      BY <3>2
    <3> QED
      BY <3>3, <3>4 DEF both
  <2>2. <<>> \o <<>> = <<>>
    OBVIOUS
  <2> QED
    BY <2>1, <2>2
<1> HIDE DEF batches
<1>2. program.batches = batches
  <2>1. program.ok
    BY DEF program
  <2> QED
    BY <1>1, <2>1 DEF AssembledProgram, Rejected
<1>4. /\ \A t \in b0.targets :
           /\ t.out \in DOMAIN exe.readbacks /\ exe.readbacks[t.out].macro = 0
           /\ b0.select \cap {"all", ToString(t.core)} # {}
      /\ \A t, u \in b0.targets : t.out = u.out => t = u
  BY BatchServes DEF b0
<1>5. /\ \A t \in b1.targets :
           /\ t.out \in DOMAIN exe.readbacks /\ exe.readbacks[t.out].macro = 1
           /\ b1.select \cap {"all", ToString(t.core)} # {}
      /\ \A t, u \in b1.targets : t.out = u.out => t = u
  BY BatchServes DEF b1
<1>6. /\ Len(batches) \in Nat /\ DOMAIN batches = 1..Len(batches)
      /\ \A n \in DOMAIN batches : batches[n] \in {b0, b1}
      /\ \A n, m \in DOMAIN batches : n # m => {batches[n], batches[m]} = {b0, b1}
  <2>1. \A b : Len(<<b>>) = 1 /\ <<b>>[1] = b
    OBVIOUS
  <2>2. \A b, c : Len(<<b, c>>) = 2 /\ <<b, c>>[1] = b /\ <<b, c>>[2] = c
    OBVIOUS
  <2> QED
    BY <1>3, <2>1, <2>2
<1>7. ASSUME NEW n \in DOMAIN batches, NEW m \in DOMAIN batches,
             NEW t \in batches[n].targets, NEW u \in batches[m].targets, t.out = u.out
      PROVE  n = m /\ t = u
  <2>1. n = m
    <3> SUFFICES ASSUME n # m PROVE FALSE
      OBVIOUS
    <3> DEFINE x == batches[n]  y == batches[m]
    <3>1. {x, y} = {b0, b1}
      BY <1>6
    <3> HIDE DEF x, y
    <3>2. (x = b0 /\ y = b1) \/ (x = b1 /\ y = b0)
      BY ONLY <3>1
    <3>3. \/ batches[n] = b0 /\ batches[m] = b1
          \/ batches[n] = b1 /\ batches[m] = b0
      BY <3>2 DEF x, y
    <3> QED
      BY <1>4, <1>5, <1>7, <3>3
  <2> QED
    BY <1>4, <1>5, <1>6, <1>7, <2>1
<1>8. ASSUME NEW n \in DOMAIN batches, NEW t \in batches[n].targets
      PROVE  t.out \in DOMAIN exe.readbacks /\ batches[n].select \cap {"all", ToString(t.core)} # {}
  BY <1>4, <1>5, <1>6, <1>8
<1> QED
  BY <1>2, <1>6, <1>7, <1>8 DEF Serves, program

\* A section of a transaction is no empty image.
LEMMA ImageWritten ==
  ASSUME NEW exe, exe.weights \in Seq(ToSet(exe.weights)),
         \A i \in DOMAIN exe.weights : exe.weights[i].dataType # "none",
         NEW inputs, NEW mode, NEW ids \in {<<>>, Images(exe)}, NEW k, resolveWorkBindings(exe, k)
  PROVE  LET c == WorkOperations(exe, inputs, mode, ids, k)[3]
         IN Resident(c.image, c.mode) # NoImage
<1> DEFINE weights == exe.weights
           j == BindingOf(weights, k.key)
           c == WorkOperations(exe, inputs, mode, ids, k)[3]
<1>1. Find(weights, k.key) # <<>>
  BY DEF resolveWorkBindings
<1>2. \E i \in DOMAIN weights : weights[i].key = k.key
  BY <1>1 DEF Find
<1>3. j \in DOMAIN weights
  BY <1>2 DEF BindingOf
<1>4. Images(exe)[j] = intern(weights[j])
  <2>1. Images(exe) = <<>> \o [i \in 1..Len(weights) |-> intern(weights[i])]
    BY DEF Images, Mapped, List
  <2> DEFINE f == [i \in 1..Len(weights) |-> intern(weights[i])]
  <2>2. Len(weights) \in Nat /\ DOMAIN weights = 1..Len(weights)
    OBVIOUS
  <2>3. f = [i \in 1..Len(weights) |-> f[i]] /\ \A i \in 1..Len(weights) : f[i] = intern(weights[i])
    OBVIOUS
  <2> HIDE DEF f, j
  <2>4. <<>> \o f = f
    BY <2>2, <2>3, ListIs
  <2> QED
    BY <1>3, <2>1, <2>2, <2>3, <2>4 DEF f
<1>5. c.image = IF ids = <<>> THEN intern(weights[j]) ELSE ids[j]
  BY DEF WorkOperations
<1> HIDE DEF j, c
<1>6. c.image = intern(weights[j])
  BY <1>4, <1>5
<1>7. c.image.dataType # "none"
  BY <1>3, <1>6 DEF intern
<1> QED
  BY <1>7 DEF Resident, NoImage, c

\* What the board runner assembles is written work by work.
LEMMA ProgramByWorks ==
  ASSUME NEW exe, WorkKeys(exe) \in Seq(ToSet(WorkKeys(exe))),
         exe.weights \in Seq(ToSet(exe.weights)),
         \A i \in DOMAIN exe.weights : exe.weights[i].dataType # "none",
         NEW inputs, NEW mode, NEW ids \in {<<>>, Images(exe)},
         BoardProgram(exe, inputs, mode, ids).ok
  PROVE  ByWorks(BoardProgram(exe, inputs, mode, ids).operations, Len(WorkKeys(exe)))
<1> DEFINE program == BoardProgram(exe, inputs, mode, ids)
           ops == program.operations
           N == Len(WorkKeys(exe))
           Writes(k) == WorkOperations(exe, inputs, mode, ids, WorkKeys(exe)[k])
<1>1. /\ N \in Nat /\ Len(ops) = 3 * N
      /\ \A n \in 1..3 * N : (n + 2) \div 3 \in 1..N =>
           ops[n] = Writes((n + 2) \div 3)[1 + ((n + 2) % 3)]
      /\ \A k \in 1..N : resolveWorkBindings(exe, WorkKeys(exe)[k])
  <2>1. WorkKeys(exe) \in Seq(ToSet(WorkKeys(exe))) /\ BoardProgram(exe, inputs, mode, ids).ok
    OBVIOUS
  <2> QED
    BY ONLY <2>1, ProgramOperations
<1>2. ASSUME NEW k \in 1..N
      PROVE  OneWork(Writes(k)[1], Writes(k)[2], Writes(k)[3])
  <2> DEFINE work == WorkKeys(exe)[k]
             op == WorkOperations(exe, inputs, mode, ids, work)
  <2>1. resolveWorkBindings(exe, work)
    BY <1>1
  <2> HIDE DEF work
  <2>2. /\ \A j \in 1..3 : op[j].core = work.w.core
        /\ op[1].kind = "select" /\ op[2].kind = "input" /\ op[3].kind = "weight"
        /\ op[1].macro = work.w.macro /\ op[3].slot = Slot(work.w.core, work.w.macro)
        /\ work.w.core \in AllCores /\ op[3].slot \in Slots
    BY <2>1, WorkIs
  <2>3. Resident(op[3].image, op[3].mode) # NoImage
    BY <2>1, ImageWritten
  <2>4. op = Writes(k)
    BY DEF work
  <2> HIDE DEF op, Writes
  <2>5. op[1].core = work.w.core /\ op[2].core = work.w.core /\ op[3].core = work.w.core
    BY <2>2
  <2>6. OneWork(op[1], op[2], op[3])
    BY <2>2, <2>3, <2>5 DEF OneWork
  <2> QED
    BY <2>4, <2>6
<1> HIDE DEF program, N, Writes
<1>3. ASSUME NEW k \in 1..N
      PROVE  /\ ops[3 * k - 2] = Writes(k)[1] /\ ops[3 * k - 1] = Writes(k)[2]
             /\ ops[3 * k] = Writes(k)[3]
  <2>1. /\ 3 * k - 2 \in 1..3 * N /\ ((3 * k - 2) + 2) \div 3 = k /\ 1 + (((3 * k - 2) + 2) % 3) = 1
        /\ 3 * k - 1 \in 1..3 * N /\ ((3 * k - 1) + 2) \div 3 = k /\ 1 + (((3 * k - 1) + 2) % 3) = 2
        /\ 3 * k \in 1..3 * N /\ (3 * k + 2) \div 3 = k /\ 1 + ((3 * k + 2) % 3) = 3
    BY <1>1
  <2> QED
    BY <1>1, <2>1
<1> QED
  BY <1>1, <1>2, <1>3 DEF ByWorks, program, N

-----------------------------------------------------------------------------
(* Executables of the shape the compiler gives: what a work is bound to.   *)

\* The sections a work is bound to.
InputFor(exe, k) == exe.inputs[BindingOf(exe.inputs, k.key)]
WeightFor(exe, k) == exe.weights[BindingOf(exe.weights, k.key)]
ReadbackFor(exe, k) == exe.readbacks[BindingOf(exe.readbacks, k.key)]
Bound(exe, k) ==
  /\ BindingOf(exe.inputs, k.key) \in DOMAIN exe.inputs
  /\ BindingOf(exe.weights, k.key) \in DOMAIN exe.weights
  /\ BindingOf(exe.readbacks, k.key) \in DOMAIN exe.readbacks
  /\ InputFor(exe, k).key = k.key /\ WeightFor(exe, k).key = k.key
  /\ ReadbackFor(exe, k).key = k.key
  /\ Find(exe.weights, k.key) = <<WeightFor(exe, k)>>
  /\ Find(exe.readbacks, k.key) = <<ReadbackFor(exe, k)>>
  /\ InputFor(exe, k).dataType = WeightFor(exe, k).dataType
  /\ ReadbackFor(exe, k).dataType = WeightFor(exe, k).dataType
  /\ WeightFor(exe, k).dataType \in {"i8", "bf16"}
  /\ k.w.core \in AllCores /\ k.w.macro \in {0, 1}

\* The works and the groups of an executable of the compiler.
LEMMA WellListed ==
  ASSUME NEW exe, WellFormed(exe)
  PROVE  /\ HasGroups(exe.groups) /\ HasNumbers(exe.groups)
         /\ WorkKeys(exe) \in Seq(ToSet(WorkKeys(exe)))
         /\ ToSet(WorkKeys(exe)) = WorksOf(exe.groups)
         /\ exe.weights \in Seq(ToSet(exe.weights))
         /\ exe.readbacks \in Seq(ToSet(exe.readbacks))
         /\ \A i \in DOMAIN exe.weights : exe.weights[i].dataType \in {"i8", "bf16"}
<1>1. HasGroups(exe.groups)
  BY DEF WellFormed, IsList, HasGroups
<1>2. HasNumbers(exe.groups)
  BY DEF WellFormed, HasNumbers
<1>3. /\ WorkKeys(exe) \in Seq(WorksOf(exe.groups))
      /\ ToSet(WorkKeys(exe)) = WorksOf(exe.groups)
  BY <1>1, WorkKeysOf
<1>4. exe.weights \in Seq(ToSet(exe.weights)) /\ exe.readbacks \in Seq(ToSet(exe.readbacks))
  BY DEF WellFormed, Keyed, IsList
<1>5. \A i \in DOMAIN exe.weights : exe.weights[i] \in ToSet(exe.weights)
  BY <1>4, Listed
<1>6. \A weight \in ToSet(exe.weights) : weight.dataType \in {"i8", "bf16"}
  BY DEF WellFormed
<1> QED
  BY <1>1, <1>2, <1>3, <1>4, <1>5, <1>6

\* A work that validates is bound once to an input, a weight and a readback.
LEMMA WorkBound ==
  ASSUME NEW exe, WellFormed(exe), NEW k \in ToSet(WorkKeys(exe))
  PROVE  Bound(exe, k)
<1>1. validateWork(exe, k) /\ Keyed(exe.inputs) /\ Keyed(exe.weights) /\ Keyed(exe.readbacks)
  BY DEF WellFormed
<1>2. LET i == Find(exe.inputs, k.key)  w == Find(exe.weights, k.key)
          r == Find(exe.readbacks, k.key)
      IN /\ i # <<>> /\ w # <<>> /\ r # <<>> /\ k.w.core \in 0..Cores - 1 /\ k.w.macro \in {0, 1}
         /\ {i[1].dataType, r[1].dataType} = {w[1].dataType}
  BY <1>1, Zenon DEF validateWork
<1>3. LET n == BindingOf(exe.inputs, k.key)
      IN /\ n \in DOMAIN exe.inputs /\ exe.inputs[n].key = k.key
         /\ Find(exe.inputs, k.key) = <<exe.inputs[n]>>
  BY <1>1, <1>2, FindOf
<1>4. LET n == BindingOf(exe.weights, k.key)
      IN /\ n \in DOMAIN exe.weights /\ exe.weights[n].key = k.key
         /\ Find(exe.weights, k.key) = <<exe.weights[n]>>
  BY <1>1, <1>2, FindOf
<1>5. LET n == BindingOf(exe.readbacks, k.key)
      IN /\ n \in DOMAIN exe.readbacks /\ exe.readbacks[n].key = k.key
         /\ Find(exe.readbacks, k.key) = <<exe.readbacks[n]>>
  BY <1>1, <1>2, FindOf
<1> DEFINE a == InputFor(exe, k)  b == WeightFor(exe, k)  c == ReadbackFor(exe, k)
<1>6. /\ Find(exe.inputs, k.key) = <<a>> /\ Find(exe.weights, k.key) = <<b>>
      /\ Find(exe.readbacks, k.key) = <<c>>
  BY <1>3, <1>4, <1>5 DEF InputFor, WeightFor, ReadbackFor
<1>7. b.dataType \in {"i8", "bf16"}
  BY <1>4, WellListed DEF WeightFor
<1> HIDE DEF a, b, c
<1>8. {a.dataType, c.dataType} = {b.dataType}
  BY <1>2, <1>6
<1>9. a.dataType = b.dataType /\ c.dataType = b.dataType
  BY <1>8
<1>10. /\ a.key = k.key /\ b.key = k.key /\ c.key = k.key
  BY <1>3, <1>4, <1>5 DEF a, b, c, InputFor, WeightFor, ReadbackFor
<1> QED
  BY <1>2, <1>3, <1>4, <1>5, <1>6, <1>7, <1>9, <1>10 DEF Bound, AllCores, a, b, c

\* The work a readback belongs to.
LEMMA WorkOfReadback ==
  ASSUME NEW exe, WellFormed(exe), NEW i \in DOMAIN exe.readbacks
  PROVE  LET r == exe.readbacks[i]  k == WorkOf(exe, r)[1]
         IN /\ WorkOf(exe, r) # <<>> /\ k \in ToSet(WorkKeys(exe)) /\ k.key = r.key
            /\ k.w.macro = r.macro /\ BindingOf(exe.readbacks, k.key) = i
            /\ ReadbackFor(exe, k) = r /\ r.row = InputFor(exe, k).row
            /\ hasReadbackSequence(exe, r) /\ ReadbackPlaced(exe, r)
            /\ \A l \in ToSet(WorkKeys(exe)) : l.key = r.key => l = k
<1> DEFINE r == exe.readbacks[i]  works == WorkKeys(exe)  k == WorkOf(exe, r)[1]
           hits == {n \in DOMAIN works : works[n].key = r.key}
<1>1. r \in ToSet(exe.readbacks)
  BY WellListed, Listed
<1>2. /\ hasReadbackSequence(exe, r) /\ ReadbackPlaced(exe, r)
      /\ r.row = exe.inputs[BindingOf(exe.inputs, r.key)].row
      /\ Keyed(exe.readbacks)
      /\ \A a, b \in ToSet(works) : a.key = b.key => a = b
  BY <1>1 DEF WellFormed
<1>3. WorkOf(exe, r) # <<>> /\ WorkOf(exe, r)[1].w.macro = r.macro
  BY <1>2 DEF ReadbackPlaced
<1>4. WorkOf(exe, r) = IF hits = {} THEN <<>> ELSE <<works[Min(hits)]>>
  BY DEF WorkOf, Find
<1>5. /\ DOMAIN works = 1..Len(works) /\ Len(works) \in Nat
      /\ ToSet(works) = {works[n] : n \in 1..Len(works)}
  BY WellListed, Listed
<1>6. hits # {} /\ hits \subseteq Nat
  BY <1>3, <1>4, <1>5
<1>7. PICK m \in hits : \A n \in hits : m <= n
  <2> HIDE DEF hits
  <2> QED
    BY <1>6, LeastOf
<1>8. Min(hits) \in hits
  <2>1. Min(hits) = CHOOSE x \in hits : \A y \in hits : x =< y
    BY DEF Min
  <2> HIDE DEF hits
  <2> QED
    BY <1>7, <2>1
<1>9. k = works[Min(hits)] /\ works[Min(hits)].key = r.key /\ Min(hits) \in 1..Len(works)
  <2>1. works[Min(hits)].key = r.key /\ Min(hits) \in DOMAIN works
    BY <1>8, Zenon
  <2>2. Min(hits) \in 1..Len(works)
    BY <1>5, <2>1, Zenon
  <2> DEFINE first == works[Min(hits)]
  <2> HIDE DEF hits, works, r
  <2>3. WorkOf(exe, r) = <<first>>
    BY <1>3, <1>4, Zenon
  <2> HIDE DEF first
  <2>4. <<first>>[1] = first
    OBVIOUS
  <2>5. k = first
    BY <2>3, <2>4, Zenon
  <2> QED
    BY <2>1, <2>2, <2>5, Zenon DEF first
<1> HIDE DEF k, works, hits
<1>10. k \in ToSet(works) /\ k.key = r.key
  BY <1>5, <1>9
<1>11. BindingOf(exe.readbacks, k.key) = i
  BY <1>2, <1>10, FoundIs
<1> QED
  BY <1>2, <1>3, <1>10, <1>11 DEF ReadbackFor, InputFor, k, works

\* So does the readback of a work.
LEMMA ReadbackOfWork ==
  ASSUME NEW exe, WellFormed(exe), NEW k \in ToSet(WorkKeys(exe))
  PROVE  /\ ReadbackFor(exe, k).macro = k.w.macro
         /\ ReadbackFor(exe, k).row = InputFor(exe, k).row
         /\ WorkOf(exe, ReadbackFor(exe, k))[1] = k
<1>1. /\ BindingOf(exe.readbacks, k.key) \in DOMAIN exe.readbacks
      /\ ReadbackFor(exe, k).key = k.key
  BY WorkBound DEF Bound
<1> DEFINE i == BindingOf(exe.readbacks, k.key)
<1>2. exe.readbacks[i] = ReadbackFor(exe, k)
  BY DEF ReadbackFor
<1> HIDE DEF i
<1>3. i \in DOMAIN exe.readbacks
  BY <1>1 DEF i
<1> QED
  BY <1>1, <1>2, <1>3, WorkOfReadback

\* Readbacks are of the two Macros.
LEMMA WellRead ==
  ASSUME NEW exe, WellFormed(exe)
  PROVE  HasReadbacks(exe.readbacks)
<1>1. ASSUME NEW i \in DOMAIN exe.readbacks PROVE exe.readbacks[i].macro \in {0, 1}
  <2> DEFINE k == WorkOf(exe, exe.readbacks[i])[1]
  <2>1. k \in ToSet(WorkKeys(exe)) /\ k.w.macro = exe.readbacks[i].macro
    BY WorkOfReadback
  <2>2. k.w.macro \in {0, 1}
    BY <2>1, WorkBound DEF Bound
  <2> QED
    BY <2>1, <2>2
<1> QED
  BY <1>1, WellListed DEF HasReadbacks

-----------------------------------------------------------------------------
(* What a transaction computes, and that the software runner computes it.  *)

\* The input of a work, its output, and the cell of the output cache it is put in.
InputValue(exe, inputs, mode, k) ==
  PreparedInput(InputFor(exe, k), inputs[BindingOf(exe.inputs, k.key)], mode)
Value(exe, inputs, mode, k) ==
  MacroOutput(WeightFor(exe, k).values, WeightFor(exe, k).exponents, WeightFor(exe, k).dataType,
              InputValue(exe, inputs, mode, k), mode, FALSE)
WorkSlot(k) == Slot(k.w.core, k.w.macro)
CellOf(exe, k) == <<WorkSlot(k), ReadbackFor(exe, k).row>>
\* The work of a readback.
WorkAt(exe, i) == WorkOf(exe, exe.readbacks[i])[1]
\* Inputs the board runner does not refuse.
Accepted(exe, inputs, mode) ==
  /\ Len(inputs) = Len(exe.inputs)
  /\ \A k \in ToSet(WorkKeys(exe)) :
       /\ InputValue(exe, inputs, mode, k).ok
       /\ WeightFor(exe, k).dataType = "bf16"
          => validateBF16Group(WeightFor(exe, k), InputValue(exe, inputs, mode, k), mode)
SlotsApart(exe) ==
  \A k, l \in ToSet(WorkKeys(exe)) : WorkSlot(k) = WorkSlot(l) => k = l
\* The results of a transaction.
Outputs(exe, inputs, mode) ==
  <<>> \o [i \in 1..Len(exe.readbacks) |-> Value(exe, inputs, mode, WorkAt(exe, i))]

\* An accepted work leaves no partial sum outside an i21.
LEMMA NoneOutOfRange ==
  ASSUME NEW exe, WellFormed(exe), NEW inputs, NEW mode, InRange(exe, inputs, mode),
         Accepted(exe, inputs, mode), NEW k \in ToSet(WorkKeys(exe))
  PROVE  ~OutOfRange(WeightFor(exe, k).values, WeightFor(exe, k).dataType,
                     InputValue(exe, inputs, mode, k), mode)
<1> DEFINE weight == WeightFor(exe, k)  input == InputValue(exe, inputs, mode, k)
<1>1. /\ weight.values \in ByteLists(Outs * Lanes) /\ input.mantissas \in ByteLists(Lanes)
      /\ \/ weight.dataType = "bf16" /\ mode \in {"legacy", "sign-split"}
         \/ \A r \in 1..Outs : IsFit(Acc, DotLane(Lane(weight.values, r), input.mantissas))
  BY DEF InRange, WeightFor, InputValue, InputFor
<1>2. weight.dataType = "bf16" => validateBF16Group(weight, input, mode)
  BY DEF Accepted
<1> HIDE DEF weight, input
<1>3. \A r \in 1..Outs : IsFit(Acc, DotLane(Lane(weight.values, r), input.mantissas))
  BY <1>1, <1>2, AcceptedGroupFits
<1>4. ~OutOfRange(weight.values, weight.dataType, input, mode)
  BY <1>3 DEF OutOfRange
<1> QED
  BY <1>4 DEF weight, input

\* The step of a work puts its output in its cell.
LEMMA WorkStepIs ==
  ASSUME NEW exe, WellFormed(exe), NEW inputs, NEW mode, InRange(exe, inputs, mode),
         Accepted(exe, inputs, mode), NEW k \in ToSet(WorkKeys(exe)), NEW s, s.ok
  PROVE  SoftwareStep(exe, inputs, mode, <<>>, s, WorkStep(k)) =
           [s EXCEPT !.macros = With(@, CellOf(exe, k), Value(exe, inputs, mode, k))]
<1> DEFINE weight == WeightFor(exe, k)  input == InputValue(exe, inputs, mode, k)
           cell == CellOf(exe, k)
<1>1. SoftwareStep(exe, inputs, mode, <<>>, s, WorkStep(k)) =
        ExecuteWork(exe, inputs, mode, <<>>, s, k)
  BY StepKinds DEF SoftwareStep
<1>2. ExecuteWork(exe, inputs, mode, <<>>, s, k) =
        PlaceWork(exe, s, k, weight, NoImage, input, mode)
  BY DEF ExecuteWork, WeightFor, InputValue, InputFor
<1>3. validateWork(exe, k)
  BY DEF WellFormed
<1>4. input.ok /\ (weight.dataType = "bf16" => validateBF16Group(weight, input, mode))
  BY DEF Accepted
<1>5. <<Slot(k.w.core, k.w.macro), Find(exe.readbacks, k.key)[1].row>> = cell
  <2>1. Find(exe.readbacks, k.key) = <<ReadbackFor(exe, k)>>
    BY WorkBound DEF Bound
  <2>2. Find(exe.readbacks, k.key)[1] = ReadbackFor(exe, k)
    BY <2>1
  <2> QED
    BY <2>2 DEF CellOf, WorkSlot
<1>6. ~OutOfRange(weight.values, weight.dataType, input, mode)
  BY NoneOutOfRange
<1>7. Value(exe, inputs, mode, k) =
        MacroOutput(weight.values, weight.exponents, weight.dataType, input, mode, FALSE)
  BY DEF Value
<1> HIDE DEF weight, input, cell
<1>8. PlaceWork(exe, s, k, weight, NoImage, input, mode) =
        CacheWork(s, cell, intern(weight), input, mode)
  BY <1>3, <1>4, <1>5, Zenon DEF PlaceWork
<1>9. /\ intern(weight).words = weight.values /\ intern(weight).dataType = weight.dataType
      /\ intern(weight).exponents = weight.exponents
  BY DEF intern
<1>10. CacheWork(s, cell, intern(weight), input, mode) =
         [s EXCEPT !.macros = With(@, cell, Value(exe, inputs, mode, k))]
  BY <1>6, <1>7, <1>9 DEF CacheWork
<1> QED
  BY <1>1, <1>2, <1>8, <1>10 DEF weight, input, cell

\* A state whose cache has the output of the work of a readback, which it takes.
HasCell(exe, s, i) == CellOf(exe, WorkAt(exe, i)) \in DOMAIN s.macros
AfterRead(exe, s, i) ==
  [s EXCEPT !.outs = With(@, i, s.macros[CellOf(exe, WorkAt(exe, i))])]

\* The step of a readback takes the cell of its work.
LEMMA ReadStepIs ==
  ASSUME NEW exe, WellFormed(exe), NEW inputs, NEW mode, NEW i \in DOMAIN exe.readbacks,
         NEW s, s.ok, HasCell(exe, s, i)
  PROVE  SoftwareStep(exe, inputs, mode, <<>>, s, ReadStep(i)) = AfterRead(exe, s, i)
<1> DEFINE r == exe.readbacks[i]  k == WorkAt(exe, i)
<1>1. SoftwareStep(exe, inputs, mode, <<>>, s, ReadStep(i)) = ReadOutput(exe, s, i)
  BY StepKinds DEF SoftwareStep
<1>2. /\ hasReadbackSequence(exe, r) /\ ReadbackPlaced(exe, r)
      /\ k.w.macro = r.macro /\ ReadbackFor(exe, k) = r
  BY WorkOfReadback DEF WorkAt
<1>3. <<Slot(WorkOf(exe, r)[1].w.core, r.macro), r.row>> = CellOf(exe, k)
  BY <1>2 DEF CellOf, WorkAt, WorkSlot
<1>4. CellOf(exe, k) \in DOMAIN s.macros
  BY DEF HasCell
<1>5. ReadOutput(exe, s, i) = [s EXCEPT !.outs = With(@, i, s.macros[CellOf(exe, k)])]
  <2> HIDE DEF k, r
  <2>1. ReadOutput(exe, s, i) =
          LET work == WorkOf(exe, r)
              cell == <<Slot(work[1].w.core, r.macro), r.row>>
          IN IF ~s.ok \/ ~hasReadbackSequence(exe, r) \/ ~ReadbackPlaced(exe, r)
                \/ cell \notin DOMAIN s.macros
             THEN [s EXCEPT !.ok = FALSE]
             ELSE [s EXCEPT !.outs = With(@, i, s.macros[cell])]
    BY DEF ReadOutput, r
  <2> QED
    BY <1>2, <1>3, <1>4, <2>1
<1> QED
  BY <1>1, <1>5 DEF AfterRead

\* A run after n steps: works that were executed are in their cells, readbacks that
\* were read have the output of their work.
Ran(exe, inputs, mode, steps, n, s) ==
  /\ IsRun(s) /\ s.ok
  /\ \A q \in 1..n : \A k \in ToSet(WorkKeys(exe)) :
       steps[q] = WorkStep(k)
       => /\ CellOf(exe, k) \in DOMAIN s.macros
          /\ s.macros[CellOf(exe, k)] = Value(exe, inputs, mode, k)
  /\ \A q \in 1..n : \A i \in DOMAIN exe.readbacks :
       steps[q] = ReadStep(i)
       => i \in DOMAIN s.outs /\ s.outs[i] = Value(exe, inputs, mode, WorkAt(exe, i))

\* A step of such a run.
LEMMA RanStep ==
  ASSUME NEW exe, WellFormed(exe), NEW inputs, NEW mode, InRange(exe, inputs, mode),
         Accepted(exe, inputs, mode), SlotsApart(exe),
         NEW steps, steps = SoftwareSteps(exe), NEW n \in 1..Len(steps), Len(steps) \in Nat,
         NEW s, Ran(exe, inputs, mode, steps, n - 1, s),
         NEW then, then = SoftwareStep(exe, inputs, mode, <<>>, s, steps[n])
  PROVE  Ran(exe, inputs, mode, steps, n, then)
<1> DEFINE V(k) == Value(exe, inputs, mode, k)  C(k) == CellOf(exe, k)
<1>0. IsRun(s) /\ s.ok
  BY DEF Ran
<1>1. /\ HasGroups(exe.groups) /\ HasNumbers(exe.groups) /\ HasReadbacks(exe.readbacks)
      /\ steps \in Seq(StepsOf(exe))
      /\ \A i \in DOMAIN exe.readbacks : \A k \in ToSet(WorkKeys(exe)) :
           steps[n] = ReadStep(i) /\ k.key = exe.readbacks[i].key
           => \E q \in 1..n - 1 : steps[q] = WorkStep(k)
  <2>1. HasGroups(exe.groups) /\ HasNumbers(exe.groups) /\ HasReadbacks(exe.readbacks)
    BY WellListed, WellRead
  <2> QED
    BY <2>1, SoftwareStepsOf
<1>2. steps[n] \in StepsOf(exe)
  BY <1>1
<1>3. ASSUME NEW k \in ToSet(WorkKeys(exe)), steps[n] = WorkStep(k)
      PROVE  Ran(exe, inputs, mode, steps, n, then)
  <2>1. then = [s EXCEPT !.macros = With(s.macros, C(k), V(k))]
    BY <1>0, <1>3, WorkStepIs
  <2> DEFINE macros == With(s.macros, C(k), V(k))
  <2> HIDE DEF C, V
  <2>2. /\ DOMAIN macros = DOMAIN s.macros \cup {C(k)} /\ macros[C(k)] = V(k)
        /\ \A y \in DOMAIN s.macros : y # C(k) => macros[y] = s.macros[y]
    BY DEF With
  <2> HIDE DEF macros
  <2>3. IsRun(then) /\ then.ok /\ then.macros = macros /\ then.outs = s.outs
    BY <1>0, <2>1 DEF IsRun, macros
  <2>4. ASSUME NEW q \in 1..n, NEW l \in ToSet(WorkKeys(exe)), steps[q] = WorkStep(l)
        PROVE  C(l) \in DOMAIN then.macros /\ then.macros[C(l)] = V(l)
    <3>1. C(l) = C(k) => l = k
      BY DEF CellOf, SlotsApart, C
    <3>2. l # k => q \in 1..n - 1
      <4>1. q = n => WorkStep(l) = WorkStep(k)
        BY <1>3, <2>4
      <4>2. WorkStep(l).work = l /\ WorkStep(k).work = k
        BY DEF WorkStep
      <4> QED
        BY <4>1, <4>2
    <3>3. l # k => C(l) \in DOMAIN s.macros /\ s.macros[C(l)] = V(l)
      BY <2>4, <3>2 DEF Ran, V, C
    <3> QED
      BY <2>2, <2>3, <3>1, <3>3
  <2>5. ASSUME NEW q \in 1..n, NEW i \in DOMAIN exe.readbacks, steps[q] = ReadStep(i)
        PROVE  i \in DOMAIN then.outs /\ then.outs[i] = V(WorkAt(exe, i))
    <3>1. q \in 1..n - 1
      <4>1. q # n
        BY <1>3, <2>5, StepKinds
      <4> QED
        BY <4>1
    <3> QED
      BY <2>3, <2>5, <3>1 DEF Ran, V
  <2> QED
    BY <2>3, <2>4, <2>5 DEF Ran, V, C
<1>4. ASSUME NEW i \in DOMAIN exe.readbacks, steps[n] = ReadStep(i)
      PROVE  Ran(exe, inputs, mode, steps, n, then)
  <2> DEFINE k == WorkAt(exe, i)
  <2>1. k \in ToSet(WorkKeys(exe)) /\ k.key = exe.readbacks[i].key
    BY WorkOfReadback DEF WorkAt
  <2>2. PICK q \in 1..n - 1 : steps[q] = WorkStep(k)
    BY <1>1, <1>4, <2>1
  <2>3. C(k) \in DOMAIN s.macros /\ s.macros[C(k)] = V(k)
    BY <2>1, <2>2 DEF Ran
  <2> DEFINE outs == With(s.outs, i, V(k))
  <2>4. then = [s EXCEPT !.outs = outs]
    <3>1. HasCell(exe, s, i)
      BY <2>3 DEF HasCell
    <3>2. SoftwareStep(exe, inputs, mode, <<>>, s, ReadStep(i)) = AfterRead(exe, s, i)
      BY <1>0, <3>1, ReadStepIs
    <3> QED
      BY <1>4, <2>3, <3>2 DEF AfterRead
  <2> HIDE DEF V, k
  <2>5. /\ DOMAIN outs = DOMAIN s.outs \cup {i} /\ outs[i] = V(k)
        /\ \A y \in DOMAIN s.outs : y # i => outs[y] = s.outs[y]
    BY DEF With
  <2> HIDE DEF outs
  <2>6. IsRun(then) /\ then.ok /\ then.outs = outs /\ then.macros = s.macros
    BY <1>0, <2>4 DEF IsRun, outs
  <2>7. ASSUME NEW p \in 1..n, NEW l \in ToSet(WorkKeys(exe)), steps[p] = WorkStep(l)
        PROVE  C(l) \in DOMAIN then.macros /\ then.macros[C(l)] = V(l)
    <3>1. p \in 1..n - 1
      <4>1. p # n
        BY <1>4, <2>7, StepKinds
      <4> QED
        BY <4>1
    <3> QED
      BY <2>6, <2>7, <3>1 DEF Ran, V
  <2>8. ASSUME NEW p \in 1..n, NEW j \in DOMAIN exe.readbacks, steps[p] = ReadStep(j)
        PROVE  j \in DOMAIN then.outs /\ then.outs[j] = V(WorkAt(exe, j))
    <3>1. j # i => p \in 1..n - 1
      <4>1. p = n => ReadStep(i) = ReadStep(j)
        BY <1>4, <2>8
      <4>2. ReadStep(i).readback = i /\ ReadStep(j).readback = j
        BY DEF ReadStep
      <4> QED
        BY <4>1, <4>2
    <3>2. j # i => j \in DOMAIN s.outs /\ s.outs[j] = V(WorkAt(exe, j))
      BY <2>8, <3>1 DEF Ran, V
    <3> QED
      BY <2>5, <2>6, <3>2 DEF k
  <2> QED
    BY <2>6, <2>7, <2>8 DEF Ran, V
<1> QED
  BY <1>2, <1>3, <1>4 DEF StepsOf

\* The software runner has the results of the transaction.
LEMMA SoftwareOutputs ==
  ASSUME NEW exe, WellFormed(exe), NEW inputs, NEW mode, InRange(exe, inputs, mode),
         Accepted(exe, inputs, mode), SlotsApart(exe)
  PROVE  LET run == SoftwareRun(exe, inputs, mode, NothingResident, <<>>)
         IN run.ok /\ run.outs = Outputs(exe, inputs, mode)
<1> DEFINE steps == SoftwareSteps(exe)  N == Len(steps)
           start == [ok |-> TRUE, macros |-> NoAttrs, resid |-> NothingResident, outs |-> NoAttrs]
           states == SoftwareStates(exe, steps, inputs, mode, <<>>, start)
           end == states[N]
           Good(n) == Ran(exe, inputs, mode, steps, n, states[n])
           Bad == {n \in 0..N : ~Good(n)}
<1>1. /\ HasGroups(exe.groups) /\ HasNumbers(exe.groups) /\ HasReadbacks(exe.readbacks)
      /\ exe.readbacks \in Seq(ToSet(exe.readbacks))
  BY WellListed, WellRead
<1>2. /\ steps \in Seq(StepsOf(exe))
      /\ \A i \in DOMAIN exe.readbacks :
           (\E k \in ToSet(WorkKeys(exe)) : k.key = exe.readbacks[i].key)
           => \E p \in 1..N : steps[p] = ReadStep(i)
  BY <1>1, SoftwareStepsOf
<1>3. N \in Nat /\ N \in 0..N
  BY <1>2
<1>4. /\ states[0] = start
      /\ \A n \in 1..N :
           states[n] = SoftwareStep(exe, inputs, mode, <<>>, states[n - 1], steps[n])
  BY <1>3, SoftwareFrom
<1>5. Len(inputs) = Len(exe.inputs) /\ Len(<<>>) = 0
  BY DEF Accepted
<1>6. SoftwareRun(exe, inputs, mode, NothingResident, <<>>) = SoftwareResult(exe, end)
  BY <1>5 DEF SoftwareRun
<1> HIDE DEF states, steps
<1>7. Good(0)
  <2>1. Ran(exe, inputs, mode, steps, 0, start)
    BY DEF Ran, IsRun
  <2> QED
    BY <1>4, <2>1
<1>8. ASSUME NEW n \in 1..N, Good(n - 1) PROVE Good(n)
  <2>1. states[n] = SoftwareStep(exe, inputs, mode, <<>>, states[n - 1], steps[n])
    BY <1>4
  <2>2. Ran(exe, inputs, mode, steps, n - 1, states[n - 1])
    BY <1>8
  <2> QED
    BY <1>3, <2>1, <2>2, RanStep DEF steps
<1>9. Bad = {}
  <2> SUFFICES ASSUME Bad # {} PROVE FALSE
    OBVIOUS
  <2>1. Bad \subseteq Nat
    OBVIOUS
  <2> HIDE DEF Good
  <2>2. PICK m \in Bad : \A j \in Bad : m <= j
    <3> HIDE DEF Bad
    <3> QED
      BY <2>1, LeastOf
  <2>3. m \in 1..N /\ m - 1 \in 0..N /\ m - 1 \notin Bad
    BY <1>3, <1>7, <2>2
  <2>4. Good(m - 1)
    BY <2>3
  <2> QED
    BY <1>8, <2>2, <2>3, <2>4
<1>10. Ran(exe, inputs, mode, steps, N, end)
  BY <1>3, <1>9
<1> DEFINE R == Len(exe.readbacks)  V(i) == Value(exe, inputs, mode, WorkAt(exe, i))
<1>11. R \in Nat /\ DOMAIN exe.readbacks = 1..R
  BY <1>1
<1> HIDE DEF end, N, Good, Bad
<1>12. ASSUME NEW i \in 1..R PROVE end.outs[i] = V(i)
  <2>1. i \in DOMAIN exe.readbacks
    BY <1>11
  <2>2. WorkAt(exe, i) \in ToSet(WorkKeys(exe)) /\ WorkAt(exe, i).key = exe.readbacks[i].key
    BY <2>1, WorkOfReadback DEF WorkAt
  <2>3. PICK p \in 1..N : steps[p] = ReadStep(i)
    BY <1>2, <2>1, <2>2 DEF N
  <2> QED
    BY <1>10, <2>1, <2>3 DEF Ran
<1>13. end.ok
  BY <1>10 DEF Ran
<1>14. SoftwareResult(exe, end).outs = <<>> \o [i \in 1..R |-> end.outs[i]]
  BY <1>13 DEF SoftwareResult, List
<1>15. [i \in 1..R |-> end.outs[i]] = [i \in 1..R |-> V(i)]
  BY <1>12
<1>16. SoftwareResult(exe, end).outs = Outputs(exe, inputs, mode) /\ SoftwareResult(exe, end).ok
  BY <1>13, <1>14, <1>15 DEF Outputs, SoftwareResult
<1> QED
  BY <1>6, <1>16 DEF states, steps, end, N

\* A program that was assembled was not refused, and has one group on a Core.
LEMMA ProgramIs ==
  ASSUME NEW exe, NEW inputs, NEW mode, NEW ids, BoardProgram(exe, inputs, mode, ids).ok
  PROVE  LET program == BoardProgram(exe, inputs, mode, ids)
         IN /\ ~BoardRefuses(exe, inputs, mode, ids)
            /\ program.work = {g.works[1].core : g \in ToSet(exe.groups)}
            /\ \A k, l \in ToSet(WorkKeys(exe)) : k.w.core = l.w.core => k.key[1] = l.key[1]
<1> DEFINE program == BoardProgram(exe, inputs, mode, ids)
           Batch(b) == IF b.targets = {} THEN <<>> ELSE <<b>>
           batches == Batch(ReadbackBatch(exe, 0)) \o Batch(ReadbackBatch(exe, 1))
           works == WorkKeys(exe)
<1>1. /\ ~BoardRefuses(exe, inputs, mode, ids)
      /\ program = AssembledProgram(exe, inputs, mode, ids, works, batches)
  BY Zenon DEF BoardProgram, materializeProgram, Rejected
<1> HIDE DEF batches, works
<1>2. program.ok
  OBVIOUS
<1> HIDE DEF program
<1>3. /\ program.work = {g.works[1].core : g \in ToSet(exe.groups)}
      /\ \A k, l \in ToSet(works) : k.w.core = l.w.core => k.key[1] = l.key[1]
  BY <1>1, <1>2 DEF AssembledProgram, Rejected
<1> QED
  BY <1>1, <1>3 DEF program, works

\* Its inputs are accepted by the software runner too.
LEMMA ProgramAccepted ==
  ASSUME NEW exe, WellFormed(exe), NEW inputs, NEW mode, NEW ids,
         ~BoardRefuses(exe, inputs, mode, ids)
  PROVE  Accepted(exe, inputs, mode)
<1>1. /\ validateInputs(exe, inputs)
      /\ \A i \in DOMAIN exe.inputs : PreparedInput(exe.inputs[i], inputs[i], mode).ok
      /\ \A k \in ToSet(WorkKeys(exe)) :
           LET n == BindingOf(exe.inputs, k.key)
               w == Find(exe.weights, k.key)[1]
           IN w.dataType = "bf16"
              => validateBF16Group(w, PreparedInput(exe.inputs[n], inputs[n], mode), mode)
  BY DEF BoardRefuses
<1>2. Len(inputs) = Len(exe.inputs)
  BY <1>1 DEF validateInputs
<1>3. ASSUME NEW k \in ToSet(WorkKeys(exe))
      PROVE  /\ InputValue(exe, inputs, mode, k).ok
             /\ WeightFor(exe, k).dataType = "bf16"
                => validateBF16Group(WeightFor(exe, k), InputValue(exe, inputs, mode, k), mode)
  <2>1. /\ BindingOf(exe.inputs, k.key) \in DOMAIN exe.inputs
        /\ Find(exe.weights, k.key) = <<WeightFor(exe, k)>>
    BY WorkBound DEF Bound
  <2>2. Find(exe.weights, k.key)[1] = WeightFor(exe, k)
    BY <2>1
  <2> QED
    BY <1>1, <2>1, <2>2 DEF InputValue, InputFor
<1> QED
  BY <1>2, <1>3 DEF Accepted

\* A Macro and its Core from a slot.
LEMMA SlotIs ==
  ASSUME NEW c \in AllCores, NEW m \in {0, 1}
  PROVE  /\ Slot(c, m) \in Slots /\ Slot(c, m) \div 2 = c
         /\ \A d \in AllCores, n \in {0, 1} : Slot(c, m) = Slot(d, n) => c = d /\ m = n
<1>1. Cores \in Nat /\ c \in 0..Cores - 1
  BY FormAssumption DEF AllCores
<1>2. 2 * c + m \in 0..2 * Cores - 1 /\ (2 * c + m) \div 2 = c
  BY <1>1
<1>3. ASSUME NEW d \in 0..Cores - 1, NEW n \in {0, 1}, 2 * c + m = 2 * d + n
      PROVE  c = d /\ m = n
  BY <1>1, <1>3
<1> QED
  BY <1>2, <1>3 DEF Slot, Slots, AllCores

\* No two of its works are in the same Macro.
LEMMA ProgramApart ==
  ASSUME NEW exe, WellFormed(exe), NEW inputs, NEW mode, NEW ids,
         BoardProgram(exe, inputs, mode, ids).ok
  PROVE  /\ SlotsApart(exe)
         /\ \A k \in ToSet(WorkKeys(exe)) :
              k.w.core \in BoardProgram(exe, inputs, mode, ids).work
<1>1. /\ ~BoardRefuses(exe, inputs, mode, ids)
      /\ BoardProgram(exe, inputs, mode, ids).work = {g.works[1].core : g \in ToSet(exe.groups)}
      /\ \A k, l \in ToSet(WorkKeys(exe)) : k.w.core = l.w.core => k.key[1] = l.key[1]
  BY ProgramIs
<1>2. validateInputs(exe, inputs)
  BY <1>1 DEF BoardRefuses
<1>3. /\ HasGroups(exe.groups) /\ HasNumbers(exe.groups)
      /\ ToSet(WorkKeys(exe)) = WorksOf(exe.groups)
  BY WellListed
<1>4. ASSUME NEW k \in ToSet(WorkKeys(exe))
      PROVE  \E g \in ToSet(exe.groups) : \E i \in DOMAIN g.works :
               k = WorkKey(g, g.works[i]) /\ k.key[1] = g.group /\ k.w = g.works[i]
  <2>1. PICK g \in ToSet(exe.groups) : k \in {WorkKey(g, v) : v \in ToSet(g.works)}
    BY <1>3 DEF WorksOf
  <2>2. PICK w \in ToSet(g.works) : k = WorkKey(g, w)
    BY <2>1
  <2>3. g.works \in Seq(ToSet(g.works))
    BY <1>3 DEF HasGroups
  <2>4. PICK i \in DOMAIN (g.works) : w = g.works[i]
    BY <2>3, Listed
  <2> QED
    BY <2>2, <2>4 DEF WorkKey, Key
<1>5. ASSUME NEW k \in ToSet(WorkKeys(exe)), NEW l \in ToSet(WorkKeys(exe)),
             WorkSlot(k) = WorkSlot(l)
      PROVE  k = l
  <2>1. k.w.core = l.w.core /\ k.w.macro = l.w.macro
    <3>1. /\ k.w.core \in AllCores /\ k.w.macro \in {0, 1}
          /\ l.w.core \in AllCores /\ l.w.macro \in {0, 1}
      BY WorkBound DEF Bound
    <3> QED
      BY <1>5, <3>1, SlotIs DEF WorkSlot
  <2>2. PICK g \in ToSet(exe.groups) : \E i \in DOMAIN g.works :
          k = WorkKey(g, g.works[i]) /\ k.key[1] = g.group /\ k.w = g.works[i]
    BY <1>4
  <2>3. PICK i \in DOMAIN g.works :
          k = WorkKey(g, g.works[i]) /\ k.key[1] = g.group /\ k.w = g.works[i]
    BY <2>2
  <2>4. PICK h \in ToSet(exe.groups) : \E j \in DOMAIN h.works :
          l = WorkKey(h, h.works[j]) /\ l.key[1] = h.group /\ l.w = h.works[j]
    BY <1>4
  <2>5. PICK j \in DOMAIN h.works :
          l = WorkKey(h, h.works[j]) /\ l.key[1] = h.group /\ l.w = h.works[j]
    BY <2>4
  <2>6. g = h
    BY <1>1, <1>3, <2>1, <2>3, <2>5 DEF HasNumbers
  <2>7. i = j
    BY <1>2, <2>1, <2>3, <2>5, <2>6 DEF validateInputs
  <2> QED
    BY <2>3, <2>5, <2>6, <2>7
<1>6. ASSUME NEW k \in ToSet(WorkKeys(exe))
      PROVE  k.w.core \in BoardProgram(exe, inputs, mode, ids).work
  <2>1. PICK g \in ToSet(exe.groups) : k \in {WorkKey(g, v) : v \in ToSet(g.works)}
    BY <1>3 DEF WorksOf
  <2>2. PICK w \in ToSet(g.works) : k = WorkKey(g, w)
    BY <2>1
  <2>3. w.core = g.works[1].core
    BY <1>2 DEF validateInputs
  <2> QED
    BY <1>1, <2>2, <2>3 DEF WorkKey
<1> QED
  BY <1>5, <1>6 DEF SlotsApart

-----------------------------------------------------------------------------
(* What a program leaves on the chip and the board answers.                *)

\* The operations of the works of a program are at threes.
LEMMA ProgramAt ==
  ASSUME NEW exe, WellFormed(exe), NEW inputs, NEW mode, NEW ids,
         BoardProgram(exe, inputs, mode, ids).ok, NEW k \in 1..Len(WorkKeys(exe))
  PROVE  LET ops == BoardProgram(exe, inputs, mode, ids).operations
             op == WorkOperations(exe, inputs, mode, ids, WorkKeys(exe)[k])
         IN ops[3 * k - 2] = op[1] /\ ops[3 * k - 1] = op[2] /\ ops[3 * k] = op[3]
<1> DEFINE N == Len(WorkKeys(exe))
           ops == BoardProgram(exe, inputs, mode, ids).operations
           Writes(j) == WorkOperations(exe, inputs, mode, ids, WorkKeys(exe)[j])
<1>1. /\ N \in Nat
      /\ \A n \in 1..3 * N : (n + 2) \div 3 \in 1..N =>
           ops[n] = Writes((n + 2) \div 3)[1 + ((n + 2) % 3)]
  <2>1. WorkKeys(exe) \in Seq(ToSet(WorkKeys(exe))) /\ BoardProgram(exe, inputs, mode, ids).ok
    BY WellListed
  <2> QED
    BY ONLY <2>1, ProgramOperations
<1>2. k \in 1..N
  OBVIOUS
<1> HIDE DEF N, Writes, ops
<1>3. /\ 3 * k - 2 \in 1..3 * N /\ ((3 * k - 2) + 2) \div 3 = k /\ 1 + (((3 * k - 2) + 2) % 3) = 1
      /\ 3 * k - 1 \in 1..3 * N /\ ((3 * k - 1) + 2) \div 3 = k /\ 1 + (((3 * k - 1) + 2) % 3) = 2
      /\ 3 * k \in 1..3 * N /\ (3 * k + 2) \div 3 = k /\ 1 + ((3 * k + 2) % 3) = 3
  BY <1>1, <1>2
<1>4. /\ ops[3 * k - 2] = Writes(k)[1] /\ ops[3 * k - 1] = Writes(k)[2]
      /\ ops[3 * k] = Writes(k)[3]
  BY <1>1, <1>2, <1>3
<1> QED
  BY <1>4 DEF Writes, ops

\* The chip has the input and the weight of a work in its Macro.
ChipHas(exe, inputs, mode, ch, k) ==
  /\ WorkSlot(k) \in DOMAIN ch.inputs
  /\ ch.inputs[WorkSlot(k)] = [row |-> InputFor(exe, k).row,
                               values |-> InputValue(exe, inputs, mode, k)]
  /\ WorkSlot(k) \in DOMAIN ch.types /\ ch.types[WorkSlot(k)] = WeightFor(exe, k).dataType
  /\ ch.weights[WorkSlot(k)] = intern(WeightFor(exe, k))

\* The operations of a work are those of its sections.
LEMMA WorkIsBound ==
  ASSUME NEW exe, WellFormed(exe), NEW inputs, NEW mode, NEW ids \in {<<>>, Images(exe)},
         NEW k \in ToSet(WorkKeys(exe))
  PROVE  LET op == WorkOperations(exe, inputs, mode, ids, k)
         IN /\ op[1].dataType = WeightFor(exe, k).dataType
            /\ [row |-> op[2].row, values |-> op[2].values] =
                 [row |-> InputFor(exe, k).row, values |-> InputValue(exe, inputs, mode, k)]
            /\ op[3].slot = WorkSlot(k) /\ op[3].image = intern(WeightFor(exe, k))
<1> DEFINE op == WorkOperations(exe, inputs, mode, ids, k)
           j == BindingOf(exe.weights, k.key)
<1>1. InputFor(exe, k).dataType = WeightFor(exe, k).dataType
  BY WorkBound DEF Bound
<1>2. /\ op[1].dataType = InputFor(exe, k).dataType
      /\ op[2].row = InputFor(exe, k).row
      /\ op[2].values = InputValue(exe, inputs, mode, k)
      /\ op[3].slot = WorkSlot(k)
      /\ op[3].image = IF ids = <<>> THEN intern(exe.weights[j]) ELSE ids[j]
  BY DEF WorkOperations, InputFor, InputValue, WorkSlot
<1>3. Images(exe)[j] = intern(exe.weights[j])
  <2>1. exe.weights \in Seq(ToSet(exe.weights)) /\ validateWork(exe, k)
    BY WellListed DEF WellFormed
  <2> QED
    BY <2>1, WeightFound
<1>4. WeightFor(exe, k) = exe.weights[j]
  BY DEF WeightFor
<1> HIDE DEF op, j
<1>5. op[3].image = intern(WeightFor(exe, k))
  BY <1>2, <1>3, <1>4
<1> QED
  BY <1>1, <1>2, <1>5 DEF op

\* One more work on the chip.
HasMore(exe, inputs, mode, ch, then, k) ==
  /\ ChipHas(exe, inputs, mode, then, k)
  /\ \A l \in ToSet(WorkKeys(exe)) :
       WorkSlot(l) # WorkSlot(k) /\ ChipHas(exe, inputs, mode, ch, l)
       => ChipHas(exe, inputs, mode, then, l)

\* A work puts what it needs in its Macro, and leaves the others as they are.
LEMMA WorkHas ==
  ASSUME NEW exe, WellFormed(exe), NEW inputs, NEW mode, NEW ids \in {<<>>, Images(exe)},
         NEW k \in ToSet(WorkKeys(exe)), NEW a, NEW b, NEW c,
         a = WorkOperations(exe, inputs, mode, ids, k)[1],
         b = WorkOperations(exe, inputs, mode, ids, k)[2],
         c = WorkOperations(exe, inputs, mode, ids, k)[3],
         NEW ch, IsChip(ch), NEW then, WorkLeaves(ch, then, a, b, c)
  PROVE  HasMore(exe, inputs, mode, ch, then, k)
<1> DEFINE slot == WorkSlot(k)
           bound == [row |-> InputFor(exe, k).row, values |-> InputValue(exe, inputs, mode, k)]
           type == WeightFor(exe, k).dataType
           image == intern(WeightFor(exe, k))
<1>1. /\ a.dataType = type /\ [row |-> b.row, values |-> b.values] = bound
      /\ c.slot = slot /\ c.image = image
  BY WorkIsBound
<1>2. \A l \in ToSet(WorkKeys(exe)) : WorkSlot(l) \in Slots
  BY WorkBound, SlotIs DEF Bound, WorkSlot
<1>3. ch.weights = [s \in Slots |-> ch.weights[s]]
  BY DEF IsChip
<1> HIDE DEF bound, type, image, slot
<1>4. /\ then.inputs = With(ch.inputs, slot, bound)
      /\ then.types = With(ch.types, slot, type)
      /\ then.weights = [ch.weights EXCEPT ![slot] = image]
  BY <1>1 DEF WorkLeaves
<1>5. /\ slot \in DOMAIN then.inputs /\ then.inputs[slot] = bound
      /\ slot \in DOMAIN then.types /\ then.types[slot] = type
      /\ \A s \in DOMAIN ch.inputs :
           s # slot => s \in DOMAIN then.inputs /\ then.inputs[s] = ch.inputs[s]
      /\ \A s \in DOMAIN ch.types :
           s # slot => s \in DOMAIN then.types /\ then.types[s] = ch.types[s]
  BY <1>4 DEF With
<1>6. then.weights[slot] = image /\ \A s \in Slots \ {slot} : then.weights[s] = ch.weights[s]
  BY <1>2, <1>3, <1>4 DEF slot
<1>7. ChipHas(exe, inputs, mode, then, k)
  BY <1>5, <1>6 DEF ChipHas, slot, bound, type, image
<1>8. ASSUME NEW l \in ToSet(WorkKeys(exe)), WorkSlot(l) # slot, ChipHas(exe, inputs, mode, ch, l)
      PROVE  ChipHas(exe, inputs, mode, then, l)
  <2> DEFINE s == WorkSlot(l)
  <2>1. s \in Slots \ {slot} /\ s \in DOMAIN ch.inputs /\ s \in DOMAIN ch.types
    BY <1>2, <1>8 DEF ChipHas
  <2>2. /\ s \in DOMAIN then.inputs /\ then.inputs[s] = ch.inputs[s]
        /\ s \in DOMAIN then.types /\ then.types[s] = ch.types[s]
        /\ then.weights[s] = ch.weights[s]
    BY <1>5, <1>6, <2>1
  <2> QED
    BY <1>8, <2>2 DEF ChipHas
<1> QED
  BY <1>7, <1>8 DEF HasMore, slot

\* One work of a program, on whatever chip its table is true of.
LEMMA WrittenStep ==
  ASSUME NEW exe, WellFormed(exe), NEW inputs, NEW mode, NEW ids \in {<<>>, Images(exe)},
         NEW tracked \in BOOLEAN, NEW k \in ToSet(WorkKeys(exe)),
         NEW a, NEW b, NEW c, OneWork(a, b, c),
         a = WorkOperations(exe, inputs, mode, ids, k)[1],
         b = WorkOperations(exe, inputs, mode, ids, k)[2],
         c = WorkOperations(exe, inputs, mode, ids, k)[3],
         NEW st, IsState(st), Holds(st.chip, st.resid),
         NEW then, then = Operate(Operate(Operate(st, a, tracked), b, tracked), c, tracked)
  PROVE  HasMore(exe, inputs, mode, st.chip, then.chip, k)
<1>1. IsChip(st.chip)
  BY DEF IsState
<1>2. WorkLeaves(st.chip, then.chip, a, b, c)
  BY WorkWrites
<1> DEFINE ch == st.chip  done == then.chip
<1>3. IsChip(ch) /\ WorkLeaves(ch, done, a, b, c)
  BY <1>1, <1>2
<1> HIDE DEF ch, done
<1>4. HasMore(exe, inputs, mode, ch, done, k)
  BY <1>3, WorkHas
<1> QED
  BY <1>4 DEF ch, done

\* Once a program is written, the chip has the input and the weight of each work.
LEMMA WrittenHas ==
  ASSUME NEW exe, WellFormed(exe), NEW inputs, NEW mode, NEW ids \in {<<>>, Images(exe)},
         NEW program, program = BoardProgram(exe, inputs, mode, ids), program.ok,
         NEW ch, IsChip(ch), NEW re, IsTable(re), Holds(ch, re)
  PROVE  LET ops == program.operations
             then == Operated(ch, re, ops, program.tracked)[Len(ops)]
         IN /\ IsState(then)
            /\ \A k \in ToSet(WorkKeys(exe)) : ChipHas(exe, inputs, mode, then.chip, k)
<1> DEFINE works == WorkKeys(exe)  N == Len(works)
           ops == program.operations  tracked == program.tracked
           states == Operated(ch, re, ops, tracked)
           Good(n) == \A m \in 1..n : ChipHas(exe, inputs, mode, states[3 * n].chip, works[m])
           Bad == {n \in 0..N : ~Good(n)}
<1>1. /\ works \in Seq(ToSet(works)) /\ exe.weights \in Seq(ToSet(exe.weights))
      /\ \A i \in DOMAIN exe.weights : exe.weights[i].dataType # "none"
  BY WellListed
<1>2. N \in Nat /\ ToSet(works) = {works[m] : m \in 1..N}
  BY <1>1, Listed
<1>3. Orderly(ops) /\ tracked \in BOOLEAN
  BY <1>1, ProgramOrderly
<1>4. ByWorks(ops, N)
  <2>1. BoardProgram(exe, inputs, mode, ids).ok
    OBVIOUS
  <2> QED
    BY <1>1, <2>1, ProgramByWorks
<1>5. Len(ops) = 3 * N /\ \A m \in 1..N : OneWork(ops[3 * m - 2], ops[3 * m - 1], ops[3 * m])
  BY <1>4 DEF ByWorks
<1>6. \A n \in 0..3 * N : IsState(states[n]) /\ Holds(states[n].chip, states[n].resid)
  BY <1>3, <1>5, WrittenRight
<1>7. \A n \in 1..3 * N : states[n] = Operate(states[n - 1], ops[n], tracked)
  <2>1. Len(ops) \in Nat
    BY <1>3 DEF Orderly
  <2>2. /\ states[0] = [chip |-> ch, resid |-> re]
        /\ \A n \in 1..Len(ops) : states[n] = Operate(states[n - 1], ops[n], tracked)
    <3> HIDE DEF ops, tracked
    <3> QED
      BY <2>1, OperatedFrom
  <2> HIDE DEF states, tracked
  <2> QED
    BY <1>5, <2>2
<1>8. SlotsApart(exe)
  BY ProgramApart
<1> HIDE DEF works, states
<1>9. ASSUME NEW n \in 1..N, Good(n - 1) PROVE Good(n)
  <2> DEFINE p == 3 * n - 3  st == states[p]  then == states[3 * n]
             a == ops[3 * n - 2]  b == ops[3 * n - 1]  c == ops[3 * n]  k == works[n]
  <2>1. p \in 0..3 * N /\ IsState(st) /\ Holds(st.chip, st.resid)
    <3>1. 3 * n - 3 \in 0..3 * N
      BY <1>2
    <3> QED
      BY <1>6, <3>1
  <2>2. then = Operate(Operate(Operate(st, a, tracked), b, tracked), c, tracked)
    <3>1. /\ 3 * n - 2 \in 1..3 * N /\ 3 * n - 1 \in 1..3 * N /\ 3 * n \in 1..3 * N
          /\ (3 * n - 2) - 1 = 3 * n - 3 /\ (3 * n - 1) - 1 = 3 * n - 2
      BY <1>2
    <3>2. /\ states[3 * n - 2] = Operate(states[(3 * n - 2) - 1], a, tracked)
          /\ states[3 * n - 1] = Operate(states[(3 * n - 1) - 1], b, tracked)
          /\ states[3 * n] = Operate(states[3 * n - 1], c, tracked)
      BY <1>7, <3>1
    <3> QED
      BY <3>1, <3>2
  <2>3. OneWork(a, b, c)
    BY <1>5
  <2>4. /\ a = WorkOperations(exe, inputs, mode, ids, k)[1]
        /\ b = WorkOperations(exe, inputs, mode, ids, k)[2]
        /\ c = WorkOperations(exe, inputs, mode, ids, k)[3]
    BY ProgramAt DEF works
  <2>5. k \in ToSet(works)
    BY <1>2
  <2>6. 3 * (n - 1) = p /\ n - 1 \in Nat /\ \A m \in 1..n : m = n \/ m \in 1..n - 1
    BY <1>2
  <2>7. \A m \in 1..n - 1 : ChipHas(exe, inputs, mode, st.chip, works[m])
    BY <1>9, <2>6
  <2> HIDE DEF p, st, then, a, b, c, k, ops, tracked
  <2>8. HasMore(exe, inputs, mode, st.chip, then.chip, k)
    BY <1>3, <2>1, <2>2, <2>3, <2>4, <2>5, WrittenStep DEF works
  <2>9. ASSUME NEW m \in 1..n PROVE ChipHas(exe, inputs, mode, then.chip, works[m])
    <3>1. works[m] \in ToSet(works)
      BY <1>2
    <3>2. WorkSlot(works[m]) = WorkSlot(k) => works[m] = k
      BY <1>8, <2>5, <3>1 DEF SlotsApart, works
    <3>3. m = n => works[m] = k
      BY DEF k
    <3> QED
      BY <2>6, <2>7, <2>8, <3>1, <3>2, <3>3 DEF HasMore, works
  <2> QED
    BY <2>9 DEF then
<1>10. Good(0)
  OBVIOUS
<1>11. N \in 0..N
  BY <1>2
<1>12. Bad = {}
  <2> SUFFICES ASSUME Bad # {} PROVE FALSE
    OBVIOUS
  <2>1. Bad \subseteq Nat
    OBVIOUS
  <2> HIDE DEF Good
  <2>2. PICK m \in Bad : \A j \in Bad : m <= j
    <3> HIDE DEF Bad
    <3> QED
      BY <2>1, LeastOf
  <2>3. m \in 1..N /\ m - 1 \in 0..N /\ m - 1 \notin Bad
    BY <1>2, <1>10, <2>2
  <2>4. Good(m - 1)
    BY <2>3
  <2> QED
    BY <1>9, <2>2, <2>3, <2>4
<1>13. \A m \in 1..N : ChipHas(exe, inputs, mode, states[3 * N].chip, works[m])
  BY <1>11, <1>12
<1>14. IsState(states[3 * N]) /\ 3 * N = Len(ops)
  <2>1. 3 * N \in 0..3 * N
    BY <1>2
  <2> QED
    BY <1>5, <1>6, <2>1
<1> HIDE DEF N, Good, Bad
<1>15. \A k \in ToSet(works) : ChipHas(exe, inputs, mode, states[3 * N].chip, k)
  BY <1>2, <1>13
<1> QED
  BY <1>14, <1>15 DEF states, works

\* What the chip computes for a work.
Raw(exe, inputs, mode, k) ==
  MacroOutput(WeightFor(exe, k).values, <<>>, WeightFor(exe, k).dataType,
              InputValue(exe, inputs, mode, k), "none", TRUE)
\* The cell of a work, by the row of its input.
InputCell(exe, k) == <<WorkSlot(k), InputFor(exe, k).row>>

\* The chip computes every work whose Core is told to.
LEMMA WorkedHas ==
  ASSUME NEW exe, WellFormed(exe), NEW inputs, NEW mode, NEW ch, NEW cores,
         NEW k \in ToSet(WorkKeys(exe)), k.w.core \in cores, IsChip(ch),
         ChipHas(exe, inputs, mode, ch, k)
  PROVE  LET cache == ChipWork(ch, cores).cache
         IN /\ InputCell(exe, k) \in DOMAIN cache
            /\ cache[InputCell(exe, k)] = Raw(exe, inputs, mode, k)
<1> DEFINE slot == WorkSlot(k)  row == InputFor(exe, k).row  cell == <<slot, row>>
           cells == {<<i, ch.inputs[i].row>> : i \in {j \in DOMAIN ch.inputs : j \div 2 \in cores}}
           Output(i) == MacroOutput(ch.weights[i].words, <<>>, ch.types[i],
                                    ch.inputs[i].values, "none", TRUE)
           cache == [c \in cells \cup DOMAIN ch.cache |->
                       IF c \in cells THEN Output(c[1]) ELSE ch.cache[c]]
<1>1. ChipWork(ch, cores).cache = cache
  BY DEF ChipWork, IsChip
<1>2. slot \div 2 = k.w.core
  BY WorkBound, SlotIs DEF Bound, WorkSlot
<1>3. /\ slot \in DOMAIN ch.inputs /\ ch.inputs[slot].row = row
      /\ ch.inputs[slot].values = InputValue(exe, inputs, mode, k)
      /\ ch.types[slot] = WeightFor(exe, k).dataType
      /\ ch.weights[slot].words = WeightFor(exe, k).values
  BY DEF ChipHas, intern
<1>4. Output(slot) = Raw(exe, inputs, mode, k)
  BY <1>3 DEF Raw
<1> HIDE DEF Output, slot, row
<1>5. cell \in cells
  BY <1>2, <1>3
<1>6. cell[1] = slot
  OBVIOUS
<1> HIDE DEF cells, cell
<1>7. cell \in DOMAIN cache /\ cache[cell] = Output(slot)
  BY <1>5, <1>6
<1> QED
  BY <1>1, <1>4, <1>7 DEF InputCell, cell, slot, row

\* The cell of a readback: the one its work is computed into.
OutCell(exe, i) == InputCell(exe, WorkAt(exe, i))
\* A target is asked for at the cell of its readback.
Asks(exe, batch, t) ==
  /\ t.out \in DOMAIN exe.readbacks
  /\ <<Slot(t.core, batch.macro), t.row>> = OutCell(exe, t.out)
  /\ \E q \in batch.request : q.core \in {"all", ToString(t.core)} /\ q.row = t.row
\* Every target is, and every readback is a target.
Answers(exe, batches) ==
  /\ \A n \in DOMAIN batches : \A t \in batches[n].targets : Asks(exe, batches[n], t)
  /\ \A i \in DOMAIN exe.readbacks :
       \E n \in DOMAIN batches : \E t \in batches[n].targets : t.out = i

\* The batch of a Macro asks for its readbacks.
LEMMA BatchAnswers ==
  ASSUME NEW exe, WellFormed(exe), NEW macro
  PROVE  LET batch == ReadbackBatch(exe, macro)
         IN /\ \A t \in batch.targets : Asks(exe, batch, t)
            /\ \A i \in DOMAIN exe.readbacks :
                 exe.readbacks[i].macro = macro => \E t \in batch.targets : t.out = i
<1> DEFINE mine == {i \in DOMAIN exe.readbacks : exe.readbacks[i].macro = macro}
           CoreOf(i) == WorkOf(exe, exe.readbacks[i])[1].w.core
           RowCores(row) == {CoreOf(i) : i \in {j \in mine : exe.readbacks[j].row = row}}
           canonical == \A i \in mine : exe.readbacks[i].route = CoreRoute(CoreOf(i))
           Request(i) == IF canonical /\ RowCores(exe.readbacks[i].row) = AllCores
                         THEN [core |-> "all", row |-> exe.readbacks[i].row]
                         ELSE [core |-> ToString(CoreOf(i)), row |-> exe.readbacks[i].row]
           Target(i) == [out |-> i, core |-> CoreOf(i), row |-> exe.readbacks[i].row]
           batch == ReadbackBatch(exe, macro)
<1>1. /\ batch.macro = macro /\ batch.targets = {Target(i) : i \in mine}
      /\ batch.request = {Request(i) : i \in mine}
  BY DEF ReadbackBatch
<1>2. ASSUME NEW i \in mine
      PROVE  <<Slot(CoreOf(i), macro), exe.readbacks[i].row>> = OutCell(exe, i)
  <2>1. /\ WorkAt(exe, i).w.macro = exe.readbacks[i].macro
        /\ exe.readbacks[i].row = InputFor(exe, WorkAt(exe, i)).row
    BY WorkOfReadback DEF WorkAt
  <2> QED
    BY <2>1 DEF OutCell, InputCell, WorkSlot, WorkAt
<1>3. ASSUME NEW i \in mine
      PROVE  /\ Request(i).core \in {"all", ToString(CoreOf(i))}
             /\ Request(i).row = exe.readbacks[i].row
  <2> HIDE DEF canonical, RowCores
  <2> QED
    OBVIOUS
<1> HIDE DEF batch, CoreOf, Request
<1>4. ASSUME NEW t \in batch.targets
      PROVE  Asks(exe, batch, t)
  <2>1. PICK i \in mine : t = Target(i)
    BY <1>1
  <2>2. t.out = i /\ t.core = CoreOf(i) /\ t.row = exe.readbacks[i].row
    BY <2>1
  <2>3. Request(i) \in batch.request
    BY <1>1
  <2> QED
    BY <1>1, <1>2, <1>3, <2>2, <2>3 DEF Asks
<1>5. ASSUME NEW i \in DOMAIN exe.readbacks, exe.readbacks[i].macro = macro
      PROVE  \E t \in batch.targets : t.out = i
  <2>1. Target(i) \in batch.targets /\ Target(i).out = i
    BY <1>1, <1>5
  <2> QED
    BY <2>1
<1> QED
  BY <1>4, <1>5 DEF batch

\* A batch without targets is left out.
Batch(b) == IF b.targets = {} THEN <<>> ELSE <<b>>

AreBatches(batches, b, c) ==
  /\ \A n \in DOMAIN batches : batches[n] \in {b, c}
  /\ b.targets # {} => \E n \in DOMAIN batches : batches[n] = b
  /\ c.targets # {} => \E n \in DOMAIN batches : batches[n] = c

\* Two batches as a list.
LEMMA BatchesOf ==
  ASSUME NEW b, NEW c
  PROVE  AreBatches(Batch(b) \o Batch(c), b, c)
<1> DEFINE batches == Batch(b) \o Batch(c)
<1>1. /\ Batch(b) \in Seq({b, c}) /\ Batch(c) \in Seq({b, c})
      /\ b.targets # {} => Len(Batch(b)) = 1 /\ Batch(b)[1] = b
      /\ c.targets # {} => Len(Batch(c)) = 1 /\ Batch(c)[1] = c
  <2>1. ASSUME NEW a \in {b, c}
        PROVE  Batch(a) \in Seq({b, c}) /\ (a.targets # {} => Len(Batch(a)) = 1 /\ Batch(a)[1] = a)
    <3>1. CASE a.targets = {}
      BY <3>1 DEF Batch
    <3>2. CASE a.targets # {}
      <4>1. Batch(a) = <<a>>
        BY <3>2 DEF Batch
      <4> QED
        BY <4>1
    <3> QED
      BY <3>1, <3>2
  <2> QED
    BY <2>1
<1>2. /\ batches \in Seq({b, c}) /\ Len(batches) = Len(Batch(b)) + Len(Batch(c))
      /\ \A n \in 1..Len(Batch(b)) : batches[n] = Batch(b)[n]
      /\ \A n \in 1..Len(Batch(c)) : batches[Len(Batch(b)) + n] = Batch(c)[n]
      /\ Len(Batch(b)) \in Nat /\ Len(Batch(c)) \in Nat
  BY <1>1
<1> HIDE DEF batches
<1>3. DOMAIN batches = 1..Len(batches) /\ \A n \in DOMAIN batches : batches[n] \in {b, c}
  BY <1>2
<1>4. b.targets # {} => 1 \in DOMAIN batches /\ batches[1] = b
  BY <1>1, <1>2, <1>3
<1>5. c.targets # {} => Len(Batch(b)) + 1 \in DOMAIN batches /\ batches[Len(Batch(b)) + 1] = c
  BY <1>1, <1>2, <1>3
<1> QED
  BY <1>3, <1>4, <1>5 DEF AreBatches, batches

\* The batches of a program ask for all its readbacks.
LEMMA ProgramAnswers ==
  ASSUME NEW exe, WellFormed(exe), NEW inputs, NEW mode, NEW ids,
         BoardProgram(exe, inputs, mode, ids).ok
  PROVE  Answers(exe, BoardProgram(exe, inputs, mode, ids).batches)
<1> DEFINE b0 == ReadbackBatch(exe, 0)  b1 == ReadbackBatch(exe, 1)
           program == BoardProgram(exe, inputs, mode, ids)
           batches == Batch(b0) \o Batch(b1)
<1>1. program = AssembledProgram(exe, inputs, mode, ids, WorkKeys(exe), batches)
  BY Zenon DEF BoardProgram, materializeProgram, Rejected, Batch
<1>2. program.ok
  OBVIOUS
<1>3. /\ \A t \in b0.targets : Asks(exe, b0, t)
      /\ \A i \in DOMAIN exe.readbacks :
           exe.readbacks[i].macro = 0 => \E t \in b0.targets : t.out = i
      /\ \A t \in b1.targets : Asks(exe, b1, t)
      /\ \A i \in DOMAIN exe.readbacks :
           exe.readbacks[i].macro = 1 => \E t \in b1.targets : t.out = i
  BY BatchAnswers
<1> HIDE DEF program, b0, b1
<1>4. /\ \A n \in DOMAIN batches : batches[n] \in {b0, b1}
      /\ b0.targets # {} => \E n \in DOMAIN batches : batches[n] = b0
      /\ b1.targets # {} => \E n \in DOMAIN batches : batches[n] = b1
  <2>1. AreBatches(batches, b0, b1)
    BY BatchesOf
  <2> QED
    BY <2>1 DEF AreBatches
<1> HIDE DEF batches
<1>5. program.batches = batches
  BY <1>1, <1>2 DEF AssembledProgram, Rejected
<1>6. \A n \in DOMAIN batches : \A t \in batches[n].targets : Asks(exe, batches[n], t)
  BY <1>3, <1>4
<1>7. ASSUME NEW i \in DOMAIN exe.readbacks
      PROVE  \E n \in DOMAIN batches : \E t \in batches[n].targets : t.out = i
  <2>1. exe.readbacks[i].macro \in {0, 1}
    BY WellRead DEF HasReadbacks
  <2>2. PICK b \in {b0, b1} : \E t \in b.targets : t.out = i
    BY <1>3, <2>1
  <2>3. \E n \in DOMAIN batches : batches[n] = b
    BY <1>4, <2>2
  <2> QED
    BY <2>2, <2>3
<1> QED
  BY <1>5, <1>6, <1>7 DEF Answers, program

\* The replies are the cells of the readbacks, whatever Macros were selected
\* before.
LEMMA RepliesOf ==
  ASSUME NEW exe, NEW ch, NEW batches, Serves(batches, DOMAIN exe.readbacks),
         Answers(exe, batches),
         \A i \in DOMAIN exe.readbacks : OutCell(exe, i) \in DOMAIN ch.cache
  PROVE  Replies(ch, batches) = [i \in DOMAIN exe.readbacks |-> ch.cache[OutCell(exe, i)]]
<1> DEFINE Cell(r) == <<Slot(r[2].core, SelectedAfter(ch, batches, r[1], r[2].core)), r[2].row>>
           Asked(r) ==
             \E q \in batches[r[1]].request :
               q.core \in {"all", ToString(r[2].core)} /\ q.row = r[2].row
           pairs == UNION {{n} \X batches[n].targets : n \in DOMAIN batches}
           asked == {r \in pairs : Asked(r)}
           sent == {r \in asked : Cell(r) \in DOMAIN ch.cache}
           outs == {r[2].out : r \in sent}
           reply == [i \in outs |-> ch.cache[Cell(CHOOSE r \in sent : r[2].out = i)]]
<1>1. Replies(ch, batches) = reply
  BY DEF Replies
<1>2. ASSUME NEW n \in DOMAIN batches, NEW t \in batches[n].targets
      PROVE  /\ <<n, t>> \in sent /\ Cell(<<n, t>>) = OutCell(exe, t.out)
             /\ t.out \in DOMAIN exe.readbacks
  <2>1. Asks(exe, batches[n], t)
    BY DEF Answers
  <2>2. batches[n].select \cap {"all", ToString(t.core)} # {} /\ n \in 1..Len(batches)
        /\ Len(batches) \in Nat
    BY DEF Serves
  <2> DEFINE selecting == {i \in 1..n : batches[i].select \cap {"all", ToString(t.core)} # {}}
  <2>3. n \in selecting /\ selecting \subseteq 1..n
    BY <2>2
  <2>4. Max(selecting) = n
    <3>1. Max(selecting) = CHOOSE x \in selecting : \A y \in selecting : x >= y
      BY DEF Max
    <3> HIDE DEF selecting
    <3>2. \A x \in selecting : (\A y \in selecting : x >= y) <=> x = n
      BY <2>2, <2>3
    <3> QED
      BY <2>3, <3>1, <3>2
  <2>5. SelectedAfter(ch, batches, n, t.core) = batches[n].macro
    <3>1. selecting # {}
      BY <2>3
    <3>2. SelectedAfter(ch, batches, n, t.core) =
            IF selecting = {} THEN ch.selected[t.core] ELSE batches[Max(selecting)].macro
      BY DEF SelectedAfter
    <3> HIDE DEF selecting
    <3> QED
      BY <2>4, <3>1, <3>2
  <2> HIDE DEF selecting
  <2>6. Cell(<<n, t>>) = OutCell(exe, t.out) /\ t.out \in DOMAIN exe.readbacks
    BY <2>1, <2>5 DEF Asks
  <2>7. Asked(<<n, t>>)
    BY <2>1 DEF Asks
  <2> HIDE DEF Cell, Asked
  <2>8. <<n, t>> \in pairs
    OBVIOUS
  <2> QED
    BY <2>6, <2>7, <2>8
<1>3. ASSUME NEW r \in sent
      PROVE  Cell(r) = OutCell(exe, r[2].out) /\ r[2].out \in DOMAIN exe.readbacks
  <2>1. PICK n \in DOMAIN batches : r \in {n} \X batches[n].targets
    BY <1>3
  <2>2. r[2] \in batches[n].targets /\ r = <<n, r[2]>>
    BY <2>1
  <2> HIDE DEF Cell, sent
  <2> QED
    BY <1>2, <2>2
<1>4. ASSUME NEW i \in DOMAIN exe.readbacks
      PROVE  \E r \in sent : r[2].out = i
  <2>1. PICK n \in DOMAIN batches : \E t \in batches[n].targets : t.out = i
    BY DEF Answers
  <2>2. PICK t \in batches[n].targets : t.out = i
    BY <2>1
  <2> HIDE DEF sent
  <2>3. <<n, t>> \in sent /\ <<n, t>>[2].out = i
    BY <1>2, <2>2
  <2> QED
    BY <2>3
<1> HIDE DEF Cell, sent
<1>5. outs = DOMAIN exe.readbacks
  <2>1. outs \subseteq DOMAIN exe.readbacks
    BY <1>3
  <2>2. \A i \in DOMAIN exe.readbacks : i \in outs
    BY <1>4
  <2> QED
    BY <2>1, <2>2
<1>6. ASSUME NEW i \in DOMAIN exe.readbacks
      PROVE  ch.cache[Cell(CHOOSE r \in sent : r[2].out = i)] = ch.cache[OutCell(exe, i)]
  <2> DEFINE of == CHOOSE r \in sent : r[2].out = i
  <2>1. of \in sent /\ of[2].out = i
    BY <1>4
  <2> HIDE DEF of
  <2>2. Cell(of) = OutCell(exe, i)
    BY <1>3, <2>1
  <2> QED
    BY <2>2 DEF of
<1> HIDE DEF outs
<1>7. reply = [i \in DOMAIN exe.readbacks |-> ch.cache[OutCell(exe, i)]]
  BY <1>5, <1>6
<1> QED
  BY <1>1, <1>7

-----------------------------------------------------------------------------
(* The two backends compute the same.                                      *)

\* The lanes of one reply, restored.
Decoded(lanes, values, exponents, type, input, mode) ==
  IF type = "i8" THEN lanes
  ELSE [l \in 1..Outs |->
          restoreBF16Output(lanes[l], exponents[l],
            mode = "sign-split" => hasBF16Support(Lane(values, l), input.support), input, mode)]

\* What the chip leaves of a work, restored, is the output of the work.
LEMMA RawRestored ==
  ASSUME NEW values, NEW exponents, NEW type \in {"i8", "bf16"}, NEW input, NEW mode,
         NEW raw, raw = MacroOutput(values, <<>>, type, input, "none", TRUE)
  PROVE  Decoded(raw, values, exponents, type, input, mode)
           = MacroOutput(values, exponents, type, input, mode, FALSE)
<1> DEFINE Sum(l) == DotLane(Lane(values, l), input.mantissas)
           Back(q, l) == restoreBF16Output(q, exponents[l],
                           mode = "sign-split" => hasBF16Support(Lane(values, l), input.support),
                           input, mode)
           value == MacroOutput(values, exponents, type, input, mode, FALSE)
           here == [l \in 1..Outs |->
                      LaneOutput(Lane(values, l), <<>>, l, type, input, "none", TRUE)]
           there == [l \in 1..Outs |->
                       LaneOutput(Lane(values, l), exponents, l, type, input, mode, FALSE)]
<1>1. Outs \in Nat
  BY ProgramAssumption
<1>2. raw = <<>> \o here /\ value = <<>> \o there
  BY DEF MacroOutput, List
<1>3. raw = here /\ value = there
  <2>1. /\ here = [l \in 1..Outs |-> here[l]] /\ there = [l \in 1..Outs |-> there[l]]
    OBVIOUS
  <2> HIDE DEF here, there, value
  <2> QED
    BY <1>1, <1>2, <2>1, ListIs
<1>4. CASE type = "i8"
  <2>1. ASSUME NEW l \in 1..Outs
        PROVE  LaneOutput(Lane(values, l), <<>>, l, type, input, "none", TRUE) =
                 LaneOutput(Lane(values, l), exponents, l, type, input, mode, FALSE)
    BY <1>4 DEF LaneOutput
  <2>2. here = there
    BY <2>1
  <2> QED
    BY <1>3, <1>4, <2>2 DEF Decoded
<1>5. CASE type = "bf16"
  <2>1. ASSUME NEW l \in 1..Outs
        PROVE  /\ LaneOutput(Lane(values, l), <<>>, l, type, input, "none", TRUE) =
                    int21ToBF16(Sum(l))
               /\ LaneOutput(Lane(values, l), exponents, l, type, input, mode, FALSE) =
                    Back(int21ToBF16(Sum(l)), l)
    BY <1>5 DEF LaneOutput
  <2> HIDE DEF Back, Sum, value
  <2>2. \A l \in 1..Outs : raw[l] = int21ToBF16(Sum(l)) /\ there[l] = Back(raw[l], l)
    BY <1>3, <2>1
  <2>3. there = [l \in 1..Outs |-> Back(raw[l], l)]
    BY <2>1, <2>2
  <2> HIDE DEF there
  <2>4. value = [l \in 1..Outs |-> Back(raw[l], l)]
    BY <1>3, <2>3
  <2> QED
    BY <1>5, <2>4 DEF Decoded, Back, value
<1> QED
  BY <1>4, <1>5

\* Replies that are what the chip computed for the work of each readback.
LEMMA RestoredIs ==
  ASSUME NEW exe, WellFormed(exe), NEW inputs, NEW mode, NEW raw,
         \A i \in DOMAIN exe.readbacks : raw[i] = Raw(exe, inputs, mode, WorkAt(exe, i))
  PROVE  Restored(exe, inputs, mode, raw) = Outputs(exe, inputs, mode)
<1> DEFINE R == Len(exe.readbacks)
           Input(i) == PreparedInput(exe.inputs[BindingOf(exe.inputs, exe.readbacks[i].key)],
                         inputs[BindingOf(exe.inputs, exe.readbacks[i].key)], mode)
           Weight(i) == Find(exe.weights, exe.readbacks[i].key)[1]
           Of(i) == IF exe.readbacks[i].dataType = "i8" THEN raw[i]
                    ELSE [l \in 1..Outs |-> restoreBF16Output(raw[i][l], Weight(i).exponents[l],
                            mode = "sign-split"
                              => hasBF16Support(Lane(Weight(i).values, l), Input(i).support),
                            Input(i), mode)]
           V(i) == Value(exe, inputs, mode, WorkAt(exe, i))
<1>1. Restored(exe, inputs, mode, raw) = <<>> \o [i \in 1..R |-> Of(i)]
  BY DEF Restored, List
<1>2. DOMAIN exe.readbacks = 1..R
  BY WellListed, Listed
<1>3. ASSUME NEW i \in 1..R PROVE Of(i) = V(i)
  <2> DEFINE k == WorkAt(exe, i)  weight == WeightFor(exe, k)
             input == InputValue(exe, inputs, mode, k)
  <2>1. i \in DOMAIN exe.readbacks
    BY <1>2
  <2>2. /\ k \in ToSet(WorkKeys(exe)) /\ k.key = exe.readbacks[i].key
        /\ ReadbackFor(exe, k) = exe.readbacks[i]
    BY <2>1, WorkOfReadback DEF WorkAt
  <2>3. /\ Find(exe.weights, k.key) = <<weight>> /\ weight.dataType \in {"i8", "bf16"}
        /\ ReadbackFor(exe, k).dataType = weight.dataType
    BY <2>2, WorkBound DEF Bound
  <2>4. Weight(i) = weight
    BY <2>2, <2>3
  <2>5. Input(i) = input
    BY <2>2 DEF InputValue, InputFor
  <2>6. exe.readbacks[i].dataType = weight.dataType
    BY <2>2, <2>3
  <2>7. raw[i] = MacroOutput(weight.values, <<>>, weight.dataType, input, "none", TRUE)
    BY <2>1 DEF Raw
  <2>8. V(i) = MacroOutput(weight.values, weight.exponents, weight.dataType, input, mode, FALSE)
    BY DEF Value
  <2> HIDE DEF V, Weight, Input, weight, input
  <2>9. Of(i) = Decoded(raw[i], weight.values, weight.exponents, weight.dataType, input, mode)
    BY <2>4, <2>5, <2>6 DEF Decoded
  <2> DEFINE lanes == raw[i]  type == weight.dataType  exponents == weight.exponents
             values == weight.values
  <2>10. lanes = MacroOutput(values, <<>>, type, input, "none", TRUE) /\ type \in {"i8", "bf16"}
    BY <2>3, <2>7
  <2> HIDE DEF lanes, type, exponents, values, Of
  <2>11. Decoded(lanes, values, exponents, type, input, mode) =
           MacroOutput(values, exponents, type, input, mode, FALSE)
    BY <2>10, RawRestored
  <2> QED
    BY <2>8, <2>9, <2>11 DEF lanes, type, exponents, values
<1> HIDE DEF Of, V
<1>4. [i \in 1..R |-> Of(i)] = [i \in 1..R |-> V(i)]
  BY <1>3
<1> QED
  BY <1>1, <1>4 DEF Outputs, V

\* A transaction whose program the board runner assembles, on a board in any state
\* whose table of residents is true: the board runner has its results.
LEMMA BoardOutputs ==
  ASSUME NEW exe, WellFormed(exe), NEW inputs, NEW mode, NEW ids \in {<<>>, Images(exe)},
         NEW program, program = BoardProgram(exe, inputs, mode, ids), program.ok,
         NEW ch, IsChip(ch), NEW re, IsTable(re), Holds(ch, re)
  PROVE  LET run == ProgramRun(exe, inputs, mode, program, ch, re)
         IN run.ok /\ run.outs = Outputs(exe, inputs, mode)
<1> DEFINE ops == program.operations
           written == Operated(ch, re, ops, program.tracked)[Len(ops)]
           worked == ChipWork(written.chip, program.work)
           there == Execute(ch, re, program)
<1>1. /\ IsState(written)
      /\ \A k \in ToSet(WorkKeys(exe)) : ChipHas(exe, inputs, mode, written.chip, k)
  BY WrittenHas
<1>2. \A k \in ToSet(WorkKeys(exe)) : k.w.core \in program.work
  BY ProgramApart
<1>3. there.out = Replies(worked, program.batches)
  BY DEF Execute
<1>4. Serves(program.batches, DOMAIN exe.readbacks) /\ Answers(exe, program.batches)
  BY ProgramServes, ProgramAnswers
<1> HIDE DEF written
<1>5. ASSUME NEW k \in ToSet(WorkKeys(exe))
      PROVE  /\ InputCell(exe, k) \in DOMAIN worked.cache
             /\ worked.cache[InputCell(exe, k)] = Raw(exe, inputs, mode, k)
  <2> DEFINE chip == written.chip  cores == program.work
  <2>1. IsChip(chip) /\ ChipHas(exe, inputs, mode, chip, k) /\ k.w.core \in cores
    BY <1>1, <1>2 DEF IsState
  <2> HIDE DEF chip, cores
  <2>2. LET cache == ChipWork(chip, cores).cache
        IN /\ InputCell(exe, k) \in DOMAIN cache
           /\ cache[InputCell(exe, k)] = Raw(exe, inputs, mode, k)
    BY <2>1, WorkedHas
  <2> QED
    BY <2>2 DEF chip, cores
<1> HIDE DEF worked, there
<1>6. ASSUME NEW i \in DOMAIN exe.readbacks
      PROVE  /\ OutCell(exe, i) \in DOMAIN worked.cache
             /\ worked.cache[OutCell(exe, i)] = Raw(exe, inputs, mode, WorkAt(exe, i))
  <2>1. WorkAt(exe, i) \in ToSet(WorkKeys(exe))
    BY WorkOfReadback DEF WorkAt
  <2> QED
    BY <1>5, <2>1 DEF OutCell
<1>7. there.out = [i \in DOMAIN exe.readbacks |-> worked.cache[OutCell(exe, i)]]
  BY <1>3, <1>4, <1>6, RepliesOf
<1> DEFINE raw == there.out
<1>8. /\ DOMAIN raw = DOMAIN exe.readbacks
      /\ \A i \in DOMAIN exe.readbacks : raw[i] = Raw(exe, inputs, mode, WorkAt(exe, i))
  BY <1>6, <1>7
<1> HIDE DEF raw
<1>9. Restored(exe, inputs, mode, raw) = Outputs(exe, inputs, mode)
  BY <1>8, RestoredIs
<1>10. ProgramRun(exe, inputs, mode, program, ch, re) = BoardResult(exe, inputs, mode, there)
  BY DEF ProgramRun, there
<1>11. /\ BoardResult(exe, inputs, mode, there).ok
       /\ BoardResult(exe, inputs, mode, there).outs = Outputs(exe, inputs, mode)
  BY <1>8, <1>9 DEF BoardResult, raw
<1> QED
  BY <1>10, <1>11

\* The two backends agree: a transaction of the compiler whose program the board
\* runner assembles, on inputs in their range, succeeds on a board in any state
\* whose table of residents is true and in the software runner, with the same results.
THEOREM BackendsEqual ==
  ASSUME NEW exe, WellFormed(exe), NEW inputs, NEW mode, InRange(exe, inputs, mode),
         NEW ids \in {<<>>, Images(exe)},
         NEW program, program = BoardProgram(exe, inputs, mode, ids), program.ok,
         NEW ch, IsChip(ch), NEW re, IsTable(re), Holds(ch, re)
  PROVE  LET board == ProgramRun(exe, inputs, mode, program, ch, re)
             software == SoftwareRun(exe, inputs, mode, NothingResident, <<>>)
         IN board.ok /\ software.ok /\ board.outs = software.outs
<1>1. LET run == ProgramRun(exe, inputs, mode, program, ch, re)
      IN run.ok /\ run.outs = Outputs(exe, inputs, mode)
  BY BoardOutputs
<1>2. ~BoardRefuses(exe, inputs, mode, ids) /\ SlotsApart(exe)
  BY ProgramIs, ProgramApart
<1>3. LET run == SoftwareRun(exe, inputs, mode, NothingResident, <<>>)
      IN run.ok /\ run.outs = Outputs(exe, inputs, mode)
  BY <1>2, ProgramAccepted, SoftwareOutputs
<1> QED
  BY <1>1, <1>3
=============================================================================
