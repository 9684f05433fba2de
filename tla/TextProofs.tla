----------------------------- MODULE TextProofs -----------------------------
(***************************************************************************)
(* Proofs about the texts that are written: the literals and names of      *)
(* Literals, for integers of any width and names of any length, the names  *)
(* of files of TmpName, for any number of letters and digits, and the      *)
(* arguments and the header of GenText, of any length; and about the text  *)
(* that is read for its exports (DccScan), of any length.                  *)
(***************************************************************************)
EXTENDS Parts, Numbers, SequencesExt, SequenceTheorems, WellFoundedInduction, TLAPS

LEMMA Induction ==
  ASSUME NEW S, 0 \in S, \A n \in Nat : n \in S => n + 1 \in S
  PROVE  \A n \in Nat : n \in S
<1> DEFINE T == Nat \ S
<1> SUFFICES ASSUME T # {} PROVE FALSE
  OBVIOUS
<1>1. IsWellFoundedOn(OpToRel(<, Nat), Nat)
  BY NatLessThanWellFounded
<1>2. T \subseteq Nat
  OBVIOUS
<1>3. PICK x \in T : \A y \in T : ~(<<y, x>> \in OpToRel(<, Nat))
  <2> HIDE DEF T
  <2> QED BY <1>1, <1>2, WFMin
<1>4. \A m, n \in Nat : m < n => <<m, n>> \in OpToRel(<, Nat)
  BY DEF OpToRel
<1>5. x \in T /\ \A y \in T : ~(y < x)
  BY <1>2, <1>3, <1>4, Zenon
<1>6. x # 0 /\ x - 1 \in Nat /\ x - 1 < x /\ x = (x - 1) + 1
  BY <1>5
<1>7. x - 1 \in S
  BY <1>5, <1>6
<1> QED BY <1>5, <1>6, <1>7

(* The first n + 1 values of a sequence defined by recursion. *)
Begins(V, g, start, step, n) ==
  g \in [0 .. n -> V] /\ g[0] = start /\ \A k \in 0 .. n - 1 : g[k + 1] = step[<<k, g[k]>>]

(* The prover does not know that there are recursive functions. *)
Recurrence(V, start, step) == start \in V /\ step \in [Nat \X V -> V]

Obeys(V, start, step, f) ==
  f \in [Nat -> V] /\ f[0] = start /\ \A n \in Nat : f[n + 1] = step[<<n, f[n]>>]

LEMMA Recursion ==
  ASSUME NEW V, NEW start, NEW step, Recurrence(V, start, step)
  PROVE  \E f : Obeys(V, start, step, f)
<1>0. start \in V /\ step \in [Nat \X V -> V]
  BY DEF Recurrence
<1>1. \A n \in Nat : \E g : Begins(V, g, start, step, n)
  <2> DEFINE S == {n \in Nat : \E g : Begins(V, g, start, step, n)}
  <2>1. 0 \in S
    <3>1. Begins(V, [k \in 0 .. 0 |-> start], start, step, 0)
      BY <1>0 DEF Begins
    <3> QED BY <3>1
  <2>2. ASSUME NEW n \in Nat, n \in S PROVE n + 1 \in S
    <3>1. PICK g : Begins(V, g, start, step, n)
      BY <2>2
    <3>2. \A k \in 0 .. n : g[k] \in V
      BY <3>1 DEF Begins
    <3>3. PICK next \in V : next = step[<<n, g[n]>>]
      BY <1>0, <3>2
    <3> DEFINE h == [k \in 0 .. n + 1 |-> IF k = n + 1 THEN next ELSE g[k]]
    <3>4. h \in [0 .. n + 1 -> V] /\ h[n + 1] = next /\ \A k \in 0 .. n : h[k] = g[k]
      BY <3>2, <3>3
    <3>5. \A k \in 0 .. n : h[k + 1] = step[<<k, h[k]>>]
      <4> SUFFICES ASSUME NEW k \in 0 .. n PROVE h[k + 1] = step[<<k, h[k]>>]
        OBVIOUS
      <4> HIDE DEF h
      <4>1. CASE k = n
        BY <3>3, <3>4, <4>1
      <4>2. CASE k # n
        <5>1. k \in 0 .. n - 1 /\ k + 1 \in 0 .. n
          BY <4>2
        <5>2. g[k + 1] = step[<<k, g[k]>>]
          BY <3>1, <5>1 DEF Begins
        <5> QED BY <3>4, <5>1, <5>2
      <4> QED BY <4>1, <4>2
    <3>6. Begins(V, h, start, step, n + 1)
      <4> HIDE DEF h
      <4>1. n + 1 - 1 = n /\ h[0] = start
        BY <3>1, <3>4 DEF Begins
      <4> QED BY <3>4, <3>5, <4>1 DEF Begins
    <3> QED BY <3>6
  <2>3. \A n \in Nat : n \in S
    <3> HIDE DEF S
    <3> QED BY <2>1, <2>2, Induction
  <2> QED BY <2>3
<1>2. ASSUME NEW n \in Nat, NEW m \in Nat, NEW g, NEW h,
             Begins(V, g, start, step, n), Begins(V, h, start, step, m)
      PROVE  \A k \in Nat : k <= n /\ k <= m => g[k] = h[k]
  <2> DEFINE S == {k \in Nat : k <= n /\ k <= m => g[k] = h[k]}
  <2>1. 0 \in S
    BY <1>2 DEF Begins
  <2>2. ASSUME NEW k \in Nat, k \in S PROVE k + 1 \in S
    <3> SUFFICES ASSUME k + 1 <= n, k + 1 <= m PROVE g[k + 1] = h[k + 1]
      OBVIOUS
    <3>1. k \in 0 .. n - 1 /\ k \in 0 .. m - 1 /\ g[k] = h[k]
      BY <2>2
    <3> QED BY <1>2, <3>1 DEF Begins
  <2>3. \A k \in Nat : k \in S
    <3> HIDE DEF S
    <3> QED BY <2>1, <2>2, Induction
  <2> QED BY <2>3
<1> DEFINE G(n) == CHOOSE g : Begins(V, g, start, step, n)
           F == [n \in Nat |-> G(n)[n]]
<1>3. \A n \in Nat : Begins(V, G(n), start, step, n)
  BY <1>1
<1>4. \A n \in Nat : F[n] = G(n)[n] /\ F[n] \in V
  <2> SUFFICES ASSUME NEW n \in Nat PROVE G(n)[n] \in V
    OBVIOUS
  <2> HIDE DEF G
  <2> QED BY <1>3 DEF Begins
<1>5. F \in [Nat -> V]
  BY <1>4
<1>6. F[0] = start
  <2> HIDE DEF G, F
  <2> QED BY <1>3, <1>4 DEF Begins
<1>7. \A n \in Nat : F[n + 1] = step[<<n, F[n]>>]
  <2> SUFFICES ASSUME NEW n \in Nat PROVE F[n + 1] = step[<<n, F[n]>>]
    OBVIOUS
  <2> HIDE DEF G, F
  <2>1. G(n + 1)[n + 1] = step[<<n, G(n + 1)[n]>>]
    BY <1>3 DEF Begins
  <2>2. G(n + 1)[n] = G(n)[n]
    BY <1>2, <1>3
  <2> QED BY <1>4, <2>1, <2>2
<1> QED BY <1>5, <1>6, <1>7 DEF Obeys

(* Powers and numbers, without their recursive definitions. *)
LEMMA PowersOf ==
  ASSUME NEW b \in Nat \ {0}
  PROVE  /\ Powers(b)[0] = 1
         /\ \A n \in Nat : Powers(b)[n] \in Nat \ {0} /\ Powers(b)[n + 1] = b * Powers(b)[n]
<1> DEFINE Q(f) == [n \in Nat |-> IF n = 0 THEN 1 ELSE b * f[n - 1]]
           power == CHOOSE f : f = Q(f)
<1>1. PICK f \in [Nat -> Int] : f[0] = 1 /\ \A n \in Nat : f[n + 1] = b * f[n]
  <2> DEFINE step == [x \in Nat \X Int |-> b * x[2]]
  <2>1. step \in [Nat \X Int -> Int] /\ \A n \in Nat, v \in Int : step[<<n, v>>] = b * v
    OBVIOUS
  <2>2. PICK f \in [Nat -> Int] : f[0] = 1 /\ \A n \in Nat : f[n + 1] = step[<<n, f[n]>>]
    <3> HIDE DEF step
    <3>1. Recurrence(Int, 1, step)
      BY <2>1 DEF Recurrence
    <3>2. PICK f : Obeys(Int, 1, step, f)
      BY <3>1, Recursion
    <3> QED BY <3>2 DEF Obeys
  <2> HIDE DEF step
  <2> QED BY <2>1, <2>2
<1>2. f = Q(f)
  <2>1. \A n \in Nat : f[n] = (IF n = 0 THEN 1 ELSE b * f[n - 1])
    <3> SUFFICES ASSUME NEW n \in Nat, n # 0 PROVE f[n] = b * f[n - 1]
      BY <1>1
    <3>1. n - 1 \in Nat /\ (n - 1) + 1 = n
      OBVIOUS
    <3> QED BY <1>1, <3>1
  <2> QED BY <2>1
<1>3. power = Q(power)
  BY <1>2, Zenon
<1>4. Powers(b) = power
  BY Zenon DEF Powers
<1>5. \A n \in Nat : Powers(b)[n] = IF n = 0 THEN 1 ELSE b * Powers(b)[n - 1]
  <2> HIDE DEF power
  <2> QED BY <1>3, <1>4
<1>6. Powers(b)[0] = 1 /\ \A n \in Nat : Powers(b)[n + 1] = b * Powers(b)[n]
  <2>1. \A n \in Nat : n + 1 \in Nat /\ n + 1 # 0 /\ (n + 1) - 1 = n
    OBVIOUS
  <2> QED BY <1>5, <2>1
<1>7. \A n \in Nat : Powers(b)[n] \in Nat \ {0}
  <2> DEFINE S == {n \in Nat : Powers(b)[n] \in Nat \ {0}}
  <2>1. 0 \in S
    BY <1>6
  <2>2. ASSUME NEW n \in Nat, n \in S PROVE n + 1 \in S
    <3>1. PICK v \in Nat \ {0} : v = Powers(b)[n]
      BY <2>2
    <3>2. b * v \in Nat \ {0}
      OBVIOUS
    <3> QED BY <1>6, <3>1, <3>2
  <2>3. \A n \in Nat : n \in S
    <3> HIDE DEF S
    <3> QED BY <2>1, <2>2, Induction
  <2> QED BY <2>3
<1> QED BY <1>6, <1>7

(* The numbers the beginnings of x stand for. *)
Beginnings(b, x, u) ==
  /\ u \in [0 .. Len(x) -> Int] /\ u[0] = 0
  /\ \A n \in 0 .. Len(x) - 1 : u[n + 1] = b * u[n] + x[n + 1]

LEMMA NumberIsLast ==
  ASSUME NEW b \in Int, NEW x \in Seq(Int)
  PROVE  \E u : Beginnings(b, x, u) /\ Number(b, x) = u[Len(x)] /\ u[Len(x)] \in Int
<1>0. Len(x) \in Nat /\ \A n \in 1 .. Len(x) : x[n] \in Int
  OBVIOUS
<1> DEFINE digit == [n \in Nat |-> IF n \in 0 .. Len(x) - 1 THEN x[n + 1] ELSE 0]
<1>1. digit \in [Nat -> Int] /\ \A n \in 0 .. Len(x) - 1 : digit[n] = x[n + 1]
  <2>1. ASSUME NEW n \in 0 .. Len(x) - 1 PROVE x[n + 1] \in Int
    <3>1. n + 1 \in 1 .. Len(x)
      BY <1>0
    <3> QED BY <1>0, <3>1
  <2> QED BY <1>0, <2>1
<1> HIDE DEF digit
<1>2. PICK f \in [Nat -> Int] : f[0] = 0 /\ \A n \in Nat : f[n + 1] = b * f[n] + digit[n]
  <2> DEFINE step == [y \in Nat \X Int |-> b * y[2] + digit[y[1]]]
  <2>1. step \in [Nat \X Int -> Int] /\ \A n \in Nat, v \in Int : step[<<n, v>>] = b * v + digit[n]
    BY <1>0, <1>1, SMTT(30)
  <2>2. PICK f \in [Nat -> Int] : f[0] = 0 /\ \A n \in Nat : f[n + 1] = step[<<n, f[n]>>]
    <3> HIDE DEF step
    <3>1. Recurrence(Int, 0, step)
      BY <2>1 DEF Recurrence
    <3>2. PICK f : Obeys(Int, 0, step, f)
      BY <3>1, Recursion
    <3> QED BY <3>2 DEF Obeys
  <2> HIDE DEF step
  <2> QED BY <2>1, <2>2
<1> DEFINE Q(u) == [n \in 0 .. Len(x) |-> IF n = 0 THEN 0 ELSE b * u[n - 1] + x[n]]
           first == CHOOSE u : u = Q(u)
           g == [n \in 0 .. Len(x) |-> f[n]]
<1>3. g = Q(g)
  <2>1. ASSUME NEW n \in 0 .. Len(x), n # 0 PROVE f[n] = b * f[n - 1] + x[n]
    <3>1. n - 1 \in Nat /\ (n - 1) + 1 = n /\ n - 1 \in 0 .. Len(x) - 1
      BY <1>0, <2>1
    <3>2. f[(n - 1) + 1] = b * f[n - 1] + digit[n - 1]
      BY <1>2, <3>1
    <3> QED BY <1>1, <3>1, <3>2
  <2>2. \A n \in 0 .. Len(x) : g[n] = IF n = 0 THEN 0 ELSE b * g[n - 1] + x[n]
    <3> SUFFICES ASSUME NEW n \in 0 .. Len(x), n # 0 PROVE g[n] = b * g[n - 1] + x[n]
      BY <1>0, <1>2
    <3>1. n - 1 \in 0 .. Len(x)
      BY <1>0
    <3> QED BY <2>1, <3>1
  <2> QED BY <2>2
<1>4. first = Q(first)
  BY <1>3, Zenon
<1>5. Number(b, x) = first[Len(x)]
  BY Zenon DEF Number
<1>6. \A n \in 0 .. Len(x) : first[n] = IF n = 0 THEN 0 ELSE b * first[n - 1] + x[n]
  <2> HIDE DEF first
  <2> QED BY <1>4
<1>7. Beginnings(b, x, first)
  <2> HIDE DEF first
  <2>1. \A n \in Nat : n <= Len(x) => first[n] \in Int
    <3> DEFINE S == {n \in Nat : n <= Len(x) => first[n] \in Int}
    <3>1. 0 \in S
      BY <1>0, <1>6
    <3>2. ASSUME NEW n \in Nat, n \in S PROVE n + 1 \in S
      <4> SUFFICES ASSUME n + 1 <= Len(x) PROVE first[n + 1] \in Int
        OBVIOUS
      <4>1. n + 1 \in 0 .. Len(x) /\ n + 1 # 0 /\ (n + 1) - 1 = n /\ n + 1 \in 1 .. Len(x) /\ first[n] \in Int
        BY <1>0, <3>2
      <4>2. first[n + 1] = b * first[n] + x[n + 1]
        BY <1>6, <4>1
      <4>3. x[n + 1] \in Int
        BY <1>0, <4>1
      <4> QED BY <4>1, <4>2, <4>3
    <3>3. \A n \in Nat : n \in S
      <4> HIDE DEF S
      <4> QED BY <3>1, <3>2, Induction
    <3> QED BY <3>3
  <2>2. first \in [0 .. Len(x) -> Int]
    <3>1. \A n \in 0 .. Len(x) : first[n] \in Int
      BY <1>0, <2>1
    <3> QED BY <1>4, <3>1
  <2>3. ASSUME NEW n \in 0 .. Len(x) - 1 PROVE first[n + 1] = b * first[n] + x[n + 1]
    <3>1. n + 1 \in 0 .. Len(x) /\ n + 1 # 0 /\ (n + 1) - 1 = n
      BY <1>0
    <3> QED BY <1>6, <3>1
  <2>4. first[0] = 0
    BY <1>0, <1>6
  <2> QED BY <2>2, <2>3, <2>4 DEF Beginnings
<1>8. first[Len(x)] \in Int
  <2> HIDE DEF first
  <2> QED BY <1>0, <1>7 DEF Beginnings
<1> QED BY <1>5, <1>7, <1>8

LEMMA Distributive ==
  ASSUME NEW b \in Int, NEW a \in Int, NEW d \in Int, NEW v \in Int
  PROVE  d * (b * v) = b * (d * v) /\ b * (a + d * v) = b * a + b * (d * v)
OBVIOUS

(* A digit changes the number by its weight. *)
LEMMA OneDigit ==
  ASSUME NEW b \in Nat \ {0}, NEW x \in Seq(Int), NEW y \in Seq(Int), Len(y) = Len(x),
         NEW m \in 1 .. Len(x), NEW d \in Int,
         \A n \in 1 .. Len(x) : n # m => y[n] = x[n],
         y[m] = x[m] + d
  PROVE  /\ Number(b, x) \in Int
         /\ Number(b, y) = Number(b, x) + d * Powers(b)[Len(x) - m]
<1>0. Len(x) \in Nat /\ \A n \in 1 .. Len(x) : x[n] \in Int
  OBVIOUS
<1>1. PICK u : Beginnings(b, x, u) /\ Number(b, x) = u[Len(x)] /\ u[Len(x)] \in Int
  <2>1. b \in Int /\ x \in Seq(Int)
    OBVIOUS
  <2> QED BY <2>1, NumberIsLast, Zenon
<1>a. PICK w : Beginnings(b, y, w) /\ Number(b, y) = w[Len(y)]
  <2>1. b \in Int /\ y \in Seq(Int)
    OBVIOUS
  <2> QED BY <2>1, NumberIsLast, Zenon
<1>2. Beginnings(b, y, w) /\ Number(b, y) = w[Len(x)]
  BY <1>a
<1> DEFINE more(n) == IF n < m THEN 0 ELSE d * Powers(b)[n - m]
           S == {n \in Nat : n <= Len(x) => w[n] = u[n] + more(n)}
<1>3. 0 \in S
  BY <1>0, <1>1, <1>2 DEF Beginnings
<1>4. ASSUME NEW n \in Nat, n \in S PROVE n + 1 \in S
  <2> SUFFICES ASSUME n + 1 <= Len(x) PROVE w[n + 1] = u[n + 1] + more(n + 1)
    OBVIOUS
  <2>1. n \in 0 .. Len(x) - 1 /\ n + 1 \in 1 .. Len(x)
    BY <1>0
  <2>2. /\ u[n + 1] = b * u[n] + x[n + 1] /\ u[n] \in Int
        /\ w[n + 1] = b * w[n] + y[n + 1]
        /\ x[n + 1] \in Int /\ w[n] = u[n] + more(n)
    <3>1. /\ u \in [0 .. Len(x) -> Int] /\ u[n + 1] = b * u[n] + x[n + 1]
          /\ w[n + 1] = b * w[n] + y[n + 1]
      BY <1>1, <1>2, <2>1 DEF Beginnings
    <3>2. n \in 0 .. Len(x) /\ w[n] = u[n] + more(n)
      BY <1>0, <1>4, <2>1
    <3> HIDE DEF more
    <3> QED BY <1>0, <2>1, <3>1, <3>2
  <2>3. CASE n + 1 < m
    <3>1. more(n) = 0 /\ more(n + 1) = 0 /\ y[n + 1] = x[n + 1]
      BY <1>0, <2>1, <2>3
    <3> HIDE DEF more
    <3> QED BY <2>2, <3>1, SMTT(30)
  <2>4. CASE n + 1 = m
    <3>1. more(n) = 0 /\ more(n + 1) = d
      <4>1. (n + 1) - m = 0 /\ n < m /\ ~(n + 1 < m) /\ Powers(b)[0] = 1
        BY <2>4, PowersOf
      <4> QED BY <4>1, SMTT(30)
    <3>2. y[n + 1] = x[n + 1] + d
      BY <2>4
    <3> HIDE DEF more
    <3> QED BY <2>2, <3>1, <3>2, SMTT(30)
  <2>5. CASE n + 1 > m
    <3>1. PICK k \in Nat : k = n - m
      BY <1>0, <2>5
    <3>2. (n + 1) - m = k + 1 /\ ~(n < m) /\ ~(n + 1 < m) /\ n + 1 # m
      BY <2>5, <3>1
    <3>3. PICK v \in Nat : v = Powers(b)[k] /\ Powers(b)[k + 1] = b * v
      BY PowersOf
    <3>4. more(n) = d * v /\ more(n + 1) = d * (b * v)
      BY <3>1, <3>2, <3>3
    <3>5. y[n + 1] = x[n + 1]
      BY <2>1, <3>2
    <3>6. PICK a \in Int : a = u[n]
      BY <2>2
    <3>7. d * (b * v) = b * (d * v) /\ b * (a + d * v) = b * a + b * (d * v)
      BY Distributive
    <3>8. PICK e \in Int, h \in Int : e = b * a /\ h = b * (d * v)
      OBVIOUS
    <3> HIDE DEF more
    <3>9. w[n] = a + d * v
      BY <2>2, <3>4, <3>6
    <3>10. b * w[n] = e + h /\ b * u[n] = e /\ more(n + 1) = h
      BY <3>4, <3>6, <3>7, <3>8, <3>9, Zenon
    <3> QED BY <2>2, <3>5, <3>8, <3>10, SMTT(30)
  <2> QED BY <2>1, <2>3, <2>4, <2>5, <1>0
<1>5. \A n \in Nat : n \in S
  <2> HIDE DEF S
  <2> QED BY <1>3, <1>4, Induction
<1>6. w[Len(x)] = u[Len(x)] + more(Len(x))
  <2>1. Len(x) \in S
    <3> HIDE DEF S
    <3> QED BY <1>0, <1>5
  <2> HIDE DEF more
  <2> QED BY <1>0, <2>1
<1> QED BY <1>0, <1>1, <1>2, <1>6

LEMMA Zero ==
  ASSUME NEW b \in Nat \ {0}, NEW x \in Seq(Int), \A n \in 1 .. Len(x) : x[n] = 0
  PROVE  Number(b, x) = 0
<1>0. Len(x) \in Nat
  OBVIOUS
<1>1. PICK u : Beginnings(b, x, u) /\ Number(b, x) = u[Len(x)]
  BY NumberIsLast
<1> DEFINE S == {n \in Nat : n <= Len(x) => u[n] = 0}
<1>2. 0 \in S
  BY <1>1 DEF Beginnings
<1>3. ASSUME NEW n \in Nat, n \in S PROVE n + 1 \in S
  <2> SUFFICES ASSUME n + 1 <= Len(x) PROVE u[n + 1] = 0
    OBVIOUS
  <2>1. n \in 0 .. Len(x) - 1 /\ n + 1 \in 1 .. Len(x)
    BY <1>0
  <2>2. u[n + 1] = b * u[n] + x[n + 1] /\ u[n] = 0
    BY <1>0, <1>1, <1>3, <2>1 DEF Beginnings
  <2> QED BY <2>1, <2>2
<1>4. \A n \in Nat : n \in S
  <2> HIDE DEF S
  <2> QED BY <1>2, <1>3, Induction
<1> QED BY <1>0, <1>1, <1>4

(* A digit written to the left of x. *)
LEMMA FirstDigit ==
  ASSUME NEW b \in Nat \ {0}, NEW x \in Seq(Int), NEW y \in Seq(Int), Len(y) = Len(x) + 1,
         \A n \in 1 .. Len(x) : y[n + 1] = x[n]
  PROVE  /\ Number(b, x) \in Int
         /\ Number(b, y) = y[1] * Powers(b)[Len(x)] + Number(b, x)
<1>0. Len(x) \in Nat /\ (\A n \in 1 .. Len(x) : x[n] \in Int) /\ 1 \in 1 .. Len(y) /\ y[1] \in Int
  OBVIOUS
<1>1. PICK u : Beginnings(b, x, u) /\ Number(b, x) = u[Len(x)] /\ u[Len(x)] \in Int
  BY NumberIsLast
<1>2. PICK w : Beginnings(b, y, w) /\ Number(b, y) = w[Len(x) + 1]
  BY NumberIsLast
<1>3. PICK v \in Int : v = y[1]
  BY <1>0
<1> DEFINE S == {n \in Nat : n <= Len(x) => w[n + 1] = v * Powers(b)[n] + u[n]}
<1>4. 0 \in S
  <2>1. 0 \in 0 .. Len(y) - 1 /\ 0 + 1 = 1
    BY <1>0
  <2>2. w[0 + 1] = b * w[0] + y[0 + 1] /\ w[0] = 0 /\ u[0] = 0 /\ Powers(b)[0] = 1
    BY <1>1, <1>2, <2>1, PowersOf DEF Beginnings
  <2> QED BY <1>3, <2>1, <2>2
<1>5. ASSUME NEW n \in Nat, n \in S PROVE n + 1 \in S
  <2> SUFFICES ASSUME n + 1 <= Len(x) PROVE w[(n + 1) + 1] = v * Powers(b)[n + 1] + u[n + 1]
    OBVIOUS
  <2>1. n \in 0 .. Len(x) - 1 /\ n + 1 \in 0 .. Len(y) - 1 /\ n + 1 \in 1 .. Len(x) /\ n \in 0 .. Len(x)
    BY <1>0
  <2>2. /\ u \in [0 .. Len(x) -> Int] /\ u[n + 1] = b * u[n] + x[n + 1]
        /\ w[(n + 1) + 1] = b * w[n + 1] + y[(n + 1) + 1]
    BY <1>1, <1>2, <2>1 DEF Beginnings
  <2>3. w[n + 1] = v * Powers(b)[n] + u[n] /\ u[n] \in Int /\ x[n + 1] \in Int
    <3>1. w[n + 1] = v * Powers(b)[n] + u[n]
      BY <1>5, <2>1
    <3>2. u[n] \in Int
      BY <2>1, <2>2
    <3>3. x[n + 1] \in Int
      BY <1>0, <2>1
    <3> QED BY <3>1, <3>2, <3>3
  <2>4. y[(n + 1) + 1] = x[n + 1]
    BY <2>1
  <2>5. PICK q \in Nat : q = Powers(b)[n] /\ Powers(b)[n + 1] = b * q
    BY PowersOf
  <2>6. PICK a \in Int : a = u[n]
    BY <2>3
  <2>7. v * (b * q) = b * (v * q) /\ b * (a + v * q) = b * a + b * (v * q)
    BY Distributive
  <2>8. PICK e \in Int, h \in Int, z \in Int : e = b * a /\ h = b * (v * q) /\ z = v * q
    OBVIOUS
  <2>9. w[n + 1] = a + z
    <3>1. v * Powers(b)[n] = z
      BY <2>5, <2>8
    <3> QED BY <2>3, <2>6, <2>8, <3>1, SMTT(30)
  <2>10. b * w[n + 1] = e + h /\ b * u[n] = e /\ v * Powers(b)[n + 1] = h
    BY <2>5, <2>6, <2>7, <2>8, <2>9, Zenon
  <2>11. PICK t \in Int : t = x[n + 1]
    BY <2>3
  <2>12. w[(n + 1) + 1] = (e + h) + t /\ u[n + 1] = e + t
    BY <2>2, <2>4, <2>10, <2>11, Zenon
  <2>13. (e + h) + t = h + (e + t)
    OBVIOUS
  <2> QED BY <2>10, <2>12, <2>13, Zenon
<1>6. \A n \in Nat : n \in S
  <2> HIDE DEF S
  <2> QED BY <1>4, <1>5, Induction
<1> QED BY <1>0, <1>1, <1>2, <1>3, <1>6

(* Three digits are enough for a byte. *)
LEMMA ThreeDigits == \A n \in Nat : Powers(256)[n] <= Powers(10)[3 * n]
<1>0. 10 \in Nat \ {0} /\ 256 \in Nat \ {0}
  OBVIOUS
<1>1. /\ Powers(10)[0] = 1
      /\ \A n \in Nat : Powers(10)[n] \in Nat /\ Powers(10)[n + 1] = 10 * Powers(10)[n]
  BY <1>0, PowersOf
<1>2. /\ Powers(256)[0] = 1
      /\ \A n \in Nat : Powers(256)[n] \in Nat /\ Powers(256)[n + 1] = 256 * Powers(256)[n]
  BY <1>0, PowersOf
<1> DEFINE S == {n \in Nat : Powers(256)[n] <= Powers(10)[3 * n]}
<1>3. 0 \in S
  <2>1. 3 * 0 = 0
    OBVIOUS
  <2> QED BY <1>1, <1>2, <2>1
<1>4. ASSUME NEW n \in Nat, n \in S PROVE n + 1 \in S
  <2>1. Powers(256)[n + 1] = 256 * Powers(256)[n] /\ Powers(256)[n] \in Nat
    BY <1>2
  <2>2. PICK m \in Nat : m = 3 * n
    OBVIOUS
  <2>3. /\ Powers(10)[m + 1] = 10 * Powers(10)[m] /\ Powers(10)[(m + 1) + 1] = 10 * Powers(10)[m + 1]
        /\ Powers(10)[((m + 1) + 1) + 1] = 10 * Powers(10)[(m + 1) + 1] /\ Powers(10)[m] \in Nat
    BY <1>1
  <2>4. 3 * (n + 1) = ((m + 1) + 1) + 1
    BY <2>2
  <2>5. Powers(10)[3 * (n + 1)] = 1000 * Powers(10)[m]
    BY <2>3, <2>4
  <2> QED BY <1>4, <2>1, <2>2, <2>3, <2>5
<1>5. \A n \in Nat : n \in S
  <2> HIDE DEF S
  <2> QED BY <1>3, <1>4, Induction
<1> QED BY <1>5

(* An instance has powers and numbers of its own, which are these. *)
LEMMA OwnNumbers ==
  /\ \A b, x : Lit!Number(b, x) = Number(b, x) /\ Name!Number(b, x) = Number(b, x)
  /\ \A b : Lit!Powers(b) = Powers(b) /\ Name!Powers(b) = Powers(b)
<1>1. ASSUME NEW b, NEW x PROVE Lit!Number(b, x) = Number(b, x)
  BY Zenon DEF Lit!Number, Number
<1>2. ASSUME NEW b, NEW x PROVE Name!Number(b, x) = Number(b, x)
  BY Zenon DEF Name!Number, Number
<1>3. ASSUME NEW b PROVE Lit!Powers(b) = Powers(b)
  BY Zenon DEF Lit!Powers, Powers
<1>4. ASSUME NEW b PROVE Name!Powers(b) = Powers(b)
  BY Zenon DEF Name!Powers, Powers
<1> QED BY <1>1, <1>2, <1>3, <1>4

-----------------------------------------------------------------------------
(* Names. *)
ColonAt(s, k) == k \in DOMAIN s /\ s[k] = Lit!Colon
Fits(s, k) ==
  IF ColonAt(s, k) THEN (ColonAt(s, k - 1) <=> ~ColonAt(s, k + 1))
  ELSE s[k] \in Lit!Letters \/ (s[k] \in 48 .. 57 /\ k > 1 /\ ~ColonAt(s, k - 1))

(* How much of the name fits when the pointer is at k. *)
Read(s, k) ==
  CASE litPc = "name" -> k = 1
    [] litPc = "identifier" ->
         /\ k \in 1 .. Len(s) + 1
         /\ IF k = 1 THEN ~ColonAt(s, 1)
            ELSE /\ k >= 3 /\ ColonAt(s, k - 1) /\ ColonAt(s, k - 2)
                 /\ \A n \in 1 .. k - 2 : Fits(s, n)
    [] litPc = "rest" ->
         /\ k \in 2 .. Len(s) + 1 /\ ~ColonAt(s, k - 1)
         /\ \A n \in 1 .. k - 1 : Fits(s, n)
    [] litPc = "after" ->
         /\ k \in 2 .. Len(s) + 1 /\ ~ColonAt(s, k - 1)
         /\ \A n \in 1 .. k - 1 : Fits(s, n)
         /\ ~Lit!valid_ident_cont(Lit!At(k))
    [] litPc = "done" -> Lit!Qualified(s) /\ litText = Append(s, Lit!NUL)
    [] litPc = "aborted" -> ~Lit!Qualified(s)
    [] OTHER -> FALSE

NameInv == litJob.kind = "name" => litJob.value \in QNames /\ Read(litJob.value, litP)

LEMMA QualifiedFits ==
  ASSUME NEW s
  PROVE  Lit!Qualified(s) <=> s # <<>> /\ ~ColonAt(s, Len(s)) /\ \A k \in DOMAIN s : Fits(s, k)
BY DEF Lit!Qualified, ColonAt, Fits

LEMMA Characters ==
  /\ ~Lit!valid_ident_start(Lit!NUL) /\ ~Lit!valid_ident_start(Lit!Colon)
  /\ ~Lit!valid_ident_cont(Lit!NUL) /\ ~Lit!valid_ident_cont(Lit!Colon)
  /\ \A ch : Lit!valid_ident_start(ch) <=> ch \in Lit!Letters
  /\ \A ch : Lit!valid_ident_cont(ch) <=> ch \in Lit!Letters \/ ch \in 48 .. 57
  /\ Lit!NUL # Lit!Colon
BY DEF Lit!valid_ident_start, Lit!valid_ident_cont, Lit!NUL, Lit!Colon, Lit!Letters

(* A name, and what the pointer sees of it. *)
LEMMA NameFacts ==
  ASSUME Lit!ValuesAssumption, NEW s \in QNames
  PROVE  /\ Len(s) \in Nat /\ DOMAIN s = 1 .. Len(s) /\ s \in Seq((-128 .. 127) \ {0})
         /\ \A k \in DOMAIN s : s[k] # Lit!NUL
         /\ ~ColonAt(s, 0) /\ ~ColonAt(s, Len(s) + 1)
         /\ s = <<>> <=> Len(s) = 0
<1>1. s \in Seq((-128 .. 127) \ {0})
  BY DEF Lit!ValuesAssumption
<1> QED BY <1>1 DEF ColonAt, Lit!NUL

LEMMA Seen ==
  ASSUME Lit!ValuesAssumption, litJob.value \in QNames, NEW k \in Nat
  PROVE  /\ k \in DOMAIN litJob.value => Lit!At(k) = litJob.value[k]
         /\ k \notin DOMAIN litJob.value => Lit!At(k) = Lit!NUL
         /\ Lit!At(k) = Lit!Colon <=> ColonAt(litJob.value, k)
         /\ Lit!At(k) = Lit!NUL <=> k \notin DOMAIN litJob.value
BY NameFacts, Characters DEF Lit!At, ColonAt

LEMMA InitName == Lit!Init => NameInv
BY DEF Lit!Init, Lit!Asked, NameInv, Read

LEMMA StartStep ==
  ASSUME Lit!ValuesAssumption, NameInv, Lit!Name
  PROVE  NameInv'
<1> SUFFICES ASSUME litJob.kind = "name" PROVE NameInv'
  BY DEF Lit!Name, Lit!Null, Lit!Move, NameInv
<1> DEFINE s == litJob.value
<1>1. s \in QNames /\ s' = s /\ litJob' = litJob /\ litPc = "name"
  BY DEF Lit!Name, Lit!Null, Lit!Move, NameInv
<1>2. /\ Len(s) \in Nat /\ DOMAIN s = 1 .. Len(s) /\ ~ColonAt(s, 0)
      /\ (Lit!At(1) = Lit!Colon <=> ColonAt(s, 1)) /\ (Lit!At(2) = Lit!Colon <=> ColonAt(s, 2))
  BY <1>1, NameFacts, Seen
<1>3. CASE Lit!At(1) = Lit!Colon /\ Lit!At(2) = Lit!Colon /\ Lit!Move("identifier", 3)
  BY <1>1, <1>2, <1>3 DEF Lit!Move, NameInv, Read, ColonAt, Fits
<1>4. CASE Lit!At(1) = Lit!Colon /\ Lit!At(2) # Lit!Colon /\ Lit!Null
  BY <1>1, <1>2, <1>4, QualifiedFits DEF Lit!Null, Lit!Move, NameInv, Read, ColonAt, Fits
<1>5. CASE Lit!At(1) # Lit!Colon /\ Lit!Move("identifier", 1)
  BY <1>1, <1>2, <1>5 DEF Lit!Move, NameInv, Read
<1> QED BY <1>3, <1>4, <1>5 DEF Lit!Name

LEMMA IdentifierStep ==
  ASSUME Lit!ValuesAssumption, NameInv, Lit!Identifier
  PROVE  NameInv'
<1> SUFFICES ASSUME litJob.kind = "name" PROVE NameInv'
  BY DEF Lit!Identifier, Lit!Null, Lit!Move, NameInv
<1>1. PICK s \in QNames : s = litJob.value
  BY DEF NameInv
<1>2. PICK k \in 1 .. Len(s) + 1 : k = litP
  BY <1>1 DEF Lit!Identifier, NameInv, Read
<1>3. /\ litJob' = litJob /\ litPc = "identifier"
      /\ Len(s) \in Nat /\ DOMAIN s = 1 .. Len(s) /\ ~ColonAt(s, 0) /\ ~ColonAt(s, Len(s) + 1)
      /\ (k \in DOMAIN s => Lit!At(k) = s[k]) /\ (k \notin DOMAIN s => Lit!At(k) = Lit!NUL)
      /\ (s = <<>> <=> Len(s) = 0)
  BY <1>1, NameFacts, Seen DEF Lit!Identifier, Lit!Null, Lit!Move
<1>4. /\ k = 1 => ~ColonAt(s, 1)
      /\ k # 1 => k >= 3 /\ ColonAt(s, k - 1) /\ ColonAt(s, k - 2) /\ \A n \in 1 .. k - 2 : Fits(s, n)
  BY <1>1, <1>2, <1>3 DEF NameInv, Read
<1>5. CASE Lit!valid_ident_start(Lit!At(k)) /\ Lit!Move("rest", k + 1)
  <2>1. k \in DOMAIN s /\ s[k] \in Lit!Letters /\ ~ColonAt(s, k)
    BY <1>3, <1>5, Characters DEF ColonAt
  <2>2. Fits(s, k)
    BY <2>1 DEF Fits
  <2>3. \A n \in 1 .. k : Fits(s, n)
    BY <1>3, <1>4, <2>1, <2>2, SMTT(30) DEF Fits
  <2> QED BY <1>1, <1>3, <1>5, <2>1, <2>3 DEF Lit!Move, NameInv, Read
<1>6. CASE ~Lit!valid_ident_start(Lit!At(k)) /\ Lit!Null
  <2>1. CASE k \notin DOMAIN s
    <3>1. s = <<>> \/ ColonAt(s, Len(s))
      BY <1>2, <1>3, <1>4, <2>1
    <3> QED BY <1>1, <1>3, <1>6, <3>1, QualifiedFits DEF Lit!Null, Lit!Move, NameInv, Read
  <2>2. CASE k \in DOMAIN s
    <3>1. s[k] \notin Lit!Letters
      BY <1>3, <1>6, <2>2, Characters
    <3>2. ~Fits(s, k) \/ (k # 1 /\ ~Fits(s, k - 1))
      BY <1>3, <1>4, <2>2, <3>1 DEF Fits
    <3>3. ~Lit!Qualified(s)
      BY <1>3, <1>4, <2>2, <3>2, QualifiedFits
    <3> QED BY <1>1, <1>3, <1>6, <3>3 DEF Lit!Null, Lit!Move, NameInv, Read
  <2> QED BY <2>1, <2>2
<1> QED BY <1>1, <1>2, <1>5, <1>6 DEF Lit!Identifier

LEMMA RestStep ==
  ASSUME Lit!ValuesAssumption, NameInv, Lit!Rest
  PROVE  NameInv'
<1> SUFFICES ASSUME litJob.kind = "name" PROVE NameInv'
  BY DEF Lit!Rest, Lit!Null, Lit!Move, NameInv
<1>1. PICK s \in QNames : s = litJob.value
  BY DEF NameInv
<1>2. PICK k \in 2 .. Len(s) + 1 : k = litP
  BY <1>1 DEF Lit!Rest, NameInv, Read
<1>3. /\ litJob' = litJob /\ litPc = "rest"
      /\ Len(s) \in Nat /\ DOMAIN s = 1 .. Len(s)
      /\ (k \in DOMAIN s => Lit!At(k) = s[k]) /\ (k \notin DOMAIN s => Lit!At(k) = Lit!NUL)
  BY <1>1, NameFacts, Seen DEF Lit!Rest, Lit!Null, Lit!Move
<1>4. ~ColonAt(s, k - 1) /\ \A n \in 1 .. k - 1 : Fits(s, n)
  BY <1>1, <1>2, <1>3 DEF NameInv, Read
<1>5. CASE Lit!valid_ident_cont(Lit!At(k)) /\ Lit!Move("rest", k + 1)
  <2>1. k \in DOMAIN s /\ (s[k] \in Lit!Letters \/ s[k] \in 48 .. 57) /\ ~ColonAt(s, k)
    BY <1>3, <1>5, Characters DEF ColonAt
  <2>2. Fits(s, k)
    BY <1>2, <1>4, <2>1 DEF Fits
  <2>3. \A n \in 1 .. k : Fits(s, n)
    BY <1>3, <1>4, <2>1, <2>2
  <2> QED BY <1>1, <1>3, <1>5, <2>1, <2>3 DEF Lit!Move, NameInv, Read
<1>6. CASE ~Lit!valid_ident_cont(Lit!At(k)) /\ Lit!Move("after", k)
  <2>1. Lit!At(k)' = Lit!At(k)
    BY <1>3 DEF Lit!At
  <2> QED BY <1>1, <1>3, <1>4, <1>6, <2>1 DEF Lit!Move, NameInv, Read
<1> QED BY <1>1, <1>2, <1>5, <1>6 DEF Lit!Rest

LEMMA AfterStep ==
  ASSUME Lit!ValuesAssumption, NameInv, Lit!After
  PROVE  NameInv'
<1> SUFFICES ASSUME litJob.kind = "name" PROVE NameInv'
  BY DEF Lit!After, Lit!Null, Lit!Move, NameInv
<1>1. PICK s \in QNames : s = litJob.value
  BY DEF NameInv
<1>2. PICK k \in 2 .. Len(s) + 1 : k = litP
  BY <1>1 DEF Lit!After, NameInv, Read
<1>3. /\ litJob' = litJob /\ litPc = "after"
      /\ Len(s) \in Nat /\ DOMAIN s = 1 .. Len(s) /\ s \in Seq((-128 .. 127) \ {0})
      /\ (k \in DOMAIN s => Lit!At(k) = s[k]) /\ (Lit!At(k) = Lit!NUL <=> k \notin DOMAIN s)
      /\ (Lit!At(k) = Lit!Colon <=> ColonAt(s, k)) /\ (Lit!At(k + 1) = Lit!Colon <=> ColonAt(s, k + 1))
      /\ (s = <<>> <=> Len(s) = 0)
  BY <1>1, NameFacts, Seen DEF Lit!After, Lit!Null, Lit!Move
<1>4. ~ColonAt(s, k - 1) /\ (\A n \in 1 .. k - 1 : Fits(s, n)) /\ ~Lit!valid_ident_cont(Lit!At(k))
  BY <1>1, <1>2, <1>3 DEF NameInv, Read
<1>5. CASE Lit!At(k) = Lit!Colon /\ Lit!Colons(k) /\ Lit!Move("identifier", k + 2)
  <2>1. ColonAt(s, k) /\ ColonAt(s, k + 1)
    BY <1>3, <1>5 DEF Lit!Colons
  <2>2. \A n \in 1 .. k : Fits(s, n)
    BY <1>3, <1>4, <2>1 DEF Fits
  <2>3. k + 1 \in DOMAIN s
    BY <2>1 DEF ColonAt
  <2> QED BY <1>1, <1>3, <1>5, <2>1, <2>2, <2>3 DEF Lit!Move, NameInv, Read
<1>6. CASE ((Lit!At(k) = Lit!Colon /\ ~Lit!Colons(k)) \/ Lit!At(k) \notin {Lit!Colon, Lit!NUL}) /\ Lit!Null
  <2>1. k \in DOMAIN s /\ ~Fits(s, k)
    BY <1>3, <1>4, <1>6, Characters DEF Fits, Lit!Colons
  <2>2. ~Lit!Qualified(s)
    BY <2>1, QualifiedFits
  <2> QED BY <1>1, <1>3, <1>6, <2>2 DEF Lit!Null, Lit!Move, NameInv, Read
<1>7. CASE Lit!At(k) = Lit!NUL /\ litText' = Lit!WithEnd /\ litPc' = "done"
  <2>1. k = Len(s) + 1
    BY <1>3, <1>7
  <2>2. Lit!Qualified(s)
    BY <1>3, <1>4, <2>1, QualifiedFits
  <2>3. SubSeq(s, 1, k - 1) = s
    BY <1>3, <2>1
  <2> QED BY <1>1, <1>2, <1>3, <1>7, <2>2, <2>3 DEF Lit!WithEnd, NameInv, Read
<1> QED BY <1>1, <1>2, <1>5, <1>6, <1>7 DEF Lit!After

LEMMA StepName ==
  ASSUME Lit!ValuesAssumption, NameInv, [Lit!Next]_(Lit!vars)
  PROVE  NameInv'
<1>1. CASE Lit!Integer \/ Lit!Digit \/ Lit!Written \/ Lit!Character
  BY <1>1 DEF Lit!Integer, Lit!Put, Lit!Digit, Lit!Written, Lit!Character, NameInv, Read
<1>2. CASE Lit!Over \/ UNCHANGED Lit!vars
  BY <1>2 DEF Lit!Over, Lit!vars, NameInv, Read, Lit!At
<1> QED
  BY <1>1, <1>2, StartStep, IdentifierStep, RestStep, AfterStep DEF Lit!Next

-----------------------------------------------------------------------------
(* Integers and characters.  What remains of the number has at most as many *)
(* digits as there are places left in front of the pointer, and with those *)
(* behind it is the number that was to be written.                         *)
Target == IF litJob.kind = "int" THEN litJob.value ELSE litJob.value % Lit!Modulus

Behind == [k \in 1 .. Lit!Size - litP |-> str[litP + k - 1] - 48]

Writing ==
  /\ litP \in 1 .. Lit!Size /\ str[Lit!Size] = Lit!NUL
  /\ \A k \in 1 .. Lit!Size : k >= litP /\ k < Lit!Size => str[k] \in 48 .. 57
  /\ value \in Nat
  /\ Target = value * Powers(10)[Lit!Size - litP] + Number(10, Behind)

Given ==
  /\ litJob.kind \in {"int", "char", "name"}
  /\ litJob.kind = "int" => litJob.value \in Ints
  /\ litJob.kind = "char" => litJob.value \in Chars

TextInv ==
  /\ Given
  /\ litPc \in {"int", "char"} => litJob.kind = litPc
  /\ litPc \in {"digit", "written"} => litJob.kind # "name" /\ Writing
  /\ litPc \in {"name", "identifier", "rest", "after"} => litJob.kind = "name"
  /\ str \in [1 .. Lit!Size -> Int]
  /\ litPc = "digit" => value < Powers(10)[litP - 1] /\ (value = 0 => litP = Lit!Size)
  /\ litPc = "written" => value = 0 /\ litP < Lit!Size
  /\ Lit!Terminated /\ ReadsBack

LEMMA Tens ==
  /\ Powers(10)[0] = 1
  /\ \A n \in Nat : Powers(10)[n] \in Nat \ {0} /\ Powers(10)[n + 1] = 10 * Powers(10)[n]
<1>1. 10 \in Nat \ {0}
  OBVIOUS
<1> QED BY <1>1, PowersOf

LEMMA Sizes ==
  ASSUME Lit!ValuesAssumption
  PROVE  /\ Lit!Size \in Nat /\ Lit!Size >= 4
         /\ Lit!Modulus \in Nat /\ Lit!Modulus > 0 /\ Lit!Modulus <= Powers(10)[Lit!Size - 1]
         /\ \E m \in Nat : m > 0 /\ Lit!Modulus = 256 * m
         /\ \A n \in Ints : n \in 0 .. Lit!Modulus - 1
         /\ \A n \in Chars : n \in -128 .. 127
<1>1. Bytes \in Nat /\ Bytes >= 1
  BY DEF Lit!ValuesAssumption
<1>2. Lit!Size \in Nat /\ Lit!Size >= 4 /\ Lit!Size - 1 = 3 * Bytes
  BY <1>1 DEF Lit!Size
<1>3. \A n \in Nat : Powers(256)[n] \in Nat \ {0} /\ Powers(256)[n + 1] = 256 * Powers(256)[n]
  <2>1. 256 \in Nat \ {0}
    OBVIOUS
  <2> QED BY <2>1, PowersOf
<1>a. Lit!Modulus = Powers(256)[Bytes]
  BY OwnNumbers DEF Lit!Modulus
<1>4. Lit!Modulus \in Nat \ {0} /\ Lit!Modulus <= Powers(10)[3 * Bytes]
  BY <1>1, <1>3, <1>a, ThreeDigits
<1>5. \E m \in Nat : m > 0 /\ Lit!Modulus = 256 * m
  <2>1. Bytes - 1 \in Nat /\ (Bytes - 1) + 1 = Bytes
    BY <1>1
  <2>2. PICK m \in Nat \ {0} : m = Powers(256)[Bytes - 1]
    BY <1>3, <2>1
  <2>3. Lit!Modulus = 256 * m
    BY <1>3, <1>a, <2>1, <2>2
  <2> QED BY <2>3
<1> QED BY <1>2, <1>4, <1>5 DEF Lit!ValuesAssumption

LEMMA InitText == Lit!Init => TextInv
<1> SUFFICES ASSUME Lit!Init PROVE TextInv
  OBVIOUS
<1>1. str \in [1 .. Lit!Size -> Int] /\ litPc \in {"int", "char", "name"}
  BY DEF Lit!Init, Lit!NUL
<1>2. Given /\ litJob.kind = litPc
  BY DEF Lit!Init, Lit!Asked, Given
<1> QED BY <1>1, <1>2 DEF TextInv, Lit!Terminated, ReadsBack, Lit!ReadsBack

(* A number that fits in, for int_expr and for a character. *)
LEMMA PutStep ==
  ASSUME Lit!ValuesAssumption, TextInv, NEW n \in 0 .. Lit!Modulus - 1, n = Target,
         litJob.kind # "name", Lit!Put(n)
  PROVE  TextInv'
<1>1. /\ value' = n /\ str' = [str EXCEPT ![Lit!Size] = Lit!NUL] /\ litP' = Lit!Size /\ litPc' = "digit" /\ litJob' = litJob
      /\ str \in [1 .. Lit!Size -> Int]
  BY DEF Lit!Put, TextInv
<1>2. n \in Nat /\ n < Powers(10)[Lit!Size - 1]
  <2>1. Lit!Size - 1 \in Nat
    BY Sizes
  <2>2. Powers(10)[Lit!Size - 1] \in Nat
    BY <2>1, Tens
  <2> QED BY <2>2, Sizes
<1>3. str' \in [1 .. Lit!Size -> Int] /\ str'[Lit!Size] = Lit!NUL /\ Lit!Size \in 1 .. Lit!Size
  BY <1>1, Sizes DEF Lit!NUL
<1>4. Target' = n * Powers(10)[Lit!Size - Lit!Size] + Number(10, Behind')
  <2>1. Lit!Size - Lit!Size = 0
    BY Sizes
  <2>2. Behind' \in Seq(Int) /\ Len(Behind') = 0
    BY <1>1, <2>1 DEF Behind
  <2>3. Number(10, Behind') = 0
    <3>1. PICK x \in Seq(Int) : x = Behind' /\ Len(x) = 0
      BY <2>2
    <3>2. 10 \in Nat \ {0} /\ \A k \in 1 .. Len(x) : x[k] = 0
      BY <3>1
    <3> QED BY <3>1, <3>2, Zero
  <2>4. Target' = n
    BY <1>1 DEF Target
  <2> QED BY <1>2, <2>1, <2>3, <2>4, Tens
<1>5. Writing'
  <2>1. \A k \in 1 .. Lit!Size : ~(k >= Lit!Size /\ k < Lit!Size)
    BY Sizes
  <2> QED BY <1>1, <1>2, <1>3, <1>4, <2>1 DEF Writing
<1> QED BY <1>1, <1>2, <1>3, <1>5 DEF TextInv, Lit!Terminated, ReadsBack, Lit!ReadsBack, Given

(* A character becomes a size_t, and the literal a character again. *)
LEMMA Converted ==
  ASSUME Lit!ValuesAssumption, NEW v \in -128 .. 127
  PROVE  Lit!SignedChar(v % Lit!Modulus) = v
<1>1. PICK m \in Nat : m > 0 /\ Lit!Modulus = 256 * m
  BY Sizes
<1>2. CASE v >= 0
  <2>1. v % Lit!Modulus = v
    <3>1. \A n \in Nat, k \in Nat : k > n => n % k = n
      OBVIOUS
    <3>2. v \in Nat /\ Lit!Modulus \in Nat /\ Lit!Modulus > v
      BY <1>1, <1>2
    <3> QED BY <3>1, <3>2
  <2> QED BY <1>2, <2>1 DEF Lit!SignedChar
<1>3. CASE v < 0
  <2>1. v % Lit!Modulus = v + Lit!Modulus
    <3>1. \A n \in Int, k \in Nat : n < 0 /\ n + k >= 0 => n % k = n + k
      OBVIOUS
    <3>2. v \in Int /\ Lit!Modulus \in Nat /\ v + Lit!Modulus >= 0
      BY <1>1
    <3> QED BY <1>3, <3>1, <3>2
  <2>2. (v + 256 * m) % 256 = v + 256
    BY <1>3
  <2> QED BY <1>1, <1>3, <2>1, <2>2 DEF Lit!SignedChar
<1> QED BY <1>2, <1>3

LEMMA Decompose ==
  ASSUME NEW v \in Nat, NEW w \in Nat, NEW d \in Nat, NEW a \in Nat, v = 10 * a + d
  PROVE  v * w = a * (10 * w) + d * w
OBVIOUS

LEMMA DigitStep ==
  ASSUME Lit!ValuesAssumption, TextInv, Lit!Digit
  PROVE  TextInv'
<1>1. /\ litP \in 1 .. Lit!Size /\ str[Lit!Size] = Lit!NUL /\ str \in [1 .. Lit!Size -> Int]
      /\ \A k \in 1 .. Lit!Size : k >= litP /\ k < Lit!Size => str[k] \in 48 .. 57
      /\ value \in Nat /\ value < Powers(10)[litP - 1] /\ (value = 0 => litP = Lit!Size)
      /\ Target = value * Powers(10)[Lit!Size - litP] + Number(10, Behind)
      /\ Lit!Size \in Nat /\ Lit!Size >= 4 /\ litJob.kind # "name"
  BY Sizes DEF Lit!Digit, TextInv, Writing
<1>2. PICK q \in 1 .. Lit!Size : q = litP
  BY <1>1
<1>3. PICK v \in Nat : v = value /\ v < Powers(10)[q - 1] /\ (v = 0 => q = Lit!Size)
  BY <1>1, <1>2
<1>4. q >= 2
  <2>1. q = 1 => v < 1
    BY <1>3, Tens
  <2> QED BY <1>1, <1>3, <2>1
<1>5. PICK a \in Nat, d \in 0 .. 9 : a = v \div 10 /\ d = v % 10 /\ v = 10 * a + d
  <2>1. v \div 10 \in Nat
    OBVIOUS
  <2>2. v % 10 \in 0 .. 9
    OBVIOUS
  <2>3. v = 10 * (v \div 10) + (v % 10)
    OBVIOUS
  <2> QED BY <2>1, <2>2, <2>3
<1>6. a < Powers(10)[q - 2]
  <2>1. q - 2 \in Nat /\ (q - 2) + 1 = q - 1
    BY <1>4
  <2>2. Powers(10)[q - 1] = 10 * Powers(10)[q - 2] /\ Powers(10)[q - 2] \in Nat
    BY <2>1, Tens
  <2> QED BY <1>3, <1>5, <2>2
<1>7. /\ litP' = q - 1 /\ value' = a /\ litJob' = litJob /\ litText' = litText
      /\ litPc' = IF a = 0 THEN "written" ELSE "digit"
      /\ str' = [k \in 1 .. Lit!Size |-> IF k = q - 1 THEN 48 + d ELSE str[k]]
  BY <1>1, <1>2, <1>3, <1>5 DEF Lit!Digit
<1>8. /\ str' \in [1 .. Lit!Size -> Int] /\ str'[Lit!Size] = Lit!NUL /\ str'[q - 1] = 48 + d
      /\ \A k \in 1 .. Lit!Size : k # q - 1 => str'[k] = str[k]
      /\ \A k \in 1 .. Lit!Size : k >= q - 1 /\ k < Lit!Size => str'[k] \in 48 .. 57
  BY <1>1, <1>2, <1>4, <1>7
<1>9. litP' \in 1 .. Lit!Size /\ litP' - 1 = q - 2 /\ litP' < Lit!Size
  BY <1>1, <1>4, <1>7
<1>10. Target' = a * Powers(10)[Lit!Size - (q - 1)] + Number(10, Behind')
  <2>1. PICK n \in Nat : n = Lit!Size - q /\ Lit!Size - (q - 1) = n + 1
    BY <1>1
  <2>2. Behind = [k \in 1 .. n |-> str[q + k - 1] - 48] /\ Behind' = [k \in 1 .. n + 1 |-> str'[(q - 1) + k - 1] - 48]
    BY <1>2, <1>7, <2>1 DEF Behind, Lit!Size
  <2>3. \A k \in 1 .. n : q + k - 1 \in 1 .. Lit!Size /\ q + k - 1 # q - 1 /\ (q - 1) + (k + 1) - 1 = q + k - 1
    BY <1>1, <1>4, <2>1
  <2>4. PICK x \in Seq(Int) : x = Behind /\ Len(x) = n /\ \A k \in 1 .. n : x[k] = str[q + k - 1] - 48
    <3>1. ASSUME NEW k \in 1 .. n PROVE str[q + k - 1] - 48 \in Int
      <4>1. q + k - 1 \in 1 .. Lit!Size /\ str \in [1 .. Lit!Size -> Int]
        BY <1>1, <2>3
      <4>2. str[q + k - 1] \in Int
        BY <4>1
      <4> QED BY <4>2
    <3>2. [k \in 1 .. n |-> str[q + k - 1] - 48] \in Seq(Int) /\ Len([k \in 1 .. n |-> str[q + k - 1] - 48]) = n
      BY <3>1
    <3> QED BY <2>2, <3>2
  <2>5. PICK y \in Seq(Int) : y = Behind' /\ Len(y) = n + 1 /\ \A k \in 1 .. n + 1 : y[k] = str'[(q - 1) + k - 1] - 48
    <3>1. \A k \in 1 .. n + 1 : (q - 1) + k - 1 \in 1 .. Lit!Size
      BY <1>1, <1>4, <2>1
    <3>2. ASSUME NEW k \in 1 .. n + 1 PROVE str'[(q - 1) + k - 1] - 48 \in Int
      <4>1. (q - 1) + k - 1 \in 1 .. Lit!Size /\ str' \in [1 .. Lit!Size -> Int]
        BY <1>8, <3>1
      <4>2. str'[(q - 1) + k - 1] \in Int
        BY <4>1
      <4> QED BY <4>2
    <3>3. PICK x2 : x2 = str'
      OBVIOUS
    <3>4. /\ [k \in 1 .. n + 1 |-> x2[(q - 1) + k - 1] - 48] \in Seq(Int)
          /\ Len([k \in 1 .. n + 1 |-> x2[(q - 1) + k - 1] - 48]) = n + 1
      BY <3>2, <3>3
    <3> QED BY <2>2, <3>3, <3>4
  <2>6. \A k \in 1 .. Len(x) : y[k + 1] = x[k]
    <3> SUFFICES ASSUME NEW k \in 1 .. n PROVE y[k + 1] = x[k]
      BY <2>4
    <3>1. k + 1 \in 1 .. n + 1
      OBVIOUS
    <3>2. y[k + 1] = str'[q + k - 1] - 48
      BY <2>3, <2>5, <3>1
    <3>3. str'[q + k - 1] = str[q + k - 1]
      BY <1>8, <2>3
    <3> QED BY <2>4, <3>2, <3>3
  <2>7. y[1] = d
    <3>1. 1 \in 1 .. n + 1 /\ (q - 1) + 1 - 1 = q - 1
      OBVIOUS
    <3> QED BY <1>8, <2>5, <3>1
  <2>8. Number(10, x) \in Int /\ Number(10, y) = y[1] * Powers(10)[Len(x)] + Number(10, x)
    <3>1. 10 \in Nat \ {0} /\ Len(y) = Len(x) + 1
      BY <2>4, <2>5
    <3> QED BY <2>6, <3>1, FirstDigit
  <2>9. PICK w \in Nat : w = Powers(10)[n] /\ Powers(10)[n + 1] = 10 * w
    BY Tens
  <2>10. Target = v * w + Number(10, x)
    BY <1>1, <1>2, <1>3, <2>1, <2>4, <2>9
  <2>11. Number(10, y) = d * w + Number(10, x)
    BY <2>4, <2>7, <2>8, <2>9
  <2>12. v * w = a * (10 * w) + d * w
    BY <1>5, Decompose
  <2>13. PICK e \in Int, f \in Int : e = a * (10 * w) /\ f = d * w
    OBVIOUS
  <2>14. Target = e + f + Number(10, x)
    BY <2>10, <2>12, <2>13
  <2>15. Target' = Target
    BY <1>7 DEF Target
  <2>16. a * Powers(10)[Lit!Size - (q - 1)] = e
    BY <2>1, <2>9, <2>13, Zenon
  <2> QED BY <2>5, <2>8, <2>11, <2>13, <2>14, <2>15, <2>16, SMTT(30)
<1>11. Writing'
  BY <1>7, <1>8, <1>9, <1>10 DEF Writing
<1>12. litPc' = "digit" => a # 0
  BY <1>7
<1>13. Given' /\ litJob'.kind # "name" /\ litPc' \in {"digit", "written"} /\ (litPc' = "written" => a = 0)
  BY <1>1, <1>7 DEF TextInv, Given
<1> QED BY <1>6, <1>7, <1>8, <1>9, <1>11, <1>12, <1>13 DEF TextInv, Lit!Terminated, ReadsBack, Lit!ReadsBack

(* A terminator at the end, and none before. *)
LEMMA WrittenStep ==
  ASSUME Lit!ValuesAssumption, TextInv, Lit!Written
  PROVE  TextInv'
<1>1. /\ litP \in 1 .. Lit!Size /\ str[Lit!Size] = Lit!NUL /\ str \in [1 .. Lit!Size -> Int]
      /\ \A k \in 1 .. Lit!Size : k >= litP /\ k < Lit!Size => str[k] \in 48 .. 57
      /\ value = 0 /\ litP < Lit!Size /\ litJob.kind # "name"
      /\ Target = value * Powers(10)[Lit!Size - litP] + Number(10, Behind)
      /\ Lit!Size \in Nat
  BY Sizes DEF Lit!Written, TextInv, Writing
<1>2. PICK q \in 1 .. Lit!Size : q = litP
  BY <1>1
<1>3. litText' = SubSeq(str, q, Lit!Size) /\ litPc' = "done" /\ UNCHANGED <<litJob, litP, value, str>>
  BY <1>2 DEF Lit!Written
<1>4. str \in Seq(Int) /\ Len(str) = Lit!Size
  BY <1>1
<1>5. /\ Len(litText') = Lit!Size - q + 1 /\ DOMAIN litText' = 1 .. Lit!Size - q + 1
      /\ \A k \in 1 .. Lit!Size - q + 1 : litText'[k] = str[q + k - 1]
  BY <1>1, <1>3, <1>4
<1>6. Lit!Terminated'
  <2> SUFFICES ASSUME NEW k \in 1 .. Len(litText') + 1
               PROVE  k = Len(litText') <=> k \in DOMAIN litText' /\ litText'[k] = Lit!NUL
    BY DEF Lit!Terminated
  <2>1. CASE k = Lit!Size - q + 1
    <3>1. q + k - 1 = Lit!Size
      BY <1>1, <2>1
    <3> QED BY <1>1, <1>5, <2>1, <3>1
  <2>2. CASE k < Lit!Size - q + 1
    <3>1. q + k - 1 \in 1 .. Lit!Size /\ q + k - 1 >= q /\ q + k - 1 < Lit!Size
      BY <1>1, <2>2
    <3>2. str[q + k - 1] \in 48 .. 57 /\ Lit!NUL = 0
      BY <1>1, <1>2, <3>1 DEF Lit!NUL
    <3>3. litText'[k] # Lit!NUL
      BY <1>5, <2>2, <3>2
    <3> QED BY <1>5, <2>2, <3>3
  <2>3. CASE k = Lit!Size - q + 2
    BY <1>1, <1>5, <2>3
  <2> QED BY <1>1, <1>5, <2>1, <2>2, <2>3
<1>7. Lit!Decimal(litText') = Target
  <2>1. PICK n \in Nat : n = Lit!Size - q
    BY <1>1
  <2>2. Len(litText') - 1 = n /\ \A k \in 1 .. n : litText'[k] = str[q + k - 1]
    BY <1>1, <1>5, <2>1
  <2>3. Behind = [k \in 1 .. n |-> str[q + k - 1] - 48]
    BY <1>2, <2>1 DEF Behind
  <2>4. [k \in 1 .. Len(litText') - 1 |-> litText'[k] - 48] = Behind
    BY <2>2, <2>3
  <2>5. Lit!Decimal(litText') = Number(10, Behind)
    BY <2>4, OwnNumbers DEF Lit!Decimal
  <2>6. Number(10, Behind) \in Int
    <3>1. \A k \in 1 .. n : q + k - 1 \in 1 .. Lit!Size
      BY <1>1, <2>1
    <3>2. ASSUME NEW k \in 1 .. n PROVE str[q + k - 1] - 48 \in Int
      BY <1>1, <3>1
    <3>3. [k \in 1 .. n |-> str[q + k - 1] - 48] \in Seq(Int)
      BY <3>2
    <3>4. Behind \in Seq(Int) /\ 10 \in Int
      BY <2>3, <3>3
    <3> QED BY <3>4, NumberIsLast
  <2>7. Powers(10)[Lit!Size - litP] \in Nat
    BY <1>2, <2>1, Tens
  <2> QED BY <1>1, <2>5, <2>6, <2>7
<1>8. ReadsBack'
  <2>1. CASE litJob.kind = "int"
    BY <1>3, <1>7, <2>1 DEF ReadsBack, Lit!ReadsBack, Target
  <2>2. CASE litJob.kind = "char"
    <3>1. litJob.value \in -128 .. 127 /\ Target = litJob.value % Lit!Modulus
      BY <2>2, Sizes DEF TextInv, Given, Target
    <3>2. Lit!SignedChar(Target) = litJob.value
      BY <3>1, Converted
    <3>3. litText'[1] # Lit!Quote
      <4>1. 1 \in 1 .. Lit!Size - q + 1 /\ q + 1 - 1 = q /\ str[q] \in 48 .. 57
        BY <1>1, <1>2
      <4> QED BY <1>5, <4>1 DEF Lit!Quote
    <3> QED BY <1>3, <1>7, <2>2, <3>2, <3>3 DEF ReadsBack, Lit!ReadsBack
  <2> QED BY <1>1, <2>1, <2>2 DEF TextInv, Given
<1> QED BY <1>1, <1>3, <1>6, <1>8 DEF TextInv, Given

LEMMA CharacterStep ==
  ASSUME Lit!ValuesAssumption, TextInv, Lit!Character
  PROVE  TextInv'
<1>1. litJob.value \in -128 .. 127 /\ str \in [1 .. Lit!Size -> Int] /\ litJob.kind = "char"
  BY Sizes DEF Lit!Character, TextInv, Given
<1>2. CASE Lit!Plain(litJob.value) /\ litText' = <<Lit!Quote, litJob.value, Lit!Quote, Lit!NUL>> /\ litPc' = "done"
           /\ UNCHANGED <<litJob, litP, value, str>>
  <2>1. litJob.value # Lit!NUL /\ Lit!Quote # Lit!NUL
    BY <1>2 DEF Lit!Plain, Lit!NUL, Lit!Quote
  <2>2. Lit!Terminated'
    BY <1>2, <2>1 DEF Lit!Terminated
  <2>3. litText'[1] = Lit!Quote /\ litText'[2] = litJob.value /\ litJob.value \notin {Lit!Quote, Lit!Backslash, 10}
    BY <1>2 DEF Lit!Plain
  <2>4. ReadsBack'
    BY <1>1, <1>2, <2>3 DEF ReadsBack, Lit!ReadsBack
  <2> QED BY <1>1, <1>2, <2>2, <2>4 DEF TextInv, Given
<1>3. CASE Lit!Put(litJob.value % Lit!Modulus)
  <2>1. \A v \in Int, m \in Nat : m > 0 => v % m \in 0 .. m - 1
    OBVIOUS
  <2>2. litJob.value \in Int /\ Lit!Modulus \in Nat /\ Lit!Modulus > 0
    <3>1. \A v \in -128 .. 127 : v \in Int
      OBVIOUS
    <3>2. Lit!Modulus \in Nat /\ Lit!Modulus > 0
      BY Sizes
    <3> QED BY <1>1, <3>1, <3>2
  <2>3. litJob.value % Lit!Modulus \in 0 .. Lit!Modulus - 1
    BY <2>1, <2>2
  <2>4. litJob.value % Lit!Modulus = Target /\ litJob.kind # "name"
    BY <1>1 DEF Target
  <2> QED BY <1>3, <2>3, <2>4, PutStep
<1> QED BY <1>2, <1>3 DEF Lit!Character

LEMMA NamesStep ==
  ASSUME Lit!ValuesAssumption, TextInv, NameInv, NameInv', Lit!Name \/ Lit!Identifier \/ Lit!Rest \/ Lit!After
  PROVE  TextInv'
<1>1. /\ litJob' = litJob /\ litJob.kind = "name" /\ str' = str /\ str \in [1 .. Lit!Size -> Int]
      /\ litPc' \in {"identifier", "rest", "after", "aborted", "done"}
  BY DEF TextInv, Lit!Name, Lit!Identifier, Lit!Rest, Lit!After, Lit!Null, Lit!Move
<1>2. Lit!Terminated'
  <2> SUFFICES ASSUME litPc' = "done" PROVE Lit!Terminated'
    BY DEF Lit!Terminated
  <2>1. PICK s \in QNames : s = litJob.value
    BY <1>1 DEF NameInv
  <2>2. litText' = Append(s, Lit!NUL)
    BY <1>1, <2>1 DEF NameInv, Read
  <2>3. /\ Len(s) \in Nat /\ s \in Seq((-128 .. 127) \ {0}) /\ \A k \in 1 .. Len(s) : s[k] # Lit!NUL
    BY NameFacts
  <2>4. /\ Len(litText') = Len(s) + 1 /\ DOMAIN litText' = 1 .. Len(s) + 1
        /\ litText'[Len(s) + 1] = Lit!NUL /\ \A k \in 1 .. Len(s) : litText'[k] = s[k]
    BY <2>2, <2>3
  <2> QED BY <2>3, <2>4 DEF Lit!Terminated
<1> QED BY <1>1, <1>2 DEF TextInv, Given, ReadsBack, Lit!ReadsBack

LEMMA StepText ==
  ASSUME Lit!ValuesAssumption, TextInv, NameInv, NameInv', [Lit!Next]_(Lit!vars)
  PROVE  TextInv'
<1>1. CASE Lit!Integer
  <2>1. litJob.value \in 0 .. Lit!Modulus - 1 /\ litJob.value = Target /\ litJob.kind # "name"
    BY <1>1, Sizes DEF Lit!Integer, TextInv, Given, Target
  <2> QED BY <1>1, <2>1, PutStep DEF Lit!Integer
<1>2. CASE Lit!Over \/ UNCHANGED Lit!vars
  BY <1>2 DEF Lit!Over, Lit!vars, TextInv, Given, Writing, Target, Behind, Lit!Terminated, ReadsBack, Lit!ReadsBack
<1> QED
  BY <1>1, <1>2, DigitStep, WrittenStep, CharacterStep, NamesStep DEF Lit!Next

LEMMA Invariants == ASSUME Lit!ValuesAssumption PROVE Lit!Spec => [](NameInv /\ TextInv)
<1>1. Lit!Init => NameInv /\ TextInv
  BY InitName, InitText
<1>2. NameInv /\ TextInv /\ [Lit!Next]_(Lit!vars) => (NameInv /\ TextInv)'
  BY StepName, StepText
<1> QED BY <1>1, <1>2, PTL DEF Lit!Spec

-----------------------------------------------------------------------------
(* Exactly the qualified names are accepted, of any length, and the others *)
(* stop the program (expr_all.cpp:377-414).                                *)
THEOREM NamesExact ==
  ASSUME Lit!ValuesAssumption
  PROVE  Lit!Spec => []ExactlyNames
<1>1. NameInv => ExactlyNames
  BY DEF NameInv, Read, ExactlyNames, Lit!ExactlyNames
<1> QED BY <1>1, Invariants, PTL

(* No pointer leaves its text: three digits for each byte are enough for   *)
(* integers of any width, no character behind the terminator of a name is  *)
(* looked at, and every text has its terminator at the end and nowhere     *)
(* else (expr_all.cpp:265-284, 357-404).                                   *)
THEOREM PointersInside ==
  ASSUME Lit!ValuesAssumption
  PROVE  Lit!Spec => []InBounds
<1>1. NameInv /\ TextInv => InBounds
  <2> SUFFICES ASSUME NameInv, TextInv PROVE InBounds
    OBVIOUS
  <2>1. Lit!InBuffer /\ Lit!Terminated
    BY DEF TextInv, Writing, Lit!InBuffer
  <2>2. Lit!InName
    <3> SUFFICES ASSUME litPc \in {"identifier", "rest", "after"} PROVE litP \in 1 .. Len(litJob.value) + 1
      BY DEF Lit!InName
    <3>1. Read(litJob.value, litP)
      BY DEF NameInv, TextInv
    <3>2. \A s \in QNames : Len(s) \in Nat
      BY NameFacts
    <3> QED BY <3>1, <3>2 DEF Read, NameInv, TextInv
  <2> QED BY <2>1, <2>2 DEF InBounds, Lit!InBounds
<1> QED BY <1>1, Invariants, PTL

(* Every integer and every character is the value of the literal written   *)
(* for it, for any width of integers, and a quoted character needs no      *)
(* escape (expr_all.cpp:345-365).                                          *)
THEOREM LiteralsReadBack ==
  ASSUME Lit!ValuesAssumption
  PROVE  Lit!Spec => []ReadsBack
<1>1. TextInv => ReadsBack
  BY DEF TextInv
<1> QED BY <1>1, Invariants, PTL

-----------------------------------------------------------------------------
(* The names of files. *)
(* The counter of the buffer, a terminator behind it. *)
CounterOf(s) == [n \in 1 .. Digits |-> s[Name!Separator + n]]

Count(s) == Number(Base, CounterOf(s))

LettersOf(s) == \A n \in 1 .. Digits : s[Name!Separator + n] \in Int

LEMMA LetterPowers ==
  ASSUME Name!SizeAssumption
  PROVE  /\ Powers(Base)[0] = 1
         /\ \A n \in Nat : Powers(Base)[n] \in Nat \ {0} /\ Powers(Base)[n + 1] = Base * Powers(Base)[n]
<1>1. Base \in Nat \ {0}
  BY DEF Name!SizeAssumption
<1> QED BY <1>1, PowersOf

LEMMA LettersAre ==
  ASSUME Name!SizeAssumption, NEW s, LettersOf(s)
  PROVE  /\ CounterOf(s) \in Seq(Int) /\ Len(CounterOf(s)) = Digits
         /\ \A n \in 1 .. Digits : CounterOf(s)[n] = s[Name!Separator + n]
BY DEF Name!SizeAssumption, LettersOf, CounterOf

LEMMA OneLetter ==
  ASSUME Name!SizeAssumption, NEW s, NEW t, LettersOf(s), LettersOf(t),
         NEW m \in 1 .. Digits, NEW d \in Int,
         \A n \in 1 .. Digits : n # m => t[Name!Separator + n] = s[Name!Separator + n],
         t[Name!Separator + m] = s[Name!Separator + m] + d
  PROVE  Count(s) \in Int /\ Count(t) = Count(s) + d * Powers(Base)[Digits - m]
<1>1. PICK x \in Seq(Int) : /\ x = CounterOf(s) /\ Len(x) = Digits
                            /\ \A n \in 1 .. Digits : x[n] = s[Name!Separator + n]
  BY LettersAre
<1>2. PICK y \in Seq(Int) : /\ y = CounterOf(t) /\ Len(y) = Digits
                            /\ \A n \in 1 .. Digits : y[n] = t[Name!Separator + n]
  BY LettersAre
<1>3. /\ Base \in Nat \ {0} /\ Len(y) = Len(x) /\ m \in 1 .. Len(x)
      /\ (\A n \in 1 .. Len(x) : n # m => y[n] = x[n]) /\ y[m] = x[m] + d
  BY <1>1, <1>2, SMTT(30) DEF Name!SizeAssumption
<1>4. Number(Base, x) \in Int /\ Number(Base, y) = Number(Base, x) + d * Powers(Base)[Len(x) - m]
  BY <1>3, OneDigit
<1> QED BY <1>1, <1>2, <1>4 DEF Count

LEMMA NoLetters ==
  ASSUME Name!SizeAssumption, NEW s, \A n \in 1 .. Digits : s[Name!Separator + n] = 0
  PROVE  Count(s) = 0
<1>1. LettersOf(s)
  BY DEF LettersOf
<1>2. PICK x \in Seq(Int) : x = CounterOf(s) /\ \A n \in 1 .. Len(x) : x[n] = 0
  BY <1>1, LettersAre
<1>3. Base \in Nat \ {0}
  BY DEF Name!SizeAssumption
<1>4. Number(Base, x) = 0
  BY <1>2, <1>3, Zero
<1> QED BY <1>2, <1>4 DEF Count

(* The counter of a path is all of it behind the separator. *)
LEMMA PathCount ==
  ASSUME Name!SizeAssumption, NEW s, LettersOf(s),
         NEW t \in Seq(Int), Len(t) = Name!LastChar,
         \A n \in 1 .. Digits : t[Name!Separator + n] = s[Name!Separator + n]
  PROVE  Name!Value(t) = Count(s)
<1>1. Name!Separator = 2 /\ Name!LastChar = Digits + 2 /\ Digits \in Nat
  BY DEF Name!SizeAssumption, Name!Separator, Name!LastChar
<1>2. PICK x \in Seq(Int) : /\ x = CounterOf(s) /\ Len(x) = Digits
                            /\ \A n \in 1 .. Digits : x[n] = s[2 + n]
  BY <1>1, LettersAre
<1>3. /\ SubSeq(t, 3, Digits + 2) \in Seq(Int) /\ Len(SubSeq(t, 3, Digits + 2)) = Digits
      /\ \A n \in 1 .. Digits : SubSeq(t, 3, Digits + 2)[n] = t[2 + n]
  BY <1>1
<1>4. SubSeq(t, 3, Digits + 2) = x
  <2>1. \A n \in 1 .. Len(x) : SubSeq(t, 3, Digits + 2)[n] = x[n]
    BY <1>1, <1>2, <1>3
  <2> QED BY <1>2, <1>3, <2>1, SeqEqual
<1>5. Name!Value(t) = Number(Base, SubSeq(t, 3, Digits + 2))
  BY <1>1, OwnNumbers DEF Name!Value
<1> QED BY <1>2, <1>4, <1>5 DEF Count

(* The value of the counter is the number of names given, also between the *)
(* digits of a carry, where one of the digit at the pointer is missing.    *)
Counting ==
  /\ namePc = "init" => given = <<>> /\ \A k \in Name!Separator + 1 .. Name!LastChar : chars[k] = 0
  /\ namePc = "use" => Count(chars) = Len(given)
  /\ namePc = "carry" =>
       /\ Len(given) > 0 /\ Count(chars) + Powers(Base)[Name!LastChar - c] = Len(given)
       /\ \A k \in c + 1 .. Name!LastChar : chars[k] = 0

BufferInv ==
  /\ Name!SizeAssumption
  /\ chars \in [1 .. Name!Size -> Int] /\ given \in Seq(Seq(Int))
  /\ namePc \in {"init", "use", "carry", "aborted"}
  /\ Counting /\ Name!BufferKept /\ Name!NamesInOrder /\ Name!RemovedIsParent

LEMMA TmpShape ==
  ASSUME Name!SizeAssumption
  PROVE  /\ Base \in Nat /\ Base >= 2 /\ Digits \in Nat /\ Digits >= 1
         /\ Name!Separator = 2 /\ Name!LastChar = Digits + 2 /\ Name!Size = Digits + 3
         /\ Name!NUL \in Int /\ Name!Slash \in Int /\ Name!Directory \in Int
         /\ Name!NUL # Name!Slash /\ Name!NUL # Name!Directory /\ Name!NUL < 0 /\ Name!Slash < 0
BY DEF Name!SizeAssumption, Name!Separator, Name!LastChar, Name!Size, Name!NUL, Name!Slash, Name!Directory

LEMMA StringUpTo ==
  ASSUME NEW s \in Seq(Int), NEW k \in 1 .. Len(s), s[k] = Name!NUL,
         \A n \in 1 .. k - 1 : s[n] # Name!NUL
  PROVE  Name!String(s) = SubSeq(s, 1, k - 1)
<1> DEFINE I == {n \in 1 .. Len(s) : s[n] = Name!NUL}
<1>1. k \in I /\ \A n \in I : k <= n
  OBVIOUS
<1>2. Name!Min(I) = k
  <2>1. \A x \in I : (\A y \in I : x <= y) => x = k
    BY <1>1
  <2> HIDE DEF I
  <2> QED BY <1>1, <2>1 DEF Name!Min
<1>3. Name!SelectInSeq(s, LAMBDA ch : ch = Name!NUL) = IF I # {} THEN Name!Min(I) ELSE 0
  BY DEF Name!SelectInSeq
<1>4. Name!SelectInSeq(s, LAMBDA ch : ch = Name!NUL) = k
  <2> HIDE DEF I
  <2> QED BY <1>1, <1>2, <1>3
<1> QED BY <1>4 DEF Name!String

(* What the buffer reads as while names are given. *)
LEMMA WholeName ==
  ASSUME BufferInv, namePc # "init"
  PROVE  /\ Name!String(chars) \in Seq(Int) /\ Len(Name!String(chars)) = Name!LastChar
         /\ \A k \in 1 .. Name!LastChar : Name!String(chars)[k] = chars[k]
         /\ Name!Value(Name!String(chars)) = Count(chars)
<1>1. /\ Name!SizeAssumption /\ chars \in [1 .. Name!Size -> Int] /\ chars[1] = Name!Directory /\ chars[2] = Name!Slash
      /\ chars[Name!Size] = Name!NUL /\ Name!Size \in Nat /\ Name!Size = Name!LastChar + 1 /\ Name!LastChar = Digits + 2 /\ Digits \in Nat
      /\ \A k \in 3 .. Name!LastChar : chars[k] \in 0 .. Base - 1
  BY TmpShape DEF BufferInv, Name!BufferKept
<1>2. chars \in Seq(Int) /\ Len(chars) = Name!Size
  BY <1>1
<1>3. \A n \in 1 .. Name!LastChar : chars[n] # Name!NUL
  <2>1. \A n \in 1 .. Name!LastChar : n = 1 \/ n = 2 \/ n \in 3 .. Name!LastChar
    BY <1>1
  <2>2. Base \in Nat
    BY <1>1, TmpShape
  <2> QED BY <1>1, <2>1, <2>2, TmpShape
<1>4. Name!String(chars) = SubSeq(chars, 1, Name!LastChar)
  <2>1. Name!Size \in 1 .. Len(chars) /\ Name!Size - 1 = Name!LastChar
    BY <1>1, <1>2
  <2> QED BY <1>1, <1>2, <1>3, <2>1, StringUpTo
<1>5. /\ Name!String(chars) \in Seq(Int) /\ Len(Name!String(chars)) = Name!LastChar
      /\ \A k \in 1 .. Name!LastChar : Name!String(chars)[k] = chars[k]
  BY <1>1, <1>2, <1>4
<1>6. Name!Value(Name!String(chars)) = Count(chars)
  <2>1. \A n \in 1 .. Digits : Name!Separator + n \in 1 .. Name!LastChar /\ Name!Separator + n \in 1 .. Name!Size
    BY <1>1, TmpShape
  <2>2. LettersOf(chars)
    BY <1>1, <2>1 DEF LettersOf
  <2> QED BY <1>1, <1>5, <2>1, <2>2, PathCount
<1> QED BY <1>5, <1>6

LEMMA InitBuffer == Name!SizeAssumption /\ Name!Init => BufferInv
<1> SUFFICES ASSUME Name!SizeAssumption, Name!Init PROVE BufferInv
  OBVIOUS
<1>1. chars = <<Name!Directory, Name!NUL>> \o [k \in 1 .. Digits |-> 0] \o <<Name!NUL>>
      /\ namePc = "init" /\ removed = <<>> /\ given = <<>>
  BY DEF Name!Init
<1>2. /\ <<Name!Directory, Name!NUL>> \in Seq(Int) /\ <<Name!NUL>> \in Seq(Int) /\ Digits \in Nat
      /\ [k \in 1 .. Digits |-> 0] \in Seq(Int) /\ Len([k \in 1 .. Digits |-> 0]) = Digits
  BY TmpShape
<1>3. PICK zeros \in Seq(Int) : /\ Len(zeros) = Digits /\ \A k \in 1 .. Digits : zeros[k] = 0
                                /\ chars = <<Name!Directory, Name!NUL>> \o zeros \o <<Name!NUL>>
  BY <1>1, <1>2
<1>4. /\ chars \in Seq(Int) /\ Len(chars) = Digits + 3 /\ chars[1] = Name!Directory /\ chars[2] = Name!NUL
      /\ chars[Digits + 3] = Name!NUL /\ \A k \in 3 .. Digits + 2 : chars[k] = zeros[k - 2]
  BY <1>2, <1>3, TmpShape
<1>5. chars \in [1 .. Name!Size -> Int]
  BY <1>4, TmpShape
<1>6. \A k \in 3 .. Digits + 2 : chars[k] = 0
  BY <1>2, <1>3, <1>4
<1>7. Counting /\ Name!BufferKept
  <2>1. Name!Separator + 1 = 3 /\ Name!LastChar = Digits + 2 /\ Name!Size = Digits + 3 /\ Name!Separator = 2
    BY TmpShape
  <2>2. \A k \in Name!Separator + 1 .. Name!LastChar : chars[k] = 0
    BY <1>6, <2>1
  <2>3. 0 \in 0 .. Base - 1
    BY TmpShape
  <2>4. Name!BufferKept
    BY <1>1, <1>4, <2>1, <2>2, <2>3 DEF Name!BufferKept
  <2> QED BY <1>1, <2>2, <2>4 DEF Counting
<1>8. Name!NamesInOrder /\ Name!RemovedIsParent
  BY <1>1 DEF Name!NamesInOrder, Name!RemovedIsParent
<1>9. given \in Seq(Seq(Int))
  BY <1>1
<1> QED BY <1>1, <1>5, <1>7, <1>8, <1>9 DEF BufferInv

(* What the buffer is, to be cited. *)
LEMMA TheBuffer ==
  ASSUME BufferInv
  PROVE  /\ chars \in [1 .. Name!Size -> Int] /\ Len(chars) = Name!Size
         /\ chars[1] = Name!Directory /\ chars[Name!Size] = Name!NUL
         /\ chars[2] = (IF namePc = "init" THEN Name!NUL ELSE Name!Slash)
         /\ \A k \in 3 .. Name!LastChar : chars[k] \in 0 .. Base - 1
         /\ namePc = "carry" => c \in 2 .. Name!LastChar
         /\ given \in Seq(Seq(Int)) /\ Len(given) \in Nat
         /\ Name!LastChar = Digits + 2 /\ Name!Size = Digits + 3 /\ Digits \in Nat /\ Base \in Nat
BY TmpShape DEF BufferInv, Name!BufferKept

LEMMA InitialiseStep ==
  ASSUME BufferInv, Name!Initialise
  PROVE  BufferInv'
<1>1. /\ namePc = "init" /\ removed' = Name!String(chars) /\ chars' = [chars EXCEPT ![2] = Name!Slash]
      /\ namePc' = "use" /\ given' = given
  BY TmpShape DEF BufferInv, Name!Initialise, Name!Forked, Name!Set
<1>2. given = <<>> /\ \A k \in 3 .. Name!LastChar : chars[k] = 0
  BY <1>1, TmpShape DEF BufferInv, Counting
<1>3. /\ chars' \in [1 .. Name!Size -> Int] /\ chars'[2] = Name!Slash
      /\ \A k \in 1 .. Name!Size : k # 2 => chars'[k] = chars[k]
      /\ Len(chars') = Name!Size
  BY <1>1, TheBuffer, TmpShape DEF BufferInv
<1>4. Name!String(chars) = <<Name!Directory>>
  <2>0. chars \in [1 .. Name!Size -> Int] /\ Name!Size \in Nat /\ Name!Size >= 2 /\ chars[2] = Name!NUL /\ chars[1] = Name!Directory
    BY <1>1, TheBuffer
  <2>1. chars \in Seq(Int) /\ 2 \in 1 .. Len(chars) /\ chars[2] = Name!NUL
    BY <2>0
  <2>2. \A n \in 1 .. 2 - 1 : chars[n] # Name!NUL
    BY TheBuffer, TmpShape DEF BufferInv
  <2>3. Name!String(chars) = SubSeq(chars, 1, 2 - 1)
    BY <2>1, <2>2, StringUpTo
  <2>4. /\ SubSeq(chars, 1, 1) \in Seq(Int) /\ Len(SubSeq(chars, 1, 1)) = 1
        /\ SubSeq(chars, 1, 1)[1] = Name!Directory
    BY <2>0, <2>1
  <2>5. /\ <<Name!Directory>> \in Seq(Int) /\ Len(<<Name!Directory>>) = 1 /\ <<Name!Directory>>[1] = Name!Directory
    BY TmpShape DEF BufferInv
  <2>6. SubSeq(chars, 1, 1) = <<Name!Directory>>
    <3>1. \A k \in 1 .. 1 : k = 1
      OBVIOUS
    <3> QED BY <2>4, <2>5, <3>1, SeqEqual
  <2> QED BY <2>3, <2>6
<1>5. Count(chars') = 0
  <2>1. \A n \in 1 .. Digits : Name!Separator + n \in 3 .. Name!LastChar /\ Name!Separator + n \in 1 .. Name!Size /\ Name!Separator + n # 2
    BY TheBuffer, TmpShape DEF BufferInv
  <2> QED BY <1>2, <1>3, <2>1, NoLetters DEF BufferInv
<1>6. Counting' /\ Name!NamesInOrder' /\ Name!RemovedIsParent'
  BY <1>1, <1>2, <1>4, <1>5 DEF Counting, Name!NamesInOrder, Name!RemovedIsParent
<1>7. Name!BufferKept'
  <2>1. Name!Separator = 2 /\ Name!Separator + 1 = 3
    BY TmpShape DEF BufferInv
  <2>2. \A k \in 3 .. Name!LastChar : chars'[k] \in 0 .. Base - 1
    BY <1>3, TheBuffer
  <2>3. chars'[1] = Name!Directory /\ chars'[Name!Size] = Name!NUL
    BY <1>3, TheBuffer
  <2> QED BY <1>1, <1>3, <2>1, <2>2, <2>3 DEF Name!BufferKept
<1> QED BY <1>1, <1>3, <1>6, <1>7 DEF BufferInv

LEMMA TmpPathStep ==
  ASSUME BufferInv, Name!TmpPath
  PROVE  BufferInv'
<1>1. /\ namePc = "use" /\ c' = Name!LastChar /\ namePc' = "carry" /\ given' = Append(given, Name!String(chars))
      /\ UNCHANGED <<chars, removed>>
  BY DEF Name!TmpPath
<1>2. /\ Name!String(chars) \in Seq(Int) /\ Len(Name!String(chars)) = Name!LastChar
      /\ \A k \in 1 .. Name!LastChar : Name!String(chars)[k] = chars[k]
      /\ Name!Value(Name!String(chars)) = Len(given)
  BY <1>1, WholeName DEF BufferInv, Counting
<1>3. PICK path \in Seq(Int) : path = Name!String(chars)
  BY <1>2
<1>4. /\ given' \in Seq(Seq(Int)) /\ Len(given') = Len(given) + 1 /\ DOMAIN given' = 1 .. Len(given) + 1
      /\ given'[Len(given) + 1] = path /\ \A n \in DOMAIN given : given'[n] = given[n]
      /\ DOMAIN given = 1 .. Len(given) /\ Len(given) \in Nat
  BY <1>1, <1>3, TheBuffer
<1>5. Name!NamesInOrder'
  BY <1>1, <1>2, <1>3, <1>4 DEF BufferInv, Name!NamesInOrder
<1>6. Name!RemovedIsParent'
  <2>1. removed = <<Name!Directory>> /\ removed' = removed
    BY <1>1 DEF BufferInv, Name!RemovedIsParent
  <2>2. SubSeq(path, 1, 2) = <<Name!Directory>> \o <<Name!Slash>>
    <3>1. path[1] = Name!Directory /\ path[2] = Name!Slash /\ Len(path) >= 2 /\ path \in Seq(Int)
      BY <1>1, <1>2, <1>3, TheBuffer
    <3>2. /\ SubSeq(path, 1, 2) \in Seq(Int) /\ Len(SubSeq(path, 1, 2)) = 2
          /\ SubSeq(path, 1, 2)[1] = Name!Directory /\ SubSeq(path, 1, 2)[2] = Name!Slash
      BY <3>1
    <3>3. <<Name!Directory>> \in Seq(Int) /\ <<Name!Slash>> \in Seq(Int)
      BY TmpShape DEF BufferInv
    <3>4. /\ <<Name!Directory>> \o <<Name!Slash>> \in Seq(Int) /\ Len(<<Name!Directory>> \o <<Name!Slash>>) = 2
          /\ (<<Name!Directory>> \o <<Name!Slash>>)[1] = Name!Directory /\ (<<Name!Directory>> \o <<Name!Slash>>)[2] = Name!Slash
      BY <3>3
    <3>5. \A k \in 1 .. 2 : k = 1 \/ k = 2
      OBVIOUS
    <3> QED BY <3>2, <3>4, <3>5, SeqEqual
  <2>3. \A n \in DOMAIN given : SubSeq(given[n], 1, 2) = <<Name!Directory>> \o <<Name!Slash>>
    BY <2>1, TmpShape DEF BufferInv, Name!RemovedIsParent
  <2>4. \A n \in DOMAIN given' : SubSeq(given'[n], 1, 2) = <<Name!Directory>> \o <<Name!Slash>>
    <3>1. \A n \in DOMAIN given' : n \in DOMAIN given \/ n = Len(given) + 1
      BY <1>4
    <3> QED BY <1>4, <2>2, <2>3, <3>1
  <2> QED BY <1>1, <2>1, <2>4, TmpShape DEF BufferInv, Name!RemovedIsParent
<1>7. Counting'
  <2>1. Powers(Base)[Name!LastChar - Name!LastChar] = 1
    <3>1. Name!LastChar - Name!LastChar = 0
      BY TheBuffer
    <3> QED BY <3>1, LetterPowers DEF BufferInv
  <2>2. \A k \in Name!LastChar + 1 .. Name!LastChar : FALSE
    BY TheBuffer
  <2>3. Count(chars) = Len(given)
    BY <1>1 DEF BufferInv, Counting
  <2> QED BY <1>1, <1>4, <2>1, <2>2, <2>3 DEF Counting
<1>8. Name!BufferKept'
  <2>1. Name!LastChar \in Name!Separator .. Name!LastChar
    BY TmpShape DEF BufferInv
  <2> QED BY <1>1, <2>1 DEF BufferInv, Name!BufferKept
<1> QED BY <1>1, <1>4, <1>5, <1>6, <1>7, <1>8 DEF BufferInv

(* The pointer is at a digit, or at the separator. *)
LEMMA Pointer ==
  ASSUME BufferInv, namePc = "carry"
  PROVE  \E m \in 0 .. Digits : /\ c = m + 2 /\ (m = 0 <=> chars[c] = Name!Slash)
                                /\ m > 0 => chars[c] \in 0 .. Base - 1
                                /\ \A k \in m + 1 .. Digits : chars[Name!Separator + k] = 0
                                /\ Name!LastChar - c = Digits - m
                                /\ Count(chars) + Powers(Base)[Digits - m] = Len(given) /\ Len(given) > 0
<1>1. PICK m \in 0 .. Digits : c = m + 2
  <2>1. c \in 2 .. Name!LastChar /\ Name!LastChar = Digits + 2 /\ Digits \in Nat
    BY TheBuffer
  <2>2. c - 2 \in 0 .. Digits /\ c = (c - 2) + 2
    BY <2>1
  <2> QED BY <2>2
<1>2. /\ Count(chars) + Powers(Base)[Name!LastChar - c] = Len(given) /\ Len(given) > 0
      /\ \A k \in c + 1 .. Name!LastChar : chars[k] = 0
  BY DEF BufferInv, Counting
<1>3. Name!LastChar - c = Digits - m
  BY <1>1, TheBuffer
<1>4. m = 0 <=> chars[c] = Name!Slash
  <2>1. m = 0 => chars[c] = Name!Slash
    BY <1>1, TheBuffer
  <2>2. m > 0 => chars[c] \in 0 .. Base - 1
    BY <1>1, TheBuffer
  <2>3. \A x \in 0 .. Base - 1 : x # Name!Slash
    BY TmpShape DEF BufferInv
  <2> QED BY <1>1, <2>1, <2>2, <2>3, TheBuffer
<1>5. m > 0 => chars[c] \in 0 .. Base - 1
  BY <1>1, TheBuffer
<1>6. \A k \in m + 1 .. Digits : chars[Name!Separator + k] = 0
  <2>1. \A k \in m + 1 .. Digits : Name!Separator + k \in c + 1 .. Name!LastChar
    BY <1>1, TheBuffer, TmpShape DEF BufferInv
  <2> QED BY <1>2, <2>1
<1> QED BY <1>1, <1>2, <1>3, <1>4, <1>5, <1>6

(* One digit is set: the rest of the buffer stays, and the value changes   *)
(* by the weight of the digit.                                             *)
LEMMA SetDigit ==
  ASSUME BufferInv, namePc = "carry", NEW m \in 1 .. Digits, c = m + 2, NEW x \in 0 .. Base - 1,
         chars' = [chars EXCEPT ![c] = x], namePc' \in {"use", "carry"},
         namePc' = "carry" => c' \in 2 .. Name!LastChar
  PROVE  /\ chars' \in [1 .. Name!Size -> Int] /\ Name!BufferKept'
         /\ chars'[c] = x /\ \A k \in 1 .. Name!Size : k # c => chars'[k] = chars[k]
         /\ Count(chars) \in Int
         /\ Count(chars') = Count(chars) + (x - chars[c]) * Powers(Base)[Digits - m]
<1>1. PICK at \in 3 .. Name!LastChar : at = c /\ at = Name!Separator + m /\ at \in 1 .. Name!Size
  BY TheBuffer, TmpShape DEF BufferInv
<1>2. /\ chars' \in [1 .. Name!Size -> Int] /\ chars'[at] = x
      /\ \A k \in 1 .. Name!Size : k # at => chars'[k] = chars[k]
      /\ chars[at] \in 0 .. Base - 1 /\ x \in Int
  BY <1>1, TheBuffer
<1>3. Name!BufferKept'
  <2>1. Name!Separator = 2 /\ Name!Separator + 1 = 3
    BY TmpShape DEF BufferInv
  <2>2. \A k \in 3 .. Name!LastChar : chars'[k] \in 0 .. Base - 1
    BY <1>1, <1>2, TheBuffer
  <2>3. chars'[1] = Name!Directory /\ chars'[Name!Size] = Name!NUL /\ chars'[2] = Name!Slash /\ Len(chars') = Name!Size
    BY <1>1, <1>2, TheBuffer
  <2> QED BY <2>1, <2>2, <2>3 DEF Name!BufferKept
<1>4. \A n \in 1 .. Digits : Name!Separator + n \in 1 .. Name!Size /\ (n # m => Name!Separator + n # at)
  BY <1>1, TheBuffer, TmpShape DEF BufferInv
<1>5. LettersOf(chars) /\ LettersOf(chars')
  BY <1>2, <1>4, TheBuffer DEF LettersOf
<1>6. PICK d \in Int : d = x - chars[at]
  BY <1>2
<1>7. chars'[Name!Separator + m] = chars[Name!Separator + m] + d
  BY <1>1, <1>2, <1>6
<1>8. \A n \in 1 .. Digits : n # m => chars'[Name!Separator + n] = chars[Name!Separator + n]
  BY <1>2, <1>4
<1>9. Count(chars) \in Int /\ Count(chars') = Count(chars) + d * Powers(Base)[Digits - m]
  <2>1. Name!SizeAssumption
    BY DEF BufferInv
  <2> QED BY <1>5, <1>6, <1>7, <1>8, <2>1, OneLetter, ZenonT(40)
<1> QED BY <1>1, <1>2, <1>3, <1>6, <1>9

LEMMA CarryStep ==
  ASSUME BufferInv, Name!Carry
  PROVE  BufferInv'
<1>1. namePc = "carry" /\ namePc' = "carry" /\ c' = c - 1 /\ UNCHANGED <<removed, given>>
      /\ chars[c] = Base - 1 /\ chars' = [chars EXCEPT ![c] = 0]
  BY DEF Name!Carry, Name!Reset, Name!Set
<1>2. PICK m \in 0 .. Digits : /\ c = m + 2 /\ (m = 0 <=> chars[c] = Name!Slash)
                               /\ \A k \in m + 1 .. Digits : chars[Name!Separator + k] = 0
                               /\ Count(chars) + Powers(Base)[Digits - m] = Len(given) /\ Len(given) > 0
  BY <1>1, Pointer
<1>3. m \in 1 .. Digits
  <2>1. Base - 1 # Name!Slash
    BY TmpShape DEF BufferInv
  <2> QED BY <1>1, <1>2, <2>1
<1>4. c' \in 2 .. Name!LastChar /\ c' = (m - 1) + 2 /\ 0 \in 0 .. Base - 1
  BY <1>1, <1>2, <1>3, TheBuffer, TmpShape, SMTT(30) DEF BufferInv
<1>5. /\ chars' \in [1 .. Name!Size -> Int] /\ Name!BufferKept'
      /\ chars'[c] = 0 /\ \A k \in 1 .. Name!Size : k # c => chars'[k] = chars[k]
      /\ Count(chars) \in Int
      /\ Count(chars') = Count(chars) + (0 - chars[c]) * Powers(Base)[Digits - m]
  BY <1>1, <1>2, <1>3, <1>4, SetDigit
<1>6. Count(chars') + Powers(Base)[Name!LastChar - (c - 1)] = Len(given)
  <2>1. PICK w \in Nat : w = Powers(Base)[Digits - m] /\ Powers(Base)[(Digits - m) + 1] = Base * w
    <3>1. Digits - m \in Nat
      BY <1>3, TheBuffer
    <3> QED BY <3>1, LetterPowers DEF BufferInv
  <2>2. Name!LastChar - (c - 1) = (Digits - m) + 1
    BY <1>2, TheBuffer
  <2>3. (0 - (Base - 1)) * w = w - Base * w
    BY TheBuffer
  <2>4. Base * w \in Int
    BY TheBuffer
  <2>5. Count(chars') = Count(chars) + (w - Base * w)
    BY <1>1, <1>5, <2>1, <2>3
  <2>6. Count(chars) + w = Len(given)
    BY <1>2, <2>1
  <2> QED BY <1>5, <2>1, <2>2, <2>4, <2>5, <2>6
<1>7. \A k \in (c - 1) + 1 .. Name!LastChar : chars'[k] = 0
  <2> SUFFICES ASSUME NEW k \in (c - 1) + 1 .. Name!LastChar PROVE chars'[k] = 0
    OBVIOUS
  <2>1. k = c \/ (k # c /\ k \in 1 .. Name!Size /\ k - 2 \in m + 1 .. Digits /\ Name!Separator + (k - 2) = k)
    BY <1>2, <1>3, TheBuffer, TmpShape DEF BufferInv
  <2> QED BY <1>2, <1>5, <2>1
<1>8. Counting'
  BY <1>1, <1>2, <1>6, <1>7 DEF Counting
<1>9. Name!NamesInOrder' /\ Name!RemovedIsParent'
  BY <1>1 DEF BufferInv, Name!NamesInOrder, Name!RemovedIsParent
<1> QED BY <1>1, <1>5, <1>8, <1>9 DEF BufferInv

LEMMA IncrementStep ==
  ASSUME BufferInv, Name!Increment
  PROVE  BufferInv'
<1>1. namePc = "carry" /\ namePc' = "use" /\ UNCHANGED <<c, removed, given>>
      /\ chars[c] # Name!Slash /\ chars[c] # Base - 1 /\ chars' = [chars EXCEPT ![c] = chars[c] + 1]
  BY DEF Name!Increment, Name!Overflow, Name!Set
<1>2. PICK m \in 0 .. Digits : /\ c = m + 2 /\ (m = 0 <=> chars[c] = Name!Slash)
                               /\ m > 0 => chars[c] \in 0 .. Base - 1
                               /\ Count(chars) + Powers(Base)[Digits - m] = Len(given) /\ Len(given) > 0
  BY <1>1, Pointer
<1>3. m \in 1 .. Digits
  BY <1>1, <1>2
<1>4. PICK x \in 0 .. Base - 1 : x = chars[c] + 1
  BY <1>1, <1>2, <1>3, TheBuffer, SMTT(30)
<1>5. /\ chars' \in [1 .. Name!Size -> Int] /\ Name!BufferKept'
      /\ Count(chars) \in Int
      /\ Count(chars') = Count(chars) + (x - chars[c]) * Powers(Base)[Digits - m]
  BY <1>1, <1>2, <1>3, <1>4, SetDigit
<1>6. Count(chars') = Len(given)
  <2>1. Powers(Base)[Digits - m] \in Nat
    <3>1. Digits - m \in Nat
      BY <1>3, TheBuffer
    <3> QED BY <3>1, LetterPowers DEF BufferInv
  <2>2. x - chars[c] = 1
    BY <1>2, <1>3, <1>4, TheBuffer, SMTT(30)
  <2>3. 1 * Powers(Base)[Digits - m] = Powers(Base)[Digits - m]
    BY <2>1
  <2> QED BY <1>2, <1>5, <2>2, <2>3
<1>7. Counting' /\ Name!NamesInOrder' /\ Name!RemovedIsParent'
  BY <1>1, <1>6 DEF BufferInv, Counting, Name!NamesInOrder, Name!RemovedIsParent
<1> QED BY <1>1, <1>5, <1>7 DEF BufferInv

LEMMA FirstOfThem ==
  ASSUME NEW S, NEW s \in Seq(S), Len(s) > 0
  PROVE  LET t == SubSeq(s, 1, Len(s) - 1) IN
         /\ t \in Seq(S) /\ Len(t) = Len(s) - 1
         /\ DOMAIN t \subseteq DOMAIN s /\ \A n \in DOMAIN t : t[n] = s[n]
<1>1. PICK k \in Nat : Len(s) = k + 1
  <2>1. Len(s) \in Nat /\ Len(s) - 1 \in Nat
    OBVIOUS
  <2> QED BY <2>1
<1>2. /\ SubSeq(s, 1, k) \in Seq(S) /\ Len(SubSeq(s, 1, k)) = k
      /\ DOMAIN SubSeq(s, 1, k) = 1 .. k /\ DOMAIN s = 1 .. k + 1
      /\ \A n \in 1 .. k : SubSeq(s, 1, k)[n] = s[n]
  BY <1>1
<1>3. Len(s) - 1 = k
  BY <1>1
<1> QED BY <1>1, <1>2, <1>3

LEMMA AbortStep ==
  ASSUME BufferInv, Name!Abort
  PROVE  BufferInv'
<1>1. namePc = "carry" /\ chars[c] = Name!Slash /\ namePc' = "aborted" /\ given' = Name!Front(given)
      /\ UNCHANGED <<chars, c, removed>>
  BY DEF Name!Abort, Name!Overflow
<1>2. PICK m \in 0 .. Digits : /\ m = 0 <=> chars[c] = Name!Slash
                               /\ \A k \in m + 1 .. Digits : chars[Name!Separator + k] = 0
                               /\ Count(chars) + Powers(Base)[Digits - m] = Len(given) /\ Len(given) > 0
  BY <1>1, Pointer
<1>3. Len(given) = Powers(Base)[Digits] /\ Powers(Base)[Digits] \in Nat
  <2>1. m + 1 = 1 /\ Digits - m = Digits /\ Digits \in Nat
    BY <1>1, <1>2, TheBuffer
  <2>2. Count(chars) = 0
    BY <1>2, <2>1, NoLetters DEF BufferInv
  <2>3. Powers(Base)[Digits] \in Nat
    BY <2>1, LetterPowers DEF BufferInv
  <2> QED BY <1>2, <2>1, <2>2, <2>3
<1>4. /\ given' \in Seq(Seq(Int)) /\ Len(given') = Len(given) - 1
      /\ DOMAIN given' \subseteq DOMAIN given /\ \A n \in DOMAIN given' : given'[n] = given[n]
  <2>1. given' = SubSeq(given, 1, Len(given) - 1) /\ given \in Seq(Seq(Int)) /\ Len(given) > 0
    BY <1>1, <1>2, TheBuffer DEF Name!Front
  <2> QED BY <2>1, FirstOfThem
<1>5. Name!NamesInOrder' /\ Name!RemovedIsParent'
  <2>1. Len(given') = Name!Powers(Base)[Digits] - 1
    BY <1>3, <1>4, OwnNumbers
  <2> QED BY <1>1, <1>4, <2>1 DEF BufferInv, Name!NamesInOrder, Name!RemovedIsParent
<1>6. Name!BufferKept' /\ Counting'
  BY <1>1 DEF BufferInv, Name!BufferKept, Counting
<1> QED BY <1>1, <1>4, <1>5, <1>6 DEF BufferInv

LEMMA StepBuffer == BufferInv /\ [Name!Next]_(Name!vars) => BufferInv'
<1>1. BufferInv /\ UNCHANGED Name!vars => BufferInv'
  BY DEF Name!vars, BufferInv, Counting, Name!BufferKept, Name!NamesInOrder, Name!RemovedIsParent
<1> QED
  BY <1>1, InitialiseStep, TmpPathStep, CarryStep, IncrementStep, AbortStep DEF Name!Next, Name!Over

-----------------------------------------------------------------------------
(* Names are new, come in order, and lie in the directory that is removed, *)
(* with any number of letters and digits; the buffer keeps its form, and   *)
(* the counter stops the host when all names but the last have been given  *)
(* (io.c:45-129).                                                          *)
THEOREM NamesAreNew ==
  ASSUME Name!SizeAssumption
  PROVE  Name!Spec => []NamesRight
<1>1. BufferInv => NamesRight
  BY DEF BufferInv, NamesRight, Name!NamesRight
<1> QED BY <1>1, InitBuffer, StepBuffer, PTL DEF Name!Spec

-----------------------------------------------------------------------------
(* What the C compiler reads. *)
LEMMA Agreeing ==
  ASSUME NEW m \in Nat, NEW f, NEW g, f[0] = g[0],
         \A n \in 0 .. m - 1 : f[n] = g[n] => f[n + 1] = g[n + 1]
  PROVE  \A n \in 0 .. m : f[n] = g[n]
<1> DEFINE S == {n \in Nat : n <= m => f[n] = g[n]}
<1>1. 0 \in S
  OBVIOUS
<1>2. ASSUME NEW n \in Nat, n \in S PROVE n + 1 \in S
  <2> SUFFICES ASSUME n + 1 <= m PROVE f[n + 1] = g[n + 1]
    OBVIOUS
  <2>1. n \in 0 .. m - 1 /\ f[n] = g[n]
    BY <1>2
  <2> QED BY <2>1
<1>3. \A n \in Nat : n \in S
  <2> HIDE DEF S
  <2> QED BY <1>1, <1>2, Induction
<1> QED BY <1>3

-----------------------------------------------------------------------------
(* The states of the reader. *)
St(m, b, a, d) == [mode |-> m, bytes |-> b, acc |-> a, digits |-> d]
Start == St("between", <<>>, 0, 0)

LEMMA StFields ==
  \A m, b, a, d : /\ St(m, b, a, d).mode = m /\ St(m, b, a, d).bytes = b
                  /\ St(m, b, a, d).acc = a /\ St(m, b, a, d).digits = d
BY DEF St

LEMMA StChange ==
  \A m, b, a, d, v : /\ [St(m, b, a, d) EXCEPT !.mode = v] = St(v, b, a, d)
                     /\ [St(m, b, a, d) EXCEPT !.bytes = v] = St(m, v, a, d)
                     /\ [St(m, b, a, d) EXCEPT !.acc = v] = St(m, b, v, d)
                     /\ [St(m, b, a, d) EXCEPT !.digits = v] = St(m, b, a, v)
BY DEF St

(* The byte a character or an escape stands for. *)
Low(ch) == ch % 256

LEMMA Emitted ==
  \A m, b, a, d, ch : Gen!Emit(St(m, b, a, d), ch) = St("text", Append(b, Low(ch)), a, d)
<1> TAKE m, b, a, d, ch
<1>1. PICK v : v = Low(ch)
  OBVIOUS
<1>2. [St(m, b, a, d) EXCEPT !.bytes = Append(@, v), !.mode = "text"]
        = [[St(m, b, a, d) EXCEPT !.bytes = Append(@, v)] EXCEPT !.mode = "text"]
  OBVIOUS
<1>3. [St(m, b, a, d) EXCEPT !.bytes = Append(@, v)] = St(m, Append(b, v), a, d)
  BY SMTT(30) DEF St
<1>4. [St(m, Append(b, v), a, d) EXCEPT !.mode = "text"] = St("text", Append(b, v), a, d)
  BY StChange
<1> QED BY <1>1, <1>2, <1>3, <1>4, Zenon DEF Gen!Emit, Low

LEMMA ReadBetween == \A b : \A a, d, ch \in Int : Gen!Read(St("between", b, a, d), ch) = St("text", b, a, d)
BY StFields, StChange DEF Gen!Read

LEMMA ReadText ==
  \A b : \A a, d, ch \in Int :
    /\ Gen!Read(St("text", b, a, d), ch) = Gen!Plain(St("text", b, a, d), ch)
    /\ ch = 34 => Gen!Read(St("text", b, a, d), ch) = St("between", b, a, d)
    /\ ch = 92 => Gen!Read(St("text", b, a, d), ch) = St("escape", b, a, d)
    /\ ch # 34 /\ ch # 92 => Gen!Read(St("text", b, a, d), ch) = St("text", Append(b, Low(ch)), a, d)
<1> TAKE b
<1> TAKE a, d, ch \in Int
<1>1. Gen!Read(St("text", b, a, d), ch) = Gen!Plain(St("text", b, a, d), ch)
  BY StFields DEF Gen!Read
<1> QED BY <1>1, StChange, Emitted DEF Gen!Plain, Gen!Quote, Gen!Backslash

LEMMA ReadEscape ==
  \A b : \A a, d, ch \in Int :
    /\ ch = 10 => Gen!Read(St("escape", b, a, d), ch) = St("text", b, a, d)
    /\ ch = 120 => Gen!Read(St("escape", b, a, d), ch) = St("hex", b, 0, d)
    /\ ch \in 48 .. 55 => Gen!Read(St("escape", b, a, d), ch) = St("octal", b, ch - 48, 1)
    /\ ch # 10 /\ ch # 120 /\ ch \notin 48 .. 55 =>
         Gen!Read(St("escape", b, a, d), ch) = St("text", Append(b, Low(ch)), a, d)
<1> TAKE b
<1> TAKE a, d, ch \in Int
<1>1. PICK r, v : r = St("escape", b, a, d) /\ v = ch - 48
  OBVIOUS
<1>2. r.mode = "escape" /\ [r EXCEPT !.mode = "text"] = St("text", b, a, d)
  BY <1>1, StFields, StChange
<1>3. Gen!Read(r, ch) =
        CASE ch = 10 -> [r EXCEPT !.mode = "text"]
          [] ch = 120 -> [r EXCEPT !.mode = "hex", !.acc = 0]
          [] ch \in 48 .. 55 -> [r EXCEPT !.mode = "octal", !.acc = v, !.digits = 1]
          [] OTHER -> Gen!Emit(r, ch)
  BY <1>1, <1>2 DEF Gen!Read, Gen!Newline, Gen!x
<1>4. [r EXCEPT !.mode = "hex", !.acc = 0] = St("hex", b, 0, d)
  <2>1. [r EXCEPT !.mode = "hex", !.acc = 0] = [[r EXCEPT !.mode = "hex"] EXCEPT !.acc = 0]
    OBVIOUS
  <2>2. [r EXCEPT !.mode = "hex"] = St("hex", b, a, d)
    BY <1>1, StChange
  <2>3. [St("hex", b, a, d) EXCEPT !.acc = 0] = St("hex", b, 0, d)
    BY StChange
  <2> QED BY <2>1, <2>2, <2>3, Zenon
<1>5. [r EXCEPT !.mode = "octal", !.acc = v, !.digits = 1] = St("octal", b, v, 1)
  <2>1. [r EXCEPT !.mode = "octal", !.acc = v, !.digits = 1]
          = [[[r EXCEPT !.mode = "octal"] EXCEPT !.acc = v] EXCEPT !.digits = 1]
    OBVIOUS
  <2>2. [r EXCEPT !.mode = "octal"] = St("octal", b, a, d)
    BY <1>1, StChange
  <2>3. [St("octal", b, a, d) EXCEPT !.acc = v] = St("octal", b, v, d)
    BY StChange
  <2>4. [St("octal", b, v, d) EXCEPT !.digits = 1] = St("octal", b, v, 1)
    BY StChange
  <2> QED BY <2>1, <2>2, <2>3, <2>4, Zenon
<1>6. Gen!Emit(r, ch) = St("text", Append(b, Low(ch)), a, d)
  BY <1>1, Emitted
<1> QED BY <1>1, <1>2, <1>3, <1>4, <1>5, <1>6

LEMMA ReadHex ==
  \A b : \A a, d, ch \in Int :
    /\ Gen!Hex(ch) < 16 => Gen!Read(St("hex", b, a, d), ch) = St("hex", b, 16 * a + Gen!Hex(ch), d)
    /\ ~(Gen!Hex(ch) < 16) =>
         Gen!Read(St("hex", b, a, d), ch) = Gen!Read(St("text", Append(b, Low(a)), a, d), ch)
<1> TAKE b
<1> TAKE a, d, ch \in Int
<1>1. Gen!Read(St("hex", b, a, d), ch) =
        IF Gen!Hex(ch) < 16 THEN [St("hex", b, a, d) EXCEPT !.acc = 16 * a + Gen!Hex(ch)]
        ELSE Gen!Plain(St("text", Append(b, Low(a)), a, d), ch)
  BY StFields, Emitted DEF Gen!Read
<1> QED BY <1>1, StChange, ReadText

LEMMA ReadOctal ==
  \A b : \A a, d, ch \in Int :
    /\ ch \in 48 .. 55 /\ d < 3 =>
         Gen!Read(St("octal", b, a, d), ch) = St("octal", b, 8 * a + (ch - 48), d + 1)
    /\ ~(ch \in 48 .. 55 /\ d < 3) =>
         Gen!Read(St("octal", b, a, d), ch) = Gen!Read(St("text", Append(b, Low(a)), a, d), ch)
<1> TAKE b
<1> TAKE a, d, ch \in Int
<1>1. PICK r, v, w : r = St("octal", b, a, d) /\ v = 8 * a + (ch - 48) /\ w = d + 1
  OBVIOUS
<1>2. r.mode = "octal" /\ r.acc = a /\ r.digits = d
  BY <1>1, StFields
<1>3. Gen!Emit(r, a) = St("text", Append(b, Low(a)), a, d)
  BY <1>1, Emitted
<1>4. [r EXCEPT !.acc = v, !.digits = w] = St("octal", b, v, w)
  <2>1. [r EXCEPT !.acc = v, !.digits = w] = [[r EXCEPT !.acc = v] EXCEPT !.digits = w]
    OBVIOUS
  <2>2. [r EXCEPT !.acc = v] = St("octal", b, v, d)
    BY <1>1, StChange
  <2>3. [St("octal", b, v, d) EXCEPT !.digits = w] = St("octal", b, v, w)
    BY StChange
  <2> QED BY <2>1, <2>2, <2>3, Zenon
<1>5. Gen!Read(r, ch) = IF ch \in 48 .. 55 /\ r.digits < 3
                        THEN [r EXCEPT !.acc = 8 * @ + (ch - 48), !.digits = @ + 1]
                        ELSE Gen!Plain(Gen!Emit(r, r.acc), ch)
  BY <1>2 DEF Gen!Read
<1>6. [r EXCEPT !.acc = 8 * @ + (ch - 48), !.digits = @ + 1] = [r EXCEPT !.acc = v, !.digits = w]
  BY <1>1, <1>2, Zenon
<1> QED BY <1>1, <1>2, <1>3, <1>4, <1>5, <1>6, ReadText

-----------------------------------------------------------------------------
Modes == {"between", "text", "escape", "hex", "octal"}
Readers == [mode : Modes, bytes : Seq(Int), acc : Int, digits : Int]

LEMMA ReadersAre ==
  /\ \A m \in Modes, b \in Seq(Int), a, d \in Int : St(m, b, a, d) \in Readers
  /\ \A r \in Readers : /\ r.mode \in Modes /\ r.bytes \in Seq(Int) /\ r.acc \in Int /\ r.digits \in Int
                        /\ r = St(r.mode, r.bytes, r.acc, r.digits)
BY DEF St, Readers

LEMMA HexInt == \A ch \in Int : Gen!Hex(ch) \in Int
BY DEF Gen!Hex

LEMMA ReadType ==
  ASSUME NEW r \in Readers, NEW ch \in Int
  PROVE  Gen!Read(r, ch) \in Readers
<1>1. PICK m \in Modes, b \in Seq(Int), a \in Int, d \in Int : r = St(m, b, a, d)
  BY ReadersAre
<1>2. \A s \in Seq(Int), v \in Int : Append(s, Low(v)) \in Seq(Int)
  BY DEF Low
<1>3. PICK s \in Seq(Int) : s = Append(b, Low(a))
  BY <1>2
<1>4. PICK u \in Seq(Int) : u = Append(b, Low(ch))
  BY <1>2
<1>5. PICK w \in Seq(Int) : w = Append(s, Low(ch))
  BY <1>2
<1>6. \A z \in Seq(Int), v, k \in Int :
        /\ St("between", z, v, k) \in Readers /\ St("text", z, v, k) \in Readers
        /\ St("escape", z, v, k) \in Readers /\ St("hex", z, v, k) \in Readers
        /\ St("octal", z, v, k) \in Readers
  <2>1. "between" \in Modes /\ "text" \in Modes /\ "escape" \in Modes /\ "hex" \in Modes /\ "octal" \in Modes
    BY DEF Modes
  <2> QED BY <2>1, ReadersAre
<1>7. Gen!Read(St("text", b, a, d), ch) \in Readers
  <2>1. Gen!Read(St("text", b, a, d), ch)
          \in {St("between", b, a, d), St("escape", b, a, d), St("text", u, a, d)}
    BY <1>4, ReadText
  <2> QED BY <1>6, <2>1
<1>8. Gen!Read(St("text", s, a, d), ch) \in Readers
  <2>1. Gen!Read(St("text", s, a, d), ch)
          \in {St("between", s, a, d), St("escape", s, a, d), St("text", w, a, d)}
    BY <1>5, ReadText, SMTT(30)
  <2> QED BY <1>6, <2>1
<1>9. CASE m = "between" \/ m = "text"
  BY <1>1, <1>6, <1>7, <1>9, ReadBetween
<1>10. CASE m = "escape"
  <2>1. PICK v \in Int : v = ch - 48
    OBVIOUS
  <2>2. Gen!Read(St("escape", b, a, d), ch)
          \in {St("text", b, a, d), St("hex", b, 0, d), St("octal", b, v, 1), St("text", u, a, d)}
    BY <1>4, <2>1, ReadEscape
  <2> QED BY <1>1, <1>6, <1>10, <2>2
<1>11. CASE m = "hex"
  <2>1. PICK v \in Int : v = 16 * a + Gen!Hex(ch)
    BY HexInt
  <2>2. Gen!Read(St("hex", b, a, d), ch)
          \in {St("hex", b, v, d), Gen!Read(St("text", s, a, d), ch)}
    BY <1>3, <2>1, ReadHex
  <2> QED BY <1>1, <1>6, <1>8, <1>11, <2>2
<1>12. CASE m = "octal"
  <2>1. PICK v \in Int, k \in Int : v = 8 * a + (ch - 48) /\ k = d + 1
    OBVIOUS
  <2>2. Gen!Read(St("octal", b, a, d), ch)
          \in {St("octal", b, v, k), Gen!Read(St("text", s, a, d), ch)}
    BY <1>3, <2>1, ReadOctal
  <2> QED BY <1>1, <1>6, <1>8, <1>12, <2>2
<1> QED BY <1>9, <1>10, <1>11, <1>12 DEF Modes

LEMMA TrigraphType ==
  ASSUME NEW t \in Seq(Int), NEW ch \in Int
  PROVE  Gen!TrigraphStep(t, ch) \in Seq(Int)
<1>1. Append(t, ch) \in Seq(Int)
  OBVIOUS
<1>2. CASE Gen!Questions(t)
  <2>1. Len(t) \in Nat /\ Len(t) > 1
    BY <1>2 DEF Gen!Questions
  <2>2. SubSeq(t, 1, Len(t) - 2) \in Seq(Int)
    <3>1. \A k \in 1 .. Len(t) - 2 : t[k] \in Int
      BY <2>1
    <3> QED BY <2>1, <3>1
  <2>3. \A v \in Int : Append(SubSeq(t, 1, Len(t) - 2), v) \in Seq(Int)
    BY <2>2
  <2> QED BY <1>1, <2>3 DEF Gen!TrigraphStep, Gen!Backslash
<1>3. CASE ~Gen!Questions(t)
  BY <1>1, <1>3 DEF Gen!TrigraphStep
<1> QED BY <1>2, <1>3

-----------------------------------------------------------------------------
(* The states the reader goes through, and the text as it grows. *)
Reading(t, f) ==
  /\ f \in [0 .. Len(t) -> Readers] /\ f[0] = Start
  /\ \A n \in 0 .. Len(t) - 1 : f[n + 1] = Gen!Read(f[n], t[n + 1])

Replacing(t, f) ==
  /\ f \in [0 .. Len(t) -> Seq(Int)] /\ f[0] = <<>>
  /\ \A n \in 0 .. Len(t) - 1 : f[n + 1] = Gen!TrigraphStep(f[n], t[n + 1])

LEMMA SeqFacts ==
  ASSUME NEW t \in Seq(Int)
  PROVE  /\ Len(t) \in Nat /\ \A n \in 0 .. Len(t) - 1 : t[n + 1] \in Int /\ n \in Nat
         /\ \A n \in 0 .. Len(t) : n # 0 => n - 1 \in 0 .. Len(t) - 1 /\ (n - 1) + 1 = n
         /\ \A n \in 0 .. Len(t) - 1 : n + 1 \in 0 .. Len(t) /\ n + 1 # 0 /\ (n + 1) - 1 = n /\ n \in 0 .. Len(t)
         /\ 0 \in 0 .. Len(t) /\ Len(t) \in 0 .. Len(t) /\ \A n \in 0 .. Len(t) : n \in Nat
<1>1. Len(t) \in Nat /\ \A n \in 1 .. Len(t) : t[n] \in Int
  OBVIOUS
<1>2. \A n \in 0 .. Len(t) - 1 : n + 1 \in 1 .. Len(t)
  BY <1>1
<1>3. \A n \in 0 .. Len(t) - 1 : t[n + 1] \in Int /\ n \in Nat
  BY <1>1, <1>2
<1> QED BY <1>1, <1>3

(* What becomes of a text, character by character. *)
Grows(V, start, step, t, f) ==
  /\ f \in [0 .. Len(t) -> V] /\ f[0] = start
  /\ \A n \in 0 .. Len(t) - 1 : f[n + 1] = step[<<f[n], t[n + 1]>>]

LEMMA Growing ==
  ASSUME NEW V, NEW start \in V, NEW step \in [V \X Int -> V], NEW t \in Seq(Int)
  PROVE  \E f : Grows(V, start, step, t, f)
<1> DEFINE next == [n \in Nat |-> IF n \in 0 .. Len(t) - 1 THEN t[n + 1] ELSE 0]
           along == [y \in Nat \X V |-> step[<<y[2], next[y[1]]>>]]
<1>1. next \in [Nat -> Int] /\ \A n \in 0 .. Len(t) - 1 : next[n] = t[n + 1]
  BY SeqFacts
<1> HIDE DEF next
<1>2. \A n \in Nat, v \in V : step[<<v, next[n]>>] \in V
  BY <1>1
<1>3. along \in [Nat \X V -> V]
  BY <1>2
<1>4. \A n \in Nat, v \in V : along[<<n, v>>] = step[<<v, next[n]>>]
  <2> TAKE n \in Nat, v \in V
  <2>1. PICK y : y = <<n, v>>
    OBVIOUS
  <2>2. y \in Nat \X V /\ y[1] = n /\ y[2] = v
    BY <2>1
  <2>3. along[y] = step[<<y[2], next[y[1]]>>]
    BY <2>2, Zenon
  <2> QED BY <2>1, <2>2, <2>3
<1> HIDE DEF along
<1>5. PICK h : Obeys(V, start, along, h)
  BY <1>3, Recursion DEF Recurrence
<1>6. h \in [Nat -> V] /\ h[0] = start /\ \A n \in Nat : h[n + 1] = along[<<n, h[n]>>]
  BY <1>5 DEF Obeys
<1>7. \A n \in 0 .. Len(t) - 1 : h[n + 1] = step[<<h[n], t[n + 1]>>]
  <2> TAKE n \in 0 .. Len(t) - 1
  <2>1. n \in Nat
    BY SeqFacts
  <2>2. PICK v \in V : v = h[n]
    BY <1>6, <2>1
  <2>3. along[<<n, v>>] = step[<<v, next[n]>>]
    BY <1>4, <2>1
  <2>4. next[n] = t[n + 1]
    BY <1>1
  <2>5. h[n + 1] = along[<<n, h[n]>>]
    BY <1>6, <2>1
  <2> QED BY <2>2, <2>3, <2>4, <2>5, Zenon
<1>8. Grows(V, start, step, t, [n \in 0 .. Len(t) |-> h[n]])
  BY <1>6, <1>7, SeqFacts DEF Grows
<1> QED BY <1>8

LEMMA ReaderIs ==
  ASSUME NEW t \in Seq(Int)
  PROVE  \E f : Reading(t, f) /\ Gen!Reader(t) = f[Len(t)]
<1> DEFINE step == [y \in Readers \X Int |-> Gen!Read(y[1], y[2])]
           Q(f) == [n \in 0 .. Len(t) |-> IF n = 0 THEN Start ELSE Gen!Read(f[n - 1], t[n])]
           first == CHOOSE f : f = Q(f)
<1>1. \A r \in Readers, ch \in Int : step[<<r, ch>>] = Gen!Read(r, ch)
  <2> TAKE r \in Readers, ch \in Int
  <2>1. PICK y : y = <<r, ch>>
    OBVIOUS
  <2>2. y \in Readers \X Int /\ y[1] = r /\ y[2] = ch
    BY <2>1
  <2>3. step[y] = Gen!Read(y[1], y[2])
    BY <2>2, Zenon
  <2> QED BY <2>1, <2>2, <2>3
<1>2. step \in [Readers \X Int -> Readers]
  BY ReadType
<1>3. Start \in Readers
  <2>1. "between" \in Modes
    BY DEF Modes
  <2>2. <<>> \in Seq(Int)
    OBVIOUS
  <2>3. PICK b : b = <<>>
    OBVIOUS
  <2>4. b \in Seq(Int) /\ 0 \in Int
    BY <2>2, <2>3
  <2>5. \A z \in Seq(Int) : St("between", z, 0, 0) \in Readers
    BY <2>1, ReadersAre
  <2> QED BY <2>3, <2>4, <2>5 DEF Start
<1> HIDE DEF step, first
<1>4. PICK g : Grows(Readers, Start, step, t, g)
  BY <1>2, <1>3, Growing
<1>5. Reading(t, g)
  BY <1>1, <1>4, SeqFacts DEF Grows, Reading
<1>6. g = Q(g)
  <2>1. \A n \in 0 .. Len(t) : g[n] = IF n = 0 THEN Start ELSE Gen!Read(g[n - 1], t[n])
    BY <1>5, SeqFacts DEF Reading
  <2> QED BY <1>5, <2>1 DEF Reading
<1>7. first = Q(first)
  BY <1>6, Zenon DEF first
<1>8. Gen!Reader(t) = first[Len(t)]
  BY Zenon DEF Gen!Reader, Start, St, first
<1>9. \A n \in 0 .. Len(t) : first[n] = IF n = 0 THEN Start ELSE Gen!Read(first[n - 1], t[n])
  BY <1>7
<1>10. first[0] = g[0]
  BY <1>5, <1>9, SeqFacts DEF Reading
<1>11. \A n \in 0 .. Len(t) - 1 : first[n] = g[n] => first[n + 1] = g[n + 1]
  BY <1>5, <1>9, SeqFacts DEF Reading
<1>12. first[Len(t)] = g[Len(t)]
  <2>1. PICK f, m : f = first /\ m = Len(t)
    OBVIOUS
  <2>2. m \in Nat /\ f[0] = g[0] /\ \A n \in 0 .. m - 1 : f[n] = g[n] => f[n + 1] = g[n + 1]
    BY <1>10, <1>11, <2>1, SeqFacts
  <2>3. \A n \in 0 .. m : f[n] = g[n]
    BY <2>2, Agreeing
  <2> QED BY <2>1, <2>2, <2>3
<1> QED BY <1>5, <1>8, <1>12

LEMMA TrigraphsAre ==
  ASSUME NEW t \in Seq(Int)
  PROVE  \E f : Replacing(t, f) /\ Gen!Trigraphs(t) = f[Len(t)]
<1> DEFINE step == [y \in Seq(Int) \X Int |-> Gen!TrigraphStep(y[1], y[2])]
           Q(f) == [n \in 0 .. Len(t) |-> IF n = 0 THEN <<>> ELSE Gen!TrigraphStep(f[n - 1], t[n])]
           first == CHOOSE f : f = Q(f)
<1>1. \A r \in Seq(Int), ch \in Int : step[<<r, ch>>] = Gen!TrigraphStep(r, ch)
  <2> TAKE r \in Seq(Int), ch \in Int
  <2>1. PICK y : y = <<r, ch>>
    OBVIOUS
  <2>2. y \in Seq(Int) \X Int /\ y[1] = r /\ y[2] = ch
    BY <2>1
  <2>3. step[y] = Gen!TrigraphStep(y[1], y[2])
    BY <2>2, Zenon
  <2> QED BY <2>1, <2>2, <2>3
<1>2. step \in [Seq(Int) \X Int -> Seq(Int)]
  BY TrigraphType
<1>3. <<>> \in Seq(Int)
  OBVIOUS
<1> HIDE DEF step, first
<1>4. PICK g : Grows(Seq(Int), <<>>, step, t, g)
  BY <1>2, <1>3, Growing
<1>5. Replacing(t, g)
  BY <1>1, <1>4, SeqFacts DEF Grows, Replacing
<1>6. g = Q(g)
  <2>1. \A n \in 0 .. Len(t) : g[n] = IF n = 0 THEN <<>> ELSE Gen!TrigraphStep(g[n - 1], t[n])
    BY <1>5, SeqFacts DEF Replacing
  <2> QED BY <1>5, <2>1 DEF Replacing
<1>7. first = Q(first)
  BY <1>6, Zenon DEF first
<1>8. Gen!Trigraphs(t) = first[Len(t)]
  BY Zenon DEF Gen!Trigraphs, first
<1>9. \A n \in 0 .. Len(t) : first[n] = IF n = 0 THEN <<>> ELSE Gen!TrigraphStep(first[n - 1], t[n])
  BY <1>7
<1>10. first[0] = g[0]
  BY <1>5, <1>9, SeqFacts DEF Replacing
<1>11. \A n \in 0 .. Len(t) - 1 : first[n] = g[n] => first[n + 1] = g[n + 1]
  BY <1>5, <1>9, SeqFacts DEF Replacing
<1>12. first[Len(t)] = g[Len(t)]
  <2>1. PICK f, m : f = first /\ m = Len(t)
    OBVIOUS
  <2>2. m \in Nat /\ f[0] = g[0] /\ \A n \in 0 .. m - 1 : f[n] = g[n] => f[n + 1] = g[n + 1]
    BY <1>10, <1>11, <2>1, SeqFacts
  <2>3. \A n \in 0 .. m : f[n] = g[n]
    BY <2>2, Agreeing
  <2> QED BY <2>1, <2>2, <2>3
<1> QED BY <1>5, <1>8, <1>12

-----------------------------------------------------------------------------
(* What is behind the end of a text changes nothing before it. *)
LEMMA Appended ==
  ASSUME NEW t \in Seq(Int), NEW ch \in Int
  PROVE  /\ Append(t, ch) \in Seq(Int) /\ Len(Append(t, ch)) = Len(t) + 1
         /\ Append(t, ch)[Len(t) + 1] = ch
         /\ \A n \in 1 .. Len(t) : Append(t, ch)[n] = t[n]
         /\ \A n \in 0 .. Len(t) - 1 : Append(t, ch)[n + 1] = t[n + 1] /\ n \in 0 .. Len(Append(t, ch)) - 1
         /\ Len(t) \in 0 .. Len(Append(t, ch)) - 1
<1>1. /\ Append(t, ch) \in Seq(Int) /\ Len(Append(t, ch)) = Len(t) + 1 /\ Len(t) \in Nat
      /\ Append(t, ch)[Len(t) + 1] = ch
      /\ \A n \in 1 .. Len(t) : Append(t, ch)[n] = t[n]
  OBVIOUS
<1>2. \A n \in 0 .. Len(t) - 1 : n + 1 \in 1 .. Len(t) /\ n \in 0 .. (Len(t) + 1) - 1
  BY <1>1
<1> QED BY <1>1, <1>2

LEMMA ReadAppend ==
  ASSUME NEW t \in Seq(Int), NEW ch \in Int
  PROVE  Gen!Reader(t) \in Readers /\ Gen!Reader(Append(t, ch)) = Gen!Read(Gen!Reader(t), ch)
<1>1. PICK u : u = Append(t, ch)
  OBVIOUS
<1>2. /\ u \in Seq(Int) /\ Len(u) = Len(t) + 1 /\ u[Len(t) + 1] = ch
      /\ \A n \in 0 .. Len(t) - 1 : u[n + 1] = t[n + 1] /\ n \in 0 .. Len(u) - 1
      /\ Len(t) \in 0 .. Len(u) - 1
  BY <1>1, Appended
<1>3. PICK f : Reading(t, f) /\ Gen!Reader(t) = f[Len(t)]
  BY ReaderIs
<1>4. PICK g : Reading(u, g) /\ Gen!Reader(u) = g[Len(u)]
  BY <1>2, ReaderIs
<1>5. Len(t) \in Nat
  OBVIOUS
<1>6. f[0] = g[0] /\ \A n \in 0 .. Len(t) - 1 : f[n] = g[n] => f[n + 1] = g[n + 1]
  BY <1>2, <1>3, <1>4 DEF Reading
<1>7. \A n \in 0 .. Len(t) : f[n] = g[n]
  BY <1>5, <1>6, Agreeing
<1>8. g[Len(t) + 1] = Gen!Read(g[Len(t)], u[Len(t) + 1])
  BY <1>2, <1>4 DEF Reading
<1>9. Len(t) \in 0 .. Len(t)
  BY <1>5
<1>10. f[Len(t)] \in Readers
  BY <1>3, <1>9 DEF Reading
<1> QED BY <1>1, <1>2, <1>3, <1>4, <1>7, <1>8, <1>9, <1>10

LEMMA TrigraphsAppend ==
  ASSUME NEW t \in Seq(Int), NEW ch \in Int
  PROVE  Gen!Trigraphs(Append(t, ch)) = Gen!TrigraphStep(Gen!Trigraphs(t), ch)
<1>1. PICK u : u = Append(t, ch)
  OBVIOUS
<1>2. /\ u \in Seq(Int) /\ Len(u) = Len(t) + 1 /\ u[Len(t) + 1] = ch
      /\ \A n \in 0 .. Len(t) - 1 : u[n + 1] = t[n + 1] /\ n \in 0 .. Len(u) - 1
      /\ Len(t) \in 0 .. Len(u) - 1
  BY <1>1, Appended
<1>3. PICK f : Replacing(t, f) /\ Gen!Trigraphs(t) = f[Len(t)]
  BY TrigraphsAre
<1>4. PICK g : Replacing(u, g) /\ Gen!Trigraphs(u) = g[Len(u)]
  BY <1>2, TrigraphsAre
<1>5. Len(t) \in Nat
  OBVIOUS
<1>6. f[0] = g[0] /\ \A n \in 0 .. Len(t) - 1 : f[n] = g[n] => f[n + 1] = g[n + 1]
  BY <1>2, <1>3, <1>4 DEF Replacing
<1>7. \A n \in 0 .. Len(t) : f[n] = g[n]
  BY <1>5, <1>6, Agreeing
<1>8. g[Len(t) + 1] = Gen!TrigraphStep(g[Len(t)], u[Len(t) + 1])
  BY <1>2, <1>4 DEF Replacing
<1>9. Len(t) \in 0 .. Len(t)
  BY <1>5
<1> QED BY <1>1, <1>2, <1>3, <1>4, <1>7, <1>8, <1>9

-----------------------------------------------------------------------------
(* A text in which no trigraph is or may begin. *)
EndsInQuestion(t) == Len(t) > 0 /\ t[Len(t)] = 63
Clean(t) == t \in Seq(Int) /\ Gen!Trigraphs(t) = t /\ ~Gen!Questions(t)

LEMMA OneMore ==
  ASSUME NEW t, NEW ch \in Int, Clean(t), ch = 63 => ~EndsInQuestion(t)
  PROVE  /\ Clean(Append(t, ch)) /\ (EndsInQuestion(Append(t, ch)) <=> ch = 63)
         /\ Gen!Reader(t) \in Readers /\ Gen!Reader(Append(t, ch)) = Gen!Read(Gen!Reader(t), ch)
<1>1. t \in Seq(Int) /\ Gen!Trigraphs(t) = t /\ ~Gen!Questions(t)
  BY DEF Clean
<1>2. PICK u : u = Append(t, ch)
  OBVIOUS
<1>3. /\ u \in Seq(Int) /\ Len(t) \in Nat /\ Len(u) = Len(t) + 1 /\ u[Len(t) + 1] = ch
      /\ \A n \in 1 .. Len(t) : u[n] = t[n]
  BY <1>1, <1>2, Appended
<1>4. Gen!Trigraphs(u) = u
  BY <1>1, <1>2, TrigraphsAppend DEF Gen!TrigraphStep
<1>5. ~Gen!Questions(u)
  <2> SUFFICES ASSUME Len(u) > 1, u[Len(u) - 1] = 63, u[Len(u)] = 63 PROVE FALSE
    BY DEF Gen!Questions, Gen!QuestionMark
  <2>1. ch = 63 /\ Len(t) > 0 /\ Len(u) - 1 = Len(t) /\ Len(t) \in 1 .. Len(t)
    BY <1>3
  <2>2. t[Len(t)] = 63
    BY <1>3, <2>1
  <2> QED BY <2>1, <2>2 DEF EndsInQuestion
<1>6. EndsInQuestion(u) <=> ch = 63
  BY <1>3 DEF EndsInQuestion
<1>7. Clean(u)
  BY <1>3, <1>4, <1>5 DEF Clean
<1>8. Gen!Reader(t) \in Readers /\ Gen!Reader(u) = Gen!Read(Gen!Reader(t), ch)
  BY <1>1, <1>2, ReadAppend
<1> QED BY <1>2, <1>6, <1>7, <1>8, Zenon

LEMMA CleanEmpty == Clean(<<>>) /\ ~EndsInQuestion(<<>>) /\ Gen!Reader(<<>>) = Start
<1>1. PICK t : t = <<>>
  OBVIOUS
<1>2. t \in Seq(Int) /\ Len(t) = 0
  BY <1>1
<1>3. PICK f : Reading(t, f) /\ Gen!Reader(t) = f[Len(t)]
  BY <1>2, ReaderIs
<1>4. PICK g : Replacing(t, g) /\ Gen!Trigraphs(t) = g[Len(t)]
  BY <1>2, TrigraphsAre
<1>5. Gen!Reader(t) = Start
  BY <1>2, <1>3 DEF Reading
<1>6. Gen!Trigraphs(t) = t
  BY <1>1, <1>2, <1>4 DEF Replacing
<1>7. Clean(t) /\ ~EndsInQuestion(t)
  BY <1>2, <1>6 DEF Clean, Gen!Questions, EndsInQuestion
<1> QED BY <1>1, <1>5, <1>7, Zenon

-----------------------------------------------------------------------------
(* What has been read when the literal ends here. *)
Ends(r, s) ==
  \E b \in Seq(Int), a, d \in Int :
    \/ r = St("text", s, a, d)
    \/ (r = St("hex", b, a, d) \/ r = St("octal", b, a, 3)) /\ s = Append(b, Low(a))

LEMMA NextInText ==
  ASSUME NEW r, NEW s, NEW ch \in Int, Ends(r, s), r.mode = "hex" => Gen!Hex(ch) = 16
  PROVE  \E a, d \in Int : Gen!Read(r, ch) = Gen!Read(St("text", s, a, d), ch)
<1>1. PICK b \in Seq(Int), a \in Int, d \in Int :
        \/ r = St("text", s, a, d)
        \/ (r = St("hex", b, a, d) \/ r = St("octal", b, a, 3)) /\ s = Append(b, Low(a))
  BY DEF Ends
<1>2. CASE r = St("text", s, a, d)
  BY <1>2
<1>3. CASE r = St("hex", b, a, d) /\ s = Append(b, Low(a))
  <2>1. ~(Gen!Hex(ch) < 16)
    BY <1>3, StFields
  <2> QED BY <1>3, <2>1, ReadHex
<1>4. CASE r = St("octal", b, a, 3) /\ s = Append(b, Low(a))
  <2>1. 3 \in Int /\ ~(ch \in 48 .. 55 /\ 3 < 3)
    OBVIOUS
  <2>2. Gen!Read(St("octal", b, a, 3), ch) = Gen!Read(St("text", Append(b, Low(a)), a, 3), ch)
    BY <2>1, ReadOctal
  <2> QED BY <1>4, <2>1, <2>2
<1> QED BY <1>1, <1>2, <1>3, <1>4

LEMMA Closed ==
  ASSUME NEW t, NEW s, Clean(t), Ends(Gen!Reader(t), s)
  PROVE  Gen!CReads(Append(t, 34)) = s
<1>1. Clean(Append(t, 34)) /\ Gen!Reader(Append(t, 34)) = Gen!Read(Gen!Reader(t), 34)
  BY OneMore
<1>2. Gen!Hex(34) = 16 /\ 34 \in Int
  BY DEF Gen!Hex
<1>3. PICK a \in Int, d \in Int : Gen!Read(Gen!Reader(t), 34) = Gen!Read(St("text", s, a, d), 34)
  <2>1. PICK r : r = Gen!Reader(t)
    OBVIOUS
  <2>2. \E a, d \in Int : Gen!Read(r, 34) = Gen!Read(St("text", s, a, d), 34)
    BY <1>2, <2>1, NextInText
  <2> QED BY <2>1, <2>2
<1>4. Gen!Read(St("text", s, a, d), 34) = St("between", s, a, d)
  BY ReadText
<1>5. Gen!Trigraphs(Append(t, 34)) = Append(t, 34)
  BY <1>1 DEF Clean
<1>6. Gen!Reader(Append(t, 34)) = St("between", s, a, d)
  BY <1>1, <1>3, <1>4, Zenon
<1>7. Gen!CReads(Append(t, 34)) = St("between", s, a, d).bytes
  BY <1>5, <1>6, Zenon DEF Gen!CReads
<1>8. St("between", s, a, d).bytes = s
  BY StFields
<1> QED BY <1>7, <1>8, Zenon

-----------------------------------------------------------------------------
(* In the middle of a literal, behind the first character of an escape, and *)
(* between two literals: what has been read so far.                          *)
At(m, t, s) == Clean(t) /\ ~EndsInQuestion(t) /\ \E a, d \in Int : Gen!Reader(t) = St(m, s, a, d)

LEMMA ReadOn ==
  ASSUME NEW t, NEW s, NEW ch \in Int, Clean(t), Ends(Gen!Reader(t), s),
         Gen!Reader(t).mode = "hex" => Gen!Hex(ch) = 16, ch = 63 => ~EndsInQuestion(t)
  PROVE  /\ Clean(Append(t, ch)) /\ (EndsInQuestion(Append(t, ch)) <=> ch = 63)
         /\ \E a, d \in Int : Gen!Reader(Append(t, ch)) = Gen!Read(St("text", s, a, d), ch)
<1>1. /\ Clean(Append(t, ch)) /\ (EndsInQuestion(Append(t, ch)) <=> ch = 63)
      /\ Gen!Reader(Append(t, ch)) = Gen!Read(Gen!Reader(t), ch)
  BY OneMore
<1>2. PICK r : r = Gen!Reader(t)
  OBVIOUS
<1>3. PICK a \in Int, d \in Int : Gen!Read(r, ch) = Gen!Read(St("text", s, a, d), ch)
  BY <1>2, NextInText
<1> QED BY <1>1, <1>2, <1>3

(* A character that stands for itself, and the quote and the backslash. *)
LEMMA PlainRead ==
  ASSUME NEW t, NEW s, NEW ch \in Int, Clean(t), Ends(Gen!Reader(t), s),
         Gen!Reader(t).mode = "hex" => Gen!Hex(ch) = 16, ch = 63 => ~EndsInQuestion(t),
         ch # 34, ch # 92
  PROVE  /\ Clean(Append(t, ch)) /\ (EndsInQuestion(Append(t, ch)) <=> ch = 63)
         /\ \E a, d \in Int : Gen!Reader(Append(t, ch)) = St("text", Append(s, Low(ch)), a, d)
<1>1. PICK a \in Int, d \in Int : Gen!Reader(Append(t, ch)) = Gen!Read(St("text", s, a, d), ch)
  BY ReadOn
<1>2. Gen!Read(St("text", s, a, d), ch) = St("text", Append(s, Low(ch)), a, d)
  BY ReadText
<1> QED BY <1>1, <1>2, ReadOn

LEMMA QuoteRead ==
  ASSUME NEW t, NEW s, Clean(t), Ends(Gen!Reader(t), s)
  PROVE  At("between", Append(t, 34), s)
<1>1. Gen!Hex(34) = 16 /\ 34 \in Int /\ 34 # 63
  BY DEF Gen!Hex
<1>2. PICK a \in Int, d \in Int : Gen!Reader(Append(t, 34)) = Gen!Read(St("text", s, a, d), 34)
  BY <1>1, ReadOn
<1>3. Gen!Read(St("text", s, a, d), 34) = St("between", s, a, d)
  BY ReadText
<1>4. Clean(Append(t, 34)) /\ ~EndsInQuestion(Append(t, 34))
  BY <1>1, ReadOn
<1> QED BY <1>2, <1>3, <1>4 DEF At

LEMMA BackslashRead ==
  ASSUME NEW t, NEW s, Clean(t), Ends(Gen!Reader(t), s)
  PROVE  At("escape", Append(t, 92), s)
<1>1. Gen!Hex(92) = 16 /\ 92 \in Int /\ 92 # 63
  BY DEF Gen!Hex
<1>2. PICK a \in Int, d \in Int : Gen!Reader(Append(t, 92)) = Gen!Read(St("text", s, a, d), 92)
  BY <1>1, ReadOn
<1>3. Gen!Read(St("text", s, a, d), 92) = St("escape", s, a, d)
  BY ReadText
<1>4. Clean(Append(t, 92)) /\ ~EndsInQuestion(Append(t, 92))
  BY <1>1, ReadOn
<1> QED BY <1>2, <1>3, <1>4 DEF At

(* The second quote, and what is behind the backslash. *)
LEMMA AfterQuote ==
  ASSUME NEW t, NEW s, At("between", t, s)
  PROVE  At("text", Append(t, 34), s)
<1>1. PICK a \in Int, d \in Int : Gen!Reader(t) = St("between", s, a, d)
  BY DEF At
<1>2. Clean(t) /\ 34 \in Int /\ 34 # 63
  BY DEF At
<1>3. /\ Clean(Append(t, 34)) /\ ~EndsInQuestion(Append(t, 34))
      /\ Gen!Reader(Append(t, 34)) = Gen!Read(Gen!Reader(t), 34)
  BY <1>2, OneMore
<1>4. Gen!Read(St("between", s, a, d), 34) = St("text", s, a, d)
  BY <1>2, ReadBetween
<1> QED BY <1>1, <1>3, <1>4 DEF At

LEMMA AfterBackslash ==
  ASSUME NEW t, NEW s, NEW ch \in Int, At("escape", t, s), ch # 63
  PROVE  /\ Clean(Append(t, ch)) /\ ~EndsInQuestion(Append(t, ch))
         /\ \E a, d \in Int :
              /\ ch = 10 => Gen!Reader(Append(t, ch)) = St("text", s, a, d)
              /\ ch = 120 => Gen!Reader(Append(t, ch)) = St("hex", s, 0, d)
              /\ ch \in 48 .. 55 => Gen!Reader(Append(t, ch)) = St("octal", s, ch - 48, 1)
              /\ ch \in {34, 92} => Gen!Reader(Append(t, ch)) = St("text", Append(s, Low(ch)), a, d)
<1>1. PICK a \in Int, d \in Int : Gen!Reader(t) = St("escape", s, a, d)
  BY DEF At
<1>2. Clean(t)
  BY DEF At
<1>3. /\ Clean(Append(t, ch)) /\ ~EndsInQuestion(Append(t, ch))
      /\ Gen!Reader(Append(t, ch)) = Gen!Read(Gen!Reader(t), ch)
  BY <1>2, OneMore
<1>4. PICK r : r = Gen!Read(St("escape", s, a, d), ch)
  OBVIOUS
<1>5. /\ ch = 10 => r = St("text", s, a, d)
      /\ ch = 120 => r = St("hex", s, 0, d)
      /\ ch \in 48 .. 55 => r = St("octal", s, ch - 48, 1)
      /\ ch # 10 /\ ch # 120 /\ ch \notin 48 .. 55 => r = St("text", Append(s, Low(ch)), a, d)
  BY <1>4, ReadEscape
<1>6. ch \in {34, 92} => r = St("text", Append(s, Low(ch)), a, d)
  BY <1>5
<1> QED BY <1>1, <1>3, <1>4, <1>5, <1>6

(* In an escape: what it stands for so far. *)
InHex(t, s, a) == Clean(t) /\ ~EndsInQuestion(t) /\ \E d \in Int : Gen!Reader(t) = St("hex", s, a, d)
InOctal(t, s, a, d) == Clean(t) /\ ~EndsInQuestion(t) /\ Gen!Reader(t) = St("octal", s, a, d)

LEMMA HexRead ==
  ASSUME NEW t, NEW s, NEW a \in Int, NEW ch \in Int, NEW v \in Int, NEW z, InHex(t, s, a),
         ch # 63, Gen!Hex(ch) = v, v < 16, z = 16 * a + v
  PROVE  InHex(Append(t, ch), s, z)
<1>1. PICK d \in Int : Gen!Reader(t) = St("hex", s, a, d)
  BY DEF InHex
<1>2. /\ Clean(Append(t, ch)) /\ ~EndsInQuestion(Append(t, ch))
      /\ Gen!Reader(Append(t, ch)) = Gen!Read(Gen!Reader(t), ch)
  BY OneMore DEF InHex
<1>3. Gen!Read(St("hex", s, a, d), ch) = St("hex", s, 16 * a + v, d)
  BY ReadHex
<1> QED BY <1>1, <1>2, <1>3, Zenon DEF InHex

LEMMA OctalRead ==
  ASSUME NEW t, NEW s, NEW a \in Int, NEW d \in Int, NEW v \in 0 .. 7, NEW ch, NEW z, NEW e,
         InOctal(t, s, a, d), d < 3, ch = 48 + v, z = 8 * a + v, e = d + 1
  PROVE  InOctal(Append(t, ch), s, z, e)
<1>1. ch # 63 /\ ch \in 48 .. 55 /\ ch \in Int /\ z = 8 * a + (ch - 48)
  OBVIOUS
<1>2. /\ Clean(Append(t, ch)) /\ ~EndsInQuestion(Append(t, ch))
      /\ Gen!Reader(Append(t, ch)) = Gen!Read(Gen!Reader(t), ch)
  BY <1>1, OneMore DEF InOctal
<1>3. Gen!Read(St("octal", s, a, d), ch) = St("octal", s, 8 * a + (ch - 48), d + 1)
  BY <1>1, ReadOctal
<1> QED BY <1>1, <1>2, <1>3, Zenon DEF InOctal

-----------------------------------------------------------------------------
LEMMA LowByte == \A n \in 0 .. 255 : Low(n) = n
BY DEF Low

LEMMA HexDigits ==
  /\ \A n \in 0 .. 255 : n \div 16 \in 0 .. 15 /\ n % 16 \in 0 .. 15 /\ 16 * (n \div 16) + (n % 16) = n
  /\ \A v \in 0 .. 15 : Gen!HexDigit(v) \in Int /\ Gen!HexDigit(v) # 63 /\ Gen!Hex(Gen!HexDigit(v)) = v
<1>1. \A n \in 0 .. 255 : n \div 16 \in 0 .. 15
  OBVIOUS
<1>2. \A n \in 0 .. 255 : n % 16 \in 0 .. 15
  OBVIOUS
<1>3. \A n \in 0 .. 255 : 16 * (n \div 16) + (n % 16) = n
  <2> TAKE n \in 0 .. 255
  <2>1. n = 16 * (n \div 16) + (n % 16)
    OBVIOUS
  <2> QED BY <2>1, Zenon
<1>4. \A v \in 0 .. 15 : Gen!HexDigit(v) \in Int /\ Gen!HexDigit(v) # 63
  BY DEF Gen!HexDigit
<1>5. \A v \in 0 .. 9 : Gen!HexDigit(v) = 48 + v /\ 48 + v \in 48 .. 57 /\ (48 + v) - 48 = v
  BY DEF Gen!HexDigit
<1>6. \A v \in 10 .. 15 : Gen!HexDigit(v) = 87 + v /\ 87 + v \in 97 .. 102 /\ (87 + v) - 87 = v
  BY DEF Gen!HexDigit
<1>7. \A q \in 48 .. 57 : Gen!Hex(q) = q - 48
  BY DEF Gen!Hex
<1>8. \A q \in 97 .. 102 : Gen!Hex(q) = q - 87
  BY DEF Gen!Hex
<1>9. \A v \in 0 .. 15 : Gen!Hex(Gen!HexDigit(v)) = v
  <2> TAKE v \in 0 .. 15
  <2>1. CASE v \in 0 .. 9
    BY <1>5, <1>7, <2>1
  <2>2. CASE v \in 10 .. 15
    BY <1>6, <1>8, <2>2
  <2> QED BY <2>1, <2>2
<1> QED BY <1>1, <1>2, <1>3, <1>4, <1>9

LEMMA OctalDigits ==
  \A n \in 0 .. 255 :
    /\ n \div 64 \in 0 .. 7 /\ (n \div 8) % 8 \in 0 .. 7 /\ n % 8 \in 0 .. 7
    /\ 8 * (8 * (n \div 64) + ((n \div 8) % 8)) + (n % 8) = n
<1> TAKE n \in 0 .. 255
<1>1. n \div 64 \in 0 .. 7
  OBVIOUS
<1>2. PICK q \in 0 .. 31, v \in 0 .. 7 : q = n \div 8 /\ v = n % 8 /\ n = 8 * q + v
  <2>1. n \div 8 \in 0 .. 31
    OBVIOUS
  <2>2. n % 8 \in 0 .. 7
    OBVIOUS
  <2>3. n = 8 * (n \div 8) + (n % 8)
    OBVIOUS
  <2> QED BY <2>1, <2>2, <2>3
<1>3. q % 8 \in 0 .. 7
  OBVIOUS
<1>4. q = 8 * (q \div 8) + (q % 8)
  OBVIOUS
<1>5. n \div 64 = q \div 8
  BY <1>2
<1>6. PICK k \in Int, w \in 0 .. 7 : k = q \div 8 /\ w = q % 8 /\ q = 8 * k + w
  BY <1>3, <1>4
<1>7. n \div 64 = k /\ (n \div 8) % 8 = w /\ n % 8 = v
  BY <1>2, <1>5, <1>6, Zenon
<1>8. k \in 0 .. 7 /\ 8 * (8 * k + w) + v = n
  BY <1>1, <1>2, <1>6, <1>7
<1>9. 8 * (8 * (n \div 64) + ((n \div 8) % 8)) + (n % 8) = 8 * (8 * k + w) + v
  BY <1>7, Zenon
<1>10. 8 * (8 * (n \div 64) + ((n \div 8) % 8)) + (n % 8) = n
  BY <1>8, <1>9, Zenon
<1>11. n \div 64 \in 0 .. 7 /\ (n \div 8) % 8 \in 0 .. 7 /\ n % 8 \in 0 .. 7
  BY <1>2, <1>6, <1>7, <1>8, ZenonT(40)
<1> QED BY <1>10, <1>11, Zenon

(* Characters written together are written one after the other. *)
LEMMA AppendBehind ==
  ASSUME NEW t \in Seq(Int), NEW v \in Seq(Int), NEW z \in Int
  PROVE  t \o Append(v, z) = Append(t \o v, z)
<1>1. <<z>> \in Seq(Int) /\ Append(v, z) = v \o <<z>>
  BY AppendIsConcat
<1>2. t \o v \in Seq(Int)
  BY ConcatProperties
<1>3. Append(t \o v, z) = (t \o v) \o <<z>>
  BY <1>2, AppendIsConcat
<1> QED BY <1>1, <1>3, ConcatAssociative

LEMMA OneTogether ==
  ASSUME NEW t \in Seq(Int), NEW q \in Int PROVE t \o <<q>> = Append(t, q)
BY AppendIsConcat

LEMMA TwoTogether ==
  ASSUME NEW t \in Seq(Int), NEW q \in Int, NEW r \in Int
  PROVE  t \o <<q, r>> = Append(Append(t, q), r)
<1>1. <<q>> \in Seq(Int) /\ <<q, r>> = Append(<<q>>, r)
  OBVIOUS
<1>2. t \o Append(<<q>>, r) = Append(t \o <<q>>, r)
  BY <1>1, AppendBehind, Zenon
<1>3. t \o <<q>> = Append(t, q)
  BY OneTogether, Zenon
<1> QED BY <1>1, <1>2, <1>3, Zenon

LEMMA ThreeTogether ==
  ASSUME NEW t \in Seq(Int), NEW q \in Int, NEW r \in Int, NEW x \in Int
  PROVE  t \o <<q, r, x>> = Append(Append(Append(t, q), r), x)
<1>1. <<q, r>> \in Seq(Int) /\ <<q, r, x>> = Append(<<q, r>>, x)
  OBVIOUS
<1>2. t \o Append(<<q, r>>, x) = Append(t \o <<q, r>>, x)
  BY <1>1, AppendBehind, Zenon
<1>3. t \o <<q, r>> = Append(Append(t, q), r)
  BY TwoTogether
<1> QED BY <1>1, <1>2, <1>3, Zenon

LEMMA FourTogether ==
  ASSUME NEW t \in Seq(Int), NEW w \in Seq(Int), Len(w) = 4
  PROVE  t \o w = Append(Append(Append(Append(t, w[1]), w[2]), w[3]), w[4])
<1>1. PICK q \in Int, r \in Int, x \in Int, y \in Int : q = w[1] /\ r = w[2] /\ x = w[3] /\ y = w[4]
  <2>1. \A k \in 1 .. 4 : w[k] \in Int
    BY ElementOfSeq
  <2>2. w[1] \in Int /\ w[2] \in Int /\ w[3] \in Int /\ w[4] \in Int
    BY <2>1
  <2> QED BY <2>2, Zenon
<1>2. w = <<q, r, x, y>>
  BY <1>1
<1>3. <<q, r, x>> \in Seq(Int) /\ <<q, r, x, y>> = Append(<<q, r, x>>, y)
  OBVIOUS
<1>4. t \o Append(<<q, r, x>>, y) = Append(t \o <<q, r, x>>, y)
  BY <1>3, AppendBehind, Zenon
<1>5. t \o <<q, r, x>> = Append(Append(Append(t, q), r), x)
  BY ThreeTogether, ZenonT(40)
<1> QED BY <1>1, <1>2, <1>3, <1>4, <1>5

(* The bytes, and how one of them is written in hexadecimal. *)
Octets == 0 .. 255
HexEscape(n) == <<92, 120, Gen!HexDigit(n \div 16), Gen!HexDigit(n % 16)>>

(* Byte n in hexadecimal, and in octal. *)
LEMMA HexWritten ==
  ASSUME NEW t, NEW s, NEW n \in Octets, Clean(t), Ends(Gen!Reader(t), s)
  PROVE  InHex(t \o HexEscape(n), s, n)
<1>1. PICK v \in 0 .. 15, w \in 0 .. 15 : v = n \div 16 /\ w = n % 16 /\ 16 * v + w = n /\ n \in Int
  BY HexDigits DEF Octets
<1>2. PICK q \in Int : q = Gen!HexDigit(v) /\ q # 63 /\ Gen!Hex(q) = v
  BY HexDigits
<1>3. PICK r \in Int : r = Gen!HexDigit(w) /\ r # 63 /\ Gen!Hex(r) = w
  BY HexDigits
<1>15. PICK b \in Int, k \in Int : b = 92 /\ k = 120
  OBVIOUS
<1>4. PICK t1, t2, t3, t4 : t1 = Append(t, b) /\ t2 = Append(t1, k) /\ t3 = Append(t2, q) /\ t4 = Append(t3, r)
  OBVIOUS
<1>5. At("escape", t1, s)
  BY <1>15, <1>4, BackslashRead
<1>6. InHex(t2, s, 0)
  BY <1>15, <1>4, <1>5, AfterBackslash DEF InHex
<1>7. InHex(t3, s, v)
  <2>1. v = 16 * 0 + v /\ v < 16 /\ v \in Int /\ 0 \in Int
    OBVIOUS
  <2> QED BY <1>2, <1>4, <1>6, <2>1, HexRead
<1>8. InHex(t4, s, n)
  <2>1. n = 16 * v + w /\ w < 16 /\ v \in Int /\ w \in Int
    BY <1>1
  <2>2. InHex(Append(t3, r), s, n)
    BY <1>3, <1>7, <2>1, HexRead, Zenon
  <2> QED BY <1>4, <2>2, Zenon
<1>9. PICK x : x = <<b, k, q, r>>
  BY Zenon
<1>10. HexEscape(n) = x
  BY <1>15, <1>1, <1>2, <1>3, <1>9 DEF HexEscape
<1>11. x \in Seq(Int) /\ Len(x) = 4 /\ x[1] = b /\ x[2] = k /\ x[3] = q /\ x[4] = r
  BY <1>9
<1>12. t \in Seq(Int)
  BY DEF Clean
<1>13. t \o x = Append(Append(Append(Append(t, x[1]), x[2]), x[3]), x[4])
  BY <1>11, <1>12, FourTogether, Zenon
<1>14. t \o x = t4
  BY <1>4, <1>11, <1>13, Zenon
<1> QED BY <1>8, <1>10, <1>14, Zenon

LEMMA OctalWritten ==
  ASSUME NEW t, NEW s, NEW n \in 0 .. 255, Clean(t), Ends(Gen!Reader(t), s)
  PROVE  InOctal(t \o Gen!Octal(n), s, n, 3)
<1>1. PICK v \in 0 .. 7, w \in 0 .. 7, z \in 0 .. 7 :
        v = n \div 64 /\ w = (n \div 8) % 8 /\ z = n % 8 /\ n = 8 * (8 * v + w) + z
  BY OctalDigits
<1>2. PICK q \in Int, r \in Int, y \in Int, k \in Int : q = 48 + v /\ r = 48 + w /\ y = 48 + z /\ k = 8 * v + w
  OBVIOUS
<1>14. PICK b \in Int : b = 92
  OBVIOUS
<1>3. PICK t1, t2, t3, t4 : t1 = Append(t, b) /\ t2 = Append(t1, q) /\ t3 = Append(t2, r) /\ t4 = Append(t3, y)
  OBVIOUS
<1>4. At("escape", t1, s)
  BY <1>3, <1>14, BackslashRead
<1>5. InOctal(t2, s, v, 1)
  <2>1. q # 63 /\ q \in 48 .. 55 /\ q - 48 = v
    BY <1>2
  <2>2. /\ Clean(t2) /\ ~EndsInQuestion(t2) /\ Gen!Reader(t2) = St("octal", s, q - 48, 1)
    BY <1>3, <1>4, <2>1, AfterBackslash
  <2> QED BY <2>1, <2>2, Zenon DEF InOctal
<1>6. InOctal(t3, s, k, 2)
  <2>1. v \in Int /\ 1 \in Int /\ 1 < 3 /\ 2 = 1 + 1
    OBVIOUS
  <2>2. r = 48 + w /\ k = 8 * v + w
    BY <1>2
  <2>3. InOctal(Append(t2, r), s, k, 2)
    BY <1>5, <2>1, <2>2, OctalRead, Zenon
  <2> QED BY <1>3, <2>3
<1>7. InOctal(t4, s, n, 3)
  <2>1. 2 \in Int /\ 2 < 3 /\ 3 = 2 + 1 /\ n = 8 * k + z
    BY <1>1, <1>2
  <2>2. y = 48 + z
    BY <1>2
  <2>3. InOctal(Append(t3, y), s, n, 3)
    BY <1>6, <2>1, <2>2, OctalRead, Zenon
  <2> QED BY <1>3, <2>3
<1>8. PICK x : x = <<b, q, r, y>>
  OBVIOUS
<1>9. Gen!Octal(n) = x
  BY <1>1, <1>2, <1>8, <1>14 DEF Gen!Octal, Gen!Backslash
<1>10. x \in Seq(Int) /\ Len(x) = 4 /\ x[1] = b /\ x[2] = q /\ x[3] = r /\ x[4] = y
  BY <1>2, <1>8
<1>11. t \in Seq(Int)
  BY DEF Clean
<1>12. t \o x = Append(Append(Append(Append(t, x[1]), x[2]), x[3]), x[4])
  BY <1>10, <1>11, FourTogether, Zenon
<1>13. t \o x = t4
  BY <1>3, <1>10, <1>12, Zenon
<1> QED BY <1>7, <1>9, <1>13, Zenon

-----------------------------------------------------------------------------
LEMMA OctalIs ==
  ASSUME NEW n \in 0 .. 255
  PROVE  /\ Gen!Octal(n) \in Seq(Int) /\ Len(Gen!Octal(n)) = 4
         /\ \A j \in 1 .. 4 : Gen!Octal(n)[j] \in Int
<1>1. PICK v \in Int, w \in Int, z \in Int : v = n \div 64 /\ w = (n \div 8) % 8 /\ z = n % 8
  BY OctalDigits
<1>2. PICK q \in Int, r \in Int, y \in Int : q = 48 + v /\ r = 48 + w /\ y = 48 + z
  OBVIOUS
<1>3. Gen!Octal(n) = <<92, q, r, y>>
  BY <1>1, <1>2, Zenon DEF Gen!Octal, Gen!Backslash
<1>4. <<92, q, r, y>> \in Seq(Int) /\ Len(<<92, q, r, y>>) = 4
  OBVIOUS
<1> QED BY <1>3, <1>4

LEMMA Fours ==
  /\ \A n \in Nat : \A j \in 1 .. 4 * n : (j - 1) \div 4 \in 0 .. n - 1
  /\ \A j \in Nat \ {0} : (j - 1) % 4 \in 0 .. 3
  /\ \A n \in Nat : \A j \in 1 .. 4 : ((4 * n + j) - 1) \div 4 = n /\ ((4 * n + j) - 1) % 4 = j - 1
<1>1. ASSUME NEW n \in Nat, NEW j \in 1 .. 4 * n PROVE (j - 1) \div 4 \in 0 .. n - 1
  OBVIOUS
<1>2. ASSUME NEW j \in Nat \ {0} PROVE (j - 1) % 4 \in 0 .. 3
  OBVIOUS
<1>3. ASSUME NEW n \in Nat, NEW j \in 1 .. 4 PROVE ((4 * n + j) - 1) \div 4 = n
  OBVIOUS
<1>4. ASSUME NEW n \in Nat, NEW j \in 1 .. 4 PROVE ((4 * n + j) - 1) % 4 = j - 1
  OBVIOUS
<1> QED BY <1>1, <1>2, <1>3, <1>4

(* The digit of the octal escapes at a place. *)
DigitAt(k) == Gen!Octal(Gen!Byte(1 + ((k - 1) \div 4)))[1 + ((k - 1) % 4)]

LEMMA OctalsGrow ==
  ASSUME NEW n \in Nat, \A k \in 1 .. n + 1 : Gen!Byte(k) \in 0 .. 255
  PROVE  /\ Gen!Octals(n) \in Seq(Int)
         /\ Gen!Octals(n + 1) = Gen!Octals(n) \o Gen!Octal(Gen!Byte(n + 1))
<1>1. ASSUME NEW k \in 1 .. 4 * (n + 1) PROVE DigitAt(k) \in Int
  <2>1. PICK j : j = (k - 1) \div 4
    OBVIOUS
  <2>2. j \in 0 .. n
    BY <2>1, Fours
  <2>3. PICK r : r = (k - 1) % 4
    OBVIOUS
  <2>4. r \in 0 .. 3
    BY <2>3, Fours
  <2>5. Gen!Byte(1 + j) \in 0 .. 255 /\ 1 + r \in 1 .. 4
    BY <2>2, <2>4
  <2> QED BY <2>1, <2>3, <2>5, OctalIs DEF DigitAt
<1>2. \A m \in Nat : Gen!Octals(m) = [k \in 1 .. 4 * m |-> DigitAt(k)]
  BY DEF Gen!Octals, DigitAt
<1>3. \A m \in {n, n + 1} :
        /\ Gen!Octals(m) \in Seq(Int) /\ Len(Gen!Octals(m)) = 4 * m
        /\ \A k \in 1 .. 4 * m : Gen!Octals(m)[k] = DigitAt(k)
  <2> TAKE m \in {n, n + 1}
  <2>1. m \in Nat /\ \A k \in 1 .. 4 * m : DigitAt(k) \in Int
    BY <1>1
  <2>2. PICK l \in Nat : l = 4 * m
    BY <2>1
  <2>3. PICK s : s = Gen!Octals(m)
    OBVIOUS
  <2>4. s = [k \in 1 .. l |-> DigitAt(k)] /\ \A k \in 1 .. l : DigitAt(k) \in Int
    BY <1>2, <2>1, <2>2, <2>3
  <2>5. s \in Seq(Int) /\ Len(s) = l /\ \A k \in 1 .. l : s[k] = DigitAt(k)
    BY <2>4
  <2> QED BY <2>2, <2>3, <2>5
<1>4. PICK b \in 0 .. 255 : b = Gen!Byte(n + 1)
  OBVIOUS
<1>5. PICK s, t, u : s = Gen!Octals(n) /\ t = Gen!Octal(b) /\ u = Gen!Octals(n + 1)
  OBVIOUS
<1>6. /\ s \in Seq(Int) /\ Len(s) = 4 * n /\ \A k \in 1 .. 4 * n : s[k] = DigitAt(k)
      /\ u \in Seq(Int) /\ Len(u) = 4 * n + 4 /\ \A k \in 1 .. 4 * n + 4 : u[k] = DigitAt(k)
  BY <1>3, <1>5
<1>7. t \in Seq(Int) /\ Len(t) = 4
  BY <1>5, OctalIs
<1>8. \A j \in 1 .. 4 : DigitAt(4 * n + j) = t[j]
  <2> TAKE j \in 1 .. 4
  <2>1. ((4 * n + j) - 1) \div 4 = n /\ ((4 * n + j) - 1) % 4 = j - 1
    BY Fours
  <2>2. 1 + n = n + 1 /\ 1 + (j - 1) = j
    OBVIOUS
  <2> QED BY <1>4, <1>5, <2>1, <2>2, Zenon DEF DigitAt
<1>9. /\ s \o t \in Seq(Int) /\ Len(s \o t) = 4 * n + 4
      /\ \A k \in 1 .. 4 * n + 4 : (s \o t)[k] = IF k <= 4 * n THEN s[k] ELSE t[k - 4 * n]
  <2>1. /\ s \o t \in Seq(Int) /\ Len(s \o t) = Len(s) + Len(t)
        /\ \A k \in 1 .. Len(s) + Len(t) : (s \o t)[k] = IF k <= Len(s) THEN s[k] ELSE t[k - Len(s)]
    BY <1>6, <1>7, ConcatProperties
  <2> QED BY <1>6, <1>7, <2>1
<1>10. ASSUME NEW k \in 1 .. 4 * n + 4 PROVE u[k] = (s \o t)[k]
  <2>1. CASE k <= 4 * n
    BY <1>6, <1>9, <2>1
  <2>2. CASE ~(k <= 4 * n)
    <3>1. PICK j \in 1 .. 4 : j = k - 4 * n /\ k = 4 * n + j
      BY <2>2
    <3> QED BY <1>6, <1>8, <1>9, <2>2, <3>1
  <2> QED BY <2>1, <2>2
<1>11. u = s \o t
  BY <1>6, <1>9, <1>10, SeqEqual
<1> QED BY <1>4, <1>5, <1>6, <1>11, Zenon

LEMMA OneLonger ==
  ASSUME NEW s \in Seq(Int), NEW n \in Nat, n + 1 <= Len(s)
  PROVE  /\ SubSeq(s, 1, n) \in Seq(Int) /\ SubSeq(s, 1, n + 1) = Append(SubSeq(s, 1, n), s[n + 1])
<1>1. \A k \in 1 .. Len(s) : s[k] \in Int
  OBVIOUS
<1>2. /\ SubSeq(s, 1, n) \in Seq(Int) /\ Len(SubSeq(s, 1, n)) = n
      /\ \A k \in 1 .. n : SubSeq(s, 1, n)[k] = s[k]
  BY <1>1
<1>3. /\ SubSeq(s, 1, n + 1) \in Seq(Int) /\ Len(SubSeq(s, 1, n + 1)) = n + 1
      /\ \A k \in 1 .. n + 1 : SubSeq(s, 1, n + 1)[k] = s[k]
  BY <1>1
<1>4. PICK t, e : t = SubSeq(s, 1, n) /\ e = s[n + 1]
  OBVIOUS
<1>5. e \in Int /\ t \in Seq(Int) /\ Len(t) = n /\ \A k \in 1 .. n : t[k] = s[k]
  BY <1>1, <1>2, <1>4
<1>6. /\ Append(t, e) \in Seq(Int) /\ Len(Append(t, e)) = n + 1
      /\ Append(t, e)[n + 1] = e /\ \A k \in 1 .. n : Append(t, e)[k] = t[k]
  BY <1>5, AppendProperties
<1>7. \A k \in 1 .. n + 1 : SubSeq(s, 1, n + 1)[k] = Append(t, e)[k]
  <2> TAKE k \in 1 .. n + 1
  <2>1. CASE k = n + 1
    BY <1>3, <1>4, <1>6, <2>1
  <2>2. CASE k \in 1 .. n
    BY <1>3, <1>5, <1>6, <2>2
  <2>3. k = n + 1 \/ k \in 1 .. n
    OBVIOUS
  <2> QED BY <2>1, <2>2, <2>3, Zenon
<1>8. SubSeq(s, 1, n + 1) = Append(t, e)
  BY <1>3, <1>6, <1>7, SeqEqual
<1> QED BY <1>2, <1>4, <1>8, Zenon

-----------------------------------------------------------------------------
(* What has been read of the data when the literal ends here. *)
ReadSoFar == SubSeq(data, 1, p)

Kept(t, s) ==
  Clean(t) /\ ~EndsInQuestion(t) /\ Ends(Gen!Reader(t), s) /\ Gen!Reader(t).mode # "hex"

TypedData == data \in Seq(0 .. 255) /\ p \in 0 .. Len(data)

LEMMA DataBytes ==
  ASSUME TypedData
  PROVE  /\ data \in Seq(Int) /\ Len(data) \in Nat /\ p \in Nat /\ Len(data) - p \in Nat
         /\ \A k \in 1 .. Len(data) : data[k] \in 0 .. 255
         /\ \A k \in 1 .. Len(data) - p : Gen!Byte(k) = data[p + k] /\ Gen!Byte(k) \in 0 .. 255
<1>1. data \in Seq(0 .. 255) /\ p \in 0 .. Len(data)
  BY DEF TypedData
<1>2. Len(data) \in Nat /\ \A k \in 1 .. Len(data) : data[k] \in 0 .. 255
  <2>1. PICK V, s : V = 0 .. 255 /\ s = data
    OBVIOUS
  <2>2. s \in Seq(V)
    BY <1>1, <2>1
  <2>3. Len(s) \in Nat /\ \A k \in 1 .. Len(s) : s[k] \in V
    BY <2>2
  <2> QED BY <2>1, <2>3, Zenon
<1>3. data \in Seq(Int)
  <2>1. 0 .. 255 \subseteq Int
    OBVIOUS
  <2> QED BY <1>1, <2>1, SeqMonotonic, Zenon
<1>4. \A k \in 1 .. Len(data) - p : p + k \in 1 .. Len(data)
  BY <1>1, <1>2
<1>5. p \in Nat /\ Len(data) - p \in Nat
  BY <1>1, <1>2
<1> QED BY <1>2, <1>3, <1>4, <1>5 DEF Gen!Byte

LEMMA OctalKept ==
  ASSUME NEW t, NEW s \in Seq(Int), NEW b \in 0 .. 255, Kept(t, s)
  PROVE  Kept(t \o Gen!Octal(b), Append(s, b))
<1>1. PICK u : u = t \o Gen!Octal(b)
  OBVIOUS
<1>2. InOctal(u, s, b, 3)
  BY <1>1, OctalWritten DEF Kept
<1>3. Append(s, b) = Append(s, Low(b))
  BY LowByte, Zenon
<1>4. Ends(Gen!Reader(u), Append(s, b))
  <2>1. b \in Int
    OBVIOUS
  <2> QED BY <1>2, <1>3, <2>1 DEF Ends, InOctal
<1>5. Gen!Reader(u).mode # "hex"
  BY <1>2, StFields DEF InOctal
<1> QED BY <1>1, <1>2, <1>4, <1>5, Zenon DEF Kept, InOctal

LEMMA Associative ==
  ASSUME NEW s \in Seq(Int), NEW t \in Seq(Int), NEW u \in Seq(Int)
  PROVE  (s \o t) \o u = s \o (t \o u)
BY ConcatAssociative, SMTT(30)

(* With n bytes more. *)
Onwards(n) == Kept(out \o Gen!Octals(n), SubSeq(data, 1, p + n))

LEMMA OctalsStep ==
  ASSUME TypedData, NEW n \in Nat, Onwards(n), n + 1 <= Len(data) - p, out \in Seq(Int)
  PROVE  Onwards(n + 1)
<1>1. /\ data \in Seq(Int) /\ Len(data) \in Nat /\ p \in Nat
      /\ \A k \in 1 .. Len(data) - p : Gen!Byte(k) = data[p + k] /\ Gen!Byte(k) \in 0 .. 255
  BY DataBytes
<1>2. \A k \in 1 .. n + 1 : k \in 1 .. Len(data) - p
  BY <1>1
<1>3. \A k \in 1 .. n + 1 : Gen!Byte(k) \in 0 .. 255
  BY <1>1, <1>2
<1>4. PICK m \in Nat : m = p + n /\ m + 1 <= Len(data) /\ p + (n + 1) = m + 1
  BY <1>1
<1>5. PICK t, s : t = out \o Gen!Octals(n) /\ s = SubSeq(data, 1, m)
  OBVIOUS
<1>6. Kept(t, s)
  BY <1>4, <1>5, Zenon DEF Onwards
<1>7. PICK b \in 0 .. 255 : b = Gen!Byte(n + 1)
  <2>1. n + 1 \in 1 .. n + 1
    OBVIOUS
  <2> QED BY <1>3, <2>1
<1>8. b = data[m + 1]
  <2>1. n + 1 \in 1 .. n + 1
    OBVIOUS
  <2>2. Gen!Byte(n + 1) = data[p + (n + 1)]
    BY <1>1, <1>2, <2>1
  <2> QED BY <1>4, <1>7, <2>2, Zenon
<1>9. s \in Seq(Int) /\ SubSeq(data, 1, m + 1) = Append(s, b)
  BY <1>1, <1>4, <1>5, <1>8, OneLonger
<1>10. Kept(t \o Gen!Octal(b), Append(s, b))
  BY <1>6, <1>9, OctalKept
<1>11. Gen!Octals(n) \in Seq(Int) /\ Gen!Octals(n + 1) = Gen!Octals(n) \o Gen!Octal(b)
  BY <1>3, <1>7, OctalsGrow
<1>12. out \o Gen!Octals(n + 1) = t \o Gen!Octal(b)
  <2>1. PICK o, y, z : o = out /\ y = Gen!Octals(n) /\ z = Gen!Octal(b)
    OBVIOUS
  <2>2. o \in Seq(Int) /\ y \in Seq(Int) /\ z \in Seq(Int)
    BY <1>11, <2>1, OctalIs
  <2>3. (o \o y) \o z = o \o (y \o z)
    BY <2>2, Associative
  <2> QED BY <1>5, <1>11, <2>1, <2>3, Zenon
<1> QED BY <1>4, <1>9, <1>10, <1>12, Zenon DEF Onwards

LEMMA OctalsType ==
  ASSUME TypedData, NEW n \in Nat, n <= Len(data) - p
  PROVE  Gen!Octals(n) \in Seq(Int)
<1>1. PICK l \in Nat : l = Len(data) - p /\ \A k \in 1 .. l : Gen!Byte(k) \in 0 .. 255
  BY DataBytes
<1>2. \A k \in 1 .. n : Gen!Byte(k) \in 0 .. 255
  <2>1. \A k \in 1 .. n : k \in 1 .. l
    BY <1>1
  <2> QED BY <1>1, <2>1, Zenon
<1>3. CASE n = 0
  <2>1. Gen!Octals(0) = <<>> /\ <<>> \in Seq(Int)
    BY DEF Gen!Octals
  <2> QED BY <1>3, <2>1
<1>4. CASE n # 0
  <2>1. PICK m \in Nat : n = m + 1
    BY <1>4
  <2>2. /\ Gen!Octals(m) \in Seq(Int)
        /\ Gen!Octals(m + 1) = Gen!Octals(m) \o Gen!Octal(Gen!Byte(m + 1))
    BY <1>2, <2>1, OctalsGrow
  <2>3. PICK b \in 0 .. 255 : b = Gen!Byte(m + 1)
    <3>1. m + 1 \in 1 .. n
      BY <2>1
    <3> QED BY <1>2, <3>1
  <2>4. Gen!Octal(b) \in Seq(Int)
    BY OctalIs
  <2> QED BY <2>1, <2>2, <2>3, <2>4, ConcatProperties
<1> QED BY <1>3, <1>4

LEMMA OctalsKept ==
  ASSUME TypedData, Kept(out, ReadSoFar), NEW m \in Nat, m <= Len(data) - p
  PROVE  Onwards(m)
<1> DEFINE S == {n \in Nat : n <= m => Onwards(n)}
<1>1. out \in Seq(Int)
  BY DEF Kept, Clean
<1>2. Onwards(0)
  <2>1. Gen!Octals(0) = <<>>
    BY DEF Gen!Octals
  <2>2. out \o <<>> = out
    BY <1>1, ConcatEmptySeq
  <2>3. p + 0 = p
    BY DataBytes
  <2> QED BY <2>1, <2>2, <2>3, Zenon DEF Onwards, ReadSoFar
<1>3. ASSUME NEW n \in Nat, n <= m => Onwards(n), n + 1 <= m PROVE Onwards(n + 1)
  <2>1. n <= m /\ n + 1 <= Len(data) - p
    BY <1>3, DataBytes
  <2> QED BY <1>1, <1>3, <2>1, OctalsStep
<1>4. 0 \in S /\ \A n \in Nat : n \in S => n + 1 \in S
  BY <1>2, <1>3
<1>5. \A n \in Nat : n \in S
  <2> HIDE DEF S
  <2> QED BY <1>4, Induction
<1> QED BY <1>5

(* The end of a line. *)
LEMMA LineEnd ==
  ASSUME NEW t, NEW s, Kept(t, s)
  PROVE  Kept(t \o <<92, 10>>, s)
<1>1. PICK u, v : u = Append(t, 92) /\ v = Append(u, 10)
  OBVIOUS
<1>2. At("escape", u, s)
  BY <1>1, BackslashRead DEF Kept
<1>3. PICK a \in Int, d \in Int : Clean(v) /\ ~EndsInQuestion(v) /\ Gen!Reader(v) = St("text", s, a, d)
  BY <1>1, <1>2, AfterBackslash
<1>4. Gen!Reader(v).mode # "hex"
  BY <1>3, StFields
<1>5. Ends(Gen!Reader(v), s)
  <2>1. <<>> \in Seq(Int)
    OBVIOUS
  <2> QED BY <1>3, <2>1 DEF Ends
<1>6. t \o <<92, 10>> = v
  <2>1. t \in Seq(Int) /\ 92 \in Int /\ 10 \in Int
    BY DEF Kept, Clean
  <2>2. t \o <<92, 10>> = Append(Append(t, 92), 10)
    BY <2>1, TwoTogether
  <2> QED BY <1>1, <2>2, Zenon
<1> QED BY <1>3, <1>4, <1>5, <1>6, Zenon DEF Kept

-----------------------------------------------------------------------------
(* An escape is left open only behind a byte that is not printable, and the  *)
(* last character written is a question mark only if none follows.           *)
OpenEscape == Gen!Reader(out).mode = "hex" => p > 0 /\ data[p] \notin 32 .. 126
OpenQuestion == EndsInQuestion(out) /\ p < Len(data) => data[p + 1] # 63

GenInv ==
  /\ TypedData /\ Clean(out) /\ Ends(Gen!Reader(out), ReadSoFar)
  /\ job = "argument" => data \in Args /\ OpenEscape /\ OpenQuestion
  /\ job = "header" => Kept(out, ReadSoFar)

LEMMA TextEnds ==
  ASSUME NEW t, NEW s, NEW a \in Int, NEW d \in Int, Gen!Reader(t) = St("text", s, a, d)
  PROVE  Ends(Gen!Reader(t), s) /\ Gen!Reader(t).mode # "hex"
<1>1. <<>> \in Seq(Int)
  OBVIOUS
<1>2. Ends(Gen!Reader(t), s)
  BY <1>1 DEF Ends
<1> QED BY <1>2, StFields

LEMMA LineStart ==
  ASSUME NEW q \in Int, NEW r \in Int, NEW x \in Int
  PROVE  Append(<<q>>, r) = <<q, r>> /\ Append(<<q, r>>, x) = <<q, r, x>>
<1>1. <<q>> \in Seq(Int) /\ <<q, r>> = Append(<<q>>, r)
  OBVIOUS
<1>2. <<q, r>> \in Seq(Int) /\ <<q, r, x>> = Append(<<q, r>>, x)
  OBVIOUS
<1> QED BY <1>1, <1>2, Zenon

LEMMA InitGen ==
  ASSUME Gen!BytesAssumption
  PROVE  Gen!Init => GenInv
<1> SUFFICES ASSUME Gen!Init PROVE GenInv
  OBVIOUS
<1>1. PICK e, t1 : e = <<>> /\ t1 = Append(e, 34)
  OBVIOUS
<1>2. e \in Seq(Int) /\ Clean(e) /\ ~EndsInQuestion(e) /\ Gen!Reader(e) = St("between", e, 0, 0)
  <2>1. Clean(e) /\ ~EndsInQuestion(e) /\ Gen!Reader(e) = Start
    BY <1>1, CleanEmpty
  <2> QED BY <1>1, <2>1 DEF Start, Clean
<1>3. At("between", e, e)
  BY <1>2 DEF At
<1>4. At("text", t1, e)
  BY <1>1, <1>3, AfterQuote
<1>5. PICK a \in Int, d \in Int : Gen!Reader(t1) = St("text", e, a, d)
  BY <1>4 DEF At
<1>6. Kept(t1, e)
  BY <1>4, <1>5, TextEnds DEF Kept, At
<1>7. Kept(t1 \o <<92, 10>>, e)
  BY <1>6, LineEnd
<1>8. t1 = <<34>> /\ t1 \o <<92, 10>> = <<34, 92, 10>>
  <2>1. 34 \in Int /\ 92 \in Int /\ 10 \in Int /\ t1 \in Seq(Int)
    BY <1>6 DEF Kept, Clean
  <2>2. Append(<<34>>, 92) = <<34, 92>> /\ Append(<<34, 92>>, 10) = <<34, 92, 10>>
    BY LineStart
  <2>3. t1 \o <<92, 10>> = Append(Append(t1, 92), 10)
    BY <2>1, TwoTogether
  <2>4. t1 = <<34>>
    <3>1. e \o <<34>> = t1
      BY <1>1, <1>2, <2>1, OneTogether, Zenon
    <3>2. <<34>> \in Seq(Int)
      OBVIOUS
    <3>3. e \o <<34>> = <<34>>
      BY <1>1, <3>2, ConcatEmptySeq, Zenon
    <3> QED BY <3>1, <3>3, Zenon
  <2> QED BY <2>2, <2>3, <2>4, Zenon
<1>9. p = 0 /\ data \in Seq(0 .. 255)
  <2>1. CASE data \in Args
    <3>1. data \in Seq(1 .. 255)
      BY <2>1 DEF Gen!BytesAssumption
    <3>2. PICK A, B, s : A = 1 .. 255 /\ B = 0 .. 255 /\ s = data
      OBVIOUS
    <3>3. A \subseteq B /\ s \in Seq(A)
      BY <3>1, <3>2
    <3>4. s \in Seq(B)
      BY <3>3, SeqMonotonic
    <3>5. data \in Seq(0 .. 255)
      BY <3>2, <3>4
    <3> QED BY <3>5 DEF Gen!Init
  <2>2. CASE data \in Headers
    BY <2>2 DEF Gen!BytesAssumption, Gen!Init
  <2> QED BY <2>1, <2>2 DEF Gen!Init
<1>10. TypedData
  <2>1. PICK V : V = 0 .. 255
    OBVIOUS
  <2>2. data \in Seq(V)
    BY <1>9, <2>1
  <2>3. Len(data) \in Nat
    BY <2>2
  <2> QED BY <1>9, <2>3 DEF TypedData
<1>11. ReadSoFar = e
  BY <1>1, <1>9, <1>10, DataBytes DEF ReadSoFar
<1>12. CASE job = "argument" /\ data \in Args /\ out = <<34>>
  <2>1. Kept(out, ReadSoFar)
    BY <1>6, <1>8, <1>11, <1>12, Zenon
  <2> QED BY <1>10, <1>12, <2>1, Zenon DEF GenInv, Kept, OpenEscape, OpenQuestion
<1>13. CASE job = "header" /\ out = <<34, 92, 10>>
  <2>1. Kept(out, ReadSoFar)
    BY <1>7, <1>8, <1>11, <1>13, Zenon
  <2> QED BY <1>10, <1>13, <2>1, Zenon DEF GenInv, Kept
<1> QED BY <1>12, <1>13 DEF Gen!Init, Gen!Quote, Gen!Backslash, Gen!Newline

-----------------------------------------------------------------------------
(* The next character of an argument. *)
(* What must be shown of the text and what has been read from it. *)
Printable == 32 .. 126
Goes(t, s) ==
  /\ Clean(t) /\ Ends(Gen!Reader(t), s)
  /\ Gen!Reader(t).mode = "hex" => data[p + 1] \notin Printable
  /\ EndsInQuestion(t) /\ p + 1 < Len(data) => data[p + 2] # 63

Ready(ch) ==
  /\ GenInv /\ job = "argument" /\ p < Len(data) /\ ch = data[p + 1] /\ ch \in 0 .. 255
  /\ Gen!Reader(out).mode = "hex" /\ ch \in 32 .. 126 => Gen!Hex(ch) = 16
  /\ ch = 63 => ~EndsInQuestion(out)

LEMMA IsReady ==
  ASSUME Gen!EscapesApart, GenInv, job = "argument", p < Len(data)
  PROVE  Ready(data[p + 1])
<1>1. TypedData /\ data \in Args /\ OpenEscape /\ OpenQuestion
  BY DEF GenInv
<1>2. Len(data) \in Nat /\ p \in Nat /\ \A k \in 1 .. Len(data) : data[k] \in 0 .. 255
  BY <1>1, DataBytes
<1>3. data[p + 1] \in 0 .. 255
  <2>1. p + 1 \in 1 .. Len(data)
    BY <1>2
  <2> QED BY <1>2, <2>1
<1>4. data[p + 1] = 63 => ~EndsInQuestion(out)
  BY <1>1 DEF OpenQuestion
<1>5. Gen!Reader(out).mode = "hex" => Gen!Hex(data[p + 1]) = 16
  <2> SUFFICES ASSUME Gen!Reader(out).mode = "hex" PROVE Gen!Hex(data[p + 1]) = 16
    OBVIOUS
  <2>1. p > 0 /\ data[p] \notin 32 .. 126
    BY <1>1 DEF OpenEscape
  <2>2. p \in 1 .. Len(data) - 1
    BY <1>2, <2>1
  <2> QED BY <1>1, <2>1, <2>2 DEF Gen!EscapesApart
<1> QED BY <1>3, <1>4, <1>5 DEF Ready

LEMMA TrigraphBroken ==
  ASSUME Ready(63)
  PROVE  Goes(out \o <<63, 34, 34>>, Append(ReadSoFar, 63))
<1>1. PICK s, t1, t2, t3 : s = Append(ReadSoFar, 63) /\ t1 = Append(out, 63) /\ t2 = Append(t1, 34) /\ t3 = Append(t2, 34)
  OBVIOUS
<1>2. Clean(out) /\ Ends(Gen!Reader(out), ReadSoFar) /\ ~EndsInQuestion(out)
  BY DEF Ready, GenInv
<1>3. Gen!Hex(63) = 16 /\ 63 \in Int /\ 63 # 34 /\ 63 # 92 /\ Low(63) = 63
  BY LowByte DEF Gen!Hex
<1>4. Clean(t1) /\ \E a, d \in Int : Gen!Reader(t1) = St("text", Append(ReadSoFar, Low(63)), a, d)
  BY <1>1, <1>2, <1>3, PlainRead
<1>5. PICK a \in Int, d \in Int : Gen!Reader(t1) = St("text", s, a, d)
  BY <1>1, <1>3, <1>4
<1>6. Ends(Gen!Reader(t1), s)
  BY <1>5, TextEnds
<1>7. At("between", t2, s)
  BY <1>1, <1>4, <1>6, QuoteRead
<1>8. At("text", t3, s)
  BY <1>1, <1>7, AfterQuote
<1>9. PICK a3 \in Int, d3 \in Int : Gen!Reader(t3) = St("text", s, a3, d3)
  BY <1>8 DEF At
<1>10. Goes(t3, s)
  BY <1>8, <1>9, TextEnds DEF Goes, At
<1>11. out \o <<63, 34, 34>> = t3
  <2>1. out \in Seq(Int) /\ 34 \in Int
    BY <1>2 DEF Clean
  <2>2. out \o <<63, 34, 34>> = Append(Append(Append(out, 63), 34), 34)
    BY <1>3, <2>1, ThreeTogether
  <2> QED BY <1>1, <1>3, <2>2, Zenon
<1> QED BY <1>1, <1>10, <1>11, Zenon

LEMMA BackslashBefore ==
  ASSUME NEW ch \in {34, 92}, Ready(ch)
  PROVE  Goes(out \o <<92, ch>>, Append(ReadSoFar, ch))
<1>1. PICK s, t1, t2 : s = Append(ReadSoFar, ch) /\ t1 = Append(out, 92) /\ t2 = Append(t1, ch)
  OBVIOUS
<1>2. Clean(out) /\ Ends(Gen!Reader(out), ReadSoFar)
  BY DEF Ready, GenInv
<1>3. ch \in Int /\ ch # 63 /\ Low(ch) = ch
  BY LowByte
<1>4. At("escape", t1, ReadSoFar)
  BY <1>1, <1>2, BackslashRead
<1>5. PICK a \in Int, d \in Int :
        Clean(t2) /\ ~EndsInQuestion(t2) /\ Gen!Reader(t2) = St("text", Append(ReadSoFar, Low(ch)), a, d)
  BY <1>1, <1>3, <1>4, AfterBackslash
<1>6. Gen!Reader(t2) = St("text", s, a, d)
  BY <1>1, <1>3, <1>5, Zenon
<1>7. Goes(t2, s)
  BY <1>5, <1>6, TextEnds DEF Goes
<1>8. out \o <<92, ch>> = t2
  <2>1. out \in Seq(Int) /\ 92 \in Int
    BY <1>2 DEF Clean
  <2>2. out \o <<92, ch>> = Append(Append(out, 92), ch)
    BY <1>3, <2>1, TwoTogether
  <2> QED BY <1>1, <2>2, Zenon
<1> QED BY <1>1, <1>7, <1>8, Zenon

LEMMA AsItIs ==
  ASSUME NEW ch \in 32 .. 126, Ready(ch), ~Gen!StartsTrigraph, ch # 34, ch # 92
  PROVE  Goes(out \o <<ch>>, Append(ReadSoFar, ch))
<1>1. PICK s, t1 : s = Append(ReadSoFar, ch) /\ t1 = Append(out, ch)
  OBVIOUS
<1>2. /\ TypedData /\ Clean(out) /\ Ends(Gen!Reader(out), ReadSoFar) /\ ch = data[p + 1]
      /\ Gen!Reader(out).mode = "hex" => Gen!Hex(ch) = 16
      /\ ch = 63 => ~EndsInQuestion(out)
  BY DEF Ready, GenInv
<1>3. ch \in Int /\ Low(ch) = ch
  BY LowByte
<1>4. /\ Clean(t1) /\ (EndsInQuestion(t1) <=> ch = 63)
      /\ \E a, d \in Int : Gen!Reader(t1) = St("text", Append(ReadSoFar, Low(ch)), a, d)
  BY <1>1, <1>2, <1>3, PlainRead
<1>5. PICK a \in Int, d \in Int : Gen!Reader(t1) = St("text", s, a, d)
  BY <1>1, <1>3, <1>4
<1>6. EndsInQuestion(t1) /\ p + 1 < Len(data) => data[p + 2] # 63
  BY <1>2, <1>4 DEF Gen!StartsTrigraph, Gen!Byte, Gen!QuestionMark
<1>7. Goes(t1, s)
  BY <1>4, <1>5, <1>6, TextEnds DEF Goes
<1>8. out \o <<ch>> = t1
  <2>1. out \in Seq(Int)
    BY <1>2 DEF Clean
  <2>2. out \o <<ch>> = Append(out, ch)
    BY <1>3, <2>1, OneTogether, Zenon
  <2> QED BY <1>1, <2>2, Zenon
<1> QED BY <1>1, <1>7, <1>8, Zenon

LEMMA AsEscape ==
  ASSUME NEW ch, ch \notin Printable, Ready(ch)
  PROVE  Goes(out \o HexEscape(ch), Append(ReadSoFar, ch))
<1>1. PICK u : u = out \o HexEscape(ch)
  BY Zenon
<1>2. /\ Clean(out) /\ Ends(Gen!Reader(out), ReadSoFar) /\ TypedData /\ ch = data[p + 1]
      /\ p < Len(data) /\ ch \in Octets
  BY DEF Ready, GenInv, Octets
<1>3. InHex(u, ReadSoFar, ch)
  BY <1>1, <1>2, HexWritten, Zenon
<1>4. PICK d \in Int : Gen!Reader(u) = St("hex", ReadSoFar, ch, d)
  BY <1>3 DEF InHex
<1>5. ReadSoFar \in Seq(Int)
  BY <1>2, DataBytes, OneLonger DEF ReadSoFar
<1>6. Append(ReadSoFar, ch) = Append(ReadSoFar, Low(ch))
  <2>1. Low(ch) = ch
    BY <1>2, LowByte DEF Octets
  <2> QED BY <2>1, Zenon
<1>7. Ends(Gen!Reader(u), Append(ReadSoFar, ch))
  <2>1. ch \in Int
    BY <1>2 DEF Octets
  <2> QED BY <1>4, <1>5, <1>6, <2>1 DEF Ends
<1> QED BY <1>1, <1>2, <1>3, <1>7, Zenon DEF Goes, InHex

-----------------------------------------------------------------------------
LEMMA CharacterWritten ==
  ASSUME Gen!EscapesApart, GenInv, Gen!WriteCharacter
  PROVE  GenInv'
<1>1. job = "argument" /\ p < Len(data)
  BY DEF Gen!WriteCharacter, Gen!Writing
<1>2. PICK ch : ch = data[p + 1]
  OBVIOUS
<1>3. Ready(ch) /\ ch \in 0 .. 255 /\ Gen!Byte(1) = ch
  BY <1>1, <1>2, IsReady DEF Ready, Gen!Byte
<1>4. TypedData /\ data \in Args
  BY <1>1 DEF GenInv
<1>5. Len(data) \in Nat /\ p \in Nat /\ p + 1 <= Len(data) /\ data \in Seq(Int)
  BY <1>1, <1>4, DataBytes
<1>6. UNCHANGED <<job, data>> /\ p' = p + 1 /\ Goes(out', Append(ReadSoFar, ch))
  <2>1. CASE Gen!StartsTrigraph
    <3>1. ch = 63
      BY <1>3, <2>1 DEF Gen!StartsTrigraph, Gen!QuestionMark
    <3>2. Gen!Write(1, <<63, 34, 34>>)
      <4>1. ~Gen!Escaped(63) /\ Gen!Byte(1) = 63
        BY <1>3, <3>1 DEF Gen!Escaped, Gen!Quote, Gen!Backslash
      <4> QED BY <2>1, <4>1 DEF Gen!WriteCharacter, Gen!Quote
    <3> QED BY <1>3, <3>1, <3>2, TrigraphBroken DEF Gen!Write
  <2>2. CASE ch \in {34, 92}
    <3>1. ~Gen!StartsTrigraph /\ Gen!Escaped(ch)
      BY <1>3, <2>2 DEF Gen!StartsTrigraph, Gen!QuestionMark, Gen!Escaped, Gen!Quote, Gen!Backslash
    <3>2. Gen!Write(1, <<92, ch>>)
      BY <1>3, <3>1 DEF Gen!WriteCharacter, Gen!Backslash
    <3> QED BY <1>3, <2>2, <3>2, BackslashBefore, SMTT(30) DEF Gen!Write
  <2>3. CASE ~Gen!StartsTrigraph /\ ch \notin {34, 92} /\ ch \in 32 .. 126
    <3>1. ~Gen!Escaped(ch)
      BY <2>3 DEF Gen!Escaped, Gen!Quote, Gen!Backslash
    <3>2. Gen!Write(1, <<ch>>)
      BY <1>3, <2>3, <3>1 DEF Gen!WriteCharacter
    <3> QED BY <1>3, <2>3, <3>2, AsItIs DEF Gen!Write
  <2>4. CASE ~Gen!StartsTrigraph /\ ch \notin {34, 92} /\ ch \notin 32 .. 126
    <3>1. ~Gen!Escaped(ch)
      BY <2>4 DEF Gen!Escaped, Gen!Quote, Gen!Backslash
    <3>2. Gen!Write(1, HexEscape(ch))
      BY <1>3, <2>4, <3>1, SMTT(30) DEF Gen!WriteCharacter, Gen!Backslash, Gen!x, HexEscape
    <3>3. Goes(out \o HexEscape(ch), Append(ReadSoFar, ch))
      BY <1>3, <2>4, AsEscape DEF Printable
    <3> QED BY <3>2, <3>3 DEF Gen!Write
  <2> QED BY <2>1, <2>2, <2>3, <2>4
<1>7. ReadSoFar' = Append(ReadSoFar, ch)
  BY <1>2, <1>5, <1>6, OneLonger DEF ReadSoFar
<1>8. TypedData'
  BY <1>4, <1>5, <1>6 DEF TypedData
<1>9. Clean(out') /\ Ends(Gen!Reader(out'), ReadSoFar')
  BY <1>6, <1>7 DEF Goes
<1>10. OpenEscape'
  BY <1>2, <1>5, <1>6 DEF Goes, OpenEscape, Printable
<1>11. OpenQuestion'
  <2>1. (p + 1) + 1 = p + 2
    BY <1>5
  <2> QED BY <1>6, <2>1 DEF Goes, OpenQuestion
<1>12. job' # "header" /\ data' \in Args
  BY <1>1, <1>4, <1>6
<1> QED BY <1>8, <1>9, <1>10, <1>11, <1>12, Zenon DEF GenInv

LEMMA HeaderWritten ==
  ASSUME Gen!BytesAssumption, GenInv, Gen!WriteLine \/ Gen!WriteRest
  PROVE  GenInv'
<1>1. /\ job = "header" /\ UNCHANGED <<job, data>> /\ p < Len(data)
  BY DEF Gen!WriteLine, Gen!WriteRest, Gen!Writing, Gen!Write
<1>2. TypedData /\ Kept(out, ReadSoFar)
  BY <1>1 DEF GenInv
<1>3. Len(data) \in Nat /\ p \in Nat /\ Len(data) - p \in Nat /\ data \in Seq(0 .. 255)
  BY <1>2, DataBytes DEF TypedData
<1>4. PICK n \in Nat :
        /\ n <= Len(data) - p /\ p' = p + n
        /\ out' \in {out \o (Gen!Octals(n) \o <<92, 10>>), out \o Gen!Octals(n)}
  <2>1. CASE Gen!WriteLine
    BY <1>3, <2>1 DEF Gen!WriteLine, Gen!Write, Gen!Backslash, Gen!Newline, Gen!BytesAssumption
  <2>2. CASE Gen!WriteRest
    <3>1. PICK n \in Nat : n = Len(data) - p
      BY <1>3
    <3>2. p' = p + n /\ out' = out \o Gen!Octals(n)
      BY <2>2, <3>1 DEF Gen!WriteRest, Gen!Write
    <3>3. n <= Len(data) - p
      BY <3>1
    <3> QED BY <3>2, <3>3
  <2> QED BY <2>1, <2>2
<1>5. Onwards(n)
  BY <1>2, <1>4, OctalsKept
<1>6. PICK t, s : t = out \o Gen!Octals(n) /\ s = SubSeq(data, 1, p + n)
  OBVIOUS
<1>7. Kept(t, s)
  BY <1>5, <1>6, Zenon DEF Onwards
<1>8. Kept(t \o <<92, 10>>, s)
  BY <1>7, LineEnd
<1>9. Gen!Octals(n) \in Seq(Int)
  BY <1>2, <1>4, OctalsType
<1>10. out \o (Gen!Octals(n) \o <<92, 10>>) = t \o <<92, 10>>
  <2>1. PICK o, y, z : o = out /\ y = Gen!Octals(n) /\ z = <<92, 10>>
    OBVIOUS
  <2>2. o \in Seq(Int) /\ y \in Seq(Int) /\ z \in Seq(Int)
    BY <1>2, <1>9, <2>1 DEF Kept, Clean
  <2>3. (o \o y) \o z = o \o (y \o z)
    BY <2>2, Associative
  <2> QED BY <1>6, <2>1, <2>3, Zenon
<1>11. Kept(out', s)
  BY <1>4, <1>6, <1>7, <1>8, <1>10, Zenon
<1>12. ReadSoFar' = s
  BY <1>1, <1>4, <1>6 DEF ReadSoFar
<1>13. TypedData'
  BY <1>1, <1>3, <1>4 DEF TypedData
<1>14. Kept(out, ReadSoFar)'
  BY <1>11, <1>12 DEF Kept, Clean, Ends
<1> QED BY <1>1, <1>11, <1>12, <1>13, <1>14 DEF GenInv, Kept

LEMMA StepGen ==
  ASSUME Gen!BytesAssumption, Gen!EscapesApart
  PROVE  GenInv /\ [Gen!Next]_(Gen!vars) => GenInv'
<1> SUFFICES ASSUME GenInv, [Gen!Next]_(Gen!vars) PROVE GenInv'
  OBVIOUS
<1>1. CASE UNCHANGED Gen!vars
  BY <1>1 DEF Gen!vars, GenInv, TypedData, ReadSoFar, OpenEscape, OpenQuestion, Kept, Clean, Ends
<1> QED BY <1>1, CharacterWritten, HeaderWritten DEF Gen!Next, Gen!Over

LEMMA AllRead ==
  ASSUME GenInv
  PROVE  ReadByC
<1> SUFFICES ASSUME p = Len(data) PROVE Gen!CReads(Append(out, 34)) = data
  BY DEF ReadByC, Gen!ReadByC, Gen!ArgumentKept, Gen!HeaderKept, Gen!Complete, Gen!Quote
<1>1. TypedData /\ Clean(out) /\ Ends(Gen!Reader(out), ReadSoFar)
  BY DEF GenInv
<1>2. Gen!CReads(Append(out, 34)) = ReadSoFar
  BY <1>1, Closed
<1>3. ReadSoFar = data
  <2>1. data \in Seq(Int)
    BY <1>1, DataBytes
  <2> QED BY <2>1 DEF ReadSoFar
<1> QED BY <1>2, <1>3

(* A C compiler reads the arguments and the header that were written, of    *)
(* any length, whatever quotes, backslashes, question marks and bytes are   *)
(* in them and wherever the lines of the header end, if no hexadecimal      *)
(* digit follows a byte of an argument that is escaped (dcc_gen.c:84-137).  *)
THEOREM TextsReadByC ==
  ASSUME Gen!BytesAssumption, Gen!EscapesApart
  PROVE  Gen!Spec => []ReadByC
<1>1. GenInv => ReadByC
  BY AllRead
<1> QED BY <1>1, InitGen, StepGen, PTL DEF Gen!Spec

-----------------------------------------------------------------------------
(* The exports of a text (DccScan). *)

(* The characters of a token that the scanner has taken: one that has been *)
(* put back is to be read again.                                           *)
Taken == IF back = Scan!NoChar \/ tok = Scan!End THEN pos ELSE pos - 1

ScanTypes ==
  /\ tok \in Tokens \union {Scan!End}
  /\ tok = Scan!End => pos = 0
  /\ tok # Scan!End =>
       /\ pos \in 0 .. Len(tok.text)
       /\ back = Scan!NoChar \/ (pos > 0 /\ back = tok.text[pos])
  /\ DOMAIN scan = DOMAIN Scan!Fresh

(* What a step does to the scanner sc that reads the character ch: it      *)
(* becomes tc, takes d characters, and returns r.                          *)
Turns(sc, tc, there) ==
  /\ tc.pc = there /\ tc.at = 1
  /\ tc.prev = sc.prev /\ tc.delim = sc.delim /\ tc.ident = sc.ident

AtTop(sc, ch, tc, r) ==
  \/ ch = "EOF" /\ r = Scan!Clean
  \/ r = Scan!None /\ ch = Scan!Quote /\ tc.pc = "string" /\ tc.prev = ch
  \/ r = Scan!None /\ ch = "R" /\ Turns(sc, tc, "R")
  \/ r = Scan!None /\ ch = "d" /\ ~Scan!char_is_ident(sc.prev) /\ Turns(sc, tc, "doarr")
  \/ r = Scan!None /\ ch = "d" /\ Scan!char_is_ident(sc.prev) /\ tc = sc
  \/ r = Scan!None /\ ch \notin {"EOF", Scan!Quote, "R", "d"} /\ tc.pc = "top" /\ tc.prev = ch

BehindR(ch, tc) ==
  IF ch = Scan!Quote THEN tc.pc = "delim" /\ tc.prev = ch /\ tc.delim = <<>>
                     ELSE tc.pc = "top" /\ tc.prev = "R"

AtDelim(sc, ch, tc) ==
  /\ tc.delim = Append(sc.delim, IF ch = "(" THEN Scan!Quote ELSE Scan!uchar(ch))
  /\ tc.pc = (IF ch = "(" \/ Len(tc.delim) = MaxDelim THEN "raw" ELSE "delim")
  /\ tc.prev = sc.prev

Tries(sc, ch, tc, d, w, then, otherwise) ==
  IF Scan!uchar(ch) # w[sc.at] THEN d = 0 /\ Turns(sc, tc, otherwise)
  ELSE /\ d = 1
       /\ IF sc.at < Len(w)
            THEN /\ tc.pc = sc.pc /\ tc.at = sc.at + 1
                 /\ tc.prev = sc.prev /\ tc.delim = sc.delim
            ELSE Turns(sc, tc, then)

Expects(sc, ch, tc, c0, then) ==
  IF ch = Scan!White THEN tc = sc ELSE Turns(sc, tc, IF ch = c0 THEN then ELSE "top")

AtFirst(sc, ch, tc, r) ==
  IF ch = Scan!White THEN r = Scan!None /\ tc = sc
  ELSE IF Scan!char_is_ident_start(ch) THEN r = Scan!None /\ tc.pc = "ident" /\ tc.ident = <<ch>>
  ELSE r = Scan!Failed

InIdent(sc, ch, tc, d, r) ==
  IF Scan!char_is_ident(ch)
    THEN d = 1 /\ r = Scan!None /\ tc.pc = "ident" /\ tc.ident = Append(sc.ident, ch)
    ELSE /\ d = 0
         /\ IF ch = "EOF" \/ Scan!HasDoubleUnderscore(sc.ident)
              THEN r = Scan!Failed ELSE r = Scan!None /\ Turns(sc, tc, "paren")

AtParen(sc, ch, tc, r) ==
  IF ch = Scan!White THEN r = Scan!None /\ tc = sc
  ELSE r = (IF ch = "(" THEN Scan!Export(sc.ident) ELSE Scan!Failed)

NoResult(sc, ch, tc, d) ==
  /\ sc.pc = "R" => d = 1 /\ BehindR(ch, tc)
  /\ sc.pc = "string" =>
       d = 1 /\ Turns(sc, tc, IF ch \in {"EOF", Scan!Quote} THEN "top" ELSE Scan!InString(ch))
  /\ sc.pc = "escape" => d = 1 /\ Turns(sc, tc, "string")
  /\ sc.pc = "delim" => d = 1 /\ AtDelim(sc, ch, tc)
  /\ sc.pc = "raw" =>
       /\ d = 1
       /\ Turns(sc, tc, CASE ch = "EOF" -> "top" [] ch = ")" -> "closing" [] OTHER -> "raw")
  /\ sc.pc = "closing" => Tries(sc, ch, tc, d, sc.delim, "top", "raw")
  /\ sc.pc = "doarr" => Tries(sc, ch, tc, d, Tail(Scan!doarr), "colon", "top")
  /\ sc.pc = "colon" => d = 1 /\ Expects(sc, ch, tc, ":", "second")
  /\ sc.pc = "second" => d = 1 /\ Expects(sc, ch, tc, ":", "e")
  /\ sc.pc = "e" => d = 1 /\ Expects(sc, ch, tc, Head(Scan!exported), "exported")
  /\ sc.pc = "exported" => Tries(sc, ch, tc, d, Tail(Scan!exported), "first", "top")

Answering == {"top", "first", "ident", "paren"}
Moves(sc, ch, tc, d, r) ==
  /\ sc.pc \notin Answering => r = Scan!None /\ NoResult(sc, ch, tc, d)
  /\ sc.pc = "top" => d = 1 /\ AtTop(sc, ch, tc, r)
  /\ sc.pc = "first" => d = 1 /\ AtFirst(sc, ch, tc, r)
  /\ sc.pc = "ident" => InIdent(sc, ch, tc, d, r)
  /\ sc.pc = "paren" => d = 1 /\ AtParen(sc, ch, tc, r)

(* Which is how it reads a character, and whether it puts one back.        *)
Scanner ==
  \/ Scan!Top \/ Scan!AfterR \/ Scan!String \/ Scan!Escape \/ Scan!Delim \/ Scan!Raw \/ Scan!Closing
  \/ Scan!Keyword \/ Scan!First \/ Scan!Ident \/ Scan!Paren

Taking(d) ==
  /\ Scan!Get /\ DOMAIN scan' = DOMAIN scan
  /\ back' \in IF d = 1 THEN {Scan!NoChar} ELSE {Scan!Char, Scan!uchar(Scan!Char)}
  /\ Moves(scan, Scan!Char, scan', d, result')

-----------------------------------------------------------------------------
(* Where the scanner is between two tokens: with Nothing seen, a word may  *)
(* have been tried and have failed since prev was set, but never behind a  *)
(* character of a name. Behind a name it may be in the middle of a word    *)
(* until the next character has been read, which is none of a name.        *)
Loose(sc) == ~Scan!char_is_ident(sc.prev)
Named(name) == [upto |-> "named", name |-> name]

Settled(sc, u) ==
  \/ u = Scan!Nothing /\ sc.pc = "top" /\ Loose(sc)
  \/ u = Scan!Upto("doarr") /\ sc.pc = "colon" /\ Loose(sc)
  \/ u = Scan!Upto("colons") /\ sc.pc = "e" /\ Loose(sc)
  \/ u = Scan!Upto("exported") /\ sc.pc = "first"
  \/ u = Named(sc.ident) /\ sc.pc = "paren" /\ ~Scan!HasDoubleUnderscore(sc.ident)

Ragged(sc, u) ==
  \/ u = Scan!Nothing /\ sc.pc = "top"
  \/ u = Scan!Nothing /\ sc.pc = "doarr" /\ sc.at \in 1 .. 4 /\ Loose(sc)
  \/ u = Scan!Nothing /\ sc.pc = "exported" /\ sc.at \in 1 .. 7 /\ Loose(sc)
  \/ u = Named(sc.ident) /\ sc.pc = "ident"

Begun(sc, u, ch) == Settled(sc, u) \/ (Ragged(sc, u) /\ ~Scan!char_is_ident(ch))

(* Where it is in each kind of token, of the text s, when q characters of  *)
(* it have been taken.                                                     *)
InSpace(q, sc, u) ==
  \/ Settled(sc, u)
  \/ q = 0 /\ Ragged(sc, u) /\ (sc.pc = "ident" => ~Scan!HasDoubleUnderscore(sc.ident))

Colons == << ":", ":" >>
InPunctuation(s, q, sc, u) ==
  \/ u = Scan!Nothing /\ Settled(sc, u)
  \/ u = Scan!Nothing /\ q = 0 /\ Ragged(sc, u)
  \/ u = Scan!Nothing /\ q = 0 /\ sc.pc = "colon" /\ Loose(sc) /\ s # Colons
  \/ /\ u = Scan!Upto("colons") /\ s = Colons /\ Loose(sc)
     /\ \/ q = 0 /\ sc.pc = "colon"
        \/ q = 1 /\ sc.pc = "second"
        \/ q = 2 /\ sc.pc = "e"

InPhrase(s, q, sc) ==
  \/ q = 0 /\ Begun(sc, Scan!Nothing, s[1])
  \/ q > 0 /\ sc.pc = "top" /\ (q = Len(s) => Loose(sc))
  \/ q > 0 /\ sc.pc = "R" /\ s[q] = "R"

InQuotes(s, q, sc, escaped) ==
  \/ q = 0 /\ Begun(sc, Scan!Nothing, s[1])
  \/ q \in 1 .. Len(s) - 1 /\ sc.pc = "string" /\ q + 1 \notin escaped /\ sc.prev = Scan!Quote
  \/ q \in 1 .. Len(s) - 1 /\ sc.pc = "escape" /\ q + 1 \in escaped /\ sc.prev = Scan!Quote
  \/ q = Len(s) /\ sc.pc = "top" /\ sc.prev = Scan!Quote

Symbol(s) == {s[k] : k \in DOMAIN s} \union {Scan!Quote}
DelimOf(s, n, delim) ==
  delim \in Seq(Symbol(s)) /\ Len(delim) = n /\ \A j \in 1 .. n : delim[j] = s[j + 2]
InClosing(s, q, sc, n) ==
  LET k == q - sc.at + 1 IN
    /\ sc.at \in 1 .. n + 1 /\ k > n + 3 /\ s[k] = ")"
    /\ \A j \in 1 .. sc.at - 1 : s[k + j] = sc.delim[j]
    /\ k = Len(s) - n - 1 \/ q < Len(s) - n - 1
InBody(s, q, sc, n) ==
  /\ q >= n + 3 /\ sc.prev = Scan!Quote
  /\ Len(sc.delim) = n + 1 /\ sc.delim[n + 1] = Scan!Quote
  /\ \A j \in 1 .. n : sc.delim[j] = s[j + 2]
  /\ \/ sc.pc = "raw" /\ q < Len(s) - n - 1
     \/ sc.pc = "closing" /\ InClosing(s, q, sc, n)
InRaw(s, q, sc, n) ==
  \/ q = 0 /\ sc.pc = "top" /\ Loose(sc)
  \/ q = 1 /\ sc.pc = "R"
  \/ q \in 2 .. n + 2 /\ sc.pc = "delim" /\ sc.prev = Scan!Quote /\ DelimOf(s, q - 2, sc.delim)
  \/ InBody(s, q, sc, n)
  \/ q = Len(s) /\ sc.pc = "top" /\ sc.prev = Scan!Quote

InName(s, q, sc) ==
  \/ q = 0 /\ sc.pc = "first"
  \/ q > 0 /\ sc.pc = "ident" /\ sc.ident = SubSeq(s, 1, q)

InDoarr(q, sc) ==
  /\ Loose(sc)
  /\ \/ q = 0 /\ sc.pc = "top"
     \/ q \in 1 .. 4 /\ sc.pc = "doarr" /\ sc.at = q
     \/ q = 5 /\ sc.pc = "colon"

InExported(q, sc) ==
  \/ q = 0 /\ sc.pc = "e"
  \/ q \in 1 .. 7 /\ sc.pc = "exported" /\ sc.at = q
  \/ q = 8 /\ sc.pc = "first"

(* In a name that is no part of an export. One that ends in doarr does not *)
(* begin with a d: behind its first character, prev is always one of it.   *)
EndsInDoarr(s) == Scan!IsSuffix(Scan!doarr, s)
LastAre(s, q, w, n) == n <= q /\ \A k \in 1 .. n : s[q - n + k] = w[k]
InWord(s, q, sc) ==
  \/ sc.pc = "top" /\ q > 0 /\ (EndsInDoarr(s) => ~Loose(sc))
  \/ sc.pc = "top" /\ q = 0 /\ Loose(sc)
  \/ sc.pc = "R" /\ q > 0 /\ s[q] = "R"
  \/ /\ ~EndsInDoarr(s) /\ Loose(sc)
     /\ \/ sc.pc = "doarr" /\ sc.at \in 1 .. 4 /\ LastAre(s, q, Scan!doarr, sc.at)
        \/ sc.pc = "colon" /\ 0 < q /\ q < Len(s)
        \/ sc.pc = "e" /\ q = 0 /\ s # Scan!exported
        \/ /\ sc.pc = "exported" /\ sc.at = q /\ q \in 1 .. 7 /\ s # Scan!exported
           /\ \A k \in 1 .. q : s[k] = Scan!exported[k]

(* The first character of this token decides.                              *)
Deciding(ch, sc, v) ==
  \/ /\ sc.pc = "first" /\ v = Scan!Failed
     /\ ch # Scan!White /\ ~Scan!char_is_ident_start(ch)
  \/ /\ sc.pc = "ident" /\ v = Scan!Failed
     /\ Scan!HasDoubleUnderscore(sc.ident) /\ ~Scan!char_is_ident(ch)
  \/ /\ sc.pc = "paren" \/ (sc.pc = "ident" /\ ~Scan!char_is_ident(ch))
     /\ ~Scan!HasDoubleUnderscore(sc.ident) /\ ch # Scan!White
     /\ v = (IF ch = "(" THEN Scan!Export(sc.ident) ELSE Scan!Failed)

AtEnd ==
  /\ tok = Scan!End /\ verdict = Scan!Clean
  /\ \/ scan.pc = "top" /\ back \in {Scan!NoChar, "EOF", "xFF"}
     \/ /\ back = Scan!NoChar
        /\ \/ scan.pc = "doarr" /\ scan.at \in 1 .. 4
           \/ scan.pc = "exported" /\ scan.at \in 1 .. 7
           \/ scan.pc \in {"colon", "e"}

Quiet == seen = Scan!Nothing
Within ==
  \/ tok.kind = "space" /\ InSpace(Taken, scan, seen)
  \/ tok.kind = "punctuation" /\ InPunctuation(tok.text, Taken, scan, seen)
  \/ tok.kind = "phrase" /\ Quiet /\ InPhrase(tok.text, Taken, scan)
  \/ /\ tok.kind = "literal" /\ Quiet
     /\ \E escaped \in SUBSET Scan!BehindBackslash(tok.text) :
          Scan!Escapes(tok.text, escaped) /\ InQuotes(tok.text, Taken, scan, escaped)
  \/ /\ tok.kind = "literal" /\ Quiet
     /\ \E n \in 0 .. MaxDelim - 1 : Scan!Delimited(tok.text, n) /\ InRaw(tok.text, Taken, scan, n)
  \/ tok.kind = "ident" /\ seen = Named(tok.text) /\ InName(tok.text, Taken, scan)
  \/ tok.text = Scan!doarr /\ tok.kind = "ident" /\ seen = Scan!Upto("doarr") /\ InDoarr(Taken, scan)
  \/ tok.text = Scan!exported /\ tok.kind = "ident" /\ seen = Scan!Upto("exported") /\ InExported(Taken, scan)
  \/ tok.kind = "ident" /\ tok.text # Scan!doarr /\ Quiet /\ InWord(tok.text, Taken, scan)

Decides ==
  /\ tok.kind # "phrase" /\ Taken = 0 /\ Deciding(tok.text[1], scan, verdict)
  /\ tok = Scan!End => back = Scan!NoChar

Answered ==
  /\ result = verdict
  /\ result \notin {Scan!Clean, Scan!Failed} => tok.kind = "punctuation" /\ pos = 1 /\ back = Scan!NoChar /\ tok # Scan!End

ScanInv ==
  /\ ScanTypes
  /\ result = Scan!None =>
       \/ tok # Scan!End /\ verdict = Scan!None /\ Within
       \/ Decides
       \/ AtEnd
  /\ result # Scan!None => Answered

(* Which characters are part of names, and that the others differ.         *)
LEMMA CharsApart ==
  /\ \A ch \in {"EOF", Scan!NoChar, Scan!White, Scan!Quote, ":", "(", ")", "\\", "no"} : ~Scan!char_is_ident(ch)
  /\ \A ch \in {"d", "o", "a", "r", "e", "x", "p", "t", "R", "xFF"} : Scan!char_is_ident_start(ch)
<1>1. Scan!White \notin Scan!Letters \union {"0"} /\ Scan!Quote \notin Scan!Letters \union {"0"}
  BY Zenon DEF Scan!White, Scan!Quote, Scan!Letters
<1>2. Scan!NoChar \notin Scan!Letters \union {"0"}
  BY Zenon DEF Scan!NoChar, Scan!Letters
<1>3. \A ch \in {"EOF", ":", "(", ")", "\\", "no"} : ch \notin Scan!Letters \union {"0"}
  BY Zenon DEF Scan!Letters
<1>4. \A ch \in {"d", "o", "a", "r", "e", "x", "p", "t", "R", "xFF"} : ch \in Scan!Letters
  BY Zenon DEF Scan!Letters
<1> QED BY <1>1, <1>2, <1>3, <1>4 DEF Scan!char_is_ident, Scan!char_is_ident_start

(* What begins a name is also a character of one. *)
LEMMA NameStart == ASSUME NEW ch, Scan!char_is_ident_start(ch) PROVE Scan!char_is_ident(ch)
BY DEF Scan!char_is_ident, Scan!char_is_ident_start

(* The characters the scanner looks for are not taken for each other. *)
LEMMA MarksDiffer ==
  /\ Scan!White # Scan!Quote
  /\ \A ch \in {"EOF", ":", "(", ")", "\\"} : ch # Scan!White /\ ch # Scan!Quote
  /\ \A ch \in {"EOF", ":", "(", ")", "\\", "xFF", Scan!White, Scan!Quote} : ch # Scan!NoChar
<1>1. Scan!White # Scan!Quote
  BY Zenon DEF Scan!White, Scan!Quote
<1>2. \A ch \in {"EOF", ":", "(", ")", "\\"} : ch # Scan!White /\ ch # Scan!Quote
  BY Zenon DEF Scan!White, Scan!Quote
<1>3. \A ch \in {"EOF", ":", "(", ")", "\\", "xFF", Scan!White, Scan!Quote} : ch # Scan!NoChar
  BY Zenon DEF Scan!White, Scan!Quote, Scan!NoChar
<1> QED BY <1>1, <1>2, <1>3

(* The rest of a word, behind its first character. *)
LEMMA TailIs ==
  ASSUME NEW S, NEW s \in Seq(S), NEW n \in Nat, Len(s) = n + 1
  PROVE  Len(Tail(s)) = n /\ \A k \in 1 .. n : Tail(s)[k] = s[k + 1]
<1>1. s # <<>>
  BY EmptySeq
<1>2. Len(Tail(s)) = Len(s) - 1 /\ \A k \in 1 .. Len(Tail(s)) : Tail(s)[k] = s[k + 1]
  BY <1>1, HeadTailProperties
<1> QED BY <1>2

(* The two words of an export, character by character. *)
LEMMA WordsAre ==
  /\ Len(Scan!doarr) = 5 /\ Len(Tail(Scan!doarr)) = 4
  /\ Scan!doarr[1] = "d" /\ \A k \in 1 .. 4 : Tail(Scan!doarr)[k] = Scan!doarr[k + 1]
  /\ Len(Scan!exported) = 8 /\ Len(Tail(Scan!exported)) = 7
  /\ Scan!exported[1] = "e" /\ Head(Scan!exported) = "e"
  /\ \A k \in 1 .. 7 : Tail(Scan!exported)[k] = Scan!exported[k + 1]
  /\ \A k \in 1 .. 5 : Scan!char_is_ident_start(Scan!doarr[k])
  /\ \A k \in 1 .. 8 : Scan!char_is_ident_start(Scan!exported[k])
  /\ \A k \in 1 .. 4 : Scan!char_is_ident_start(Tail(Scan!doarr)[k])
  /\ \A k \in 1 .. 7 : Scan!char_is_ident_start(Tail(Scan!exported)[k])
<1>1. Len(Scan!doarr) = 5 /\ Len(Scan!exported) = 8
  BY DEF Scan!doarr, Scan!exported
<1>2. Scan!doarr \in Seq({"d", "o", "a", "r"}) /\ Scan!exported \in Seq({"e", "x", "p", "o", "r", "t", "d"})
  BY DEF Scan!doarr, Scan!exported
<1>3. Scan!doarr[1] = "d" /\ Scan!exported[1] = "e"
  BY DEF Scan!doarr, Scan!exported
<1>4. /\ Len(Tail(Scan!doarr)) = 4 /\ Len(Tail(Scan!exported)) = 7
      /\ \A k \in 1 .. 4 : Tail(Scan!doarr)[k] = Scan!doarr[k + 1]
      /\ \A k \in 1 .. 7 : Tail(Scan!exported)[k] = Scan!exported[k + 1]
  <2>1. Len(Scan!doarr) = 4 + 1 /\ Len(Scan!exported) = 7 + 1
    BY <1>1
  <2> QED BY <1>2, <2>1, TailIs
<1>5. Head(Scan!exported) = "e"
  BY DEF Scan!exported
<1>6. /\ \A k \in 1 .. 5 : Scan!doarr[k] \in {"d", "o", "a", "r"}
      /\ \A k \in 1 .. 8 : Scan!exported[k] \in {"e", "x", "p", "o", "r", "t", "d"}
  BY <1>1, <1>2, ElementOfSeq
<1>7. /\ \A k \in 1 .. 5 : Scan!char_is_ident_start(Scan!doarr[k])
      /\ \A k \in 1 .. 8 : Scan!char_is_ident_start(Scan!exported[k])
  BY <1>6, CharsApart
<1>8. ASSUME NEW k \in 1 .. 4 PROVE Scan!char_is_ident_start(Tail(Scan!doarr)[k])
  <2>1. k + 1 \in 1 .. 5 /\ Tail(Scan!doarr)[k] = Scan!doarr[k + 1]
    BY <1>4, SMTT(30)
  <2> QED BY <1>7, <2>1
<1>9. ASSUME NEW k \in 1 .. 7 PROVE Scan!char_is_ident_start(Tail(Scan!exported)[k])
  <2>1. k + 1 \in 1 .. 8 /\ Tail(Scan!exported)[k] = Scan!exported[k + 1]
    BY <1>4, SMTT(30)
  <2> QED BY <1>7, <2>1
<1> QED BY <1>1, <1>3, <1>4, <1>5, <1>7, <1>8, <1>9

(* Its answers are told apart. *)
LEMMA ResultsDiffer ==
  /\ Scan!None # Scan!Failed /\ Scan!None # Scan!Clean /\ Scan!Failed # Scan!Clean
  /\ \A name : Scan!Export(name) \notin {Scan!None, Scan!Failed, Scan!Clean}
BY DEF Scan!None, Scan!Failed, Scan!Clean, Scan!Export

(* The variables of the scanner. *)
LEMMA ScanIsRecord ==
  ASSUME ScanTypes PROVE DOMAIN scan = {"pc", "at", "prev", "delim", "ident"}
BY DEF ScanTypes, Scan!Fresh

(* Each of its actions is such a step (Moves): one lemma per action. *)
LEMMA TopMoves ==
  ASSUME ScanTypes, result = Scan!None, Scan!Top PROVE Taking(1)
<1> DEFINE ch == Scan!Char
<1>1. Scan!Get /\ back' = Scan!NoChar /\ scan.pc = "top"
  BY DEF Scan!Top, Scan!At, Scan!Read
<1>2. AtTop(scan, ch, scan', result') /\ DOMAIN scan' = DOMAIN scan
  BY <1>1, ScanIsRecord DEF Scan!Top, Scan!Return, Scan!Goto, Scan!MayBegin, AtTop, Turns
<1> QED BY <1>1, <1>2 DEF Taking, Moves, Answering

(* Behind an R. *)
LEMMA BehindRMoves ==
  ASSUME ScanTypes, result = Scan!None, Scan!AfterR PROVE Taking(1)
<1> DEFINE ch == Scan!Char
<1>1. Scan!Get /\ back' = Scan!NoChar /\ scan.pc = "R" /\ result' = Scan!None
  BY DEF Scan!AfterR, Scan!At, Scan!Read
<1>2. BehindR(ch, scan') /\ DOMAIN scan' = DOMAIN scan
  BY ScanIsRecord DEF Scan!AfterR, BehindR, Scan!NoDelim
<1> QED BY <1>1, <1>2 DEF Taking, Moves, Answering, NoResult

(* In a string. *)
LEMMA StringMoves ==
  ASSUME ScanTypes, result = Scan!None, Scan!String \/ Scan!Escape PROVE Taking(1)
<1> DEFINE ch == Scan!Char
<1>1. Scan!Get /\ back' = Scan!NoChar /\ scan.pc \in {"string", "escape"} /\ result' = Scan!None
  BY DEF Scan!String, Scan!Escape, Scan!At, Scan!Read, Scan!Goto
<1>2. /\ scan.pc = "string" => Turns(scan, scan', IF ch \in {"EOF", Scan!Quote} THEN "top" ELSE Scan!InString(ch))
      /\ scan.pc = "escape" => Turns(scan, scan', "string")
      /\ DOMAIN scan' = DOMAIN scan
  BY ScanIsRecord DEF Scan!String, Scan!Escape, Scan!At, Scan!Goto, Turns
<1> QED BY <1>1, <1>2 DEF Taking, Moves, Answering, NoResult

(* In the delimiter of a raw string. *)
LEMMA DelimMoves ==
  ASSUME ScanTypes, result = Scan!None, Scan!Delim PROVE Taking(1)
<1> DEFINE ch == Scan!Char
<1>1. Scan!Get /\ back' = Scan!NoChar /\ scan.pc = "delim" /\ result' = Scan!None
  BY DEF Scan!Delim, Scan!At, Scan!Read
<1>2. AtDelim(scan, ch, scan') /\ DOMAIN scan' = DOMAIN scan
  BY <1>1, ScanIsRecord DEF Scan!Delim, AtDelim
<1> QED BY <1>1, <1>2 DEF Taking, Moves, Answering, NoResult

(* In a raw string. *)
LEMMA RawMoves ==
  ASSUME ScanTypes, result = Scan!None, Scan!Raw PROVE Taking(1)
<1> DEFINE ch == Scan!Char
<1>1. Scan!Get /\ back' = Scan!NoChar /\ scan.pc = "raw" /\ result' = Scan!None
  BY DEF Scan!Raw, Scan!At, Scan!Read, Scan!Goto
<1>2. /\ Turns(scan, scan', CASE ch = "EOF" -> "top" [] ch = ")" -> "closing" [] OTHER -> "raw")
      /\ DOMAIN scan' = DOMAIN scan
  BY ScanIsRecord DEF Scan!Raw, Scan!Goto, Turns
<1> QED BY <1>1, <1>2 DEF Taking, Moves, Answering, NoResult

(* scan_exactly, wherever it is called.                                    *)
LEMMA ExactlyMoves ==
  ASSUME ScanTypes, result = Scan!None, NEW there, NEW w, NEW then, NEW otherwise,
         Scan!scan_exactly(there, w, then, otherwise)
  PROVE  /\ scan.pc = there /\ Scan!Get /\ result' = Scan!None /\ DOMAIN scan' = DOMAIN scan
         /\ \E d \in {0, 1} : /\ back' \in IF d = 1 THEN {Scan!NoChar} ELSE {Scan!Char, Scan!uchar(Scan!Char)}
                              /\ Tries(scan, Scan!Char, scan', d, w, then, otherwise)
<1> DEFINE ch == Scan!uchar(Scan!Char)
<1>1. CASE ch # w[scan.at]
  <2>1. scan.pc = there /\ Scan!Get /\ back' = ch /\ Scan!Goto(otherwise)
    BY <1>1 DEF Scan!scan_exactly, Scan!At, Scan!Unread
  <2>2. Turns(scan, scan', otherwise) /\ DOMAIN scan' = DOMAIN scan /\ result' = Scan!None
    BY <2>1, ScanIsRecord DEF Scan!Goto, Turns
  <2> QED BY <1>1, <2>1, <2>2 DEF Tries
<1>2. CASE ch = w[scan.at]
  <2>1. scan.pc = there /\ Scan!Get /\ back' = Scan!NoChar
    BY <1>2 DEF Scan!scan_exactly, Scan!At, Scan!Read
  <2>2. IF scan.at < Len(w) THEN scan' = [scan EXCEPT !.at = @ + 1] /\ UNCHANGED result ELSE Scan!Goto(then)
    BY <1>2 DEF Scan!scan_exactly
  <2>3. CASE scan.at < Len(w)
    <3>1. /\ scan'.pc = scan.pc /\ scan'.at = scan.at + 1 /\ scan'.prev = scan.prev /\ scan'.delim = scan.delim
          /\ DOMAIN scan' = DOMAIN scan /\ result' = Scan!None
      BY <2>2, <2>3, ScanIsRecord
    <3> QED BY <1>2, <2>1, <2>3, <3>1 DEF Tries
  <2>4. CASE ~(scan.at < Len(w))
    <3>1. Turns(scan, scan', then) /\ DOMAIN scan' = DOMAIN scan /\ result' = Scan!None
      BY <2>2, <2>4, ScanIsRecord DEF Scan!Goto, Turns
    <3> QED BY <1>2, <2>1, <2>4, <3>1 DEF Tries
  <2> QED BY <2>3, <2>4
<1> QED BY <1>1, <1>2

(* The end of a raw string. *)
LEMMA ClosingMoves ==
  ASSUME ScanTypes, result = Scan!None, Scan!Closing PROVE \E d \in {0, 1} : Taking(d)
<1>1. Scan!scan_exactly("closing", scan.delim, "top", "raw")
  BY DEF Scan!Closing
<1> QED BY <1>1, ExactlyMoves DEF Taking, Moves, Answering, NoResult

(* The word doarr. *)
LEMMA DoarrMoves ==
  ASSUME ScanTypes, result = Scan!None, Scan!scan_exactly("doarr", Tail(Scan!doarr), "colon", "top")
  PROVE  \E d \in {0, 1} : Taking(d)
BY ExactlyMoves DEF Taking, Moves, Answering, NoResult

(* The word exported. *)
LEMMA ExportedMoves ==
  ASSUME ScanTypes, result = Scan!None, Scan!scan_exactly("exported", Tail(Scan!exported), "first", "top")
  PROVE  \E d \in {0, 1} : Taking(d)
BY ExactlyMoves DEF Taking, Moves, Answering, NoResult

(* Expect, which waits for one character. *)
LEMMA ExpectMoves ==
  ASSUME ScanTypes, result = Scan!None, NEW there, NEW ch, NEW then, Scan!Expect(there, ch, then)
  PROVE  /\ scan.pc = there /\ Scan!Get /\ back' = Scan!NoChar /\ result' = Scan!None
         /\ DOMAIN scan' = DOMAIN scan /\ Expects(scan, Scan!Char, scan', ch, then)
<1>1. scan.pc = there /\ Scan!Get /\ back' = Scan!NoChar
  BY DEF Scan!Expect, Scan!At, Scan!Read
<1>2. result' = Scan!None /\ DOMAIN scan' = DOMAIN scan /\ Expects(scan, Scan!Char, scan', ch, then)
  BY ScanIsRecord DEF Scan!Expect, Scan!Goto, Expects, Turns
<1> QED BY <1>1, <1>2

(* What is expected of an export up to its name. *)
LEMMA KeywordMoves ==
  ASSUME ScanTypes, result = Scan!None, Scan!Keyword PROVE \E d \in {0, 1} : Taking(d)
<1>1. ASSUME Scan!Expect("colon", ":", "second") PROVE Taking(1)
  BY <1>1, ExpectMoves DEF Taking, Moves, Answering, NoResult
<1>2. ASSUME Scan!Expect("second", ":", "e") PROVE Taking(1)
  BY <1>2, ExpectMoves DEF Taking, Moves, Answering, NoResult
<1>3. ASSUME Scan!Expect("e", Head(Scan!exported), "exported") PROVE Taking(1)
  BY <1>3, ExpectMoves DEF Taking, Moves, Answering, NoResult
<1> QED BY <1>1, <1>2, <1>3, DoarrMoves, ExportedMoves DEF Scan!Keyword

(* The first character of the name. *)
LEMMA FirstMoves ==
  ASSUME ScanTypes, result = Scan!None, Scan!First PROVE Taking(1)
<1> DEFINE ch == Scan!Char
<1>1. Scan!Get /\ back' = Scan!NoChar /\ scan.pc = "first"
  BY DEF Scan!First, Scan!At, Scan!Read
<1>2. ~Scan!char_is_ident_start(Scan!White)
  BY CharsApart, NameStart
<1>3. AtFirst(scan, ch, scan', result') /\ DOMAIN scan' = DOMAIN scan
  BY <1>2, ScanIsRecord DEF Scan!First, Scan!Return, AtFirst
<1> QED BY <1>1, <1>3 DEF Taking, Moves, Answering

(* The name. *)
LEMMA IdentMoves ==
  ASSUME ScanTypes, result = Scan!None, Scan!Ident PROVE \E d \in {0, 1} : Taking(d)
<1> DEFINE ch == Scan!Char
<1>1. scan.pc = "ident"
  BY DEF Scan!Ident, Scan!At
<1>2. CASE Scan!char_is_ident(ch)
  <2>1. Scan!Get /\ back' = Scan!NoChar
    BY <1>2 DEF Scan!Ident, Scan!Read
  <2>2. InIdent(scan, ch, scan', 1, result') /\ DOMAIN scan' = DOMAIN scan
    BY <1>1, <1>2, ScanIsRecord DEF Scan!Ident, InIdent
  <2> QED BY <1>1, <2>1, <2>2 DEF Taking, Moves, Answering
<1>3. CASE ~Scan!char_is_ident(ch)
  <2>1. Scan!Get /\ back' = ch
    BY <1>3 DEF Scan!Ident, Scan!Unread
  <2>2. InIdent(scan, ch, scan', 0, result') /\ DOMAIN scan' = DOMAIN scan
    BY <1>1, <1>3, ScanIsRecord DEF Scan!Ident, InIdent, Scan!Return, Scan!Goto, Turns
  <2> QED BY <1>1, <2>1, <2>2 DEF Taking, Moves, Answering
<1> QED BY <1>2, <1>3

(* The parenthesis behind it. *)
LEMMA ParenMoves ==
  ASSUME ScanTypes, result = Scan!None, Scan!Paren PROVE Taking(1)
<1> DEFINE ch == Scan!Char
<1>1. Scan!Get /\ back' = Scan!NoChar /\ scan.pc = "paren"
  BY DEF Scan!Paren, Scan!At, Scan!Read
<1>2. AtParen(scan, ch, scan', result') /\ DOMAIN scan' = DOMAIN scan
  BY ScanIsRecord DEF Scan!Paren, Scan!Return, AtParen
<1> QED BY <1>1, <1>2 DEF Taking, Moves, Answering

(* So every step of the scanner is one. *)
LEMMA ScannerMoves ==
  ASSUME ScanTypes, result = Scan!None, Scanner PROVE \E d \in {0, 1} : Taking(d)
BY TopMoves, BehindRMoves, StringMoves, DelimMoves, RawMoves, ClosingMoves, KeywordMoves, FirstMoves,
   IdentMoves, ParenMoves DEF Scanner

ScanFacts == Scan!TokensAssumption /\ Scan!TextsAssumption

(* A token has a character, and none of the marks for the end is one. *)
LEMMA TokenText ==
  ASSUME ScanFacts, NEW t \in Tokens
  PROVE  /\ t.text \in Seq({t.text[k] : k \in DOMAIN t.text})
         /\ Len(t.text) \in Nat \ {0} /\ DOMAIN t.text = 1 .. Len(t.text)
         /\ \A k \in 1 .. Len(t.text) : t.text[k] # "EOF" /\ t.text[k] # Scan!NoChar
<1>1. /\ t.text # <<>> /\ t.text \in Seq({t.text[k] : k \in DOMAIN t.text})
      /\ \A k \in DOMAIN t.text : t.text[k] \notin {"EOF", Scan!NoChar}
  BY DEF ScanFacts, Scan!TokensAssumption, Scan!TextsAssumption
<1>2. Len(t.text) \in Nat \ {0} /\ DOMAIN t.text = 1 .. Len(t.text)
  BY <1>1, LenProperties, EmptySeq
<1> QED BY <1>1, <1>2

(* The end of the text is no token. *)
LEMMA EndApart == ASSUME ScanFacts PROVE Scan!End \notin Tokens
BY DEF ScanFacts, Scan!TokensAssumption

(* What taking a character does to the place in a token.                   *)
LEMMA TakingIs ==
  ASSUME ScanFacts, ScanTypes, NEW d \in {0, 1}, Taking(d), tok # Scan!End
  PROVE  /\ UNCHANGED <<tok, seen, verdict>> /\ ScanTypes'
         /\ Taken \in 0 .. Len(tok.text) - 1 /\ Scan!Char = tok.text[Taken + 1]
         /\ Taken' = Taken + d
<1> DEFINE n == Len(tok.text)
<1>1. /\ tok \in Tokens /\ pos \in 0 .. n /\ n \in Nat
      /\ \A k \in 1 .. n : tok.text[k] # "EOF" /\ tok.text[k] # Scan!NoChar
  BY TokenText DEF ScanTypes
<1>2. UNCHANGED <<tok, seen, verdict>> /\ DOMAIN scan' = DOMAIN scan
  BY DEF Taking, Scan!Get, Scan!text
<1>3. CASE back = Scan!NoChar
  <2>1. pos < n /\ pos' = pos + 1
    BY <1>3 DEF Taking, Scan!Get, Scan!More
  <2>2. Taken = pos /\ Scan!Char = tok.text[pos + 1]
    BY <1>3 DEF Taken, Scan!Char
  <2>3. CASE d = 1
    <3>1. back' = Scan!NoChar /\ Taken' = pos + 1
      BY <1>2, <2>1, <2>3 DEF Taking, Taken
    <3> QED BY <1>1, <1>2, <2>1, <2>2, <2>3, <3>1 DEF ScanTypes
  <2>4. CASE d = 0
    <3>1. back' = tok.text[pos + 1] /\ back' # Scan!NoChar
      BY <1>1, <2>1, <2>2, <2>4 DEF Taking, Scan!uchar
    <3>2. Taken' = pos
      BY <1>1, <1>2, <2>1, <3>1 DEF Taken
    <3> QED BY <1>1, <1>2, <2>1, <2>2, <2>4, <3>1, <3>2 DEF ScanTypes
  <2> QED BY <2>3, <2>4
<1>4. CASE back # Scan!NoChar
  <2>1. pos > 0 /\ back = tok.text[pos] /\ pos' = pos
    BY <1>4 DEF Taking, Scan!Get, ScanTypes
  <2>2. Taken = pos - 1 /\ Scan!Char = tok.text[pos]
    BY <1>4, <2>1 DEF Taken, Scan!Char
  <2>3. CASE d = 1
    <3>1. back' = Scan!NoChar /\ Taken' = pos
      BY <1>2, <2>1, <2>3 DEF Taking, Taken
    <3> QED BY <1>1, <1>2, <2>1, <2>2, <2>3, <3>1 DEF ScanTypes
  <2>4. CASE d = 0
    <3>1. back' = tok.text[pos] /\ back' # Scan!NoChar
      BY <1>1, <2>1, <2>2, <2>4 DEF Taking, Scan!uchar
    <3>2. Taken' = pos - 1
      BY <1>1, <1>2, <2>1, <3>1 DEF Taken
    <3> QED BY <1>1, <1>2, <2>1, <2>2, <2>4, <3>1, <3>2 DEF ScanTypes
  <2> QED BY <2>3, <2>4
<1> QED BY <1>3, <1>4

-----------------------------------------------------------------------------
(* A word that was tried when a character comes that is none of a name.    *)
LEMMA GivenUp ==
  ASSUME NEW sc, NEW tc, NEW d, NEW r, NEW ch, Moves(sc, ch, tc, d, r),
         ~Scan!char_is_ident(ch), ch # "EOF",
         (sc.pc = "doarr" /\ sc.at \in 1 .. 4) \/ (sc.pc = "exported" /\ sc.at \in 1 .. 7)
  PROVE  r = Scan!None /\ d = 0 /\ Turns(sc, tc, "top")
<1>1. Scan!uchar(ch) = ch
  BY DEF Scan!uchar
<1>2. CASE sc.pc = "doarr" /\ sc.at \in 1 .. 4
  <2>1. Tail(Scan!doarr)[sc.at] # ch
    BY <1>2, WordsAre, NameStart
  <2>2. r = Scan!None /\ Tries(sc, ch, tc, d, Tail(Scan!doarr), "colon", "top")
    BY <1>2 DEF Moves, Answering, NoResult
  <2> QED BY <1>1, <2>1, <2>2 DEF Tries
<1>3. CASE sc.pc = "exported" /\ sc.at \in 1 .. 7
  <2>1. Tail(Scan!exported)[sc.at] # ch
    BY <1>3, WordsAre, NameStart
  <2>2. r = Scan!None /\ Tries(sc, ch, tc, d, Tail(Scan!exported), "first", "top")
    BY <1>3 DEF Moves, Answering, NoResult
  <2> QED BY <1>1, <2>1, <2>2 DEF Tries
<1> QED BY <1>2, <1>3

(* An ordinary character at the top is the next prev.                      *)
LEMMA TopTakes ==
  ASSUME NEW sc, NEW tc, NEW d, NEW r, NEW ch, Moves(sc, ch, tc, d, r), sc.pc = "top",
         ch \notin {"EOF", Scan!Quote, "R", "d"}
  PROVE  r = Scan!None /\ d = 1 /\ tc.pc = "top" /\ tc.prev = ch
BY DEF Moves, AtTop

(* With Nothing seen, before a character that is none of a name.           *)
LEMMA QuietMoves ==
  ASSUME NEW sc, NEW tc, NEW d, NEW r, NEW ch, Moves(sc, ch, tc, d, r), Ragged(sc, Scan!Nothing),
         ~Scan!char_is_ident(ch), ch # "EOF", ch # Scan!Quote
  PROVE  r = Scan!None /\ (d = 0 \/ d = 1) /\ tc.pc = "top" /\ Loose(tc)
<1>1. ch # "R" /\ ch # "d"
  BY CharsApart, NameStart
<1>2. Named(sc.ident) # Scan!Nothing
  BY DEF Named, Scan!Nothing
<1>3. CASE sc.pc = "top"
  BY <1>1, <1>3, TopTakes DEF Loose
<1>4. CASE sc.pc # "top"
  <2>1. Loose(sc) /\ ((sc.pc = "doarr" /\ sc.at \in 1 .. 4) \/ (sc.pc = "exported" /\ sc.at \in 1 .. 7))
    BY <1>2, <1>4 DEF Ragged
  <2> QED BY <2>1, GivenUp DEF Turns, Loose
<1> QED BY <1>3, <1>4

(* How much of an export has been seen is told apart. *)
LEMMA UptosDiffer ==
  /\ \A what \in {"nothing", "doarr", "colons", "exported"} :
       Scan!Upto(what).upto = what /\ \A name : Scan!Upto(what) # Named(name)
  /\ Scan!Nothing = Scan!Upto("nothing") /\ \A name : Named(name).upto = "named" /\ Named(name).name = name
BY DEF Scan!Upto, Scan!Nothing, Named

(* A space is read, from wherever the scanner was. *)
LEMMA SpaceMoves ==
  ASSUME NEW sc, NEW tc, NEW d \in {0, 1}, NEW r, NEW u,
         Moves(sc, Scan!White, tc, d, r), InSpace(0, sc, u)
  PROVE  r = Scan!None /\ InSpace(d, tc, u)
<1> DEFINE ch == Scan!White
<1>1. ~Scan!char_is_ident(ch) /\ ch # "EOF" /\ ch # Scan!Quote
  BY CharsApart, MarksDiffer
<1>2. CASE Settled(sc, u) /\ sc.pc # "top"
  <2>1. r = Scan!None /\ tc = sc
    BY <1>2 DEF Settled, Moves, Answering, NoResult, Expects, AtFirst, AtParen
  <2> QED BY <1>2, <2>1 DEF InSpace
<1>3. CASE (Settled(sc, u) /\ sc.pc = "top") \/ (Ragged(sc, u) /\ u = Scan!Nothing)
  <2>1. u = Scan!Nothing /\ Ragged(sc, u)
    BY <1>3 DEF Settled, Ragged
  <2>2. r = Scan!None /\ tc.pc = "top" /\ Loose(tc)
    BY <1>1, <2>1, QuietMoves
  <2> QED BY <2>1, <2>2 DEF InSpace, Settled
<1>4. CASE sc.pc = "ident" /\ u = Named(sc.ident) /\ ~Scan!HasDoubleUnderscore(sc.ident)
  <2>1. r = Scan!None /\ Turns(sc, tc, "paren")
    BY <1>1, <1>4 DEF Moves, Answering, InIdent
  <2>2. Settled(tc, u)
    BY <1>4, <2>1 DEF Turns, Settled
  <2> QED BY <2>1, <2>2 DEF InSpace
<1> QED BY <1>2, <1>3, <1>4 DEF InSpace, Ragged

(* The characters of punctuation. *)
LEMMA PunctuationChars ==
  ASSUME NEW s, Scan!IsPunctuation(s), NEW k \in 1 .. Len(s), s[k] # "EOF"
  PROVE  /\ ~Scan!char_is_ident(s[k]) /\ s[k] # Scan!Quote /\ s[k] # Scan!White
         /\ s = Colons => s[k] = ":" /\ Len(s) = 2
         /\ s # Colons => s[k] # ":" /\ Len(s) = 1
<1>1. Len(Colons) = 2 /\ Colons[1] = ":" /\ Colons[2] = ":"
  BY DEF Colons
<1>2. CASE s = Colons
  <2>1. Len(s) = 2 /\ s[1] = ":" /\ s[2] = ":"
    BY <1>1, <1>2
  <2>2. k = 1 \/ k = 2
    BY <2>1
  <2>3. s[k] = ":"
    BY <2>1, <2>2
  <2> QED BY <1>2, <2>1, <2>3, CharsApart, MarksDiffer
<1>3. CASE s # Colons
  <2>1. Len(s) = 1 /\ ~Scan!char_is_ident(s[1]) /\ s[1] \notin {Scan!White, Scan!Quote, ":"}
    BY <1>3 DEF Scan!IsPunctuation, Colons
  <2>2. k = 1
    BY <2>1
  <2> QED BY <1>3, <2>1, <2>2
<1> QED BY <1>2, <1>3

(* Punctuation is read. *)
LEMMA PunctuationMoves ==
  ASSUME NEW s, NEW q \in Nat, NEW sc, NEW tc, NEW d \in {0, 1}, NEW r, NEW u,
         Scan!IsPunctuation(s), Len(s) \in Nat, q < Len(s), s[q + 1] # "EOF",
         Moves(sc, s[q + 1], tc, d, r), InPunctuation(s, q, sc, u)
  PROVE  r = Scan!None /\ InPunctuation(s, q + d, tc, u)
<1> DEFINE ch == s[q + 1]
<1>1. /\ ~Scan!char_is_ident(ch) /\ ch # Scan!Quote /\ ch # Scan!White
      /\ s = Colons => ch = ":" /\ Len(s) = 2
      /\ s # Colons => ch # ":"
  <2>1. q + 1 \in 1 .. Len(s)
    OBVIOUS
  <2> QED BY <2>1, PunctuationChars
<1>2. CASE u = Scan!Nothing /\ Ragged(sc, u)
  <2>1. r = Scan!None /\ tc.pc = "top" /\ Loose(tc)
    BY <1>1, <1>2, QuietMoves
  <2> QED BY <1>2, <2>1 DEF InPunctuation, Settled
<1>3. CASE u = Scan!Nothing /\ sc.pc = "colon" /\ Loose(sc) /\ s # Colons
  <2>1. r = Scan!None /\ Turns(sc, tc, "top")
    BY <1>1, <1>3 DEF Moves, Answering, NoResult, Expects
  <2> QED BY <1>3, <2>1 DEF InPunctuation, Settled, Turns, Loose
<1>4. CASE u = Scan!Upto("colons") /\ s = Colons /\ Loose(sc) /\ q = 0 /\ sc.pc = "colon"
  <2>1. r = Scan!None /\ d = 1 /\ Turns(sc, tc, "second")
    BY <1>1, <1>4 DEF Moves, Answering, NoResult, Expects
  <2> QED BY <1>4, <2>1 DEF InPunctuation, Turns, Loose
<1>5. CASE u = Scan!Upto("colons") /\ s = Colons /\ Loose(sc) /\ q = 1 /\ sc.pc = "second"
  <2>1. r = Scan!None /\ d = 1 /\ Turns(sc, tc, "e")
    BY <1>1, <1>5 DEF Moves, Answering, NoResult, Expects
  <2> QED BY <1>5, <2>1 DEF InPunctuation, Turns, Loose
<1>6. ASSUME u = Scan!Nothing, Settled(sc, u) PROVE Ragged(sc, u)
  BY <1>6, UptosDiffer DEF Settled, Ragged
<1> QED BY <1>1, <1>2, <1>3, <1>4, <1>5, <1>6 DEF InPunctuation

(* A phrase is read. *)
LEMMA PhraseMoves ==
  ASSUME NEW s, NEW q \in Nat, NEW sc, NEW tc, NEW d \in {0, 1}, NEW r,
         Scan!IsPhrase(s), Len(s) \in Nat, q < Len(s), s[q + 1] # "EOF", q + 1 \in DOMAIN s,
         Moves(sc, s[q + 1], tc, d, r), InPhrase(s, q, sc)
  PROVE  r = Scan!None /\ InPhrase(s, q + d, tc)
<1> DEFINE ch == s[q + 1]
<1>1. /\ ch # "d" /\ ch # Scan!Quote /\ ch # "EOF"
      /\ Len(s) > 1 /\ s[Len(s)] = Scan!White /\ s[Len(s) - 1] # "R"
  BY DEF Scan!IsPhrase
<1>2. ~Scan!char_is_ident(Scan!White) /\ Scan!White # "R"
  BY CharsApart, NameStart
<1>3. CASE sc.pc = "top"
  <2>1. CASE ch = "R"
    <3>1. r = Scan!None /\ d = 1 /\ tc.pc = "R"
      BY <1>1, <1>3, <2>1 DEF Moves, AtTop, Turns
    <3> QED BY <2>1, <3>1 DEF InPhrase
  <2>2. CASE ch # "R"
    <3>1. r = Scan!None /\ d = 1 /\ tc.pc = "top" /\ tc.prev = ch
      BY <1>1, <1>3, <2>2, TopTakes
    <3>2. q + 1 = Len(s) => Loose(tc)
      BY <1>1, <1>2, <3>1 DEF Loose
    <3> QED BY <3>1, <3>2 DEF InPhrase
  <2> QED BY <2>1, <2>2
<1>4. CASE q = 0 /\ sc.pc # "top" /\ Begun(sc, Scan!Nothing, ch)
  <2>1. Ragged(sc, Scan!Nothing) /\ ~Scan!char_is_ident(ch)
    BY <1>4, UptosDiffer DEF Begun, Settled
  <2>2. r = Scan!None /\ tc.pc = "top" /\ Loose(tc)
    BY <1>1, <2>1, QuietMoves
  <2>3. Begun(tc, Scan!Nothing, s[1])
    BY <2>2 DEF Begun, Settled
  <2> QED BY <1>4, <2>2, <2>3 DEF InPhrase
<1>5. CASE q > 0 /\ sc.pc = "R" /\ s[q] = "R"
  <2>1. r = Scan!None /\ d = 1 /\ tc.pc = "top"
    BY <1>1, <1>5 DEF Moves, Answering, NoResult, BehindR
  <2>2. q # Len(s) - 1
    BY <1>1, <1>5
  <2>3. q + 1 # Len(s)
    BY <2>2
  <2> QED BY <2>1, <2>3 DEF InPhrase
<1> QED BY <1>3, <1>4, <1>5 DEF InPhrase

(* The name of an export is read. *)
LEMMA NameMoves ==
  ASSUME NEW s, NEW q \in Nat, NEW sc, NEW tc, NEW d \in {0, 1}, NEW r,
         s \in Seq({s[k] : k \in DOMAIN s}), q < Len(s),
         Scan!char_is_ident_start(s[1]), Scan!char_is_ident(s[q + 1]),
         Moves(sc, s[q + 1], tc, d, r), InName(s, q, sc)
  PROVE  r = Scan!None /\ InName(s, q + d, tc)
<1> DEFINE ch == s[q + 1]
           S == {s[k] : k \in DOMAIN s}
<1>1. ch # Scan!White
  BY CharsApart
<1>2. Len(s) \in Nat /\ \A k \in 1 .. Len(s) : s[k] \in S
  BY LenProperties
<1>3. CASE q = 0 /\ sc.pc = "first"
  <2>1. r = Scan!None /\ d = 1 /\ tc.pc = "ident" /\ tc.ident = << ch >>
    BY <1>1, <1>3 DEF Moves, Answering, AtFirst
  <2>2. /\ SubSeq(s, 1, 1) \in Seq(S) /\ Len(SubSeq(s, 1, 1)) = 1 /\ SubSeq(s, 1, 1)[1] = s[1]
    <3>1. \A k \in 1 .. 1 : s[k] \in S
      BY <1>2, <1>3
    <3> HIDE DEF S
    <3> QED BY <3>1, SubSeqProperties
  <2>3. << ch >> \in Seq(S) /\ Len(<< ch >>) = 1 /\ << ch >>[1] = s[1]
    <3>1. ch \in S /\ ch = s[1]
      BY <1>2, <1>3
    <3> HIDE DEF S
    <3> QED BY <3>1
  <2>4. << ch >> = SubSeq(s, 1, 1)
    <3> HIDE DEF S, ch
    <3> QED BY <2>2, <2>3, SeqEqual
  <2> QED BY <1>3, <2>1, <2>4 DEF InName
<1>4. CASE q > 0 /\ sc.pc = "ident" /\ sc.ident = SubSeq(s, 1, q)
  <2>1. r = Scan!None /\ d = 1 /\ tc.pc = "ident" /\ tc.ident = Append(sc.ident, ch)
    BY <1>4 DEF Moves, Answering, InIdent
  <2>2. /\ SubSeq(s, 1, q) \in Seq(S) /\ Len(SubSeq(s, 1, q)) = q
        /\ \A j \in 1 .. q : SubSeq(s, 1, q)[j] = s[j]
    <3>1. \A k \in 1 .. q : s[k] \in S
      BY <1>2
    <3> HIDE DEF S
    <3>2. /\ SubSeq(s, 1, q) \in Seq(S) /\ Len(SubSeq(s, 1, q)) = IF 1 <= q THEN q - 1 + 1 ELSE 0
          /\ \A j \in 1 .. q - 1 + 1 : SubSeq(s, 1, q)[j] = s[1 + j - 1]
      BY <3>1, SubSeqProperties
    <3> QED BY <1>4, <3>2
  <2>3. /\ SubSeq(s, 1, q + 1) \in Seq(S) /\ Len(SubSeq(s, 1, q + 1)) = q + 1
        /\ \A j \in 1 .. q + 1 : SubSeq(s, 1, q + 1)[j] = s[j]
    <3>1. \A k \in 1 .. q + 1 : s[k] \in S
      BY <1>2
    <3> HIDE DEF S
    <3>2. /\ SubSeq(s, 1, q + 1) \in Seq(S) /\ Len(SubSeq(s, 1, q + 1)) = IF 1 <= q + 1 THEN q + 1 - 1 + 1 ELSE 0
          /\ \A j \in 1 .. q + 1 - 1 + 1 : SubSeq(s, 1, q + 1)[j] = s[1 + j - 1]
      BY <3>1, SubSeqProperties
    <3> QED BY <1>4, <3>2
  <2>4. Append(SubSeq(s, 1, q), ch) = SubSeq(s, 1, q + 1)
    <3>1. ch \in S
      BY <1>2
    <3> DEFINE x == SubSeq(s, 1, q)
               y == SubSeq(s, 1, q + 1)
    <3>2. x \in Seq(S) /\ Len(x) = q /\ y \in Seq(S) /\ Len(y) = q + 1 /\ y[q + 1] = ch
          /\ \A j \in 1 .. q : y[j] = x[j]
      BY <2>2, <2>3
    <3> HIDE DEF S, x, y, ch
    <3>3. Append(x, ch) \in Seq(S) /\ Len(Append(x, ch)) = Len(y)
          /\ \A j \in 1 .. q + 1 : Append(x, ch)[j] = y[j]
      BY <3>1, <3>2
    <3>4. Append(x, ch) = y
      BY <3>2, <3>3, SeqEqual
    <3> QED BY <3>4 DEF x, y
  <2> QED BY <1>4, <2>1, <2>4 DEF InName
<1> QED BY <1>3, <1>4 DEF InName

(* A word that is being tried, when its next character comes.              *)
LEMMA WordOn ==
  ASSUME NEW sc, NEW tc, NEW d \in {0, 1}, NEW w, NEW n \in Nat, NEW ch, NEW then,
         Len(w) = n, sc.at \in 1 .. n, ch = w[sc.at], Scan!uchar(ch) = ch,
         Tries(sc, ch, tc, d, w, then, "top")
  PROVE  /\ d = 1
         /\ sc.at < n => tc.pc = sc.pc /\ tc.at = sc.at + 1 /\ tc.prev = sc.prev
         /\ sc.at = n => Turns(sc, tc, then)
BY DEF Tries

(* The word doarr is read. *)
LEMMA DoarrTried ==
  ASSUME NEW q \in Nat, NEW sc, NEW tc, NEW d \in {0, 1}, NEW r, q < 5,
         Moves(sc, Scan!doarr[q + 1], tc, d, r), InDoarr(q, sc)
  PROVE  r = Scan!None /\ InDoarr(q + d, tc)
<1> DEFINE ch == Scan!doarr[q + 1]
<1>1. Scan!char_is_ident(ch)
  <2>1. q + 1 \in 1 .. 5
    OBVIOUS
  <2> QED BY <2>1, WordsAre, NameStart
<1>2. Scan!uchar(ch) = ch
  BY <1>1, CharsApart DEF Scan!uchar
<1>3. CASE q = 0
  <2>1. ch = "d" /\ sc.pc = "top" /\ Loose(sc)
    BY <1>3, WordsAre DEF InDoarr
  <2>2. r = Scan!None /\ d = 1 /\ Turns(sc, tc, "doarr")
    BY <2>1, MarksDiffer, CharsApart, NameStart DEF Moves, AtTop, Loose
  <2> QED BY <1>3, <2>1, <2>2 DEF InDoarr, Turns, Loose
<1>4. CASE q > 0
  <2>1. sc.pc = "doarr" /\ sc.at = q /\ Loose(sc) /\ q \in 1 .. 4
    BY <1>4 DEF InDoarr
  <2>2. r = Scan!None /\ Tries(sc, ch, tc, d, Tail(Scan!doarr), "colon", "top")
    BY <2>1 DEF Moves, Answering, NoResult
  <2>3. Len(Tail(Scan!doarr)) = 4 /\ ch = Tail(Scan!doarr)[q]
    BY <2>1, WordsAre
  <2>4. /\ d = 1
        /\ q < 4 => tc.pc = sc.pc /\ tc.at = q + 1 /\ tc.prev = sc.prev
        /\ q = 4 => Turns(sc, tc, "colon")
    <3> HIDE DEF ch
    <3> QED BY <1>2, <2>1, <2>2, <2>3, WordOn
  <2>5. CASE q < 4
    BY <2>1, <2>2, <2>4, <2>5 DEF InDoarr, Loose
  <2>6. CASE q = 4
    BY <2>1, <2>2, <2>4, <2>6 DEF InDoarr, Loose, Turns
  <2> QED BY <2>1, <2>5, <2>6
<1> QED BY <1>3, <1>4

(* The word exported is read. *)
LEMMA ExportedTried ==
  ASSUME NEW q \in Nat, NEW sc, NEW tc, NEW d \in {0, 1}, NEW r, q < 8,
         Moves(sc, Scan!exported[q + 1], tc, d, r), InExported(q, sc)
  PROVE  r = Scan!None /\ InExported(q + d, tc)
<1> DEFINE ch == Scan!exported[q + 1]
<1>1. Scan!char_is_ident(ch)
  <2>1. q + 1 \in 1 .. 8
    OBVIOUS
  <2> QED BY <2>1, WordsAre, NameStart
<1>2. Scan!uchar(ch) = ch /\ ch # Scan!White
  BY <1>1, CharsApart DEF Scan!uchar
<1>3. CASE q = 0
  <2>1. ch = Head(Scan!exported) /\ sc.pc = "e"
    BY <1>3, WordsAre DEF InExported
  <2>2. r = Scan!None /\ d = 1 /\ Turns(sc, tc, "exported")
    BY <1>2, <2>1 DEF Moves, Answering, NoResult, Expects
  <2> QED BY <1>3, <2>1, <2>2 DEF InExported, Turns
<1>4. CASE q > 0
  <2>1. sc.pc = "exported" /\ sc.at = q /\ q \in 1 .. 7
    BY <1>4 DEF InExported
  <2>2. r = Scan!None /\ Tries(sc, ch, tc, d, Tail(Scan!exported), "first", "top")
    BY <2>1 DEF Moves, Answering, NoResult
  <2>3. Len(Tail(Scan!exported)) = 7 /\ ch = Tail(Scan!exported)[q]
    BY <2>1, WordsAre
  <2>4. /\ d = 1
        /\ q < 7 => tc.pc = sc.pc /\ tc.at = q + 1 /\ tc.prev = sc.prev
        /\ q = 7 => Turns(sc, tc, "first")
    <3> HIDE DEF ch
    <3> QED BY <1>2, <2>1, <2>2, <2>3, WordOn
  <2>5. CASE q < 7
    BY <2>1, <2>2, <2>4, <2>5 DEF InExported
  <2>6. CASE q = 7
    BY <2>1, <2>2, <2>4, <2>6 DEF InExported, Turns
  <2> QED BY <2>1, <2>5, <2>6
<1> QED BY <1>3, <1>4

(* A text from behind. *)
LEMMA ReverseIs ==
  ASSUME NEW S, NEW s \in Seq(S)
  PROVE  /\ Scan!Reverse(s) \in Seq(S) /\ Len(Scan!Reverse(s)) = Len(s)
         /\ \A k \in 1 .. Len(s) : Scan!Reverse(s)[k] = s[Len(s) - k + 1]
<1> DEFINE n == Len(s)
           f == [k \in 1 .. n |-> s[n - k + 1]]
<1>1. n \in Nat /\ \A k \in 1 .. n : s[k] \in S
  BY LenProperties
<1>2. \A k \in 1 .. n : n - k + 1 \in 1 .. n
  BY <1>1
<1>3. f \in [1 .. n -> S]
  BY <1>1, <1>2
<1>4. Scan!Reverse(s) = f
  BY DEF Scan!Reverse
<1>5. f \in Seq(S) /\ Len(f) = n
  <2> HIDE DEF f, n
  <2> QED BY <1>1, <1>3
<1> QED BY <1>4, <1>5

(* The first n members of a sequence.                                      *)
LEMMA FirstOf ==
  ASSUME NEW S, NEW s \in Seq(S), NEW n \in 0 .. Len(s)
  PROVE  /\ SubSeq(s, 1, n) \in Seq(S) /\ Len(SubSeq(s, 1, n)) = n
         /\ \A k \in 1 .. n : SubSeq(s, 1, n)[k] = s[k]
<1>1. n \in Int /\ 1 \in Int /\ n \in Nat /\ \A k \in 1 .. n : s[k] \in S
  BY LenProperties
<1>2. /\ SubSeq(s, 1, n) \in Seq(S) /\ Len(SubSeq(s, 1, n)) = (IF 1 <= n THEN n - 1 + 1 ELSE 0)
      /\ \A k \in 1 .. n - 1 + 1 : SubSeq(s, 1, n)[k] = s[1 + k - 1]
  BY <1>1, SubSeqProperties
<1> QED BY <1>1, <1>2

(* What a text begins with. *)
LEMMA PrefixIs ==
  ASSUME NEW S, NEW w \in Seq(S), NEW s \in Seq(S), Len(w) <= Len(s),
         \A k \in 1 .. Len(w) : s[k] = w[k]
  PROVE  Scan!IsPrefix(w, s)
<1> DEFINE n == Len(w)
           x == SubSeq(w, 1, n)
           y == SubSeq(s, 1, n)
<1>1. n \in 0 .. Len(w) /\ n \in 0 .. Len(s)
  BY LenProperties
<1>2. x \in Seq(S) /\ Len(x) = n /\ (\A k \in 1 .. n : x[k] = w[k])
  BY <1>1, FirstOf
<1>3. y \in Seq(S) /\ Len(y) = n /\ (\A k \in 1 .. n : y[k] = s[k])
  BY <1>1, FirstOf
<1>4. x = y
  <2>1. \A k \in 1 .. Len(x) : x[k] = y[k]
    BY <1>2, <1>3
  <2> HIDE DEF x, y, n
  <2> QED BY <1>2, <1>3, <2>1, SeqEqual
<1> QED BY <1>4 DEF Scan!IsPrefix

(* What a text ends with. *)
LEMMA SuffixIs ==
  ASSUME NEW S, NEW w \in Seq(S), NEW s \in Seq(S), Len(w) <= Len(s),
         \A k \in 1 .. Len(w) : s[Len(s) - Len(w) + k] = w[k]
  PROVE  Scan!IsSuffix(w, s)
<1>1. Len(w) \in Nat /\ Len(s) \in Nat
  BY LenProperties
<1>2. Scan!Reverse(w) \in Seq(S) /\ Len(Scan!Reverse(w)) = Len(w) /\ Scan!Reverse(s) \in Seq(S) /\ Len(Scan!Reverse(s)) = Len(s)
  BY ReverseIs
<1>3. ASSUME NEW k \in 1 .. Len(w) PROVE Scan!Reverse(s)[k] = Scan!Reverse(w)[k]
  <2> DEFINE j == Len(w) - k + 1
  <2>1. j \in 1 .. Len(w) /\ Len(s) - Len(w) + j = Len(s) - k + 1 /\ k \in 1 .. Len(s)
    BY <1>1
  <2>2. s[Len(s) - k + 1] = w[j]
    BY <2>1
  <2>3. Scan!Reverse(s)[k] = s[Len(s) - k + 1] /\ Scan!Reverse(w)[k] = w[j]
    BY <2>1, ReverseIs
  <2> QED BY <2>2, <2>3
<1>4. Scan!IsPrefix(Scan!Reverse(w), Scan!Reverse(s))
  <2>1. Len(Scan!Reverse(w)) <= Len(Scan!Reverse(s)) /\ \A k \in 1 .. Len(Scan!Reverse(w)) : Scan!Reverse(s)[k] = Scan!Reverse(w)[k]
    BY <1>2, <1>3
  <2> QED BY <1>2, <2>1, PrefixIs
<1> QED BY <1>4 DEF Scan!IsSuffix

(* A text that ends in doarr, or begins with exported, as far as its       *)
(* characters say.                                                         *)
LEMMA TextAffixes ==
  ASSUME NEW s, s \in Seq({s[k] : k \in DOMAIN s})
  PROVE  /\ LastAre(s, Len(s), Scan!doarr, 5) => EndsInDoarr(s)
         /\ Len(s) >= 8 /\ (\A k \in 1 .. 8 : s[k] = Scan!exported[k]) => Scan!IsPrefix(Scan!exported, s)
<1> DEFINE A == {s[k] : k \in DOMAIN s}
           B == {"d", "o", "a", "r", "e", "x", "p", "t"}
           S == A \union B
<1>1. Scan!doarr \in Seq(B) /\ Scan!exported \in Seq(B)
  BY DEF Scan!doarr, Scan!exported
<1>2. s \in Seq(S) /\ Scan!doarr \in Seq(S) /\ Scan!exported \in Seq(S)
  <2>1. A \subseteq S /\ B \subseteq S
    OBVIOUS
  <2>2. s \in Seq(A)
    OBVIOUS
  <2> HIDE DEF A, B, S
  <2> QED BY <1>1, <2>1, <2>2, SeqMonotonic
<1>3. Len(Scan!doarr) = 5 /\ Len(Scan!exported) = 8
  BY WordsAre
<1> HIDE DEF S
<1>4. ASSUME LastAre(s, Len(s), Scan!doarr, 5) PROVE EndsInDoarr(s)
  <2>1. 5 <= Len(s) /\ \A k \in 1 .. 5 : s[Len(s) - 5 + k] = Scan!doarr[k]
    BY <1>4 DEF LastAre
  <2>2. Len(Scan!doarr) <= Len(s) /\ \A k \in 1 .. Len(Scan!doarr) : s[Len(s) - Len(Scan!doarr) + k] = Scan!doarr[k]
    BY <1>3, <2>1
  <2> QED BY <1>2, <2>2, SuffixIs DEF EndsInDoarr
<1>5. ASSUME Len(s) >= 8, \A k \in 1 .. 8 : s[k] = Scan!exported[k] PROVE Scan!IsPrefix(Scan!exported, s)
  <2>1. Len(Scan!exported) <= Len(s) /\ \A k \in 1 .. Len(Scan!exported) : s[k] = Scan!exported[k]
    BY <1>3, <1>5
  <2> QED BY <1>2, <2>1, PrefixIs
<1> QED BY <1>4, <1>5

(* One more character of a word has been read. *)
LEMMA OneMoreOf ==
  ASSUME NEW s, NEW w, NEW q \in Nat, NEW n \in Nat, LastAre(s, q, w, n), s[q + 1] = w[n + 1]
  PROVE  LastAre(s, q + 1, w, n + 1)
<1>1. n <= q /\ \A k \in 1 .. n : s[q - n + k] = w[k]
  BY DEF LastAre
<1>2. ASSUME NEW k \in 1 .. n + 1 PROVE s[(q + 1) - (n + 1) + k] = w[k]
  <2>1. (q + 1) - (n + 1) + k = q - n + k
    OBVIOUS
  <2>2. CASE k = n + 1
    <3>1. q - n + k = q + 1
      BY <2>2
    <3> QED BY <2>1, <2>2, <3>1
  <2>3. CASE k \in 1 .. n
    BY <1>1, <2>1, <2>3
  <2> QED BY <2>2, <2>3
<1> QED BY <1>1, <1>2 DEF LastAre

(* A name that is no part of an export is read. *)
LEMMA WordMoves ==
  ASSUME NEW s, NEW q \in Nat, NEW sc, NEW tc, NEW d \in {0, 1}, NEW r,
         s \in Seq({s[k] : k \in DOMAIN s}), q < Len(s), q + 1 \in DOMAIN s,
         Scan!IsIdent(s), s # Scan!doarr,
         Moves(sc, s[q + 1], tc, d, r), InWord(s, q, sc)
  PROVE  r = Scan!None /\ InWord(s, q + d, tc)
<1> DEFINE ch == s[q + 1]
<1>1. Scan!char_is_ident(ch) /\ (EndsInDoarr(s) => s[1] # "d")
  BY DEF Scan!IsIdent, EndsInDoarr
<1>2. ch # "EOF" /\ ch # Scan!Quote /\ ch # Scan!White /\ ch # ":" /\ Scan!uchar(ch) = ch
  BY <1>1, CharsApart DEF Scan!uchar
<1>3. Len(s) \in Nat
  BY LenProperties
<1>4. ASSUME sc.pc = "top", EndsInDoarr(s) => (q > 0 => ~Loose(sc)), q = 0 => Loose(sc)
      PROVE  r = Scan!None /\ InWord(s, q + d, tc)
  <2>1. CASE ch = "R"
    <3>1. r = Scan!None /\ d = 1 /\ tc.pc = "R"
      BY <1>2, <1>4, <2>1 DEF Moves, AtTop, Turns
    <3> QED BY <2>1, <3>1 DEF InWord
  <2>2. CASE ch = "d" /\ Loose(sc)
    <3>1. r = Scan!None /\ d = 1 /\ Turns(sc, tc, "doarr")
      BY <1>2, <1>4, <2>2 DEF Moves, AtTop, Loose
    <3>2. ~EndsInDoarr(s)
      <4>1. EndsInDoarr(s) => q = 0
        BY <1>4, <2>2
      <4>2. q = 0 => ch = s[1]
        OBVIOUS
      <4> QED BY <1>1, <2>2, <4>1, <4>2
    <3>3. LastAre(s, q + 1, Scan!doarr, 1)
      <4>1. LastAre(s, q, Scan!doarr, 0)
        BY DEF LastAre
      <4>2. ch = Scan!doarr[0 + 1]
        BY <2>2, WordsAre
      <4>3. LastAre(s, q + 1, Scan!doarr, 0 + 1)
        BY <4>1, <4>2, OneMoreOf
      <4> QED BY <4>3
    <3>4. Loose(tc) /\ tc.at = 1 /\ tc.pc = "doarr"
      BY <2>2, <3>1 DEF Turns, Loose
    <3>5. tc.at \in 1 .. 4
      BY <3>4
    <3> QED BY <3>1, <3>2, <3>3, <3>4, <3>5 DEF InWord
  <2>3. CASE ch = "d" /\ ~Loose(sc)
    <3>1. r = Scan!None /\ d = 1 /\ tc = sc
      BY <1>2, <1>4, <2>3 DEF Moves, AtTop, Loose
    <3> QED BY <1>4, <2>3, <3>1 DEF InWord
  <2>4. CASE ch # "R" /\ ch # "d"
    <3>1. r = Scan!None /\ d = 1 /\ tc.pc = "top" /\ tc.prev = ch
      BY <1>2, <1>4, <2>4, TopTakes
    <3>2. ~Loose(tc)
      BY <1>1, <3>1 DEF Loose
    <3> QED BY <3>1, <3>2 DEF InWord
  <2> QED BY <2>1, <2>2, <2>3, <2>4
<1>5. CASE sc.pc = "R" /\ q > 0
  <2>1. r = Scan!None /\ d = 1 /\ tc.pc = "top" /\ tc.prev = "R"
    BY <1>2, <1>5 DEF Moves, Answering, NoResult, BehindR
  <2>2. ~Loose(tc)
    BY <2>1, CharsApart, NameStart DEF Loose
  <2> QED BY <2>1, <2>2 DEF InWord
<1>6. CASE ~EndsInDoarr(s) /\ Loose(sc) /\ sc.pc = "doarr" /\ sc.at \in 1 .. 4 /\ LastAre(s, q, Scan!doarr, sc.at)
  <2> DEFINE j == sc.at
             w == Tail(Scan!doarr)
  <2>1. r = Scan!None /\ Tries(sc, ch, tc, d, w, "colon", "top")
    BY <1>6 DEF Moves, Answering, NoResult
  <2>2. Len(w) = 4 /\ w[j] = Scan!doarr[j + 1] /\ j \in Nat /\ j <= q /\ 0 < j
    <3>1. j \in 1 .. 4 /\ j <= q
      BY <1>6 DEF LastAre
    <3>2. Len(w) = 4 /\ w[j] = Scan!doarr[j + 1]
      BY <3>1, WordsAre
    <3>3. j \in Nat /\ 0 < j
      <4> HIDE DEF j
      <4> QED BY <3>1
    <3> QED BY <3>1, <3>2, <3>3
  <2>3. CASE ch # w[j]
    <3>1. d = 0 /\ Turns(sc, tc, "top")
      BY <1>2, <2>1, <2>3 DEF Tries
    <3>2. q > 0
      BY <2>2
    <3> QED BY <1>6, <2>1, <3>1, <3>2 DEF InWord, Turns
  <2>4. CASE ch = w[j]
    <3>1. LastAre(s, q + 1, Scan!doarr, j + 1)
      BY <1>6, <2>2, <2>4, OneMoreOf
    <3>2. /\ d = 1
          /\ j < 4 => tc.pc = sc.pc /\ tc.at = j + 1 /\ tc.prev = sc.prev
          /\ j = 4 => Turns(sc, tc, "colon")
      <4> HIDE DEF ch, w
      <4> QED BY <1>2, <1>6, <2>1, <2>2, <2>4, WordOn
    <3>3. CASE j < 4
      <4>1. tc.at \in 1 .. 4 /\ tc.at = j + 1
        <5>1. tc.at = j + 1
          BY <3>2, <3>3
        <5>2. j + 1 \in 1 .. 4
          <6> HIDE DEF j
          <6> QED BY <2>2, <3>3
        <5> QED BY <5>1, <5>2
      <4>2. Loose(tc) /\ tc.pc = "doarr" /\ LastAre(s, q + 1, Scan!doarr, tc.at)
        BY <1>6, <3>1, <3>2, <3>3, <4>1 DEF Loose
      <4> QED BY <1>6, <2>1, <3>2, <4>1, <4>2 DEF InWord
    <3>4. CASE j = 4
      <4>1. q + 1 # Len(s)
        <5>1. LastAre(s, q + 1, Scan!doarr, 5)
          BY <3>1, <3>4
        <5> QED BY <1>6, <5>1, TextAffixes
      <4>2. 0 < q + 1 /\ q + 1 < Len(s)
        BY <1>3, <4>1
      <4>3. tc.pc = "colon" /\ Loose(tc)
        BY <1>6, <3>2, <3>4 DEF Turns, Loose
      <4> QED BY <1>6, <2>1, <3>2, <4>2, <4>3 DEF InWord
    <3>5. j < 4 \/ j = 4
      BY <1>6
    <3> QED BY <3>3, <3>4, <3>5
  <2> QED BY <2>3, <2>4
<1>7. CASE ~EndsInDoarr(s) /\ Loose(sc) /\ sc.pc = "colon"
  <2>1. r = Scan!None /\ d = 1 /\ Turns(sc, tc, "top")
    BY <1>2, <1>7 DEF Moves, Answering, NoResult, Expects
  <2> QED BY <1>7, <2>1 DEF InWord, Turns
<1>8. CASE ~EndsInDoarr(s) /\ Loose(sc) /\ sc.pc = "e" /\ q = 0 /\ s # Scan!exported
  <2>1. r = Scan!None /\ d = 1 /\ Turns(sc, tc, IF ch = "e" THEN "exported" ELSE "top")
    BY <1>2, <1>8, WordsAre DEF Moves, Answering, NoResult, Expects
  <2>2. CASE ch # "e"
    BY <1>8, <2>1, <2>2 DEF InWord, Turns
  <2>3. CASE ch = "e"
    <3>1. tc.pc = "exported" /\ tc.at = 1 /\ Loose(tc)
      BY <1>8, <2>1, <2>3 DEF Turns, Loose
    <3>2. \A k \in 1 .. 1 : s[k] = Scan!exported[k]
      <4>1. s[1] = Scan!exported[1]
        BY <1>8, <2>3, WordsAre
      <4> QED BY <4>1
    <3>3. q + 1 = 1
      BY <1>8
    <3>4. q + d = 1 /\ 1 \in 1 .. 7
      BY <2>1, <3>3
    <3> QED BY <1>8, <2>1, <3>1, <3>2, <3>4 DEF InWord
  <2> QED BY <2>2, <2>3
<1>9. CASE /\ ~EndsInDoarr(s) /\ Loose(sc) /\ sc.pc = "exported" /\ sc.at = q /\ q \in 1 .. 7
           /\ s # Scan!exported /\ \A k \in 1 .. q : s[k] = Scan!exported[k]
  <2> DEFINE w == Tail(Scan!exported)
  <2>1. r = Scan!None /\ Tries(sc, ch, tc, d, w, "first", "top")
    BY <1>9 DEF Moves, Answering, NoResult
  <2>2. Len(w) = 7 /\ w[q] = Scan!exported[q + 1]
    BY <1>9, WordsAre
  <2>3. CASE ch # w[q]
    <3>1. d = 0 /\ Turns(sc, tc, "top")
      BY <1>2, <1>9, <2>1, <2>3 DEF Tries
    <3> QED BY <1>9, <2>1, <3>1 DEF InWord, Turns
  <2>4. CASE ch = w[q]
    <3>1. \A k \in 1 .. q + 1 : s[k] = Scan!exported[k]
      <4>1. ch = Scan!exported[q + 1]
        BY <2>2, <2>4
      <4> QED BY <1>9, <4>1
    <3>2. q # 7
      <4>1. ASSUME q = 7 PROVE FALSE
        <5>1. Len(s) >= 8 /\ \A k \in 1 .. 8 : s[k] = Scan!exported[k]
          <6>1. q + 1 = 8
            BY <4>1
          <6>2. Len(s) >= 8
            BY <1>3, <4>1
          <6> QED BY <3>1, <6>1, <6>2
        <5>2. Scan!IsPrefix(Scan!exported, s)
          BY <5>1, TextAffixes
        <5> QED BY <1>9, <5>2 DEF Scan!IsIdent
      <4> QED BY <4>1
    <3>3. d = 1 /\ tc.pc = sc.pc /\ tc.at = q + 1 /\ tc.prev = sc.prev
      <4>1. q < 7
        BY <1>9, <3>2
      <4> HIDE DEF ch, w
      <4> QED BY <1>2, <1>9, <2>1, <2>2, <2>4, <4>1, WordOn
    <3>4. q + 1 \in 1 .. 7 /\ q + d = q + 1
      BY <1>9, <3>2, <3>3
    <3> QED BY <1>9, <2>1, <3>1, <3>3, <3>4 DEF InWord, Loose
  <2> QED BY <2>3, <2>4
<1> QED BY <1>4, <1>5, <1>6, <1>7, <1>8, <1>9 DEF InWord

(* A string is read, with what is escaped in it. *)
LEMMA QuotesMoves ==
  ASSUME NEW s, NEW escaped, NEW q \in Nat, NEW sc, NEW tc, NEW d \in {0, 1}, NEW r,
         Scan!Escapes(s, escaped), Len(s) \in Nat, q < Len(s), s[q + 1] # "EOF",
         Moves(sc, s[q + 1], tc, d, r), InQuotes(s, q, sc, escaped)
  PROVE  r = Scan!None /\ InQuotes(s, q + d, tc, escaped)
<1> DEFINE ch == s[q + 1]
<1>1. /\ Len(s) > 1 /\ s[1] = Scan!Quote /\ s[Len(s)] = Scan!Quote
      /\ 2 \notin escaped /\ Len(s) \notin escaped
      /\ \A k \in 2 .. Len(s) - 1 :
           /\ k \notin escaped => s[k] # Scan!Quote
           /\ k + 1 \in escaped <=> s[k] = "\\" /\ k \notin escaped
  BY DEF Scan!Escapes
<1>2. CASE q = 0 /\ Begun(sc, Scan!Nothing, ch) /\ sc.pc = "top"
  <2>1. ch = Scan!Quote
    BY <1>1, <1>2
  <2>2. r = Scan!None /\ d = 1 /\ tc.pc = "string" /\ tc.prev = Scan!Quote
    BY <1>2, <2>1, MarksDiffer, CharsApart, NameStart DEF Moves, AtTop
  <2>3. q + d = 1 /\ 1 \in 1 .. Len(s) - 1 /\ 1 + 1 \notin escaped
    BY <1>1, <1>2, <2>2
  <2> QED BY <2>2, <2>3 DEF InQuotes
<1>3. CASE q = 0 /\ Begun(sc, Scan!Nothing, ch) /\ sc.pc # "top"
  <2>1. ~Scan!char_is_ident(ch)
    BY <1>1, <1>3, CharsApart
  <2>2. Loose(sc) /\ ((sc.pc = "doarr" /\ sc.at \in 1 .. 4) \/ (sc.pc = "exported" /\ sc.at \in 1 .. 7))
    BY <1>3, UptosDiffer DEF Begun, Settled, Ragged
  <2>3. r = Scan!None /\ d = 0 /\ Turns(sc, tc, "top")
    BY <2>1, <2>2, GivenUp
  <2>4. Begun(tc, Scan!Nothing, s[1])
    BY <2>2, <2>3 DEF Begun, Settled, Turns, Loose
  <2> QED BY <1>3, <2>3, <2>4 DEF InQuotes
<1>4. CASE q \in 1 .. Len(s) - 1 /\ sc.pc = "string" /\ q + 1 \notin escaped /\ sc.prev = Scan!Quote
  <2>1. r = Scan!None /\ d = 1 /\ Turns(sc, tc, IF ch = Scan!Quote THEN "top" ELSE Scan!InString(ch))
    BY <1>4 DEF Moves, Answering, NoResult
  <2>2. CASE q + 1 = Len(s)
    <3>1. ch = Scan!Quote
      BY <1>1, <2>2
    <3> QED BY <1>4, <2>1, <2>2, <3>1 DEF InQuotes, Turns
  <2>3. CASE q + 1 # Len(s)
    <3>1. q + 1 \in 2 .. Len(s) - 1 /\ q + 1 \in 1 .. Len(s) - 1
      BY <1>4, <2>3
    <3>2. ch # Scan!Quote /\ ((q + 1) + 1 \in escaped <=> ch = "\\")
      BY <1>1, <1>4, <3>1
    <3>3. tc.pc = (IF ch = "\\" THEN "escape" ELSE "string") /\ tc.prev = Scan!Quote
      BY <1>4, <2>1, <3>2 DEF Turns, Scan!InString
    <3> QED BY <2>1, <3>1, <3>2, <3>3 DEF InQuotes
  <2> QED BY <2>2, <2>3
<1>5. CASE q \in 1 .. Len(s) - 1 /\ sc.pc = "escape" /\ q + 1 \in escaped /\ sc.prev = Scan!Quote
  <2>1. r = Scan!None /\ d = 1 /\ Turns(sc, tc, "string")
    BY <1>5 DEF Moves, Answering, NoResult
  <2>2. q + 1 # Len(s)
    BY <1>1, <1>5
  <2>3. q + 1 \in 2 .. Len(s) - 1 /\ q + 1 \in 1 .. Len(s) - 1
    BY <1>5, <2>2
  <2>4. (q + 1) + 1 \notin escaped
    BY <1>1, <1>5, <2>3
  <2> QED BY <1>5, <2>1, <2>3, <2>4 DEF InQuotes, Turns
<1> QED BY <1>2, <1>3, <1>4, <1>5 DEF InQuotes

-----------------------------------------------------------------------------

(* A raw string is read, up to its parenthesis. *)
LEMMA DelimiterMoves ==
  ASSUME NEW s, NEW n \in Nat, NEW q \in Nat, NEW sc, NEW tc, NEW d \in {0, 1}, NEW r,
         Scan!Delimited(s, n), MaxDelim \in Nat, n < MaxDelim,
         Len(s) \in Nat, q + 1 \in 1 .. Len(s), \A k \in 1 .. Len(s) : s[k] \in Symbol(s),
         s[q + 1] # "EOF", Moves(sc, s[q + 1], tc, d, r),
         q \in 2 .. n + 2, sc.pc = "delim", sc.prev = Scan!Quote, DelimOf(s, q - 2, sc.delim)
  PROVE  r = Scan!None /\ InRaw(s, q + d, tc, n)
<1> DEFINE ch == s[q + 1]
           m == q - 2
<1>1. r = Scan!None /\ d = 1 /\ AtDelim(sc, ch, tc)
  BY DEF Moves, Answering, NoResult
<1>2. Scan!uchar(ch) = ch /\ tc.prev = Scan!Quote
  BY <1>1 DEF Scan!uchar, AtDelim
<1>3. sc.delim \in Seq(Symbol(s)) /\ Len(sc.delim) = m /\ \A j \in 1 .. m : sc.delim[j] = s[j + 2]
  BY DEF DelimOf
<1>4. m \in Nat
  OBVIOUS
<1>5. Len(s) >= 2 * n + 5 /\ s[n + 3] = "(" /\ \A k \in 3 .. n + 2 : s[k] # "("
  BY DEF Scan!Delimited
<1>6. CASE q # n + 2
  <2>1. ch # "("
    <3>1. q + 1 \in 3 .. n + 2
      BY <1>6
    <3> QED BY <1>5, <3>1
  <2>2. tc.delim = Append(sc.delim, ch)
    BY <1>1, <1>2, <2>1 DEF AtDelim
  <2>3. tc.delim \in Seq(Symbol(s)) /\ Len(tc.delim) = m + 1 /\ tc.delim[m + 1] = ch
        /\ \A j \in 1 .. m : tc.delim[j] = sc.delim[j]
    <3>1. ch \in Symbol(s)
      OBVIOUS
    <3> HIDE DEF ch, m
    <3> QED BY <1>3, <1>4, <2>2, <3>1
  <2>4. m + 1 = (q + 1) - 2 /\ m + 1 # MaxDelim /\ q + 1 \in 2 .. n + 2
    BY <1>6
  <2>5. tc.pc = "delim"
    <3>1. Len(tc.delim) # MaxDelim
      BY <2>3, <2>4
    <3> QED BY <1>1, <2>1, <3>1 DEF AtDelim
  <2>6. DelimOf(s, (q + 1) - 2, tc.delim)
    <3>1. ASSUME NEW j \in 1 .. m + 1 PROVE tc.delim[j] = s[j + 2]
      <4>1. CASE j = m + 1
        <5>1. j + 2 = q + 1
          BY <4>1
        <5> QED BY <2>3, <4>1, <5>1
      <4>2. CASE j \in 1 .. m
        BY <1>3, <2>3, <4>2
      <4> QED BY <4>1, <4>2
    <3> QED BY <2>3, <2>4, <3>1 DEF DelimOf
  <2> QED BY <1>1, <1>2, <2>4, <2>5, <2>6 DEF InRaw
<1>7. CASE q = n + 2
  <2>1. ch = "(" /\ m = n
    BY <1>5, <1>7
  <2>2. tc.delim = Append(sc.delim, Scan!Quote) /\ tc.pc = "raw"
    BY <1>1, <2>1 DEF AtDelim
  <2>3. Len(tc.delim) = n + 1 /\ tc.delim[n + 1] = Scan!Quote
        /\ \A j \in 1 .. n : tc.delim[j] = s[j + 2]
    <3>1. Scan!Quote \in Symbol(s)
      BY DEF Symbol
    <3>2. sc.delim \in Seq(Symbol(s)) /\ Len(sc.delim) = n /\ \A j \in 1 .. n : sc.delim[j] = s[j + 2]
      BY <1>3, <2>1
    <3>3. Len(tc.delim) = n + 1 /\ tc.delim[n + 1] = Scan!Quote /\ \A j \in 1 .. n : tc.delim[j] = sc.delim[j]
      BY <2>2, <3>1, <3>2
    <3> QED BY <3>2, <3>3
  <2>4. q + 1 >= n + 3 /\ q + 1 < Len(s) - n - 1
    BY <1>5, <1>7
  <2> QED BY <1>1, <1>2, <2>2, <2>3, <2>4 DEF InRaw, InBody
<1> QED BY <1>6, <1>7

(* In the text of a raw string nothing is an export. *)
LEMMA BodyMoves ==
  ASSUME NEW s, NEW n \in Nat, NEW q \in Nat, NEW sc, NEW tc, NEW d \in {0, 1}, NEW r,
         Scan!Delimited(s, n), Len(s) \in Nat, q < Len(s),
         s[q + 1] # "EOF", Moves(sc, s[q + 1], tc, d, r), InBody(s, q, sc, n), sc.pc = "raw"
  PROVE  r = Scan!None /\ InRaw(s, q + d, tc, n)
<1> DEFINE ch == s[q + 1]
           m == Len(s) - n - 1
<1>1. /\ r = Scan!None /\ d = 1
      /\ Turns(sc, tc, IF ch = ")" THEN "closing" ELSE "raw")
  BY DEF Moves, Answering, NoResult
<1>2. /\ q >= n + 3 /\ sc.prev = Scan!Quote /\ q < m
      /\ Len(sc.delim) = n + 1 /\ sc.delim[n + 1] = Scan!Quote
      /\ \A j \in 1 .. n : sc.delim[j] = s[j + 2]
  BY DEF InBody
<1>3. q + 1 >= n + 3 /\ tc.prev = Scan!Quote /\ tc.delim = sc.delim
  BY <1>1, <1>2 DEF Turns
<1>4. CASE ch = ")"
  <2>1. tc.pc = "closing" /\ tc.at = 1
    BY <1>1, <1>4 DEF Turns
  <2>2. (q + 1) - tc.at + 1 = q + 1 /\ q + 1 > n + 3 /\ (q + 1 = m \/ q + 1 < m)
        /\ tc.at \in 1 .. n + 1 /\ \A j \in 1 .. tc.at - 1 : FALSE
    <3>1. q + 1 > n + 3 /\ (q + 1 = m \/ q + 1 < m)
      <4>1. m \in Int /\ q < m /\ q >= n + 3
        BY <1>2
      <4> HIDE DEF m
      <4> QED BY <4>1
    <3>2. (q + 1) - 1 + 1 = q + 1 /\ 1 \in 1 .. n + 1 /\ \A j \in 1 .. 1 - 1 : FALSE
      OBVIOUS
    <3> QED BY <2>1, <3>1, <3>2
  <2>3. InClosing(s, q + 1, tc, n)
    BY <1>4, <2>2 DEF InClosing
  <2> QED BY <1>1, <1>2, <1>3, <2>1, <2>3 DEF InRaw, InBody
<1>5. CASE ch # ")"
  <2>1. q + 1 # m
    BY <1>5 DEF Scan!Delimited, Scan!Closes
  <2>2. q + 1 < m
    <3>1. m \in Int /\ q < m
      BY <1>2
    <3> HIDE DEF m
    <3> QED BY <2>1, <3>1
  <2>3. tc.pc = "raw"
    BY <1>1, <1>5 DEF Turns
  <2> QED BY <1>1, <1>2, <1>3, <2>2, <2>3 DEF InRaw, InBody
<1> QED BY <1>4, <1>5

(* The end of a raw string is tried at each parenthesis. *)
LEMMA ClosingReads ==
  ASSUME NEW s, NEW n \in Nat, NEW q \in Nat, NEW sc, NEW tc, NEW d \in {0, 1}, NEW r,
         Scan!Delimited(s, n), Len(s) \in Nat, q < Len(s),
         s[q + 1] # "EOF", Moves(sc, s[q + 1], tc, d, r), InBody(s, q, sc, n), sc.pc = "closing"
  PROVE  r = Scan!None /\ InRaw(s, q + d, tc, n)
<1> DEFINE ch == s[q + 1]
           m == Len(s) - n - 1
           k == q - sc.at + 1
<1>1. r = Scan!None /\ Tries(sc, ch, tc, d, sc.delim, "top", "raw") /\ Scan!uchar(ch) = ch
  BY DEF Moves, Answering, NoResult, Scan!uchar
<1>2. /\ q >= n + 3 /\ sc.prev = Scan!Quote
      /\ Len(sc.delim) = n + 1 /\ sc.delim[n + 1] = Scan!Quote
      /\ \A j \in 1 .. n : sc.delim[j] = s[j + 2]
  BY DEF InBody
<1>3. /\ sc.at \in 1 .. n + 1 /\ k > n + 3 /\ s[k] = ")"
      /\ \A j \in 1 .. sc.at - 1 : s[k + j] = sc.delim[j]
      /\ k = m \/ q < m
  BY DEF InBody, InClosing
<1>4. k \in Nat /\ m \in Int /\ k + sc.at = q + 1 /\ sc.at \in Nat
  <2>1. sc.at \in Nat
    BY <1>3
  <2>2. k \in Int /\ k + sc.at = q + 1
    BY <2>1
  <2>3. k > n + 3
    BY <1>3
  <2>4. m \in Int
    OBVIOUS
  <2> HIDE DEF k, m
  <2> QED BY <2>1, <2>2, <2>3, <2>4
<1>5. Scan!Closes(s, n, m) /\ \A x \in n + 4 .. Len(s) - n - 2 : ~Scan!Closes(s, n, x)
  BY DEF Scan!Delimited
<1>6. sc.delim[sc.at] # ")"
  <2>1. CASE sc.at = n + 1
    BY <1>2, <2>1, MarksDiffer
  <2>2. CASE sc.at \in 1 .. n
    <3>1. sc.delim[sc.at] = s[sc.at + 2] /\ sc.at + 2 \in 3 .. n + 2
      BY <1>2, <2>2, SMTT(30)
    <3> QED BY <3>1 DEF Scan!Delimited
  <2> QED BY <1>3, <2>1, <2>2
<1>7. CASE ch # sc.delim[sc.at]
  <2>1. d = 0 /\ Turns(sc, tc, "raw")
    BY <1>1, <1>7 DEF Tries
  <2>2. k # m
    <3>1. ASSUME k = m PROVE FALSE
      <4>1. CASE sc.at = n + 1
        <5>1. ch = Scan!Quote
          <6>1. m + n + 1 = q + 1
            BY <1>4, <3>1, <4>1
          <6> QED BY <1>5, <6>1 DEF Scan!Closes
        <5> QED BY <1>2, <1>7, <4>1, <5>1
      <4>2. CASE sc.at \in 1 .. n
        <5>1. s[m + sc.at] = s[sc.at + 2]
          BY <1>5, <4>2 DEF Scan!Closes
        <5>2. m + sc.at = q + 1 /\ sc.delim[sc.at] = s[sc.at + 2]
          BY <1>2, <1>4, <3>1, <4>2
        <5> QED BY <1>7, <5>1, <5>2
      <4> QED BY <1>3, <4>1, <4>2
    <3> QED BY <3>1
  <2>3. q < m
    BY <1>3, <2>2
  <2> QED BY <1>1, <1>2, <2>1, <2>3 DEF InRaw, InBody, Turns
<1>8. CASE ch = sc.delim[sc.at] /\ sc.at # n + 1
  <2>1. d = 1 /\ tc.pc = "closing" /\ tc.at = sc.at + 1 /\ tc.prev = sc.prev /\ tc.delim = sc.delim
    <3>1. sc.at < Len(sc.delim)
      BY <1>2, <1>3, <1>8
    <3> QED BY <1>1, <1>8, <3>1 DEF Tries
  <2>2. k = (q + 1) - tc.at + 1 /\ tc.at \in 1 .. n + 1
    <3>1. tc.at = sc.at + 1 /\ sc.at \in Nat /\ sc.at \in 1 .. n
      <4>1. tc.at = sc.at + 1 /\ sc.at \in 1 .. n + 1 /\ sc.at # n + 1
        BY <1>3, <1>8, <2>1
      <4>2. \A a \in 1 .. n + 1 : a # n + 1 => a \in Nat /\ a \in 1 .. n
        OBVIOUS
      <4> QED BY <4>1, <4>2
    <3> QED BY <3>1, SMTT(30)
  <2>3. ASSUME NEW j \in 1 .. tc.at - 1 PROVE s[k + j] = tc.delim[j]
    <3>1. CASE j = sc.at
      BY <1>4, <1>8, <2>1, <3>1
    <3>2. CASE j \in 1 .. sc.at - 1
      BY <1>3, <2>1, <3>2
    <3>3. j = sc.at \/ j \in 1 .. sc.at - 1
      BY <1>4, <2>1
    <3> QED BY <3>1, <3>2, <3>3
  <2>4. k = m \/ q + 1 < m
    <3>1. q + 1 = m => ch = ")"
      BY <1>5 DEF Scan!Closes
    <3>2. q + 1 # m
      BY <1>6, <1>8, <3>1
    <3> QED BY <1>3, <1>4, <3>2
  <2>5. InClosing(s, q + 1, tc, n)
    <3> HIDE DEF m
    <3>1. k > n + 3 /\ s[k] = ")" /\ (k = m \/ q + 1 < m)
      BY <1>3, <2>4
    <3> QED BY <2>2, <2>3, <3>1 DEF InClosing, m
  <2> QED BY <1>1, <1>2, <2>1, <2>5 DEF InRaw, InBody
<1>9. CASE ch = sc.delim[sc.at] /\ sc.at = n + 1
  <2>1. d = 1 /\ Turns(sc, tc, "top")
    <3>1. ~(sc.at < Len(sc.delim))
      BY <1>2, <1>9
    <3> QED BY <1>1, <1>9, <3>1 DEF Tries
  <2>2. Scan!Closes(s, n, k)
    <3>1. s[k + n + 1] = Scan!Quote
      <4>1. k + n + 1 = q + 1
        BY <1>4, <1>9
      <4> QED BY <1>2, <1>9, <4>1
    <3>2. ASSUME NEW j \in 1 .. n PROVE s[k + j] = s[j + 2]
      <4>1. j \in 1 .. sc.at - 1
        BY <1>9
      <4> QED BY <1>2, <1>3, <4>1
    <3> QED BY <1>3, <3>1, <3>2 DEF Scan!Closes
  <2>3. k = m
    <3>1. ASSUME k # m PROVE FALSE
      <4>1. k \in n + 4 .. Len(s) - n - 2
        BY <1>3, <1>4, <3>1, <1>9
      <4> QED BY <1>5, <2>2, <4>1
    <3> QED BY <3>1
  <2>4. q + 1 = Len(s)
    <3>1. m + (n + 1) = q + 1
      BY <1>4, <1>9, <2>3
    <3> QED BY <3>1
  <2> QED BY <1>1, <1>2, <2>1, <2>4 DEF InRaw, Turns
<1> QED BY <1>7, <1>8, <1>9

(* A raw string is read. *)
LEMMA RawReads ==
  ASSUME NEW s, NEW n \in Nat, NEW q \in Nat, NEW sc, NEW tc, NEW d \in {0, 1}, NEW r,
         Scan!Delimited(s, n), MaxDelim \in Nat, n < MaxDelim,
         Len(s) \in Nat, q < Len(s), \A k \in 1 .. Len(s) : s[k] \in Symbol(s),
         s[q + 1] # "EOF", Moves(sc, s[q + 1], tc, d, r), InRaw(s, q, sc, n)
  PROVE  r = Scan!None /\ InRaw(s, q + d, tc, n)
<1> DEFINE ch == s[q + 1]
<1>1. CASE q = 0 /\ sc.pc = "top" /\ Loose(sc)
  <2>1. ch = "R"
    BY <1>1 DEF Scan!Delimited
  <2>2. r = Scan!None /\ d = 1 /\ tc.pc = "R"
    <3>1. "R" # Scan!Quote
      BY CharsApart, NameStart
    <3> QED BY <1>1, <2>1, <3>1 DEF Moves, AtTop, Turns
  <2> QED BY <1>1, <2>2 DEF InRaw
<1>2. CASE q = 1 /\ sc.pc = "R"
  <2>1. ch = Scan!Quote
    BY <1>2 DEF Scan!Delimited
  <2>2. r = Scan!None /\ d = 1 /\ tc.pc = "delim" /\ tc.prev = Scan!Quote /\ tc.delim = <<>>
    BY <1>2, <2>1 DEF Moves, Answering, NoResult, BehindR
  <2>3. DelimOf(s, 0, tc.delim)
    BY <2>2, EmptySeq DEF DelimOf
  <2>4. q + d = 2 /\ 2 \in 2 .. n + 2 /\ 2 - 2 = 0
    BY <1>2, <2>2
  <2> QED BY <2>2, <2>3, <2>4 DEF InRaw
<1>3. CASE q \in 2 .. n + 2 /\ sc.pc = "delim" /\ sc.prev = Scan!Quote /\ DelimOf(s, q - 2, sc.delim)
  <2>1. q + 1 \in 1 .. Len(s)
    OBVIOUS
  <2> QED BY <1>3, <2>1, DelimiterMoves
<1>4. CASE InBody(s, q, sc, n)
  BY <1>4, BodyMoves, ClosingReads DEF InBody
<1> QED BY <1>1, <1>2, <1>3, <1>4 DEF InRaw

(* What tokens there are. *)
LEMMA KindsOfTokens ==
  ASSUME ScanFacts, NEW t \in Tokens
  PROVE  /\ t.kind \in {"space", "ident", "punctuation", "phrase", "literal"}
         /\ t.kind = "space" => t = Scan!Blank /\ t.text = << Scan!White >>
         /\ t.kind = "ident" => Scan!IsIdent(t.text)
         /\ t.kind = "punctuation" => Scan!IsPunctuation(t.text)
         /\ t.kind = "phrase" => Scan!IsPhrase(t.text)
         /\ t.kind = "literal" => Scan!IsString(t.text) \/ Scan!IsRaw(t.text)
<1>1. t.kind \in Scan!Kinds /\ t.kind # "end"
  BY DEF ScanFacts, Scan!TokensAssumption, Scan!TextsAssumption
<1>2. Scan!Blank.text = << Scan!White >>
  BY DEF Scan!Blank
<1> QED BY <1>1, <1>2 DEF ScanFacts, Scan!TextsAssumption, Scan!Kinds

(* The characters of a name. *)
LEMMA IdentChars ==
  ASSUME ScanFacts, NEW t \in Tokens, t.kind = "ident", NEW k \in 1 .. Len(t.text)
  PROVE  Scan!char_is_ident(t.text[k]) /\ Scan!char_is_ident_start(t.text[1])
<1>1. k \in DOMAIN t.text
  BY TokenText
<1> QED BY <1>1, KindsOfTokens DEF Scan!IsIdent

(* A character within a token.                                             *)
LEMMA WithinMoves ==
  ASSUME ScanFacts, ScanTypes, NEW d \in {0, 1}, Taking(d), tok # Scan!End, Within
  PROVE  result' = Scan!None /\ Within'
<1> DEFINE s == tok.text
           q == Taken
           ch == Scan!Char
<1>1. /\ UNCHANGED <<tok, seen, verdict>> /\ q \in 0 .. Len(s) - 1 /\ ch = s[q + 1] /\ Taken' = q + d
  BY TakingIs
<1>2. Moves(scan, s[q + 1], scan', d, result')
  BY <1>1 DEF Taking
<1>3. tok \in Tokens
  BY DEF ScanTypes
<1>4. /\ s \in Seq({s[k] : k \in DOMAIN s}) /\ Len(s) \in Nat \ {0} /\ DOMAIN s = 1 .. Len(s)
      /\ \A k \in 1 .. Len(s) : s[k] # "EOF"
  BY <1>3, TokenText
<1>5. q \in Nat /\ q < Len(s) /\ q + 1 \in DOMAIN s /\ q + 1 \in 1 .. Len(s) /\ Len(s) \in Nat /\ s[q + 1] # "EOF"
  BY <1>1, <1>4
<1>6. CASE tok.kind = "space" /\ InSpace(q, scan, seen)
  <2>1. s = << Scan!White >>
    BY <1>3, <1>6, KindsOfTokens
  <2>2. q = 0 /\ s[q + 1] = Scan!White
    BY <1>5, <2>1
  <2>3. result' = Scan!None /\ InSpace(d, scan', seen)
    BY <1>2, <1>6, <2>2, SpaceMoves
  <2>4. Taken' = d
    BY <1>1, <2>2
  <2> QED BY <1>1, <1>6, <2>3, <2>4 DEF Within
<1>7. CASE tok.kind = "punctuation" /\ InPunctuation(s, q, scan, seen)
  <2>1. Scan!IsPunctuation(s)
    BY <1>3, <1>7, KindsOfTokens
  <2>2. result' = Scan!None /\ InPunctuation(s, q + d, scan', seen)
    <3> HIDE DEF s, q
    <3> QED BY <1>2, <1>5, <1>7, <2>1, PunctuationMoves
  <2> QED BY <1>1, <1>7, <2>2 DEF Within
<1>8. CASE tok.kind = "phrase" /\ Quiet /\ InPhrase(s, q, scan)
  <2>1. Scan!IsPhrase(s)
    BY <1>3, <1>8, KindsOfTokens
  <2>2. result' = Scan!None /\ InPhrase(s, q + d, scan')
    <3> HIDE DEF s, q
    <3> QED BY <1>2, <1>5, <1>8, <2>1, PhraseMoves
  <2> QED BY <1>1, <1>8, <2>2 DEF Within, Quiet
<1>9. ASSUME tok.kind = "literal", Quiet, NEW escaped \in SUBSET Scan!BehindBackslash(s),
             Scan!Escapes(s, escaped), InQuotes(s, q, scan, escaped)
      PROVE  result' = Scan!None /\ Within'
  <2>1. result' = Scan!None /\ InQuotes(s, q + d, scan', escaped)
    <3> HIDE DEF s, q
    <3> QED BY <1>2, <1>5, <1>9, QuotesMoves
  <2> QED BY <1>1, <1>9, <2>1 DEF Within, Quiet
<1>10. ASSUME tok.kind = "literal", Quiet, NEW n \in 0 .. MaxDelim - 1,
              Scan!Delimited(s, n), InRaw(s, q, scan, n)
       PROVE  result' = Scan!None /\ Within'
  <2>1. MaxDelim \in Nat
    BY DEF ScanFacts, Scan!TokensAssumption
  <2>2. n \in Nat /\ n < MaxDelim
    BY <2>1
  <2>3. \A k \in 1 .. Len(s) : s[k] \in Symbol(s)
    BY <1>4 DEF Symbol
  <2>4. result' = Scan!None /\ InRaw(s, q + d, scan', n)
    <3> HIDE DEF s, q
    <3> QED BY <1>2, <1>5, <1>10, <2>1, <2>2, <2>3, RawReads
  <2> QED BY <1>1, <1>10, <2>4 DEF Within, Quiet
<1>11. CASE tok.kind = "ident" /\ seen = Named(s) /\ InName(s, q, scan)
  <2>1. Scan!char_is_ident(s[q + 1]) /\ Scan!char_is_ident_start(s[1])
    BY <1>3, <1>5, <1>11, IdentChars
  <2>2. result' = Scan!None /\ InName(s, q + d, scan')
    <3> HIDE DEF s, q
    <3> QED BY <1>2, <1>4, <1>5, <1>11, <2>1, NameMoves
  <2> QED BY <1>1, <1>11, <2>2 DEF Within
<1>12. CASE s = Scan!doarr /\ tok.kind = "ident" /\ seen = Scan!Upto("doarr") /\ InDoarr(q, scan)
  <2>1. q < 5
    BY <1>5, <1>12, WordsAre
  <2>2. result' = Scan!None /\ InDoarr(q + d, scan')
    <3> HIDE DEF q
    <3> QED BY <1>2, <1>5, <1>12, <2>1, DoarrTried
  <2> QED BY <1>1, <1>12, <2>2 DEF Within
<1>13. CASE s = Scan!exported /\ tok.kind = "ident" /\ seen = Scan!Upto("exported") /\ InExported(q, scan)
  <2>1. q < 8
    BY <1>5, <1>13, WordsAre
  <2>2. result' = Scan!None /\ InExported(q + d, scan')
    <3> HIDE DEF q
    <3> QED BY <1>2, <1>5, <1>13, <2>1, ExportedTried
  <2> QED BY <1>1, <1>13, <2>2 DEF Within
<1>14. CASE tok.kind = "ident" /\ s # Scan!doarr /\ Quiet /\ InWord(s, q, scan)
  <2>1. Scan!IsIdent(s)
    BY <1>3, <1>14, KindsOfTokens
  <2>2. result' = Scan!None /\ InWord(s, q + d, scan')
    <3> HIDE DEF s, q
    <3> QED BY <1>2, <1>4, <1>5, <1>14, <2>1, WordMoves
  <2> QED BY <1>1, <1>14, <2>2 DEF Within, Quiet
<1> HIDE DEF s, q
<1> QED BY <1>6, <1>7, <1>8, <1>9, <1>10, <1>11, <1>12, <1>13, <1>14 DEF Within, s, q

(* The only kind of token that begins with a parenthesis.                  *)
LEMMA OnlyPunctuation ==
  ASSUME ScanFacts, NEW t \in Tokens, t.text[1] = "(", t.kind # "phrase"
  PROVE  t.kind = "punctuation"
<1>1. 1 \in 1 .. Len(t.text)
  <2>1. Len(t.text) \in Nat \ {0}
    BY TokenText
  <2> QED BY <2>1
<1>2. ~Scan!char_is_ident("(") /\ "(" # Scan!White /\ "(" # Scan!Quote
  BY CharsApart, MarksDiffer
<1>3. t.kind # "ident"
  BY <1>1, <1>2, IdentChars
<1>4. t.kind # "space"
  <2>1. t.kind = "space" => t.text[1] = Scan!White
    BY KindsOfTokens
  <2> QED BY <1>2, <2>1
<1>5. t.kind # "literal"
  BY <1>2, KindsOfTokens DEF Scan!IsString, Scan!Escapes, Scan!IsRaw, Scan!Delimited
<1> QED BY <1>3, <1>4, <1>5, KindsOfTokens

(* The character that decides.                                             *)
LEMMA DecidingMoves ==
  ASSUME ScanFacts, ScanTypes, result = Scan!None, NEW d \in {0, 1}, Taking(d), Decides
  PROVE  ScanTypes' /\ IF result' = Scan!None THEN Decides' ELSE Answered'
<1> DEFINE ch == tok.text[1]
<1>1. UNCHANGED <<tok, seen, verdict>> /\ DOMAIN scan' = DOMAIN scan
  BY DEF Taking, Scan!Get, Scan!text
<1>2. Scan!Char = ch /\ ScanTypes' /\ (tok # Scan!End => Taken' = d) /\ (tok = Scan!End => ch = "EOF")
  <2>1. CASE tok = Scan!End
    <3>1. pos' = pos /\ Scan!Char = ch /\ ch = "EOF"
      BY <2>1 DEF Decides, Taking, Scan!Get, Scan!Char, ScanTypes, Scan!End
    <3> QED BY <1>1, <2>1, <3>1 DEF ScanTypes
  <2>2. CASE tok # Scan!End
    <3>1. Taken = 0
      BY DEF Decides
    <3>2. ScanTypes' /\ Scan!Char = tok.text[Taken + 1] /\ Taken' = Taken + d
      BY <2>2, TakingIs
    <3> QED BY <2>2, <3>1, <3>2
  <2> QED BY <2>1, <2>2
<1>3. Moves(scan, ch, scan', d, result')
  BY <1>2 DEF Taking
<1>4. tok.kind # "phrase" /\ Deciding(ch, scan, verdict)
  BY DEF Decides
<1>5. ASSUME result' = Scan!Failed, verdict = Scan!Failed PROVE Answered' /\ result' # Scan!None
  BY <1>1, <1>5, ResultsDiffer DEF Answered
<1>6. CASE scan.pc = "first"
  <2>1. verdict = Scan!Failed /\ ch # Scan!White /\ ~Scan!char_is_ident_start(ch)
    BY <1>4, <1>6 DEF Deciding
  <2>2. result' = Scan!Failed
    BY <1>3, <1>6, <2>1 DEF Moves, AtFirst
  <2> QED BY <1>2, <1>5, <2>1, <2>2
<1>7. CASE scan.pc = "ident" /\ Scan!HasDoubleUnderscore(scan.ident)
  <2>1. verdict = Scan!Failed /\ ~Scan!char_is_ident(ch)
    BY <1>4, <1>7 DEF Deciding
  <2>2. result' = Scan!Failed
    BY <1>3, <1>7, <2>1 DEF Moves, InIdent
  <2> QED BY <1>2, <1>5, <2>1, <2>2
<1>8. CASE scan.pc = "ident" /\ ~Scan!HasDoubleUnderscore(scan.ident)
  <2>1. /\ ~Scan!char_is_ident(ch) /\ ch # Scan!White
        /\ verdict = (IF ch = "(" THEN Scan!Export(scan.ident) ELSE Scan!Failed)
    BY <1>4, <1>8 DEF Deciding
  <2>2. CASE ch = "EOF"
    <3>1. result' = Scan!Failed
      BY <1>3, <1>8, <2>1, <2>2 DEF Moves, InIdent
    <3>2. verdict = Scan!Failed
      BY <2>1, <2>2
    <3> QED BY <1>2, <1>5, <3>1, <3>2
  <2>3. CASE ch # "EOF"
    <3>1. d = 0 /\ result' = Scan!None /\ Turns(scan, scan', "paren")
      BY <1>3, <1>8, <2>1, <2>3 DEF Moves, InIdent
    <3>2. tok # Scan!End /\ Taken' = 0
      BY <1>2, <2>3, <3>1
    <3>3. Deciding(ch, scan', verdict)
      BY <1>8, <2>1, <3>1 DEF Deciding, Turns
    <3>4. Decides'
      BY <1>1, <1>4, <3>2, <3>3 DEF Decides
    <3> QED BY <1>2, <3>1, <3>4
  <2> QED BY <2>2, <2>3
<1>9. CASE scan.pc = "paren"
  <2>1. ch # Scan!White /\ verdict = (IF ch = "(" THEN Scan!Export(scan.ident) ELSE Scan!Failed)
    BY <1>4, <1>9 DEF Deciding
  <2>2. d = 1 /\ result' = (IF ch = "(" THEN Scan!Export(scan.ident) ELSE Scan!Failed)
    BY <1>3, <1>9, <2>1 DEF Moves, AtParen
  <2>3. CASE ch # "("
    BY <1>2, <1>5, <2>1, <2>2, <2>3
  <2>4. CASE ch = "("
    <3>1. tok # Scan!End /\ tok \in Tokens
      BY <1>2, <2>4 DEF ScanTypes
    <3>2. tok.kind = "punctuation"
      BY <1>4, <2>4, <3>1, OnlyPunctuation
    <3>3. back' = Scan!NoChar /\ Taken' = 1
      BY <1>2, <2>2, <3>1 DEF Taking
    <3>4. pos' = 1
      BY <3>3 DEF Taken
    <3>5. result' # Scan!None /\ result' = verdict
      BY <2>1, <2>2, <2>4, ResultsDiffer
    <3> QED BY <1>1, <1>2, <3>1, <3>2, <3>3, <3>4, <3>5 DEF Answered
  <2> QED BY <2>3, <2>4
<1> QED BY <1>4, <1>6, <1>7, <1>8, <1>9 DEF Deciding

(* The end of the file is no character of the two words. *)
LEMMA NotFF ==
  /\ \A k \in 1 .. 4 : Tail(Scan!doarr)[k] # "xFF"
  /\ \A k \in 1 .. 7 : Tail(Scan!exported)[k] # "xFF"
<1>1. /\ Scan!doarr \in Seq({"d", "o", "a", "r"}) /\ Len(Scan!doarr) = 4 + 1
      /\ Scan!exported \in Seq({"e", "x", "p", "o", "r", "t", "d"}) /\ Len(Scan!exported) = 7 + 1
  BY DEF Scan!doarr, Scan!exported
<1>0. Scan!doarr # <<>> /\ Scan!exported # <<>>
  BY DEF Scan!doarr, Scan!exported
<1>2. Tail(Scan!doarr) \in Seq({"d", "o", "a", "r"}) /\ Len(Tail(Scan!doarr)) = 4
  BY <1>0, <1>1, HeadTailProperties
<1>3. Tail(Scan!exported) \in Seq({"e", "x", "p", "o", "r", "t", "d"}) /\ Len(Tail(Scan!exported)) = 7
  BY <1>0, <1>1, HeadTailProperties
<1>4. \A k \in 1 .. 4 : Tail(Scan!doarr)[k] \in {"d", "o", "a", "r"}
  BY <1>2, ElementOfSeq
<1>5. \A k \in 1 .. 7 : Tail(Scan!exported)[k] \in {"e", "x", "p", "o", "r", "t", "d"}
  BY <1>3, ElementOfSeq
<1> QED BY <1>4, <1>5

(* The end of the file, which can be read again and again.                 *)
LEMMA EndMoves ==
  ASSUME ScanTypes, result = Scan!None, NEW d \in {0, 1}, Taking(d), AtEnd
  PROVE  ScanTypes' /\ IF result' = Scan!None THEN AtEnd' ELSE Answered'
<1> DEFINE ch == Scan!Char
<1>1. tok = Scan!End /\ verdict = Scan!Clean /\ UNCHANGED <<tok, seen, verdict>> /\ DOMAIN scan' = DOMAIN scan
  BY DEF AtEnd, Taking, Scan!Get, Scan!text
<1>2. pos = 0 /\ pos' = 0
  BY <1>1 DEF ScanTypes, Taking, Scan!Get
<1>3. ScanTypes'
  BY <1>1, <1>2 DEF ScanTypes
<1>4. ch = (IF back # Scan!NoChar THEN back ELSE "EOF")
  BY <1>1, <1>2 DEF Scan!Char, Scan!End
<1>5. Moves(scan, ch, scan', d, result')
  BY DEF Taking
<1>6. CASE scan.pc = "top"
  <2>1. ch = "EOF" \/ ch = "xFF"
    BY <1>4, <1>6 DEF AtEnd
  <2>2. CASE ch = "EOF"
    <3>1. result' = Scan!Clean
      BY <1>5, <1>6, <2>2, MarksDiffer DEF Moves, AtTop
    <3> QED BY <1>1, <1>3, <3>1, ResultsDiffer DEF Answered
  <2>3. CASE ch = "xFF"
    <3>1. ch # Scan!Quote
      BY <2>3, CharsApart, NameStart
    <3>2. result' = Scan!None /\ d = 1 /\ scan'.pc = "top"
      BY <1>5, <1>6, <2>3, <3>1, TopTakes
    <3>3. back' = Scan!NoChar
      BY <3>2 DEF Taking
    <3> QED BY <1>1, <1>3, <3>2, <3>3 DEF AtEnd
  <2> QED BY <2>1, <2>2, <2>3, SMTT(30)
<1>7. ASSUME result' = Scan!None, Turns(scan, scan', "top")
      PROVE  ScanTypes' /\ IF result' = Scan!None THEN AtEnd' ELSE Answered'
  <2>1. CASE d = 1
    <3>1. back' = Scan!NoChar
      BY <2>1 DEF Taking
    <3> QED BY <1>1, <1>3, <1>7, <3>1 DEF AtEnd, Turns
  <2>2. CASE d = 0
    <3>1. ch \in {"EOF", "xFF"}
      BY <1>4 DEF AtEnd
    <3>2. back' \in {"EOF", "xFF"}
      BY <2>2, <3>1 DEF Taking, Scan!uchar
    <3> QED BY <1>1, <1>3, <1>7, <3>2 DEF AtEnd, Turns
  <2> QED BY <2>1, <2>2
<1>8. CASE scan.pc # "top"
  <2>1. ch = "EOF" /\ Scan!uchar(ch) = "xFF"
    BY <1>4, <1>8 DEF AtEnd, Scan!uchar
  <2>2. CASE scan.pc = "doarr" /\ scan.at \in 1 .. 4
    <3>1. result' = Scan!None /\ Tries(scan, ch, scan', d, Tail(Scan!doarr), "colon", "top")
      BY <1>5, <2>2 DEF Moves, Answering, NoResult
    <3>2. Turns(scan, scan', "top")
      BY <2>1, <2>2, <3>1, NotFF DEF Tries
    <3> QED BY <1>7, <3>1, <3>2
  <2>3. CASE scan.pc = "exported" /\ scan.at \in 1 .. 7
    <3>1. result' = Scan!None /\ Tries(scan, ch, scan', d, Tail(Scan!exported), "first", "top")
      BY <1>5, <2>3 DEF Moves, Answering, NoResult
    <3>2. Turns(scan, scan', "top")
      BY <2>1, <2>3, <3>1, NotFF DEF Tries
    <3> QED BY <1>7, <3>1, <3>2
  <2>4. CASE scan.pc \in {"colon", "e"}
    <3>1. ch # Scan!White /\ ch # ":" /\ ch # Head(Scan!exported)
      BY <2>1, MarksDiffer, WordsAre
    <3>2. result' = Scan!None /\ Turns(scan, scan', "top")
      BY <1>5, <2>4, <3>1 DEF Moves, Answering, NoResult, Expects
    <3> QED BY <1>7, <3>2
  <2> QED BY <1>8, <2>2, <2>3, <2>4 DEF AtEnd
<1> QED BY <1>6, <1>8

(* Behind the last character of doarr, and of exported. *)
LEMMA WordsBehind ==
  ASSUME NEW sc
  PROVE  (InDoarr(5, sc) => sc.pc = "colon" /\ Loose(sc)) /\ (InExported(8, sc) => sc.pc = "first")
BY SMT DEF InDoarr, InExported

(* Between two tokens, of which the first is no name unless the scanner is *)
(* in the middle of a word or name.                                        *)
LEMMA BetweenTokens ==
  ASSUME ScanFacts, ScanTypes, tok # Scan!End, Within, Taken = Len(tok.text)
  PROVE  Settled(scan, seen) \/ (tok.kind = "ident" /\ Ragged(scan, seen))
<1> DEFINE s == tok.text
           q == Taken
<1>1. tok \in Tokens
  BY DEF ScanTypes
<1>2. /\ s \in Seq({s[k] : k \in DOMAIN s}) /\ Len(s) \in Nat \ {0} /\ q = Len(s) /\ q > 0
  BY <1>1, TokenText
<1>3. CASE tok.kind = "space" /\ InSpace(q, scan, seen)
  BY <1>2, <1>3 DEF InSpace
<1>4. CASE tok.kind = "punctuation" /\ InPunctuation(s, q, scan, seen)
  <2>1. CASE s # Colons \/ seen # Scan!Upto("colons")
    BY <1>2, <1>4, <2>1 DEF InPunctuation
  <2>2. CASE s = Colons /\ seen = Scan!Upto("colons")
    <3>1. q = 2
      BY <1>2, <2>2 DEF Colons
    <3>2. seen # Scan!Nothing
      BY <2>2, UptosDiffer
    <3>3. scan.pc = "e" /\ Loose(scan)
      BY <1>4, <3>1, <3>2 DEF InPunctuation
    <3> QED BY <2>2, <3>3 DEF Settled
  <2> QED BY <2>1, <2>2
<1>5. CASE tok.kind = "phrase" /\ Quiet /\ InPhrase(s, q, scan)
  <2>1. s[Len(s)] = Scan!White /\ Scan!White # "R"
    BY <1>1, <1>5, KindsOfTokens, CharsApart, NameStart DEF Scan!IsPhrase
  <2>2. scan.pc = "top" /\ Loose(scan)
    BY <1>2, <1>5, <2>1 DEF InPhrase
  <2> QED BY <1>5, <2>2 DEF Settled, Quiet
<1>6. CASE Quiet /\ scan.pc = "top" /\ scan.prev = Scan!Quote
  <2>1. Loose(scan)
    BY <1>6, CharsApart DEF Loose
  <2> QED BY <1>6, <2>1 DEF Settled, Quiet
<1>7. ASSUME Quiet, NEW escaped, InQuotes(s, q, scan, escaped)
      PROVE  scan.pc = "top" /\ scan.prev = Scan!Quote
  <2>1. q \notin 1 .. Len(s) - 1 /\ q # 0
    BY <1>2
  <2> QED BY <1>7, <2>1 DEF InQuotes
<1>8. ASSUME Quiet, NEW n \in 0 .. MaxDelim - 1, Scan!Delimited(s, n), InRaw(s, q, scan, n)
      PROVE  scan.pc = "top" /\ scan.prev = Scan!Quote
  <2>1. MaxDelim \in Nat
    BY DEF ScanFacts, Scan!TokensAssumption
  <2>2. n \in Nat
    BY <2>1
  <2>3. Len(s) >= 2 * n + 5
    BY <1>8 DEF Scan!Delimited
  <2> DEFINE l == Len(s)
  <2>4. q = l /\ l \in Nat /\ l >= 2 * n + 5
    BY <1>2, <2>3
  <2>7. l # 0 /\ l # 1 /\ l \notin 2 .. n + 2 /\ ~(l < l - n - 1) /\ l >= n + 5
    <3> HIDE DEF l
    <3> QED BY <2>2, <2>4
  <2>5. ~InClosing(s, q, scan, n)
    <3>1. ASSUME scan.at \in 1 .. n + 1 PROVE q - scan.at + 1 # Len(s) - n - 1
      <4> HIDE DEF l, q
      <4> QED BY <2>2, <2>4, <3>1 DEF l
    <3>2. ~(q < Len(s) - n - 1)
      <4> HIDE DEF q
      <4> QED BY <2>4, <2>7 DEF l
    <3> QED BY <3>1, <3>2 DEF InClosing
  <2>8. q # 0 /\ q # 1 /\ q \notin 2 .. n + 2 /\ ~(q < Len(s) - n - 1)
    <3> HIDE DEF q
    <3> QED BY <2>4, <2>7 DEF l
  <2>6. ~InBody(s, q, scan, n)
    BY <2>8, <2>5 DEF InBody
  <2> QED BY <1>8, <2>8, <2>6 DEF InRaw
<1>9. CASE tok.kind = "ident" /\ seen = Named(s) /\ InName(s, q, scan)
  <2>1. scan.pc = "ident" /\ scan.ident = SubSeq(s, 1, Len(s))
    BY <1>2, <1>9 DEF InName
  <2>2. SubSeq(s, 1, Len(s)) = s
    BY <1>2, SubSeqFull
  <2> QED BY <1>9, <2>1, <2>2 DEF Ragged
<1>10. CASE s = Scan!doarr /\ tok.kind = "ident" /\ seen = Scan!Upto("doarr") /\ InDoarr(q, scan)
  <2>1. q = 5
    BY <1>2, <1>10, WordsAre
  <2>2. scan.pc = "colon" /\ Loose(scan)
    BY <1>10, <2>1, WordsBehind
  <2> QED BY <1>10, <2>2 DEF Settled
<1>11. CASE s = Scan!exported /\ tok.kind = "ident" /\ seen = Scan!Upto("exported") /\ InExported(q, scan)
  <2>1. q = 8
    BY <1>2, <1>11, WordsAre
  <2>2. scan.pc = "first"
    BY <1>11, <2>1, WordsBehind
  <2> QED BY <1>11, <2>2 DEF Settled
<1>12. CASE tok.kind = "ident" /\ s # Scan!doarr /\ Quiet /\ InWord(s, q, scan)
  <2>1. s[q] # "R"
    BY <1>1, <1>2, <1>12, KindsOfTokens DEF Scan!IsIdent
  <2>2. \/ scan.pc = "top"
        \/ Loose(scan) /\ scan.pc = "doarr" /\ scan.at \in 1 .. 4
        \/ Loose(scan) /\ scan.pc = "exported" /\ scan.at \in 1 .. 7
    BY <1>2, <1>12, <2>1 DEF InWord
  <2> QED BY <1>12, <2>2 DEF Ragged, Quiet
<1> HIDE DEF s, q
<1> QED BY <1>3, <1>4, <1>5, <1>6, <1>7, <1>8, <1>9, <1>10, <1>11, <1>12 DEF Within, s, q

(* Where the scanner is when the next token comes, which begins no name after a name. *)
LEMMA NextBegins ==
  ASSUME ScanFacts, ScanTypes, tok # Scan!End, Within, Taken = Len(tok.text),
         NEW t \in Tokens \union {Scan!End}, Scan!NextToken(t)
  PROVE  Begun(scan, seen, t.text[1])
<1>1. tok \in Tokens
  BY DEF ScanTypes
<1>2. Settled(scan, seen) \/ (tok.kind = "ident" /\ Ragged(scan, seen))
  BY BetweenTokens
<1>3. ASSUME tok.kind = "ident" PROVE ~Scan!char_is_ident(t.text[1])
  <2>1. <<tok, t>> \in Adjacent \/ tok = Scan!Blank \/ t = Scan!Blank \/ t = Scan!End
    BY DEF Scan!NextToken
  <2>2. tok # Scan!Blank
    BY <1>3 DEF Scan!Blank
  <2>3. CASE t = Scan!Blank
    BY <2>3, CharsApart DEF Scan!Blank
  <2>4. CASE t = Scan!End
    BY <2>4, CharsApart DEF Scan!End
  <2>5. CASE t # Scan!End /\ <<tok, t>> \in Adjacent
    BY <1>1, <1>3, <2>5 DEF ScanFacts, Scan!TextsAssumption
  <2> QED BY <2>1, <2>2, <2>3, <2>4, <2>5
<1> QED BY <1>2, <1>3 DEF Begun

(* What the next token is, apart from its place. *)
LEMMA NextIs ==
  ASSUME ScanFacts, ScanTypes, NEW t \in Tokens \union {Scan!End}, Scan!NextToken(t)
  PROVE  /\ tok' = t /\ scan' = scan /\ Taken' = 0 /\ back' = Scan!NoChar /\ result' = Scan!None
         /\ Taken = Len(tok.text) /\ tok # Scan!End
         /\ seen' = Scan!Following(t) /\ verdict' = Scan!Verdict(t) /\ Scan!Grammatical(t)
         /\ ScanTypes'
<1>1. /\ tok' = t /\ scan' = scan /\ pos' = 0 /\ back = Scan!NoChar /\ back' = Scan!NoChar
      /\ result' = Scan!None /\ pos = Len(tok.text) /\ tok # Scan!End
      /\ seen' = Scan!Following(t) /\ verdict' = Scan!Verdict(t) /\ Scan!Grammatical(t)
  BY DEF Scan!NextToken
<1>2. Taken' = 0 /\ Taken = Len(tok.text)
  BY <1>1 DEF Taken
<1>3. t # Scan!End => 0 \in 0 .. Len(t.text)
  BY TokenText
<1>4. ScanTypes'
  BY <1>1, <1>3 DEF ScanTypes
<1> QED BY <1>1, <1>2, <1>4

(* The kinds of token, and how each begins. *)
LEMMA HowTokensBegin ==
  ASSUME ScanFacts, NEW t \in Tokens
  PROVE  /\ t # Scan!End
         /\ t.kind = "space" => t.text[1] = Scan!White
         /\ t.kind \in {"ident", "punctuation", "literal"} => t.text[1] # Scan!White
         /\ t.kind = "ident" => Scan!char_is_ident_start(t.text[1])
         /\ t.kind = "punctuation" => ~Scan!char_is_ident(t.text[1])
         /\ t.kind \in {"punctuation", "phrase", "literal"} => t.text # Scan!doarr
         /\ t.kind \in {"punctuation", "literal"} => t.text # Scan!exported
<1>1. t # Scan!End
  BY EndApart
<1>2. 1 \in 1 .. Len(t.text) /\ t.text[1] # "EOF" /\ 1 \in DOMAIN t.text
  <2> DEFINE n == Len(t.text)
  <2>1. n \in Nat \ {0} /\ DOMAIN t.text = 1 .. n /\ \A k \in 1 .. n : t.text[k] # "EOF"
    BY TokenText
  <2>2. 1 \in 1 .. n
    <3>1. n \in Nat \ {0}
      BY <2>1
    <3> HIDE DEF n
    <3> QED BY <3>1
  <2>3. 1 \in DOMAIN t.text /\ t.text[1] # "EOF"
    <3> HIDE DEF n
    <3> QED BY <2>1, <2>2, Zenon
  <2> QED BY <2>2, <2>3
<1>3. t.kind = "space" => t.text[1] = Scan!White
  BY KindsOfTokens
<1>4. t.kind = "ident" => Scan!char_is_ident_start(t.text[1]) /\ t.text[1] # Scan!White
  BY <1>2, IdentChars, NameStart, CharsApart
<1>5. t.kind = "punctuation" => ~Scan!char_is_ident(t.text[1]) /\ t.text[1] # Scan!White
  BY <1>2, KindsOfTokens, PunctuationChars
<1>6. t.kind = "literal" => t.text[1] = Scan!Quote \/ t.text[1] = "R"
  BY KindsOfTokens DEF Scan!IsString, Scan!IsRaw, Scan!Escapes, Scan!Delimited
<1>7. t.kind = "phrase" => t.text[1] # "d"
  BY <1>2, KindsOfTokens DEF Scan!IsPhrase
<1>8. Scan!doarr[1] = "d" /\ Scan!exported[1] = "e"
  BY WordsAre
<1>9. Scan!char_is_ident("d") /\ Scan!char_is_ident("e") /\ Scan!char_is_ident("R")
  BY CharsApart, NameStart
<1>10. ~Scan!char_is_ident(Scan!White) /\ ~Scan!char_is_ident(Scan!Quote) /\ Scan!White # Scan!Quote
  BY CharsApart, MarksDiffer
<1>11. t.kind = "literal" => t.text[1] # Scan!White
  BY <1>6, <1>9, <1>10
<1>12. t.kind = "literal" => t.text[1] # "d" /\ t.text[1] # "e"
  BY <1>6, <1>9, <1>10
<1>13. t.kind = "punctuation" => t.text[1] # "d" /\ t.text[1] # "e"
  BY <1>5, <1>9
<1> QED BY <1>1, <1>3, <1>4, <1>5, <1>7, <1>8, <1>11, <1>12, <1>13

(* The end of the text begins no token. *)
LEMMA HowTextsEnd ==
  /\ Scan!End.text = << "EOF" >> /\ Scan!End.kind = "end" /\ Scan!End.text[1] = "EOF"
  /\ ~Scan!char_is_ident("EOF") /\ "EOF" # Scan!White
  /\ Scan!End.text # Scan!doarr /\ Scan!End.text # Scan!exported /\ Scan!End.text # Colons
<1>1. Scan!End.text = << "EOF" >> /\ Scan!End.kind = "end"
  BY DEF Scan!End
<1>2. Scan!End.text[1] = "EOF"
  BY <1>1
<1>3. "EOF" # Scan!White /\ ~Scan!char_is_ident("EOF")
  BY CharsApart, MarksDiffer
<1>4. Scan!doarr[1] = "d" /\ Scan!exported[1] = "e" /\ Colons[1] = ":"
  BY WordsAre DEF Colons
<1> QED BY <1>1, <1>2, <1>3, <1>4

(* doarr ends in doarr. *)
LEMMA DoarrEnds == EndsInDoarr(Scan!doarr)
<1>1. Scan!doarr \in Seq({Scan!doarr[k] : k \in DOMAIN Scan!doarr})
  BY DEF Scan!doarr
<1>2. LastAre(Scan!doarr, Len(Scan!doarr), Scan!doarr, 5)
  BY WordsAre DEF LastAre
<1> QED BY <1>1, <1>2, TextAffixes

(* A token behind which nothing of an export has been seen. *)
LEMMA NextBehindNothing ==
  ASSUME ScanFacts, ScanTypes, NEW t \in Tokens \union {Scan!End}, Scan!NextToken(t),
         seen = Scan!Nothing, Begun(scan, seen, t.text[1])
  PROVE  (t # Scan!End /\ verdict' = Scan!None /\ Within') \/ AtEnd'
<1> DEFINE ch == t.text[1]
<1>1. seen.upto = "nothing"
  BY UptosDiffer
<1>2. /\ tok' = t /\ scan' = scan /\ Taken' = 0 /\ back' = Scan!NoChar
      /\ seen' = Scan!Following(t) /\ verdict' = Scan!Verdict(t)
  BY NextIs
<1>3. verdict' = IF t = Scan!End THEN Scan!Clean ELSE Scan!None
  BY <1>1, <1>2 DEF Scan!Verdict
<1>4. t.kind = "space" \/ t.text # Scan!doarr => seen' = Scan!Nothing
  BY <1>1, <1>2 DEF Scan!Following
<1>5. t.kind # "space" /\ t.text = Scan!doarr => seen' = Scan!Upto("doarr")
  BY <1>1, <1>2 DEF Scan!Following
<1>6. \/ scan.pc = "top" /\ Loose(scan)
      \/ /\ ~Scan!char_is_ident(ch)
         /\ \/ scan.pc = "top"
            \/ scan.pc = "doarr" /\ scan.at \in 1 .. 4
            \/ scan.pc = "exported" /\ scan.at \in 1 .. 7
  BY UptosDiffer DEF Begun, Settled, Ragged
<1>7. Settled(scan, Scan!Nothing) \/ Ragged(scan, Scan!Nothing)
  BY DEF Begun
<1>8. CASE t = Scan!End
  BY <1>2, <1>3, <1>6, <1>8 DEF AtEnd
<1>9. CASE t # Scan!End
  <2>1. t \in Tokens
    BY <1>9
  <2>2. t.kind \in {"space", "ident", "punctuation", "phrase", "literal"}
    BY <2>1, KindsOfTokens
  <2>3. CASE t.kind = "space"
    <3>1. scan.pc # "ident"
      BY <1>6
    <3>2. InSpace(0, scan, Scan!Nothing)
      BY <1>7, <3>1 DEF InSpace
    <3> QED BY <1>2, <1>4, <2>3, <3>2, <1>3, <1>9 DEF Within
  <2>4. CASE t.kind = "punctuation"
    <3>1. InPunctuation(t.text, 0, scan, Scan!Nothing)
      BY <1>7 DEF InPunctuation
    <3>2. seen' = Scan!Nothing
      BY <1>4, <2>1, <2>4, HowTokensBegin
    <3> QED BY <1>2, <2>4, <3>1, <3>2, <1>3, <1>9 DEF Within
  <2>5. CASE t.kind = "phrase"
    <3>1. InPhrase(t.text, 0, scan)
      BY DEF InPhrase
    <3>2. Quiet'
      BY <1>4, <2>1, <2>5, HowTokensBegin DEF Quiet
    <3> QED BY <1>2, <2>5, <3>1, <3>2, <1>3, <1>9 DEF Within
  <2>6. CASE t.kind = "literal"
    <3>1. Quiet'
      BY <1>4, <2>1, <2>6, HowTokensBegin DEF Quiet
    <3>2. CASE Scan!IsString(t.text)
      <4>1. PICK escaped \in SUBSET Scan!BehindBackslash(t.text) : Scan!Escapes(t.text, escaped)
        BY <3>2 DEF Scan!IsString
      <4>2. InQuotes(t.text, 0, scan, escaped)
        BY DEF InQuotes
      <4>3. \E es \in SUBSET Scan!BehindBackslash(t.text) :
              Scan!Escapes(t.text, es) /\ InQuotes(t.text, 0, scan, es)
        BY <4>1, <4>2
      <4> QED BY <1>2, <2>6, <3>1, <4>3, <1>3, <1>9 DEF Within
    <3>3. CASE Scan!IsRaw(t.text)
      <4>1. PICK n \in 0 .. MaxDelim - 1 : Scan!Delimited(t.text, n)
        BY <3>3 DEF Scan!IsRaw
      <4>2. Scan!char_is_ident(ch)
        BY <4>1, CharsApart, NameStart DEF Scan!Delimited
      <4>3. InRaw(t.text, 0, scan, n)
        BY <1>6, <4>2 DEF InRaw
      <4>4. \E m \in 0 .. MaxDelim - 1 : Scan!Delimited(t.text, m) /\ InRaw(t.text, 0, scan, m)
        BY <4>1, <4>3
      <4> QED BY <1>2, <2>6, <3>1, <4>4, <1>3, <1>9 DEF Within
    <3> QED BY <2>1, <2>6, <3>2, <3>3, KindsOfTokens
  <2>7. CASE t.kind = "ident"
    <3>1. scan.pc = "top" /\ Loose(scan)
      BY <1>6, <2>1, <2>7, HowTokensBegin, NameStart
    <3>2. CASE t.text = Scan!doarr
      <4>1. InDoarr(0, scan)
        BY <3>1 DEF InDoarr
      <4> QED BY <1>2, <1>5, <2>7, <3>2, <4>1, <1>3, <1>9 DEF Within
    <3>3. CASE t.text # Scan!doarr
      <4>1. InWord(t.text, 0, scan)
        BY <3>1 DEF InWord
      <4>2. Quiet'
        BY <1>4, <3>3 DEF Quiet
      <4> QED BY <1>2, <2>7, <3>3, <4>1, <4>2, <1>3, <1>9 DEF Within
    <3> QED BY <3>2, <3>3
  <2> QED BY <2>2, <2>3, <2>4, <2>5, <2>6, <2>7
<1> QED BY <1>8, <1>9

(* One behind doarr. *)
LEMMA NextBehindDoarr ==
  ASSUME ScanFacts, ScanTypes, NEW t \in Tokens \union {Scan!End}, Scan!NextToken(t),
         seen = Scan!Upto("doarr"), scan.pc = "colon", Loose(scan)
  PROVE  (t # Scan!End /\ verdict' = Scan!None /\ Within') \/ AtEnd'
<1>1. seen.upto = "doarr"
  BY UptosDiffer
<1>2. /\ tok' = t /\ scan' = scan /\ Taken' = 0 /\ back' = Scan!NoChar
      /\ seen' = Scan!Following(t) /\ verdict' = Scan!Verdict(t) /\ Scan!Grammatical(t)
  BY NextIs
<1>3. verdict' = IF t = Scan!End THEN Scan!Clean ELSE Scan!None
  BY <1>1, <1>2 DEF Scan!Verdict
<1>4. CASE t = Scan!End
  BY <1>2, <1>3, <1>4 DEF AtEnd
<1>5. CASE t # Scan!End /\ t.kind = "space"
  <2>1. seen' = seen
    BY <1>2, <1>5 DEF Scan!Following
  <2>2. InSpace(0, scan, seen)
    BY DEF InSpace, Settled
  <2> QED BY <1>2, <1>3, <1>5, <2>1, <2>2 DEF Within
<1>6. CASE t # Scan!End /\ t.kind = "punctuation"
  <2>1. t.text # Scan!doarr
    BY <1>6, HowTokensBegin
  <2>2. CASE t.text = Colons
    <3>1. seen' = Scan!Upto("colons")
      BY <1>1, <1>2, <1>6, <2>1, <2>2 DEF Scan!Following, Colons
    <3>2. InPunctuation(t.text, 0, scan, Scan!Upto("colons"))
      BY <2>2 DEF InPunctuation
    <3> QED BY <1>2, <1>3, <1>6, <3>1, <3>2 DEF Within
  <2>3. CASE t.text # Colons
    <3>1. seen' = Scan!Nothing
      BY <1>1, <1>2, <1>6, <2>1, <2>3 DEF Scan!Following, Colons
    <3>2. InPunctuation(t.text, 0, scan, Scan!Nothing)
      BY <2>3 DEF InPunctuation
    <3> QED BY <1>2, <1>3, <1>6, <3>1, <3>2 DEF Within
  <2> QED BY <2>2, <2>3
<1>7. t # Scan!End => t.kind \in {"space", "punctuation"}
  BY <1>1, <1>2, KindsOfTokens DEF Scan!Grammatical
<1> QED BY <1>4, <1>5, <1>6, <1>7

(* One behind doarr ::, which is no name that ends in doarr. *)
LEMMA NextBehindColons ==
  ASSUME ScanFacts, ScanTypes, NEW t \in Tokens \union {Scan!End}, Scan!NextToken(t),
         seen = Scan!Upto("colons"), scan.pc = "e", Loose(scan)
  PROVE  (t # Scan!End /\ verdict' = Scan!None /\ Within') \/ AtEnd'
<1>1. seen.upto = "colons"
  BY UptosDiffer
<1>2. /\ tok' = t /\ scan' = scan /\ Taken' = 0 /\ back' = Scan!NoChar
      /\ seen' = Scan!Following(t) /\ verdict' = Scan!Verdict(t) /\ Scan!Grammatical(t)
  BY NextIs
<1>3. verdict' = IF t = Scan!End THEN Scan!Clean ELSE Scan!None
  BY <1>1, <1>2 DEF Scan!Verdict
<1>4. CASE t = Scan!End
  BY <1>2, <1>3, <1>4 DEF AtEnd
<1>5. CASE t # Scan!End /\ t.kind = "space"
  <2>1. seen' = seen
    BY <1>2, <1>5 DEF Scan!Following
  <2>2. InSpace(0, scan, seen)
    BY DEF InSpace, Settled
  <2> QED BY <1>2, <1>3, <1>5, <2>1, <2>2 DEF Within
<1>6. CASE t # Scan!End /\ t.kind = "ident"
  <2>1. ~EndsInDoarr(t.text)
    BY <1>1, <1>2 DEF Scan!Grammatical, EndsInDoarr
  <2>2. EndsInDoarr(Scan!doarr)
    BY DoarrEnds
  <2>3. t.text # Scan!doarr
    BY <2>1, <2>2
  <2>4. CASE t.text = Scan!exported
    <3>1. seen' = Scan!Upto("exported")
      BY <1>1, <1>2, <1>6, <2>3, <2>4 DEF Scan!Following
    <3>2. InExported(0, scan)
      BY DEF InExported
    <3> QED BY <1>2, <1>3, <1>6, <2>4, <3>1, <3>2 DEF Within
  <2>5. CASE t.text # Scan!exported
    <3>1. Quiet'
      BY <1>1, <1>2, <1>6, <2>3, <2>5 DEF Scan!Following, Quiet
    <3>2. InWord(t.text, 0, scan)
      BY <2>1, <2>5 DEF InWord
    <3> QED BY <1>2, <1>3, <1>6, <2>3, <3>1, <3>2 DEF Within
  <2> QED BY <2>4, <2>5
<1>7. t # Scan!End => t.kind \in {"space", "ident"}
  BY <1>1, <1>2, KindsOfTokens DEF Scan!Grammatical
<1> QED BY <1>4, <1>5, <1>6, <1>7

(* One behind doarr :: exported: its name, or a mistake. *)
LEMMA NextBehindExported ==
  ASSUME ScanFacts, ScanTypes, NEW t \in Tokens \union {Scan!End}, Scan!NextToken(t),
         seen = Scan!Upto("exported"), scan.pc = "first"
  PROVE  (t # Scan!End /\ verdict' = Scan!None /\ Within') \/ Decides'
<1>1. seen.upto = "exported"
  BY UptosDiffer
<1>2. /\ tok' = t /\ scan' = scan /\ Taken' = 0 /\ back' = Scan!NoChar
      /\ seen' = Scan!Following(t) /\ verdict' = Scan!Verdict(t) /\ Scan!Grammatical(t)
  BY NextIs
<1>3. t = Scan!End \/ t.kind \in {"space", "ident", "punctuation"}
  BY <1>1, <1>2, KindsOfTokens DEF Scan!Grammatical
<1>4. t.kind = "space" \/ t.kind = "ident" => verdict' = Scan!None
  BY <1>1, <1>2, HowTextsEnd DEF Scan!Verdict
<1>5. CASE t.kind = "space"
  <2>1. seen' = seen
    BY <1>2, <1>5 DEF Scan!Following
  <2>2. InSpace(0, scan, seen)
    BY DEF InSpace, Settled
  <2>3. t # Scan!End
    BY <1>5, HowTextsEnd
  <2> QED BY <1>2, <1>4, <1>5, <2>1, <2>2, <2>3 DEF Within
<1>6. CASE t.kind = "ident"
  <2>1. seen' = Named(t.text)
    BY <1>1, <1>2, <1>6 DEF Scan!Following, Named
  <2>2. InName(t.text, 0, scan)
    BY DEF InName
  <2>3. t # Scan!End
    BY <1>6, HowTextsEnd
  <2> QED BY <1>2, <1>4, <1>6, <2>1, <2>2, <2>3 DEF Within
<1>7. CASE t = Scan!End \/ t.kind = "punctuation"
  <2>1. t.kind \notin {"space", "ident", "phrase"}
    BY <1>7, HowTextsEnd
  <2>2. verdict' = Scan!Failed
    BY <1>1, <1>2, <2>1 DEF Scan!Verdict
  <2>3. t.text[1] # Scan!White /\ ~Scan!char_is_ident_start(t.text[1])
    BY <1>7, HowTextsEnd, HowTokensBegin, NameStart
  <2>4. Deciding(t.text[1], scan, Scan!Failed)
    BY <2>3 DEF Deciding
  <2> QED BY <1>2, <2>1, <2>2, <2>4 DEF Decides
<1> QED BY <1>3, <1>5, <1>6, <1>7

(* A token that begins with a parenthesis is one. *)
LEMMA ParenIs ==
  ASSUME ScanFacts, NEW t \in Tokens, t.kind # "phrase", t.text[1] = "("
  PROVE  t.text = << "(" >>
<1>1. t.kind = "punctuation"
  BY OnlyPunctuation
<1>2. Len(t.text) = 1
  <2>1. t.text # << ":", ":" >>
    OBVIOUS
  <2> QED BY <1>1, <2>1, KindsOfTokens DEF Scan!IsPunctuation
<1>3. t.text \in Seq({t.text[k] : k \in DOMAIN t.text})
  BY TokenText
<1> QED BY <1>2, <1>3

(* One behind the name of an export. *)
LEMMA NextBehindNamed ==
  ASSUME ScanFacts, ScanTypes, NEW t \in Tokens \union {Scan!End}, Scan!NextToken(t),
         seen = Named(scan.ident),
         \/ scan.pc = "paren" /\ ~Scan!HasDoubleUnderscore(scan.ident)
         \/ scan.pc = "ident" /\ ~Scan!char_is_ident(t.text[1])
  PROVE  (t # Scan!End /\ verdict' = Scan!None /\ Within') \/ Decides'
<1> DEFINE ch == t.text[1]
           doubled == Scan!HasDoubleUnderscore(scan.ident)
<1>1. seen.upto = "named" /\ seen.name = scan.ident
  BY UptosDiffer
<1>2. /\ tok' = t /\ scan' = scan /\ Taken' = 0 /\ back' = Scan!NoChar
      /\ seen' = Scan!Following(t) /\ verdict' = Scan!Verdict(t) /\ Scan!Grammatical(t)
  BY NextIs
<1>3. seen' = seen
  BY <1>1, <1>2 DEF Scan!Following
<1>4. t.kind # "phrase"
  BY <1>1, <1>2 DEF Scan!Grammatical
<1>5. ch = "(" <=> t.text = << "(" >>
  <2>1. t.text = << "(" >> => ch = "("
    OBVIOUS
  <2>2. t # Scan!End /\ ch = "(" => t.text = << "(" >>
    BY <1>4, ParenIs
  <2>3. t = Scan!End => ch # "("
    BY HowTextsEnd
  <2> QED BY <2>1, <2>2, <2>3
<1>6. verdict' = IF doubled THEN Scan!Failed
                 ELSE IF ch = "(" THEN Scan!Export(scan.ident)
                 ELSE IF t.kind # "space" THEN Scan!Failed ELSE Scan!None
  <2>1. CASE doubled
    BY <1>1, <1>2, <2>1 DEF Scan!Verdict
  <2>2. CASE ~doubled /\ ch = "("
    BY <1>1, <1>2, <1>5, <2>2 DEF Scan!Verdict
  <2>3. CASE ~doubled /\ ch # "("
    BY <1>1, <1>2, <1>5, <2>3 DEF Scan!Verdict
  <2> QED BY <2>1, <2>2, <2>3
<1>7. ASSUME Deciding(ch, scan, verdict') PROVE Decides'
  BY <1>2, <1>4, <1>7 DEF Decides
<1>8. CASE doubled
  <2>1. Deciding(ch, scan, Scan!Failed)
    BY <1>8 DEF Deciding
  <2> QED BY <1>6, <1>7, <1>8, <2>1
<1>9. CASE ~doubled /\ t.kind = "space"
  <2>1. ch # "("
    BY <1>9, HowTextsEnd, HowTokensBegin, MarksDiffer
  <2>2. verdict' = Scan!None
    BY <1>6, <1>9, <2>1
  <2>3. InSpace(0, scan, seen)
    BY <1>9 DEF InSpace, Settled, Ragged
  <2>4. t # Scan!End
    BY <1>9, HowTextsEnd
  <2> QED BY <1>2, <1>3, <1>9, <2>2, <2>3, <2>4 DEF Within
<1>10. CASE ~doubled /\ t.kind # "space"
  <2>1. ch # Scan!White
    BY <1>4, <1>10, HowTextsEnd, HowTokensBegin, KindsOfTokens
  <2>2. verdict' = IF ch = "(" THEN Scan!Export(scan.ident) ELSE Scan!Failed
    BY <1>6, <1>10
  <2>3. Deciding(ch, scan, verdict')
    BY <1>10, <2>1, <2>2 DEF Deciding
  <2> QED BY <1>7, <2>3
<1> QED BY <1>8, <1>9, <1>10

(* The next token, whatever has been seen before it. *)
LEMMA NextTokenMoves ==
  ASSUME ScanFacts, ScanTypes, result = Scan!None, Within,
         NEW t \in Tokens \union {Scan!End}, Scan!NextToken(t)
  PROVE  (t # Scan!End /\ verdict' = Scan!None /\ Within') \/ Decides' \/ AtEnd'
<1>1. Taken = Len(tok.text) /\ tok # Scan!End
  BY NextIs
<1>2. Begun(scan, seen, t.text[1])
  BY <1>1, NextBegins
<1>3. CASE seen = Scan!Nothing
  BY <1>2, <1>3, NextBehindNothing
<1>4. CASE seen = Scan!Upto("doarr") /\ scan.pc = "colon" /\ Loose(scan)
  BY <1>4, NextBehindDoarr
<1>5. CASE seen = Scan!Upto("colons") /\ scan.pc = "e" /\ Loose(scan)
  BY <1>5, NextBehindColons
<1>6. CASE seen = Scan!Upto("exported") /\ scan.pc = "first"
  BY <1>6, NextBehindExported
<1>7. CASE /\ seen = Named(scan.ident)
           /\ \/ scan.pc = "paren" /\ ~Scan!HasDoubleUnderscore(scan.ident)
              \/ scan.pc = "ident" /\ ~Scan!char_is_ident(t.text[1])
  BY <1>7, NextBehindNamed
<1> QED BY <1>2, <1>3, <1>4, <1>5, <1>6, <1>7 DEF Begun, Settled, Ragged

(* A step of the scanner, wherever it is in the text. *)
LEMMA ScannerStep ==
  ASSUME ScanFacts, ScanInv, result = Scan!None, Scanner PROVE ScanInv'
<1>1. ScanTypes
  BY DEF ScanInv
<1>2. PICK d \in {0, 1} : Taking(d)
  BY <1>1, ScannerMoves
<1>3. CASE tok # Scan!End /\ verdict = Scan!None /\ Within
  <2>1. ScanTypes' /\ tok' = tok /\ verdict' = verdict
    BY <1>1, <1>2, <1>3, TakingIs
  <2>2. result' = Scan!None /\ Within'
    BY <1>1, <1>2, <1>3, WithinMoves
  <2>3. tok' # Scan!End' /\ verdict' = Scan!None'
    BY <1>3, <2>1 DEF Scan!End, Scan!None
  <2> QED BY <2>1, <2>2, <2>3 DEF ScanInv
<1>4. CASE Decides
  <2>1. ScanTypes' /\ IF result' = Scan!None THEN Decides' ELSE Answered'
    BY <1>1, <1>2, <1>4, DecidingMoves
  <2> QED BY <2>1 DEF ScanInv
<1>5. CASE AtEnd
  <2>1. ScanTypes' /\ IF result' = Scan!None THEN AtEnd' ELSE Answered'
    BY <1>1, <1>2, <1>5, EndMoves
  <2> QED BY <2>1 DEF ScanInv
<1> QED BY <1>3, <1>4, <1>5 DEF ScanInv

(* The next token comes when the one before it has been read to its end,   *)
(* which no token that decides is, nor the end of the text.                *)
LEMMA NextTokenStep ==
  ASSUME ScanFacts, ScanInv, NEW t \in Tokens \union {Scan!End}, Scan!NextToken(t) PROVE ScanInv'
<1>1. ScanTypes
  BY DEF ScanInv
<1>2. /\ tok' = t /\ result' = Scan!None /\ Taken = Len(tok.text) /\ tok # Scan!End /\ ScanTypes'
  BY <1>1, NextIs
<1>3. result = Scan!None
  BY DEF Scan!NextToken
<1>4. Taken # 0
  <2>1. tok \in Tokens
    BY <1>1, <1>2 DEF ScanTypes
  <2>2. Len(tok.text) \in Nat \ {0}
    BY <2>1, TokenText
  <2> QED BY <1>2, <2>2
<1>5. Within
  BY <1>2, <1>3, <1>4 DEF ScanInv, Decides, AtEnd
<1>6. (t # Scan!End /\ verdict' = Scan!None /\ Within') \/ Decides' \/ AtEnd'
  BY <1>1, <1>3, <1>5, NextTokenMoves
<1> QED BY <1>2, <1>6 DEF ScanInv

(* Behind the parenthesis of an export, the scanner begins again. *)
LEMMA AgainStep ==
  ASSUME ScanFacts, ScanInv, Scan!ScanAgain PROVE ScanInv'
<1>1. ScanTypes
  BY DEF ScanInv
<1>2. /\ result \notin {Scan!None, Scan!Clean, Scan!Failed}
      /\ scan' = Scan!Fresh /\ result' = Scan!None /\ seen' = Scan!Nothing /\ verdict' = Scan!None
      /\ UNCHANGED <<tok, pos, back>>
  BY DEF Scan!ScanAgain
<1>3. tok.kind = "punctuation" /\ pos = 1 /\ back = Scan!NoChar /\ tok # Scan!End
  BY <1>2 DEF ScanInv, Answered
<1>4. ScanTypes'
  BY <1>1, <1>2 DEF ScanTypes
<1>5. scan'.pc = "top" /\ Loose(scan')
  BY <1>2, CharsApart DEF Scan!Fresh, Loose
<1>6. InPunctuation(tok.text, Taken', scan', Scan!Nothing)
  BY <1>5 DEF InPunctuation, Settled
<1>7. Within'
  BY <1>2, <1>3, <1>6 DEF Within
<1> QED BY <1>2, <1>3, <1>4, <1>7 DEF ScanInv

(* The scanner begins before a space. *)
LEMMA ScanStarts == ASSUME ScanFacts, Scan!Init PROVE ScanInv
<1>1. /\ tok = Scan!Blank /\ pos = 0 /\ back = Scan!NoChar
      /\ scan = Scan!Fresh /\ result = Scan!None /\ seen = Scan!Nothing /\ verdict = Scan!None
  BY DEF Scan!Init
<1>2. tok \in Tokens
  BY <1>1 DEF ScanFacts, Scan!TokensAssumption
<1>3. tok # Scan!End
  BY <1>2, EndApart
<1>4. ScanTypes
  <2>1. Len(tok.text) \in Nat
    BY <1>2, TokenText
  <2>2. 0 \in 0 .. Len(tok.text)
    BY <2>1
  <2> QED BY <1>1, <1>2, <1>3, <2>2 DEF ScanTypes
<1>5. scan.pc = "top" /\ Loose(scan)
  BY <1>1, CharsApart DEF Scan!Fresh, Loose
<1>6. InSpace(Taken, scan, seen)
  BY <1>1, <1>5 DEF InSpace, Settled
<1>7. Within
  BY <1>1, <1>6 DEF Within, Scan!Blank
<1> QED BY <1>1, <1>3, <1>4, <1>7 DEF ScanInv

(* Every step keeps the invariant. *)
LEMMA ScanInvHolds == ASSUME ScanFacts, ScanInv, [Scan!Next]_Scan!vars PROVE ScanInv'
<1>1. CASE UNCHANGED Scan!vars
  BY <1>1 DEF Scan!vars, ScanInv, ScanTypes, Answered, Decides, AtEnd, Within, Quiet, Taken
<1>2. CASE \E t \in Tokens \union {Scan!End} : Scan!NextToken(t)
  BY <1>2, NextTokenStep
<1>3. CASE Scanner
  <2>1. result = Scan!None
    BY <1>3 DEF Scanner, Scan!Top, Scan!AfterR, Scan!String, Scan!Escape, Scan!Delim, Scan!Raw,
         Scan!Closing, Scan!Keyword, Scan!First, Scan!Ident, Scan!Paren, Scan!Expect,
         Scan!scan_exactly, Scan!At, Scan!More
  <2> QED BY <1>3, <2>1, ScannerStep
<1>4. CASE Scan!ScanAgain
  BY <1>4, AgainStep
<1>5. CASE Scan!Over
  BY <1>1, <1>5 DEF Scan!Over
<1> QED BY <1>1, <1>2, <1>3, <1>4, <1>5 DEF Scan!Next, Scanner

(* What is to be answered is answered as soon as it is known: a token that *)
(* decides has no character taken before the answer, and the end of the    *)
(* text has none at all.                                                   *)
LEMMA ScanInvIsEnough == ASSUME ScanInv PROVE ExportsExact
<1>1. Scan!NoneInvented
  BY DEF ScanInv, Answered, Scan!NoneInvented
<1>2. Scan!NoneMissed
  <2> SUFFICES ASSUME verdict # Scan!None, pos > 0, back = Scan!NoChar, result = Scan!None PROVE FALSE
    BY DEF Scan!NoneMissed
  <2>1. tok # Scan!End
    BY DEF ScanInv, ScanTypes
  <2>2. Decides
    BY <2>1 DEF ScanInv, AtEnd
  <2>3. Taken = pos
    BY DEF Taken
  <2> QED BY <2>2, <2>3 DEF Decides
<1> QED BY <1>1, <1>2 DEF ExportsExact, Scan!ExportsExact

(* The scanner finds exactly the exports, in every text of such tokens and *)
(* with every size of the delimiter: it answers with an export, an error   *)
(* or the end as the tokens say, as soon as the token that decides has     *)
(* been read (dcc_scan.c:115-165).                                         *)
THEOREM ExportsFoundExactly ==
  ASSUME Scan!TokensAssumption, Scan!TextsAssumption PROVE Scan!Spec => []ExportsExact
<1> ScanFacts
  BY DEF ScanFacts
<1>1. Scan!Init => ScanInv
  BY ScanStarts
<1>2. ScanInv /\ [Scan!Next]_Scan!vars => ScanInv'
  BY ScanInvHolds
<1>3. ScanInv => ExportsExact
  BY ScanInvIsEnough
<1> QED BY <1>1, <1>2, <1>3, PTL DEF Scan!Spec
=============================================================================
