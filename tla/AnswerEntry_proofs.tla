-------------------------- MODULE AnswerEntry_proofs --------------------------
(***************************************************************************)
(* Proofs about AnswerEntry: what is entered fits its question, what is    *)
(* shown is what was queued, and decimals are graded by their value.       *)
(***************************************************************************)
EXTENDS AnswerEntry, WellFoundedInduction, SequenceTheorems, TLAPS

-----------------------------------------------------------------------------
(* Induction, from the least element of a set of numbers *)

LEMMA LeastNatural ==
    ASSUME NEW T, T \subseteq Nat, T # {}
    PROVE  \E x \in T : \A y \in T : x <= y
  <1> DEFINE R == {ss \in Nat \X Nat : ss[1] < ss[2]}
  <1>1. IsWellFoundedOn(R, Nat)
    BY NatLessThanWellFounded DEF OpToRel
  <1>2. \A x, y \in T : x \in Nat /\ y \in Nat /\ (<<y, x>> \in R <=> y < x)
    OBVIOUS
  <1> HIDE DEF R
  <1>3. PICK x \in T : \A y \in T : ~ (<<y, x>> \in R)
    BY <1>1, WFMin
  <1>4. ASSUME NEW y \in T PROVE x <= y
    <2>1. x \in Nat /\ y \in Nat /\ ~ (y < x)
      BY <1>2, <1>3
    <2> QED BY <2>1
  <1> QED BY <1>4

LEMMA SetInduction ==
    ASSUME NEW S, 0 \in S, \A n \in Nat : n \in S => n + 1 \in S
    PROVE  Nat \subseteq S
  <1> DEFINE T == Nat \ S
  <1> SUFFICES ASSUME T # {} PROVE FALSE
    OBVIOUS
  <1>1. PICK x \in T : \A y \in T : x <= y
    BY LeastNatural
  <1>2. x # 0 /\ x \in Nat
    OBVIOUS
  <1>3. x - 1 \in Nat /\ x - 1 \notin T
    BY <1>1, <1>2
  <1>4. (x - 1) + 1 \in S
    BY <1>3
  <1> QED BY <1>2, <1>4

(* A recursion of m steps in A has a solution, ... *)
IsStep(step, A, m) == step \in [A \X (1..m) -> A]

Recursion(g, step, A, a, m) ==
    g \in [0..m -> A] /\ g[0] = a /\ \A i \in 1..m : g[i] = step[<<g[i - 1], i>>]

LEMMA RecursionExists ==
    ASSUME NEW A, NEW a \in A, NEW m \in Nat, NEW step, IsStep(step, A, m)
    PROVE  \E g : Recursion(g, step, A, a, m)
  <1> DEFINE Solves(g, n) == /\ g \in [0..n -> A] /\ g[0] = a
                             /\ \A i \in 1..n : g[i] = step[<<g[i - 1], i>>]
             S == {n \in Nat : n <= m => \E g : Solves(g, n)}
  <1>1. 0 \in S
    <2> DEFINE g == [i \in 0..0 |-> a]
    <2>1. Solves(g, 0)
      OBVIOUS
    <2> HIDE DEF Solves, g
    <2> QED BY <2>1
  <1>2. ASSUME NEW n \in Nat, n \in S PROVE n + 1 \in S
    <2> SUFFICES ASSUME n + 1 <= m PROVE \E g : Solves(g, n + 1)
      OBVIOUS
    <2>1. PICK g : Solves(g, n)
      BY <1>2
    <2> DEFINE x == step[<<g[n], n + 1>>]
               h == [i \in 0..n + 1 |-> IF i <= n THEN g[i] ELSE x]
    <2>2. n \in 0..n /\ n + 1 \in 1..m /\ g[n] \in A
      BY <2>1
    <2>3. x \in A
      BY <2>2 DEF IsStep
    <2> HIDE DEF x
    <2>4. h \in [0..n + 1 -> A] /\ h[0] = a
      BY <2>1, <2>3
    <2>5. ASSUME NEW i \in 1..n + 1 PROVE h[i] = step[<<h[i - 1], i>>]
      <3>1. CASE i <= n
        <4>1. i \in 1..n /\ i - 1 \in 0..n /\ h[i] = g[i] /\ h[i - 1] = g[i - 1]
          BY <3>1
        <4> QED BY <2>1, <4>1
      <3>2. CASE i = n + 1
        <4>1. h[i] = x /\ h[i - 1] = g[n]
          BY <3>2
        <4> QED BY <3>2, <4>1 DEF x
      <3> QED BY <3>1, <3>2
    <2> HIDE DEF h
    <2>6. Solves(h, n + 1)
      BY <2>4, <2>5
    <2> HIDE DEF Solves
    <2> QED BY <2>6
  <1> HIDE DEF S
  <1>3. m \in S
    BY <1>1, <1>2, SetInduction
  <1>4. \E g : Solves(g, m)
    BY <1>3 DEF S
  <1> QED BY <1>4 DEF Recursion

(* ... and only one. *)
Follows(g, h, m) == g[0] = h[0] /\ \A i \in 1..m : g[i - 1] = h[i - 1] => g[i] = h[i]

Agrees(g, h, m) == \A i \in 0..m : g[i] = h[i]

LEMMA RecursionUnique ==
    ASSUME NEW m \in Nat, NEW g, NEW h, Follows(g, h, m)
    PROVE  Agrees(g, h, m)
  <1> DEFINE S == {i \in Nat : i <= m => g[i] = h[i]}
  <1>1. 0 \in S
    BY DEF Follows
  <1>2. ASSUME NEW n \in Nat, n \in S PROVE n + 1 \in S
    <2> SUFFICES ASSUME n + 1 <= m PROVE g[n + 1] = h[n + 1]
      OBVIOUS
    <2>1. n + 1 \in 1..m /\ (n + 1) - 1 = n /\ g[n] = h[n]
      BY <1>2
    <2> QED BY <2>1 DEF Follows
  <1> HIDE DEF S
  <1>3. Nat \subseteq S
    BY <1>1, <1>2, SetInduction
  <1> QED BY <1>3 DEF S, Agrees

-----------------------------------------------------------------------------
(* The recursive definitions *)

LEMMA TenStep ==
    /\ Ten[0] = 1
    /\ \A n \in Nat : Ten[n] \in Nat /\ Ten[n] > 0 /\ Ten[n + 1] = 10 * Ten[n]
  <1> DEFINE Solves(g, n) == /\ g \in [0..n -> Nat] /\ g[0] = 1
                             /\ \A i \in 1..n : g[i] = 10 * g[i - 1]
  <1>1. ASSUME NEW n \in Nat PROVE \E g : Solves(g, n)
    <2> DEFINE step == [x \in Nat \X (1..n) |-> 10 * x[1]]
    <2>1. IsStep(step, Nat, n)
      BY DEF IsStep
    <2>2. \A a \in Nat, i \in 1..n : step[<<a, i>>] = 10 * a
      OBVIOUS
    <2> HIDE DEF step
    <2>3. PICK g : Recursion(g, step, Nat, 1, n)
      BY <2>1, RecursionExists
    <2>4. ASSUME NEW i \in 1..n PROVE g[i] = 10 * g[i - 1]
      <3>1. i - 1 \in 0..n
        OBVIOUS
      <3> QED BY <2>2, <2>3, <3>1 DEF Recursion
    <2> QED BY <2>3, <2>4 DEF Recursion
  <1> DEFINE G(n) == CHOOSE g : Solves(g, n)
  <1>2. ASSUME NEW n \in Nat
        PROVE  /\ Solves(G(n), n) /\ Solves(G(n + 1), n + 1)
               /\ n + 1 \in Nat
    <2>1. n + 1 \in Nat
      OBVIOUS
    <2> HIDE DEF Solves
    <2> QED BY <1>1, <2>1
  <1>3. ASSUME NEW n \in Nat PROVE G(n + 1)[n] = G(n)[n]
    <2>1. Follows(G(n + 1), G(n), n)
      <3>1. Solves(G(n), n) /\ Solves(G(n + 1), n + 1)
        BY <1>2
      <3> HIDE DEF G
      <3>2. G(n + 1)[0] = G(n)[0]
        BY <3>1
      <3>3. \A i \in 1..n : i \in 1..n + 1
        OBVIOUS
      <3>4. \A i \in 1..n : G(n)[i] = 10 * G(n)[i - 1]
        BY <3>1
      <3>5. \A i \in 1..n : G(n + 1)[i] = 10 * G(n + 1)[i - 1]
        BY <3>1, <3>3
      <3> HIDE DEF Solves
      <3> QED BY <3>2, <3>4, <3>5 DEF Follows
    <2> HIDE DEF G
    <2>2. Agrees(G(n + 1), G(n), n)
      BY <2>1, RecursionUnique
    <2> QED BY <2>2 DEF Agrees
  <1> DEFINE T == [n \in Nat |-> G(n)[n]]
  <1>4. T[0] = 1 /\ \A n \in Nat : T[n] \in Nat /\ T[n + 1] = 10 * T[n]
    <2>1. T[0] = 1
      BY <1>2
    <2>2. ASSUME NEW n \in Nat PROVE T[n] \in Nat /\ T[n + 1] = 10 * T[n]
      <3>1. Solves(G(n), n) /\ Solves(G(n + 1), n + 1)
        BY <1>2
      <3> HIDE DEF G
      <3>2. G(n)[n] \in Nat /\ G(n + 1)[n + 1] = 10 * G(n + 1)[n]
        BY <3>1
      <3> QED BY <1>3, <3>2
    <2> QED BY <2>1, <2>2
  <1>5. T = [n \in Nat |-> IF n = 0 THEN 1 ELSE 10 * T[n - 1]]
    <2> DEFINE U == [n \in Nat |-> IF n = 0 THEN 1 ELSE 10 * T[n - 1]]
    <2>1. ASSUME NEW n \in Nat PROVE T[n] = U[n]
      <3>1. CASE n = 0
        <4> HIDE DEF T
        <4> QED BY <1>4, <3>1
      <3>2. CASE n # 0
        <4>1. n - 1 \in Nat /\ (n - 1) + 1 = n
          BY <3>2
        <4> HIDE DEF T
        <4> QED BY <1>4, <3>2, <4>1
      <3> QED BY <3>1, <3>2
    <2> HIDE DEF G
    <2> QED BY <2>1
  <1> HIDE DEF T
  <1>6. Ten = [n \in Nat |-> IF n = 0 THEN 1 ELSE 10 * Ten[n - 1]]
    BY <1>5, Zenon DEF Ten
  <1>7. Ten[0] = 1 /\ \A n \in Nat : Ten[n + 1] = 10 * Ten[n]
    <2>1. Ten[0] = 1
      BY <1>6
    <2>2. ASSUME NEW n \in Nat PROVE Ten[n + 1] = 10 * Ten[n]
      <3>1. n + 1 \in Nat /\ n + 1 # 0 /\ (n + 1) - 1 = n
        OBVIOUS
      <3> QED BY <1>6, <3>1
    <2> QED BY <2>1, <2>2
  <1> DEFINE S == {n \in Nat : Ten[n] \in Nat /\ Ten[n] > 0}
  <1>8. 0 \in S /\ \A n \in Nat : n \in S => n + 1 \in S
    BY <1>7
  <1>9. Nat \subseteq S
    <2> HIDE DEF S
    <2> QED BY <1>8, SetInduction
  <1> QED BY <1>7, <1>9

LEMMA DigitalRecursion ==
    ASSUME NEW s \in Seq(0..9)
    PROVE  \E g \in [0..Len(s) -> Nat] :
              /\ g[0] = 0 /\ \A i \in 1..Len(s) : g[i] = 10 * g[i - 1] + s[i]
              /\ Digital(s) = g[Len(s)]
  <1> DEFINE m == Len(s)
             step == [x \in Nat \X (1..m) |-> 10 * x[1] + s[x[2]]]
  <1>1. m \in Nat /\ \A i \in 1..m : s[i] \in Nat
    OBVIOUS
  <1> HIDE DEF m
  <1>2. IsStep(step, Nat, m)
    BY <1>1 DEF IsStep
  <1>3. \A a \in Nat, i \in 1..m : step[<<a, i>>] = 10 * a + s[i]
    OBVIOUS
  <1> HIDE DEF step
  <1>4. PICK g : Recursion(g, step, Nat, 0, m)
    BY <1>1, <1>2, RecursionExists
  <1>5. /\ g \in [0..m -> Nat] /\ g[0] = 0
        /\ \A i \in 1..m : i - 1 \in 0..m /\ g[i] = 10 * g[i - 1] + s[i]
    <2>1. \A i \in 1..m : i - 1 \in 0..m
      BY <1>1
    <2> QED BY <1>3, <1>4, <2>1 DEF Recursion
  <1> DEFINE Of(h) == [i \in 0..m |-> IF i = 0 THEN 0 ELSE 10 * h[i - 1] + s[i]]
  <1>6. g = Of(g)
    <2>1. ASSUME NEW i \in 0..m PROVE g[i] = Of(g)[i]
      <3>1. CASE i = 0
        BY <1>5, <3>1
      <3>2. CASE i # 0
        <4>1. i \in 1..m
          BY <1>1, <3>2
        <4> QED BY <1>5, <3>2, <4>1
      <3> QED BY <3>1, <3>2
    <2> QED BY <1>5, <2>1
  <1> DEFINE n == CHOOSE h : h = Of(h)
  <1>7. n = Of(n)
    <2> HIDE DEF Of
    <2> QED BY <1>6
  <1>8. Digital(s) = n[m]
    BY DEF Digital, m
  <1> HIDE DEF n
  <1>9. Follows(g, n, m)
    <2>1. n[0] = 0
      BY <1>1, <1>7
    <2>2. ASSUME NEW i \in 1..m PROVE n[i] = 10 * n[i - 1] + s[i]
      <3>1. i \in 0..m /\ i # 0
        BY <1>1
      <3> QED BY <1>7, <3>1
    <2> QED BY <1>5, <2>1, <2>2 DEF Follows
  <1>10. n[m] = g[m]
    <2>1. m \in Nat /\ m \in 0..m
      BY <1>1
    <2>2. Agrees(g, n, m)
      BY <1>9, <2>1, RecursionUnique
    <2> QED BY <2>1, <2>2 DEF Agrees
  <1> QED BY <1>5, <1>8, <1>10 DEF m

LEMMA DigitalType ==
    ASSUME NEW s \in Seq(0..9)
    PROVE  Digital(s) \in Nat
  <1>1. PICK g \in [0..Len(s) -> Nat] : Digital(s) = g[Len(s)]
    BY DigitalRecursion
  <1> QED BY <1>1

LEMMA DigitalAppend ==
    ASSUME NEW s \in Seq(0..9), NEW d \in 0..9
    PROVE  Digital(Append(s, d)) = 10 * Digital(s) + d
  <1> DEFINE m == Len(s)
             t == Append(s, d)
  <1>1. /\ m \in Nat /\ t \in Seq(0..9) /\ Len(t) = m + 1
        /\ t[m + 1] = d /\ \A i \in 1..m : t[i] = s[i]
    OBVIOUS
  <1>2. PICK g \in [0..m -> Nat] :
           /\ g[0] = 0 /\ \A i \in 1..m : g[i] = 10 * g[i - 1] + s[i]
           /\ Digital(s) = g[m]
    BY DigitalRecursion
  <1> HIDE DEF m, t
  <1>3. PICK h \in [0..m + 1 -> Nat] :
           /\ h[0] = 0 /\ \A i \in 1..m + 1 : h[i] = 10 * h[i - 1] + t[i]
           /\ Digital(t) = h[m + 1]
    BY <1>1, DigitalRecursion
  <1>4. Follows(g, h, m)
    BY <1>1, <1>2, <1>3 DEF Follows
  <1>5. g[m] = h[m]
    <2>1. m \in Nat /\ m \in 0..m
      BY <1>1
    <2>2. Agrees(g, h, m)
      BY <1>4, <2>1, RecursionUnique
    <2> QED BY <2>1, <2>2 DEF Agrees
  <1>6. m + 1 \in 1..m + 1 /\ (m + 1) - 1 = m
    BY <1>1
  <1>7. h[m + 1] = 10 * h[m] + d
    BY <1>1, <1>3, <1>6
  <1> QED BY <1>2, <1>3, <1>5, <1>7 DEF t

LEMMA OnlyRecursion ==
    ASSUME NEW chars, NEW text \in Seq(0..Letter)
    PROVE  Only(text, chars) \in Seq(chars \cap 0..Letter)
  <1> DEFINE m == Len(text)
             A == Seq(chars \cap 0..Letter)
             step == [x \in A \X (1..m) |->
                         IF text[x[2]] \in chars THEN Append(x[1], text[x[2]]) ELSE x[1]]
  <1>1. m \in Nat /\ <<>> \in A /\ \A i \in 1..m : text[i] \in 0..Letter
    <2>1. m \in Nat /\ \A i \in 1..m : text[i] \in 0..Letter
      BY DEF Letter
    <2>2. <<>> \in A
      OBVIOUS
    <2> QED BY <2>1, <2>2
  <1>2. \A a \in A, c \in chars \cap 0..Letter : Append(a, c) \in A
    OBVIOUS
  <1> HIDE DEF m, A
  <1>3. IsStep(step, A, m)
    BY <1>1, <1>2 DEF IsStep
  <1>4. \A a \in A, i \in 1..m :
           step[<<a, i>>] = IF text[i] \in chars THEN Append(a, text[i]) ELSE a
    OBVIOUS
  <1> HIDE DEF step
  <1>5. PICK g : Recursion(g, step, A, <<>>, m)
    BY <1>1, <1>3, RecursionExists
  <1>6. /\ g \in [0..m -> A] /\ g[0] = <<>>
        /\ \A i \in 1..m : /\ i - 1 \in 0..m
                          /\ g[i] = IF text[i] \in chars THEN Append(g[i - 1], text[i]) ELSE g[i - 1]
    <2>1. \A i \in 1..m : i - 1 \in 0..m
      BY <1>1
    <2> QED BY <1>4, <1>5, <2>1 DEF Recursion
  <1> DEFINE Of(h) == [i \in 0..m |-> IF i = 0 THEN <<>>
                          ELSE IF text[i] \in chars THEN Append(h[i - 1], text[i]) ELSE h[i - 1]]
  <1>7. g = Of(g)
    <2>1. ASSUME NEW i \in 0..m PROVE g[i] = Of(g)[i]
      <3>1. CASE i = 0
        BY <1>6, <3>1
      <3>2. CASE i # 0
        <4>1. i \in 1..m
          BY <1>1, <3>2
        <4> QED BY <1>6, <3>2, <4>1
      <3> QED BY <3>1, <3>2
    <2> QED BY <1>6, <2>1
  <1> DEFINE n == CHOOSE h : h = Of(h)
  <1>8. n = Of(n)
    <2> HIDE DEF Of
    <2> QED BY <1>7
  <1>9. Only(text, chars) = n[m]
    BY DEF Only, m
  <1> HIDE DEF n
  <1>10. Follows(g, n, m)
    <2>1. n[0] = <<>>
      BY <1>1, <1>8
    <2>2. ASSUME NEW i \in 1..m
          PROVE  n[i] = IF text[i] \in chars THEN Append(n[i - 1], text[i]) ELSE n[i - 1]
      <3>1. i \in 0..m /\ i # 0
        BY <1>1
      <3> QED BY <1>8, <3>1
    <2> QED BY <1>6, <2>1, <2>2 DEF Follows
  <1>11. n[m] = g[m]
    <2>1. m \in Nat /\ m \in 0..m
      BY <1>1
    <2>2. Agrees(g, n, m)
      BY <1>10, <2>1, RecursionUnique
    <2> QED BY <2>1, <2>2 DEF Agrees
  <1> QED BY <1>1, <1>6, <1>9, <1>11 DEF A

LEMMA OnlyOfNothing ==
    ASSUME NEW chars, NEW text, Len(text) = 0
    PROVE  Only(text, chars) = <<>>
  <1> DEFINE Of(h) == [i \in 0..0 |-> IF i = 0 THEN <<>>
                          ELSE IF text[i] \in chars THEN Append(h[i - 1], text[i]) ELSE h[i - 1]]
             g == [i \in 0..0 |-> <<>>]
             n == CHOOSE h : h = Of(h)
  <1>1. g = Of(g)
    OBVIOUS
  <1>2. n = Of(n)
    <2> HIDE DEF Of, g
    <2> QED BY <1>1
  <1>3. Only(text, chars) = n[0]
    BY DEF Only
  <1> HIDE DEF n
  <1> QED BY <1>2, <1>3

LEMMA TenSum ==
    ASSUME NEW a \in Nat, NEW b \in Nat
    PROVE  Ten[a + b] = Ten[a] * Ten[b]
  <1> DEFINE S == {n \in Nat : Ten[a + n] = Ten[a] * Ten[n]}
  <1>1. Ten[a] \in Nat
    BY TenStep
  <1>2. 0 \in S
    BY <1>1, TenStep
  <1>3. ASSUME NEW n \in Nat, n \in S PROVE n + 1 \in S
    <2>1. a + n \in Nat /\ a + (n + 1) = (a + n) + 1 /\ n + 1 \in Nat
      OBVIOUS
    <2>2. Ten[(a + n) + 1] = 10 * Ten[a + n] /\ Ten[n + 1] = 10 * Ten[n] /\ Ten[n] \in Nat
      BY <2>1, TenStep
    <2>3. Ten[a + n] = Ten[a] * Ten[n]
      BY <1>3
    <2> DEFINE x == Ten[a]
               y == Ten[n]
    <2>4. x \in Nat /\ y \in Nat
      BY <1>1, <2>2
    <2>5. 10 * (x * y) = x * (10 * y)
      <3> HIDE DEF x, y
      <3> QED BY <2>4
    <2> QED BY <2>1, <2>2, <2>3, <2>5
  <1>4. b \in S
    <2> HIDE DEF S
    <2> QED BY <1>2, <1>3, SetInduction
  <1> QED BY <1>4

-----------------------------------------------------------------------------
(* Rounding *)

(* m is the multiple of u nearest to x, the even one of two. *)
Nearest(x, m, u) ==
    LET off == 2 * (IF x < m * u THEN m * u - x ELSE x - m * u)
    IN  off < u \/ (off = u /\ m % 2 = 0)

LEMMA Products ==
    ASSUME NEW x \in Int, NEW y \in Int, NEW u \in Nat, u > 0
    PROVE  /\ x < y => x * u + u <= y * u
           /\ x * u \in Int
  <1>1. CASE x < y
    <2>1. PICK k \in Nat : y = x + 1 + k
      <3>1. y - x - 1 \in Nat /\ y = x + 1 + (y - x - 1)
        BY <1>1
      <3> QED BY <3>1
    <2>2. (x + 1 + k) * u = x * u + u + k * u
      OBVIOUS
    <2>3. k * u \in Nat
      OBVIOUS
    <2> QED BY <2>1, <2>2, <2>3
  <1> QED BY <1>1

LEMMA DivMod ==
    ASSUME NEW n \in Nat, NEW u \in Nat, u > 0
    PROVE  /\ n \div u \in Nat /\ n % u \in Nat /\ n % u < u
           /\ n = (n \div u) * u + (n % u)
  OBVIOUS

(* HalfEven is the nearest multiple. *)
LEMMA HalfEvenNearest ==
    ASSUME NEW n \in Nat, NEW k \in Nat, NEW m \in Int
    PROVE  /\ HalfEven(n, k) \in Nat
           /\ Nearest(n, m, Ten[k]) <=> m = HalfEven(n, k)
  <1> DEFINE u == Ten[k]
             d == n \div u
             r == n % u
  <1>1. u \in Nat /\ u > 0
    BY TenStep
  <1>2. d \in Nat /\ r \in Nat /\ r < u /\ n = d * u + r
    <2> HIDE DEF u
    <2> QED BY <1>1, DivMod
  <1>3. HalfEven(n, k) = IF 2 * r > u \/ (2 * r = u /\ d % 2 = 1) THEN d + 1 ELSE d
    BY DEF HalfEven
  <1> HIDE DEF u, d, r
  <1>4. d * u \in Int /\ m * u \in Int /\ (d + 1) * u = d * u + u
    BY <1>1, <1>2
  <1>5. CASE m < d
    <2>1. m * u + u <= d * u
      BY <1>1, <1>2, <1>5, Products
    <2>2. ~ (n < m * u) /\ 2 * (n - m * u) > u
      BY <1>1, <1>2, <1>4, <2>1
    <2>3. ~ Nearest(n, m, u)
      BY <1>1, <1>2, <1>4, <2>2 DEF Nearest
    <2> QED BY <1>2, <1>3, <1>5, <2>3 DEF u
  <1>6. CASE m = d
    <2>1. Nearest(n, m, u) <=> 2 * r < u \/ (2 * r = u /\ d % 2 = 0)
      <3>1. ~ (n < m * u) /\ n - m * u = r
        BY <1>1, <1>2, <1>4, <1>6
      <3> QED BY <1>6, <3>1 DEF Nearest
    <2>2. d % 2 = 0 \/ d % 2 = 1
      BY <1>2
    <2>3. HalfEven(n, k) = m <=> 2 * r < u \/ (2 * r = u /\ d % 2 = 0)
      BY <1>1, <1>2, <1>3, <1>6, <2>2
    <2> QED BY <1>2, <1>3, <2>1, <2>3 DEF u
  <1>7. CASE m = d + 1
    <2>1. n < m * u /\ m * u - n = u - r
      BY <1>1, <1>2, <1>4, <1>7
    <2>2. Nearest(n, m, u) <=> 2 * (u - r) < u \/ (2 * (u - r) = u /\ m % 2 = 0)
      BY <2>1 DEF Nearest
    <2>3. m % 2 = 0 <=> d % 2 = 1
      BY <1>2, <1>7
    <2>4. HalfEven(n, k) = m <=> 2 * r > u \/ (2 * r = u /\ d % 2 = 1)
      BY <1>1, <1>2, <1>3, <1>7
    <2>5. (2 * (u - r) < u <=> 2 * r > u) /\ (2 * (u - r) = u <=> 2 * r = u)
      BY <1>1, <1>2
    <2> QED BY <1>2, <1>3, <2>2, <2>3, <2>4, <2>5 DEF u
  <1>8. CASE m > d + 1
    <2>1. (d + 1) * u + u <= m * u
      BY <1>1, <1>2, <1>8, Products
    <2>2. n < m * u /\ 2 * (m * u - n) > u
      BY <1>1, <1>2, <1>4, <2>1
    <2>3. ~ Nearest(n, m, u)
      BY <1>1, <1>2, <1>4, <2>2 DEF Nearest
    <2> QED BY <1>2, <1>3, <1>8, <2>3 DEF u
  <1> QED BY <1>2, <1>5, <1>6, <1>7, <1>8

LEMMA NearestOfNegative ==
    ASSUME NEW x \in Int, NEW m \in Int, NEW u \in Nat
    PROVE  Nearest(-x, m, u) <=> Nearest(x, -m, u)
  <1>1. (-m) * u = -(m * u) /\ m * u \in Int
    OBVIOUS
  <1>2. (-m) % 2 = 0 <=> m % 2 = 0
    OBVIOUS
  <1>3. (IF -x < m * u THEN m * u - (-x) ELSE (-x) - m * u)
          = (IF x < (-m) * u THEN (-m) * u - x ELSE x - (-m) * u)
    BY <1>1
  <1> QED BY <1>2, <1>3 DEF Nearest

LEMMA NearestScaled ==
    ASSUME NEW x \in Int, NEW m \in Int, NEW u \in Nat, NEW c \in Nat, c > 0
    PROVE  Nearest(x * c, m, u * c) <=> Nearest(x, m, u)
  <1> DEFINE y == m * u
             off == 2 * (IF x < y THEN y - x ELSE x - y)
             big == 2 * (IF x * c < y * c THEN y * c - x * c ELSE x * c - y * c)
  <1>1. m * (u * c) = y * c /\ y \in Int
    OBVIOUS
  <1>2. x * c \in Int /\ y * c \in Int /\ u * c \in Int /\ (x < y <=> x * c < y * c)
    <2>1. y \in Int
      BY <1>1
    <2> HIDE DEF y
    <2> QED BY <2>1, Products
  <1>3. big = off * c /\ off \in Int
    <2>1. y \in Int
      BY <1>1
    <2>2. CASE x < y
      <3>1. 2 * (y * c - x * c) = (2 * (y - x)) * c
        <4> HIDE DEF y
        <4> QED BY <2>1
      <3> QED BY <1>2, <2>1, <2>2, <3>1
    <2>3. CASE ~ (x < y)
      <3>1. 2 * (x * c - y * c) = (2 * (x - y)) * c
        <4> HIDE DEF y
        <4> QED BY <2>1
      <3> QED BY <1>2, <2>1, <2>3, <3>1
    <2> QED BY <2>2, <2>3
  <1>4. (off * c < u * c <=> off < u) /\ (off * c = u * c <=> off = u)
    <2> HIDE DEF off
    <2>1. off < u \/ off = u \/ u < off
      BY <1>3
    <2> QED BY <1>3, <2>1, Products
  <1>5. Nearest(x, m, u) <=> off < u \/ (off = u /\ m % 2 = 0)
    BY DEF Nearest
  <1>6. Nearest(x * c, m, u * c) <=> big < u * c \/ (big = u * c /\ m % 2 = 0)
    BY <1>1 DEF Nearest
  <1> HIDE DEF big, off
  <1> QED BY <1>3, <1>4, <1>5, <1>6

LEMMA NearestOfWhole ==
    ASSUME NEW x \in Int, NEW m \in Int
    PROVE  Nearest(x, m, 1) <=> m = x
  BY DEF Nearest

LEMMA SignedProduct ==
    ASSUME NEW neg, NEW n \in Nat, NEW c \in Nat
    PROVE  /\ Signed(neg, n) \in Int
           /\ Signed(neg, n) * c = Signed(neg, n * c)
  <1>1. (-n) * c = -(n * c)
    OBVIOUS
  <1> QED BY <1>1 DEF Signed

(* Rounded is the rounding of the value to p decimals, ties to even, and   *)
(* the only one: numeric.ts works on the digits, this is what they mean.   *)
THEOREM RoundedIsNearest ==
    ASSUME NEW v \in Num, NEW p \in Nat, NEW m \in Int
    PROVE  /\ Rounded(v, p) \in Nat
           /\ Rounds(m, v, p) <=> m = Signed(v.neg, Rounded(v, p))
  <1> DEFINE n == Digital(v.int \o v.frac)
             x == Signed(v.neg, n)
             k == Len(v.frac)
  <1>1. n \in Nat /\ k \in Nat /\ x \in Int
    <2>1. v.int \in Seq(0..9) /\ v.frac \in Seq(0..9)
      BY DEF Num
    <2>2. (v.int \o v.frac) \in Seq(0..9) /\ k \in Nat
      BY <2>1
    <2>3. n \in Nat
      BY <2>2, DigitalType
    <2> QED BY <2>2, <2>3, SignedProduct
  <1>2. Rounds(m, v, p) <=> Nearest(x * Ten[p], m, Ten[k])
    BY DEF Rounds, Nearest
  <1>3. Rounded(v, p) = IF k <= p THEN n * Ten[p - k] ELSE HalfEven(n, k - p)
    BY DEF Rounded
  <1> HIDE DEF n, k
  <1>4. CASE k <= p
    <2> DEFINE c == Ten[p - k]
               t == Ten[k]
    <2>1. p - k \in Nat /\ (p - k) + k = p
      BY <1>1, <1>4
    <2>2. c \in Nat /\ t \in Nat /\ t > 0 /\ Ten[p] = c * t
      BY <1>1, <2>1, TenStep, TenSum
    <2> HIDE DEF c, t
    <2>3. x * (c * t) = (x * c) * t /\ x * c \in Int /\ 1 * t = t /\ n * c \in Nat
      BY <1>1, <2>2
    <2>4. Nearest((x * c) * t, m, 1 * t) <=> Nearest(x * c, m, 1)
      <3> DEFINE y == x * c
      <3>1. y \in Int
        BY <2>3
      <3> HIDE DEF y
      <3>2. Nearest(y * t, m, 1 * t) <=> Nearest(y, m, 1)
        BY <2>2, <3>1, NearestScaled
      <3> QED BY <3>2 DEF y
    <2>5. Nearest(x * c, m, 1) <=> m = x * c
      BY <2>3, NearestOfWhole
    <2>6. x * c = Signed(v.neg, n * c)
      BY <1>1, <2>2, SignedProduct
    <2>7. Rounded(v, p) = n * c
      BY <1>3, <1>4 DEF c
    <2> QED BY <1>2, <2>2, <2>3, <2>4, <2>5, <2>6, <2>7 DEF t
  <1>5. CASE ~ (k <= p)
    <2> DEFINE u == Ten[k - p]
               t == Ten[p]
               h == HalfEven(n, k - p)
    <2>1. k - p \in Nat /\ (k - p) + p = k
      BY <1>1, <1>5
    <2>2. u \in Nat /\ t \in Nat /\ t > 0 /\ Ten[k] = u * t
      BY <2>1, TenStep, TenSum
    <2>3. Nearest(x * t, m, u * t) <=> Nearest(x, m, u)
      <3> HIDE DEF u, t, x
      <3> QED BY <1>1, <2>2, NearestScaled
    <2>4. h \in Nat /\ \A j \in Int : Nearest(n, j, u) <=> j = h
      <3> HIDE DEF h
      <3>1. h \in Nat
        BY <1>1, <2>1, HalfEvenNearest DEF h
      <3>2. ASSUME NEW j \in Int PROVE Nearest(n, j, u) <=> j = h
        BY <1>1, <2>1, HalfEvenNearest DEF h
      <3> QED BY <3>1, <3>2
    <2> HIDE DEF h, u, t
    <2>5. Nearest(x, m, u) <=> m = Signed(v.neg, h)
      <3>1. CASE v.neg
        <4>1. x = -n /\ Signed(v.neg, h) = -h
          BY <3>1 DEF Signed
        <4>2. Nearest(-n, m, u) <=> Nearest(n, -m, u)
          BY <1>1, <2>2, NearestOfNegative
        <4>3. -m \in Int /\ (-m = h <=> m = -h)
          BY <2>4
        <4> QED BY <2>4, <4>1, <4>2, <4>3
      <3>2. CASE ~ v.neg
        BY <2>4, <3>2 DEF Signed
      <3> QED BY <3>1, <3>2
    <2>6. Rounded(v, p) = h
      BY <1>3, <1>5 DEF h
    <2> QED BY <1>2, <2>2, <2>3, <2>4, <2>5, <2>6 DEF t
  <1> QED BY <1>4, <1>5

-----------------------------------------------------------------------------
(* The numeric controls *)

LEMMA FrontDigits ==
    ASSUME NEW s \in Seq(0..9), s # <<>>
    PROVE  Front(s) \in Seq(0..9) /\ Len(Front(s)) = Len(s) - 1 /\ Digital(Front(s)) <= Digital(s)
  <1> DEFINE t == Front(s)
             d == s[Len(s)]
  <1>1. Len(s) \in Nat \ {0} /\ d \in 0..9
    OBVIOUS
  <1>2. /\ t \in Seq(0..9) /\ Len(t) = Len(s) - 1
        /\ \A j \in 1..Len(s) - 1 : t[j] = s[j]
    <2> DEFINE k == Len(s) - 1
    <2>1. k \in Nat
      BY <1>1
    <2>2. \A j \in 1..k : s[j] \in 0..9
      BY <1>1
    <2> HIDE DEF k
    <2>0. k \in Int /\ 1 \in Int /\ (~ (1 <= k) => k = 0) /\ k - 1 + 1 = k
      BY <2>1
    <2>3. /\ SubSeq(s, 1, k) \in Seq(0..9)
          /\ Len(SubSeq(s, 1, k)) = IF 1 <= k THEN k - 1 + 1 ELSE 0
          /\ \A j \in 1..k - 1 + 1 : SubSeq(s, 1, k)[j] = s[1 + j - 1]
      BY <2>0, <2>2, SubSeqProperties
    <2>4. t = SubSeq(s, 1, k)
      BY DEF Front, k
    <2>5. \A j \in 1..k : 1 + j - 1 = j
      BY <2>1
    <2>6. Len(t) = k
      BY <2>0, <2>3, <2>4
    <2>7. \A j \in 1..k : t[j] = s[j]
      BY <2>0, <2>3, <2>4, <2>5
    <2> QED BY <2>3, <2>4, <2>6, <2>7 DEF k
  <1> HIDE DEF t
  <1>3. s = Append(t, d)
    <2>1. Append(t, d) \in Seq(0..9) /\ Len(Append(t, d)) = Len(s)
      BY <1>1, <1>2
    <2>2. \A j \in 1..Len(s) : Append(t, d)[j] = s[j]
      BY <1>1, <1>2
    <2> QED BY <2>1, <2>2, SeqEqual
  <1>4. Digital(s) = 10 * Digital(t) + d
    BY <1>1, <1>2, <1>3, DigitalAppend
  <1>5. Digital(t) \in Nat
    BY <1>2, DigitalType
  <1> QED BY <1>1, <1>2, <1>4, <1>5 DEF t

(* In a range with zero in it a number may lose its last digit. *)
LEMMA FrontInRange ==
    ASSUME NEW q \in Questions, q.type = "NUM-INT", 0 \in q.min..q.max,
           NEW v \in Num, v.int # <<>>, WithinIntRange(v, q)
    PROVE  WithinIntRange([v EXCEPT !.int = Front(@)], q)
  <1>1. q.min \in Int /\ q.max \in Int
    BY DEF Questions
  <1>2. v.int \in Seq(0..9) /\ v.neg \in BOOLEAN
    BY DEF Num
  <1>3. Digital(Front(v.int)) \in Nat /\ Digital(v.int) \in Nat
        /\ Digital(Front(v.int)) <= Digital(v.int)
    BY <1>2, FrontDigits, DigitalType
  <1>4. [v EXCEPT !.int = Front(@)].int = Front(v.int) /\ [v EXCEPT !.int = Front(@)].neg = v.neg
    BY DEF Num
  <1> QED BY <1>1, <1>2, <1>3, <1>4 DEF WithinIntRange, Integer, Signed

LEMMA EmptyText ==
    ASSUME NEW q \in Questions
    PROVE  Empty \in Num /\ Within(Empty, q)
  <1>1. <<>> \in Seq(0..9) /\ Len(<<>>) = 0
    OBVIOUS
  <1>2. Empty \in Num
    BY <1>1 DEF Empty, Num
  <1>3. q.type = "NUM-DEC" => Len(Empty.frac) <= q.precision
    BY <1>1 DEF Empty, Questions
  <1> QED BY <1>2, <1>3 DEF Empty, Within, WithinIntRange

LEMMA BackspaceFits ==
    ASSUME NEW q \in Questions, NEW v \in Num, Within(v, q)
    PROVE  Backspace(v) \in Num /\ Within(Backspace(v), q)
  <1>1. v.int \in Seq(0..9) /\ v.frac \in Seq(0..9) /\ v.neg \in BOOLEAN /\ v.dot \in BOOLEAN
    BY DEF Num
  <1>2. CASE v.frac # <<>>
    <2> DEFINE w == [v EXCEPT !.frac = Front(@)]
    <2>0. v.dot
      BY <1>1, <1>2 DEF Within
    <2>1. Backspace(v) = w
      BY <1>2, <2>0 DEF Backspace
    <2>2. Front(v.frac) \in Seq(0..9) /\ Len(Front(v.frac)) <= Len(v.frac)
      <3>1. Front(v.frac) \in Seq(0..9) /\ Len(Front(v.frac)) = Len(v.frac) - 1
        BY <1>1, <1>2, FrontDigits
      <3>2. Len(v.frac) \in Nat
        BY <1>1
      <3> QED BY <3>1, <3>2
    <2>3. w \in Num /\ w.frac = Front(v.frac) /\ w.dot = v.dot /\ w.int = v.int /\ w.neg = v.neg
      BY <2>2 DEF Num
    <2>5. q.type = "NUM-DEC" => Len(w.frac) <= q.precision
      <3>1. Len(v.frac) \in Nat /\ Len(Front(v.frac)) \in Nat
        BY <1>1, <2>2
      <3>2. q.type = "NUM-DEC" => q.precision \in Nat
        BY DEF Questions
      <3> QED BY <2>2, <2>3, <3>1, <3>2 DEF Within
    <2> HIDE DEF w
    <2> QED BY <2>0, <2>1, <2>3, <2>5 DEF Within
  <1>3. CASE v.frac = <<>> /\ v.dot
    <2> DEFINE w == [v EXCEPT !.dot = FALSE]
    <2>1. Backspace(v) = w
      BY <1>3 DEF Backspace
    <2>2. w \in Num /\ w.frac = v.frac /\ ~ w.dot
      BY DEF Num
    <2>3. q.type # "NUM-INT"
      BY <1>3 DEF Within
    <2> HIDE DEF w
    <2> QED BY <1>3, <2>1, <2>2, <2>3 DEF Within
  <1>4. CASE v.frac = <<>> /\ ~ v.dot /\ v.int # <<>>
    <2> DEFINE w == [v EXCEPT !.int = Front(@)]
    <2>1. Backspace(v) = w
      BY <1>4 DEF Backspace
    <2>2. Front(v.int) \in Seq(0..9)
      BY <1>1, <1>4, FrontDigits
    <2>3. w \in Num /\ w.frac = v.frac /\ w.dot = v.dot
      BY <2>2 DEF Num
    <2>4. q.type = "NUM-INT" /\ 0 \in q.min..q.max => WithinIntRange(w, q)
      BY <1>4, FrontInRange DEF Within
    <2> HIDE DEF w
    <2> QED BY <1>4, <2>1, <2>3, <2>4 DEF Within
  <1>5. CASE v.frac = <<>> /\ ~ v.dot /\ v.int = <<>>
    <2>1. Backspace(v) = Empty
      BY <1>5 DEF Backspace
    <2> QED BY <2>1, EmptyText
  <1> QED BY <1>1, <1>2, <1>3, <1>4, <1>5

LEMMA AppendedDigits ==
    ASSUME NEW s \in Seq(0..9), NEW d \in 0..9
    PROVE  Append(s, d) \in Seq(0..9) /\ Len(Append(s, d)) = Len(s) + 1 /\ Len(s) \in Nat
  OBVIOUS

(* A key that is not refused leaves a text that fits the question. *)
LEMMA KeyFits ==
    ASSUME NEW q \in Questions, NEW v \in Num, Within(v, q),
           NEW key \in Keys, ~ Refused(v, key, q)
    PROVE  ApplyKey(v, key) \in Num /\ Within(ApplyKey(v, key), q)
  <1>1. v.int \in Seq(0..9) /\ v.frac \in Seq(0..9) /\ v.neg \in BOOLEAN /\ v.dot \in BOOLEAN
    BY DEF Num
  <1>2. Digits \subseteq 0..9 /\ \A d \in Digits : d \notin {Minus, Point, Erase, Clear}
    BY KeysAssumption DEF Minus, Point, Erase, Clear
  <1>3. CASE key = Erase
    <2>1. ApplyKey(v, key) = Backspace(v)
      BY <1>3 DEF ApplyKey, Erase, Clear, Minus, Point
    <2> QED BY <2>1, BackspaceFits
  <1>4. CASE key = Clear
    <2>1. ApplyKey(v, key) = Empty
      BY <1>4 DEF ApplyKey, Erase, Clear, Minus, Point
    <2> QED BY <2>1, EmptyText
  <1>5. CASE key = Minus
    <2> DEFINE w == [v EXCEPT !.neg = TRUE]
    <2>1. ApplyKey(v, key) = w
      BY <1>5 DEF ApplyKey, Erase, Clear, Minus, Point
    <2>2. v = Empty
      <3>1. key = Minus /\ key # Point /\ key \notin Digits
        BY <1>2, <1>5 DEF Minus, Point
      <3>2. v # Empty => Refused(v, key, q)
        BY <3>1 DEF Refused
      <3> QED BY <3>2
    <2>3. w \in Num /\ w.frac = v.frac /\ w.dot = v.dot /\ w.int = v.int
      BY DEF Num
    <2>4. WithinIntRange(w, q)
      BY <2>2, <2>3 DEF WithinIntRange, Empty
    <2> HIDE DEF w
    <2> QED BY <2>1, <2>3, <2>4 DEF Within
  <1>6. CASE key = Point
    <2> DEFINE w == [v EXCEPT !.dot = TRUE]
    <2>1. ApplyKey(v, key) = w
      BY <1>6 DEF ApplyKey, Erase, Clear, Minus, Point
    <2>2. q.type # "NUM-INT"
      <3>1. key = Point /\ key # Minus /\ key \notin Digits
        BY <1>2, <1>6 DEF Minus, Point
      <3>2. q.type = "NUM-INT" => Refused(v, key, q)
        BY <3>1 DEF Refused
      <3> QED BY <3>2
    <2>3. w \in Num /\ w.frac = v.frac /\ w.dot
      BY DEF Num
    <2> HIDE DEF w
    <2> QED BY <2>1, <2>2, <2>3 DEF Within
  <1>7. CASE key \in Digits
    <2>1. key \in 0..9
      BY <1>2, <1>7
    <2>2. ~ Refused(v, key, q) =>
             /\ ~ (v.dot /\ Len(v.frac) >= q.precision)
             /\ ~ (q.type = "NUM-INT" /\ ~ WithinIntRange([v EXCEPT !.int = Append(@, key)], q))
      BY <1>7, <2>1 DEF Refused, Minus, Point
    <2>3. CASE v.dot
      <3> DEFINE w == [v EXCEPT !.frac = Append(@, key)]
      <3>1. ApplyKey(v, key) = w
        BY <2>1, <2>3 DEF ApplyKey, Erase, Clear, Minus, Point
      <3>2. /\ Append(v.frac, key) \in Seq(0..9)
            /\ Len(Append(v.frac, key)) = Len(v.frac) + 1 /\ Len(v.frac) \in Nat
        BY <1>1, <2>1, AppendedDigits
      <3>3. w \in Num /\ w.frac = Append(v.frac, key) /\ w.dot
        BY <2>3, <3>2 DEF Num
      <3>4. q.type # "NUM-INT"
        BY <2>3 DEF Within
      <3>5. q.type = "NUM-DEC" => Len(w.frac) <= q.precision
        <4>1. q.type = "NUM-DEC" => q.precision \in Nat
          BY DEF Questions
        <4> QED BY <2>2, <2>3, <3>2, <3>3, <4>1
      <3> HIDE DEF w
      <3> QED BY <3>1, <3>3, <3>4, <3>5 DEF Within
    <2>4. CASE ~ v.dot
      <3> DEFINE w == [v EXCEPT !.int = Append(@, key)]
      <3>1. ApplyKey(v, key) = w
        BY <2>1, <2>4 DEF ApplyKey, Erase, Clear, Minus, Point
      <3>2. Append(v.int, key) \in Seq(0..9)
        BY <1>1, <2>1, AppendedDigits
      <3>3. w \in Num /\ w.frac = v.frac /\ w.dot = v.dot
        BY <3>2 DEF Num
      <3>4. q.type = "NUM-INT" => WithinIntRange(w, q)
        BY <2>2
      <3> HIDE DEF w
      <3> QED BY <2>4, <3>1, <3>3, <3>4 DEF Within
    <2> QED BY <1>1, <2>3, <2>4
  <1> QED BY <1>3, <1>4, <1>5, <1>6, <1>7 DEF Keys

LEMMA StrippedText ==
    ASSUME NEW text \in Seq(0..Letter)
    PROVE  Stripped(text) \in Num /\ (~ Stripped(text).dot => Stripped(text).frac = <<>>)
  <1> DEFINE raw == Only(text, 0..9 \cup {Minus, Point})
             body == Only(raw, 0..9 \cup {Point})
             dots == {i \in DOMAIN body : body[i] = Point}
             at == IF dots = {} THEN Len(body) + 1 ELSE Min(dots)
             int == SubSeq(body, 1, at - 1)
             rest == SubSeq(body, at, Len(body))
             frac == Only(rest, 0..9)
  <1>1. raw \in Seq(0..Letter) /\ body \in Seq(0..9 \cup {Point})
    <2>1. raw \in Seq((0..9 \cup {Minus, Point}) \cap 0..Letter)
      BY OnlyRecursion
    <2>2. raw \in Seq(0..Letter)
      BY <2>1, SeqMonotonic
    <2> HIDE DEF raw
    <2>3. body \in Seq((0..9 \cup {Point}) \cap 0..Letter)
      BY <2>2, OnlyRecursion
    <2> HIDE DEF body
    <2>4. (0..9 \cup {Point}) \cap 0..Letter \subseteq 0..9 \cup {Point}
      OBVIOUS
    <2>5. body \in Seq(0..9 \cup {Point})
      BY <2>3, <2>4, SeqMonotonic
    <2> QED BY <2>2, <2>5
  <1> HIDE DEF raw, body
  <1>2. Len(body) \in Nat /\ DOMAIN body = 1..Len(body) /\ dots \subseteq Nat
    BY <1>1
  <1>3. at \in Nat /\ at > 0 /\ at <= Len(body) + 1 /\ \A i \in 1..at - 1 : i \in DOMAIN body /\ i \notin dots
    <2>1. CASE dots = {}
      <3>1. at = Len(body) + 1
        BY <2>1
      <3> HIDE DEF at
      <3> QED BY <1>2, <2>1, <3>1
    <2>2. CASE dots # {}
      <3>1. at = CHOOSE x \in dots : \A y \in dots : x =< y
        BY <2>2 DEF Min
      <3>2. \E x \in dots : \A y \in dots : x <= y
        BY <1>2, <2>2, LeastNatural
      <3> HIDE DEF at
      <3>3. at \in dots /\ \A y \in dots : at <= y
        BY <3>1, <3>2
      <3>4. at \in DOMAIN body
        BY <3>3
      <3> HIDE DEF dots
      <3> QED BY <1>2, <3>3, <3>4
    <2> QED BY <2>1, <2>2
  <1>4. int \in Seq(0..9)
    <2>1. ASSUME NEW i \in 1..at - 1 PROVE body[i] \in 0..9
      <3>1. i \in DOMAIN body /\ body[i] # Point
        BY <1>3, <2>1
      <3>2. body[i] \in 0..9 \cup {Point}
        BY <1>1, <3>1
      <3> QED BY <3>1, <3>2
    <2>2. at - 1 \in Int /\ 1 \in Int
      BY <1>3
    <2> HIDE DEF at, dots
    <2> QED BY <2>1, <2>2, SubSeqProperties
  <1>5. /\ frac \in Seq(0..9) /\ rest \in Seq(0..Letter)
        /\ Len(rest) = IF at <= Len(body) THEN Len(body) - at + 1 ELSE 0
    <2>1. ASSUME NEW i \in at..Len(body) PROVE body[i] \in 0..Letter
      <3>1. i \in 1..Len(body)
        BY <1>2, <1>3
      <3>2. body[i] \in 0..9 \cup {Point}
        BY <1>1, <3>1
      <3> QED BY <3>2 DEF Letter, Point
    <2>2. at \in Int /\ Len(body) \in Int
      BY <1>2, <1>3
    <2> HIDE DEF at, dots
    <2>3. rest \in Seq(0..Letter) /\ Len(rest) = IF at <= Len(body) THEN Len(body) - at + 1 ELSE 0
      BY <2>1, <2>2, SubSeqProperties
    <2> HIDE DEF rest
    <2>4. frac \in Seq(0..9 \cap 0..Letter)
      BY <2>3, OnlyRecursion
    <2> HIDE DEF frac
    <2>5. 0..9 \cap 0..Letter \subseteq 0..9
      OBVIOUS
    <2>6. frac \in Seq(0..9)
      BY <2>4, <2>5, SeqMonotonic
    <2> QED BY <2>3, <2>6
  <1>6. ASSUME dots = {} PROVE frac = <<>>
    <2>1. at = Len(body) + 1
      BY <1>6
    <2>2. Len(rest) = 0 /\ rest \in Seq(0..Letter)
      BY <1>2, <1>5, <2>1
    <2> HIDE DEF rest
    <2> QED BY <2>2, OnlyOfNothing
  <1>7. Stripped(text) = [neg |-> raw # <<>> /\ Head(raw) = Minus, int |-> int,
                          dot |-> dots # {}, frac |-> frac]
    BY DEF Stripped, raw, body
  <1> DEFINE neg == raw # <<>> /\ Head(raw) = Minus
             dot == dots # {}
  <1>8. neg \in BOOLEAN /\ dot \in BOOLEAN
    OBVIOUS
  <1>9. ~ dot => frac = <<>>
    BY <1>6
  <1>10. Stripped(text) = [neg |-> neg, int |-> int, dot |-> dot, frac |-> frac]
    BY <1>7
  <1> HIDE DEF neg, dot, int, frac
  <1> QED BY <1>4, <1>5, <1>8, <1>9, <1>10 DEF Num

LEMMA MinOfTwo ==
    ASSUME NEW a \in Nat, NEW b \in Nat
    PROVE  Min({a, b}) \in {a, b} /\ Min({a, b}) <= a /\ Min({a, b}) <= b
  <1> DEFINE S == {a, b}
             c == IF a <= b THEN a ELSE b
  <1>1. c \in S /\ \A y \in S : c =< y
    OBVIOUS
  <1>2. Min(S) = CHOOSE x \in S : \A y \in S : x =< y
    BY DEF Min
  <1> HIDE DEF S, c
  <1>3. Min(S) \in S /\ \A y \in S : Min(S) =< y
    BY <1>1, <1>2
  <1> QED BY <1>3 DEF S

LEMMA MaxOfTwo ==
    ASSUME NEW a \in Nat, NEW b \in Nat
    PROVE  Max({a, b}) \in {a, b} /\ Max({a, b}) >= a /\ Max({a, b}) >= b
  <1> DEFINE S == {a, b}
             c == IF a <= b THEN b ELSE a
  <1>1. c \in S /\ \A y \in S : c >= y
    OBVIOUS
  <1>2. Max(S) = CHOOSE x \in S : \A y \in S : x >= y
    BY DEF Max
  <1> HIDE DEF S, c
  <1>3. Max(S) \in S /\ \A y \in S : Max(S) >= y
    BY <1>1, <1>2
  <1> QED BY <1>3 DEF S

LEMMA PrefixDigits ==
    ASSUME NEW s \in Seq(0..9), NEW n \in Nat, n <= Len(s)
    PROVE  SubSeq(s, 1, n) \in Seq(0..9) /\ Len(SubSeq(s, 1, n)) = n
  <1>1. \A i \in 1..n : s[i] \in 0..9
    OBVIOUS
  <1>2. 1 \in Int /\ n \in Int /\ (~ (1 <= n) => n = 0) /\ n - 1 + 1 = n
    OBVIOUS
  <1>3. /\ SubSeq(s, 1, n) \in Seq(0..9)
        /\ Len(SubSeq(s, 1, n)) = IF 1 <= n THEN n - 1 + 1 ELSE 0
    BY <1>1, <1>2, SubSeqProperties
  <1> QED BY <1>2, <1>3

(* So does what is pasted. *)
LEMMA PasteFits ==
    ASSUME NEW q \in Questions, Numeric(q), NEW text \in Pastes
    PROVE  ApplyPaste(text, q) \in Num /\ Within(ApplyPaste(text, q), q)
  <1> DEFINE v == Stripped(text)
             whole == q.type = "NUM-INT" \/ q.precision = 0
             n == Min({Len(v.frac), q.precision})
             a == [v EXCEPT !.dot = FALSE, !.frac = <<>>]
             b == [v EXCEPT !.frac = SubSeq(@, 1, n)]
             t == IF whole THEN a ELSE b
  <1>1. text \in Seq(0..Letter)
    BY KeysAssumption
  <1>2. v \in Num /\ (~ v.dot => v.frac = <<>>)
    BY <1>1, StrippedText
  <1>3. ApplyPaste(text, q) = IF q.type = "NUM-INT" /\ ~ WithinIntRange(t, q) THEN Empty ELSE t
    BY DEF ApplyPaste
  <1> HIDE DEF v
  <1>4. a \in Num /\ a.frac = <<>> /\ ~ a.dot
    <2>1. <<>> \in Seq(0..9)
      OBVIOUS
    <2> QED BY <1>2, <2>1 DEF Num
  <1>5. q.type = "NUM-DEC" => q.precision \in Nat /\ Len(<<>>) <= q.precision
    BY DEF Questions
  <1>6. ASSUME q.type = "NUM-DEC"
        PROVE  b \in Num /\ Len(b.frac) <= q.precision /\ (~ b.dot => b.frac = <<>>)
    <2>1. v.frac \in Seq(0..9) /\ Len(v.frac) \in Nat /\ q.precision \in Nat
      BY <1>2, <1>5, <1>6 DEF Num
    <2>2. n \in {Len(v.frac), q.precision} /\ n <= Len(v.frac) /\ n <= q.precision
      BY <2>1, MinOfTwo
    <2> HIDE DEF n
    <2>3. n \in Nat
      BY <2>1, <2>2
    <2>4. SubSeq(v.frac, 1, n) \in Seq(0..9) /\ Len(SubSeq(v.frac, 1, n)) = n
      BY <2>1, <2>2, <2>3, PrefixDigits
    <2>5. b \in Num /\ b.frac = SubSeq(v.frac, 1, n) /\ b.dot = v.dot
      BY <1>2, <2>4 DEF Num
    <2> HIDE DEF b
    <2>6. ASSUME ~ b.dot PROVE b.frac = <<>>
      <3>1. v.frac = <<>>
        BY <1>2, <2>5, <2>6
      <3>2. n = 0
        BY <2>2, <2>3, <3>1
      <3>3. b.frac \in Seq(0..9) /\ Len(b.frac) = 0
        BY <2>4, <2>5, <3>2
      <3> QED BY <3>3
    <2> QED BY <2>2, <2>4, <2>5, <2>6
  <1> HIDE DEF a, b
  <1>7. CASE q.type = "NUM-INT"
    <2>1. t = a
      BY <1>7
    <2>2. WithinIntRange(a, q) => Within(a, q)
      BY <1>4, <1>7 DEF Within
    <2>3. ApplyPaste(text, q) = IF WithinIntRange(a, q) THEN a ELSE Empty
      <3> HIDE DEF t
      <3> QED BY <1>3, <1>7, <2>1
    <2>4. CASE WithinIntRange(a, q)
      BY <1>4, <2>2, <2>3, <2>4
    <2>5. CASE ~ WithinIntRange(a, q)
      <3>1. ApplyPaste(text, q) = Empty
        BY <2>3, <2>5
      <3> QED BY <3>1, EmptyText
    <2> QED BY <2>4, <2>5
  <1>8. CASE q.type = "NUM-DEC"
    <2>1. t \in Num /\ Len(t.frac) <= q.precision /\ (~ t.dot => t.frac = <<>>)
      BY <1>4, <1>5, <1>6, <1>8
    <2>2. ApplyPaste(text, q) = t
      BY <1>3, <1>8
    <2> HIDE DEF t
    <2> QED BY <1>8, <2>1, <2>2 DEF Within
  <1> QED BY <1>7, <1>8 DEF Numeric

-----------------------------------------------------------------------------
(* Payloads and snapshots *)

LEMMA EmptyPayloadFits ==
    ASSUME NEW q \in Questions
    PROVE  EmptyPayload(q) \in Payload(q)
  <1>1. CASE q.type = "MCQ-SC"
    BY <1>1 DEF EmptyPayload, Payload, Numeric
  <1>2. CASE q.type = "MCQ-MC"
    BY <1>2 DEF EmptyPayload, Payload, Numeric
  <1>3. CASE Numeric(q)
    <2>1. EmptyPayload(q) = [value |-> Empty] /\ Payload(q) = [value : {v \in Num : Within(v, q)}]
      BY <1>3 DEF EmptyPayload, Payload, Numeric
    <2> QED BY <2>1, EmptyText
  <1>4. CASE q.type = "MAT-COL"
    <2> DEFINE e == [r \in {} |-> None]
               C == 0..q.picks - 1 \cup {None}
               R == 0..q.rows - 1
               M == UNION {[rows -> C] : rows \in SUBSET R}
    <2>1. EmptyPayload(q) = [pairs |-> e] /\ Payload(q) = [pairs : M]
      BY <1>4 DEF EmptyPayload, Payload, Numeric
    <2>2. {} \in SUBSET R /\ e \in [{} -> C]
      OBVIOUS
    <2> HIDE DEF e, C, R
    <2>3. e \in M
      BY <2>2
    <2> HIDE DEF M
    <2> QED BY <2>1, <2>3
  <1> QED BY <1>1, <1>2, <1>3, <1>4 DEF Questions, Numeric

LEMMA ShownFits ==
    ASSUME NEW q \in Questions, NEW snap \in Snapshot(q) \cup {None}
    PROVE  Shown(q, snap) \in Payload(q)
  <1>1. CASE snap = None \/ snap.payload = None
    <2>1. Shown(q, snap) = EmptyPayload(q)
      BY <1>1 DEF Shown
    <2> QED BY <2>1, EmptyPayloadFits
  <1>2. CASE snap # None /\ snap.payload # None
    <2>1. Shown(q, snap) = snap.payload /\ snap \in Snapshot(q)
      BY <1>2 DEF Shown
    <2> QED BY <1>2, <2>1 DEF Snapshot
  <1> QED BY <1>1, <1>2

LEMMA NumericPayload ==
    ASSUME NEW q \in Questions, Numeric(q)
    PROVE  /\ \A p \in Payload(q) : p.value \in Num /\ Within(p.value, q)
           /\ \A v \in Num : Within(v, q) => [value |-> v] \in Payload(q)
  <1>1. Payload(q) = [value : {v \in Num : Within(v, q)}]
    BY DEF Payload, Numeric
  <1> QED BY <1>1

LEMMA ChoicePayload ==
    ASSUME NEW q \in Questions, NEW p \in Payload(q), NEW o \in Nat
    PROVE  /\ q.type = "MCQ-SC" /\ o < q.options => [option |-> o] \in Payload(q)
           /\ q.type = "MCQ-MC" /\ o < q.options =>
                [options |-> (p.options \cup {o}) \ (p.options \cap {o})] \in Payload(q)
  <1>1. q.type = "MCQ-SC" => Payload(q) = [option : 0..q.options - 1 \cup {None}]
    BY DEF Payload, Numeric
  <1>2. q.type = "MCQ-MC" => Payload(q) = [options : SUBSET (0..q.options - 1)]
    BY DEF Payload, Numeric
  <1>3. q.type \in {"MCQ-SC", "MCQ-MC"} => q.options \in Nat
    BY DEF Questions
  <1>4. q.type \in {"MCQ-SC", "MCQ-MC"} /\ o < q.options => o \in 0..q.options - 1
    BY <1>3
  <1>5. ASSUME q.type = "MCQ-SC", o < q.options
        PROVE  [option |-> o] \in Payload(q)
    BY <1>1, <1>4, <1>5
  <1>6. ASSUME q.type = "MCQ-MC", o < q.options
        PROVE  [options |-> (p.options \cup {o}) \ (p.options \cap {o})] \in Payload(q)
    <2> DEFINE O == 0..q.options - 1
               n == (p.options \cup {o}) \ (p.options \cap {o})
    <2>1. Payload(q) = [options : SUBSET O] /\ o \in O
      BY <1>2, <1>4, <1>6
    <2> HIDE DEF O
    <2>2. p.options \subseteq O
      BY <2>1
    <2>3. n \in SUBSET O
      BY <2>1, <2>2
    <2> HIDE DEF n
    <2>4. [options |-> n] \in Payload(q)
      BY <2>1, <2>3
    <2> QED BY <2>4 DEF n
  <1> QED BY <1>5, <1>6

LEMMA PairsPayload ==
    ASSUME NEW q \in Questions, q.type = "MAT-COL", NEW p \in Payload(q),
           NEW row \in 0..q.rows - 1, NEW pick \in 0..q.picks - 1 \cup {None}
    PROVE  [pairs |-> [r \in DOMAIN p.pairs \cup {row} |-> IF r = row THEN pick ELSE p.pairs[r]]]
             \in Payload(q)
  <1> DEFINE C == 0..q.picks - 1 \cup {None}
             R == 0..q.rows - 1
             M == UNION {[rows -> C] : rows \in SUBSET R}
             D == DOMAIN p.pairs \cup {row}
             n == [r \in D |-> IF r = row THEN pick ELSE p.pairs[r]]
  <1>1. Payload(q) = [pairs : M]
    BY DEF Payload, Numeric
  <1>2. pick \in C /\ row \in R
    OBVIOUS
  <1> HIDE DEF C, R
  <1>3. PICK rows \in SUBSET R : p.pairs \in [rows -> C]
    <2>1. p.pairs \in M
      BY <1>1
    <2> QED BY <2>1
  <1>4. D \in SUBSET R /\ n \in [D -> C]
    BY <1>2, <1>3
  <1> HIDE DEF D, n
  <1>5. n \in M
    BY <1>4
  <1> HIDE DEF M
  <1>6. [pairs |-> n] \in Payload(q)
    BY <1>1, <1>5
  <1> QED BY <1>6 DEF n, D

LEMMA SnapshotWith ==
    ASSUME NEW q, NEW snap \in Snapshot(q)
    PROVE  /\ \A x \in Payload(q) \cup {None} : [snap EXCEPT !.payload = x] \in Snapshot(q)
           /\ \A b \in BOOLEAN : [snap EXCEPT !.marked = b] \in Snapshot(q)
           /\ snap.visits \in Nat /\ snap.marked \in BOOLEAN
           /\ \A k \in Nat : /\ [snap EXCEPT !.visits = k] \in Snapshot(q)
                              /\ [snap EXCEPT !.visits = k].visits = k
                              /\ [snap EXCEPT !.visits = k].payload = snap.payload
                              /\ [snap EXCEPT !.visits = k].marked = snap.marked
  BY DEF Snapshot

LEMMA BlankFits ==
    ASSUME NEW q
    PROVE  Blank \in Snapshot(q)
  BY DEF Blank, Snapshot

-----------------------------------------------------------------------------
(* The invariant *)

(* The last save of slot i that has not come back. *)
Latest(i, n) ==
    /\ n \in DOMAIN saving /\ saving[n].slot = i
    /\ \A m \in DOMAIN saving : saving[m].slot = i => m <= n

(* What is shown is what was sent, but for the count of visits. *)
Alike(shown, sent) ==
    shown # None /\ shown.payload = sent.payload /\ shown.marked = sent.marked /\ shown.visits > 0

Saves == [slot : Slots, snap : UNION {Snapshot(test[i]) : i \in Slots},
          advance : BOOLEAN, from : Slots]

(* A snapshot is queued with a visit, so that it has a status of its own. *)
Entered ==
    /\ saving \in Seq(Saves)
    /\ \A n \in DOMAIN saving : saving[n].snap.visits > 0
    /\ \A i \in Slots : queued[i] # None => queued[i].visits > 0

(* The last save of a slot holds what is queued; a slot without one shows it. *)
Written ==
    /\ \A i \in Slots, n \in DOMAIN saving : Latest(i, n) => saving[n].snap = queued[i]
    /\ \A i \in Slots : queued[i] # None =>
          (\E n \in DOMAIN saving : saving[n].slot = i) \/ Alike(snapshots[i], queued[i])

EntryInv == TypeOK /\ Entered /\ Written

LEMMA TestFacts ==
    ASSUME test \in Tests
    PROVE  /\ Slots = 1..Len(test) /\ Len(test) \in Nat /\ Len(test) >= 1 /\ 1 \in Slots
           /\ \A i \in Slots : test[i] \in Questions /\ None \notin Snapshot(test[i])
  <1>1. test \in Seq(Questions) /\ test # <<>>
    BY TestsAssumption
  <1>2. \A i \in Slots : None \notin Snapshot(test[i])
    BY NoneAssumption DEF Slots
  <1> QED BY <1>1, <1>2 DEF Slots

LEMMA EntryInit ==
    ASSUME Init
    PROVE  EntryInv
  <1>1. test \in Tests
    BY DEF Init
  <1>2. 1 \in Slots
    BY <1>1, TestFacts
  <1>3. \A i \in Slots : Blank \in Snapshot(test[i])
    BY BlankFits
  <1>4. TypeOK
    <2>1. /\ DOMAIN snapshots = Slots /\ DOMAIN queued = Slots
          /\ \A i \in Slots : snapshots[i] \in {None, Blank} /\ queued[i] = None
      BY DEF Init
    <2>2. \A i \in Slots : {snapshots[i], queued[i]} \subseteq Snapshot(test[i]) \cup {None}
      BY <1>3, <2>1
    <2>3. DOMAIN saving = {} /\ visited \subseteq Slots /\ current = 1
      BY DEF Init
    <2>4. /\ dialog \in [open : BOOLEAN, step : 1..2]
          /\ submit \in {"IDLE", "AUTO_SUBMITTING", "SUBMITTED"}
          /\ used \in [saves : Nat, moves : Nat]
      BY DEF Init
    <2> QED BY <1>1, <1>2, <2>1, <2>2, <2>3, <2>4 DEF TypeOK
  <1>5. Entered
    <2>1. saving = <<>> /\ \A i \in Slots : queued[i] = None
      BY DEF Init
    <2> QED BY <2>1 DEF Entered
  <1>6. Written
    <2>1. DOMAIN saving = {} /\ \A i \in Slots : queued[i] = None
      BY DEF Init
    <2> QED BY <2>1 DEF Written
  <1> QED BY <1>4, <1>5, <1>6 DEF EntryInv

LEMMA SavesHave ==
    ASSUME NEW i \in Slots, NEW snap \in Snapshot(test[i]), NEW advance \in BOOLEAN, NEW from \in Slots
    PROVE  [slot |-> i, snap |-> snap, advance |-> advance, from |-> from] \in Saves
  <1>1. snap \in UNION {Snapshot(test[j]) : j \in Slots}
    OBVIOUS
  <1> QED BY <1>1 DEF Saves

(* saveSnapshot up to its await. *)
LEMMA SaveKeeps ==
    ASSUME EntryInv, NEW i \in Slots, NEW snap \in Snapshot(test[i]), NEW advance \in BOOLEAN,
           Save(i, snap, advance), current' \in Slots, UNCHANGED <<test, dialog, submit>>
    PROVE  EntryInv'
  <1> DEFINE visits == Max({1, IF i \notin visited THEN snap.visits + 1 ELSE snap.visits})
             next == [snap EXCEPT !.visits = visits]
             save == [slot |-> i, snap |-> next, advance |-> advance, from |-> current]
             k == Len(saving)
  <1>1. /\ used' = [used EXCEPT !.saves = @ + 1]
        /\ visited' = visited \cup {i}
        /\ snapshots' = [snapshots EXCEPT ![i] = next]
        /\ queued' = [queued EXCEPT ![i] = next]
        /\ saving' = Append(saving, save)
        /\ test' = test /\ dialog' = dialog /\ submit' = submit
    BY DEF Save
  <1>2. next \in Snapshot(test[i]) /\ next.visits > 0 /\ next # None
    <2>1. snap.visits \in Nat
      BY SnapshotWith
    <2>2. 1 \in Nat /\ (IF i \notin visited THEN snap.visits + 1 ELSE snap.visits) \in Nat
      BY <2>1
    <2>3. visits \in Nat /\ visits > 0
      <3> DEFINE y == IF i \notin visited THEN snap.visits + 1 ELSE snap.visits
      <3>1. y \in Nat /\ 1 \in Nat
        BY <2>2
      <3> HIDE DEF y
      <3>2. Max({1, y}) \in {1, y} /\ Max({1, y}) >= 1
        BY <3>1, MaxOfTwo
      <3>3. Max({1, y}) \in Nat /\ Max({1, y}) > 0
        BY <3>1, <3>2
      <3> QED BY <3>3 DEF y
    <2> HIDE DEF visits
    <2>4. next \in Snapshot(test[i]) /\ next.visits = visits
      BY <2>3, SnapshotWith
    <2>5. None \notin Snapshot(test[i])
      BY TestFacts DEF EntryInv, TypeOK
    <2> HIDE DEF next
    <2> QED BY <2>3, <2>4, <2>5
  <1> HIDE DEF next
  <1>3. /\ saving \in Seq(Saves) /\ k \in Nat /\ DOMAIN saving = 1..k
        /\ \A n \in 1..k : saving[n].snap.visits > 0
        /\ \A j \in Slots : queued[j] # None => queued[j].visits > 0
    BY DEF EntryInv, Entered
  <1>4. save \in Saves /\ save.slot = i /\ save.snap = next /\ save.from = current
        /\ save.advance = advance
    <2>1. current \in Slots
      BY DEF EntryInv, TypeOK
    <2> QED BY <1>2, <2>1, SavesHave
  <1> HIDE DEF save
  <1>5. /\ saving' \in Seq(Saves) /\ DOMAIN saving' = 1..k + 1
        /\ saving'[k + 1] = save /\ \A n \in 1..k : saving'[n] = saving[n]
    BY <1>1, <1>3, <1>4
  <1> HIDE DEF k
  <1>6. Slots' = Slots /\ DOMAIN snapshots = Slots /\ DOMAIN queued = Slots
    BY <1>1 DEF Slots, EntryInv, TypeOK
  <1>7. /\ DOMAIN snapshots' = Slots /\ DOMAIN queued' = Slots
        /\ snapshots'[i] = next /\ queued'[i] = next
        /\ \A j \in Slots : j # i => snapshots'[j] = snapshots[j] /\ queued'[j] = queued[j]
    BY <1>1, <1>6
  <1>8. TypeOK'
    <2>1. \A j \in Slots : {snapshots'[j], queued'[j]} \subseteq Snapshot(test[j]) \cup {None}
      <3> TAKE j \in Slots
      <3>1. {snapshots[j], queued[j]} \subseteq Snapshot(test[j]) \cup {None}
        BY DEF EntryInv, TypeOK
      <3> QED BY <1>2, <1>7, <3>1
    <2>2. ASSUME NEW n \in 1..k + 1
          PROVE  /\ saving'[n].slot \in Slots /\ saving'[n].from \in Slots
                 /\ saving'[n].advance \in BOOLEAN
                 /\ saving'[n].snap \in Snapshot(test[saving'[n].slot])
      <3>1. CASE n = k + 1
        <4>1. current \in Slots
          BY DEF EntryInv, TypeOK
        <4> QED BY <1>2, <1>4, <1>5, <3>1, <4>1
      <3>2. CASE n # k + 1
        <4>1. n \in 1..k
          BY <1>3, <3>2 DEF k
        <4>2. /\ saving[n].slot \in Slots /\ saving[n].from \in Slots
              /\ saving[n].advance \in BOOLEAN
              /\ saving[n].snap \in Snapshot(test[saving[n].slot])
          BY <1>3, <4>1 DEF EntryInv, TypeOK
        <4>3. saving'[n] = saving[n]
          BY <1>5, <4>1
        <4> QED BY <4>2, <4>3
      <3> QED BY <3>1, <3>2
    <2>3. visited' \subseteq Slots /\ test' \in Tests
      BY <1>1 DEF EntryInv, TypeOK
    <2>4. /\ dialog' \in [open : BOOLEAN, step : 1..2]
          /\ submit' \in {"IDLE", "AUTO_SUBMITTING", "SUBMITTED"}
          /\ used' \in [saves : Nat, moves : Nat]
      BY <1>1 DEF EntryInv, TypeOK
    <2>5. \A j \in Slots' : {snapshots'[j], queued'[j]} \subseteq Snapshot(test'[j]) \cup {None}
      BY <1>1, <1>6, <2>1
    <2>6. \A n \in DOMAIN saving' :
             /\ saving'[n].slot \in Slots' /\ saving'[n].from \in Slots'
             /\ saving'[n].advance \in BOOLEAN
             /\ saving'[n].snap \in Snapshot(test'[saving'[n].slot])
      BY <1>1, <1>5, <1>6, <2>2
    <2>7. current' \in Slots' /\ visited' \subseteq Slots' /\ DOMAIN snapshots' = Slots'
          /\ DOMAIN queued' = Slots'
      BY <1>6, <1>7, <2>3
    <2> QED BY <2>3, <2>4, <2>5, <2>6, <2>7 DEF TypeOK
  <1>9. Saves' = Saves
    BY <1>1, <1>6 DEF Saves
  <1>10. Entered'
    <2>1. \A n \in 1..k + 1 : saving'[n].snap.visits > 0
      <3> TAKE n \in 1..k + 1
      <3>1. n = k + 1 \/ n \in 1..k
        BY <1>3 DEF k
      <3> QED BY <1>2, <1>3, <1>4, <1>5, <3>1
    <2>2. \A j \in Slots : queued'[j] # None => queued'[j].visits > 0
      BY <1>2, <1>3, <1>7
    <2> QED BY <1>5, <1>6, <1>9, <2>1, <2>2 DEF Entered
  <1>11. Written'
    <2>1. ASSUME NEW j \in Slots, NEW n \in 1..k + 1, Latest(j, n)'
          PROVE  saving'[n].snap = queued'[j]
      <3>0. k + 1 \in 1..k + 1 /\ k \in Nat
        BY <1>3 DEF k
      <3>1. CASE n = k + 1
        <4>1. j = i
          BY <1>4, <1>5, <2>1, <3>1 DEF Latest
        <4> QED BY <1>4, <1>5, <1>7, <3>1, <4>1
      <3>2. CASE n # k + 1
        <4>1. n \in 1..k /\ ~ (k + 1 <= n)
          BY <3>0, <3>2
        <4>2. j # i
          BY <1>4, <1>5, <2>1, <3>0, <4>1 DEF Latest
        <4>3. Latest(j, n)
          <5>1. \A m \in 1..k : m \in 1..k + 1
            BY <3>0
          <5> QED BY <1>3, <1>5, <2>1, <4>1, <5>1 DEF Latest
        <4>4. saving[n].snap = queued[j]
          BY <1>3, <4>1, <4>3 DEF EntryInv, Written
        <4> QED BY <1>5, <1>7, <4>1, <4>2, <4>4
      <3> QED BY <3>1, <3>2
    <2>2. ASSUME NEW j \in Slots, queued'[j] # None
          PROVE  (\E n \in 1..k + 1 : saving'[n].slot = j) \/ Alike(snapshots'[j], queued'[j])
      <3>1. CASE j = i
        <4>1. k + 1 \in 1..k + 1
          BY <1>3 DEF k
        <4> QED BY <1>4, <1>5, <3>1, <4>1
      <3>2. CASE j # i
        <4>1. (\E n \in 1..k : saving[n].slot = j) \/ Alike(snapshots[j], queued[j])
          BY <1>3, <1>7, <2>2, <3>2 DEF EntryInv, Written
        <4>2. \A n \in 1..k : n \in 1..k + 1
          BY <1>3 DEF k
        <4> QED BY <1>5, <1>7, <3>2, <4>1, <4>2
      <3> QED BY <3>1, <3>2
    <2> QED BY <1>5, <1>6, <2>1, <2>2 DEF Written
  <1> QED BY <1>8, <1>10, <1>11 DEF EntryInv

(* What the page shows in a slot may only be visited again. *)
Typed(snaps) ==
    /\ DOMAIN snaps = Slots
    /\ \A j \in Slots : snaps[j] \in Snapshot(test[j]) \cup {None}

Kept(new, old) ==
    new # None /\ new.payload = old.payload /\ new.marked = old.marked /\ new.visits >= old.visits

LEMMA ArriveEffect ==
    ASSUME test \in Tests, NEW i \in Slots, NEW snaps, Typed(snaps), Arrive(i, snaps)
    PROVE  /\ DOMAIN snapshots' = Slots
           /\ \A j \in Slots : /\ snapshots'[j] \in Snapshot(test[j]) \cup {None}
                               /\ snaps[j] # None => Kept(snapshots'[j], snaps[j])
           /\ visited' = visited \cup {i} /\ current' = i
  <1> DEFINE prev == IF snaps[i] = None THEN Blank ELSE snaps[i]
             next == [prev EXCEPT !.visits = @ + 1]
             new == [snaps EXCEPT ![i] = next]
  <1>1. /\ visited' = visited \cup {i} /\ current' = i
        /\ snapshots' = IF i \in visited /\ snaps[i] = None THEN snaps ELSE new
    BY DEF Arrive
  <1>2. prev \in Snapshot(test[i])
    BY BlankFits DEF Typed
  <1>3. None \notin Snapshot(test[i])
    BY TestFacts
  <1>4. next \in Snapshot(test[i]) /\ Kept(next, prev)
    <2> HIDE DEF prev
    <2>1. prev.visits \in Nat
      BY <1>2, SnapshotWith
    <2> DEFINE k == prev.visits + 1
    <2>2. k \in Nat /\ k >= prev.visits
      BY <2>1
    <2>3. next = [prev EXCEPT !.visits = k]
      OBVIOUS
    <2> HIDE DEF k, next
    <2>4. /\ next \in Snapshot(test[i]) /\ next.visits = k
          /\ next.payload = prev.payload /\ next.marked = prev.marked
      BY <1>2, <2>2, <2>3, SnapshotWith
    <2> QED BY <1>3, <2>2, <2>4 DEF Kept
  <1>5. snaps[i] # None => prev = snaps[i]
    OBVIOUS
  <1> HIDE DEF prev, next
  <1>6. /\ DOMAIN new = Slots /\ new[i] = next
        /\ \A j \in Slots : j # i => new[j] = snaps[j]
    BY DEF Typed
  <1>7. \A j \in Slots : snaps[j] # None => Kept(snaps[j], snaps[j])
    <2> TAKE j \in Slots
    <2> HAVE snaps[j] # None
    <2>1. snaps[j] \in Snapshot(test[j])
      BY DEF Typed
    <2>2. snaps[j].visits \in Nat
      BY <2>1, SnapshotWith
    <2> QED BY <2>2 DEF Kept
  <1> HIDE DEF new
  <1>8. CASE i \in visited /\ snaps[i] = None
    BY <1>1, <1>7, <1>8 DEF Typed
  <1>9. CASE ~ (i \in visited /\ snaps[i] = None)
    <2>1. snapshots' = new
      BY <1>1, <1>9
    <2>2. ASSUME NEW j \in Slots
          PROVE  /\ new[j] \in Snapshot(test[j]) \cup {None}
                 /\ snaps[j] # None => Kept(new[j], snaps[j])
      <3>1. CASE j = i
        BY <1>4, <1>5, <1>6, <3>1
      <3>2. CASE j # i
        BY <1>6, <1>7, <3>2 DEF Typed
      <3> QED BY <3>1, <3>2
    <2> QED BY <1>1, <1>6, <2>1, <2>2
  <1> QED BY <1>8, <1>9

LEMMA StillAlike ==
    ASSUME test \in Tests, NEW j \in Slots, NEW new, NEW old \in Snapshot(test[j]), NEW sent,
           new \in Snapshot(test[j]) \cup {None}, Alike(old, sent), Kept(new, old)
    PROVE  Alike(new, sent)
  <1>1. old.visits \in Nat
    BY SnapshotWith
  <1>2. new \in Snapshot(test[j])
    BY DEF Kept
  <1>3. new.visits \in Nat
    BY <1>2, SnapshotWith
  <1> QED BY <1>1, <1>3 DEF Alike, Kept

(* A jump: by the palette or a chip of the dialog. *)
LEMMA ArriveKeeps ==
    ASSUME EntryInv, NEW i \in Slots, Arrive(i, snapshots), UNCHANGED <<test, saving, queued, submit>>,
           dialog' \in [open : BOOLEAN, step : 1..2], used' \in [saves : Nat, moves : Nat]
    PROVE  EntryInv'
  <1>1. test \in Tests /\ Typed(snapshots)
    BY DEF EntryInv, TypeOK, Typed
  <1>2. /\ DOMAIN snapshots' = Slots
        /\ \A j \in Slots : /\ snapshots'[j] \in Snapshot(test[j]) \cup {None}
                            /\ snapshots[j] # None => Kept(snapshots'[j], snapshots[j])
        /\ visited' = visited \cup {i} /\ current' = i
    BY <1>1, ArriveEffect
  <1>3. Slots' = Slots /\ Saves' = Saves /\ test' = test /\ saving' = saving /\ queued' = queued
    BY DEF Slots, Saves
  <1>4. TypeOK'
    <2>1. \A j \in Slots' : {snapshots'[j], queued'[j]} \subseteq Snapshot(test'[j]) \cup {None}
      BY <1>2, <1>3 DEF EntryInv, TypeOK
    <2>2. \A n \in DOMAIN saving' :
             /\ saving'[n].slot \in Slots' /\ saving'[n].from \in Slots'
             /\ saving'[n].advance \in BOOLEAN
             /\ saving'[n].snap \in Snapshot(test'[saving'[n].slot])
      BY <1>3 DEF EntryInv, TypeOK
    <2>3. /\ test' \in Tests /\ current' \in Slots' /\ visited' \subseteq Slots'
          /\ DOMAIN snapshots' = Slots' /\ DOMAIN queued' = Slots'
          /\ submit' \in {"IDLE", "AUTO_SUBMITTING", "SUBMITTED"}
      BY <1>2, <1>3 DEF EntryInv, TypeOK
    <2> QED BY <2>1, <2>2, <2>3 DEF TypeOK
  <1>5. Entered'
    BY <1>3 DEF EntryInv, Entered
  <1>6. Written'
    <2>1. \A j \in Slots', n \in DOMAIN saving' : Latest(j, n)' => saving'[n].snap = queued'[j]
      BY <1>3 DEF EntryInv, Written, Latest
    <2>2. ASSUME NEW j \in Slots, queued[j] # None
          PROVE  (\E n \in DOMAIN saving : saving[n].slot = j) \/ Alike(snapshots'[j], queued[j])
      <3>1. CASE Alike(snapshots[j], queued[j])
        <4>1. snapshots[j] # None
          BY <3>1 DEF Alike
        <4>2. snapshots[j] \in Snapshot(test[j])
          BY <1>1, <4>1 DEF Typed
        <4> QED BY <1>1, <1>2, <3>1, <4>1, <4>2, StillAlike
      <3>2. CASE ~ Alike(snapshots[j], queued[j])
        BY <2>2, <3>2 DEF EntryInv, Written
      <3> QED BY <3>1, <3>2
    <2> QED BY <1>3, <2>1, <2>2 DEF Written
  <1> QED BY <1>4, <1>5, <1>6 DEF EntryInv

(* A step of the dialog or of the submit. *)
LEMMA DialogKeeps ==
    ASSUME EntryInv, UNCHANGED Entries, dialog' \in [open : BOOLEAN, step : 1..2],
           submit' \in {"IDLE", "AUTO_SUBMITTING", "SUBMITTED"}
    PROVE  EntryInv'
  <1>1. /\ test' = test /\ snapshots' = snapshots /\ visited' = visited /\ current' = current
        /\ saving' = saving /\ queued' = queued /\ used' = used
    BY DEF Entries
  <1>2. Slots' = Slots /\ Saves' = Saves
    BY <1>1 DEF Slots, Saves
  <1>3. TypeOK'
    BY <1>1, <1>2 DEF EntryInv, TypeOK
  <1>4. Entered'
    BY <1>1, <1>2 DEF EntryInv, Entered
  <1>5. Written'
    BY <1>1, <1>2 DEF EntryInv, Written, Latest
  <1> QED BY <1>3, <1>4, <1>5 DEF EntryInv

(* saveSnapshot after its await: the first save that is out comes back. *)
LEMMA SavedKeeps ==
    ASSUME EntryInv, Saved
    PROVE  EntryInv'
  <1> DEFINE k == Len(saving)
             save == saving[1]
             s == save.slot
             snaps == [snapshots EXCEPT ![s] = save.snap]
  <1>1. /\ saving \in Seq(Saves) /\ saving # <<>> /\ k \in Nat /\ k >= 1 /\ DOMAIN saving = 1..k
        /\ 1 \in 1..k
    BY DEF EntryInv, Entered, Saved
  <1>2. /\ Head(saving) = save /\ saving' = Tail(saving)
        /\ test' = test /\ queued' = queued /\ dialog' = dialog /\ submit' = submit /\ used' = used
    BY <1>1 DEF Saved
  <1>3. /\ saving' \in Seq(Saves) /\ DOMAIN saving' = 1..k - 1
        /\ \A n \in 1..k - 1 : saving'[n] = saving[n + 1] /\ n + 1 \in 1..k
    BY <1>1, <1>2
  <1>4. /\ s \in Slots /\ save.from \in Slots /\ save.snap \in Snapshot(test[s])
        /\ save.snap.visits > 0
    BY <1>1 DEF EntryInv, TypeOK, Entered
  <1>5. test \in Tests /\ Typed(snapshots) /\ current \in Slots /\ visited \subseteq Slots
    BY DEF EntryInv, TypeOK, Typed
  <1>6. None \notin Snapshot(test[s]) /\ Slots = 1..Len(test) /\ Len(test) \in Nat
    BY <1>4, <1>5, TestFacts
  <1>7. IF save.advance /\ save.from < Len(test)
        THEN Arrive(save.from + 1, snaps)
        ELSE snapshots' = snaps /\ visited' = visited /\ current' = current
    BY <1>2 DEF Saved
  <1>8. /\ Typed(snaps) /\ snaps[s] = save.snap
        /\ \A j \in Slots : j # s => snaps[j] = snapshots[j]
    BY <1>4, <1>5 DEF Typed
  <1> HIDE DEF snaps
  <1>9. /\ DOMAIN snapshots' = Slots
        /\ \A j \in Slots : /\ snapshots'[j] \in Snapshot(test[j]) \cup {None}
                            /\ snaps[j] # None => Kept(snapshots'[j], snaps[j])
        /\ visited' \subseteq Slots /\ current' \in Slots
    <2>1. CASE save.advance /\ save.from < Len(test)
      <3> DEFINE i == save.from + 1
      <3>1. i \in Slots
        BY <1>4, <1>6, <2>1
      <3>2. Arrive(i, snaps)
        BY <1>7, <2>1
      <3> HIDE DEF i
      <3>3. /\ DOMAIN snapshots' = Slots
            /\ \A j \in Slots : /\ snapshots'[j] \in Snapshot(test[j]) \cup {None}
                                /\ snaps[j] # None => Kept(snapshots'[j], snaps[j])
            /\ visited' = visited \cup {i} /\ current' = i
        BY <1>5, <1>8, <3>1, <3>2, ArriveEffect
      <3> QED BY <1>5, <3>1, <3>3
    <2>2. CASE ~ (save.advance /\ save.from < Len(test))
      <3>1. snapshots' = snaps /\ visited' = visited /\ current' = current
        BY <1>7, <2>2
      <3>2. \A j \in Slots : snaps[j] # None => Kept(snaps[j], snaps[j])
        <4> TAKE j \in Slots
        <4> HAVE snaps[j] # None
        <4>1. snaps[j] \in Snapshot(test[j])
          BY <1>8 DEF Typed
        <4>2. snaps[j].visits \in Nat
          BY <4>1, SnapshotWith
        <4> QED BY <4>2 DEF Kept
      <3> QED BY <1>5, <1>8, <3>1, <3>2 DEF Typed
    <2> QED BY <2>1, <2>2
  <1>10. Slots' = Slots /\ Saves' = Saves
    BY <1>2 DEF Slots, Saves
  <1>11. TypeOK'
    <2>1. \A j \in Slots' : {snapshots'[j], queued'[j]} \subseteq Snapshot(test'[j]) \cup {None}
      BY <1>2, <1>9, <1>10 DEF EntryInv, TypeOK
    <2>2. \A n \in DOMAIN saving' :
             /\ saving'[n].slot \in Slots' /\ saving'[n].from \in Slots'
             /\ saving'[n].advance \in BOOLEAN
             /\ saving'[n].snap \in Snapshot(test'[saving'[n].slot])
      BY <1>1, <1>2, <1>3, <1>10 DEF EntryInv, TypeOK
    <2>3. /\ test' \in Tests /\ current' \in Slots' /\ visited' \subseteq Slots'
          /\ DOMAIN snapshots' = Slots' /\ DOMAIN queued' = Slots'
          /\ submit' \in {"IDLE", "AUTO_SUBMITTING", "SUBMITTED"}
          /\ dialog' \in [open : BOOLEAN, step : 1..2]
          /\ used' \in [saves : Nat, moves : Nat]
      BY <1>2, <1>9, <1>10 DEF EntryInv, TypeOK
    <2> QED BY <2>1, <2>2, <2>3 DEF TypeOK
  <1>12. Entered'
    BY <1>1, <1>2, <1>3, <1>10 DEF EntryInv, Entered
  <1>13. Written'
    <2>1. ASSUME NEW j \in Slots, NEW n \in 1..k - 1, Latest(j, n)'
          PROVE  saving'[n].snap = queued[j]
      <3>1. saving'[n] = saving[n + 1] /\ n + 1 \in 1..k
        BY <1>3
      <3>2. ASSUME NEW m \in 1..k, saving[m].slot = j
            PROVE  m <= n + 1
        <4>1. CASE m = 1
          BY <4>1
        <4>2. CASE m # 1
          <5>1. m - 1 \in 1..k - 1 /\ (m - 1) + 1 = m
            BY <1>1, <4>2
          <5>2. saving'[m - 1].slot = j
            BY <1>3, <3>2, <5>1
          <5>3. m - 1 <= n
            BY <1>3, <2>1, <5>1, <5>2 DEF Latest
          <5> QED BY <5>3
        <4> QED BY <4>1, <4>2
      <3>3. saving[n + 1].slot = j
        BY <2>1, <3>1 DEF Latest
      <3>4. Latest(j, n + 1)
        BY <1>1, <3>1, <3>2, <3>3 DEF Latest
      <3>5. saving[n + 1].snap = queued[j]
        BY <1>1, <3>1, <3>4 DEF EntryInv, Written
      <3> QED BY <3>1, <3>5
    <2>2. ASSUME NEW j \in Slots, queued[j] # None
          PROVE  (\E n \in 1..k - 1 : saving'[n].slot = j) \/ Alike(snapshots'[j], queued[j])
      <3> SUFFICES ASSUME \A n \in 1..k - 1 : saving'[n].slot # j
                   PROVE  Alike(snapshots'[j], queued[j])
        OBVIOUS
      <3>1. \A m \in 1..k : saving[m].slot = j => m = 1
        <4> SUFFICES ASSUME NEW m \in 1..k, saving[m].slot = j, m # 1 PROVE FALSE
          OBVIOUS
        <4>1. m - 1 \in 1..k - 1 /\ (m - 1) + 1 = m
          BY <1>1
        <4> QED BY <1>3, <4>1
      <3>2. snaps[j] # None /\ Alike(snaps[j], queued[j])
        <4>1. CASE j = s
          <5>1. Latest(j, 1)
            BY <1>1, <3>1, <4>1 DEF Latest
          <5>2. save.snap = queued[j]
            BY <1>1, <5>1 DEF EntryInv, Written
          <5> QED BY <1>4, <1>6, <1>8, <4>1, <5>2 DEF Alike
        <4>2. CASE j # s
          <5>1. \A n \in DOMAIN saving : saving[n].slot # j
            BY <1>1, <3>1, <4>2
          <5>2. Alike(snapshots[j], queued[j])
            BY <2>2, <5>1 DEF EntryInv, Written
          <5> QED BY <1>8, <4>2, <5>2 DEF Alike
        <4> QED BY <4>1, <4>2
      <3>3. snaps[j] \in Snapshot(test[j])
        BY <1>8, <3>2 DEF Typed
      <3> QED BY <1>5, <1>9, <3>2, <3>3, StillAlike
    <2> QED BY <1>2, <1>3, <1>10, <2>1, <2>2 DEF Written
  <1> QED BY <1>11, <1>12, <1>13 DEF EntryInv

LEMMA PrevFits ==
    ASSUME EntryInv, NEW i \in Slots
    PROVE  Prev(i) \in Snapshot(test[i])
  <1>1. snapshots[i] \in Snapshot(test[i]) \cup {None}
    BY DEF EntryInv, TypeOK
  <1> QED BY <1>1, BlankFits DEF Prev

LEMMA ChangeKeeps ==
    ASSUME EntryInv, NEW payload \in Payload(Question), Change(payload)
    PROVE  EntryInv'
  <1>1. current \in Slots /\ Question = test[current]
    BY DEF EntryInv, TypeOK, Question
  <1> DEFINE snap == [Prev(current) EXCEPT !.payload = payload]
  <1>2. snap \in Snapshot(test[current])
    <2> DEFINE prev == Prev(current)
    <2>1. prev \in Snapshot(test[current])
      BY <1>1, PrevFits
    <2> HIDE DEF prev
    <2>2. [prev EXCEPT !.payload = payload] \in Snapshot(test[current])
      BY <1>1, <2>1, SnapshotWith
    <2> QED BY <2>2 DEF prev
  <1>3. Save(current, snap, FALSE) /\ UNCHANGED current /\ UNCHANGED <<test, dialog, submit>>
    BY DEF Change, Page
  <1> HIDE DEF snap
  <1> QED BY <1>1, <1>2, <1>3, SaveKeeps

LEMMA MarkKeeps ==
    ASSUME EntryInv, NEW i \in Slots, NEW b \in BOOLEAN, NEW advance \in BOOLEAN,
           Page, Save(i, [Prev(i) EXCEPT !.marked = b], advance), current' \in Slots
    PROVE  EntryInv'
  <1> DEFINE prev == Prev(i)
             snap == [prev EXCEPT !.marked = b]
  <1>1. prev \in Snapshot(test[i])
    BY PrevFits
  <1> HIDE DEF prev
  <1>2. snap \in Snapshot(test[i])
    BY <1>1, SnapshotWith
  <1>3. Save(i, snap, advance) /\ UNCHANGED <<test, dialog, submit>>
    BY DEF Page, prev
  <1> HIDE DEF snap
  <1> QED BY <1>2, <1>3, SaveKeeps

LEMMA AnsweringKeeps ==
    ASSUME EntryInv, Answering
    PROVE  EntryInv'
  <1>1. current \in Slots /\ Question = test[current] /\ Question \in Questions
    BY TestFacts DEF EntryInv, TypeOK, Question
  <1>2. Value \in Payload(Question)
    <2>1. snapshots[current] \in Snapshot(Question) \cup {None}
      BY <1>1 DEF EntryInv, TypeOK
    <2> QED BY <1>1, <2>1, ShownFits DEF Value
  <1>3. ASSUME NEW key \in Keys, Press(key) PROVE EntryInv'
    <2> DEFINE v == Value.value
               w == ApplyKey(v, key)
               payload == [value |-> w]
    <2>1. Numeric(Question) /\ ~ Refused(v, key, Question) /\ Change(payload)
      BY <1>3 DEF Press
    <2>2. v \in Num /\ Within(v, Question)
      BY <1>1, <1>2, <2>1, NumericPayload
    <2> HIDE DEF v
    <2>3. w \in Num /\ Within(w, Question)
      BY <1>1, <2>1, <2>2, KeyFits
    <2> HIDE DEF w
    <2>4. payload \in Payload(Question)
      BY <1>1, <2>1, <2>3, NumericPayload
    <2> HIDE DEF payload
    <2> QED BY <2>1, <2>4, ChangeKeeps
  <1>4. ASSUME NEW text \in Pastes, Paste(text) PROVE EntryInv'
    <2> DEFINE w == ApplyPaste(text, Question)
               payload == [value |-> w]
    <2>1. Numeric(Question) /\ Change(payload)
      BY <1>4 DEF Paste
    <2>2. w \in Num /\ Within(w, Question)
      BY <1>1, <2>1, PasteFits
    <2> HIDE DEF w
    <2>3. payload \in Payload(Question)
      BY <1>1, <2>1, <2>2, NumericPayload
    <2> HIDE DEF payload
    <2> QED BY <2>1, <2>3, ChangeKeeps
  <1>5. ASSUME NEW o \in 0..4, o < Question.options, Choose(o) PROVE EntryInv'
    <2>1. Question.type = "MCQ-SC" /\ Change([option |-> o])
      BY <1>5 DEF Choose
    <2>2. \A q \in Questions : \A v \in Payload(q) :
             q.type = "MCQ-SC" /\ o < q.options => [option |-> o] \in Payload(q)
      <3> TAKE q \in Questions
      <3> TAKE v \in Payload(q)
      <3>1. o \in Nat
        OBVIOUS
      <3> QED BY <3>1, ChoicePayload
    <2>3. [option |-> o] \in Payload(Question)
      BY <1>1, <1>2, <1>5, <2>1, <2>2
    <2> QED BY <2>1, <2>3, ChangeKeeps
  <1>6. ASSUME NEW o \in 0..4, o < Question.options, Toggle(o) PROVE EntryInv'
    <2> DEFINE value == Value
               payload == [options |-> (value.options \cup {o}) \ (value.options \cap {o})]
    <2>1. Question.type = "MCQ-MC" /\ Change(payload)
      BY <1>6 DEF Toggle
    <2>2. value \in Payload(Question)
      BY <1>2
    <2> HIDE DEF value
    <2>3. payload \in Payload(Question)
      <3> DEFINE q == Question
      <3>1. o \in Nat /\ q \in Questions /\ value \in Payload(q) /\ q.type = "MCQ-MC" /\ o < q.options
        BY <1>1, <1>6, <2>1, <2>2
      <3> HIDE DEF q
      <3>2. payload \in Payload(q)
        BY <3>1, ChoicePayload
      <3> QED BY <3>2 DEF q
    <2> HIDE DEF payload
    <2> QED BY <2>1, <2>3, ChangeKeeps
  <1>7. ASSUME Question.type = "MAT-COL", NEW row \in 0..Question.rows - 1,
               NEW pick \in 0..Question.picks - 1 \cup {None}, Match(row, pick)
        PROVE  EntryInv'
    <2> DEFINE value == Value
               payload == [pairs |-> [r \in DOMAIN value.pairs \cup {row} |->
                                         IF r = row THEN pick ELSE value.pairs[r]]]
    <2>1. Change(payload)
      BY <1>7 DEF Match
    <2>2. value \in Payload(Question)
      BY <1>2
    <2> HIDE DEF value
    <2>3. payload \in Payload(Question)
      BY <1>1, <1>7, <2>2, PairsPayload
    <2> HIDE DEF payload
    <2> QED BY <2>1, <2>3, ChangeKeeps
  <1>8. ASSUME Change(EmptyPayload(Question)) PROVE EntryInv'
    <2>1. EmptyPayload(Question) \in Payload(Question)
      BY <1>1, EmptyPayloadFits
    <2> QED BY <1>8, <2>1, ChangeKeeps
  <1> QED BY <1>3, <1>4, <1>5, <1>6, <1>7, <1>8 DEF Answering

LEMMA EntryStep ==
    ASSUME EntryInv, [Next]_vars
    PROVE  EntryInv'
  <1>1. current \in Slots
    BY DEF EntryInv, TypeOK
  <1>2. \A i \in Slots : Prev(i).marked \in BOOLEAN
    <2> TAKE i \in Slots
    <2> DEFINE prev == Prev(i)
    <2>1. prev \in Snapshot(test[i])
      BY PrevFits
    <2> HIDE DEF prev
    <2>2. prev.marked \in BOOLEAN
      BY <2>1, SnapshotWith
    <2> QED BY <2>2 DEF prev
  <1>3. CASE Answering
    BY <1>3, AnsweringKeeps
  <1>4. CASE ToggleMark
    <2> DEFINE b == ~ Prev(current).marked
    <2>1. Page /\ UNCHANGED current /\ Save(current, [Prev(current) EXCEPT !.marked = b], FALSE)
      BY <1>4 DEF ToggleMark
    <2>2. b \in BOOLEAN
      OBVIOUS
    <2> HIDE DEF b
    <2> QED BY <1>1, <2>1, <2>2, MarkKeeps
  <1>5. CASE Saved
    BY <1>5, SavedKeeps
  <1>6. ASSUME NEW mark \in BOOLEAN, SaveAndNext(mark) PROVE EntryInv'
    <2> DEFINE b == Prev(current).marked \/ mark
    <2>1. Page /\ UNCHANGED current /\ Save(current, [Prev(current) EXCEPT !.marked = b], TRUE)
      BY <1>6 DEF SaveAndNext
    <2>2. b \in BOOLEAN
      OBVIOUS
    <2> HIDE DEF b
    <2> QED BY <1>1, <2>1, <2>2, MarkKeeps
  <1>7. ASSUME NEW i \in Slots, Jump(i) PROVE EntryInv'
    <2>1. /\ Arrive(i, snapshots) /\ UNCHANGED <<test, saving, queued, submit>>
          /\ dialog' = dialog /\ used' = [used EXCEPT !.moves = @ + 1]
      BY <1>7 DEF Jump, Page
    <2>2. dialog' \in [open : BOOLEAN, step : 1..2] /\ used' \in [saves : Nat, moves : Nat]
      BY <2>1 DEF EntryInv, TypeOK
    <2> QED BY <2>1, <2>2, ArriveKeeps
  <1>8. ASSUME NEW i \in Slots, PaletteMark(i) PROVE EntryInv'
    <2> DEFINE b == ~ Prev(i).marked
    <2>1. Page /\ current' = i /\ Save(i, [Prev(i) EXCEPT !.marked = b], FALSE)
      BY <1>8 DEF PaletteMark
    <2>2. b \in BOOLEAN
      OBVIOUS
    <2> HIDE DEF b
    <2> QED BY <2>1, <2>2, MarkKeeps
  <1>9. ASSUME NEW i \in Slots, Chip(i) PROVE EntryInv'
    <2>1. /\ Arrive(i, snapshots) /\ UNCHANGED <<test, saving, queued, submit>>
          /\ dialog' = [open |-> FALSE, step |-> 1] /\ used' = [used EXCEPT !.moves = @ + 1]
      BY <1>9 DEF Chip
    <2>2. dialog' \in [open : BOOLEAN, step : 1..2] /\ used' \in [saves : Nat, moves : Nat]
      BY <2>1 DEF EntryInv, TypeOK
    <2> QED BY <2>1, <2>2, ArriveKeeps
  <1>10. CASE OpenDialog \/ SubmitNow \/ Cancel \/ Confirm \/ SubmitEnds
    <2>1. UNCHANGED Entries
      BY <1>10 DEF OpenDialog, SubmitNow, Cancel, Confirm, SubmitEnds, Entries
    <2> DEFINE D == [open : BOOLEAN, step : 1..2]
               S == {"IDLE", "AUTO_SUBMITTING", "SUBMITTED"}
    <2>2. dialog' \in D /\ submit' \in S
      <3>1. dialog \in D /\ submit \in S
        BY DEF EntryInv, TypeOK
      <3>2. CASE OpenDialog
        BY <3>1, <3>2 DEF OpenDialog
      <3>3. CASE SubmitNow
        <4>1. dialog' = [open |-> dialog.open, step |-> 2] /\ dialog.open = TRUE /\ submit' = submit
          BY <3>1, <3>3 DEF SubmitNow
        <4>2. 2 \in 1..2
          OBVIOUS
        <4> QED BY <3>1, <4>1, <4>2
      <3>4. CASE Cancel
        BY <3>1, <3>4 DEF Cancel
      <3>5. CASE Confirm
        BY <3>1, <3>5 DEF Confirm
      <3>6. CASE SubmitEnds
        BY <3>1, <3>6 DEF SubmitEnds
      <3> QED BY <1>10, <3>2, <3>3, <3>4, <3>5, <3>6
    <2> QED BY <2>1, <2>2, DialogKeeps
  <1>11. CASE UNCHANGED vars
    <2>1. UNCHANGED Entries /\ dialog' = dialog /\ submit' = submit
      BY <1>11 DEF vars, Entries
    <2>2. /\ dialog' \in [open : BOOLEAN, step : 1..2]
          /\ submit' \in {"IDLE", "AUTO_SUBMITTING", "SUBMITTED"}
      BY <2>1 DEF EntryInv, TypeOK
    <2> QED BY <2>1, <2>2, DialogKeeps
  <1> QED BY <1>3, <1>4, <1>5, <1>6, <1>7, <1>8, <1>9, <1>10, <1>11 DEF Next

(* The page's state and the queue's, of every paper and however long the   *)
(* student works: EntryInv holds.                                          *)
THEOREM EntryInvariant == Spec => []EntryInv
  <1>1. Init => EntryInv
    BY EntryInit
  <1>2. EntryInv /\ [Next]_vars => EntryInv'
    BY EntryStep
  <1> QED BY <1>1, <1>2, PTL DEF Spec

(* Every answer on the page, in a save and in the queue fits its question: *)
(* numeric-input.ts lets no text pass that its question does not allow.    *)
THEOREM EntryTypes == Spec => []TypeOK
  <1>1. EntryInv => TypeOK
    BY DEF EntryInv
  <1> QED BY <1>1, EntryInvariant, PTL

-----------------------------------------------------------------------------
(* What is shown, and what is graded *)

LEMMA SameCounts ==
    ASSUME NEW a, NEW b, \A i \in Slots : Status(i, a[i]) = Status(i, b[i])
    PROVE  Counts(a) = Counts(b)
  <1> DEFINE A(s) == {i \in Slots : Status(i, a[i]) = s}
             B(s) == {i \in Slots : Status(i, b[i]) = s}
  <1>1. \A s : A(s) = B(s)
    OBVIOUS
  <1> HIDE DEF A, B
  <1>2. /\ Counts(a) = [s \in {"ANSWERED", "ANSWERED_AND_MARKED", "MARKED_FOR_REVIEW",
                               "VISITED_NOT_ANSWERED", "NOT_VISITED"} |-> A(s)]
        /\ Counts(b) = [s \in {"ANSWERED", "ANSWERED_AND_MARKED", "MARKED_FOR_REVIEW",
                               "VISITED_NOT_ANSWERED", "NOT_VISITED"} |-> B(s)]
    BY DEF Counts, A, B
  <1> QED BY <1>1, <1>2

LEMMA SameStatus ==
    ASSUME NEW i, NEW a, NEW b, a # None, b # None, a.visits > 0, b.visits > 0,
           a.payload = b.payload, a.marked = b.marked
    PROVE  Status(i, a) = Status(i, b)
  <1>1. a.visits # 0 /\ b.visits # 0
    OBVIOUS
  <1>2. IsAnswered(test[i], a.payload) = IsAnswered(test[i], b.payload)
    OBVIOUS
  <1> DEFINE of(snap) ==
                 LET answered == IsAnswered(test[i], snap.payload)
                 IN  CASE snap.marked /\ answered -> "ANSWERED_AND_MARKED"
                       [] snap.marked /\ ~answered -> "MARKED_FOR_REVIEW"
                       [] ~snap.marked /\ answered -> "ANSWERED"
                       [] OTHER -> "VISITED_NOT_ANSWERED"
  <1>3. of(a) = of(b)
    BY <1>2
  <1>4. Status(i, a) = of(a) /\ Status(i, b) = of(b)
    BY <1>1 DEF Status
  <1> QED BY <1>3, <1>4

(* Whatever order renders, saves and jumps come in: when no save is out,   *)
(* the page shows what it queued, and the dialog counts it.                *)
THEOREM ShownIsQueuedHolds == Spec => []ShownIsQueued
  <1>1. EntryInv => ShownIsQueued
    <2> SUFFICES ASSUME EntryInv, saving = <<>> PROVE ShownIsQueued
      BY DEF ShownIsQueued
    <2> DEFINE sent == [i \in Slots |-> IF queued[i] = None THEN snapshots[i] ELSE queued[i]]
    <2>1. \A i \in Slots : queued[i] # None => Alike(snapshots[i], queued[i]) /\ queued[i].visits > 0
      BY DEF EntryInv, Entered, Written
    <2>2. \A i \in Slots : sent[i] = IF queued[i] = None THEN snapshots[i] ELSE queued[i]
      OBVIOUS
    <2> HIDE DEF sent
    <2>3. ASSUME NEW i \in Slots PROVE Status(i, snapshots[i]) = Status(i, sent[i])
      <3>1. CASE queued[i] = None
        BY <2>2, <3>1
      <3>2. CASE queued[i] # None
        <4>1. sent[i] = queued[i] /\ Alike(snapshots[i], sent[i]) /\ sent[i].visits > 0 /\ sent[i] # None
          BY <2>1, <2>2, <3>2
        <4> QED BY <4>1, SameStatus DEF Alike
      <3> QED BY <3>1, <3>2
    <2>4. Counts(snapshots) = Counts(sent)
      BY <2>3, SameCounts
    <2>5. \A i \in Slots : queued[i] # None =>
             snapshots[i].payload = sent[i].payload /\ snapshots[i].marked = sent[i].marked
      BY <2>1, <2>2 DEF Alike
    <2> QED BY <2>4, <2>5 DEF ShownIsQueued, sent
  <1> QED BY <1>1, EntryInvariant, PTL

(* Two texts compare equal exactly if they have one rounding. *)
LEMMA SameRounding ==
    ASSUME NEW v \in Num, NEW a \in Num, NEW p \in Nat
    PROVE  Normalized(v, p) = Normalized(a, p)
             <=> \E m \in -(Rounded(a, p) + 1)..Rounded(a, p) + 1 : Rounds(m, v, p) /\ Rounds(m, a, p)
  <1> DEFINE r == Rounded(v, p)
             t == Rounded(a, p)
             x == Signed(v.neg, r)
             y == Signed(a.neg, t)
  <1>1. /\ r \in Nat /\ \A m \in Int : Rounds(m, v, p) <=> m = x
        /\ t \in Nat /\ \A m \in Int : Rounds(m, a, p) <=> m = y
    <2>1. ASSUME NEW m \in Int
          PROVE  /\ r \in Nat /\ t \in Nat
                 /\ Rounds(m, v, p) <=> m = x
                 /\ Rounds(m, a, p) <=> m = y
      BY RoundedIsNearest
    <2>2. 0 \in Int
      OBVIOUS
    <2> HIDE DEF r, t, x, y
    <2> QED BY <2>1, <2>2
  <1>2. v.neg \in BOOLEAN /\ a.neg \in BOOLEAN
    BY DEF Num
  <1>3. Normalized(v, p) = [neg |-> v.neg /\ r # 0, digits |-> r]
        /\ Normalized(a, p) = [neg |-> a.neg /\ t # 0, digits |-> t]
    BY DEF Normalized
  <1> HIDE DEF r, t
  <1>4. y \in -(t + 1)..t + 1 /\ y \in Int /\ x \in Int
    BY <1>1 DEF Signed
  <1>5. Normalized(v, p) = Normalized(a, p) <=> r = t /\ ((v.neg /\ r # 0) <=> (a.neg /\ t # 0))
    BY <1>2, <1>3
  <1>6. r = t /\ ((v.neg /\ r # 0) <=> (a.neg /\ t # 0)) <=> x = y
    <2>1. CASE v.neg /\ a.neg
      BY <1>1, <2>1 DEF Signed
    <2>2. CASE v.neg /\ ~ a.neg
      BY <1>1, <2>2 DEF Signed
    <2>3. CASE ~ v.neg /\ a.neg
      BY <1>1, <2>3 DEF Signed
    <2>4. CASE ~ v.neg /\ ~ a.neg
      BY <1>1, <2>4 DEF Signed
    <2> QED BY <1>2, <2>1, <2>2, <2>3, <2>4
  <1> HIDE DEF x, y
  <1>7. (\E m \in -(t + 1)..t + 1 : Rounds(m, v, p) /\ Rounds(m, a, p)) <=> x = y
    BY <1>1, <1>4
  <1> QED BY <1>5, <1>6, <1>7 DEF t

(* The comparison of texts in gradeAnswer is the comparison of the values, *)
(* for every precision and every authored answer.                          *)
THEOREM GradedByValueHolds == Spec => []GradedByValue
  <1>1. EntryInv => GradedByValue
    <2> SUFFICES ASSUME EntryInv, NEW i \in Slots, test[i].type = "NUM-DEC",
                        queued[i] # None, queued[i].payload # None
                 PROVE  LET q == test[i]
                            v == queued[i].payload.value
                            n == Rounded(q.answer, q.precision) + 1
                        IN  Graded(q, queued[i].payload)
                            <=> Readable(v) /\ \E m \in -n..n :
                                   Rounds(m, v, q.precision) /\ Rounds(m, q.answer, q.precision)
      BY DEF GradedByValue
    <2> DEFINE q == test[i]
               payload == queued[i].payload
               v == payload.value
               a == q.answer
               p == q.precision
    <2>1. q \in Questions /\ payload \in Payload(q) /\ Numeric(q)
      <3>1. queued[i] \in Snapshot(test[i])
        BY DEF EntryInv, TypeOK
      <3>2. payload \in Payload(q)
        BY <3>1 DEF Snapshot
      <3> QED BY <3>2, TestFacts DEF EntryInv, TypeOK, Numeric
    <2>2. a \in Num /\ p \in Nat /\ q.type = "NUM-DEC" /\ payload # None
      BY <2>1 DEF Questions
    <2> HIDE DEF q, payload
    <2>3. v \in Num
      BY <2>1, NumericPayload
    <2>4. Graded(q, payload) <=> Readable(v) /\ Normalized(v, p) = Normalized(a, p)
      BY <2>2 DEF Graded
    <2> HIDE DEF v, a, p
    <2>5. Normalized(v, p) = Normalized(a, p)
            <=> \E m \in -(Rounded(a, p) + 1)..Rounded(a, p) + 1 : Rounds(m, v, p) /\ Rounds(m, a, p)
      BY <2>2, <2>3, SameRounding
    <2> QED BY <2>4, <2>5 DEF q, payload, v, a, p
  <1> QED BY <1>1, EntryInvariant, PTL
=============================================================================
