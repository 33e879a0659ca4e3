----------------------------- MODULE SumProofs -----------------------------
(***************************************************************************)
(* What Prefix computes, for any sequence of numbers.  Prefix is a         *)
(* recursive function, and facts about it are proved by induction; the     *)
(* induction is stated for a set in place of a predicate, and follows from *)
(* the order of the natural numbers being well-founded.                    *)
(***************************************************************************)
EXTENDS Sums, Integers, Sequences, SequenceTheorems, WellFoundedInduction, TLAPS

\* a set of numbers that is not empty has a least one
LEMMA LeastOf ==
    ASSUME NEW T, T \subseteq Nat, T # {}
    PROVE  \E x \in T : \A y \in T : x <= y
<1>1. PICK x \in T : \A y \in T : ~(<<y, x>> \in OpToRel(<, Nat))
  BY NatLessThanWellFounded, WFMin, Zenon
<1>2. \A y \in T : ~(y < x)
  BY <1>1, Zenon DEF OpToRel
<1>3. QED
  BY <1>2

\* induction, for a set in place of a predicate
LEMMA Induction ==
    ASSUME NEW S, 0 \in S, \A n \in Nat : n \in S => n + 1 \in S
    PROVE  Nat \subseteq S
<1> SUFFICES ASSUME Nat \ S # {} PROVE FALSE
  OBVIOUS
<1>1. PICK x \in Nat \ S : \A y \in Nat \ S : x <= y
  BY LeastOf, Zenon
<1>2. x # 0 /\ x - 1 \in Nat
  BY <1>1
<1>3. x - 1 \in S
  BY <1>1, <1>2
<1>4. QED
  BY <1>1, <1>2, <1>3

\* f is the recursive function inside Prefix(s, n)
Sums(f, s, n) == f = [i \in 0..n |-> IF i = 0 THEN 0 ELSE f[i - 1] + s[i]]

\* there is such a function
LEMMA SumsExist ==
    ASSUME NEW s, NEW n \in Nat
    PROVE  \E f : Sums(f, s, n)
<1> DEFINE S == {k \in Nat : \E f : Sums(f, s, k)}
<1>1. 0 \in S
  <2>1. Sums([i \in 0..0 |-> 0], s, 0)
    BY DEF Sums
  <2>2. QED
    BY <2>1
<1>2. ASSUME NEW k \in Nat, k \in S PROVE k + 1 \in S
  <2>1. PICK f : Sums(f, s, k)
    BY <1>2
  <2> DEFINE g == [i \in 0..(k + 1) |-> IF i = k + 1 THEN f[k] + s[k + 1] ELSE f[i]]
  <2>2. \A i \in 0..k : f[i] = IF i = 0 THEN 0 ELSE f[i - 1] + s[i]
    BY <2>1 DEF Sums
  <2>3. ASSUME NEW i \in 0..(k + 1) PROVE g[i] = IF i = 0 THEN 0 ELSE g[i - 1] + s[i]
    BY <2>2, <2>3
  <2>4. g = [i \in 0..(k + 1) |-> IF i = 0 THEN 0 ELSE g[i - 1] + s[i]]
    BY <2>3
  <2> HIDE DEF g
  <2>5. Sums(g, s, k + 1)
    BY <2>4 DEF Sums
  <2>6. QED
    BY <2>5
<1>3. Nat \subseteq S
  <2> HIDE DEF S
  <2> QED
    BY <1>1, <1>2, Induction
<1>4. QED
  BY <1>3

\* Prefix computes what it says: nothing for no sizes, and one size more at each step
LEMMA PrefixStep ==
    ASSUME NEW s, NEW n \in Nat, \A i \in 1..n : s[i] \in Nat
    PROVE  /\ Prefix(s, 0) = 0 /\ Prefix(s, n) \in Nat
           /\ n # 0 => Prefix(s, n) = Prefix(s, n - 1) + s[n]
<1>1. ASSUME NEW k \in Nat PROVE \E f : Sums(f, s, k) /\ Prefix(s, k) = f[k]
  <2> DEFINE f == CHOOSE g : g = [i \in 0..k |-> IF i = 0 THEN 0 ELSE g[i - 1] + s[i]]
  <2>1. Prefix(s, k) = f[k]
    BY DEF Prefix
  <2>2. Sums(f, s, k)
    BY SumsExist, Zenon DEF Sums
  <2>3. QED
    BY <2>1, <2>2, Zenon
<1>2. ASSUME NEW k \in Nat, NEW f, Sums(f, s, k)
      PROVE  f[0] = 0 /\ \A i \in 1..k : f[i] = f[i - 1] + s[i]
  BY <1>2 DEF Sums
<1>3. Prefix(s, 0) = 0
  BY <1>1, <1>2
<1>4. ASSUME NEW f, NEW g, NEW k \in Nat, NEW m \in Nat, k <= m, Sums(f, s, k), Sums(g, s, m)
      PROVE  f[k] = g[k]
  <2> DEFINE S == {i \in Nat : i <= k => f[i] = g[i]}
  <2>1. 0 \in S
    BY <1>2, <1>4
  <2>2. ASSUME NEW i \in Nat, i \in S PROVE i + 1 \in S
    <3> SUFFICES ASSUME i + 1 <= k PROVE f[i + 1] = g[i + 1]
      OBVIOUS
    <3>1. f[i] = g[i] /\ i + 1 \in 1..k /\ i + 1 \in 1..m /\ (i + 1) - 1 = i
      BY <1>4, <2>2
    <3>2. f[i + 1] = f[i] + s[i + 1] /\ g[i + 1] = g[i] + s[i + 1]
      BY <3>1, <1>2, <1>4
    <3>3. QED
      BY <3>1, <3>2
  <2>3. Nat \subseteq S
    <3> HIDE DEF S
    <3> QED
      BY <2>1, <2>2, Induction
  <2>4. QED
    BY <2>3
<1>5. n # 0 => Prefix(s, n) = Prefix(s, n - 1) + s[n]
  <2> SUFFICES ASSUME n # 0 PROVE Prefix(s, n) = Prefix(s, n - 1) + s[n]
    OBVIOUS
  <2>1. n - 1 \in Nat /\ n \in 1..n
    OBVIOUS
  <2>2. PICK f : Sums(f, s, n) /\ Prefix(s, n) = f[n]
    BY <1>1
  <2>3. PICK g : Sums(g, s, n - 1) /\ Prefix(s, n - 1) = g[n - 1]
    BY <2>1, <1>1
  <2>4. f[n] = f[n - 1] + s[n]
    BY <2>1, <2>2, <1>2
  <2>5. g[n - 1] = f[n - 1]
    BY <2>1, <2>2, <2>3, <1>4
  <2>6. QED
    BY <2>2, <2>3, <2>4, <2>5
<1>6. Prefix(s, n) \in Nat
  <2>1. PICK f : Sums(f, s, n) /\ Prefix(s, n) = f[n]
    BY <1>1
  <2> DEFINE S == {i \in Nat : i <= n => f[i] \in Nat}
  <2>2. 0 \in S
    BY <1>2, <2>1
  <2>3. ASSUME NEW i \in Nat, i \in S PROVE i + 1 \in S
    <3> SUFFICES ASSUME i + 1 <= n PROVE f[i + 1] \in Nat
      OBVIOUS
    <3>1. f[i] \in Nat /\ i + 1 \in 1..n /\ (i + 1) - 1 = i
      BY <2>3
    <3>2. f[i + 1] = f[i] + s[i + 1] /\ s[i + 1] \in Nat
      BY <3>1, <1>2, <2>1
    <3>3. QED
      BY <3>1, <3>2
  <2>4. Nat \subseteq S
    <3> HIDE DEF S
    <3> QED
      BY <2>2, <2>3, Induction
  <2>5. QED
    BY <2>1, <2>4
<1>7. QED
  BY <1>3, <1>5, <1>6

\* sums of sizes that are not larger are not larger
LEMMA PrefixMono ==
    ASSUME NEW s, NEW t, NEW n \in Nat,
           \A i \in 1..n : s[i] \in Nat /\ t[i] \in Nat /\ s[i] <= t[i]
    PROVE  Prefix(s, n) <= Prefix(t, n)
<1> DEFINE S == {k \in Nat : k <= n => Prefix(s, k) <= Prefix(t, k)}
<1>1. 0 \in S
  BY PrefixStep
<1>2. ASSUME NEW k \in Nat, k \in S PROVE k + 1 \in S
  <2> SUFFICES ASSUME k + 1 <= n PROVE Prefix(s, k + 1) <= Prefix(t, k + 1)
    OBVIOUS
  <2>1. /\ k + 1 \in Nat /\ k + 1 # 0 /\ (k + 1) - 1 = k /\ k + 1 \in 1..n
        /\ \A i \in 1..(k + 1) : s[i] \in Nat /\ t[i] \in Nat
        /\ \A i \in 1..k : s[i] \in Nat /\ t[i] \in Nat
    OBVIOUS
  <2>2. Prefix(s, k + 1) = Prefix(s, k) + s[k + 1] /\ Prefix(t, k + 1) = Prefix(t, k) + t[k + 1]
    BY <2>1, PrefixStep
  <2>3. Prefix(s, k) \in Nat /\ Prefix(t, k) \in Nat
    BY <2>1, PrefixStep
  <2>4. Prefix(s, k) <= Prefix(t, k) /\ s[k + 1] <= t[k + 1] /\ s[k + 1] \in Nat /\ t[k + 1] \in Nat
    BY <1>2, <2>1
  <2>5. QED
    BY <2>2, <2>3, <2>4
<1>3. Nat \subseteq S
  <2> HIDE DEF S
  <2> QED
    BY <1>1, <1>2, Induction
<1>4. QED
  BY <1>3

\* one more at the end
LEMMA PrefixAppend ==
    ASSUME NEW s \in Seq(Nat), NEW x \in Nat
    PROVE  Prefix(Append(s, x), Len(Append(s, x))) = Prefix(s, Len(s)) + x
<1> DEFINE a == Append(s, x)
           n == Len(s)
<1>1. /\ n \in Nat /\ a \in Seq(Nat) /\ Len(a) = n + 1 /\ a[n + 1] = x
      /\ \A i \in 1..n : a[i] = s[i] /\ s[i] \in Nat
      /\ \A i \in 1..(n + 1) : a[i] \in Nat
  OBVIOUS
<1> HIDE DEF a, n
<1>2. Prefix(a, n) <= Prefix(s, n) /\ Prefix(s, n) <= Prefix(a, n)
  <2>1. \A i \in 1..n : a[i] \in Nat /\ s[i] \in Nat /\ a[i] <= s[i] /\ s[i] <= a[i]
    BY <1>1
  <2>2. QED
    BY <1>1, <2>1, PrefixMono, Zenon
<1>3. Prefix(a, n) \in Nat /\ Prefix(s, n) \in Nat
  BY <1>1, PrefixStep
<1>4. n + 1 \in Nat /\ n + 1 # 0 /\ (n + 1) - 1 = n
  BY <1>1
<1>5. Prefix(a, n + 1) = Prefix(a, n) + a[n + 1]
  BY ZenonT(30), <1>1, <1>4, PrefixStep
<1>6. QED
  BY <1>1, <1>2, <1>3, <1>5 DEF a, n

\* without the first k
LEMMA PrefixCut ==
    ASSUME NEW s \in Seq(Nat), NEW k \in 0..Len(s)
    PROVE  LET r == SubSeq(s, k + 1, Len(s))
           IN  Prefix(r, Len(r)) = Prefix(s, Len(s)) - Prefix(s, k)
<1> DEFINE n == Len(s)
           r == SubSeq(s, k + 1, n)
<1>1. k \in Nat /\ n \in Nat /\ k <= n /\ \A i \in 1..n : s[i] \in Nat
  OBVIOUS
<1>2. Len(r) = n - k /\ \A i \in 1..(n - k) : r[i] = s[k + i] /\ r[i] \in Nat
  <2>1. \A i \in (k + 1)..n : s[i] \in Nat
    BY <1>1
  <2>2. /\ r \in Seq(Nat) /\ Len(r) = (IF k + 1 <= n THEN n - (k + 1) + 1 ELSE 0)
        /\ \A i \in 1..(n - (k + 1) + 1) : r[i] = s[(k + 1) + i - 1]
    BY <1>1, <2>1, SubSeqProperties
  <2>3. QED
    BY <1>1, <2>2
<1> HIDE DEF n, r
<1> DEFINE S == {j \in Nat : j <= n - k => Prefix(r, j) = Prefix(s, k + j) - Prefix(s, k)}
<1>3. 0 \in S
  <2>1. Prefix(r, 0) = 0
    BY <1>1, <1>2, PrefixStep
  <2>2. Prefix(s, k) \in Nat
    BY <1>1, PrefixStep
  <2>3. QED
    BY <1>1, <2>1, <2>2
<1>4. ASSUME NEW j \in Nat, j \in S PROVE j + 1 \in S
  <2> SUFFICES ASSUME j + 1 <= n - k PROVE Prefix(r, j + 1) = Prefix(s, k + (j + 1)) - Prefix(s, k)
    OBVIOUS
  <2>1. Prefix(r, j) = Prefix(s, k + j) - Prefix(s, k)
    BY <1>1, <1>4
  <2>2. /\ j + 1 \in Nat /\ j + 1 # 0 /\ (j + 1) - 1 = j
        /\ k + (j + 1) \in Nat /\ k + (j + 1) # 0 /\ (k + (j + 1)) - 1 = k + j /\ k + j \in Nat
    BY <1>1
  <2>3. /\ \A i \in 1..(j + 1) : r[i] \in Nat
        /\ \A i \in 1..(k + (j + 1)) : s[i] \in Nat
        /\ \A i \in 1..(k + j) : s[i] \in Nat
        /\ \A i \in 1..k : s[i] \in Nat
        /\ \A i \in 1..j : r[i] \in Nat
    BY <1>1, <1>2
  <2>4. Prefix(r, j + 1) = Prefix(r, j) + r[j + 1]
    BY <2>2, <2>3, PrefixStep
  <2>5. Prefix(s, k + (j + 1)) = Prefix(s, k + j) + s[k + (j + 1)]
    BY <2>2, <2>3, PrefixStep
  <2>6. Prefix(s, k + j) \in Nat /\ Prefix(s, k) \in Nat
    BY <1>1, <2>2, <2>3, PrefixStep
  <2>7. r[j + 1] = s[k + (j + 1)] /\ r[j + 1] \in Nat
    BY <1>1, <1>2
  <2>8. QED
    BY <2>1, <2>4, <2>5, <2>6, <2>7
<1>5. Nat \subseteq S
  <2> HIDE DEF S
  <2> QED
    BY <1>3, <1>4, Induction, Zenon
<1>6. n - k \in Nat /\ k + (n - k) = n
  BY <1>1
<1>7. Prefix(r, n - k) = Prefix(s, n) - Prefix(s, k)
  BY <1>5, <1>6
<1>8. QED
  BY <1>2, <1>7 DEF r, n

\* one of the numbers changes
LEMMA PrefixUpdate ==
    ASSUME NEW n \in Nat, NEW s \in [1..n -> Nat], NEW t \in [1..n -> Nat], NEW k \in 1..n,
           \A i \in 1..n : i # k => t[i] = s[i]
    PROVE  Prefix(t, n) = Prefix(s, n) + t[k] - s[k]
<1> DEFINE S == {m \in Nat : m <= n => Prefix(t, m) = Prefix(s, m) + (IF k <= m THEN t[k] - s[k] ELSE 0)}
<1>1. 0 \in S
  <2>1. Prefix(t, 0) = 0 /\ Prefix(s, 0) = 0
    BY PrefixStep
  <2>2. ~(k <= 0)
    OBVIOUS
  <2>3. QED
    BY <2>1, <2>2
<1>2. ASSUME NEW m \in Nat, m \in S PROVE m + 1 \in S
  <2> SUFFICES ASSUME m + 1 <= n
               PROVE  Prefix(t, m + 1) = Prefix(s, m + 1) + (IF k <= m + 1 THEN t[k] - s[k] ELSE 0)
    OBVIOUS
  <2>1. m + 1 \in Nat /\ m + 1 # 0 /\ (m + 1) - 1 = m /\ m + 1 \in 1..n
        /\ (\A i \in 1..(m + 1) : s[i] \in Nat /\ t[i] \in Nat)
        /\ (\A i \in 1..m : s[i] \in Nat /\ t[i] \in Nat)
    OBVIOUS
  <2>2. Prefix(t, m + 1) = Prefix(t, m) + t[m + 1] /\ Prefix(s, m + 1) = Prefix(s, m) + s[m + 1]
    BY <2>1, PrefixStep
  <2>3. Prefix(t, m) \in Nat /\ Prefix(s, m) \in Nat
    BY <2>1, PrefixStep
  <2>4. Prefix(t, m) = Prefix(s, m) + (IF k <= m THEN t[k] - s[k] ELSE 0)
    BY <1>2, <2>1
  <2>5. s[m + 1] \in Nat /\ t[m + 1] \in Nat /\ s[k] \in Nat /\ t[k] \in Nat
        /\ (m + 1 # k => t[m + 1] = s[m + 1])
    BY <2>1
  <2>6. CASE k = m + 1
    BY <2>2, <2>3, <2>4, <2>5, <2>6
  <2>7. CASE k # m + 1
    BY <2>2, <2>3, <2>4, <2>5, <2>7
  <2>8. QED
    BY <2>6, <2>7
<1>3. Nat \subseteq S
  <2> HIDE DEF S
  <2> QED
    BY <1>1, <1>2, Induction, Zenon
<1>4. Prefix(t, n) = Prefix(s, n) + (IF k <= n THEN t[k] - s[k] ELSE 0)
  BY <1>3
<1>5. Prefix(s, n) \in Nat
  BY PrefixStep
<1>6. QED
  BY <1>4, <1>5

\* n numbers up to m
LEMMA PrefixBound ==
    ASSUME NEW n \in Nat, NEW s \in [1..n -> Nat], NEW m \in Nat, \A i \in 1..n : s[i] <= m
    PROVE  Prefix(s, n) <= n * m
<1> DEFINE S == {k \in Nat : k <= n => Prefix(s, k) <= k * m}
<1>1. 0 \in S
  BY PrefixStep
<1>2. ASSUME NEW k \in Nat, k \in S PROVE k + 1 \in S
  <2> SUFFICES ASSUME k + 1 <= n PROVE Prefix(s, k + 1) <= (k + 1) * m
    OBVIOUS
  <2>1. k + 1 \in Nat /\ k + 1 # 0 /\ (k + 1) - 1 = k /\ k + 1 \in 1..n
        /\ (\A i \in 1..(k + 1) : s[i] \in Nat) /\ (\A i \in 1..k : s[i] \in Nat)
    OBVIOUS
  <2>2. Prefix(s, k + 1) = Prefix(s, k) + s[k + 1]
    BY <2>1, PrefixStep
  <2>3. Prefix(s, k) \in Nat
    BY <2>1, PrefixStep
  <2>4. Prefix(s, k) <= k * m /\ s[k + 1] <= m /\ s[k + 1] \in Nat
    BY <1>2, <2>1
  <2>5. (k + 1) * m = k * m + m /\ k * m \in Nat
    OBVIOUS
  <2>6. QED
    BY <2>2, <2>3, <2>4, <2>5
<1>3. Nat \subseteq S
  <2> HIDE DEF S
  <2> QED
    BY <1>1, <1>2, Induction, Zenon
<1>4. QED
  BY <1>3
=============================================================================
