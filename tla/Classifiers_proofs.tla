------------------------- MODULE Classifiers_proofs -------------------------
(***************************************************************************)
(* Proofs about Classifiers, for any seeds, keys and number of edits.      *)
(*                                                                         *)
(* What the model computes by recursion along a text (stripping, sums,     *)
(* remainders, find_iter) is a function on 0 .. n.  A function with the    *)
(* steps its definition asks for exists (Recursion), so the chosen one     *)
(* takes those steps, and a fact about all its values follows by induction *)
(* on a set of numbers, from the least number outside it (Induction).      *)
(***************************************************************************)
EXTENDS Classifiers, SequenceTheorems, FiniteSetTheorems, WellFoundedInduction, TLAPS

----------------------------------------------------------------------------
(* Induction and recursion. *)

\* The order of the numbers, as a relation.
Less == OpToRel(<, Nat)

\* A nonempty set of numbers has a least one.
LEMMA Least ==
  ASSUME NEW T \in SUBSET Nat, T # {}
  PROVE  \E x \in T : \A y \in T : x <= y
<1>1. IsWellFoundedOn(Less, Nat)
  BY NatLessThanWellFounded DEF Less
<1>2. PICK x \in T : \A y \in T : <<y, x>> \notin Less
  BY <1>1, WFMin
<1>3. \A y \in T : ~(y < x)
  <2> SUFFICES ASSUME NEW y \in T, y < x
               PROVE  FALSE
    OBVIOUS
  <2>1. <<y, x>> \in Nat \X Nat
    OBVIOUS
  <2>2. <<y, x>>[1] < <<y, x>>[2]
    OBVIOUS
  <2>3. Less = {ss \in Nat \X Nat : ss[1] < ss[2]}
    BY DEF Less, OpToRel
  <2>4. <<y, x>> \in Less
    BY <2>1, <2>2, <2>3
  <2> QED
    BY <1>2, <2>4
<1> QED
  BY <1>3

\* A set with 0 and with the successor of each of its numbers has them all.
LEMMA Induction ==
  ASSUME NEW S, 0 \in S, \A n \in Nat : n \in S => n + 1 \in S
  PROVE  Nat \subseteq S
<1> SUFFICES ASSUME Nat \ S # {}
             PROVE  FALSE
  OBVIOUS
<1>1. PICK x \in Nat \ S : \A y \in Nat \ S : x <= y
  BY Least
<1>2. x - 1 \in Nat /\ x - 1 \in S
  BY <1>1
<1> QED
  BY <1>1, <1>2

\* A function of 0 .. n that is given by its first value and its steps: the
\* equation of a recursive definition has a solution.
Solvable(V, v, n, step) ==
    \E f \in [0 .. n -> V] : f[0] = v /\ \A k \in 1 .. n : f[k] = step[k][f[k - 1]]

\* By induction on m: the steps up to m have a solution.
LEMMA Recursion ==
  ASSUME NEW V, NEW v \in V, NEW n \in Nat, NEW step \in [1 .. n -> [V -> V]]
  PROVE  Solvable(V, v, n, step)
<1> DEFINE Solves(f, m) == /\ f \in [0 .. m -> V]
                           /\ f[0] = v
                           /\ \A k \in 1 .. m : f[k] = step[k][f[k - 1]]
           S == {m \in Nat : m <= n => \E f : Solves(f, m)}
<1>1. 0 \in S
  <2>1. Solves([k \in 0 .. 0 |-> v], 0)
    OBVIOUS
  <2> QED
    BY <2>1
<1>2. ASSUME NEW m \in Nat, m \in S
      PROVE  m + 1 \in S
  <2> SUFFICES ASSUME m + 1 <= n
               PROVE  \E f : Solves(f, m + 1)
    OBVIOUS
  <2>1. PICK f : Solves(f, m)
    BY <1>2
  <2> DEFINE g == [k \in 0 .. m + 1 |-> IF k = m + 1 THEN step[k][f[m]] ELSE f[k]]
  <2>2. f[m] \in V /\ step[m + 1] \in [V -> V]
    BY <2>1
  <2>3. g \in [0 .. m + 1 -> V]
    BY <2>1, <2>2
  <2>4. g[0] = v
    BY <2>1
  <2>5. \A k \in 1 .. m + 1 : g[k] = step[k][g[k - 1]]
    <3> SUFFICES ASSUME NEW k \in 1 .. m + 1
                 PROVE  g[k] = step[k][g[k - 1]]
      OBVIOUS
    <3>1. k - 1 \in 0 .. m + 1 /\ k - 1 # m + 1 /\ g[k - 1] = f[k - 1]
      OBVIOUS
    <3>2. CASE k = m + 1
      BY <3>1, <3>2
    <3>3. CASE k # m + 1
      BY <2>1, <3>1, <3>3
    <3> QED
      BY <3>2, <3>3
  <2> QED
    BY <2>3, <2>4, <2>5
<1>3. n \in S
  <2> HIDE DEF S
  <2> QED
    BY <1>1, <1>2, Induction
<1>4. PICK f : Solves(f, n)
  BY <1>3
<1> QED
  BY <1>4 DEF Solvable

\* The same, up to n.
LEMMA InductionTo ==
  ASSUME NEW n \in Nat, NEW S, 0 \in S, \A k \in 0 .. n - 1 : k \in S => k + 1 \in S
  PROVE  0 .. n \subseteq S
<1> DEFINE T == {k \in Nat : k <= n => k \in S}
<1>1. 0 \in T
  OBVIOUS
<1>2. ASSUME NEW k \in Nat, k \in T
      PROVE  k + 1 \in T
  BY <1>2
<1> HIDE DEF T
<1>3. Nat \subseteq T
  BY <1>1, <1>2, Induction
<1> QED
  BY <1>3 DEF T

\* A character of a text is a number.
LEMMA CharAt ==
  ASSUME NEW t \in Seq(Chars), NEW k \in 1 .. Len(t)
  PROVE  t[k] \in Chars /\ t[k] \in Int /\ t[k] \in 0 .. 41
<1>1. t[k] \in Chars
  OBVIOUS
<1>2. \A c \in Chars : c \in Int /\ c \in 0 .. 41
  BY DEF Chars
<1> QED
  BY <1>1, <1>2

LEMMA Products == \A a, b \in Int : a * b \in Int
  OBVIOUS

\* A part of a text and its characters.
LEMMA PartOf ==
  ASSUME NEW t \in Seq(Chars), NEW i \in 1 .. Len(t) + 1, NEW j \in i - 1 .. Len(t)
  PROVE  /\ SubSeq(t, i, j) \in Seq(Chars)
         /\ Len(SubSeq(t, i, j)) = (j - i) + 1
         /\ \A k \in 1 .. (j - i) + 1 : SubSeq(t, i, j)[k] = t[(i + k) - 1]
<1>1. i \in Int /\ j \in Int /\ Len(t) \in Nat
  OBVIOUS
<1>2. \A k \in i .. j : t[k] \in Chars
  OBVIOUS
<1>3. /\ SubSeq(t, i, j) \in Seq(Chars)
      /\ Len(SubSeq(t, i, j)) = IF i <= j THEN (j - i) + 1 ELSE 0
      /\ \A k \in 1 .. (j - i) + 1 : SubSeq(t, i, j)[k] = t[i + k - 1]
  BY <1>1, <1>2, SubSeqProperties
<1> QED
  BY <1>1, <1>3

\* Two texts joined.
LEMMA Joined ==
  ASSUME NEW a \in Seq(Chars), NEW b \in Seq(Chars)
  PROVE  /\ a \o b \in Seq(Chars) /\ Len(a \o b) = Len(a) + Len(b)
         /\ \A k \in 1 .. Len(a) : (a \o b)[k] = a[k]
         /\ \A k \in 1 .. Len(b) : (a \o b)[Len(a) + k] = b[k]
<1>1. /\ a \o b \in Seq(Chars) /\ Len(a \o b) = Len(a) + Len(b)
      /\ \A k \in 1 .. Len(a) + Len(b) :
            (a \o b)[k] = IF k <= Len(a) THEN a[k] ELSE b[k - Len(a)]
  BY ConcatProperties
<1>2. Len(a) \in Nat /\ Len(b) \in Nat
  OBVIOUS
<1>3. ASSUME NEW k \in 1 .. Len(a)
      PROVE  (a \o b)[k] = a[k]
  <2>1. k \in 1 .. Len(a) + Len(b) /\ k <= Len(a)
    BY <1>2
  <2> QED
    BY <1>1, <2>1, Zenon
<1>4. ASSUME NEW k \in 1 .. Len(b)
      PROVE  (a \o b)[Len(a) + k] = b[k]
  <2>1. PICK m : m = Len(a) + k /\ m \in 1 .. Len(a) + Len(b) /\ ~(m <= Len(a)) /\ m - Len(a) = k
    BY <1>2
  <2>2. (a \o b)[m] = b[m - Len(a)]
    BY <1>1, <2>1, Zenon
  <2> QED
    BY <2>1, <2>2, Zenon
<1> QED
  BY <1>1, <1>3, <1>4

----------------------------------------------------------------------------
(* Stripped texts. *)

\* What is kept of a text, step by step.
LEMMA StripsDef ==
  ASSUME NEW t \in Seq(Chars), NEW drop
  PROVE  /\ \A k \in 0 .. Len(t) : Strips(t, drop)[k] \in Seq(Chars)
         /\ Strips(t, drop)[0] = <<>>
         /\ \A k \in 1 .. Len(t) :
               /\ t[k] \in drop => Strips(t, drop)[k] = Strips(t, drop)[k - 1]
               /\ t[k] \notin drop => Strips(t, drop)[k] = Append(Strips(t, drop)[k - 1], t[k])
<1> DEFINE n == Len(t)
           Longer(s, k) == IF t[k] \in drop THEN s ELSE Append(s, t[k])
           step == [k \in 1 .. n |-> [s \in Seq(Chars) |-> Longer(s, k)]]
<1>0. n \in Nat
  OBVIOUS
<1>1. ASSUME NEW k \in 1 .. n, NEW s \in Seq(Chars)
      PROVE  Longer(s, k) \in Seq(Chars)
  <2>1. t[k] \in Chars
    OBVIOUS
  <2> QED
    BY <2>1
<1> HIDE DEF n, Longer
<1>2. step \in [1 .. n -> [Seq(Chars) -> Seq(Chars)]]
  BY <1>1
<1>3. PICK f \in [0 .. n -> Seq(Chars)] :
         f[0] = <<>> /\ \A k \in 1 .. n : f[k] = step[k][f[k - 1]]
  <2> HIDE DEF step
  <2>1. <<>> \in Seq(Chars)
    OBVIOUS
  <2>2. Solvable(Seq(Chars), <<>>, n, step)
    BY <1>0, <1>2, <2>1, Recursion
  <2> QED
    BY <2>2 DEF Solvable
<1>4. ASSUME NEW k \in 1 .. n
      PROVE  f[k] = Longer(f[k - 1], k)
  <2>1. f[k - 1] \in Seq(Chars)
    BY <1>0
  <2>2. step[k][f[k - 1]] = Longer(f[k - 1], k)
    BY <2>1
  <2> QED
    BY <1>3, <2>2
<1> HIDE DEF step
<1>5. f = [k \in 0 .. n |-> IF k = 0 THEN <<>> ELSE Longer(f[k - 1], k)]
  <2>1. \A k \in 0 .. n : f[k] = IF k = 0 THEN <<>> ELSE Longer(f[k - 1], k)
    BY <1>0, <1>3, <1>4
  <2>2. f = [k \in 0 .. n |-> f[k]]
    OBVIOUS
  <2> QED
    BY <2>1, <2>2
<1> DEFINE g == Strips(t, drop)
<1>6. g = [k \in 0 .. n |-> IF k = 0 THEN <<>> ELSE Longer(g[k - 1], k)]
  BY <1>5, Zenon DEF Strips, n, Longer
<1> HIDE DEF g
<1>7. g[0] = <<>> /\ \A k \in 1 .. n : g[k] = Longer(g[k - 1], k)
  BY <1>0, <1>6
<1>8. \A k \in 0 .. n : g[k] \in Seq(Chars)
  <2> DEFINE Good(k) == g[k] \in Seq(Chars)
             S == {k \in 0 .. n : Good(k)}
  <2>1. Good(0)
    BY <1>7
  <2>2. ASSUME NEW k \in 0 .. n - 1, Good(k)
        PROVE  Good(k + 1)
    <3>1. k + 1 \in 1 .. n /\ (k + 1) - 1 = k
      BY <1>0
    <3>2. g[k] \in Seq(Chars) /\ g[k + 1] = Longer(g[k], k + 1)
      BY <1>7, <2>2, <3>1
    <3> QED
      BY <1>1, <3>1, <3>2
  <2> HIDE DEF Good
  <2>3. 0 \in S /\ \A k \in 0 .. n - 1 : k \in S => k + 1 \in S
    BY <1>0, <2>1, <2>2
  <2> HIDE DEF S
  <2>4. 0 .. n \subseteq S
    BY <1>0, <2>3, InductionTo
  <2>5. \A k \in 0 .. n : Good(k)
    BY <2>4 DEF S
  <2> QED
    BY <2>5 DEF Good
<1>9. /\ \A k \in 0 .. Len(t) : Strips(t, drop)[k] \in Seq(Chars)
      /\ Strips(t, drop)[0] = <<>>
      /\ \A k \in 1 .. Len(t) : Strips(t, drop)[k] = Longer(Strips(t, drop)[k - 1], k)
  BY <1>7, <1>8 DEF g, n
<1> QED
  BY <1>9, Zenon DEF Longer

\* s begins with r.
Begins(r, s) == Len(r) <= Len(s) /\ \A m \in 1 .. Len(r) : s[m] = r[m]

LEMMA BeginsSame ==
  ASSUME NEW s \in Seq(Chars)
  PROVE  Begins(s, s)
<1>1. Len(s) \in Nat
  OBVIOUS
<1> QED
  BY <1>1 DEF Begins

LEMMA BeginsAppend ==
  ASSUME NEW r \in Seq(Chars), NEW s \in Seq(Chars), NEW c \in Chars, Begins(r, s)
  PROVE  Begins(r, Append(s, c))
<1>1. Len(Append(s, c)) = Len(s) + 1 /\ Len(r) \in Nat /\ Len(s) \in Nat
  OBVIOUS
<1>2. ASSUME NEW m \in 1 .. Len(r)
      PROVE  Append(s, c)[m] = r[m]
  <2>1. m \in 1 .. Len(s) /\ s[m] = r[m]
    BY <1>1 DEF Begins
  <2>2. Append(s, c)[m] = s[m]
    BY <2>1
  <2> QED
    BY <2>1, <2>2
<1> QED
  BY <1>1, <1>2 DEF Begins

\* What is kept of a text only grows, by at most a character at a time.
LEMMA StripsGrow ==
  ASSUME NEW t \in Seq(Chars), NEW drop, NEW i \in 0 .. Len(t), NEW j \in i .. Len(t)
  PROVE  /\ Begins(Strips(t, drop)[i], Strips(t, drop)[j])
         /\ Len(Strips(t, drop)[j]) - Len(Strips(t, drop)[i]) <= j - i
<1> DEFINE n == Len(t)
           p == Strips(t, drop)
           From(k) == k >= i => Begins(p[i], p[k]) /\ Len(p[k]) - Len(p[i]) <= k - i
           S == {k \in 0 .. n : From(k)}
<1>0. n \in Nat /\ i \in 0 .. n
  OBVIOUS
<1>1. \A k \in 0 .. n : p[k] \in Seq(Chars)
  BY StripsDef
<1>2. \A k \in 1 .. n : t[k] \in Chars /\ (p[k] = p[k - 1] \/ p[k] = Append(p[k - 1], t[k]))
  BY StripsDef
<1> HIDE DEF p, n
<1>3. From(i)
  <2>1. p[i] \in Seq(Chars)
    BY <1>0, <1>1
  <2>2. Len(p[i]) \in Nat
    BY <2>1
  <2> QED
    BY <1>0, <2>1, <2>2, BeginsSame
<1>4. From(0)
  <2>1. CASE i = 0
    <3>1. From(i)
      BY <1>3
    <3> HIDE DEF From
    <3> QED
      BY <2>1, <3>1
  <2>2. CASE i # 0
    BY <1>0, <2>2
  <2> QED
    BY <2>1, <2>2
<1>5. ASSUME NEW k \in 1 .. n, From(k - 1)
      PROVE  From(k)
  <2>1. CASE k <= i
    BY <1>0, <1>3, <2>1
  <2>2. CASE k > i
    <3>1. p[i] \in Seq(Chars) /\ p[k - 1] \in Seq(Chars) /\ t[k] \in Chars
      BY <1>0, <1>1, <1>2
    <3>2. Begins(p[i], p[k - 1]) /\ Len(p[k - 1]) - Len(p[i]) <= (k - 1) - i
      BY <1>0, <1>5, <2>2
    <3>3. Begins(p[i], Append(p[k - 1], t[k])) /\ Len(Append(p[k - 1], t[k])) = Len(p[k - 1]) + 1
      BY <3>1, <3>2, BeginsAppend
    <3>4. Len(p[i]) \in Nat /\ Len(p[k - 1]) \in Nat
      BY <3>1
    <3>5. CASE p[k] = p[k - 1]
      BY <1>0, <3>2, <3>4, <3>5
    <3>6. CASE p[k] = Append(p[k - 1], t[k])
      BY <1>0, <3>2, <3>3, <3>4, <3>6
    <3> QED
      BY <1>2, <3>5, <3>6
  <2> QED
    BY <1>0, <2>1, <2>2
<1> HIDE DEF From
<1>6. 0 \in S
  BY <1>0, <1>4
<1>7. ASSUME NEW k \in 0 .. n - 1, k \in S
      PROVE  k + 1 \in S
  <2>1. k + 1 \in 1 .. n /\ (k + 1) - 1 = k
    BY <1>0
  <2>2. From(k + 1)
    BY <1>5, <1>7, <2>1
  <2> QED
    BY <2>1, <2>2
<1> HIDE DEF S
<1>8. 0 .. n \subseteq S
  BY <1>0, <1>6, <1>7, InductionTo
<1>9. From(j) /\ j >= i
  BY <1>0, <1>8 DEF S, n
<1> QED
  BY <1>9 DEF p, From

\* A character that is not dropped is kept, where the kept text then ends.
LEMMA StripKept ==
  ASSUME NEW t \in Seq(Chars), NEW drop, NEW k \in 1 .. Len(t), t[k] \notin drop
  PROVE  /\ Len(Strips(t, drop)[k]) = Len(Strips(t, drop)[k - 1]) + 1
         /\ Len(Strips(t, drop)[k]) \in 1 .. Len(Strip(t, drop))
         /\ Strip(t, drop)[Len(Strips(t, drop)[k])] = t[k]
<1> DEFINE n == Len(t)
           p == Strips(t, drop)
<1>0. n \in Nat /\ k \in 1 .. n /\ n \in k .. n /\ k \in 0 .. n
  OBVIOUS
<1>1. p[k - 1] \in Seq(Chars) /\ p[k] \in Seq(Chars) /\ p[n] \in Seq(Chars) /\ t[k] \in Chars
  BY <1>0, StripsDef
<1>2. p[k] = Append(p[k - 1], t[k])
  BY StripsDef
<1>3. Begins(p[k], p[n])
  BY <1>0, StripsGrow
<1> HIDE DEF p, n
<1>4. Len(p[k]) = Len(p[k - 1]) + 1 /\ Len(p[k - 1]) \in Nat /\ Len(p[n]) \in Nat
  BY <1>1, <1>2
<1>5. p[k][Len(p[k])] = t[k]
  BY <1>1, <1>2, <1>4
<1>6. Len(p[k]) \in 1 .. Len(p[n]) /\ Len(p[k]) \in 1 .. Len(p[k])
  BY <1>3, <1>4 DEF Begins
<1>7. p[n][Len(p[k])] = t[k]
  BY <1>3, <1>5, <1>6 DEF Begins
<1> QED
  BY <1>4, <1>6, <1>7 DEF p, n, Strip

\* Every kept character is one of the text's.
LEMMA StripOrigin ==
  ASSUME NEW t \in Seq(Chars), NEW drop, NEW m \in 1 .. Len(Strip(t, drop))
  PROVE  \E k \in 1 .. Len(t) : t[k] \notin drop /\ Len(Strips(t, drop)[k]) = m
<1> DEFINE n == Len(t)
           p == Strips(t, drop)
           T == {k \in 0 .. n : m <= Len(p[k])}
<1>0. n \in Nat /\ p[0] = <<>> /\ \A k \in 0 .. n : p[k] \in Seq(Chars)
  BY StripsDef
<1>1. n \in T
  BY <1>0 DEF Strip
<1> HIDE DEF p, n
<1>9. T \in SUBSET Nat
  BY <1>0
<1>2. PICK k \in T : \A x \in T : k <= x
  <2> HIDE DEF T
  <2> QED
    BY <1>1, <1>9, Least
<1>3. k \in 1 .. n /\ k - 1 \in 0 .. n /\ ~(m <= Len(p[k - 1]))
  BY <1>0, <1>2
<1>4. p[k] = IF t[k] \in drop THEN p[k - 1] ELSE Append(p[k - 1], t[k])
  BY <1>3, StripsDef DEF n, p
<1>5. t[k] \notin drop
  BY <1>2, <1>3, <1>4
<1>6. p[k] = Append(p[k - 1], t[k]) /\ p[k - 1] \in Seq(Chars)
  BY <1>0, <1>3, <1>4, <1>5, Zenon
<1>7. Len(p[k]) = Len(p[k - 1]) + 1 /\ Len(p[k - 1]) \in Nat
  BY <1>6
<1> QED
  BY <1>2, <1>3, <1>5, <1>7 DEF n, p

\* A stripped text is a text without the characters dropped.
LEMMA StripInSeq ==
  ASSUME NEW t \in Seq(Chars), NEW drop
  PROVE  /\ Strip(t, drop) \in Seq(Chars)
         /\ Len(Strip(t, drop)) <= Len(t)
         /\ \A k \in 0 .. Len(t) : Len(Strips(t, drop)[k]) \in 0 .. k
         /\ AllIn(Strip(t, drop), Chars \ drop)
<1>1. Len(t) \in Nat /\ Strips(t, drop)[0] = <<>>
  BY StripsDef
<1>2. ASSUME NEW k \in 0 .. Len(t)
      PROVE  Strips(t, drop)[k] \in Seq(Chars) /\ Len(Strips(t, drop)[k]) \in 0 .. k
  <2>1. 0 \in 0 .. Len(t) /\ k \in 0 .. Len(t)
    BY <1>1
  <2>2. Strips(t, drop)[k] \in Seq(Chars)
    BY StripsDef
  <2>3. Len(Strips(t, drop)[k]) - Len(Strips(t, drop)[0]) <= k - 0
    BY <2>1, StripsGrow
  <2>4. Len(Strips(t, drop)[0]) = 0 /\ Len(Strips(t, drop)[k]) \in Nat
    BY <1>1, <2>2
  <2> QED
    BY <2>2, <2>3, <2>4
<1>3. Strip(t, drop) \in Seq(Chars) /\ Len(Strip(t, drop)) <= Len(t)
  <2>1. Len(t) \in 0 .. Len(t)
    BY <1>1
  <2> QED
    BY <1>2, <2>1 DEF Strip
<1>4. ASSUME NEW m \in DOMAIN Strip(t, drop)
      PROVE  Strip(t, drop)[m] \in Chars \ drop
  <2>1. m \in 1 .. Len(Strip(t, drop))
    BY <1>3
  <2>2. PICK k \in 1 .. Len(t) : t[k] \notin drop /\ Len(Strips(t, drop)[k]) = m
    BY <2>1, StripOrigin
  <2>3. Strip(t, drop)[m] = t[k] /\ t[k] \in Chars
    BY <2>2, StripKept
  <2> QED
    BY <2>2, <2>3
<1> QED
  BY <1>2, <1>3, <1>4 DEF AllIn

\* Its length, for use by itself.
LEMMA StripLen ==
  ASSUME NEW t \in Seq(Chars), NEW drop
  PROVE  /\ Strip(t, drop) \in Seq(Chars)
         /\ Len(Strip(t, drop)) \in Nat /\ Len(t) \in Nat /\ Len(Strip(t, drop)) <= Len(t)
<1>1. Strip(t, drop) \in Seq(Chars) /\ Len(Strip(t, drop)) <= Len(t)
  BY StripInSeq
<1>2. Len(t) \in Nat
  OBVIOUS
<1>3. Len(Strip(t, drop)) \in Nat
  BY <1>1
<1> QED
  BY <1>1, <1>2, <1>3

\* Texts that are dropped from at the same places are kept to the same length.
DropAlike(s, d, t, e) == \A k \in 1 .. Len(s) : s[k] \in d <=> t[k] \in e

LEMMA StripsAgree ==
  ASSUME NEW s \in Seq(Chars), NEW t \in Seq(Chars), NEW d, NEW e, Len(s) = Len(t),
         DropAlike(s, d, t, e)
  PROVE  \A k \in 0 .. Len(s) : Len(Strips(s, d)[k]) = Len(Strips(t, e)[k])
<1> DEFINE n == Len(s)
           p == Strips(s, d)
           q == Strips(t, e)
           Agree(k) == Len(p[k]) = Len(q[k])
           S == {k \in 0 .. n : Agree(k)}
<1>0. n \in Nat /\ n = Len(t)
  OBVIOUS
<1>1. Agree(0)
  BY StripsDef
<1>2. ASSUME NEW k \in 0 .. n - 1, Agree(k)
      PROVE  Agree(k + 1)
  <2>1. PICK j \in 1 .. n : j = k + 1 /\ j - 1 = k
    BY <1>0
  <2>2. CASE s[j] \in d
    <3>1. t[j] \in e
      BY <2>2 DEF DropAlike
    <3>2. p[j] = p[j - 1] /\ q[j] = q[j - 1]
      BY <1>0, <2>2, <3>1, StripsDef
    <3> QED
      BY <1>2, <2>1, <3>2
  <2>3. CASE s[j] \notin d
    <3>1. t[j] \notin e
      BY <2>3 DEF DropAlike
    <3>2. Len(p[j]) = Len(p[j - 1]) + 1 /\ Len(q[j]) = Len(q[j - 1]) + 1
      BY <1>0, <2>3, <3>1, StripKept
    <3> QED
      BY <1>2, <2>1, <3>2
  <2> QED
    BY <2>2, <2>3
<1> HIDE DEF Agree
<1>3. 0 \in S /\ \A k \in 0 .. n - 1 : k \in S => k + 1 \in S
  BY <1>0, <1>1, <1>2
<1> HIDE DEF S
<1>4. 0 .. n \subseteq S
  BY <1>0, <1>3, InductionTo
<1> QED
  BY <1>4 DEF S, Agree

LEMMA SameSeq ==
  ASSUME NEW S, NEW s \in Seq(S), NEW t \in Seq(S), Len(s) = Len(t),
         \A k \in 1 .. Len(s) : s[k] = t[k]
  PROVE  s = t
<1>1. s = [k \in 1 .. Len(s) |-> s[k]] /\ t = [k \in 1 .. Len(t) |-> t[k]]
  OBVIOUS
<1> QED
  BY <1>1

\* What is dropped from a text matters only for the characters it has.
LEMMA StripSame ==
  ASSUME NEW t \in Seq(Chars), NEW d, NEW e, \A k \in 1 .. Len(t) : t[k] \in d <=> t[k] \in e
  PROVE  Strip(t, d) = Strip(t, e)
<1>1. \A k \in 0 .. Len(t) : Len(Strips(t, d)[k]) = Len(Strips(t, e)[k])
  <2>1. DropAlike(t, d, t, e)
    BY DEF DropAlike
  <2> QED
    BY <2>1, StripsAgree
<1>2. Strip(t, d) \in Seq(Chars) /\ Strip(t, e) \in Seq(Chars) /\ Len(t) \in 0 .. Len(t)
  <2>1. Len(t) \in 0 .. Len(t)
    OBVIOUS
  <2> QED
    BY <2>1, StripInSeq
<1>3. Len(Strip(t, d)) = Len(Strip(t, e))
  BY <1>1, <1>2 DEF Strip
<1>4. ASSUME NEW m \in 1 .. Len(Strip(t, d))
      PROVE  Strip(t, d)[m] = Strip(t, e)[m]
  <2>1. PICK k \in 1 .. Len(t) : t[k] \notin d /\ Len(Strips(t, d)[k]) = m
    BY StripOrigin
  <2>2. t[k] \notin e /\ Len(Strips(t, e)[k]) = m
    BY <1>1, <2>1
  <2>3. Strip(t, d)[m] = t[k] /\ Strip(t, e)[m] = t[k]
    BY <2>1, <2>2, StripKept
  <2> QED
    BY <2>3
<1> QED
  BY <1>2, <1>3, <1>4, SameSeq

\* To drop more is to keep fewer, and strictly so if there is more to drop.
LEMMA StripFewer ==
  ASSUME NEW t \in Seq(Chars), NEW d, NEW e, d \subseteq e, NEW j \in 1 .. Len(t), t[j] \in e \ d
  PROVE  Len(Strip(t, e)) < Len(Strip(t, d))
<1> DEFINE n == Len(t)
           p == Strips(t, d)
           q == Strips(t, e)
           Fewer(k) == Len(q[k]) <= Len(p[k]) /\ (j <= k => Len(q[k]) < Len(p[k]))
           S == {k \in 0 .. n : Fewer(k)}
<1>0. n \in Nat /\ j \in 1 .. n
  OBVIOUS
<1>1. /\ p[0] = <<>> /\ q[0] = <<>>
      /\ \A k \in 0 .. n : p[k] \in Seq(Chars) /\ q[k] \in Seq(Chars)
  BY StripsDef
<1>2. ASSUME NEW k \in 1 .. n
      PROVE  /\ t[k] \in d => p[k] = p[k - 1]
             /\ t[k] \notin d => p[k] = Append(p[k - 1], t[k])
             /\ t[k] \in e => q[k] = q[k - 1]
             /\ t[k] \notin e => q[k] = Append(q[k - 1], t[k])
             /\ t[k] \in Chars
  BY StripsDef
<1> HIDE DEF p, q, n
<1>3. 0 \in S
  BY <1>0, <1>1
<1>4. ASSUME NEW i \in 0 .. n - 1, i \in S
      PROVE  i + 1 \in S
  <2>1. PICK k \in 1 .. n : k = i + 1 /\ k - 1 = i
    BY <1>0
  <2>2. /\ p[i] \in Seq(Chars) /\ q[i] \in Seq(Chars) /\ t[k] \in Chars
        /\ Len(p[i]) \in Nat /\ Len(q[i]) \in Nat
        /\ Len(Append(p[i], t[k])) = Len(p[i]) + 1 /\ Len(Append(q[i], t[k])) = Len(q[i]) + 1
    <3>1. i \in 0 .. n
      BY <1>0
    <3>2. p[i] \in Seq(Chars) /\ q[i] \in Seq(Chars) /\ t[k] \in Chars
      BY <1>1, <1>2, <3>1, Zenon
    <3>3. \A u \in Seq(Chars), c \in Chars : Len(u) \in Nat /\ Len(Append(u, c)) = Len(u) + 1
      OBVIOUS
    <3> QED
      BY <3>2, <3>3, Zenon
  <2>3. Len(p[k]) = IF t[k] \in d THEN Len(p[i]) ELSE Len(p[i]) + 1
    BY <1>2, <2>1, <2>2, Zenon
  <2>4. Len(q[k]) = IF t[k] \in e THEN Len(q[i]) ELSE Len(q[i]) + 1
    BY <1>2, <2>1, <2>2, Zenon
  <2>5. Fewer(i)
    BY <1>4
  <2>6. /\ t[k] \in d => t[k] \in e
        /\ k = j => t[k] \in e /\ t[k] \notin d
    OBVIOUS
  <2>7. Fewer(k)
    BY <1>0, <2>1, <2>2, <2>3, <2>4, <2>5, <2>6
  <2>8. i + 1 \in 0 .. n /\ i + 1 = k
    BY <1>0, <2>1
  <2> HIDE DEF Fewer
  <2> QED
    BY <2>7, <2>8, Zenon
<1> HIDE DEF S
<1>5. 0 .. n \subseteq S
  BY <1>0, <1>3, <1>4, InductionTo
<1>6. n \in S
  BY <1>0, <1>5
<1> QED
  BY <1>0, <1>6 DEF S, Strip, p, q, n

\* Characters before the first one dropped keep their places.
LEMMA StripStart ==
  ASSUME NEW t \in Seq(Chars), NEW drop, NEW n \in 0 .. Len(t),
         \A k \in 1 .. n : t[k] \notin drop
  PROVE  /\ \A k \in 0 .. n : Len(Strips(t, drop)[k]) = k
         /\ n <= Len(Strip(t, drop))
         /\ \A k \in 1 .. n : Strip(t, drop)[k] = t[k]
<1> DEFINE p == Strips(t, drop)
           Whole(k) == Len(p[k]) = k
           S == {k \in 0 .. n : Whole(k)}
<1>0. n \in Nat /\ \A k \in 1 .. n : k \in 1 .. Len(t)
  OBVIOUS
<1>1. Whole(0)
  <2>1. p[0] = <<>>
    BY StripsDef
  <2> QED
    BY <2>1
<1>2. ASSUME NEW k \in 0 .. n - 1, Whole(k)
      PROVE  Whole(k + 1)
  <2>1. PICK j \in 1 .. n : j = k + 1 /\ j - 1 = k /\ j \in 1 .. Len(t)
    BY <1>0
  <2>2. Len(p[j]) = Len(p[j - 1]) + 1
    BY <2>1, StripKept
  <2> QED
    BY <1>2, <2>1, <2>2
<1> HIDE DEF Whole
<1>3. 0 \in S /\ \A k \in 0 .. n - 1 : k \in S => k + 1 \in S
  BY <1>0, <1>1, <1>2
<1> HIDE DEF S
<1>4. 0 .. n \subseteq S
  BY <1>0, <1>3, InductionTo
<1>5. \A k \in 0 .. n : Len(p[k]) = k
  BY <1>4 DEF S, Whole
<1>6. \A k \in 1 .. n : Len(p[k]) \in 1 .. Len(Strip(t, drop)) /\ Strip(t, drop)[Len(p[k])] = t[k]
  BY <1>0, StripKept
<1>7. Len(Strip(t, drop)) \in Nat
  BY StripInSeq
<1> HIDE DEF p
<1>8. \A k \in 1 .. n : k \in 1 .. Len(Strip(t, drop)) /\ Strip(t, drop)[k] = t[k]
  BY <1>0, <1>5, <1>6
<1>9. n <= Len(Strip(t, drop))
  BY <1>0, <1>7, <1>8
<1> QED
  BY <1>5, <1>8, <1>9 DEF p

\* Nothing to drop.
LEMMA StripNone ==
  ASSUME NEW t \in Seq(Chars), NEW drop, \A k \in 1 .. Len(t) : t[k] \notin drop
  PROVE  Strip(t, drop) = t
<1>1. Len(t) \in 0 .. Len(t)
  OBVIOUS
<1>2. /\ Len(t) <= Len(Strip(t, drop))
      /\ \A k \in 1 .. Len(t) : Strip(t, drop)[k] = t[k]
  BY <1>1, StripStart
<1>3. Strip(t, drop) \in Seq(Chars) /\ Len(Strip(t, drop)) <= Len(t)
  BY StripInSeq
<1> QED
  BY <1>2, <1>3, SameSeq

----------------------------------------------------------------------------
(* Sums. *)

LEMMA RowIsSeq ==
  ASSUME NEW n \in Nat, NEW S, NEW f \in [1 .. n -> S]
  PROVE  f \in Seq(S) /\ Len(f) = n
  OBVIOUS

\* The sums of a row, step by step.
LEMMA SumsDef ==
  ASSUME NEW n \in Nat, NEW f \in [1 .. n -> Int]
  PROVE  /\ Len(f) = n
         /\ \A k \in 0 .. n : Sums(f)[k] \in Int
         /\ Sums(f)[0] = 0
         /\ \A k \in 1 .. n : Sums(f)[k] = Sums(f)[k - 1] + f[k]
<1> DEFINE step == [k \in 1 .. n |-> [s \in Int |-> s + f[k]]]
<1>0. Len(f) = n
  BY RowIsSeq
<1>1. step \in [1 .. n -> [Int -> Int]]
  OBVIOUS
<1>2. PICK u \in [0 .. n -> Int] : u[0] = 0 /\ \A k \in 1 .. n : u[k] = step[k][u[k - 1]]
  <2> HIDE DEF step
  <2>0. 0 \in Int
    OBVIOUS
  <2>1. Solvable(Int, 0, n, step)
    BY <1>1, <2>0, Recursion, Zenon
  <2> QED
    BY <2>1 DEF Solvable
<1>3. \A k \in 1 .. n : u[k] = u[k - 1] + f[k]
  <2> SUFFICES ASSUME NEW k \in 1 .. n
               PROVE  u[k] = u[k - 1] + f[k]
    OBVIOUS
  <2>1. u[k - 1] \in Int
    OBVIOUS
  <2> QED
    BY <1>2, <2>1
<1> HIDE DEF step
<1>4. u = [k \in 0 .. n |-> IF k = 0 THEN 0 ELSE u[k - 1] + f[k]]
  <2>1. \A k \in 0 .. n : u[k] = IF k = 0 THEN 0 ELSE u[k - 1] + f[k]
    BY <1>2, <1>3
  <2>2. u = [k \in 0 .. n |-> u[k]]
    OBVIOUS
  <2> QED
    BY <2>1, <2>2
<1>5. u = [k \in 0 .. Len(f) |-> IF k = 0 THEN 0 ELSE u[k - 1] + f[k]]
  BY <1>0, <1>4
<1> DEFINE g == Sums(f)
<1>6. g = [k \in 0 .. Len(f) |-> IF k = 0 THEN 0 ELSE g[k - 1] + f[k]]
  BY <1>5, Zenon DEF Sums
<1> HIDE DEF g
<1>7. g[0] = 0 /\ \A k \in 1 .. n : g[k] = g[k - 1] + f[k]
  BY <1>0, <1>6
<1>8. \A k \in 0 .. n : g[k] \in Int
  <2> DEFINE S == {k \in 0 .. n : g[k] \in Int}
  <2>1. 0 \in S
    BY <1>7
  <2>2. ASSUME NEW k \in 0 .. n - 1, k \in S
        PROVE  k + 1 \in S
    <3>1. PICK j \in 1 .. n : j = k + 1 /\ j - 1 = k
      OBVIOUS
    <3>2. g[j] = g[k] + f[j] /\ g[k] \in Int /\ f[j] \in Int
      BY <1>7, <2>2, <3>1
    <3>3. g[j] \in Int
      BY <3>2
    <3> QED
      BY <3>1, <3>3
  <2> HIDE DEF S
  <2>3. 0 .. n \subseteq S
    BY <2>1, <2>2, InductionTo
  <2> QED
    BY <2>3 DEF S
<1> QED
  BY <1>0, <1>7, <1>8 DEF g

\* Rows that differ at one place: the sums differ as the entries there.
LEMMA SumOne ==
  ASSUME NEW n \in Nat, NEW f \in [1 .. n -> Int], NEW g \in [1 .. n -> Int],
         NEW i \in 1 .. n, \A k \in 1 .. n : k # i => f[k] = g[k]
  PROVE  /\ Sum(f) \in Int /\ Sum(g) \in Int
         /\ Sum(g) = Sum(f) + (g[i] - f[i])
<1> DEFINE u == Sums(f)
           v == Sums(g)
           S == {k \in 0 .. n : v[k] = u[k] + (IF k < i THEN 0 ELSE g[i] - f[i])}
<1>1. /\ Len(f) = n /\ u[0] = 0 /\ \A k \in 0 .. n : u[k] \in Int
      /\ \A k \in 1 .. n : u[k] = u[k - 1] + f[k]
  BY SumsDef
<1>2. /\ Len(g) = n /\ v[0] = 0 /\ \A k \in 0 .. n : v[k] \in Int
      /\ \A k \in 1 .. n : v[k] = v[k - 1] + g[k]
  BY SumsDef
<1> HIDE DEF u, v
<1>3. 0 \in S
  BY <1>1, <1>2
<1>4. ASSUME NEW k \in 0 .. n - 1, k \in S
      PROVE  k + 1 \in S
  <2>1. PICK j \in 1 .. n : j = k + 1 /\ j - 1 = k
    OBVIOUS
  <2>2. u[j] = u[j - 1] + f[j] /\ v[j] = v[j - 1] + g[j] /\ u[j - 1] \in Int /\ v[j - 1] \in Int
    BY <1>1, <1>2
  <2>3. j # i => f[j] = g[j]
    OBVIOUS
  <2>4. v[j - 1] = u[j - 1] + (IF j - 1 < i THEN 0 ELSE g[i] - f[i])
    BY <1>4, <2>1
  <2>5. f[j] \in Int /\ g[j] \in Int /\ f[i] \in Int /\ g[i] \in Int
    OBVIOUS
  <2>6. v[j] = u[j] + (IF j < i THEN 0 ELSE g[i] - f[i])
    <3>1. CASE j < i
      <4>1. v[j - 1] = u[j - 1] + 0 /\ f[j] = g[j]
        BY <2>3, <2>4, <3>1
      <4> QED
        BY <2>2, <2>5, <3>1, <4>1
    <3>2. CASE j = i
      <4>1. v[j - 1] = u[j - 1] + 0
        BY <2>4, <3>2
      <4> QED
        BY <2>2, <2>5, <3>2, <4>1
    <3>3. CASE j > i
      <4>1. v[j - 1] = u[j - 1] + (g[i] - f[i]) /\ f[j] = g[j]
        BY <2>3, <2>4, <3>3
      <4>2. v[j] = (u[j - 1] + (g[i] - f[i])) + f[j] /\ u[j] = u[j - 1] + f[j]
        BY <2>2, <4>1, Zenon
      <4>3. PICK x, y, z \in Int : x = u[j - 1] /\ y = g[i] - f[i] /\ z = f[j]
        BY <2>2, <2>5
      <4>4. g[i] - f[i] \in Int /\ ~(j < i)
        BY <2>5, <3>3
      <4>5. v[j] = u[j] + (g[i] - f[i])
        <5>1. (x + y) + z = (x + z) + y
          OBVIOUS
        <5> QED
          BY <4>2, <4>3, <5>1, Zenon
      <4> QED
        BY <4>4, <4>5, Zenon
    <3> QED
      BY <3>1, <3>2, <3>3
  <2> QED
    BY <2>1, <2>6
<1> HIDE DEF S
<1>5. 0 .. n \subseteq S
  BY <1>3, <1>4, InductionTo
<1>6. v[n] = u[n] + (g[i] - f[i]) /\ u[n] \in Int /\ v[n] \in Int
  BY <1>1, <1>2, <1>5 DEF S
<1> QED
  BY <1>1, <1>2, <1>6 DEF Sum, u, v

\* Rows that differ at two places.
SameBut(n, f, g, i, j) == \A k \in 1 .. n : k # i /\ k # j => f[k] = g[k]

LEMMA SumTwo ==
  ASSUME NEW n \in Nat, NEW f \in [1 .. n -> Int], NEW g \in [1 .. n -> Int],
         NEW i \in 1 .. n, NEW j \in 1 .. n, i # j, SameBut(n, f, g, i, j)
  PROVE  /\ Sum(f) \in Int /\ Sum(g) \in Int
         /\ Sum(g) = Sum(f) + (g[i] - f[i]) + (g[j] - f[j])
<1> DEFINE h == [f EXCEPT ![i] = g[i]]
<1>1. /\ h \in [1 .. n -> Int] /\ h[i] = g[i] /\ h[j] = f[j]
      /\ \A k \in 1 .. n : k # i => f[k] = h[k]
      /\ \A k \in 1 .. n : k # j => h[k] = g[k]
  BY DEF SameBut
<1> HIDE DEF h
<1>2. Sum(f) \in Int /\ Sum(h) \in Int /\ Sum(h) = Sum(f) + (h[i] - f[i])
  BY <1>1, SumOne
<1>3. Sum(g) \in Int /\ Sum(g) = Sum(h) + (g[j] - h[j])
  BY <1>1, SumOne
<1>4. f[i] \in Int /\ f[j] \in Int /\ g[i] \in Int /\ g[j] \in Int
  OBVIOUS
<1> QED
  BY <1>1, <1>2, <1>3, <1>4

LEMMA SumInt ==
  ASSUME NEW n \in Nat, NEW f \in [1 .. n -> Int]
  PROVE  Sum(f) \in Int
<1>1. Len(f) = n /\ Sums(f)[n] \in Int
  BY SumsDef
<1> QED
  BY <1>1 DEF Sum

----------------------------------------------------------------------------
(* Check digits: the code computes what the standards ask for. *)

\* The summands of each kind of number.
CardRow(cs) ==
    [k \in 1 .. Len(cs) |->
        IF (Len(cs) - k) % 2 = 1 THEN ((2 * cs[k]) \div 10) + ((2 * cs[k]) % 10) ELSE cs[k]]
PeselRow(cs) == [k \in 1 .. 10 |-> cs[k] * PeselWeights[k]]
NipRow(cs) == [k \in 1 .. 9 |-> cs[k] * NipWeights[k]]
IbanRow(w) == [k \in 1 .. Len(w) |-> w[k] * PlaceValues(w)[Len(w) - k]]

\* The check digits of the standards, as sums of rows.
LEMMA ValidDef ==
  ASSUME NEW cs \in Seq(Chars)
  PROVE  /\ Valid("card", cs) <=> Sum(CardRow(cs)) % 10 = 0
         /\ Valid("pesel", cs) <=> (Sum(PeselRow(cs)) + cs[11]) % 10 = 0
         /\ Valid("nip", cs) <=> (Sum(NipRow(cs)) - cs[10]) % 11 = 0
<1>1. DOMAIN cs = 1 .. Len(cs) /\ DOMAIN PeselWeights = 1 .. 10 /\ DOMAIN NipWeights = 1 .. 9
  BY DEF PeselWeights, NipWeights
<1>2. Valid("card", cs) <=> Sum(CardRow(cs)) % 10 = 0
  BY <1>1, Zenon DEF Valid, CardRow
<1>3. Valid("pesel", cs) <=> (Sum(PeselRow(cs)) + cs[11]) % 10 = 0
  BY <1>1, Zenon DEF Valid, PeselRow, Weighted
<1>4. Valid("nip", cs) <=> (Sum(NipRow(cs)) - cs[10]) % 11 = 0
  BY <1>1, Zenon DEF Valid, NipRow, Weighted
<1> QED
  BY <1>2, <1>3, <1>4

\* The same for an IBAN, with the characters of the rearranged text.
LEMMA ValidIbanDef ==
  ASSUME NEW cs \in Seq(Chars), 4 <= Len(cs)
  PROVE  /\ Rearranged(cs) \in Seq(Chars) /\ Len(Rearranged(cs)) = Len(cs)
         /\ \A k \in 1 .. Len(cs) - 4 : Rearranged(cs)[k] = cs[k + 4]
         /\ \A k \in 1 .. 4 : Rearranged(cs)[(Len(cs) - 4) + k] = cs[k]
         /\ Valid("iban", cs) <=> Sum(IbanRow(Rearranged(cs))) % 97 = 1
<1> DEFINE a == SubSeq(cs, 5, Len(cs))
           b == SubSeq(cs, 1, 4)
<1>1. /\ a \in Seq(Chars) /\ Len(a) = Len(cs) - 4
      /\ \A k \in 1 .. Len(cs) - 4 : a[k] = cs[k + 4]
  <2>1. 5 \in 1 .. Len(cs) + 1 /\ Len(cs) \in 5 - 1 .. Len(cs) /\ Len(cs) \in Nat
    OBVIOUS
  <2>2. /\ a \in Seq(Chars) /\ Len(a) = (Len(cs) - 5) + 1
        /\ \A k \in 1 .. (Len(cs) - 5) + 1 : a[k] = cs[(5 + k) - 1]
    BY <2>1, PartOf
  <2> HIDE DEF a
  <2>3. (Len(cs) - 5) + 1 = Len(cs) - 4
    BY <2>1
  <2>4. ASSUME NEW k \in 1 .. Len(cs) - 4
        PROVE  a[k] = cs[k + 4]
    <3>1. k \in 1 .. (Len(cs) - 5) + 1 /\ (5 + k) - 1 = k + 4
      BY <2>3
    <3>2. a[k] = cs[(5 + k) - 1]
      BY <2>2, <3>1
    <3> QED
      BY <3>1, <3>2
  <2> QED
    BY <2>2, <2>3, <2>4
<1>2. b \in Seq(Chars) /\ Len(b) = 4 /\ \A k \in 1 .. 4 : b[k] = cs[k]
  OBVIOUS
<1>3. Rearranged(cs) = a \o b
  BY DEF Rearranged
<1> HIDE DEF a, b
<1>9. /\ a \o b \in Seq(Chars) /\ Len(a \o b) = Len(a) + Len(b)
      /\ \A k \in 1 .. Len(a) : (a \o b)[k] = a[k]
      /\ \A k \in 1 .. Len(b) : (a \o b)[Len(a) + k] = b[k]
  BY <1>1, <1>2, Joined
<1>4. a \o b \in Seq(Chars) /\ Len(a \o b) = Len(cs) /\ Len(cs) \in Nat
  BY <1>1, <1>2, <1>9
<1>5. \A k \in 1 .. Len(cs) - 4 : (a \o b)[k] = cs[k + 4]
  BY <1>1, <1>9
<1>6. \A k \in 1 .. 4 : (a \o b)[(Len(cs) - 4) + k] = cs[k]
  <2> SUFFICES ASSUME NEW k \in 1 .. 4
               PROVE  (a \o b)[(Len(cs) - 4) + k] = cs[k]
    OBVIOUS
  <2>1. (a \o b)[Len(a) + k] = b[k]
    BY <1>2, <1>9
  <2> QED
    BY <1>1, <1>2, <2>1
<1>7. DOMAIN Rearranged(cs) = 1 .. Len(Rearranged(cs))
  BY <1>3, <1>4
<1>8. Valid("iban", cs) <=> Sum(IbanRow(Rearranged(cs))) % 97 = 1
  <2>1. Valid("iban", cs) <=>
          Sum([k \in DOMAIN Rearranged(cs) |->
                 Rearranged(cs)[k] * PlaceValues(Rearranged(cs))[Len(Rearranged(cs)) - k]]) % 97 = 1
    BY Zenon DEF Valid, Rearranged
  <2> QED
    BY <1>7, <2>1, Zenon DEF IbanRow
<1> QED
  BY <1>3, <1>4, <1>5, <1>6, <1>8

LEMMA CardRowType ==
  ASSUME NEW cs \in Seq(Chars)
  PROVE  CardRow(cs) \in [1 .. Len(cs) -> Int]
<1>1. \A k \in 1 .. Len(cs) : cs[k] \in Int
  BY CharAt
<1> QED
  BY <1>1 DEF CardRow

LEMMA PeselRowType ==
  ASSUME NEW cs \in Seq(Chars), Len(cs) = 11
  PROVE  PeselRow(cs) \in [1 .. 10 -> Int] /\ cs[11] \in Int
<1>1. \A k \in 1 .. 11 : cs[k] \in Int
  BY CharAt
<1>2. \A k \in 1 .. 10 : PeselWeights[k] \in Int
  BY DEF PeselWeights
<1>3. \A k \in 1 .. 10 : cs[k] * PeselWeights[k] \in Int
  <2>1. ASSUME NEW k \in 1 .. 10
        PROVE  cs[k] \in Int
    <3>1. k \in 1 .. Len(cs)
      OBVIOUS
    <3> QED
      BY <3>1, CharAt
  <2> QED
    BY <1>2, <2>1, Products, Zenon
<1> QED
  BY <1>1, <1>3 DEF PeselRow

LEMMA NipRowType ==
  ASSUME NEW cs \in Seq(Chars), Len(cs) = 10
  PROVE  NipRow(cs) \in [1 .. 9 -> Int] /\ cs[10] \in Int
<1>1. \A k \in 1 .. 10 : cs[k] \in Int
  BY CharAt
<1>2. \A k \in 1 .. 9 : NipWeights[k] \in Int
  BY DEF NipWeights
<1>3. \A k \in 1 .. 9 : cs[k] * NipWeights[k] \in Int
  <2>1. ASSUME NEW k \in 1 .. 9
        PROVE  cs[k] \in Int
    <3>1. k \in 1 .. Len(cs)
      OBVIOUS
    <3> QED
      BY <3>1, CharAt
  <2> QED
    BY <1>2, <2>1, Products, Zenon
<1> QED
  BY <1>1, <1>3 DEF NipRow

\* A text without foreign digits.
Plain(t) == AllIn(t, Chars \ Foreign)

\* Its bytes are its characters, and those of no other text are.
LEMMA BytesAre ==
  ASSUME NEW t \in Seq(Chars)
  PROVE  Bytes(t) \in Nat /\ (Bytes(t) = Len(t) <=> Plain(t))
<1> DEFINE W(n) == {k \in DOMAIN t : Width(t[k]) > n}
<1>0. Len(t) \in Nat /\ DOMAIN t = 1 .. Len(t)
  OBVIOUS
<1>1. \A c \in Chars : /\ c \in Foreign => Width(c) > 1
                       /\ c \notin Foreign => ~(Width(c) > 1) /\ ~(Width(c) > 2) /\ ~(Width(c) > 3)
  BY DEF Width, Foreign, Chars
<1>2. \A n : IsFiniteSet(W(n)) /\ Cardinality(W(n)) \in Nat
  <2>1. IsFiniteSet(1 .. Len(t))
    BY <1>0, FS_Interval
  <2> QED
    BY <1>0, <2>1, FS_Subset, FS_CardinalityType, Zenon
<1>3. Bytes(t) = Len(t) + Cardinality(W(1)) + Cardinality(W(2)) + Cardinality(W(3))
  BY Zenon DEF Bytes
<1>4. ASSUME Plain(t)
      PROVE  Bytes(t) = Len(t)
  <2>1. W(1) = {} /\ W(2) = {} /\ W(3) = {}
    BY <1>0, <1>1, <1>4, Zenon DEF Plain, AllIn
  <2>2. Bytes(t) = Len(t) + 0 + 0 + 0
    BY <1>3, <2>1, FS_EmptySet, Zenon
  <2> QED
    BY <1>0, <2>2
<1>5. ASSUME Bytes(t) = Len(t)
      PROVE  Plain(t)
  <2>1. Cardinality(W(1)) = 0
    <3> HIDE DEF W
    <3>1. Cardinality(W(1)) \in Nat /\ Cardinality(W(2)) \in Nat /\ Cardinality(W(3)) \in Nat
      BY <1>2, Zenon
    <3> QED
      BY <1>0, <1>3, <1>5, <3>1
  <2>2. W(1) = {}
    BY <1>2, <2>1, FS_EmptySet, Zenon
  <2>3. \A k \in DOMAIN t : t[k] \in Chars
    OBVIOUS
  <2>4. \A k \in DOMAIN t : t[k] \notin Foreign
    BY <1>1, <2>2, <2>3, Zenon
  <2> QED
    BY <2>3, <2>4, Zenon DEF Plain, AllIn
<1>6. Bytes(t) \in Nat
  <2> HIDE DEF W
  <2>1. Cardinality(W(1)) \in Nat /\ Cardinality(W(2)) \in Nat /\ Cardinality(W(3)) \in Nat
    BY <1>2, Zenon
  <2> QED
    BY <1>0, <1>3, <2>1
<1> QED
  BY <1>4, <1>5, <1>6

\* split_at(4) splits such a text.
LEMMA PlainSplits ==
  ASSUME NEW t \in Seq(Chars), Plain(t), 4 <= Len(t)
  PROVE  ~IbanPanics(t)
<1>1. Len(t) \in Nat /\ 4 \in 0 .. Len(t) /\ DOMAIN t = 1 .. Len(t)
  OBVIOUS
<1> DEFINE u == SubSeq(t, 1, 4)
<1>2. u \in Seq(Chars) /\ Len(u) = 4 /\ \A k \in 1 .. 4 : u[k] = t[k]
  BY <1>1, PartOf
<1> HIDE DEF u
<1>3. DOMAIN u = 1 .. 4 /\ \A k \in 1 .. 4 : k \in DOMAIN t
  BY <1>1, <1>2
<1>4. Plain(u)
  BY <1>2, <1>3, Zenon DEF Plain, AllIn
<1>5. Bytes(u) = 4
  BY <1>2, <1>4, BytesAre
<1> QED
  BY <1>1, <1>5, Zenon DEF IbanPanics, u

LEMMA DigitsArePlain ==
  ASSUME NEW t, AllIn(t, Digit)
  PROVE  Plain(t)
<1>1. Digit \subseteq Chars \ Foreign
  BY DEF Digit, Chars, Foreign
<1> QED
  BY <1>1, Zenon DEF Plain, AllIn

\* luhn_check: taking 9 off a doubled digit above 9 is its digit sum.
LEMMA LuhnRight ==
  ASSUME NEW cs \in Seq(Chars), AllIn(cs, Digit)
  PROVE  LuhnCheck(cs) <=> Valid("card", cs)
<1>1. \A k \in 1 .. Len(cs) : cs[k] \in Digit
  BY DEF AllIn
<1> DEFINE Doubled(d) == IF 2 * d > 9 THEN 2 * d - 9 ELSE 2 * d
           row == [k \in 1 .. Len(cs) |->
                      IF (Len(cs) - k) % 2 = 1 THEN Doubled(cs[k]) ELSE cs[k]]
<1>2. \A d \in Digit : Doubled(d) = ((2 * d) \div 10) + ((2 * d) % 10)
  BY DEF Digit
<1>3. row = CardRow(cs)
  <2> HIDE DEF Doubled
  <2> QED
    BY <1>1, <1>2 DEF CardRow
<1>4. DOMAIN cs = 1 .. Len(cs)
  OBVIOUS
<1>5. LuhnCheck(cs) <=> Sum(row) % 10 = 0
  BY <1>4, Zenon DEF LuhnCheck
<1> QED
  BY <1>3, <1>5, ValidDef, Zenon

\* pesel_check: the check digit completes the sum to a multiple of ten.
LEMMA PeselRight ==
  ASSUME NEW cs \in Seq(Chars), AllIn(cs, Digit), Len(cs) = 11
  PROVE  PeselCheck(cs) <=> Valid("pesel", cs)
<1>1. Weighted(cs, PeselWeights) = Sum(PeselRow(cs))
  <2>1. DOMAIN PeselWeights = 1 .. 10
    BY DEF PeselWeights
  <2> QED
    BY <2>1, Zenon DEF PeselRow, Weighted
<1>2. Sum(PeselRow(cs)) \in Int
  <2>1. 10 \in Nat
    OBVIOUS
  <2> QED
    BY <2>1, PeselRowType, SumInt
<1>3. cs[11] \in 0 .. 9
  BY DEF AllIn, Digit
<1>4. \A w \in Int, d \in 0 .. 9 : (10 - (w % 10)) % 10 = d <=> (w + d) % 10 = 0
  OBVIOUS
<1>5. PeselCheck(cs) <=> (10 - (Sum(PeselRow(cs)) % 10)) % 10 = cs[11]
  <2>1. Bytes(cs) = 11
    BY DigitsArePlain, BytesAre
  <2> QED
    BY <1>1, <2>1, Zenon DEF PeselCheck
<1> QED
  BY <1>2, <1>3, <1>4, <1>5, ValidDef

\* nip_check: a remainder of 10 is no digit.
LEMMA NipRight ==
  ASSUME NEW cs \in Seq(Chars), AllIn(cs, Digit), Len(cs) = 10
  PROVE  NipCheck(cs) <=> Valid("nip", cs)
<1>1. Weighted(cs, NipWeights) = Sum(NipRow(cs))
  <2>1. DOMAIN NipWeights = 1 .. 9
    BY DEF NipWeights
  <2> QED
    BY <2>1, Zenon DEF NipRow, Weighted
<1>2. Sum(NipRow(cs)) \in Int
  <2>1. 9 \in Nat
    OBVIOUS
  <2> QED
    BY <2>1, NipRowType, SumInt
<1>3. cs[10] \in 0 .. 9
  BY DEF AllIn, Digit
<1>4. \A w \in Int, d \in 0 .. 9 : (w % 11 # 10 /\ w % 11 = d) <=> (w - d) % 11 = 0
  OBVIOUS
<1>5. NipCheck(cs) <=> (Sum(NipRow(cs)) % 11 # 10 /\ Sum(NipRow(cs)) % 11 = cs[10])
  BY <1>1 DEF NipCheck
<1> QED
  BY <1>2, <1>3, <1>4, <1>5, ValidDef

\* The remainders of the code and the place values of the standard, as functions.
LEMMA RemaindersDef ==
  ASSUME NEW w \in Seq(Chars)
  PROVE  /\ \A k \in 0 .. Len(w) : Remainders(w)[k] \in 0 .. 96
         /\ Remainders(w)[0] = 0
         /\ \A k \in 1 .. Len(w) :
               Remainders(w)[k] =
                 IF w[k] < 10 THEN (Remainders(w)[k - 1] * 10 + w[k]) % 97
                 ELSE (Remainders(w)[k - 1] * 100 + w[k]) % 97
<1> DEFINE n == Len(w)
           After(r, k) == (IF w[k] < 10 THEN (r * 10) + w[k] ELSE (r * 100) + w[k]) % 97
           step == [k \in 1 .. n |-> [r \in 0 .. 96 |-> After(r, k)]]
<1>0. n \in Nat
  OBVIOUS
<1>1. ASSUME NEW k \in 1 .. n, NEW r \in 0 .. 96
      PROVE  After(r, k) \in 0 .. 96
  <2>1. PICK c \in Int : c = w[k]
    BY CharAt
  <2>2. (IF c < 10 THEN (r * 10) + c ELSE (r * 100) + c) % 97 \in 0 .. 96
    OBVIOUS
  <2> QED
    BY <2>1, <2>2, Zenon
<1> HIDE DEF n, After
<1>2. step \in [1 .. n -> [0 .. 96 -> 0 .. 96]]
  BY <1>1
<1>3. PICK f \in [0 .. n -> 0 .. 96] : f[0] = 0 /\ \A k \in 1 .. n : f[k] = step[k][f[k - 1]]
  <2> HIDE DEF step
  <2>1. 0 \in 0 .. 96
    OBVIOUS
  <2>2. Solvable(0 .. 96, 0, n, step)
    BY <1>0, <1>2, <2>1, Recursion, Zenon
  <2> QED
    BY <2>2 DEF Solvable
<1>4. ASSUME NEW k \in 1 .. n
      PROVE  f[k] = After(f[k - 1], k)
  <2>1. f[k - 1] \in 0 .. 96
    BY <1>0
  <2>2. step[k][f[k - 1]] = After(f[k - 1], k)
    BY <2>1
  <2> QED
    BY <1>3, <2>2
<1> HIDE DEF step
<1>5. f = [k \in 0 .. n |-> IF k = 0 THEN 0 ELSE After(f[k - 1], k)]
  <2>1. \A k \in 0 .. n : f[k] = IF k = 0 THEN 0 ELSE After(f[k - 1], k)
    BY <1>0, <1>3, <1>4
  <2>2. f = [k \in 0 .. n |-> f[k]]
    OBVIOUS
  <2> QED
    BY <2>1, <2>2
<1> DEFINE g == Remainders(w)
<1>6. g = [k \in 0 .. n |-> IF k = 0 THEN 0 ELSE After(g[k - 1], k)]
  BY <1>5, Zenon DEF Remainders, n, After
<1> HIDE DEF g
<1>7. g[0] = 0 /\ \A k \in 1 .. n : g[k] = After(g[k - 1], k)
  BY <1>0, <1>6
<1>8. \A k \in 0 .. n : g[k] \in 0 .. 96
  <2> DEFINE S == {k \in 0 .. n : g[k] \in 0 .. 96}
  <2>1. 0 \in S
    BY <1>0, <1>7
  <2>2. ASSUME NEW k \in 0 .. n - 1, k \in S
        PROVE  k + 1 \in S
    <3>1. k + 1 \in 1 .. n /\ (k + 1) - 1 = k
      BY <1>0
    <3>2. g[k] \in 0 .. 96 /\ g[k + 1] = After(g[k], k + 1)
      BY <1>7, <2>2, <3>1
    <3>3. g[k + 1] \in 0 .. 96
      BY <1>1, <3>1, <3>2, Zenon
    <3> QED
      BY <1>0, <3>3
  <2> HIDE DEF S
  <2>3. 0 .. n \subseteq S
    BY <1>0, <2>1, <2>2, InductionTo
  <2> QED
    BY <2>3 DEF S
<1>9. ASSUME NEW k \in 1 .. n
      PROVE  g[k] = IF w[k] < 10 THEN (g[k - 1] * 10 + w[k]) % 97
                    ELSE (g[k - 1] * 100 + w[k]) % 97
  BY <1>7, Zenon DEF After
<1> QED
  BY <1>7, <1>8, <1>9, Zenon DEF g, n

LEMMA PlaceValuesDef ==
  ASSUME NEW w \in Seq(Chars)
  PROVE  /\ \A k \in 0 .. Len(w) : PlaceValues(w)[k] \in 1 .. 96
         /\ PlaceValues(w)[0] = 1
         /\ \A k \in 1 .. Len(w) :
               PlaceValues(w)[k] =
                 IF w[(Len(w) + 1) - k] \in Digit THEN (PlaceValues(w)[k - 1] * 10) % 97
                 ELSE (PlaceValues(w)[k - 1] * 100) % 97
<1> DEFINE n == Len(w)
           After(r, k) == IF w[(Len(w) + 1) - k] \in Digit THEN (r * 10) % 97 ELSE (r * 100) % 97
           step == [k \in 1 .. n |-> [r \in 1 .. 96 |-> After(r, k)]]
<1>0. n \in Nat
  OBVIOUS
<1>1. ASSUME NEW k \in 1 .. n, NEW r \in 1 .. 96
      PROVE  After(r, k) \in 1 .. 96
  <2>1. (r * 10) % 97 \in 1 .. 96 /\ (r * 100) % 97 \in 1 .. 96
    OBVIOUS
  <2> QED
    BY <2>1, Zenon
<1> HIDE DEF n, After
<1>2. step \in [1 .. n -> [1 .. 96 -> 1 .. 96]]
  BY <1>1
<1>3. PICK f \in [0 .. n -> 1 .. 96] : f[0] = 1 /\ \A k \in 1 .. n : f[k] = step[k][f[k - 1]]
  <2> HIDE DEF step
  <2>1. 1 \in 1 .. 96
    OBVIOUS
  <2>2. Solvable(1 .. 96, 1, n, step)
    BY <1>0, <1>2, <2>1, Recursion, Zenon
  <2> QED
    BY <2>2 DEF Solvable
<1>4. ASSUME NEW k \in 1 .. n
      PROVE  f[k] = After(f[k - 1], k)
  <2>1. f[k - 1] \in 1 .. 96
    BY <1>0
  <2>2. step[k][f[k - 1]] = After(f[k - 1], k)
    BY <2>1
  <2> QED
    BY <1>3, <2>2
<1> HIDE DEF step
<1>5. f = [k \in 0 .. n |-> IF k = 0 THEN 1 ELSE After(f[k - 1], k)]
  <2>1. \A k \in 0 .. n : f[k] = IF k = 0 THEN 1 ELSE After(f[k - 1], k)
    BY <1>0, <1>3, <1>4
  <2>2. f = [k \in 0 .. n |-> f[k]]
    OBVIOUS
  <2> QED
    BY <2>1, <2>2
<1> DEFINE g == PlaceValues(w)
<1>6. g = [k \in 0 .. n |-> IF k = 0 THEN 1 ELSE After(g[k - 1], k)]
  BY <1>5, Zenon DEF PlaceValues, n, After
<1> HIDE DEF g
<1>7. g[0] = 1 /\ \A k \in 1 .. n : g[k] = After(g[k - 1], k)
  BY <1>0, <1>6
<1>8. \A k \in 0 .. n : g[k] \in 1 .. 96
  <2> DEFINE S == {k \in 0 .. n : g[k] \in 1 .. 96}
  <2>1. 0 \in S
    BY <1>0, <1>7
  <2>2. ASSUME NEW k \in 0 .. n - 1, k \in S
        PROVE  k + 1 \in S
    <3>1. k + 1 \in 1 .. n /\ (k + 1) - 1 = k
      BY <1>0
    <3>2. g[k] \in 1 .. 96 /\ g[k + 1] = After(g[k], k + 1)
      BY <1>7, <2>2, <3>1
    <3>3. g[k + 1] \in 1 .. 96
      BY <1>1, <3>1, <3>2, Zenon
    <3> QED
      BY <1>0, <3>3
  <2> HIDE DEF S
  <2>3. 0 .. n \subseteq S
    BY <1>0, <2>1, <2>2, InductionTo
  <2> QED
    BY <2>3 DEF S
<1>9. ASSUME NEW k \in 1 .. n
      PROVE  g[k] = IF w[(n + 1) - k] \in Digit THEN (g[k - 1] * 10) % 97 ELSE (g[k - 1] * 100) % 97
  BY <1>7, Zenon DEF After, n
<1> QED
  BY <1>7, <1>8, <1>9, Zenon DEF g, n

LEMMA IbanRowType ==
  ASSUME NEW w \in Seq(Chars)
  PROVE  /\ IbanRow(w) \in [1 .. Len(w) -> Int]
         /\ \A k \in 1 .. Len(w) : IbanRow(w)[k] = w[k] * PlaceValues(w)[Len(w) - k]
<1>1. ASSUME NEW k \in 1 .. Len(w)
      PROVE  w[k] * PlaceValues(w)[Len(w) - k] \in Int
  <2>1. Len(w) - k \in 0 .. Len(w)
    OBVIOUS
  <2>2. PlaceValues(w)[Len(w) - k] \in 1 .. 96
    BY <2>1, PlaceValuesDef
  <2>3. \A c \in 1 .. 96 : c \in Int
    OBVIOUS
  <2>4. w[k] \in Int
    BY CharAt
  <2> QED
    BY <2>2, <2>3, <2>4, Products, Zenon
<1> QED
  BY <1>1, Zenon DEF IbanRow

Multiple(x) == \E q \in Int : x = 97 * q

\* One character more: what is read so far, moved to its place in the number,
\* and the sum of the places grow alike.
LEMMA OneMore ==
  ASSUME NEW r \in Int, NEW p \in Int, NEW c \in Int, NEW s \in Int, NEW m \in Int,
         Multiple(r * ((p * m) % 97) - s)
  PROVE  Multiple(((r * m + c) % 97) * p - (s + c * p))
<1> DEFINE a == (r * m + c) \div 97
           b == (p * m) \div 97
<1>1. /\ a \in Int /\ r * m + c = 97 * a + ((r * m + c) % 97)
      /\ b \in Int /\ p * m = 97 * b + ((p * m) % 97)
  <2>1. \A x \in Int : x \div 97 \in Int /\ x = 97 * (x \div 97) + (x % 97)
    OBVIOUS
  <2>2. r * m + c \in Int /\ p * m \in Int
    OBVIOUS
  <2> QED
    BY <2>1, <2>2
<1> HIDE DEF a, b
<1>2. PICK x \in Int : x = (r * m + c) % 97 /\ x = r * m + c - 97 * a
  BY <1>1
<1>3. PICK y \in Int : y = (p * m) % 97 /\ y = p * m - 97 * b
  BY <1>1
<1>4. PICK q \in Int : r * y - s = 97 * q
  BY <1>3 DEF Multiple
<1>5. r * y = r * (p * m) - 97 * (r * b)
  BY <1>1, <1>3
<1>6. x * p = (r * m) * p + c * p - 97 * (a * p)
  BY <1>1, <1>2
<1>7. (r * m) * p = r * (p * m)
  OBVIOUS
<1>8. r * b \in Int /\ a * p \in Int /\ c * p \in Int /\ r * (p * m) \in Int
  BY <1>1
<1>9. x * p - (s + c * p) = 97 * (q + (r * b) - (a * p))
  <2>1. PICK rb \in Int : rb = r * b
    BY <1>8
  <2>2. PICK ap \in Int : ap = a * p
    BY <1>8
  <2>3. PICK cp \in Int : cp = c * p
    BY <1>8
  <2>4. PICK rpm \in Int : rpm = r * (p * m)
    BY <1>8
  <2>5. x * p = rpm + cp - 97 * ap
    BY <1>6, <1>7, <2>2, <2>3, <2>4, Zenon
  <2>6. rpm - 97 * rb - s = 97 * q
    <3>1. r * y = rpm - 97 * rb
      BY <1>5, <2>1, <2>4, Zenon
    <3> QED
      BY <1>4, <3>1
  <2>7. (rpm + cp - 97 * ap) - (s + cp) = 97 * (q + rb - ap)
    BY <2>6
  <2> QED
    BY <2>1, <2>2, <2>3, <2>5, <2>7, Zenon
<1>10. q + (r * b) - (a * p) \in Int
  BY <1>8
<1> QED
  BY <1>2, <1>9, <1>10 DEF Multiple

\* iban_check computes the remainder of the number the characters spell.
LEMMA IbanSum ==
  ASSUME NEW w \in Seq(Chars)
  PROVE  /\ Sum(IbanRow(w)) \in Int
         /\ Sum(IbanRow(w)) % 97 = Remainders(w)[Len(w)]
<1> DEFINE n == Len(w)
           R == Remainders(w)
           P == PlaceValues(w)
           row == IbanRow(w)
           U == Sums(row)
           Moved(k) == Multiple(R[k] * P[n - k] - U[k])
           S == {k \in 0 .. n : Moved(k)}
<1>0. n \in Nat
  OBVIOUS
<1>1. row \in [1 .. n -> Int] /\ \A k \in 1 .. n : row[k] = w[k] * P[n - k]
  BY IbanRowType
<1>2. /\ Len(row) = n /\ U[0] = 0 /\ \A k \in 0 .. n : U[k] \in Int
      /\ \A k \in 1 .. n : U[k] = U[k - 1] + row[k]
  <2> HIDE DEF row, n
  <2> QED
    BY <1>0, <1>1, SumsDef
<1>3. R[0] = 0 /\ P[0] = 1 /\ (\A k \in 0 .. n : R[k] \in 0 .. 96) /\ \A k \in 0 .. n : P[k] \in 1 .. 96
  BY RemaindersDef, PlaceValuesDef
<1>4. ASSUME NEW k \in 1 .. n
      PROVE  \E m \in {10, 100} : /\ R[k] = (R[k - 1] * m + w[k]) % 97
                                  /\ P[n - (k - 1)] = (P[n - k] * m) % 97
  <2>1. R[k] = IF w[k] < 10 THEN (R[k - 1] * 10 + w[k]) % 97 ELSE (R[k - 1] * 100 + w[k]) % 97
    BY RemaindersDef, Zenon
  <2>2. PICK j \in 1 .. n : j = n - (k - 1) /\ j - 1 = n - k /\ (n + 1) - j = k
    <3>1. \A l \in Nat : \A i \in 1 .. l :
             /\ l - (i - 1) \in 1 .. l
             /\ (l - (i - 1)) - 1 = l - i /\ (l + 1) - (l - (i - 1)) = i
      OBVIOUS
    <3> HIDE DEF n
    <3> QED
      BY <1>0, <3>1, Zenon
  <2>3. P[j] = IF w[(n + 1) - j] \in Digit THEN (P[j - 1] * 10) % 97 ELSE (P[j - 1] * 100) % 97
    BY PlaceValuesDef, Zenon
  <2>4. P[n - (k - 1)] = IF w[k] \in Digit THEN (P[n - k] * 10) % 97 ELSE (P[n - k] * 100) % 97
    BY <2>2, <2>3, Zenon
  <2>5. w[k] \in Digit <=> w[k] < 10
    <3>1. \A c \in 0 .. 41 : c \in Digit <=> c < 10
      BY DEF Digit
    <3> QED
      BY <3>1, CharAt, Zenon
  <2> QED
    BY <2>1, <2>4, <2>5, Zenon
<1> HIDE DEF n, R, P, row, U
<1>12. (\A k \in 0 .. n : R[k] \in Int) /\ \A k \in 0 .. n : P[k] \in Int
  <2>1. (0 .. 96) \subseteq Int /\ (1 .. 96) \subseteq Int
    OBVIOUS
  <2> QED
    BY <1>3, <2>1, Zenon
<1>5. Moved(0)
  <2>1. P[n - 0] \in Int
    <3>1. n - 0 \in 0 .. n
      BY <1>0
    <3> QED
      BY <1>12, <3>1, Zenon
  <2>2. R[0] * P[n - 0] - U[0] = 97 * 0
    BY <1>2, <1>3, <2>1
  <2> QED
    BY <2>2 DEF Multiple
<1>6. ASSUME NEW k \in 1 .. n, Moved(k - 1)
      PROVE  Moved(k)
  <2>1. PICK m \in {10, 100} : /\ R[k] = (R[k - 1] * m + w[k]) % 97
                               /\ P[n - (k - 1)] = (P[n - k] * m) % 97
    BY <1>4
  <2>2. Multiple(R[k - 1] * P[n - (k - 1)] - U[k - 1])
    BY <1>6
  <2>11. k - 1 \in 0 .. n /\ n - k \in 0 .. n
    BY <1>0
  <2>3. PICK r \in Int : r = R[k - 1]
    <3>1. R[k - 1] \in Int
      BY <1>12, <2>11, Zenon
    <3> QED
      BY <3>1, Zenon
  <2>4. PICK p \in Int : p = P[n - k]
    <3>1. P[n - k] \in Int
      BY <1>12, <2>11, Zenon
    <3> QED
      BY <3>1, Zenon
  <2>5. PICK s \in Int : s = U[k - 1]
    BY <1>2, <2>11, Zenon
  <2>6. PICK c \in Int : c = w[k]
    BY CharAt DEF n
  <2>7. Multiple(r * ((p * m) % 97) - s)
    BY <2>1, <2>2, <2>3, <2>4, <2>5, Zenon
  <2>8. Multiple(((r * m + c) % 97) * p - (s + c * p))
    <3>1. m \in Int
      OBVIOUS
    <3> QED
      BY <2>7, <3>1, OneMore, Zenon
  <2>9. U[k] = s + c * p
    BY <1>1, <1>2, <2>4, <2>5, <2>6, Zenon
  <2>10. Multiple(R[k] * P[n - k] - U[k])
    BY <2>1, <2>3, <2>4, <2>6, <2>8, <2>9, Zenon
  <2> QED
    BY <2>10
<1> HIDE DEF Moved
<1>7. ASSUME NEW k \in 0 .. n - 1, k \in S
      PROVE  k + 1 \in S
  <2>1. PICK j \in 1 .. n : j = k + 1 /\ j - 1 = k
    BY <1>0
  <2>2. Moved(j)
    BY <1>6, <1>7, <2>1
  <2> QED
    BY <1>0, <2>1, <2>2
<1>8. 0 .. n \subseteq S
  <2>1. 0 \in S
    BY <1>0, <1>5
  <2> HIDE DEF S
  <2> QED
    BY <1>0, <1>7, <2>1, InductionTo
<1>9. PICK q \in Int : R[n] * P[n - n] - U[n] = 97 * q
  <2>1. n \in S
    BY <1>0, <1>8
  <2>2. Moved(n)
    BY <2>1 DEF S
  <2> QED
    BY <2>2, Zenon DEF Moved, Multiple
<1>10. P[n - n] = 1 /\ R[n] \in 0 .. 96 /\ U[n] \in Int
  BY <1>0, <1>2, <1>3
<1>11. U[n] % 97 = R[n]
  <2>1. \A u, z \in Int, r \in 0 .. 96 : r * 1 - u = 97 * z => u % 97 = r
    OBVIOUS
  <2>2. R[n] * 1 - U[n] = 97 * q
    BY <1>9, <1>10, Zenon
  <2> QED
    BY <1>10, <2>1, <2>2, Zenon
<1> QED
  BY <1>2, <1>10, <1>11 DEF Sum, U, R, n, row

\* iban_check accepts what ISO 7064 asks for.
LEMMA IbanRight ==
  ASSUME NEW cs \in Seq(Chars), AllIn(cs, Digit \cup Letter), 4 <= Len(cs)
  PROVE  IbanCheck(cs) <=> Valid("iban", cs)
<1>1. Rearranged(cs) \in Seq(Chars) /\ Len(Rearranged(cs)) = Len(cs)
  BY ValidIbanDef
<1>2. Sum(IbanRow(Rearranged(cs))) % 97 = Remainders(Rearranged(cs))[Len(cs)]
  BY <1>1, IbanSum
<1>3. Valid("iban", cs) <=> Sum(IbanRow(Rearranged(cs))) % 97 = 1
  BY ValidIbanDef
<1> QED
  BY <1>2, <1>3 DEF IbanCheck

----------------------------------------------------------------------------
(* find_iter. *)

\* Max chooses the greatest.
LEMMA MaxIs ==
  ASSUME NEW n \in Nat, NEW S \in SUBSET (1 .. n), S # {}
  PROVE  Max(S) \in S /\ \A y \in S : y <= Max(S)
<1> DEFINE T == {n - y : y \in S}
<1>1. T \in SUBSET Nat /\ T # {}
  OBVIOUS
<1> HIDE DEF T
<1>2. PICK x \in T : \A y \in T : x <= y
  BY <1>1, Least
<1>3. PICK z \in S : x = n - z
  BY <1>2 DEF T
<1>4. \A y \in S : z >= y
  <2> SUFFICES ASSUME NEW y \in S
               PROVE  z >= y
    OBVIOUS
  <2>1. n - y \in T
    BY DEF T
  <2>2. x <= n - y
    BY <1>2, <2>1
  <2> QED
    BY <1>3, <2>2
<1>5. Max(S) \in S /\ \A y \in S : Max(S) >= y
  BY <1>3, <1>4, Zenon DEF Max
<1>6. Max(S) \in 1 .. n
  BY <1>5
<1> QED
  BY <1>5, <1>6

EndsFrom(t, M, k) == {j \in 1 .. Len(t) : <<k, j>> \in M}

\* What find_iter has found once it has looked at the matches from k, too.
Found(t, M, b, k) ==
    IF EndsFrom(t, M, k) # {} /\ \A m \in b : m[2] < k
    THEN b \cup {<<k, Max(EndsFrom(t, M, k))>>} ELSE b

\* What find_iter has found, step by step.
LEMMA FindsDef ==
  ASSUME NEW t \in Seq(Chars), NEW M
  PROVE  /\ \A k \in 0 .. Len(t) : Finds(t, M)[k] \in SUBSET M
         /\ Finds(t, M)[0] = {}
         /\ \A k \in 1 .. Len(t) : Finds(t, M)[k] = Found(t, M, Finds(t, M)[k - 1], k)
<1> DEFINE n == Len(t)
           After(b, k) == Found(t, M, b, k)
           step == [k \in 1 .. n |-> [b \in SUBSET M |-> After(b, k)]]
<1>0. n \in Nat
  OBVIOUS
<1>1. ASSUME NEW k \in 1 .. n, NEW b \in SUBSET M
      PROVE  After(b, k) \in SUBSET M
  <2>1. CASE EndsFrom(t, M, k) # {}
    <3>1. EndsFrom(t, M, k) \in SUBSET (1 .. n)
      BY DEF EndsFrom
    <3>2. Max(EndsFrom(t, M, k)) \in EndsFrom(t, M, k)
      BY <1>0, <2>1, <3>1, MaxIs, Zenon
    <3>3. <<k, Max(EndsFrom(t, M, k))>> \in M
      BY <3>2, Zenon DEF EndsFrom
    <3> QED
      BY <3>3, Zenon DEF Found
  <2>2. CASE EndsFrom(t, M, k) = {}
    BY <2>2, Zenon DEF Found
  <2> QED
    BY <2>1, <2>2
<1> HIDE DEF n, After
<1>2. step \in [1 .. n -> [SUBSET M -> SUBSET M]]
  BY <1>1
<1>3. PICK f \in [0 .. n -> SUBSET M] : f[0] = {} /\ \A k \in 1 .. n : f[k] = step[k][f[k - 1]]
  <2> HIDE DEF step
  <2>1. {} \in SUBSET M
    OBVIOUS
  <2>2. Solvable(SUBSET M, {}, n, step)
    BY <1>0, <1>2, <2>1, Recursion, Zenon
  <2> QED
    BY <2>2 DEF Solvable
<1>4. ASSUME NEW k \in 1 .. n
      PROVE  f[k] = After(f[k - 1], k)
  <2>1. f[k - 1] \in SUBSET M
    BY <1>0
  <2>2. step[k][f[k - 1]] = After(f[k - 1], k)
    BY <2>1
  <2> QED
    BY <1>3, <2>2
<1> HIDE DEF step
<1>5. f = [k \in 0 .. n |-> IF k = 0 THEN {} ELSE After(f[k - 1], k)]
  <2>1. \A k \in 0 .. n : f[k] = IF k = 0 THEN {} ELSE After(f[k - 1], k)
    BY <1>0, <1>3, <1>4
  <2>2. f = [k \in 0 .. n |-> f[k]]
    OBVIOUS
  <2> QED
    BY <2>1, <2>2
<1> DEFINE g == Finds(t, M)
<1>6. g = [k \in 0 .. n |-> IF k = 0 THEN {} ELSE After(g[k - 1], k)]
  BY <1>5, Zenon DEF Finds, n, After, Found, EndsFrom
<1> HIDE DEF g
<1>7. g[0] = {} /\ \A k \in 1 .. n : g[k] = After(g[k - 1], k)
  <2>1. 0 \in 0 .. n /\ \A k \in 1 .. n : k \in 0 .. n /\ k # 0
    BY <1>0
  <2> QED
    BY <1>6, <2>1, Zenon
<1>8. \A k \in 0 .. n : g[k] \in SUBSET M
  <2> DEFINE Good(k) == g[k] \in SUBSET M
             S == {k \in 0 .. n : Good(k)}
  <2>1. Good(0)
    BY <1>7
  <2>2. ASSUME NEW k \in 0 .. n - 1, Good(k)
        PROVE  Good(k + 1)
    <3>1. k + 1 \in 1 .. n /\ (k + 1) - 1 = k
      BY <1>0
    <3>2. g[k + 1] = After(g[k], k + 1)
      BY <1>7, <3>1
    <3> QED
      BY <1>1, <2>2, <3>1, <3>2, Zenon
  <2> HIDE DEF Good
  <2>3. 0 \in S /\ \A k \in 0 .. n - 1 : k \in S => k + 1 \in S
    BY <1>0, <2>1, <2>2
  <2> HIDE DEF S
  <2>4. 0 .. n \subseteq S
    BY <1>0, <2>3, InductionTo
  <2>5. \A k \in 0 .. n : Good(k)
    BY <2>4 DEF S
  <2> QED
    BY <2>5 DEF Good
<1>9. /\ \A k \in 0 .. Len(t) : Finds(t, M)[k] \in SUBSET M
      /\ Finds(t, M)[0] = {}
      /\ \A k \in 1 .. Len(t) : Finds(t, M)[k] = After(Finds(t, M)[k - 1], k)
  BY <1>7, <1>8 DEF g, n
<1> QED
  BY <1>9, Zenon DEF After

\* The matches find_iter returns do not overlap.
Apart(l, m) == l[2] < m[1] \/ m[2] < l[1]

\* What it finds are matches, and no two overlap.
LEMMA FindsApart ==
  ASSUME NEW t \in Seq(Chars), NEW M \in SUBSET ((1 .. Len(t)) \X (1 .. Len(t)))
  PROVE  /\ FindIter(t, M) \subseteq M
         /\ \A l, m \in FindIter(t, M) : l # m => Apart(l, m)
<1> DEFINE n == Len(t)
           F == Finds(t, M)
           Good(k) == /\ \A m \in F[k] : m[1] <= k
                      /\ \A l, m \in F[k] : l # m => Apart(l, m)
           S == {k \in 0 .. n : Good(k)}
<1>0. n \in Nat /\ M \in SUBSET ((1 .. n) \X (1 .. n))
  OBVIOUS
<1>1. F[0] = {} /\ \A k \in 0 .. n : F[k] \in SUBSET M
  BY FindsDef, Zenon
<1>2. ASSUME NEW k \in 1 .. n
      PROVE  F[k] = F[k - 1] \/ \E e \in Nat : /\ F[k] = F[k - 1] \cup {<<k, e>>}
                                               /\ \A m \in F[k - 1] : m[2] < k
  <2>1. F[k] = IF EndsFrom(t, M, k) # {} /\ \A m \in F[k - 1] : m[2] < k
               THEN F[k - 1] \cup {<<k, Max(EndsFrom(t, M, k))>>} ELSE F[k - 1]
    <3>1. F[k] = Found(t, M, F[k - 1], k)
      BY FindsDef
    <3> QED
      BY <3>1, Zenon DEF Found
  <2>2. CASE EndsFrom(t, M, k) # {} /\ \A m \in F[k - 1] : m[2] < k
    <3>1. EndsFrom(t, M, k) \in SUBSET (1 .. n)
      BY DEF EndsFrom
    <3>2. Max(EndsFrom(t, M, k)) \in EndsFrom(t, M, k)
      BY <1>0, <2>2, <3>1, MaxIs, Zenon
    <3>3. Max(EndsFrom(t, M, k)) \in Nat
      BY <3>1, <3>2
    <3> QED
      BY <2>1, <2>2, <3>3, Zenon
  <2>3. CASE ~(EndsFrom(t, M, k) # {} /\ \A m \in F[k - 1] : m[2] < k)
    BY <2>1, <2>3, Zenon
  <2> QED
    BY <2>2, <2>3
<1> HIDE DEF n, F
<1>3. Good(0)
  BY <1>1
<1>4. ASSUME NEW k \in 1 .. n, Good(k - 1)
      PROVE  Good(k)
  <2>1. F[k - 1] \in SUBSET M
    BY <1>0, <1>1
  <2>2. \A m \in F[k - 1] : m[1] <= k
    BY <1>0, <1>4, <2>1
  <2>3. CASE F[k] = F[k - 1]
    BY <1>4, <2>2, <2>3, Zenon
  <2>4. CASE \E e \in Nat : /\ F[k] = F[k - 1] \cup {<<k, e>>}
                            /\ \A m \in F[k - 1] : m[2] < k
    <3>1. PICK e \in Nat : /\ F[k] = F[k - 1] \cup {<<k, e>>}
                           /\ \A m \in F[k - 1] : m[2] < k
      BY <2>4
    <3>2. <<k, e>>[1] = k /\ k <= k
      OBVIOUS
    <3>3. \A m \in F[k] : m[1] <= k
      BY <2>2, <3>1, <3>2, Zenon
    <3>4. \A m \in F[k - 1] : Apart(m, <<k, e>>) /\ Apart(<<k, e>>, m)
      BY <3>1, <3>2, Zenon DEF Apart
    <3>5. \A l, m \in F[k] : l # m => Apart(l, m)
      BY <1>4, <3>1, <3>4, Zenon
    <3> QED
      BY <3>3, <3>5
  <2> QED
    BY <1>2, <2>3, <2>4
<1> HIDE DEF Good
<1>5. ASSUME NEW k \in 0 .. n - 1, k \in S
      PROVE  k + 1 \in S
  <2>1. PICK j \in 1 .. n : j = k + 1 /\ j - 1 = k
    BY <1>0
  <2>2. Good(j)
    BY <1>4, <1>5, <2>1
  <2> QED
    BY <1>0, <2>1, <2>2
<1>6. 0 .. n \subseteq S
  <2>1. 0 \in S
    BY <1>0, <1>3
  <2> HIDE DEF S
  <2> QED
    BY <1>0, <1>5, <2>1, InductionTo
<1>7. n \in 0 .. n
  BY <1>0
<1>8. Good(n) /\ F[n] \in SUBSET M
  BY <1>1, <1>6, <1>7, Zenon DEF S
<1> QED
  BY <1>8, Zenon DEF Good, F, n, FindIter

\* A match that begins before and ends after every other is the only one.
LEMMA FindsOne ==
  ASSUME NEW t \in Seq(Chars), NEW M \in SUBSET ((1 .. Len(t)) \X (1 .. Len(t))),
         NEW i \in 1 .. Len(t), NEW j \in 1 .. Len(t), <<i, j>> \in M,
         \A m \in M : i <= m[1] /\ m[1] <= j /\ m[2] <= j
  PROVE  FindIter(t, M) = {<<i, j>>}
<1> DEFINE n == Len(t)
           F == Finds(t, M)
           Good(k) == F[k] = IF k < i THEN {} ELSE {<<i, j>>}
           S == {k \in 0 .. n : Good(k)}
           E(k) == EndsFrom(t, M, k)
<1>0. n \in Nat /\ i \in 1 .. n /\ j \in 1 .. n /\ M \in SUBSET ((1 .. n) \X (1 .. n))
  OBVIOUS
<1>1. Good(0)
  <2>1. F[0] = {} /\ 0 < i
    BY FindsDef
  <2> QED
    BY <2>1, Zenon
<1>2. ASSUME NEW k \in 1 .. n, Good(k - 1)
      PROVE  Good(k)
  <2>1. F[k] = IF E(k) # {} /\ \A m \in F[k - 1] : m[2] < k
               THEN F[k - 1] \cup {<<k, Max(E(k))>>} ELSE F[k - 1]
    <3>1. F[k] = Found(t, M, F[k - 1], k)
      BY FindsDef
    <3> QED
      BY <3>1, Zenon DEF Found
  <2>2. E(k) = {e \in 1 .. n : <<k, e>> \in M}
    BY DEF EndsFrom
  <2> HIDE DEF E
  <2>3. CASE k < i
    <3>1. \A e \in 1 .. n : <<k, e>> \notin M
      <4> SUFFICES ASSUME NEW e \in 1 .. n, <<k, e>> \in M
                   PROVE  FALSE
        OBVIOUS
      <4>1. i <= <<k, e>>[1]
        OBVIOUS
      <4> QED
        BY <1>0, <2>3, <4>1
    <3>2. E(k) = {}
      BY <2>2, <3>1
    <3>3. k - 1 < i
      BY <1>0, <2>3
    <3>4. F[k] = F[k - 1]
      BY <2>1, <3>2, Zenon
    <3> QED
      BY <1>2, <2>3, <3>3, <3>4, Zenon
  <2>4. CASE k = i
    <3>1. j \in E(k)
      BY <1>0, <2>2, <2>4
    <3>2. E(k) \in SUBSET (1 .. n) /\ E(k) # {}
      BY <2>2, <3>1
    <3>3. Max(E(k)) \in E(k) /\ \A y \in E(k) : y <= Max(E(k))
      BY <1>0, <3>2, MaxIs, Zenon
    <3>4. \A y \in E(k) : y <= j
      <4> SUFFICES ASSUME NEW y \in E(k)
                   PROVE  y <= j
        OBVIOUS
      <4>1. <<k, y>> \in M
        BY <2>2
      <4>2. <<k, y>>[2] <= j
        BY <4>1
      <4> QED
        BY <4>2
    <3>5. Max(E(k)) = j
      <4>1. Max(E(k)) <= j /\ j <= Max(E(k)) /\ Max(E(k)) \in 1 .. n
        BY <3>1, <3>2, <3>3, <3>4, Zenon
      <4> QED
        BY <1>0, <4>1
    <3>6. k - 1 < i /\ ~(k < i)
      BY <1>0, <2>4
    <3>7. F[k - 1] = {}
      BY <1>2, <3>6, Zenon
    <3>8. F[k] = {} \cup {<<i, j>>}
      BY <2>1, <2>4, <3>2, <3>5, <3>7, Zenon
    <3>9. {} \cup {<<i, j>>} = {<<i, j>>}
      OBVIOUS
    <3> QED
      BY <3>6, <3>8, <3>9, Zenon
  <2>5. CASE k > i
    <3>1. ~(k - 1 < i) /\ ~(k < i)
      BY <1>0, <2>5
    <3>2. F[k - 1] = {<<i, j>>}
      BY <1>2, <3>1, Zenon
    <3>3. ~(E(k) # {} /\ \A m \in F[k - 1] : m[2] < k)
      <4> SUFFICES ASSUME E(k) # {}, \A m \in F[k - 1] : m[2] < k
                   PROVE  FALSE
        OBVIOUS
      <4>1. PICK e \in 1 .. n : <<k, e>> \in M
        BY <2>2
      <4>2. <<k, e>>[1] <= j
        BY <4>1
      <4>3. <<i, j>>[2] < k
        BY <3>2, Zenon
      <4> QED
        BY <1>0, <4>2, <4>3
    <3>4. F[k] = F[k - 1]
      BY <2>1, <3>3, Zenon
    <3> QED
      BY <3>1, <3>2, <3>4, Zenon
  <2> QED
    BY <1>0, <2>3, <2>4, <2>5
<1> HIDE DEF Good, n, F
<1>3. ASSUME NEW k \in 0 .. n - 1, k \in S
      PROVE  k + 1 \in S
  <2>1. PICK l \in 1 .. n : l = k + 1 /\ l - 1 = k
    BY <1>0
  <2>2. Good(l)
    BY <1>2, <1>3, <2>1
  <2> QED
    BY <1>0, <2>1, <2>2
<1>4. 0 .. n \subseteq S
  <2>1. 0 \in S
    BY <1>0, <1>1
  <2> HIDE DEF S
  <2> QED
    BY <1>0, <1>3, <2>1, InductionTo
<1>5. n \in 0 .. n /\ ~(n < i)
  BY <1>0
<1>6. Good(n)
  BY <1>4, <1>5, Zenon DEF S
<1>7. F[n] = {<<i, j>>}
  BY <1>5, <1>6, Zenon DEF Good
<1> QED
  BY <1>7, Zenon DEF F, n, FindIter

----------------------------------------------------------------------------
(* What the regular expressions match. *)

Kinds == {"card", "pesel", "nip", "iban"}

RegexOf(kind, c) ==
    \/ kind = "card" /\ CardRegex(c)
    \/ kind = "pesel" /\ PeselRegex(c)
    \/ kind = "nip" /\ NipRegex(c)
    \/ kind = "iban" /\ IbanRegex(c)

CheckOf(kind, c) ==
    \/ /\ kind = "card"
       /\ Len(Strip(c, NonDigit)) \in 13 .. 19 /\ LuhnCheck(Strip(c, NonDigit))
    \/ kind = "pesel" /\ PeselCheck(Strip(c, {}))
    \/ kind = "nip" /\ NipCheck(Strip(c, NonDigit))
    \/ /\ kind = "iban"
       /\ Bytes(Strip(c, {Space})) \in 15 .. 34 /\ IbanCheck(Strip(c, {Space}))

LEMMA CharKinds ==
  /\ \A c \in Digit : c \in Chars /\ c \notin Separator /\ c # Space /\ c \notin Letter
  /\ \A c \in Letter : c \in Chars /\ c \notin Separator /\ c # Space
  /\ \A c \in Foreign : c \in Chars /\ c \notin Separator /\ c # Space
                         /\ c \notin Digit /\ c \notin Letter
  /\ Space \in Separator /\ Separator \subseteq Chars
  /\ Numeral = Digit \cup Foreign
  BY DEF Digit, Letter, Foreign, Numeral, Chars, Separator, Space, Dash

\* The cases of Shaped and of Layout.
LEMMA ShapedDef ==
  ASSUME NEW z
  PROVE  /\ Shaped("card", z) <=> AllIn(z, Digit) /\ Len(z) \in 13 .. 19
         /\ Shaped("pesel", z) <=> AllIn(z, Digit) /\ Len(z) = 11
         /\ Shaped("nip", z) <=> AllIn(z, Digit) /\ Len(z) = 10
         /\ Shaped("iban", z) <=> /\ AllIn(z, Digit \cup Letter) /\ Len(z) \in 15 .. 34
                                  /\ z[1] \in Letter /\ z[2] \in Letter
                                  /\ z[3] \in Digit /\ z[4] \in Digit
  BY Zenon DEF Shaped

LEMMA LayoutDef ==
  ASSUME NEW c
  PROVE  /\ Layout("card", c) <=> Grouped(c, Separator)
         /\ Layout("pesel", c) <=> AllIn(c, Digit)
         /\ Layout("nip", c) <=> NipRegex(c)
         /\ Layout("iban", c) <=> /\ AllIn(c, Digit \cup Letter \cup {Space})
                                  /\ Grouped(c, {Space})
                                  /\ AllIn(SubSeq(c, 1, 4), Digit \cup Letter)
  BY Zenon DEF Layout

LEMMA StripAllIn ==
  ASSUME NEW t \in Seq(Chars), NEW drop, NEW S
  PROVE  AllIn(Strip(t, drop), S) <=> AllIn(t, S \cup drop)
<1>0. DOMAIN t = 1 .. Len(t) /\ DOMAIN Strip(t, drop) = 1 .. Len(Strip(t, drop))
  BY StripInSeq
<1>1. ASSUME AllIn(Strip(t, drop), S), NEW k \in 1 .. Len(t)
      PROVE  t[k] \in S \cup drop
  <2> SUFFICES ASSUME t[k] \notin drop
               PROVE  t[k] \in S
    OBVIOUS
  <2>1. /\ Len(Strips(t, drop)[k]) \in 1 .. Len(Strip(t, drop))
        /\ Strip(t, drop)[Len(Strips(t, drop)[k])] = t[k]
    BY StripKept
  <2> QED
    BY <1>0, <1>1, <2>1, Zenon DEF AllIn
<1>2. ASSUME AllIn(t, S \cup drop), NEW m \in 1 .. Len(Strip(t, drop))
      PROVE  Strip(t, drop)[m] \in S
  <2>1. PICK k \in 1 .. Len(t) : t[k] \notin drop /\ Len(Strips(t, drop)[k]) = m
    BY StripOrigin
  <2>2. Strip(t, drop)[m] = t[k]
    BY <2>1, StripKept
  <2>3. t[k] \in S \cup drop
    BY <1>0, <1>2, Zenon DEF AllIn
  <2> QED
    BY <2>1, <2>2, <2>3, Zenon
<1> QED
  BY <1>0, <1>1, <1>2, Zenon DEF AllIn

\* The numerals of a plain text are digits.
LEMMA PlainNumerals ==
  ASSUME NEW t, Plain(t), NEW S
  PROVE  /\ AllIn(t, Numeral \cup S) <=> AllIn(t, Digit \cup S)
         /\ AllIn(t, Numeral) <=> AllIn(t, Digit)
  BY CharKinds, Zenon DEF Plain, AllIn

\* What each expression matches in plain texts.
LEMMA CardMeans ==
  ASSUME NEW c \in Seq(Chars), Plain(c)
  PROVE  CardRegex(c) <=> Layout("card", c) /\ Shaped("card", Strip(c, Separator))
<1>1. AllIn(Strip(c, Separator), Digit) <=> AllIn(c, Digit \cup Separator)
  BY StripAllIn
<1> QED
  BY <1>1, PlainNumerals, ShapedDef, LayoutDef, Zenon DEF CardRegex

LEMMA DigitsPlain ==
  ASSUME NEW c \in Seq(Chars), NEW drop, AllIn(c, Digit), drop \subseteq Separator
  PROVE  Strip(c, drop) = c
<1>1. DOMAIN c = 1 .. Len(c)
  OBVIOUS
<1>2. \A k \in 1 .. Len(c) : c[k] \notin drop
  BY <1>1, CharKinds, Zenon DEF AllIn
<1> QED
  BY <1>2, StripNone

LEMMA PeselMeans ==
  ASSUME NEW c \in Seq(Chars), Plain(c)
  PROVE  PeselRegex(c) <=> Layout("pesel", c) /\ Shaped("pesel", Strip(c, Separator))
<1>1. AllIn(c, Digit) => Strip(c, Separator) = c
  BY DigitsPlain
<1> QED
  BY <1>1, PlainNumerals, ShapedDef, LayoutDef, Zenon DEF PeselRegex

LEMMA NipMeans ==
  ASSUME NEW c \in Seq(Chars), Plain(c)
  PROVE  NipRegex(c) <=> Layout("nip", c) /\ Shaped("nip", Strip(c, Separator))
<1>1. AllIn(Strip(c, Separator), Digit) <=> AllIn(c, Digit \cup Separator)
  BY StripAllIn
<1> QED
  BY <1>1, PlainNumerals, ShapedDef, LayoutDef, Zenon DEF NipRegex

\* An IBAN has no dashes, and is stripped of spaces only.
LEMMA IbanStrip ==
  ASSUME NEW c \in Seq(Chars), AllIn(c, Numeral \cup Letter \cup {Space})
  PROVE  Strip(c, {Space}) = Strip(c, Separator)
<1>1. DOMAIN c = 1 .. Len(c)
  OBVIOUS
<1>2. \A k \in 1 .. Len(c) : c[k] \in {Space} <=> c[k] \in Separator
  BY <1>1, CharKinds, Zenon DEF AllIn
<1> QED
  BY <1>2, StripSame

\* The first four characters.
LEMMA FirstFour ==
  ASSUME NEW c \in Seq(Chars), 4 <= Len(c)
  PROVE  /\ AllIn(SubSeq(c, 1, 2), Letter) <=> c[1] \in Letter /\ c[2] \in Letter
         /\ AllIn(SubSeq(c, 3, 4), Numeral) <=> c[3] \in Numeral /\ c[4] \in Numeral
         /\ AllIn(SubSeq(c, 1, 4), Digit \cup Letter) <=> \A k \in 1 .. 4 : c[k] \in Digit \cup Letter
<1>0. Len(c) \in Nat
  OBVIOUS
<1>1. AllIn(SubSeq(c, 1, 2), Letter) <=> c[1] \in Letter /\ c[2] \in Letter
  <2> DEFINE s == SubSeq(c, 1, 2)
  <2>1. s \in Seq(Chars) /\ Len(s) = 2 /\ s[1] = c[1] /\ s[2] = c[2]
    BY <1>0, PartOf
  <2> HIDE DEF s
  <2>2. DOMAIN s = {1, 2}
    BY <2>1
  <2> QED
    BY <2>1, <2>2, Zenon DEF AllIn, s
<1>2. AllIn(SubSeq(c, 3, 4), Numeral) <=> c[3] \in Numeral /\ c[4] \in Numeral
  <2> DEFINE s == SubSeq(c, 3, 4)
  <2>1. s \in Seq(Chars) /\ Len(s) = 2 /\ s[1] = c[3] /\ s[2] = c[4]
    BY <1>0, PartOf
  <2> HIDE DEF s
  <2>2. DOMAIN s = {1, 2}
    BY <2>1
  <2> QED
    BY <2>1, <2>2, Zenon DEF AllIn, s
<1>3. AllIn(SubSeq(c, 1, 4), Digit \cup Letter) <=> \A k \in 1 .. 4 : c[k] \in Digit \cup Letter
  <2> DEFINE s == SubSeq(c, 1, 4)
  <2>1. s \in Seq(Chars) /\ Len(s) = 4 /\ \A k \in 1 .. 4 : s[k] = c[k]
    BY <1>0, PartOf
  <2> HIDE DEF s
  <2>2. DOMAIN s = 1 .. 4
    BY <2>1
  <2> QED
    BY <2>1, <2>2, Zenon DEF AllIn, s
<1> QED
  BY <1>1, <1>2, <1>3

\* Only the third and the fourth character of an IBAN may be foreign digits.
LEMMA IbanRegexDef ==
  ASSUME NEW c \in Seq(Chars)
  PROVE  IbanRegex(c) <=>
            /\ Grouped(c, {Space}) /\ Len(Strip(c, {Space})) \in 15 .. 34
            /\ c[1] \in Letter /\ c[2] \in Letter /\ c[3] \in Numeral /\ c[4] \in Numeral
            /\ \A k \in 5 .. Len(c) : c[k] \in Digit \cup Letter \cup {Space}
<1> DEFINE s == SubSeq(c, 5, Len(c))
<1>0. Len(Strip(c, {Space})) <= Len(c) /\ Len(c) \in Nat
  BY StripLen
<1> SUFFICES ASSUME Len(Strip(c, {Space})) \in 15 .. 34
             PROVE  IbanRegex(c) <=>
                      /\ Grouped(c, {Space})
                      /\ c[1] \in Letter /\ c[2] \in Letter /\ c[3] \in Numeral /\ c[4] \in Numeral
                      /\ \A k \in 5 .. Len(c) : c[k] \in Digit \cup Letter \cup {Space}
  BY Zenon DEF IbanRegex
<1>1. 4 <= Len(c) /\ 5 \in 1 .. Len(c) + 1 /\ Len(c) \in 5 - 1 .. Len(c)
  <2>1. \A x \in 15 .. 34, y \in Nat : x <= y => 4 <= y /\ 5 \in 1 .. y + 1 /\ y \in 5 - 1 .. y
    OBVIOUS
  <2> QED
    BY <1>0, <2>1, Zenon
<1>2. /\ s \in Seq(Chars) /\ Len(s) = (Len(c) - 5) + 1
      /\ \A k \in 1 .. (Len(c) - 5) + 1 : s[k] = c[(5 + k) - 1]
  BY <1>1, PartOf
<1> HIDE DEF s
<1>3. DOMAIN s = 1 .. (Len(c) - 5) + 1
  BY <1>2
<1>4. AllIn(s, Digit \cup Letter \cup {Space}) <=>
        \A k \in 5 .. Len(c) : c[k] \in Digit \cup Letter \cup {Space}
  <2>1. ASSUME AllIn(s, Digit \cup Letter \cup {Space}), NEW k \in 5 .. Len(c)
        PROVE  c[k] \in Digit \cup Letter \cup {Space}
    <3>1. PICK m \in 1 .. (Len(c) - 5) + 1 : m = k - 4 /\ (5 + m) - 1 = k
      BY <1>0
    <3> QED
      BY <1>2, <1>3, <2>1, <3>1, Zenon DEF AllIn
  <2>2. ASSUME \A k \in 5 .. Len(c) : c[k] \in Digit \cup Letter \cup {Space},
               NEW m \in 1 .. (Len(c) - 5) + 1
        PROVE  s[m] \in Digit \cup Letter \cup {Space}
    <3>1. (5 + m) - 1 \in 5 .. Len(c)
      BY <1>0
    <3> QED
      BY <1>2, <2>2, <3>1, Zenon
  <2> QED
    BY <1>3, <2>1, <2>2, Zenon DEF AllIn
<1> QED
  BY <1>1, <1>4, FirstFour, Zenon DEF IbanRegex, s

LEMMA IbanChars ==
  ASSUME NEW c \in Seq(Chars), IbanRegex(c)
  PROVE  AllIn(c, Numeral \cup Letter \cup {Space}) /\ 4 <= Len(c)
<1>0. Len(Strip(c, {Space})) <= Len(c) /\ Len(c) \in Nat /\ DOMAIN c = 1 .. Len(c)
  BY StripLen
<1>1. /\ Len(Strip(c, {Space})) \in 15 .. 34
      /\ c[1] \in Letter /\ c[2] \in Letter /\ c[3] \in Numeral /\ c[4] \in Numeral
      /\ \A k \in 5 .. Len(c) : c[k] \in Digit \cup Letter \cup {Space}
  BY IbanRegexDef
<1>2. \A k \in 1 .. Len(c) : k = 1 \/ k = 2 \/ k = 3 \/ k = 4 \/ k \in 5 .. Len(c)
  BY <1>0
<1>3. 4 <= Len(c)
  <2>1. \A x \in 15 .. 34, y \in Nat : x <= y => 4 <= y
    OBVIOUS
  <2> QED
    BY <1>0, <1>1, <2>1, Zenon
<1> QED
  BY <1>0, <1>1, <1>2, <1>3, CharKinds, Zenon DEF AllIn

LEMMA IbanMeans ==
  ASSUME NEW c \in Seq(Chars), Plain(c)
  PROVE  IbanRegex(c) <=> Layout("iban", c) /\ Shaped("iban", Strip(c, Separator))
<1> DEFINE z == Strip(c, Separator)
<1>0. /\ z \in Seq(Chars) /\ Len(z) <= Len(c) /\ Len(z) \in Nat /\ Len(c) \in Nat
      /\ DOMAIN c = 1 .. Len(c)
  BY StripLen
<1>a. IbanRegex(c) => AllIn(c, Numeral \cup Letter \cup {Space})
  BY IbanChars
<1>b. AllIn(c, Numeral \cup Letter \cup {Space}) <=> AllIn(c, Digit \cup Letter \cup {Space})
  BY CharKinds, Zenon DEF Plain, AllIn
<1> SUFFICES ASSUME AllIn(c, Digit \cup Letter \cup {Space}), Len(z) \in 15 .. 34
             PROVE  IbanRegex(c) <=> Layout("iban", c) /\ Shaped("iban", z)
  BY <1>a, <1>b, IbanStrip, IbanRegexDef, ShapedDef, LayoutDef, Zenon
<1>1. Strip(c, {Space}) = z
  BY <1>b, IbanStrip
<1>2. 4 <= Len(c) /\ 4 \in 0 .. Len(c)
  <2>1. \A x \in 15 .. 34, y \in Nat : x <= y => 4 <= y /\ 4 \in 0 .. y
    OBVIOUS
  <2> QED
    BY <1>0, <2>1, Zenon
<1>3. AllIn(z, Digit \cup Letter)
  <2>1. AllIn(z, Chars \ Separator)
    BY StripInSeq
  <2>2. AllIn(Strip(c, {Space}), Digit \cup Letter)
    BY StripAllIn
  <2> QED
    BY <1>1, <2>2
<1>4. ASSUME \A k \in 1 .. 4 : c[k] \in Digit \cup Letter
      PROVE  z[1] = c[1] /\ z[2] = c[2] /\ z[3] = c[3] /\ z[4] = c[4]
  <2>1. \A k \in 1 .. 4 : c[k] \notin Separator
    BY <1>4, CharKinds, Zenon
  <2>2. \A k \in 1 .. 4 : z[k] = c[k]
    BY <1>2, <2>1, StripStart
  <2> HIDE DEF z
  <2> QED
    BY <2>2
<1>5. ASSUME c[1] \in Letter, c[2] \in Letter, c[3] \in Digit, c[4] \in Digit
      PROVE  \A k \in 1 .. 4 : c[k] \in Digit \cup Letter
  <2>1. \A k \in 1 .. 4 : k = 1 \/ k = 2 \/ k = 3 \/ k = 4
    OBVIOUS
  <2> QED
    BY <1>5, <2>1, Zenon
<1>6. IbanRegex(c) <=> /\ Grouped(c, {Space}) /\ c[1] \in Letter /\ c[2] \in Letter
                       /\ c[3] \in Digit /\ c[4] \in Digit
  <2>1. 3 \in 1 .. Len(c) /\ 4 \in 1 .. Len(c) /\ \A k \in 5 .. Len(c) : k \in 1 .. Len(c)
    BY <1>0, <1>2
  <2>2. (c[3] \in Numeral <=> c[3] \in Digit) /\ (c[4] \in Numeral <=> c[4] \in Digit)
    BY <1>0, <2>1, CharKinds, Zenon DEF Plain, AllIn
  <2>3. \A k \in 5 .. Len(c) : c[k] \in Digit \cup Letter \cup {Space}
    BY <1>0, <2>1, Zenon DEF AllIn
  <2> QED
    BY <1>1, <2>2, <2>3, IbanRegexDef, Zenon
<1>7. Layout("iban", c) <=> Grouped(c, {Space}) /\ \A k \in 1 .. 4 : c[k] \in Digit \cup Letter
  BY <1>2, FirstFour, LayoutDef, Zenon
<1>8. Shaped("iban", z) <=> z[1] \in Letter /\ z[2] \in Letter /\ z[3] \in Digit /\ z[4] \in Digit
  BY <1>3, ShapedDef, Zenon
<1> HIDE DEF z
<1> QED
  BY <1>4, <1>5, <1>6, <1>7, <1>8, Zenon

\* A number of any kind is plain, and so is a text that spells it.
LEMMA ShapedPlain ==
  ASSUME NEW kind \in Kinds, NEW c \in Seq(Chars), Shaped(kind, Strip(c, Separator))
  PROVE  Plain(c)
<1>1. AllIn(Strip(c, Separator), Digit \cup Letter)
  <2>1. CASE kind = "iban"
    BY <2>1, ShapedDef, Zenon
  <2>2. CASE kind # "iban"
    <3>1. AllIn(Strip(c, Separator), Digit)
      BY <2>2, ShapedDef, Zenon DEF Kinds
    <3> QED
      BY <3>1, Zenon DEF AllIn
  <2> QED
    BY <2>1, <2>2
<1>2. AllIn(c, (Digit \cup Letter) \cup Separator)
  BY <1>1, StripAllIn
<1> QED
  BY <1>2, CharKinds, Zenon DEF Plain, AllIn

\* A match of a kind's expression without foreign digits is a number of that
\* kind's shape, grouped as the kind allows.
LEMMA RegexMeans ==
  ASSUME NEW kind \in Kinds, NEW c \in Seq(Chars)
  PROVE  Plain(c) /\ RegexOf(kind, c) <=> Layout(kind, c) /\ Shaped(kind, Strip(c, Separator))
  BY ShapedPlain, CardMeans, PeselMeans, NipMeans, IbanMeans, Zenon DEF Kinds, RegexOf

\* LuhnClassifier::scan drops whatever is no ASCII digit, and looks at the
\* length of what is left.
LEMMA CardRight ==
  ASSUME NEW c \in Seq(Chars)
  PROVE  CheckOf("card", c) <=> IsNumber("card", NumberIn("card", c))
<1> DEFINE x == Strip(c, NonDigit)
<1>1. x \in Seq(Chars) /\ AllIn(x, Digit)
  <2>1. x \in Seq(Chars) /\ AllIn(x, Chars \ NonDigit)
    BY StripInSeq
  <2> QED
    BY <2>1, Zenon DEF AllIn, NonDigit
<1>2. NumberIn("card", c) = x
  BY Zenon DEF NumberIn
<1> HIDE DEF x
<1>3. LuhnCheck(x) <=> Valid("card", x)
  BY <1>1, LuhnRight
<1>4. CheckOf("card", c) <=> Len(x) \in 13 .. 19 /\ LuhnCheck(x)
  BY Zenon DEF CheckOf, x
<1> QED
  BY <1>1, <1>2, <1>3, <1>4, ShapedDef, Zenon DEF IsNumber

\* pesel_check measures bytes: a foreign digit makes them more than eleven.
LEMMA PeselReads ==
  ASSUME NEW c \in Seq(Chars), PeselRegex(c)
  PROVE  CheckOf("pesel", c) <=> IsNumber("pesel", Strip(c, Separator))
<1>0. Len(c) = 11 /\ AllIn(c, Numeral) /\ DOMAIN c = 1 .. Len(c)
  BY DEF PeselRegex
<1>1. Strip(c, {}) = c /\ Strip(c, Separator) = c
  <2>1. \A k \in 1 .. Len(c) : c[k] \notin Separator /\ c[k] \notin {}
    BY <1>0, CharKinds, Zenon DEF AllIn
  <2> QED
    BY <2>1, StripNone
<1>2. CheckOf("pesel", c) <=> PeselCheck(c)
  BY <1>1, Zenon DEF CheckOf
<1>3. CASE Plain(c)
  <2>1. AllIn(c, Digit)
    BY <1>0, <1>3, PlainNumerals, Zenon
  <2>2. PeselCheck(c) <=> Valid("pesel", c)
    BY <1>0, <2>1, PeselRight
  <2> QED
    BY <1>0, <1>1, <1>2, <2>1, <2>2, ShapedDef, Zenon DEF IsNumber
<1>4. CASE ~Plain(c)
  <2>1. Bytes(c) # 11
    BY <1>0, <1>4, BytesAre
  <2>2. ~AllIn(c, Digit)
    BY <1>4, DigitsArePlain
  <2> QED
    BY <1>1, <1>2, <2>1, <2>2, ShapedDef, Zenon DEF IsNumber, PeselCheck
<1> QED
  BY <1>3, <1>4

\* NipClassifier::scan wants ten digits of the ten it matched.
LEMMA NipReads ==
  ASSUME NEW c \in Seq(Chars), NipRegex(c)
  PROVE  CheckOf("nip", c) <=> IsNumber("nip", Strip(c, Separator))
<1> DEFINE x == Strip(c, NonDigit)
           z == Strip(c, Separator)
<1>0. Len(z) = 10 /\ AllIn(c, Numeral \cup Separator) /\ z \in Seq(Chars)
  BY StripLen, Zenon DEF NipRegex
<1>d. DOMAIN c = 1 .. Len(c)
  OBVIOUS
<1>1. CheckOf("nip", c) <=> NipCheck(x)
  BY Zenon DEF CheckOf
<1>2. AllIn(z, Digit) <=> AllIn(c, Digit \cup Separator)
  BY StripAllIn
<1>3. CASE Plain(c)
  <2>1. AllIn(c, Digit \cup Separator)
    BY <1>0, <1>3, PlainNumerals, Zenon
  <2>2. \A k \in 1 .. Len(c) : c[k] \in NonDigit <=> c[k] \in Separator
    BY <1>d, <2>1, CharKinds, Zenon DEF AllIn, NonDigit
  <2>3. x = z
    BY <2>2, StripSame
  <2>4. NipCheck(z) <=> Valid("nip", z)
    BY <1>0, <1>2, <2>1, NipRight
  <2>5. Shaped("nip", z)
    BY <1>0, <1>2, <2>1, ShapedDef, Zenon
  <2> HIDE DEF x, z
  <2>6. CheckOf("nip", c) <=> IsNumber("nip", z)
    BY <1>1, <2>3, <2>4, <2>5, Zenon DEF IsNumber
  <2> QED
    BY <2>6, Zenon DEF z
<1>4. CASE ~Plain(c)
  <2>1. PICK j \in 1 .. Len(c) : c[j] \notin Chars \ Foreign
    BY <1>d, <1>4, Zenon DEF Plain, AllIn
  <2>2. c[j] \in Chars
    OBVIOUS
  <2>3. c[j] \in NonDigit \ Separator /\ Separator \subseteq NonDigit /\ c[j] \notin Digit \cup Separator
    BY <2>1, <2>2, CharKinds, Zenon DEF NonDigit
  <2>4. Len(x) < Len(z)
    BY <2>3, StripFewer
  <2>5. Len(x) # 10
    <3>1. \A a, b : a < b /\ b = 10 => a # 10
      OBVIOUS
    <3> QED
      BY <1>0, <2>4, <3>1, Zenon
  <2>6. ~AllIn(z, Digit)
    BY <1>d, <1>2, <2>3, Zenon DEF AllIn
  <2> QED
    BY <1>1, <2>5, <2>6, ShapedDef, Zenon DEF IsNumber, NipCheck
<1> QED
  BY <1>3, <1>4

\* iban_check, where it returns: no foreign digit passes.
LEMMA IbanReads ==
  ASSUME NEW c \in Seq(Chars), IbanRegex(c)
  PROVE  CheckOf("iban", c) <=> IsNumber("iban", Strip(c, Separator))
<1> DEFINE z == Strip(c, Separator)
<1>0. z \in Seq(Chars) /\ AllIn(c, Numeral \cup Letter \cup {Space})
  BY StripLen, IbanChars
<1>1. Strip(c, {Space}) = z
  BY <1>0, IbanStrip
<1>2. CheckOf("iban", c) <=> Bytes(z) \in 15 .. 34 /\ IbanCheck(z)
  BY <1>1, Zenon DEF CheckOf
<1>3. CASE Plain(c)
  <2>1. Shaped("iban", z)
    BY <1>3, IbanMeans
  <2>2. AllIn(z, Digit \cup Letter) /\ Len(z) \in 15 .. 34
    BY <2>1, ShapedDef, Zenon
  <2> HIDE DEF z
  <2>3. Plain(z)
    BY <2>2, CharKinds, Zenon DEF Plain, AllIn
  <2>4. Bytes(z) = Len(z)
    BY <1>0, <2>3, BytesAre
  <2>5. 4 <= Len(z)
    <3>1. \A x \in 15 .. 34 : 4 <= x
      OBVIOUS
    <3> QED
      BY <2>2, <3>1, Zenon
  <2>6. IbanCheck(z) <=> Valid("iban", z)
    BY <1>0, <2>2, <2>5, IbanRight
  <2> QED
    BY <1>2, <2>1, <2>2, <2>4, <2>6, Zenon DEF IsNumber, z
<1>4. CASE ~Plain(c)
  <2>1. ~Shaped("iban", z)
    BY <1>4, ShapedPlain, Zenon DEF Kinds
  <2>2. ~AllIn(z, Digit \cup Letter)
    <3> SUFFICES ASSUME AllIn(z, Digit \cup Letter)
                 PROVE  FALSE
      OBVIOUS
    <3>1. AllIn(c, (Digit \cup Letter) \cup Separator)
      BY StripAllIn
    <3>2. Plain(c)
      BY <3>1, CharKinds, Zenon DEF Plain, AllIn
    <3> QED
      BY <1>4, <3>2
  <2> QED
    BY <1>2, <2>1, <2>2, Zenon DEF IsNumber, IbanCheck
<1> QED
  BY <1>3, <1>4

\* On every match of its expression, of any length and grouping and with foreign
\* digits wherever \d lets them in, a classifier keeps the match (the length
\* tests of scan, then luhn_check, pesel_check, nip_check or iban_check, should
\* it return) exactly when what it reads is a number by the standards.
THEOREM ChecksAreRight ==
  ASSUME NEW kind \in Kinds, NEW c \in Seq(Chars), RegexOf(kind, c)
  PROVE  CheckOf(kind, c) <=> IsNumber(kind, NumberIn(kind, c))
<1>1. kind # "card" => NumberIn(kind, c) = Strip(c, Separator)
  BY Zenon DEF NumberIn
<1> QED
  BY <1>1, CardRight, PeselReads, NipReads, IbanReads, Zenon DEF Kinds, RegexOf

----------------------------------------------------------------------------
(* What the scans report. *)

MatchesOf(kind, t) == {p \in Spans(t) : RegexOf(kind, SubSeq(t, p[1], p[2]))}

Report(kind, m) == [kind |-> kind, from |-> m[1], to |-> m[2]]

ScanOf(kind, t) ==
    {m \in FindIter(t, MatchesOf(kind, t)) : CheckOf(kind, SubSeq(t, m[1], m[2]))}

LEMMA ScanOfDef ==
  ASSUME NEW t
  PROVE  /\ ScanOf("card", t) = ScanCard(t) /\ ScanOf("pesel", t) = ScanPesel(t)
         /\ ScanOf("nip", t) = ScanNip(t) /\ ScanOf("iban", t) = ScanIban(t)
<1>1. \A c : /\ RegexOf("card", c) <=> CardRegex(c)
             /\ RegexOf("pesel", c) <=> PeselRegex(c)
             /\ RegexOf("nip", c) <=> NipRegex(c)
             /\ RegexOf("iban", c) <=> IbanRegex(c)
  BY Zenon DEF RegexOf
<1>2. \A c : /\ CheckOf("card", c) <=> Len(Strip(c, NonDigit)) \in 13 .. 19 /\ LuhnCheck(Strip(c, NonDigit))
             /\ CheckOf("pesel", c) <=> PeselCheck(Strip(c, {}))
             /\ CheckOf("nip", c) <=> NipCheck(Strip(c, NonDigit))
             /\ CheckOf("iban", c) <=> Bytes(Strip(c, {Space})) \in 15 .. 34 /\ IbanCheck(Strip(c, {Space}))
  BY Zenon DEF CheckOf
<1>3. ScanOf("card", t) = ScanCard(t)
  <2>1. MatchesOf("card", t) = {p \in Spans(t) : CardRegex(SubSeq(t, p[1], p[2]))}
    BY <1>1, Zenon DEF MatchesOf
  <2> QED
    BY <1>2, <2>1, Zenon DEF ScanOf, ScanCard, Matched
<1>4. ScanOf("pesel", t) = ScanPesel(t)
  <2>1. MatchesOf("pesel", t) = {p \in Spans(t) : PeselRegex(SubSeq(t, p[1], p[2]))}
    BY <1>1, Zenon DEF MatchesOf
  <2> QED
    BY <1>2, <2>1, Zenon DEF ScanOf, ScanPesel, Matched
<1>5. ScanOf("nip", t) = ScanNip(t)
  <2>1. MatchesOf("nip", t) = {p \in Spans(t) : NipRegex(SubSeq(t, p[1], p[2]))}
    BY <1>1, Zenon DEF MatchesOf
  <2> QED
    BY <1>2, <2>1, Zenon DEF ScanOf, ScanNip, Matched
<1>6. ScanOf("iban", t) = ScanIban(t)
  <2>1. MatchesOf("iban", t) = {p \in Spans(t) : IbanRegex(SubSeq(t, p[1], p[2]))}
    BY <1>1, Zenon DEF MatchesOf
  <2> QED
    BY <1>2, <2>1, Zenon DEF ScanOf, ScanIban, IbanTried, Matched
<1> QED
  BY <1>3, <1>4, <1>5, <1>6

\* The reports of all kinds, and of one.
LEMMA ScanAllDef ==
  ASSUME NEW t, NEW r
  PROVE  r \in ScanAll(t) <=>
            /\ ~ScanPanics(t)
            /\ \E kind \in Kinds : \E m \in ScanOf(kind, t) : r = Report(kind, m)
<1> SUFFICES ASSUME ~ScanPanics(t)
             PROVE  r \in ScanAll(t) <=>
                      \E kind \in Kinds : \E m \in ScanOf(kind, t) : r = Report(kind, m)
  BY Zenon DEF ScanAll
<1> DEFINE Tagged(kind, ms) == {Report(kind, m) : m \in ms}
<1>1. ScanAll(t) = Tagged("card", ScanCard(t)) \cup Tagged("pesel", ScanPesel(t))
                   \cup Tagged("iban", ScanIban(t)) \cup Tagged("nip", ScanNip(t))
  BY Zenon DEF ScanAll, Report
<1>2. ScanAll(t) = Tagged("card", ScanOf("card", t)) \cup Tagged("pesel", ScanOf("pesel", t))
                   \cup Tagged("iban", ScanOf("iban", t)) \cup Tagged("nip", ScanOf("nip", t))
  BY <1>1, ScanOfDef, Zenon
<1>3. r \in ScanAll(t) <=> \/ r \in Tagged("card", ScanOf("card", t))
                           \/ r \in Tagged("pesel", ScanOf("pesel", t))
                           \/ r \in Tagged("iban", ScanOf("iban", t))
                           \/ r \in Tagged("nip", ScanOf("nip", t))
  BY <1>2, Zenon
<1>4. ASSUME NEW kind
      PROVE  r \in Tagged(kind, ScanOf(kind, t)) <=> \E m \in ScanOf(kind, t) : r = Report(kind, m)
  BY Zenon
<1> HIDE DEF Tagged
<1> QED
  BY <1>3, <1>4, Zenon DEF Kinds

LEMMA ReportsOfDef ==
  ASSUME NEW t, NEW kind \in Kinds
  PROVE  /\ ~ScanPanics(t) => ReportsOf(kind, t) = {Report(kind, m) : m \in ScanOf(kind, t)}
         /\ ReportsOf(kind, t) \subseteq {Report(kind, m) : m \in ScanOf(kind, t)}
<1>1. \A k, m : Report(k, m).kind = k
  BY DEF Report
<1>2. ASSUME NEW r
      PROVE  r \in ReportsOf(kind, t) <=>
               ~ScanPanics(t) /\ \E m \in ScanOf(kind, t) : r = Report(kind, m)
  <2>1. r \in ReportsOf(kind, t) <=> r \in ScanAll(t) /\ r.kind = kind
    BY Zenon DEF ReportsOf
  <2>2. r \in ScanAll(t) <=>
          ~ScanPanics(t) /\ \E k \in Kinds : \E m \in ScanOf(k, t) : r = Report(k, m)
    BY ScanAllDef
  <2> QED
    BY <1>1, <2>1, <2>2, Zenon
<1> QED
  BY <1>2, Zenon

\* A match begins and ends with a character that is not a separator.
LEMMA RegexEnds ==
  ASSUME NEW kind \in Kinds, NEW c \in Seq(Chars), RegexOf(kind, c)
  PROVE  Len(c) \in Nat /\ 1 <= Len(c) /\ c[1] \notin Separator /\ c[Len(c)] \notin Separator
<1>0. Len(c) \in Nat /\ (c # <<>> => 1 <= Len(c)) /\ DOMAIN c = 1 .. Len(c)
  OBVIOUS
<1>1. CASE kind \in {"card", "nip"}
  <2>1. Grouped(c, Separator)
    BY <1>1, Zenon DEF RegexOf, CardRegex, NipRegex
  <2> QED
    BY <1>0, <2>1, Zenon DEF Grouped
<1>2. CASE kind = "pesel"
  <2>1. Len(c) = 11 /\ AllIn(c, Numeral)
    BY <1>2, Zenon DEF RegexOf, PeselRegex
  <2>2. 1 \in DOMAIN c /\ Len(c) \in DOMAIN c /\ 1 <= Len(c)
    BY <1>0, <2>1
  <2> QED
    BY <1>0, <2>1, <2>2, CharKinds, Zenon DEF AllIn
<1>3. CASE kind = "iban"
  <2>1. Grouped(c, {Space}) /\ AllIn(c, Numeral \cup Letter \cup {Space})
    BY <1>3, IbanChars, Zenon DEF RegexOf, IbanRegex
  <2>2. c # <<>> /\ c[1] # Space /\ c[Len(c)] # Space
    BY <2>1, Zenon DEF Grouped
  <2>3. 1 \in DOMAIN c /\ Len(c) \in DOMAIN c /\ 1 <= Len(c)
    BY <1>0, <2>2
  <2> QED
    BY <1>0, <2>1, <2>2, <2>3, CharKinds, Zenon DEF AllIn
<1> QED
  BY <1>1, <1>2, <1>3, Zenon DEF Kinds

\* The text at a match, and what stands around it.
IsMatch(kind, t, i, j) ==
    /\ i \in 1 .. Len(t) /\ j \in 1 .. Len(t) /\ i <= j
    /\ SubSeq(t, i, j) \in Seq(Chars)
    /\ t[i] \notin Separator /\ t[j] \notin Separator
    /\ ~IsWord(t, i - 1) /\ ~IsWord(t, j + 1)
    /\ RegexOf(kind, SubSeq(t, i, j))

\* A match, in terms of the characters at and around its ends.
LEMMA MatchIs ==
  ASSUME NEW kind \in Kinds, NEW t \in Seq(Chars), NEW p \in MatchesOf(kind, t)
  PROVE  /\ IsMatch(kind, t, p[1], p[2])
         /\ p = <<p[1], p[2]>>
         /\ p \in (1 .. Len(t)) \X (1 .. Len(t))
<1>0. Len(t) \in Nat
  OBVIOUS
<1>1. p \in Spans(t) /\ RegexOf(kind, SubSeq(t, p[1], p[2]))
  BY Zenon DEF MatchesOf
<1>2. PICK k \in Boundaries(t), j \in Boundaries(t) : p = <<k + 1, j>>
  BY <1>1 DEF Spans
<1>3. /\ k \in 0 .. Len(t) /\ (IsWord(t, k) # IsWord(t, k + 1))
      /\ j \in 0 .. Len(t) /\ (IsWord(t, j) # IsWord(t, j + 1))
  BY Zenon DEF Boundaries
<1>4. PICK i \in 1 .. Len(t) + 1 : i = k + 1 /\ i - 1 = k
  BY <1>0, <1>3
<1>5. p = <<i, j>> /\ p[1] = i /\ p[2] = j
  BY <1>2, <1>4
<1> DEFINE c == SubSeq(t, i, j)
<1>6. RegexOf(kind, c)
  BY <1>1, <1>5, Zenon
<1>7. j \in i - 1 .. Len(t)
  <2> SUFFICES ASSUME j < i
               PROVE  FALSE
    <3>1. i \in Int /\ j \in Int
      BY <1>0, <1>3
    <3> QED
      BY <1>0, <1>3, <3>1
  <2>1. i \in Int /\ j \in Int
    BY <1>0, <1>3
  <2>2. c = <<>>
    BY <2>1, SubSeqEmpty
  <2>3. c \in Seq(Chars) /\ Len(c) = 0
    BY <2>2
  <2>4. 1 <= Len(c)
    BY <1>6, <2>3, RegexEnds
  <2> QED
    BY <2>3, <2>4
<1>8. /\ c \in Seq(Chars) /\ Len(c) = (j - i) + 1
      /\ \A m \in 1 .. (j - i) + 1 : c[m] = t[(i + m) - 1]
  BY <1>7, PartOf
<1>9. Len(c) \in Nat /\ 1 <= Len(c) /\ c[1] \notin Separator /\ c[Len(c)] \notin Separator
  BY <1>6, <1>8, RegexEnds
<1> HIDE DEF c
<1>10. i <= j /\ i \in 1 .. Len(t) /\ j \in 1 .. Len(t)
  BY <1>0, <1>3, <1>8, <1>9
<1>11. 1 \in 1 .. (j - i) + 1 /\ Len(c) \in 1 .. (j - i) + 1 /\ (i + 1) - 1 = i /\ (i + Len(c)) - 1 = j
  BY <1>8, <1>9, <1>10
<1>12. c[1] = t[i] /\ c[Len(c)] = t[j]
  BY <1>8, <1>11, Zenon
<1>13. IsWord(t, i) /\ IsWord(t, j)
  <2>1. DOMAIN t = 1 .. Len(t)
    OBVIOUS
  <2> QED
    BY <1>9, <1>10, <1>12, <2>1, Zenon DEF IsWord
<1>14. ~IsWord(t, i - 1) /\ ~IsWord(t, j + 1)
  <2>1. ~IsWord(t, j + 1)
    BY <1>3, <1>13 DEF IsWord
  <2>2. IsWord(t, i - 1) # IsWord(t, i)
    BY <1>3, <1>4, Zenon
  <2>3. ~IsWord(t, i - 1)
    BY <1>13, <2>2 DEF IsWord
  <2> QED
    BY <2>1, <2>3
<1>15. IsMatch(kind, t, i, j)
  BY <1>6, <1>8, <1>9, <1>10, <1>12, <1>14, Zenon DEF IsMatch, c
<1>16. <<i, j>> \in (1 .. Len(t)) \X (1 .. Len(t))
  BY <1>10
<1> QED
  BY <1>5, <1>15, <1>16, Zenon

LEMMA IsAMatch ==
  ASSUME NEW kind \in Kinds, NEW t \in Seq(Chars), NEW i, NEW j, IsMatch(kind, t, i, j)
  PROVE  <<i, j>> \in MatchesOf(kind, t)
<1>0. Len(t) \in Nat /\ DOMAIN t = 1 .. Len(t)
  OBVIOUS
<1>1. i \in 1 .. Len(t) /\ j \in 1 .. Len(t)
  BY Zenon DEF IsMatch
<1>2. PICK k \in 0 .. Len(t) : i = k + 1 /\ i - 1 = k
  BY <1>0, <1>1
<1>3. IsWord(t, i) /\ IsWord(t, j) /\ ~IsWord(t, i - 1) /\ ~IsWord(t, j + 1)
  BY <1>0, <1>1, Zenon DEF IsMatch, IsWord
<1>4. k \in Boundaries(t)
  BY <1>2, <1>3, Zenon DEF Boundaries
<1>5. j \in 0 .. Len(t)
  BY <1>0, <1>1
<1>6. j \in Boundaries(t)
  BY <1>3, <1>5, Zenon DEF Boundaries
<1>7. <<i, j>> \in Spans(t)
  BY <1>2, <1>4, <1>6 DEF Spans
<1>8. RegexOf(kind, SubSeq(t, i, j)) /\ <<i, j>>[1] = i /\ <<i, j>>[2] = j
  BY DEF IsMatch
<1> QED
  BY <1>7, <1>8, Zenon DEF MatchesOf

----------------------------------------------------------------------------
(* Edits keep a text a text. *)

\* The text is made of characters and the seed does not change.
TypeInv == seed \in Seeds /\ text \in Seq(Chars)

LEMMA SeedFacts ==
  ASSUME NEW s \in Seeds
  PROVE  /\ s.kind \in Kinds /\ s.text \in Seq(Chars)
         /\ Layout(s.kind, s.text) /\ IsNumber(s.kind, Strip(s.text, Separator))
  BY ClassifierAssumption, Zenon DEF Kinds

\* A character overwritten.
LEMMA ExceptAt ==
  ASSUME NEW t \in Seq(Chars), NEW k, NEW c \in Chars
  PROVE  [t EXCEPT ![k] = c] \in Seq(Chars)
<1>1. CASE k \in 1 .. Len(t)
  BY <1>1, ExceptSeq
<1>2. CASE k \notin 1 .. Len(t)
  <2>1. t \in [1 .. Len(t) -> Chars]
    OBVIOUS
  <2>2. [t EXCEPT ![k] = c] = t
    BY <1>2, <2>1
  <2> QED
    BY <2>2
<1> QED
  BY <1>1, <1>2

\* Every edit keeps a text a text.
LEMMA TypeStep ==
  ASSUME TypeInv, [Next]_vars
  PROVE  TypeInv'
<1>0. /\ seed \in Seeds /\ text \in Seq(Chars) /\ Len(text) \in Nat /\ Keys \subseteq Chars
      /\ \A k \in 1 .. Len(text) : text[k] \in Chars
  BY ClassifierAssumption DEF TypeInv
<1>1. ASSUME NEW t \in Seq(Chars), Edit(t)
      PROVE  TypeInv'
  BY <1>0, <1>1, Zenon DEF TypeInv, Edit
<1>2. ASSUME Replace
      PROVE  TypeInv'
  <2>1. PICK k \in DOMAIN text, c \in Digit : Edit([text EXCEPT ![k] = c])
    BY <1>2, Zenon DEF Replace
  <2>2. [text EXCEPT ![k] = c] \in Seq(Chars)
    BY <1>0, CharKinds, ExceptAt, Zenon
  <2> QED
    BY <1>1, <2>1, <2>2, Zenon
<1>3. ASSUME Insert
      PROVE  TypeInv'
  <2>1. PICK k \in 1 .. Len(text) + 1, c \in Keys : Edit(InsertAt(text, k, c))
    BY <1>3, Zenon DEF Insert
  <2>2. SubSeq(text, 1, k - 1) \in Seq(Chars) /\ SubSeq(text, k, Len(text)) \in Seq(Chars)
    BY <1>0, PartOf
  <2>3. <<c>> \in Seq(Chars)
    BY <1>0
  <2>4. SubSeq(text, 1, k - 1) \o <<c>> \in Seq(Chars)
    BY <2>2, <2>3, Joined
  <2>5. InsertAt(text, k, c) \in Seq(Chars)
    BY <2>2, <2>4, Joined DEF InsertAt
  <2> QED
    BY <1>1, <2>1, <2>5, Zenon
<1>4. ASSUME Delete
      PROVE  TypeInv'
  <2>1. PICK k \in DOMAIN text : Edit(RemoveAt(text, k))
    BY <1>4, Zenon DEF Delete
  <2>2. k \in 1 .. Len(text)
    BY <1>0
  <2>3. SubSeq(text, 1, k - 1) \in Seq(Chars) /\ SubSeq(text, k + 1, Len(text)) \in Seq(Chars)
    BY <1>0, <2>2, PartOf
  <2>4. RemoveAt(text, k) \in Seq(Chars)
    BY <2>3, Joined DEF RemoveAt
  <2> QED
    BY <1>1, <2>1, <2>4, Zenon
<1>5. ASSUME Transpose
      PROVE  TypeInv'
  <2>1. PICK k \in 1 .. Len(text) - 1 :
           Edit([text EXCEPT ![k] = text[k + 1], ![k + 1] = text[k]])
    BY <1>5, Zenon DEF Transpose
  <2>2. k \in 1 .. Len(text) /\ k + 1 \in 1 .. Len(text)
    BY <1>0
  <2>3. text[k] \in Chars /\ text[k + 1] \in Chars
    BY <1>0, <2>2
  <2>4. [text EXCEPT ![k] = text[k + 1]] \in Seq(Chars)
    BY <1>0, <2>3, ExceptAt, Zenon
  <2>5. [[text EXCEPT ![k] = text[k + 1]] EXCEPT ![k + 1] = text[k]] \in Seq(Chars)
    BY <2>3, <2>4, ExceptAt, Zenon
  <2>6. [text EXCEPT ![k] = text[k + 1], ![k + 1] = text[k]]
          = [[text EXCEPT ![k] = text[k + 1]] EXCEPT ![k + 1] = text[k]]
    OBVIOUS
  <2> QED
    BY <1>1, <2>1, <2>5, <2>6, Zenon
<1>6. ASSUME UNCHANGED vars
      PROVE  TypeInv'
  BY <1>6 DEF TypeInv, vars
<1> QED
  BY <1>2, <1>3, <1>4, <1>5, <1>6 DEF Next

LEMMA TypeCorrect == Spec => []TypeInv
<1>1. Init => TypeInv
  BY SeedFacts DEF Init, TypeInv
<1> QED
  BY <1>1, TypeStep, PTL DEF Spec

----------------------------------------------------------------------------
(* Reports are numbers. *)

LEMMA MatchPairs ==
  ASSUME NEW kind \in Kinds, NEW t \in Seq(Chars)
  PROVE  MatchesOf(kind, t) \in SUBSET ((1 .. Len(t)) \X (1 .. Len(t)))
  BY MatchIs

LEMMA ReportsRight ==
  ASSUME TypeInv
  PROVE  ReportsAreNumbers
<1>0. text \in Seq(Chars)
  BY DEF TypeInv
<1> SUFFICES ASSUME NEW r \in ScanAll(text)
             PROVE  /\ IsNumber(r.kind, NumberIn(r.kind, SubSeq(text, r.from, r.to)))
                    /\ ~IsWord(text, r.from - 1) /\ ~IsWord(text, r.to + 1)
                    /\ \A q \in ReportsOf(r.kind, text) : q # r => (q.to < r.from \/ r.to < q.from)
  BY Zenon DEF ReportsAreNumbers
<1>1. PICK kind \in Kinds : \E m \in ScanOf(kind, text) : r = Report(kind, m)
  <2>1. r \in ScanAll(text) => \E k \in Kinds : \E m \in ScanOf(k, text) : r = Report(k, m)
    BY ScanAllDef
  <2> QED
    BY <2>1, Zenon
<1>2. PICK m \in ScanOf(kind, text) : r = Report(kind, m)
  BY <1>1
<1>3. \A l : /\ Report(kind, l).kind = kind
             /\ Report(kind, l).from = l[1] /\ Report(kind, l).to = l[2]
  BY DEF Report
<1> DEFINE M == MatchesOf(kind, text)
           c == SubSeq(text, m[1], m[2])
<1>4. M \in SUBSET ((1 .. Len(text)) \X (1 .. Len(text)))
  BY <1>0, MatchPairs
<1>5. FindIter(text, M) \subseteq M /\ \A l, n \in FindIter(text, M) : l # n => Apart(l, n)
  <2> HIDE DEF M
  <2> QED
    BY <1>0, <1>4, FindsApart
<1>6. m \in FindIter(text, M) /\ CheckOf(kind, c)
  BY Zenon DEF ScanOf
<1>7. m \in M
  BY <1>5, <1>6
<1>8. IsMatch(kind, text, m[1], m[2])
  BY <1>0, <1>7, MatchIs
<1>9. c \in Seq(Chars) /\ RegexOf(kind, c) /\ ~IsWord(text, m[1] - 1) /\ ~IsWord(text, m[2] + 1)
  BY <1>8, Zenon DEF IsMatch
<1>10. IsNumber(kind, NumberIn(kind, c))
  BY <1>6, <1>9, ChecksAreRight, Zenon
<1>11. ASSUME NEW q \in ReportsOf(kind, text), q # r
       PROVE  q.to < r.from \/ r.to < q.from
  <2>1. PICK l \in ScanOf(kind, text) : q = Report(kind, l)
    <3>1. ReportsOf(kind, text) \subseteq {Report(kind, l) : l \in ScanOf(kind, text)}
      BY ReportsOfDef
    <3> QED
      BY <3>1, Zenon
  <2>2. l \in FindIter(text, M) /\ l # m
    BY <1>2, <1>11, <2>1, Zenon DEF ScanOf
  <2>3. Apart(l, m)
    BY <1>5, <1>6, <2>2, Zenon
  <2> QED
    BY <1>2, <1>3, <2>1, <2>3, Zenon DEF Apart
<1> QED
  BY <1>2, <1>3, <1>9, <1>10, <1>11, Zenon

\* Whatever was typed, foreign digits included, a classifier reports only numbers
\* of its kind: what is read of a match that luhn_check, pesel_check, nip_check or
\* iban_check accepts has the shape and the check digits the standards define, the
\* match has no word character next to it, and overlaps no other report of that
\* classifier.
THEOREM ReportsNumbers == Spec => []ReportsAreNumbers
  BY TypeCorrect, ReportsRight, PTL

\* iban_check answers on every match in a text without foreign digits: only one of
\* those, in the place of a check digit, can make split_at panic.
THEOREM PlainTextsAnswered ==
  ASSUME NEW t \in Seq(Chars), Plain(t)
  PROVE  ~ScanPanics(t)
<1> SUFFICES ASSUME NEW m \in IbanTried(t)
             PROVE  ~IbanPanics(Matched(t, m, {Space}))
  BY Zenon DEF ScanPanics
<1> DEFINE M == MatchesOf("iban", t)
           c == SubSeq(t, m[1], m[2])
           z == Strip(c, {Space})
<1>0. "iban" \in Kinds /\ Len(t) \in Nat /\ DOMAIN t = 1 .. Len(t)
  BY DEF Kinds
<1>1. M \in SUBSET ((1 .. Len(t)) \X (1 .. Len(t)))
  BY <1>0, MatchPairs
<1>2. FindIter(t, M) \subseteq M
  <2> HIDE DEF M
  <2> QED
    BY <1>1, FindsApart
<1>3. m \in M
  <2>1. \A u : RegexOf("iban", u) <=> IbanRegex(u)
    BY Zenon DEF RegexOf
  <2>2. M = {p \in Spans(t) : IbanRegex(SubSeq(t, p[1], p[2]))}
    BY <2>1, Zenon DEF MatchesOf
  <2> QED
    BY <1>2, <2>2, Zenon DEF IbanTried
<1>4. IsMatch("iban", t, m[1], m[2])
  BY <1>0, <1>3, MatchIs
<1>5. c \in Seq(Chars) /\ IbanRegex(c)
  BY <1>4, Zenon DEF IsMatch, RegexOf
<1>6. Plain(c)
  <2>1. /\ m[1] \in 1 .. Len(t) + 1 /\ m[2] \in m[1] - 1 .. Len(t)
        /\ \A k \in 1 .. (m[2] - m[1]) + 1 : (m[1] + k) - 1 \in 1 .. Len(t)
    <3>1. m[1] \in 1 .. Len(t) /\ m[2] \in 1 .. Len(t) /\ m[1] <= m[2]
      BY <1>4, Zenon DEF IsMatch
    <3> QED
      BY <1>0, <3>1
  <2>2. /\ Len(c) = (m[2] - m[1]) + 1
        /\ \A k \in 1 .. (m[2] - m[1]) + 1 : c[k] = t[(m[1] + k) - 1]
    BY <2>1, PartOf
  <2>3. DOMAIN c = 1 .. Len(c)
    BY <1>5
  <2> HIDE DEF c
  <2> QED
    BY <1>0, <2>1, <2>2, <2>3, Zenon DEF Plain, AllIn
<1> HIDE DEF c
<1>7. z \in Seq(Chars) /\ Plain(z)
  <2>1. z \in Seq(Chars)
    BY <1>5, StripLen
  <2>2. AllIn(c, (Chars \ Foreign) \cup {Space})
    BY <1>6, Zenon DEF Plain, AllIn
  <2> QED
    BY <1>5, <2>1, <2>2, StripAllIn DEF Plain
<1>8. 4 <= Len(z)
  <2>1. Len(z) \in 15 .. 34
    BY <1>5, Zenon DEF IbanRegex
  <2>2. \A x \in 15 .. 34 : 4 <= x
    OBVIOUS
  <2> QED
    BY <2>1, <2>2, Zenon
<1> HIDE DEF z
<1>9. ~IbanPanics(z)
  BY <1>7, <1>8, PlainSplits
<1> QED
  BY <1>9, Zenon DEF z, c, Matched

\* A text that is a number of a kind between separators: that number is the only
\* match, and what is reported depends on its check digits alone.
LEMMA AloneRead ==
  ASSUME NEW kind \in Kinds, NEW t \in Seq(Chars), NEW i \in 1 .. Len(t), NEW j \in 1 .. Len(t),
         \A k \in 1 .. Len(t) : k < i \/ j < k => t[k] \in Separator,
         i <= j, Layout(kind, SubSeq(t, i, j)), Shaped(kind, Strip(SubSeq(t, i, j), Separator))
  PROVE  /\ Valid(kind, Strip(SubSeq(t, i, j), Separator)) =>
               ReportsOf(kind, t) = {[kind |-> kind, from |-> i, to |-> j]}
         /\ ~Valid(kind, Strip(SubSeq(t, i, j), Separator)) => ReportsOf(kind, t) = {}
<1> DEFINE c == SubSeq(t, i, j)
           M == MatchesOf(kind, t)
<1>0. Len(t) \in Nat /\ DOMAIN t = 1 .. Len(t)
  OBVIOUS
<1>1. /\ c \in Seq(Chars) /\ Len(c) = (j - i) + 1
      /\ \A m \in 1 .. (j - i) + 1 : c[m] = t[(i + m) - 1]
  BY <1>0, PartOf
<1>2. RegexOf(kind, c)
  BY <1>1, RegexMeans
<1>3. c[1] \notin Separator /\ c[Len(c)] \notin Separator
  BY <1>1, <1>2, RegexEnds
<1>4. c[1] = t[i] /\ c[Len(c)] = t[j]
  <2>1. /\ 1 \in 1 .. (j - i) + 1 /\ (j - i) + 1 \in 1 .. (j - i) + 1
        /\ (i + 1) - 1 = i /\ (i + ((j - i) + 1)) - 1 = j
    OBVIOUS
  <2> HIDE DEF c
  <2> QED
    BY <1>1, <2>1, Zenon
<1>5. ~IsWord(t, i - 1) /\ ~IsWord(t, j + 1)
  <2>1. i - 1 \in 1 .. Len(t) => t[i - 1] \in Separator
    <3>1. i - 1 < i
      OBVIOUS
    <3> QED
      BY <3>1, Zenon
  <2>2. j + 1 \in 1 .. Len(t) => t[j + 1] \in Separator
    <3>1. j < j + 1
      OBVIOUS
    <3> QED
      BY <3>1, Zenon
  <2> QED
    BY <1>0, <2>1, <2>2, Zenon DEF IsWord
<1>6. IsMatch(kind, t, i, j)
  BY <1>1, <1>2, <1>3, <1>4, <1>5, Zenon DEF IsMatch
<1>7. <<i, j>> \in M
  BY <1>6, IsAMatch
<1>8. M \in SUBSET ((1 .. Len(t)) \X (1 .. Len(t)))
  BY MatchPairs
<1>9. ASSUME NEW m \in M
      PROVE  i <= m[1] /\ m[1] <= j /\ m[2] <= j
  <2>1. IsMatch(kind, t, m[1], m[2])
    BY MatchIs
  <2>2. /\ m[1] \in 1 .. Len(t) /\ m[2] \in 1 .. Len(t)
        /\ t[m[1]] \notin Separator /\ t[m[2]] \notin Separator
    BY <2>1, Zenon DEF IsMatch
  <2>3. ~(m[1] < i \/ j < m[1]) /\ ~(m[2] < i \/ j < m[2])
    BY <2>2, Zenon
  <2> QED
    BY <2>2, <2>3
<1>10. FindIter(t, M) = {<<i, j>>}
  <2> HIDE DEF M
  <2> QED
    BY <1>7, <1>8, <1>9, FindsOne
<1>11. <<i, j>>[1] = i /\ <<i, j>>[2] = j
  OBVIOUS
<1>p. Plain(c)
  BY <1>1, ShapedPlain
<1>12. CheckOf(kind, c) <=> Valid(kind, Strip(c, Separator))
  <2>1. NumberIn(kind, c) = Strip(c, Separator)
    <3>1. CASE kind = "card"
      <4>1. AllIn(Strip(c, Separator), Digit)
        BY <3>1, ShapedDef, Zenon
      <4>0. c \in Seq(Chars) => DOMAIN c = 1 .. Len(c)
        <5> HIDE DEF c
        <5> QED
          OBVIOUS
      <4>2. AllIn(c, Digit \cup Separator) /\ DOMAIN c = 1 .. Len(c)
        BY <1>1, <4>0, <4>1, StripAllIn, Zenon
      <4>3. \A k \in 1 .. Len(c) : c[k] \in NonDigit <=> c[k] \in Separator
        BY <4>2, CharKinds, Zenon DEF AllIn, NonDigit
      <4>4. Strip(c, NonDigit) = Strip(c, Separator)
        BY <1>1, <4>3, StripSame
      <4> QED
        BY <3>1, <4>4, Zenon DEF NumberIn
    <3>2. CASE kind # "card"
      BY <3>2, Zenon DEF NumberIn
    <3> QED
      BY <3>1, <3>2
  <2> QED
    BY <1>1, <1>2, <2>1, ChecksAreRight, Zenon DEF IsNumber
<1>q. Plain(t)
  <2> SUFFICES ASSUME NEW k \in 1 .. Len(t)
               PROVE  t[k] \in Chars \ Foreign
    BY <1>0, Zenon DEF Plain, AllIn
  <2>1. CASE k < i \/ j < k
    BY <2>1, CharKinds, Zenon
  <2>2. CASE ~(k < i \/ j < k)
    <3>1. PICK l \in 1 .. (j - i) + 1 : (i + l) - 1 = k
      <4>1. (k - i) + 1 \in 1 .. (j - i) + 1 /\ (i + ((k - i) + 1)) - 1 = k
        BY <2>2
      <4> QED
        BY <4>1
    <3>2. DOMAIN c = 1 .. (j - i) + 1
      BY <1>1
    <3>3. c[l] = t[k]
      BY <1>1, <3>1, Zenon
    <3> QED
      BY <1>p, <3>1, <3>2, <3>3, Zenon DEF Plain, AllIn
  <2> QED
    BY <2>1, <2>2
<1>13. ReportsOf(kind, t) = {Report(kind, m) : m \in ScanOf(kind, t)}
  BY <1>q, PlainTextsAnswered, ReportsOfDef
<1>14. ASSUME Valid(kind, Strip(c, Separator))
       PROVE  ReportsOf(kind, t) = {[kind |-> kind, from |-> i, to |-> j]}
  <2>1. ScanOf(kind, t) = {<<i, j>>}
    BY <1>10, <1>11, <1>12, <1>14, Zenon DEF ScanOf
  <2>2. Report(kind, <<i, j>>) = [kind |-> kind, from |-> i, to |-> j]
    BY <1>11, Zenon DEF Report
  <2>3. {Report(kind, m) : m \in {<<i, j>>}} = {Report(kind, <<i, j>>)}
    BY Zenon
  <2> QED
    BY <1>13, <2>1, <2>2, <2>3, Zenon
<1>15. ASSUME ~Valid(kind, Strip(c, Separator))
       PROVE  ReportsOf(kind, t) = {}
  <2>1. ScanOf(kind, t) = {}
    BY <1>10, <1>11, <1>12, <1>15, Zenon DEF ScanOf
  <2>2. {Report(kind, m) : m \in {}} = {}
    BY Zenon
  <2> QED
    BY <1>13, <2>1, <2>2, Zenon
<1> QED
  BY <1>14, <1>15

\* The characters around the number are separators: AloneRead applies.
LEMMA FoundRight ==
  ASSUME TypeInv
  PROVE  FormattedFound
<1>0. text \in Seq(Chars) /\ Len(text) \in Nat /\ DOMAIN text = 1 .. Len(text) /\ seed \in Seeds
  BY DEF TypeInv
<1> DEFINE kind == seed.kind
           z == Strip(seed.text, Separator)
<1> SUFFICES ASSUME NEW i \in DOMAIN text, NEW j \in DOMAIN text,
                    AllIn(SubSeq(text, 1, i - 1) \o SubSeq(text, j + 1, Len(text)), Separator),
                    Strip(SubSeq(text, i, j), Separator) = z,
                    Layout(kind, SubSeq(text, i, j))
             PROVE  ReportsOf(kind, text) = {[kind |-> kind, from |-> i, to |-> j]}
  BY Zenon DEF FormattedFound
<1>1. kind \in Kinds /\ Shaped(kind, z) /\ Valid(kind, z)
  BY <1>0, SeedFacts, Zenon DEF IsNumber
<1> HIDE DEF kind, z
<1>2. i \in 1 .. Len(text) /\ j \in 1 .. Len(text)
  BY <1>0
<1>3. i <= j
  <2> SUFFICES ASSUME j < i
               PROVE  FALSE
    BY <1>0, <1>2
  <2> DEFINE c == SubSeq(text, i, j)
  <2>1. c = <<>>
    <3>1. i \in Int /\ j \in Int
      BY <1>2
    <3> QED
      BY <3>1, SubSeqEmpty
  <2>2. c \in Seq(Chars) /\ Len(c) = 0
    BY <2>1
  <2>3. RegexOf(kind, c)
    BY <1>1, <2>2, RegexMeans
  <2>4. 1 <= Len(c)
    BY <1>1, <2>2, <2>3, RegexEnds
  <2> QED
    BY <2>2, <2>4
<1>4. \A k \in 1 .. Len(text) : k < i \/ j < k => text[k] \in Separator
  <2> DEFINE a == SubSeq(text, 1, i - 1)
             b == SubSeq(text, j + 1, Len(text))
  <2>1. a \in Seq(Chars) /\ Len(a) = i - 1 /\ \A k \in 1 .. i - 1 : a[k] = text[k]
    <3>1. 1 \in 1 .. Len(text) + 1 /\ i - 1 \in 1 - 1 .. Len(text)
      BY <1>0, <1>2
    <3>2. /\ a \in Seq(Chars) /\ Len(a) = ((i - 1) - 1) + 1
          /\ \A k \in 1 .. ((i - 1) - 1) + 1 : a[k] = text[(1 + k) - 1]
      BY <1>0, <3>1, PartOf
    <3> HIDE DEF a
    <3>3. ((i - 1) - 1) + 1 = i - 1
      BY <1>2
    <3>4. ASSUME NEW k \in 1 .. i - 1
          PROVE  a[k] = text[k]
      <4>1. (1 + k) - 1 = k
        BY <1>2
      <4> QED
        BY <3>2, <3>3, <4>1, Zenon
    <3> QED
      BY <3>2, <3>3, <3>4, Zenon
  <2>2. /\ b \in Seq(Chars) /\ Len(b) = Len(text) - j
        /\ \A k \in 1 .. Len(text) - j : b[k] = text[j + k]
    <3>1. j + 1 \in 1 .. Len(text) + 1 /\ Len(text) \in (j + 1) - 1 .. Len(text)
      BY <1>0, <1>2
    <3>2. /\ b \in Seq(Chars) /\ Len(b) = (Len(text) - (j + 1)) + 1
          /\ \A k \in 1 .. (Len(text) - (j + 1)) + 1 : b[k] = text[((j + 1) + k) - 1]
      BY <1>0, <3>1, PartOf
    <3> HIDE DEF b
    <3>3. (Len(text) - (j + 1)) + 1 = Len(text) - j
      BY <1>0, <1>2
    <3>4. ASSUME NEW k \in 1 .. Len(text) - j
          PROVE  b[k] = text[j + k]
      <4>1. ((j + 1) + k) - 1 = j + k
        BY <1>2
      <4> QED
        BY <3>2, <3>3, <4>1, Zenon
    <3> QED
      BY <3>2, <3>3, <3>4, Zenon
  <2>3. AllIn(a \o b, Separator)
    OBVIOUS
  <2> HIDE DEF a, b
  <2>4. /\ a \o b \in Seq(Chars) /\ Len(a \o b) = Len(a) + Len(b)
        /\ \A k \in 1 .. Len(a) : (a \o b)[k] = a[k]
        /\ \A k \in 1 .. Len(b) : (a \o b)[Len(a) + k] = b[k]
    BY <2>1, <2>2, Joined
  <2>5. DOMAIN (a \o b) = 1 .. Len(a) + Len(b)
    BY <2>4
  <2>6. ASSUME NEW k \in 1 .. Len(text), k < i
        PROVE  text[k] \in Separator
    <3>1. k \in 1 .. i - 1
      BY <1>2, <2>6
    <3>2. k \in 1 .. Len(a) + Len(b)
      BY <1>0, <1>2, <2>1, <2>2, <3>1
    <3>3. (a \o b)[k] = text[k]
      BY <2>1, <2>4, <3>1, Zenon
    <3> QED
      BY <2>3, <2>5, <3>2, <3>3, Zenon DEF AllIn
  <2>7. ASSUME NEW k \in 1 .. Len(text), j < k
        PROVE  text[k] \in Separator
    <3>1. PICK l \in 1 .. Len(text) - j : k = j + l
      <4>1. k - j \in 1 .. Len(text) - j /\ k = j + (k - j)
        BY <1>0, <1>2, <2>7
      <4> QED
        BY <4>1
    <3>2. Len(a) + l \in 1 .. Len(a) + Len(b)
      <4>1. l \in 1 .. Len(b) /\ Len(a) \in Nat /\ Len(b) \in Nat
        BY <2>1, <2>2
      <4>2. \A x, y \in Nat : \A k1 \in 1 .. y : x + k1 \in 1 .. x + y
        OBVIOUS
      <4> QED
        BY <4>1, <4>2, Zenon
    <3>3. (a \o b)[Len(a) + l] = text[k]
      BY <2>2, <2>4, <3>1, Zenon
    <3> QED
      BY <2>3, <2>5, <3>2, <3>3, Zenon DEF AllIn
  <2> QED
    BY <2>6, <2>7
<1> QED
  BY <1>0, <1>1, <1>2, <1>3, <1>4, AloneRead

\* A valid number between separators, grouped in any way its kind allows, is
\* found exactly once and at its place, by the scan of its classifier.
THEOREM NumbersFound == Spec => []FormattedFound
  BY TypeCorrect, FoundRight, PTL

----------------------------------------------------------------------------
(* Slips: digits in the place of digits. *)

Alike(s, t) ==
    /\ Len(s) = Len(t)
    /\ \A k \in 1 .. Len(s) : s[k] = t[k] \/ (s[k] \in Digit /\ t[k] \in Digit)

LEMMA AlikeIn ==
  ASSUME NEW s \in Seq(Chars), NEW t \in Seq(Chars), Alike(s, t), NEW S, Digit \subseteq S, AllIn(s, S)
  PROVE  AllIn(t, S)
<1>1. DOMAIN s = 1 .. Len(s) /\ DOMAIN t = 1 .. Len(s)
  BY DEF Alike
<1> QED
  BY <1>1, Zenon DEF Alike, AllIn

LEMMA AlikeOut ==
  ASSUME NEW s \in Seq(Chars), NEW t \in Seq(Chars), Alike(s, t), NEW S, S \subseteq Separator
  PROVE  \A k \in 1 .. Len(s) : s[k] \in S <=> t[k] \in S
  BY CharKinds, Zenon DEF Alike

\* Digits in the place of digits keep the grouping,
LEMMA AlikeGrouped ==
  ASSUME NEW s \in Seq(Chars), NEW t \in Seq(Chars), Alike(s, t), NEW S, S \subseteq Separator,
         Grouped(s, S)
  PROVE  Grouped(t, S)
<1>0. Len(s) \in Nat /\ Len(t) = Len(s)
  BY DEF Alike
<1>1. \A k \in 1 .. Len(s) : s[k] \in S <=> t[k] \in S
  BY AlikeOut
<1>2. s # <<>> /\ s[1] \notin S /\ s[Len(s)] \notin S
  BY Zenon DEF Grouped
<1>3. 1 \in 1 .. Len(s) /\ Len(s) \in 1 .. Len(s)
  BY <1>0, <1>2
<1>4. t # <<>>
  BY <1>0, <1>3
<1>5. \A k \in 1 .. Len(s) - 1 : k \in 1 .. Len(s) /\ k + 1 \in 1 .. Len(s)
  BY <1>0
<1>6. \A k \in 1 .. Len(t) - 1 : t[k] \in S => t[k + 1] \notin S
  BY <1>0, <1>1, <1>5, Zenon DEF Grouped
<1>7. t[1] \notin S /\ t[Len(t)] \notin S
  BY <1>0, <1>1, <1>2, <1>3, Zenon
<1> QED
  BY <1>4, <1>6, <1>7, Zenon DEF Grouped

\* and the places where separators are dropped.
LEMMA AlikeStrip ==
  ASSUME NEW s \in Seq(Chars), NEW t \in Seq(Chars), Alike(s, t), NEW S, S \subseteq Separator
  PROVE  /\ \A k \in 0 .. Len(s) : Len(Strips(s, S)[k]) = Len(Strips(t, S)[k])
         /\ Len(Strip(s, S)) = Len(Strip(t, S))
<1>0. Len(s) \in 0 .. Len(s) /\ Len(s) = Len(t)
  BY DEF Alike
<1>1. DropAlike(s, S, t, S)
  BY AlikeOut DEF DropAlike
<1>2. \A k \in 0 .. Len(s) : Len(Strips(s, S)[k]) = Len(Strips(t, S)[k])
  BY <1>0, <1>1, StripsAgree
<1>3. Len(Strips(s, S)[Len(s)]) = Len(Strips(t, S)[Len(s)])
  BY <1>0, <1>2, Zenon
<1>4. Len(Strip(s, S)) = Len(Strip(t, S))
  BY <1>0, <1>3 DEF Strip
<1> QED
  BY <1>2, <1>4, Zenon

\* A text like a match is a match.
LEMMA AlikeMatch ==
  ASSUME NEW kind \in Kinds, NEW s \in Seq(Chars), NEW t \in Seq(Chars), Alike(s, t), RegexOf(kind, s)
  PROVE  RegexOf(kind, t)
<1>0. Len(t) = Len(s) /\ Len(s) \in Nat /\ DOMAIN s = 1 .. Len(s) /\ DOMAIN t = 1 .. Len(s)
  BY DEF Alike
<1>1. Separator \subseteq Separator /\ {Space} \subseteq Separator
  BY CharKinds
<1>2. /\ Grouped(s, Separator) => Grouped(t, Separator)
      /\ Grouped(s, {Space}) => Grouped(t, {Space})
  BY <1>1, AlikeGrouped, Zenon
<1>3. /\ Len(Strip(t, Separator)) = Len(Strip(s, Separator))
      /\ Len(Strip(t, {Space})) = Len(Strip(s, {Space}))
      /\ \A k \in 0 .. Len(s) : Len(Strips(t, Separator)[k]) = Len(Strips(s, Separator)[k])
  <2>1. /\ Len(Strip(t, Separator)) = Len(Strip(s, Separator))
        /\ \A k \in 0 .. Len(s) : Len(Strips(t, Separator)[k]) = Len(Strips(s, Separator)[k])
    BY <1>1, AlikeStrip
  <2>2. Len(Strip(t, {Space})) = Len(Strip(s, {Space}))
    BY <1>1, AlikeStrip
  <2> QED
    BY <2>1, <2>2, Zenon
<1>4. /\ AllIn(s, Numeral) => AllIn(t, Numeral)
      /\ AllIn(s, Numeral \cup Separator) => AllIn(t, Numeral \cup Separator)
  <2>1. Digit \subseteq Numeral /\ Digit \subseteq Numeral \cup Separator
    BY CharKinds, Zenon
  <2> QED
    BY <2>1, AlikeIn, Zenon
<1>5. CASE kind = "card"
  <2>1. CardRegex(s)
    BY <1>5, Zenon DEF RegexOf
  <2>2. CardRegex(t)
    BY <1>2, <1>3, <1>4, <2>1, Zenon DEF CardRegex
  <2> QED
    BY <1>5, <2>2, Zenon DEF RegexOf
<1>6. CASE kind = "pesel"
  BY <1>0, <1>4, <1>6, Zenon DEF RegexOf, PeselRegex
<1>7. CASE kind = "nip"
  <2>1. NipRegex(s)
    BY <1>7, Zenon DEF RegexOf
  <2>2. \A k \in 1 .. Len(s) : k \in 0 .. Len(s)
    BY <1>0
  <2>3. \A k \in 1 .. Len(s) : s[k] \in Separator <=> t[k] \in Separator
    BY <1>1, AlikeOut, Zenon
  <2>4. \A k \in DOMAIN t : t[k] \in Separator => Len(Strips(t, Separator)[k]) \in {3, 6, 8}
    BY <1>0, <1>3, <2>1, <2>2, <2>3, Zenon DEF NipRegex
  <2>5. NipRegex(t)
    BY <1>2, <1>3, <1>4, <2>1, <2>4, Zenon DEF NipRegex
  <2> QED
    BY <1>7, <2>5, Zenon DEF RegexOf
<1>8. CASE kind = "iban"
  <2>1. IbanRegex(s)
    BY <1>8, Zenon DEF RegexOf
  <2>2. 4 <= Len(s)
    BY <2>1, IbanChars
  <2>3. /\ Grouped(s, {Space}) /\ Len(Strip(s, {Space})) \in 15 .. 34
        /\ s[1] \in Letter /\ s[2] \in Letter /\ s[3] \in Numeral /\ s[4] \in Numeral
        /\ \A k \in 5 .. Len(s) : s[k] \in Digit \cup Letter \cup {Space}
    BY <2>1, IbanRegexDef
  <2>4. /\ 1 \in 1 .. Len(s) /\ 2 \in 1 .. Len(s) /\ 3 \in 1 .. Len(s) /\ 4 \in 1 .. Len(s)
        /\ \A k \in 5 .. Len(s) : k \in 1 .. Len(s)
    BY <1>0, <2>2
  <2>5. t[1] \in Letter /\ t[2] \in Letter /\ t[3] \in Numeral /\ t[4] \in Numeral
    BY <2>3, <2>4, CharKinds, Zenon DEF Alike
  <2>6. \A k \in 5 .. Len(t) : t[k] \in Digit \cup Letter \cup {Space}
    BY <1>0, <2>3, <2>4, Zenon DEF Alike
  <2>7. IbanRegex(t)
    BY <1>2, <1>3, <2>3, <2>5, <2>6, IbanRegexDef, Zenon
  <2> QED
    BY <1>8, <2>7, Zenon DEF RegexOf
<1> QED
  BY <1>5, <1>6, <1>7, <1>8, Zenon DEF Kinds

\* The kept text of the one and of the other, character by character.
LEMMA AlikeKept ==
  ASSUME NEW s \in Seq(Chars), NEW t \in Seq(Chars), Alike(s, t),
         NEW m \in 1 .. Len(Strip(s, Separator))
  PROVE  \E k \in 1 .. Len(s) :
            /\ Len(Strips(s, Separator)[k]) = m
            /\ Strip(s, Separator)[m] = s[k] /\ Strip(t, Separator)[m] = t[k]
<1>0. Len(t) = Len(s) /\ Len(s) \in Nat
  BY DEF Alike
<1>1. PICK k \in 1 .. Len(s) : s[k] \notin Separator /\ Len(Strips(s, Separator)[k]) = m
  BY StripOrigin
<1>2. t[k] \notin Separator
  BY <1>1, AlikeOut, Zenon
<1>3. Len(Strips(t, Separator)[k]) = m
  <2>1. k \in 0 .. Len(s)
    BY <1>0
  <2> QED
    BY <1>1, <2>1, AlikeStrip, Zenon
<1>4. Strip(s, Separator)[m] = s[k]
  BY <1>1, StripKept
<1>5. Strip(t, Separator)[m] = t[k]
  BY <1>0, <1>2, <1>3, StripKept
<1> QED
  BY <1>1, <1>4, <1>5

\* a and b differ in the digit at m; in the digits at m and m + 1, exchanged.
OneSlip(a, b, m) ==
    /\ Len(a) = Len(b) /\ m \in 1 .. Len(a)
    /\ a[m] \in Digit /\ b[m] \in Digit /\ a[m] # b[m]
    /\ \A k \in 1 .. Len(a) : k # m => a[k] = b[k]

TwoSlip(a, b, m) ==
    /\ Len(a) = Len(b) /\ m \in 1 .. Len(a) /\ m + 1 \in 1 .. Len(a)
    /\ a[m] \in Digit /\ a[m + 1] \in Digit /\ a[m] # a[m + 1]
    /\ b[m] = a[m + 1] /\ b[m + 1] = a[m]
    /\ \A k \in 1 .. Len(a) : k # m /\ k # m + 1 => a[k] = b[k]

\* A digit mistyped in a text is one mistyped in the number it spells.
LEMMA MistypedStripped ==
  ASSUME NEW s \in Seq(Chars), NEW t \in Seq(Chars), MistypedDigit(s, t)
  PROVE  /\ Alike(s, t)
         /\ \E m : OneSlip(Strip(s, Separator), Strip(t, Separator), m)
<1> DEFINE a == Strip(s, Separator)
           b == Strip(t, Separator)
           L(k) == Len(Strips(s, Separator)[k])
<1>0. Len(t) = Len(s) /\ Len(s) \in Nat /\ DOMAIN s = 1 .. Len(s)
  BY DEF MistypedDigit
<1>1. PICK k \in 1 .. Len(s) : Differ(s, t) = {k} /\ s[k] \in Digit /\ t[k] \in Digit
  BY <1>0, Zenon DEF MistypedDigit
<1>2. s[k] # t[k] /\ \A l \in 1 .. Len(s) : l # k => s[l] = t[l]
  BY <1>0, <1>1, Zenon DEF Differ
<1>3. Alike(s, t)
  BY <1>0, <1>1, <1>2, Zenon DEF Alike
<1>4. s[k] \notin Separator /\ t[k] \notin Separator
  BY <1>1, CharKinds, Zenon
<1>5. L(k) \in 1 .. Len(a) /\ a[L(k)] = s[k]
  BY <1>4, StripKept
<1>6. Len(a) = Len(b) /\ L(k) = Len(Strips(t, Separator)[k])
  <2>1. k \in 0 .. Len(s) /\ Separator \subseteq Separator
    BY <1>0
  <2> QED
    BY <1>3, <2>1, AlikeStrip, Zenon
<1>7. b[L(k)] = t[k]
  <2>1. b[Len(Strips(t, Separator)[k])] = t[k]
    BY <1>0, <1>4, StripKept
  <2> QED
    BY <1>6, <2>1, Zenon
<1>8. ASSUME NEW m \in 1 .. Len(a), m # L(k)
      PROVE  a[m] = b[m]
  <2>1. PICK l \in 1 .. Len(s) : L(l) = m /\ a[m] = s[l] /\ b[m] = t[l]
    BY <1>3, AlikeKept
  <2> QED
    BY <1>2, <1>8, <2>1, Zenon
<1>9. OneSlip(a, b, L(k))
  <2> HIDE DEF a, b, L
  <2> QED
    BY <1>1, <1>2, <1>5, <1>6, <1>7, <1>8, Zenon DEF OneSlip
<1> QED
  BY <1>3, <1>9, Zenon

\* Digits exchanged in a text are neighbours in the number as well.
LEMMA SwappedStripped ==
  ASSUME NEW s \in Seq(Chars), NEW t \in Seq(Chars), SwappedDigits(s, t)
  PROVE  /\ Alike(s, t)
         /\ \E m : /\ TwoSlip(Strip(s, Separator), Strip(t, Separator), m)
                   /\ {t[k] : k \in Differ(s, t)} =
                         {Strip(s, Separator)[m], Strip(s, Separator)[m + 1]}
<1> DEFINE a == Strip(s, Separator)
           b == Strip(t, Separator)
           L(k) == Len(Strips(s, Separator)[k])
<1>0. Len(t) = Len(s) /\ Len(s) \in Nat /\ DOMAIN s = 1 .. Len(s)
  BY DEF SwappedDigits
<1>1. PICK k \in 1 .. Len(s) - 1 :
          /\ Differ(s, t) = {k, k + 1} /\ s[k] \in Digit /\ s[k + 1] \in Digit
          /\ t[k] = s[k + 1] /\ t[k + 1] = s[k]
  BY Zenon DEF SwappedDigits
<1>2. PICK j \in 1 .. Len(s) : j = k + 1 /\ j - 1 = k /\ k \in 1 .. Len(s) /\ j # k
  BY <1>0
<1>3. /\ Differ(s, t) = {k, j} /\ s[k] \in Digit /\ s[j] \in Digit /\ t[k] = s[j] /\ t[j] = s[k]
  BY <1>1, <1>2, Zenon
<1>4. s[k] # s[j] /\ \A l \in 1 .. Len(s) : l # k /\ l # j => s[l] = t[l]
  BY <1>0, <1>3, Zenon DEF Differ
<1>5. Alike(s, t)
  BY <1>0, <1>3, <1>4, Zenon DEF Alike
<1>6. s[k] \notin Separator /\ s[j] \notin Separator
  BY <1>3, CharKinds, Zenon
<1>7. L(k) \in 1 .. Len(a) /\ a[L(k)] = s[k]
  BY <1>2, <1>6, StripKept
<1>8. L(j) \in 1 .. Len(a) /\ a[L(j)] = s[j] /\ L(j) = L(j - 1) + 1
  BY <1>2, <1>6, StripKept
<1>9. L(j) = L(k) + 1 /\ L(k) # L(j)
  <2>1. L(j) = L(k) + 1
    BY <1>2, <1>8, Zenon
  <2>2. \A x \in 1 .. Len(a) : x # x + 1
    OBVIOUS
  <2> QED
    BY <1>7, <2>1, <2>2, Zenon
<1>10. /\ Len(a) = Len(b)
       /\ L(k) = Len(Strips(t, Separator)[k]) /\ L(j) = Len(Strips(t, Separator)[j])
  <2>1. k \in 0 .. Len(s) /\ j \in 0 .. Len(s) /\ Separator \subseteq Separator
    BY <1>0, <1>2
  <2>2. /\ \A l \in 0 .. Len(s) : Len(Strips(s, Separator)[l]) = Len(Strips(t, Separator)[l])
        /\ Len(a) = Len(b)
    BY <1>5, <2>1, AlikeStrip
  <2> QED
    BY <2>1, <2>2, Zenon
<1>11. b[L(k)] = t[k] /\ b[L(j)] = t[j]
  <2>0. t[k] \notin Separator /\ t[j] \notin Separator /\ k \in 1 .. Len(t) /\ j \in 1 .. Len(t)
    BY <1>0, <1>2, <1>3, <1>6, Zenon
  <2>1. b[Len(Strips(t, Separator)[k])] = t[k]
    BY <2>0, StripKept
  <2>2. b[Len(Strips(t, Separator)[j])] = t[j]
    BY <2>0, StripKept
  <2> QED
    BY <1>10, <2>1, <2>2, Zenon
<1>12. ASSUME NEW m \in 1 .. Len(a), m # L(k), m # L(j)
       PROVE  a[m] = b[m]
  <2>1. PICK l \in 1 .. Len(s) : L(l) = m /\ a[m] = s[l] /\ b[m] = t[l]
    BY <1>5, AlikeKept
  <2> QED
    BY <1>4, <1>12, <2>1, Zenon
<1> HIDE DEF a, b, L
<1>13. TwoSlip(a, b, L(k))
  BY <1>3, <1>4, <1>7, <1>8, <1>9, <1>10, <1>11, <1>12, Zenon DEF TwoSlip
<1>14. {t[l] : l \in Differ(s, t)} = {a[L(k)], a[L(k) + 1]}
  <2>1. {t[l] : l \in {k, j}} = {t[k], t[j]}
    BY Zenon
  <2>2. a[L(k)] = t[j] /\ a[L(k) + 1] = t[k]
    BY <1>3, <1>7, <1>8, <1>9, Zenon
  <2> QED
    BY <1>3, <2>1, <2>2, Zenon
<1> QED
  BY <1>5, <1>13, <1>14, Zenon DEF a, b

----------------------------------------------------------------------------
(* Slips: a number with a slip is not a number. *)

DigitSum(d) == ((2 * d) \div 10) + ((2 * d) % 10)

\* Doubling permutes the digits, and no exchange but that of 0 and 9 cancels out.
LEMMA DigitSums ==
  /\ \A x \in Digit : x \in 0 .. 9 /\ DigitSum(x) \in 0 .. 9
  /\ \A x, y \in Digit : x # y => DigitSum(x) # DigitSum(y)
  /\ \A x, y \in Digit :
        x # y /\ {x, y} # {0, 9} =>
          /\ (DigitSum(y) - DigitSum(x)) + (x - y) \in -9 .. 9
          /\ (DigitSum(y) - DigitSum(x)) + (x - y) # 0
          /\ (y - x) + (DigitSum(x) - DigitSum(y)) \in -9 .. 9
          /\ (y - x) + (DigitSum(x) - DigitSum(y)) # 0
<1>1. \A x \in Digit : x \in 0 .. 9 /\ DigitSum(x) = IF x < 5 THEN 2 * x ELSE 2 * x - 9
  BY DEF Digit, DigitSum
<1> QED
  BY <1>1

LEMMA NotBoth ==
  ASSUME NEW n \in {10, 11}, NEW s \in Int, NEW d \in -9 .. 9, d # 0, s % n = 0
  PROVE  (s + d) % n # 0
<1>1. CASE n = 10
  BY <1>1
<1>2. CASE n = 11
  BY <1>2
<1> QED
  BY <1>1, <1>2

CardValue(n, k, c) == IF (n - k) % 2 = 1 THEN DigitSum(c) ELSE c

LEMMA CardEntry ==
  ASSUME NEW a \in Seq(Chars), NEW k \in 1 .. Len(a)
  PROVE  CardRow(a)[k] = CardValue(Len(a), k, a[k])
  BY Zenon DEF CardRow, DigitSum, CardValue

LEMMA Apart9 == \A u, v \in 0 .. 9 : u # v => v - u \in -9 .. 9 /\ v - u # 0
  OBVIOUS

LEMMA CardOne ==
  ASSUME NEW a \in Seq(Chars), NEW b \in Seq(Chars), NEW m, OneSlip(a, b, m), Valid("card", a)
  PROVE  ~Valid("card", b)
<1>0. Len(a) \in Nat /\ Len(b) = Len(a) /\ m \in 1 .. Len(a)
  BY DEF OneSlip
<1>1. CardRow(a) \in [1 .. Len(a) -> Int] /\ CardRow(b) \in [1 .. Len(a) -> Int]
  BY <1>0, CardRowType
<1>2. a[m] \in Digit /\ b[m] \in Digit /\ a[m] # b[m]
  BY DEF OneSlip
<1>3. \A k \in 1 .. Len(a) : k # m => CardRow(a)[k] = CardRow(b)[k]
  <2> SUFFICES ASSUME NEW k \in 1 .. Len(a), k # m
               PROVE  CardRow(a)[k] = CardRow(b)[k]
    OBVIOUS
  <2>1. a[k] = b[k] /\ k \in 1 .. Len(b)
    BY <1>0 DEF OneSlip
  <2> QED
    BY <1>0, <2>1, CardEntry, Zenon
<1>4. /\ Sum(CardRow(a)) \in Int
      /\ Sum(CardRow(b)) = Sum(CardRow(a)) + (CardRow(b)[m] - CardRow(a)[m])
  BY <1>0, <1>1, <1>3, SumOne
<1>5. PICK d \in -9 .. 9 : d = CardRow(b)[m] - CardRow(a)[m] /\ d # 0
  <2>1. CardRow(a)[m] = CardValue(Len(a), m, a[m]) /\ CardRow(b)[m] = CardValue(Len(a), m, b[m])
    BY <1>0, CardEntry, Zenon
  <2>2. /\ CardRow(a)[m] \in 0 .. 9 /\ CardRow(b)[m] \in 0 .. 9
        /\ CardRow(a)[m] # CardRow(b)[m]
    BY <1>2, <2>1, DigitSums, Zenon DEF CardValue
  <2> QED
    BY <2>2, Apart9, Zenon
<1>6. Sum(CardRow(a)) % 10 = 0
  BY ValidDef
<1>7. (Sum(CardRow(a)) + d) % 10 # 0
  BY <1>4, <1>5, <1>6, NotBoth
<1>8. Sum(CardRow(b)) % 10 # 0
  BY <1>4, <1>5, <1>7, Zenon
<1> QED
  BY <1>8, ValidDef

\* Of two neighbours one is doubled.
LEMMA CardTwo ==
  ASSUME NEW a \in Seq(Chars), NEW b \in Seq(Chars), NEW m, TwoSlip(a, b, m), Valid("card", a),
         {a[m], a[m + 1]} # {0, 9}
  PROVE  ~Valid("card", b)
<1>0. Len(a) \in Nat /\ Len(b) = Len(a) /\ m \in 1 .. Len(a) /\ m + 1 \in 1 .. Len(a)
  BY DEF TwoSlip
<1>1. CardRow(a) \in [1 .. Len(a) -> Int] /\ CardRow(b) \in [1 .. Len(a) -> Int]
  BY <1>0, CardRowType
<1>2. PICK j \in 1 .. Len(a) : j = m + 1 /\ j # m
  BY <1>0
<1>3. /\ a[m] \in Digit /\ a[j] \in Digit /\ a[m] # a[j] /\ b[m] = a[j] /\ b[j] = a[m]
      /\ \A k \in 1 .. Len(a) : k # m /\ k # j => a[k] = b[k]
  BY <1>2, Zenon DEF TwoSlip
<1>4. \A k \in 1 .. Len(a) : k # m /\ k # j => CardRow(a)[k] = CardRow(b)[k]
  <2> SUFFICES ASSUME NEW k \in 1 .. Len(a), k # m, k # j
               PROVE  CardRow(a)[k] = CardRow(b)[k]
    OBVIOUS
  <2>1. a[k] = b[k] /\ k \in 1 .. Len(b)
    BY <1>0, <1>3
  <2> QED
    BY <1>0, <2>1, CardEntry, Zenon
<1>5. /\ Sum(CardRow(a)) \in Int
      /\ Sum(CardRow(b)) = Sum(CardRow(a)) + (CardRow(b)[m] - CardRow(a)[m])
                                           + (CardRow(b)[j] - CardRow(a)[j])
  <2>1. SameBut(Len(a), CardRow(a), CardRow(b), m, j)
    BY <1>4, Zenon DEF SameBut
  <2> QED
    BY <1>0, <1>1, <1>2, <2>1, SumTwo
<1>6. PICK x, y \in Digit : x = a[m] /\ y = a[j] /\ x # y /\ {x, y} # {0, 9}
  BY <1>2, <1>3, Zenon
<1>7. /\ CardRow(a)[m] = CardValue(Len(a), m, x) /\ CardRow(b)[m] = CardValue(Len(a), m, y)
      /\ CardRow(a)[j] = CardValue(Len(a), j, y) /\ CardRow(b)[j] = CardValue(Len(a), j, x)
  <2>1. \A k \in 1 .. Len(a) : /\ CardRow(a)[k] = CardValue(Len(a), k, a[k])
                               /\ CardRow(b)[k] = CardValue(Len(a), k, b[k])
    BY <1>0, CardEntry, Zenon
  <2>2. CardRow(a)[m] = CardValue(Len(a), m, x) /\ CardRow(b)[m] = CardValue(Len(a), m, y)
    BY <1>0, <1>3, <1>6, <2>1, Zenon
  <2>3. CardRow(a)[j] = CardValue(Len(a), j, y) /\ CardRow(b)[j] = CardValue(Len(a), j, x)
    BY <1>3, <1>6, <2>1, Zenon
  <2> QED
    BY <2>2, <2>3, Zenon
<1>8. (Len(a) - j) % 2 = 1 <=> (Len(a) - m) % 2 # 1
  BY <1>0, <1>2
<1>9. /\ (DigitSum(y) - DigitSum(x)) + (x - y) \in -9 .. 9
      /\ (DigitSum(y) - DigitSum(x)) + (x - y) # 0
      /\ (y - x) + (DigitSum(x) - DigitSum(y)) \in -9 .. 9
      /\ (y - x) + (DigitSum(x) - DigitSum(y)) # 0
  BY <1>6, DigitSums, Zenon
<1>10. PICK d \in -9 .. 9 :
          /\ d = (CardRow(b)[m] - CardRow(a)[m]) + (CardRow(b)[j] - CardRow(a)[j]) /\ d # 0
  <2>1. CASE (Len(a) - m) % 2 = 1
    <3>1. /\ CardRow(a)[m] = DigitSum(x) /\ CardRow(b)[m] = DigitSum(y)
          /\ CardRow(a)[j] = y /\ CardRow(b)[j] = x
      BY <1>7, <1>8, <2>1, Zenon DEF CardValue
    <3> QED
      BY <1>9, <3>1, Zenon
  <2>2. CASE (Len(a) - m) % 2 # 1
    <3>1. /\ CardRow(a)[m] = x /\ CardRow(b)[m] = y
          /\ CardRow(a)[j] = DigitSum(y) /\ CardRow(b)[j] = DigitSum(x)
      BY <1>7, <1>8, <2>2, Zenon DEF CardValue
    <3> QED
      BY <1>9, <3>1, Zenon
  <2> QED
    BY <2>1, <2>2
<1>11. Sum(CardRow(a)) % 10 = 0
  BY ValidDef
<1>12. (Sum(CardRow(a)) + d) % 10 # 0
  BY <1>5, <1>10, <1>11, NotBoth
<1>13. Sum(CardRow(b)) = Sum(CardRow(a)) + d
  <2>1. /\ CardRow(b)[m] \in Int /\ CardRow(a)[m] \in Int
        /\ CardRow(b)[j] \in Int /\ CardRow(a)[j] \in Int
    BY <1>0, <1>1
  <2> QED
    BY <1>5, <1>10, <2>1
<1>14. Sum(CardRow(b)) % 10 # 0
  BY <1>12, <1>13, Zenon
<1> QED
  BY <1>14, ValidDef

LEMMA DigitRange == \A x \in Digit : x \in 0 .. 9 /\ x \in Int
  BY DEF Digit

\* Every weight is prime to 10.
PeselOdd(x, y) ==
  \A s, c \in Int : (s + c) % 10 = 0 =>
     /\ \A w \in {1, 3, 7, 9} : ((s + (y * w - x * w)) + c) % 10 # 0
     /\ (s + ((c + y) - x)) % 10 # 0

LEMMA PeselOdds ==
  ASSUME NEW x \in 0 .. 9, NEW y \in 0 .. 9, x # y
  PROVE  PeselOdd(x, y)
<1> SUFFICES ASSUME NEW s \in Int, NEW c \in Int, (s + c) % 10 = 0
             PROVE  /\ \A w \in {1, 3, 7, 9} : ((s + (y * w - x * w)) + c) % 10 # 0
                    /\ (s + ((c + y) - x)) % 10 # 0
  BY Zenon DEF PeselOdd
<1>1. ((s + (y * 1 - x * 1)) + c) % 10 # 0
  OBVIOUS
<1>2. ((s + (y * 3 - x * 3)) + c) % 10 # 0
  OBVIOUS
<1>3. ((s + (y * 7 - x * 7)) + c) % 10 # 0
  OBVIOUS
<1>4. ((s + (y * 9 - x * 9)) + c) % 10 # 0
  OBVIOUS
<1>5. (s + ((c + y) - x)) % 10 # 0
  OBVIOUS
<1> QED
  BY <1>1, <1>2, <1>3, <1>4, <1>5, Zenon

\* Every weight is prime to 11.
NipOdd(x, y) ==
  \A s, c \in Int : (s - c) % 11 = 0 =>
     /\ \A w \in {2, 3, 4, 5, 6, 7} : ((s + (y * w - x * w)) - c) % 11 # 0
     /\ (s - ((c + y) - x)) % 11 # 0

LEMMA NipOdds ==
  ASSUME NEW x \in 0 .. 9, NEW y \in 0 .. 9, x # y
  PROVE  NipOdd(x, y)
<1> SUFFICES ASSUME NEW s \in Int, NEW c \in Int, (s - c) % 11 = 0
             PROVE  /\ \A w \in {2, 3, 4, 5, 6, 7} : ((s + (y * w - x * w)) - c) % 11 # 0
                    /\ (s - ((c + y) - x)) % 11 # 0
  BY Zenon DEF NipOdd
<1>1. ((s + (y * 2 - x * 2)) - c) % 11 # 0
  OBVIOUS
<1>2. ((s + (y * 3 - x * 3)) - c) % 11 # 0
  OBVIOUS
<1>3. ((s + (y * 4 - x * 4)) - c) % 11 # 0
  OBVIOUS
<1>4. ((s + (y * 5 - x * 5)) - c) % 11 # 0
  OBVIOUS
<1>5. ((s + (y * 6 - x * 6)) - c) % 11 # 0
  OBVIOUS
<1>6. ((s + (y * 7 - x * 7)) - c) % 11 # 0
  OBVIOUS
<1>7. (s - ((c + y) - x)) % 11 # 0
  OBVIOUS
<1> QED
  BY <1>1, <1>2, <1>3, <1>4, <1>5, <1>6, <1>7, Zenon

\* A slip at a weighted digit, or at the check digit.
LEMMA PeselOne ==
  ASSUME NEW a \in Seq(Chars), NEW b \in Seq(Chars), NEW m, OneSlip(a, b, m), Valid("pesel", a),
         Len(a) = 11
  PROVE  ~Valid("pesel", b)
<1>0. Len(b) = 11 /\ m \in 1 .. 11
  BY DEF OneSlip
<1>1. /\ PeselRow(a) \in [1 .. 10 -> Int] /\ a[11] \in Int
      /\ PeselRow(b) \in [1 .. 10 -> Int] /\ b[11] \in Int
  BY <1>0, PeselRowType
<1>2. /\ a[m] \in Digit /\ b[m] \in Digit /\ a[m] # b[m]
      /\ \A k \in 1 .. 11 : k # m => a[k] = b[k]
  BY DEF OneSlip
<1>3. PICK x, y \in 0 .. 9 : x = a[m] /\ y = b[m] /\ x # y
  BY <1>2, DigitRange, Zenon
<1>4. /\ \A k \in 1 .. 10 : PeselRow(a)[k] = a[k] * PeselWeights[k]
      /\ \A k \in 1 .. 10 : PeselRow(b)[k] = b[k] * PeselWeights[k]
  BY Zenon DEF PeselRow
<1>5. (Sum(PeselRow(a)) + a[11]) % 10 = 0
  BY ValidDef
<1>6. Sum(PeselRow(a)) \in Int /\ 10 \in Nat
  <2>1. 10 \in Nat
    OBVIOUS
  <2> QED
    BY <1>1, <2>1, SumInt
<1>7. \A k \in 1 .. 10 : k \in 1 .. 11
  OBVIOUS
<1>8. CASE m \in 1 .. 10
  <2>1. PeselWeights[m] \in {1, 3, 7, 9}
    BY <1>8 DEF PeselWeights
  <2>2. \A k \in 1 .. 10 : k # m => PeselRow(a)[k] = PeselRow(b)[k]
    BY <1>2, <1>4, <1>7, Zenon
  <2>3. Sum(PeselRow(b)) = Sum(PeselRow(a)) + (PeselRow(b)[m] - PeselRow(a)[m])
    BY <1>1, <1>6, <1>8, <2>2, SumOne
  <2>4. PeselRow(b)[m] = y * PeselWeights[m] /\ PeselRow(a)[m] = x * PeselWeights[m]
    BY <1>3, <1>4, <1>8, Zenon
  <2>5. a[11] = b[11]
    <3>1. 11 \in 1 .. 11 /\ 11 # m
      BY <1>8
    <3> QED
      BY <1>2, <3>1, Zenon
  <2>6. ((Sum(PeselRow(a)) + (y * PeselWeights[m] - x * PeselWeights[m])) + a[11]) % 10 # 0
    <3>1. PeselOdd(x, y)
      BY <1>3, PeselOdds
    <3> QED
      BY <1>1, <1>5, <1>6, <2>1, <3>1, Zenon DEF PeselOdd
  <2>7. (Sum(PeselRow(b)) + b[11]) % 10 # 0
    BY <2>3, <2>4, <2>5, <2>6, Zenon
  <2> QED
    BY <2>7, ValidDef
<1>9. CASE m = 11
  <2>1. \A k \in 1 .. 10 : k # m
    BY <1>9
  <2>2. \A k \in 1 .. 10 : a[k] = b[k]
    BY <1>2, <1>7, <2>1, Zenon
  <2>3. PeselRow(a) = PeselRow(b)
    BY <2>2, Zenon DEF PeselRow
  <2>4. (Sum(PeselRow(a)) + ((a[11] + y) - x)) % 10 # 0
    <3>1. PeselOdd(x, y)
      BY <1>3, PeselOdds
    <3> QED
      BY <1>1, <1>5, <1>6, <3>1, Zenon DEF PeselOdd
  <2>5. (a[11] + y) - x = b[11]
    <3>1. a[11] = x /\ b[11] = y
      BY <1>3, <1>9, Zenon
    <3> QED
      BY <3>1
  <2>6. (Sum(PeselRow(b)) + b[11]) % 10 # 0
    BY <2>3, <2>4, <2>5, Zenon
  <2> QED
    BY <2>6, ValidDef
<1> QED
  BY <1>0, <1>8, <1>9

LEMMA NipOne ==
  ASSUME NEW a \in Seq(Chars), NEW b \in Seq(Chars), NEW m, OneSlip(a, b, m), Valid("nip", a),
         Len(a) = 10
  PROVE  ~Valid("nip", b)
<1>0. Len(b) = 10 /\ m \in 1 .. 10
  BY DEF OneSlip
<1>1. /\ NipRow(a) \in [1 .. 9 -> Int] /\ a[10] \in Int
      /\ NipRow(b) \in [1 .. 9 -> Int] /\ b[10] \in Int
  BY <1>0, NipRowType
<1>2. /\ a[m] \in Digit /\ b[m] \in Digit /\ a[m] # b[m]
      /\ \A k \in 1 .. 10 : k # m => a[k] = b[k]
  BY DEF OneSlip
<1>3. PICK x, y \in 0 .. 9 : x = a[m] /\ y = b[m] /\ x # y
  BY <1>2, DigitRange, Zenon
<1>4. /\ \A k \in 1 .. 9 : NipRow(a)[k] = a[k] * NipWeights[k]
      /\ \A k \in 1 .. 9 : NipRow(b)[k] = b[k] * NipWeights[k]
  BY Zenon DEF NipRow
<1>5. (Sum(NipRow(a)) - a[10]) % 11 = 0
  BY ValidDef
<1>6. Sum(NipRow(a)) \in Int /\ 9 \in Nat
  <2>1. 9 \in Nat
    OBVIOUS
  <2> QED
    BY <1>1, <2>1, SumInt
<1>7. \A k \in 1 .. 9 : k \in 1 .. 10
  OBVIOUS
<1>8. CASE m \in 1 .. 9
  <2>1. NipWeights[m] \in {2, 3, 4, 5, 6, 7}
    BY <1>8 DEF NipWeights
  <2>2. \A k \in 1 .. 9 : k # m => NipRow(a)[k] = NipRow(b)[k]
    BY <1>2, <1>4, <1>7, Zenon
  <2>3. Sum(NipRow(b)) = Sum(NipRow(a)) + (NipRow(b)[m] - NipRow(a)[m])
    BY <1>1, <1>6, <1>8, <2>2, SumOne
  <2>4. NipRow(b)[m] = y * NipWeights[m] /\ NipRow(a)[m] = x * NipWeights[m]
    BY <1>3, <1>4, <1>8, Zenon
  <2>5. a[10] = b[10]
    <3>1. 10 \in 1 .. 10 /\ 10 # m
      BY <1>8
    <3> QED
      BY <1>2, <3>1, Zenon
  <2>6. ((Sum(NipRow(a)) + (y * NipWeights[m] - x * NipWeights[m])) - a[10]) % 11 # 0
    <3>1. NipOdd(x, y)
      BY <1>3, NipOdds
    <3> QED
      BY <1>1, <1>5, <1>6, <2>1, <3>1, Zenon DEF NipOdd
  <2>7. (Sum(NipRow(b)) - b[10]) % 11 # 0
    BY <2>3, <2>4, <2>5, <2>6, Zenon
  <2> QED
    BY <2>7, ValidDef
<1>9. CASE m = 10
  <2>1. \A k \in 1 .. 9 : k # m
    BY <1>9
  <2>2. \A k \in 1 .. 9 : a[k] = b[k]
    BY <1>2, <1>7, <2>1, Zenon
  <2>3. NipRow(a) = NipRow(b)
    BY <2>2, Zenon DEF NipRow
  <2>4. (Sum(NipRow(a)) - ((a[10] + y) - x)) % 11 # 0
    <3>1. NipOdd(x, y)
      BY <1>3, NipOdds
    <3> QED
      BY <1>1, <1>5, <1>6, <3>1, Zenon DEF NipOdd
  <2>5. (a[10] + y) - x = b[10]
    <3>1. a[10] = x /\ b[10] = y
      BY <1>3, <1>9, Zenon
    <3> QED
      BY <3>1
  <2>6. (Sum(NipRow(b)) - b[10]) % 11 # 0
    BY <2>3, <2>4, <2>5, Zenon
  <2> QED
    BY <2>6, ValidDef
<1> QED
  BY <1>0, <1>8, <1>9

\* Weights of neighbours differ, and so does the last from that of the check digit.
NipSwapOdd(x, y, w, v) ==
  \A s, c \in Int : (s - c) % 11 = 0 => ((s + (y * w - x * w) + (x * v - y * v)) - c) % 11 # 0

LEMMA NipSwaps ==
  ASSUME NEW x \in 0 .. 9, NEW y \in 0 .. 9, x # y,
         NEW m \in 1 .. 8, NEW w \in Int, NEW v \in Int, w = NipWeights[m], v = NipWeights[m + 1]
  PROVE  NipSwapOdd(x, y, w, v)
<1> SUFFICES ASSUME NEW s \in Int, NEW c \in Int, (s - c) % 11 = 0
             PROVE  ((s + (y * w - x * w) + (x * v - y * v)) - c) % 11 # 0
  BY DEF NipSwapOdd
<1>1. \/ w = 6 /\ v = 5
      \/ w = 5 /\ v = 7
      \/ w = 7 /\ v = 2
      \/ w = 2 /\ v = 3
      \/ w = 3 /\ v = 4
      \/ w = 4 /\ v = 5
      \/ w = 5 /\ v = 6
      \/ w = 6 /\ v = 7
  BY DEF NipWeights
<1>2. ASSUME w - v \in {1, -1}
      PROVE  ((s + (y * w - x * w) + (x * v - y * v)) - c) % 11 # 0
  <2>1. (y * w - x * w) + (x * v - y * v) = (y - x) * (w - v)
    OBVIOUS
  <2>2. (y - x) * (w - v) = y - x \/ (y - x) * (w - v) = x - y
    BY <1>2
  <2>3. s + (y * w - x * w) + (x * v - y * v) = s + ((y * w - x * w) + (x * v - y * v))
    OBVIOUS
  <2>4. ((s + (y - x)) - c) % 11 # 0 /\ ((s + (x - y)) - c) % 11 # 0
    OBVIOUS
  <2> QED
    BY <2>1, <2>2, <2>3, <2>4, Zenon
<1>3. CASE w = 5 /\ v = 7
  BY <1>3
<1>4. CASE w = 7 /\ v = 2
  BY <1>4
<1> QED
  BY <1>1, <1>2, <1>3, <1>4

LEMMA NipLast ==
  ASSUME NEW x \in 0 .. 9, NEW y \in 0 .. 9, x # y
  PROVE  \A s \in Int : (s - y) % 11 = 0 => ((s + (y * 7 - x * 7)) - x) % 11 # 0
<1> SUFFICES ASSUME NEW s \in Int, (s - y) % 11 = 0
             PROVE  ((s + (y * 7 - x * 7)) - x) % 11 # 0
  OBVIOUS
<1>1. PICK d \in -9 .. 9 : d = y - x /\ d # 0
  OBVIOUS
<1>2. (s + (y * 7 - x * 7)) - x = (s - y) + 8 * d
  BY <1>1
<1>3. PICK t \in Int : t = s - y /\ t % 11 = 0
  OBVIOUS
<1>4. (t + 8 * d) % 11 # 0
  BY <1>1, <1>3
<1> QED
  BY <1>2, <1>3, <1>4

\* Two weighted digits, or the last one and the check digit.
LEMMA NipTwo ==
  ASSUME NEW a \in Seq(Chars), NEW b \in Seq(Chars), NEW m, TwoSlip(a, b, m), Valid("nip", a),
         Len(a) = 10
  PROVE  ~Valid("nip", b)
<1>0. Len(b) = 10 /\ m \in 1 .. 10 /\ m + 1 \in 1 .. 10
  BY DEF TwoSlip
<1>1. /\ NipRow(a) \in [1 .. 9 -> Int] /\ a[10] \in Int
      /\ NipRow(b) \in [1 .. 9 -> Int] /\ b[10] \in Int
  BY <1>0, NipRowType
<1>2. PICK j \in 1 .. 10 : j = m + 1 /\ j # m
  BY <1>0
<1>3. /\ a[m] \in Digit /\ a[j] \in Digit /\ a[m] # a[j] /\ b[m] = a[j] /\ b[j] = a[m]
      /\ \A k \in 1 .. 10 : k # m /\ k # j => a[k] = b[k]
  BY <1>2, Zenon DEF TwoSlip
<1>4. PICK x, y \in 0 .. 9 : x = a[m] /\ y = a[j] /\ x # y
  BY <1>3, DigitRange, Zenon
<1>5. /\ \A k \in 1 .. 9 : NipRow(a)[k] = a[k] * NipWeights[k]
      /\ \A k \in 1 .. 9 : NipRow(b)[k] = b[k] * NipWeights[k]
  BY Zenon DEF NipRow
<1>6. (Sum(NipRow(a)) - a[10]) % 11 = 0
  BY ValidDef
<1>7. Sum(NipRow(a)) \in Int /\ 9 \in Nat
  <2>1. 9 \in Nat
    OBVIOUS
  <2> QED
    BY <1>1, <2>1, SumInt
<1>8. \A k \in 1 .. 9 : k \in 1 .. 10
  OBVIOUS
<1>9. CASE m \in 1 .. 8
  <2>1. m \in 1 .. 9 /\ j \in 1 .. 9 /\ 10 # m /\ 10 # j /\ 10 \in 1 .. 10
    BY <1>2, <1>9
  <2>2. \A k \in 1 .. 9 : k # m /\ k # j => NipRow(a)[k] = NipRow(b)[k]
    BY <1>3, <1>5, <1>8, Zenon
  <2>3. Sum(NipRow(b)) = Sum(NipRow(a)) + (NipRow(b)[m] - NipRow(a)[m])
                                        + (NipRow(b)[j] - NipRow(a)[j])
    <3>1. SameBut(9, NipRow(a), NipRow(b), m, j)
      BY <2>2, Zenon DEF SameBut
    <3> QED
      BY <1>1, <1>2, <1>7, <2>1, <3>1, SumTwo
  <2>4. PICK w, v \in Int : w = NipWeights[m] /\ v = NipWeights[j]
    <3>1. \A k \in 1 .. 9 : NipWeights[k] \in Int
      BY DEF NipWeights
    <3> QED
      BY <2>1, <3>1, Zenon
  <2>5. /\ NipRow(b)[m] = y * w /\ NipRow(a)[m] = x * w
        /\ NipRow(b)[j] = x * v /\ NipRow(a)[j] = y * v
    BY <1>3, <1>4, <1>5, <2>1, <2>4, Zenon
  <2>6. a[10] = b[10]
    BY <1>3, <2>1, Zenon
  <2>7. v = NipWeights[m + 1]
    BY <1>2, <2>4, Zenon
  <2>8. ((Sum(NipRow(a)) + (y * w - x * w) + (x * v - y * v)) - a[10]) % 11 # 0
    <3>1. NipSwapOdd(x, y, w, v)
      BY <1>4, <1>9, <2>4, <2>7, NipSwaps
    <3> QED
      BY <1>1, <1>6, <1>7, <3>1, Zenon DEF NipSwapOdd
  <2>9. (Sum(NipRow(b)) - b[10]) % 11 # 0
    BY <2>3, <2>5, <2>6, <2>8, Zenon
  <2> QED
    BY <2>9, ValidDef
<1>10. CASE m = 9
  <2>1. j = 10 /\ m \in 1 .. 9 /\ \A k \in 1 .. 9 : k # j
    BY <1>2, <1>10
  <2>2. \A k \in 1 .. 9 : k # m => NipRow(a)[k] = NipRow(b)[k]
    <3> SUFFICES ASSUME NEW k \in 1 .. 9, k # m
                 PROVE  NipRow(a)[k] = NipRow(b)[k]
      OBVIOUS
    <3>1. a[k] = b[k]
      BY <1>3, <1>8, <2>1
    <3> QED
      BY <1>5, <3>1, Zenon
  <2>3. Sum(NipRow(b)) = Sum(NipRow(a)) + (NipRow(b)[m] - NipRow(a)[m])
    BY <1>1, <1>7, <2>1, <2>2, SumOne
  <2>4. NipWeights[9] = 7
    BY DEF NipWeights
  <2>5. NipRow(b)[m] = y * 7 /\ NipRow(a)[m] = x * 7
    BY <1>3, <1>4, <1>5, <1>10, <2>1, <2>4, Zenon
  <2>6. a[10] = y /\ b[10] = x
    BY <1>3, <1>4, <2>1, Zenon
  <2>7. \A s \in Int : (s - y) % 11 = 0 => ((s + (y * 7 - x * 7)) - x) % 11 # 0
    BY <1>4, NipLast
  <2>8. ((Sum(NipRow(a)) + (y * 7 - x * 7)) - x) % 11 # 0
    BY <1>6, <1>7, <2>6, <2>7, Zenon
  <2>9. (Sum(NipRow(b)) - b[10]) % 11 # 0
    BY <2>3, <2>5, <2>6, <2>8, Zenon
  <2> QED
    BY <2>9, ValidDef
<1> QED
  BY <1>0, <1>9, <1>10

----------------------------------------------------------------------------
(* Slips in an IBAN: 97 is prime, and 10 has order 96 modulo 97. *)

\* 97 divides no product of a digit difference and a place value.
LEMMA NoMultiple ==
  ASSUME NEW d \in -9 .. 9, d # 0, NEW p \in 1 .. 96
  PROVE  ~Multiple(d * p)
<1> SUFFICES ASSUME NEW q \in Int, d * p = 97 * q
             PROVE  FALSE
  BY DEF Multiple
<1>1. CASE d \in {1, -1}
  BY <1>1
<1>2. CASE d \in {2, -2}
  BY <1>2
<1>3. CASE d \in {3, -3}
  BY <1>3
<1>4. CASE d \in {4, -4}
  BY <1>4
<1>5. CASE d \in {5, -5}
  BY <1>5
<1>6. CASE d \in {6, -6}
  BY <1>6
<1>7. CASE d \in {7, -7}
  BY <1>7
<1>8. CASE d \in {8, -8}
  BY <1>8
<1>9. CASE d \in {9, -9}
  BY <1>9
<1> QED
  BY <1>1, <1>2, <1>3, <1>4, <1>5, <1>6, <1>7, <1>8, <1>9

LEMMA SameRemainder ==
  ASSUME NEW s \in Int, NEW d \in Int, s % 97 = 1, (s + d) % 97 = 1
  PROVE  Multiple(d)
<1>1. \A x \in Int : x \div 97 \in Int /\ x = 97 * (x \div 97) + (x % 97)
  OBVIOUS
<1>2. PICK x \in Int : s = 97 * x + 1
  BY <1>1
<1>3. PICK y \in Int : s + d = 97 * y + 1
  <2>1. s + d \in Int
    OBVIOUS
  <2>2. (s + d) \div 97 \in Int /\ s + d = 97 * ((s + d) \div 97) + 1
    BY <1>1, <2>1
  <2> QED
    BY <2>2, Zenon
<1>4. d = 97 * (y - x) /\ y - x \in Int
  BY <1>2, <1>3
<1> QED
  BY <1>4 DEF Multiple

\* Two neighbours exchanged: the place of the left one is worth ten of the right.
LEMMA NoMultipleOfNine ==
  ASSUME NEW d \in -9 .. 9, d # 0, NEW p \in 1 .. 96
  PROVE  ~Multiple(d * ((p * 10) % 97) - d * p)
<1> SUFFICES ASSUME NEW q \in Int, d * ((p * 10) % 97) - d * p = 97 * q
             PROVE  FALSE
  BY DEF Multiple
<1>1. PICK t \in Int : (p * 10) % 97 = p * 10 - 97 * t
  <2>1. (p * 10) \div 97 \in Int /\ (p * 10) % 97 = p * 10 - 97 * ((p * 10) \div 97)
    OBVIOUS
  <2> QED
    BY <2>1, Zenon
<1>2. PICK e \in Int : e = d * p
  OBVIOUS
<1>3. PICK f \in Int : f = d * t
  OBVIOUS
<1>4. d * (p * 10 - 97 * t) = 10 * e - 97 * f
  BY <1>2, <1>3
<1>5. 9 * e = 97 * (q + f)
  BY <1>1, <1>2, <1>4
<1>6. \A x \in Int : 9 * e = 97 * x => e = 97 * (x \div 9) /\ x \div 9 \in Int
  OBVIOUS
<1>7. Multiple(e)
  <2>1. q + f \in Int
    OBVIOUS
  <2> QED
    BY <1>5, <1>6, <2>1 DEF Multiple
<1> QED
  BY <1>2, <1>7, NoMultiple

IsPowers(f) ==
  f \in [0 .. 66 -> 1 .. 96] /\ f[0] = 1 /\ \A k \in 1 .. 66 : f[k] = (f[k - 1] * 10) % 97

\* The powers of ten modulo 97, as far as 34 characters reach.
LEMMA Powers == \E f : IsPowers(f)
<1> DEFINE times == [r \in 1 .. 96 |-> (r * 10) % 97]
           step == [k \in 1 .. 66 |-> times]
<1>1. times \in [1 .. 96 -> 1 .. 96]
  <2>1. \A r \in 1 .. 96 : (r * 10) % 97 \in 1 .. 96
    OBVIOUS
  <2> QED
    BY <2>1
<1>2. PICK f \in [0 .. 66 -> 1 .. 96] : f[0] = 1 /\ \A k \in 1 .. 66 : f[k] = step[k][f[k - 1]]
  <2>1. 66 \in Nat /\ 1 \in 1 .. 96 /\ step \in [1 .. 66 -> [1 .. 96 -> 1 .. 96]]
    BY <1>1
  <2> HIDE DEF step
  <2>2. Solvable(1 .. 96, 1, 66, step)
    BY <2>1, Recursion, Zenon
  <2> QED
    BY <2>2 DEF Solvable
<1>3. ASSUME NEW k \in 1 .. 66
      PROVE  f[k] = (f[k - 1] * 10) % 97
  <2>1. f[k - 1] \in 1 .. 96
    OBVIOUS
  <2>2. step[k][f[k - 1]] = (f[k - 1] * 10) % 97
    BY <2>1
  <2> QED
    BY <1>2, <2>2
<1> QED
  BY <1>2, <1>3 DEF IsPowers

LEMMA PowersNotOne ==
  ASSUME NEW f, IsPowers(f)
  PROVE  \A k \in 1 .. 66 : f[k] # 1
<1>0. f[0] = 1 /\ \A k \in 1 .. 66 : f[k] = (f[k - 1] * 10) % 97
  BY DEF IsPowers
<1>1. f[1] = 10 /\ f[2] = 3 /\ f[3] = 30 /\ f[4] = 9 /\ f[5] = 90 /\ f[6] = 27
  BY <1>0
<1>2. f[7] = 76 /\ f[8] = 81 /\ f[9] = 34 /\ f[10] = 49 /\ f[11] = 5 /\ f[12] = 50
  BY <1>0, <1>1
<1>3. f[13] = 15 /\ f[14] = 53 /\ f[15] = 45 /\ f[16] = 62 /\ f[17] = 38 /\ f[18] = 89
  BY <1>0, <1>2
<1>4. f[19] = 17 /\ f[20] = 73 /\ f[21] = 51 /\ f[22] = 25 /\ f[23] = 56 /\ f[24] = 75
  BY <1>0, <1>3
<1>5. f[25] = 71 /\ f[26] = 31 /\ f[27] = 19 /\ f[28] = 93 /\ f[29] = 57 /\ f[30] = 85
  BY <1>0, <1>4
<1>6. f[31] = 74 /\ f[32] = 61 /\ f[33] = 28 /\ f[34] = 86 /\ f[35] = 84 /\ f[36] = 64
  BY <1>0, <1>5
<1>7. f[37] = 58 /\ f[38] = 95 /\ f[39] = 77 /\ f[40] = 91 /\ f[41] = 37 /\ f[42] = 79
  BY <1>0, <1>6
<1>8. f[43] = 14 /\ f[44] = 43 /\ f[45] = 42 /\ f[46] = 32 /\ f[47] = 29 /\ f[48] = 96
  BY <1>0, <1>7
<1>9. f[49] = 87 /\ f[50] = 94 /\ f[51] = 67 /\ f[52] = 88 /\ f[53] = 7 /\ f[54] = 70
  BY <1>0, <1>8
<1>10. f[55] = 21 /\ f[56] = 16 /\ f[57] = 63 /\ f[58] = 48 /\ f[59] = 92 /\ f[60] = 47
  BY <1>0, <1>9
<1>11. f[61] = 82 /\ f[62] = 44 /\ f[63] = 52 /\ f[64] = 35 /\ f[65] = 59 /\ f[66] = 8
  BY <1>0, <1>10
<1> QED
  BY <1>1, <1>2, <1>3, <1>4, <1>5, <1>6, <1>7, <1>8, <1>9, <1>10, <1>11

\* A place value is a power of ten: one for a digit to its right, two for a letter.
PlacesArePowers(w, f) ==
    \A k \in 0 .. Len(w) : k <= 33 => \E e \in k .. 2 * k : PlaceValues(w)[k] = f[e]

LEMMA PlaceIsPower ==
  ASSUME NEW f, IsPowers(f), NEW w \in Seq(Chars), Len(w) <= 34
  PROVE  PlacesArePowers(w, f)
<1> DEFINE n == Len(w)
           P == PlaceValues(w)
           Good(k) == k <= 33 => \E e \in k .. 2 * k : P[k] = f[e]
           S == {k \in 0 .. n : Good(k)}
<1>0. n \in Nat /\ n <= 34
  OBVIOUS
<1>1. f[0] = 1 /\ \A k \in 1 .. 66 : f[k] = (f[k - 1] * 10) % 97
  BY DEF IsPowers
<1>2. P[0] = 1 /\ \A k \in 1 .. n : P[k] = (P[k - 1] * 10) % 97 \/ P[k] = (P[k - 1] * 100) % 97
  <2>1. /\ P[0] = 1
        /\ \A k \in 1 .. n : P[k] = IF w[(n + 1) - k] \in Digit THEN (P[k - 1] * 10) % 97
                                    ELSE (P[k - 1] * 100) % 97
    BY PlaceValuesDef, Zenon
  <2> HIDE DEF n, P
  <2> QED
    BY <2>1, Zenon
<1>3. \A k \in 0 .. n : P[k] \in 1 .. 96
  BY PlaceValuesDef
<1> HIDE DEF n, P
<1>4. Good(0)
  <2>1. 0 \in 0 .. 2 * 0 /\ P[0] = f[0]
    BY <1>1, <1>2
  <2> QED
    BY <2>1, Zenon
<1>5. ASSUME NEW k \in 0 .. n - 1, Good(k)
      PROVE  Good(k + 1)
  <2> SUFFICES ASSUME k + 1 <= 33
               PROVE  \E e \in k + 1 .. 2 * (k + 1) : P[k + 1] = f[e]
    OBVIOUS
  <2>1. PICK e \in k .. 2 * k : P[k] = f[e]
    BY <1>0, <1>5
  <2>2. PICK j \in 1 .. n : j = k + 1 /\ j - 1 = k
    BY <1>0
  <2>3. PICK g \in 1 .. 66 : g = e + 1 /\ g - 1 = e
    BY <1>0
  <2>4. f[g] = (P[k] * 10) % 97
    BY <1>1, <2>1, <2>3
  <2>5. P[k] \in Int
    <3>1. k \in 0 .. n /\ \A r \in 1 .. 96 : r \in Int
      BY <1>0
    <3> QED
      BY <1>3, <3>1, Zenon
  <2>6. CASE P[j] = (P[k] * 10) % 97
    BY <1>0, <2>2, <2>3, <2>4, <2>6
  <2>7. CASE P[j] = (P[k] * 100) % 97
    <3>1. PICK h \in 1 .. 66 : h = e + 2 /\ h - 1 = g
      BY <1>0, <2>3
    <3>2. f[h] = (f[g] * 10) % 97
      BY <1>1, <3>1
    <3>3. \A r \in Int : (((r * 10) % 97) * 10) % 97 = (r * 100) % 97
      OBVIOUS
    <3>4. f[h] = (P[k] * 100) % 97
      <4>1. f[h] = (((P[k] * 10) % 97) * 10) % 97
        BY <2>4, <3>2, Zenon
      <4> QED
        BY <2>5, <3>3, <4>1, Zenon
    <3>5. h \in k + 1 .. 2 * (k + 1)
      BY <1>0, <3>1
    <3> QED
      BY <2>2, <2>7, <3>4, <3>5
  <2> QED
    BY <1>2, <2>2, <2>6, <2>7
<1> HIDE DEF Good
<1>6. 0 .. n \subseteq S
  <2>1. 0 \in S /\ \A k \in 0 .. n - 1 : k \in S => k + 1 \in S
    BY <1>0, <1>4, <1>5
  <2> HIDE DEF S
  <2> QED
    BY <1>0, <2>1, InductionTo
<1>7. \A k \in 0 .. n : Good(k)
  BY <1>6
<1> QED
  BY <1>7 DEF Good, P, n, PlacesArePowers

\* The first place is not worth one.
LEMMA PlaceNotOne ==
  ASSUME NEW w \in Seq(Chars), Len(w) \in 2 .. 34
  PROVE  PlaceValues(w)[Len(w) - 1] # 1
<1>1. PICK f : IsPowers(f)
  BY Powers
<1>2. PICK k \in 1 .. 33 : k = Len(w) - 1 /\ k \in 0 .. Len(w) /\ k <= 33
  <2>1. \A n \in 2 .. 34 : n - 1 \in 1 .. 33 /\ n - 1 \in 0 .. n /\ n - 1 <= 33
    OBVIOUS
  <2> QED
    BY <2>1, Zenon
<1>3. PICK e \in k .. 2 * k : PlaceValues(w)[k] = f[e]
  <2>1. Len(w) <= 34
    <3>1. \A n \in 2 .. 34 : n <= 34
      OBVIOUS
    <3> QED
      BY <3>1, Zenon
  <2>2. PlacesArePowers(w, f)
    BY <1>1, <2>1, PlaceIsPower
  <2> QED
    BY <1>2, <2>2, Zenon DEF PlacesArePowers
<1>4. e \in 1 .. 66
  OBVIOUS
<1>5. f[e] # 1
  BY <1>1, <1>4, PowersNotOne
<1> QED
  BY <1>2, <1>3, <1>5

\* Place values depend on where the letters are only.
LEMMA PlaceSame ==
  ASSUME NEW u \in Seq(Chars), NEW v \in Seq(Chars), Len(u) = Len(v),
         \A k \in 1 .. Len(u) : u[k] \in Digit <=> v[k] \in Digit
  PROVE  \A k \in 0 .. Len(u) : PlaceValues(u)[k] = PlaceValues(v)[k]
<1> DEFINE n == Len(u)
           P == PlaceValues(u)
           Q == PlaceValues(v)
           S == {k \in 0 .. n : P[k] = Q[k]}
<1>0. n \in Nat
  OBVIOUS
<1>1. /\ P[0] = 1
      /\ \A k \in 1 .. n : P[k] = IF u[(n + 1) - k] \in Digit THEN (P[k - 1] * 10) % 97
                                  ELSE (P[k - 1] * 100) % 97
  BY PlaceValuesDef, Zenon
<1>2. /\ Q[0] = 1
      /\ \A k \in 1 .. n : Q[k] = IF v[(n + 1) - k] \in Digit THEN (Q[k - 1] * 10) % 97
                                  ELSE (Q[k - 1] * 100) % 97
  BY PlaceValuesDef, Zenon
<1>3. \A k \in 1 .. n : (n + 1) - k \in 1 .. n
  BY <1>0
<1>4. \A k \in 1 .. n : u[(n + 1) - k] \in Digit <=> v[(n + 1) - k] \in Digit
  BY <1>3, Zenon
<1> HIDE DEF P, Q, n
<1>5. ASSUME NEW k \in 1 .. n, P[k - 1] = Q[k - 1]
      PROVE  P[k] = Q[k]
  <2>1. CASE u[(n + 1) - k] \in Digit
    <3>1. P[k] = (P[k - 1] * 10) % 97
      BY <1>1, <2>1, Zenon
    <3>2. Q[k] = (Q[k - 1] * 10) % 97
      BY <1>2, <1>4, <2>1, Zenon
    <3> QED
      BY <1>5, <3>1, <3>2, Zenon
  <2>2. CASE u[(n + 1) - k] \notin Digit
    <3>1. P[k] = (P[k - 1] * 100) % 97
      BY <1>1, <2>2, Zenon
    <3>2. Q[k] = (Q[k - 1] * 100) % 97
      BY <1>2, <1>4, <2>2, Zenon
    <3> QED
      BY <1>5, <3>1, <3>2, Zenon
  <2> QED
    BY <2>1, <2>2
<1>6. 0 \in S
  BY <1>0, <1>1, <1>2
<1>7. ASSUME NEW k \in 0 .. n - 1, k \in S
      PROVE  k + 1 \in S
  <2>1. PICK j \in 1 .. n : j = k + 1 /\ j - 1 = k
    BY <1>0
  <2>2. P[j] = Q[j]
    <3>1. P[j - 1] = Q[j - 1]
      BY <1>7, <2>1
    <3> QED
      BY <1>5, <3>1, Zenon
  <2> QED
    BY <1>0, <2>1, <2>2
<1>8. 0 .. n \subseteq S
  <2> HIDE DEF S
  <2> QED
    BY <1>0, <1>6, <1>7, InductionTo
<1>9. \A k \in 0 .. n : P[k] = Q[k]
  BY <1>8
<1> QED
  BY <1>9 DEF P, Q, n

\* Two digits of u exchanged, at any places.
Exchanged(u, v, i, j) ==
    /\ Len(u) = Len(v) /\ i \in 1 .. Len(u) /\ j \in 1 .. Len(u) /\ i # j
    /\ u[i] \in Digit /\ u[j] \in Digit /\ u[i] # u[j]
    /\ v[i] = u[j] /\ v[j] = u[i]
    /\ \A k \in 1 .. Len(u) : k # i /\ k # j => u[k] = v[k]

\* Where iban_check finds the k-th of n characters.
MovedTo(n, k) == IF k <= 4 THEN (n - 4) + k ELSE k - 4

LEMMA Moves ==
  ASSUME NEW n \in Nat, 4 <= n
  PROVE  /\ \A k \in 1 .. n : MovedTo(n, k) \in 1 .. n
         /\ \A k, l \in 1 .. n : MovedTo(n, k) = MovedTo(n, l) => k = l
         /\ \A r \in 1 .. n : \E k \in 1 .. n : r = MovedTo(n, k)
<1>1. \A k \in 1 .. n : MovedTo(n, k) \in 1 .. n
  BY DEF MovedTo
<1>2. \A k, l \in 1 .. n : MovedTo(n, k) = MovedTo(n, l) => k = l
  BY DEF MovedTo
<1>3. ASSUME NEW r \in 1 .. n
      PROVE  \E k \in 1 .. n : r = MovedTo(n, k)
  <2>1. CASE r <= n - 4
    <3>1. r + 4 \in 1 .. n /\ r = MovedTo(n, r + 4)
      BY <2>1 DEF MovedTo
    <3> QED
      BY <3>1
  <2>2. CASE r > n - 4
    <3>1. r - (n - 4) \in 1 .. n /\ r = MovedTo(n, r - (n - 4))
      BY <2>2 DEF MovedTo
    <3> QED
      BY <3>1
  <2> QED
    BY <2>1, <2>2
<1> QED
  BY <1>1, <1>2, <1>3

LEMMA MovedChar ==
  ASSUME NEW a \in Seq(Chars), 4 <= Len(a), NEW k \in 1 .. Len(a)
  PROVE  Rearranged(a)[MovedTo(Len(a), k)] = a[k]
<1>0. Len(a) \in Nat
  OBVIOUS
<1>1. /\ \A i \in 1 .. Len(a) - 4 : Rearranged(a)[i] = a[i + 4]
      /\ \A i \in 1 .. 4 : Rearranged(a)[(Len(a) - 4) + i] = a[i]
  BY ValidIbanDef
<1>2. CASE k <= 4
  <2>1. k \in 1 .. 4 /\ MovedTo(Len(a), k) = (Len(a) - 4) + k
    BY <1>0, <1>2 DEF MovedTo
  <2> QED
    BY <1>1, <2>1
<1>3. CASE k > 4
  <2>1. PICK i \in 1 .. Len(a) - 4 : i = k - 4 /\ i + 4 = k /\ MovedTo(Len(a), k) = i
    BY <1>0, <1>3 DEF MovedTo
  <2> QED
    BY <1>1, <2>1
<1> QED
  BY <1>2, <1>3

\* A slip is one of the rearranged text;
LEMMA MovedSlip ==
  ASSUME NEW a \in Seq(Chars), NEW b \in Seq(Chars), 4 <= Len(a), NEW m, OneSlip(a, b, m)
  PROVE  OneSlip(Rearranged(a), Rearranged(b), MovedTo(Len(a), m))
<1> DEFINE n == Len(a)
           u == Rearranged(a)
           v == Rearranged(b)
<1>0. n \in Nat /\ 4 <= n /\ Len(b) = n /\ m \in 1 .. n
  BY DEF OneSlip
<1>1. Len(u) = n /\ Len(v) = n
  BY <1>0, ValidIbanDef
<1>2. \A k \in 1 .. n : u[MovedTo(n, k)] = a[k]
  BY MovedChar
<1>3. \A k \in 1 .. n : v[MovedTo(n, k)] = b[k]
  BY <1>0, MovedChar
<1>4. a[m] \in Digit /\ b[m] \in Digit /\ a[m] # b[m] /\ \A k \in 1 .. n : k # m => a[k] = b[k]
  BY DEF OneSlip
<1> HIDE DEF n, u, v
<1>5. ASSUME NEW r \in 1 .. n, r # MovedTo(n, m)
      PROVE  u[r] = v[r]
  <2>1. PICK k \in 1 .. n : r = MovedTo(n, k)
    BY <1>0, Moves
  <2>2. k # m
    BY <1>5, <2>1
  <2> QED
    BY <1>2, <1>3, <1>4, <2>1, <2>2, Zenon
<1>6. MovedTo(n, m) \in 1 .. n
  BY <1>0, Moves
<1>7. u[MovedTo(n, m)] = a[m] /\ v[MovedTo(n, m)] = b[m]
  BY <1>0, <1>2, <1>3, Zenon
<1>8. OneSlip(u, v, MovedTo(n, m))
  BY <1>1, <1>4, <1>5, <1>6, <1>7, Zenon DEF OneSlip
<1> QED
  BY <1>8 DEF u, v, n

\* neighbours exchanged are two places of it exchanged.
LEMMA MovedSwap ==
  ASSUME NEW a \in Seq(Chars), NEW b \in Seq(Chars), 4 <= Len(a), NEW m, TwoSlip(a, b, m)
  PROVE  Exchanged(Rearranged(a), Rearranged(b), MovedTo(Len(a), m), MovedTo(Len(a), m + 1))
<1> DEFINE n == Len(a)
           u == Rearranged(a)
           v == Rearranged(b)
<1>0. n \in Nat /\ 4 <= n /\ Len(b) = n /\ m \in 1 .. n
  BY DEF TwoSlip
<1>9. PICK j \in 1 .. n : j = m + 1 /\ j # m
  BY DEF TwoSlip
<1>1. Len(u) = n /\ Len(v) = n
  BY <1>0, ValidIbanDef
<1>2. \A k \in 1 .. n : u[MovedTo(n, k)] = a[k]
  BY MovedChar
<1>3. \A k \in 1 .. n : v[MovedTo(n, k)] = b[k]
  BY <1>0, MovedChar
<1>4. /\ a[m] \in Digit /\ a[j] \in Digit /\ a[m] # a[j] /\ b[m] = a[j] /\ b[j] = a[m]
      /\ \A k \in 1 .. n : k # m /\ k # j => a[k] = b[k]
  BY <1>9, Zenon DEF TwoSlip
<1> HIDE DEF n, u, v
<1>5. ASSUME NEW r \in 1 .. n, r # MovedTo(n, m), r # MovedTo(n, j)
      PROVE  u[r] = v[r]
  <2>1. PICK k \in 1 .. n : r = MovedTo(n, k)
    BY <1>0, Moves
  <2>2. k # m /\ k # j
    BY <1>5, <2>1
  <2> QED
    BY <1>2, <1>3, <1>4, <2>1, <2>2, Zenon
<1>6. MovedTo(n, m) \in 1 .. n /\ MovedTo(n, j) \in 1 .. n /\ MovedTo(n, m) # MovedTo(n, j)
  BY <1>0, <1>9, Moves
<1>7. /\ u[MovedTo(n, m)] = a[m] /\ v[MovedTo(n, m)] = b[m]
      /\ u[MovedTo(n, j)] = a[j] /\ v[MovedTo(n, j)] = b[j]
  BY <1>0, <1>2, <1>3, Zenon
<1>8. Exchanged(u, v, MovedTo(n, m), MovedTo(n, j))
  BY <1>1, <1>4, <1>5, <1>6, <1>7, Zenon DEF Exchanged
<1> QED
  BY <1>8, <1>9 DEF u, v, n

LEMMA IbanDigitSlip ==
  ASSUME NEW u \in Seq(Chars), NEW v \in Seq(Chars), NEW r, OneSlip(u, v, r),
         Sum(IbanRow(u)) % 97 = 1
  PROVE  Sum(IbanRow(v)) % 97 # 1
<1> DEFINE n == Len(u)
           P == PlaceValues(u)
<1>0. n \in Nat /\ Len(v) = n /\ r \in 1 .. n
  BY DEF OneSlip
<1>1. u[r] \in Digit /\ v[r] \in Digit /\ u[r] # v[r] /\ \A k \in 1 .. n : k # r => u[k] = v[k]
  BY DEF OneSlip
<1>2. \A k \in 0 .. n : PlaceValues(v)[k] = P[k]
  <2>1. \A k \in 1 .. n : u[k] \in Digit <=> v[k] \in Digit
    BY <1>1, Zenon
  <2> QED
    BY <1>0, <2>1, PlaceSame
<1>3. \A k \in 1 .. n : n - k \in 0 .. n
  BY <1>0
<1>4. IbanRow(u) \in [1 .. n -> Int] /\ \A k \in 1 .. n : IbanRow(u)[k] = u[k] * P[n - k]
  BY IbanRowType
<1>5. IbanRow(v) \in [1 .. n -> Int] /\ \A k \in 1 .. n : IbanRow(v)[k] = v[k] * P[n - k]
  <2>1. /\ IbanRow(v) \in [1 .. n -> Int]
        /\ \A k \in 1 .. n : IbanRow(v)[k] = v[k] * PlaceValues(v)[n - k]
    BY <1>0, IbanRowType
  <2> QED
    BY <1>2, <1>3, <2>1, Zenon
<1>6. P[n - r] \in 1 .. 96
  BY <1>0, <1>3, PlaceValuesDef
<1> HIDE DEF n, P
<1>7. \A k \in 1 .. n : k # r => IbanRow(u)[k] = IbanRow(v)[k]
  BY <1>1, <1>4, <1>5, Zenon
<1>8. /\ Sum(IbanRow(u)) \in Int
      /\ Sum(IbanRow(v)) = Sum(IbanRow(u)) + (IbanRow(v)[r] - IbanRow(u)[r])
  BY <1>0, <1>4, <1>5, <1>7, SumOne
<1>9. PICK p \in 1 .. 96 : p = P[n - r]
  BY <1>6, Zenon
<1>10. PICK x, y \in 0 .. 9 : x = u[r] /\ y = v[r] /\ x # y
  BY <1>1, DigitRange, Zenon
<1>11. IbanRow(u)[r] = x * p /\ IbanRow(v)[r] = y * p
  BY <1>0, <1>4, <1>5, <1>9, <1>10, Zenon
<1>12. PICK d \in -9 .. 9 : d = y - x /\ d # 0
  BY <1>10, Apart9, Zenon
<1>13. y * p - x * p = d * p /\ d * p \in Int
  BY <1>12
<1>14. Sum(IbanRow(v)) = Sum(IbanRow(u)) + d * p
  BY <1>8, <1>11, <1>13, Zenon
<1>15. ~Multiple(d * p)
  BY <1>12, NoMultiple
<1> QED
  BY <1>8, <1>13, <1>14, <1>15, SameRemainder, Zenon

\* The summands of two digits exchanged.
SumMoves(u, v, i, j) ==
    \E d \in -9 .. 9 :
        /\ d # 0 /\ Sum(IbanRow(u)) \in Int
        /\ Sum(IbanRow(v)) = Sum(IbanRow(u)) + (d * PlaceValues(u)[Len(u) - i]
                                                - d * PlaceValues(u)[Len(u) - j])

LEMMA IbanExchange ==
  ASSUME NEW u \in Seq(Chars), NEW v \in Seq(Chars), NEW i, NEW j, Exchanged(u, v, i, j)
  PROVE  SumMoves(u, v, i, j)
<1> DEFINE n == Len(u)
           P == PlaceValues(u)
<1>0. n \in Nat /\ Len(v) = n /\ i \in 1 .. n /\ j \in 1 .. n /\ i # j
  BY DEF Exchanged
<1>1. /\ u[i] \in Digit /\ u[j] \in Digit /\ u[i] # u[j] /\ v[i] = u[j] /\ v[j] = u[i]
      /\ \A k \in 1 .. n : k # i /\ k # j => u[k] = v[k]
  BY DEF Exchanged
<1>2. \A k \in 0 .. n : PlaceValues(v)[k] = P[k]
  <2>1. \A k \in 1 .. n : u[k] \in Digit <=> v[k] \in Digit
    BY <1>1, Zenon
  <2> QED
    BY <1>0, <2>1, PlaceSame
<1>3. \A k \in 1 .. n : n - k \in 0 .. n
  BY <1>0
<1>4. IbanRow(u) \in [1 .. n -> Int] /\ \A k \in 1 .. n : IbanRow(u)[k] = u[k] * P[n - k]
  BY IbanRowType
<1>5. IbanRow(v) \in [1 .. n -> Int] /\ \A k \in 1 .. n : IbanRow(v)[k] = v[k] * P[n - k]
  <2>1. /\ IbanRow(v) \in [1 .. n -> Int]
        /\ \A k \in 1 .. n : IbanRow(v)[k] = v[k] * PlaceValues(v)[n - k]
    BY <1>0, IbanRowType
  <2> QED
    BY <1>2, <1>3, <2>1, Zenon
<1>6. \A k \in 0 .. n : P[k] \in 1 .. 96
  BY PlaceValuesDef
<1> HIDE DEF n, P
<1>7. \A k \in 1 .. n : k # i /\ k # j => IbanRow(u)[k] = IbanRow(v)[k]
  BY <1>1, <1>4, <1>5, Zenon
<1>8. /\ Sum(IbanRow(u)) \in Int
      /\ Sum(IbanRow(v)) = Sum(IbanRow(u)) + (IbanRow(v)[i] - IbanRow(u)[i])
                                           + (IbanRow(v)[j] - IbanRow(u)[j])
  <2> DEFINE f == IbanRow(u)
             g == IbanRow(v)
  <2>1. f \in [1 .. n -> Int] /\ g \in [1 .. n -> Int]
    BY <1>4, <1>5
  <2>2. SameBut(n, f, g, i, j)
    BY <1>7, Zenon DEF SameBut
  <2>3. n \in Nat /\ i \in 1 .. n /\ j \in 1 .. n /\ i # j
    BY <1>0
  <2> HIDE DEF f, g
  <2>4. Sum(f) \in Int /\ Sum(g) = Sum(f) + (g[i] - f[i]) + (g[j] - f[j])
    BY <2>1, <2>2, <2>3, SumTwo
  <2> QED
    BY <2>4, Zenon DEF f, g
<1>9. PICK p, q \in 1 .. 96 : p = P[n - i] /\ q = P[n - j]
  BY <1>0, <1>3, <1>6, Zenon
<1>10. PICK x, y \in 0 .. 9 : x = u[i] /\ y = u[j] /\ x # y
  BY <1>1, DigitRange, Zenon
<1>11. /\ IbanRow(u)[i] = x * p /\ IbanRow(v)[i] = y * p
       /\ IbanRow(u)[j] = y * q /\ IbanRow(v)[j] = x * q
  BY <1>0, <1>1, <1>4, <1>5, <1>9, <1>10, Zenon
<1>12. PICK d \in -9 .. 9 : d = y - x /\ d # 0
  BY <1>10, Apart9, Zenon
<1>13. y * p - x * p = d * p /\ x * q - y * q = -(d * q)
  BY <1>12
<1>14. \A s, e, f \in Int : s + e + (-f) = s + (e - f)
  OBVIOUS
<1>15. Sum(IbanRow(v)) = Sum(IbanRow(u)) + (d * p) + (-(d * q))
  BY <1>8, <1>11, <1>13, Zenon
<1>16. d * p \in Int /\ d * q \in Int
  OBVIOUS
<1>17. Sum(IbanRow(v)) = Sum(IbanRow(u)) + (d * P[n - i] - d * P[n - j])
  BY <1>8, <1>9, <1>14, <1>15, <1>16, Zenon
<1> QED
  BY <1>8, <1>12, <1>17, Zenon DEF n, P, SumMoves

\* Neighbours, and the first and the last place.
LEMMA IbanNeighbours ==
  ASSUME NEW u \in Seq(Chars), NEW v \in Seq(Chars), NEW i, NEW j, Exchanged(u, v, i, j), j = i + 1,
         Sum(IbanRow(u)) % 97 = 1
  PROVE  Sum(IbanRow(v)) % 97 # 1
<1>1. PICK d \in -9 .. 9 :
          /\ d # 0 /\ Sum(IbanRow(u)) \in Int
          /\ Sum(IbanRow(v)) = Sum(IbanRow(u)) + (d * PlaceValues(u)[Len(u) - i]
                                                  - d * PlaceValues(u)[Len(u) - j])
  <2>1. SumMoves(u, v, i, j)
    BY IbanExchange
  <2> QED
    BY <2>1 DEF SumMoves
<1>2. i \in 1 .. Len(u) /\ j \in 1 .. Len(u) /\ u[j] \in Digit /\ Len(u) \in Nat
  BY DEF Exchanged
<1>3. PICK k \in 1 .. Len(u) : k = Len(u) - i /\ k - 1 = Len(u) - j /\ (Len(u) + 1) - k = j
  <2>1. /\ Len(u) - i \in 1 .. Len(u) /\ (Len(u) - i) - 1 = Len(u) - j
        /\ (Len(u) + 1) - (Len(u) - i) = j
    BY <1>2
  <2> QED
    BY <2>1, Zenon
<1>4. PlaceValues(u)[k] = (PlaceValues(u)[k - 1] * 10) % 97
  <2>1. u[(Len(u) + 1) - k] \in Digit
    BY <1>2, <1>3, Zenon
  <2> QED
    BY <2>1, PlaceValuesDef, Zenon
<1>5. PICK p \in 1 .. 96 : p = PlaceValues(u)[k - 1]
  <2>1. k - 1 \in 0 .. Len(u)
    BY <1>2
  <2> QED
    BY <2>1, PlaceValuesDef, Zenon
<1>6. PICK e \in Int : e = d * ((p * 10) % 97) - d * p
  OBVIOUS
<1>7. Sum(IbanRow(v)) = Sum(IbanRow(u)) + e
  BY <1>1, <1>3, <1>4, <1>5, <1>6, Zenon
<1>8. ~Multiple(e)
  <2>1. ~Multiple(d * ((p * 10) % 97) - d * p)
    BY <1>1, NoMultipleOfNine, Zenon
  <2> QED
    BY <1>6, <2>1, Zenon
<1> QED
  BY <1>1, <1>7, <1>8, SameRemainder, Zenon

LEMMA IbanEnds ==
  ASSUME NEW u \in Seq(Chars), NEW v \in Seq(Chars), NEW i, NEW j, Exchanged(u, v, i, j),
         i = Len(u), j = 1, Len(u) \in 2 .. 34, Sum(IbanRow(u)) % 97 = 1
  PROVE  Sum(IbanRow(v)) % 97 # 1
<1>1. PICK d \in -9 .. 9 :
          /\ d # 0 /\ Sum(IbanRow(u)) \in Int
          /\ Sum(IbanRow(v)) = Sum(IbanRow(u)) + (d * PlaceValues(u)[Len(u) - i]
                                                  - d * PlaceValues(u)[Len(u) - j])
  <2>1. SumMoves(u, v, i, j)
    BY IbanExchange
  <2> QED
    BY <2>1 DEF SumMoves
<1>2. Len(u) - i = 0 /\ Len(u) - j = Len(u) - 1 /\ Len(u) - 1 \in 0 .. Len(u)
  OBVIOUS
<1>3. PlaceValues(u)[Len(u) - i] = 1
  BY <1>2, PlaceValuesDef, Zenon
<1>4. PICK q \in 1 .. 96 : q = PlaceValues(u)[Len(u) - j] /\ q # 1
  <2>1. PlaceValues(u)[Len(u) - 1] # 1
    BY PlaceNotOne
  <2>2. PlaceValues(u)[Len(u) - 1] \in 1 .. 96
    BY <1>2, PlaceValuesDef, Zenon
  <2> QED
    BY <1>2, <2>1, <2>2, Zenon
<1>5. PICK p \in 1 .. 96 : p = q - 1
  BY <1>4
<1>6. PICK e \in -9 .. 9 : e = -d /\ e # 0
  BY <1>1
<1>7. d * 1 - d * q = e * p /\ e * p \in Int
  BY <1>5, <1>6
<1>8. Sum(IbanRow(v)) = Sum(IbanRow(u)) + e * p
  BY <1>1, <1>3, <1>4, <1>7, Zenon
<1>9. ~Multiple(e * p)
  BY <1>6, NoMultiple
<1> QED
  BY <1>1, <1>7, <1>8, <1>9, SameRemainder, Zenon

LEMMA IbanOne ==
  ASSUME NEW a \in Seq(Chars), NEW b \in Seq(Chars), NEW m, OneSlip(a, b, m), Valid("iban", a),
         4 <= Len(a)
  PROVE  ~Valid("iban", b)
<1>1. 4 <= Len(b)
  BY DEF OneSlip
<1>2. /\ Rearranged(a) \in Seq(Chars) /\ Rearranged(b) \in Seq(Chars)
      /\ Sum(IbanRow(Rearranged(a))) % 97 = 1
      /\ Valid("iban", b) <=> Sum(IbanRow(Rearranged(b))) % 97 = 1
  BY <1>1, ValidIbanDef
<1>3. OneSlip(Rearranged(a), Rearranged(b), MovedTo(Len(a), m))
  BY MovedSlip
<1> QED
  BY <1>2, <1>3, IbanDigitSlip, Zenon

\* The first two characters are letters, so that a slip is at the third or later: the
\* fourth and the fifth go to the last place and to the first.
LEMMA IbanTwo ==
  ASSUME NEW a \in Seq(Chars), NEW b \in Seq(Chars), NEW m, TwoSlip(a, b, m), Valid("iban", a),
         Len(a) \in 15 .. 34, a[1] \in Letter, a[2] \in Letter
  PROVE  ~Valid("iban", b)
<1> DEFINE u == Rearranged(a)
           v == Rearranged(b)
           i == MovedTo(Len(a), m)
           j == MovedTo(Len(a), m + 1)
<1>0. 4 <= Len(a) /\ 4 <= Len(b) /\ m \in 1 .. Len(a) /\ m + 1 \in 1 .. Len(a)
  BY DEF TwoSlip
<1>1. /\ u \in Seq(Chars) /\ v \in Seq(Chars) /\ Len(u) = Len(a)
      /\ Sum(IbanRow(u)) % 97 = 1
      /\ Valid("iban", b) <=> Sum(IbanRow(v)) % 97 = 1
  BY <1>0, ValidIbanDef
<1>2. Exchanged(u, v, i, j)
  BY <1>0, MovedSwap
<1>3. m # 1 /\ m # 2
  <2>1. a[m] \in Digit
    BY DEF TwoSlip
  <2> QED
    BY <2>1, CharKinds, Zenon
<1>4. j = i + 1 \/ (i = Len(a) /\ j = 1)
  BY <1>0, <1>3 DEF MovedTo
<1> HIDE DEF u, v, i, j
<1>5. Sum(IbanRow(v)) % 97 # 1
  <2>1. CASE j = i + 1
    BY <1>1, <1>2, <2>1, IbanNeighbours
  <2>2. CASE i = Len(a) /\ j = 1
    <3>1. \A n \in 15 .. 34 : n \in 2 .. 34
      OBVIOUS
    <3>2. i = Len(u) /\ j = 1 /\ Len(u) \in 2 .. 34
      BY <1>1, <2>2, <3>1, Zenon
    <3> QED
      BY <1>1, <1>2, <3>2, IbanEnds
  <2> QED
    BY <1>4, <2>1, <2>2
<1> QED
  BY <1>1, <1>5

\* A number with a slip that its check digits must catch is not a number.
LEMMA SlipOne ==
  ASSUME NEW kind \in Kinds, NEW a \in Seq(Chars), NEW b \in Seq(Chars), IsNumber(kind, a),
         NEW m, OneSlip(a, b, m)
  PROVE  ~Valid(kind, b)
<1>0. Shaped(kind, a) /\ Valid(kind, a)
  BY DEF IsNumber
<1>1. CASE kind = "card"
  BY <1>0, <1>1, CardOne
<1>2. CASE kind = "pesel"
  <2>1. Len(a) = 11
    BY <1>0, <1>2, ShapedDef, Zenon
  <2> QED
    BY <1>0, <1>2, <2>1, PeselOne
<1>3. CASE kind = "nip"
  <2>1. Len(a) = 10
    BY <1>0, <1>3, ShapedDef, Zenon
  <2> QED
    BY <1>0, <1>3, <2>1, NipOne
<1>4. CASE kind = "iban"
  <2>1. Len(a) \in 15 .. 34
    BY <1>0, <1>4, ShapedDef, Zenon
  <2>2. 4 <= Len(a)
    <3>1. \A n \in 15 .. 34 : 4 <= n
      OBVIOUS
    <3> QED
      BY <2>1, <3>1, Zenon
  <2> QED
    BY <1>0, <1>4, <2>2, IbanOne
<1> QED
  BY <1>1, <1>2, <1>3, <1>4, Zenon DEF Kinds

LEMMA SlipTwo ==
  ASSUME NEW kind \in Kinds, NEW a \in Seq(Chars), NEW b \in Seq(Chars), IsNumber(kind, a),
         NEW m, TwoSlip(a, b, m),
         kind \in {"nip", "iban"} \/ (kind = "card" /\ {a[m], a[m + 1]} # {0, 9})
  PROVE  ~Valid(kind, b)
<1>0. Shaped(kind, a) /\ Valid(kind, a)
  BY DEF IsNumber
<1>1. CASE kind = "card" /\ {a[m], a[m + 1]} # {0, 9}
  BY <1>0, <1>1, CardTwo
<1>2. CASE kind = "nip"
  <2>1. Len(a) = 10
    BY <1>0, <1>2, ShapedDef, Zenon
  <2> QED
    BY <1>0, <1>2, <2>1, NipTwo
<1>3. CASE kind = "iban"
  <2>1. Len(a) \in 15 .. 34 /\ a[1] \in Letter /\ a[2] \in Letter
    BY <1>0, <1>3, ShapedDef, Zenon
  <2> QED
    BY <1>0, <1>3, <2>1, IbanTwo
<1> QED
  BY <1>1, <1>2, <1>3, Zenon

\* A text like a number, read whole.
LEMMA AlikeRead ==
  ASSUME NEW kind \in Kinds, NEW s \in Seq(Chars), NEW t \in Seq(Chars), Alike(s, t),
         Layout(kind, s), Shaped(kind, Strip(s, Separator)), ~Valid(kind, Strip(t, Separator))
  PROVE  ReportsOf(kind, t) = {}
<1>1. RegexOf(kind, s) /\ Plain(s)
  BY RegexMeans
<1>2. RegexOf(kind, t)
  BY <1>1, AlikeMatch
<1>3. Layout(kind, t) /\ Shaped(kind, Strip(t, Separator))
  <2>1. Digit \subseteq Chars \ Foreign
    BY CharKinds, Zenon
  <2>2. Plain(t)
    BY <1>1, <2>1, AlikeIn DEF Plain
  <2> QED
    BY <1>2, <2>2, RegexMeans
<1>4. 1 <= Len(t) /\ Len(t) \in Nat
  BY <1>2, RegexEnds
<1>5. SubSeq(t, 1, Len(t)) = t
  OBVIOUS
<1>6. /\ 1 \in 1 .. Len(t) /\ Len(t) \in 1 .. Len(t)
      /\ \A k \in 1 .. Len(t) : k < 1 \/ Len(t) < k => t[k] \in Separator
  BY <1>4
<1>7. Layout(kind, SubSeq(t, 1, Len(t))) /\ Shaped(kind, Strip(SubSeq(t, 1, Len(t)), Separator))
  BY <1>3, <1>5, Zenon
<1>8. ~Valid(kind, Strip(SubSeq(t, 1, Len(t)), Separator)) => ReportsOf(kind, t) = {}
  BY <1>4, <1>6, <1>7, AloneRead
<1> QED
  BY <1>5, <1>8, Zenon

LEMMA SlipsRight ==
  ASSUME TypeInv
  PROVE  SlipsCaught
<1> DEFINE kind == seed.kind
           s == seed.text
           a == Strip(s, Separator)
           b == Strip(text, Separator)
<1>0. text \in Seq(Chars) /\ seed \in Seeds
  BY DEF TypeInv
<1>1. /\ kind \in Kinds /\ s \in Seq(Chars)
      /\ Layout(kind, s) /\ IsNumber(kind, a)
  BY <1>0, SeedFacts, Zenon
<1>2. a \in Seq(Chars) /\ b \in Seq(Chars)
  BY <1>0, <1>1, StripLen
<1>3. Shaped(kind, a)
  BY <1>1, Zenon DEF IsNumber
<1>4. ASSUME MistypedDigit(s, text)
      PROVE  ReportsOf(kind, text) = {}
  <2> HIDE DEF kind, s
  <2>1. Alike(s, text) /\ \E m : OneSlip(a, b, m)
    BY <1>0, <1>1, <1>4, MistypedStripped
  <2>2. PICK m : OneSlip(a, b, m)
    BY <2>1
  <2>3. ~Valid(kind, b)
    <3> HIDE DEF a, b
    <3> QED
      BY <1>1, <1>2, <2>2, SlipOne
  <2> QED
    BY <1>0, <1>1, <1>3, <2>1, <2>3, AlikeRead
<1>5. ASSUME SwappedDigits(s, text),
             kind \in {"nip", "iban"} \/ (kind = "card" /\ {text[k] : k \in Differ(s, text)} # {0, 9})
      PROVE  ReportsOf(kind, text) = {}
  <2> HIDE DEF kind, s
  <2>1. /\ Alike(s, text)
        /\ \E m : TwoSlip(a, b, m) /\ {text[k] : k \in Differ(s, text)} = {a[m], a[m + 1]}
    BY <1>0, <1>1, <1>5, SwappedStripped
  <2>2. PICK m : TwoSlip(a, b, m) /\ {text[k] : k \in Differ(s, text)} = {a[m], a[m + 1]}
    BY <2>1
  <2>3. kind \in {"nip", "iban"} \/ (kind = "card" /\ {a[m], a[m + 1]} # {0, 9})
    BY <1>5, <2>2, Zenon
  <2>4. ~Valid(kind, b)
    <3> HIDE DEF a, b
    <3> QED
      BY <1>1, <1>2, <2>2, <2>3, SlipTwo
  <2> QED
    BY <1>0, <1>1, <1>3, <2>1, <2>4, AlikeRead
<1> QED
  BY <1>4, <1>5, Zenon DEF SlipsCaught

\* One mistyped digit of a valid number, or two adjacent digits exchanged (but
\* for 0 and 9 in a card, and not promised for a PESEL), leave a text in which
\* the classifier reports nothing: the check functions reject it, and no other
\* part of the text matches.
THEOREM SlipsAreCaught == Spec => []SlipsCaught
  BY TypeCorrect, SlipsRight, PTL
============================================================================
