-------------------------- MODULE RecursionLemmas --------------------------
(***************************************************************************)
(* Induction over the naturals with a set in the place of a predicate, the *)
(* existence of functions defined by recursion, and what follows for the   *)
(* two recursive definitions that the driver's model rests on: running     *)
(* sums (the loops over the slots of the ring) and FlattenSeq (the bytes   *)
(* of all entries, end to end).                                            *)
(***************************************************************************)
EXTENDS Integers, Sequences, SequencesExt, SequenceTheorems, WellFoundedInduction, TLAPS

\* Every nonempty set of naturals has a least element.
LEMMA Least ==
  ASSUME NEW T, T \subseteq Nat, T # {}
  PROVE  \E n \in T : \A m \in T : n <= m
<1> DEFINE R == OpToRel(<, Nat)
<1>1. IsWellFoundedOn(R, Nat)
  BY NatLessThanWellFounded
<1>2. \A x, y \in Nat : x < y => <<x, y>> \in R
  BY DEF OpToRel
<1> HIDE DEF R
<1>3. PICK n \in T : \A m \in T : ~ (<<m, n>> \in R)
  BY <1>1, WFMin
<1>4. \A m \in T : ~ (m < n)
  BY <1>2, <1>3
<1>5. \A m \in T : n <= m
  BY <1>4
<1> QED
  BY <1>5

\* Induction: a set that holds 0 and every successor of its members.
LEMMA InductiveSet ==
  ASSUME NEW S, 0 \in S, \A n \in Nat : n \in S => n + 1 \in S
  PROVE  Nat \subseteq S
<1> SUFFICES ASSUME Nat \ S # {} PROVE FALSE
  OBVIOUS
<1>1. PICK n \in Nat \ S : \A m \in Nat \ S : n <= m
  BY Least
<1>2. n # 0 /\ n - 1 \in Nat
  BY <1>1
<1>3. n - 1 \in S
  BY <1>1, <1>2
<1> QED
  BY <1>1, <1>2, <1>3

\* The function on the naturals with a first value and a rule for the next one.
Steps(V) == [Nat -> [V -> V]]

Recursive(f, V, a, step) ==
  f \in [Nat -> V] /\ f[0] = a /\ \A n \in Nat : f[n + 1] = step[n][f[n]]

\* There is one for every first value and every rule.
LEMMA RecursiveFunction ==
  ASSUME NEW V, NEW a \in V, NEW step \in Steps(V)
  PROVE  \E f : Recursive(f, V, a, step)
<1> USE DEF Steps
<1> DEFINE Approx(g, n) == /\ g \in [0..n -> V] /\ g[0] = a
                           /\ \A i \in 0..(n - 1) : g[i + 1] = step[i][g[i]]
           Ok == {n \in Nat : \E g : Approx(g, n)}
\* There are approximations of every length,
<1>1. 0 \in Ok
  <2>1. Approx([i \in 0..0 |-> a], 0)
    OBVIOUS
  <2> QED
    BY <2>1
<1>2. ASSUME NEW n \in Nat, n \in Ok PROVE n + 1 \in Ok
  <2>1. PICK g : Approx(g, n)
    BY <1>2
  <2> DEFINE h == [i \in 0..(n + 1) |-> IF i = n + 1 THEN step[n][g[n]] ELSE g[i]]
  <2>2. step[n] \in [V -> V] /\ g[n] \in V
    BY <2>1
  <2>3. h \in [0..(n + 1) -> V] /\ h[0] = a
    BY <2>1, <2>2
  <2>4. ASSUME NEW i \in 0..((n + 1) - 1) PROVE h[i + 1] = step[i][h[i]]
    BY <2>1
  <2>5. Approx(h, n + 1)
    BY <2>3, <2>4
  <2>6. \E k : Approx(k, n + 1)
    <3> HIDE DEF h, Approx
    <3> QED
      BY <2>5
  <2> QED
    BY <2>6
<1>3. \A n \in Nat : \E g : Approx(g, n)
  <2>1. Nat \subseteq Ok
    <3> HIDE DEF Ok
    <3> QED
      BY <1>1, <1>2, InductiveSet
  <2> QED
    BY <2>1
\* and they agree where they meet.
<1>4. \A n, m \in Nat : \A g, h :
        n <= m /\ Approx(g, n) /\ Approx(h, m) => \A i \in 0..n : g[i] = h[i]
  <2> SUFFICES ASSUME NEW n \in Nat, NEW m \in Nat, NEW g, NEW h,
                      n <= m, Approx(g, n), Approx(h, m)
               PROVE  \A i \in 0..n : g[i] = h[i]
    <3> HIDE DEF Approx
    <3> QED
      OBVIOUS
  <2> DEFINE S == {i \in Nat : i <= n => g[i] = h[i]}
  <2>1. 0 \in S
    OBVIOUS
  <2>2. ASSUME NEW i \in Nat, i \in S PROVE i + 1 \in S
    <3> SUFFICES ASSUME i + 1 <= n PROVE g[i + 1] = h[i + 1]
      OBVIOUS
    <3>1. g[i] = h[i] /\ i \in 0..(n - 1) /\ i \in 0..(m - 1)
      BY <2>2
    <3> QED
      BY <3>1
  <2>3. Nat \subseteq S
    <3> HIDE DEF S
    <3> QED
      BY <2>1, <2>2, InductiveSet
  <2> QED
    BY <2>3
<1> DEFINE best(n) == CHOOSE g : Approx(g, n)
           f == [n \in Nat |-> best(n)[n]]
<1>5. \A n \in Nat : Approx(best(n), n)
  BY <1>3
<1> HIDE DEF best
<1>6. f \in [Nat -> V]
  BY <1>5
<1>7. f[0] = a
  BY <1>5
<1>8. ASSUME NEW n \in Nat PROVE f[n + 1] = step[n][f[n]]
  <2>1. Approx(best(n), n) /\ Approx(best(n + 1), n + 1)
    BY <1>5
  <2>2. best(n + 1)[n + 1] = step[n][best(n + 1)[n]]
    BY <2>1
  <2>3. best(n)[n] = best(n + 1)[n]
    <3> HIDE DEF Approx
    <3>1. n \in Nat /\ n + 1 \in Nat /\ n <= n + 1 /\ n \in 0..n
      OBVIOUS
    <3> QED
      BY <1>4, <2>1, <3>1
  <2> QED
    BY <2>2, <2>3
<1>9. Recursive(f, V, a, step)
  BY <1>6, <1>7, <1>8 DEF Recursive
<1> QED
  BY <1>9

-----------------------------------------------------------------------------
(* Running sums.                                                           *)

\* The total of a loop that adds up sizes, after each iteration.
RunsUp(f, a, size) ==
  f \in [Nat -> Int] /\ f[0] = a /\ \A k \in Nat : f[k + 1] = f[k] + size[k]

LEMMA RunningSum ==
  ASSUME NEW a \in Int, NEW size \in [Nat -> Int]
  PROVE  \E f : RunsUp(f, a, size)
<1> DEFINE step == [n \in Nat |-> [x \in Int |-> x + size[n]]]
<1>1. step \in Steps(Int)
  BY DEF Steps
<1>2. PICK f : Recursive(f, Int, a, step)
  <2> HIDE DEF step
  <2> QED
    BY <1>1, RecursiveFunction
<1>3. RunsUp(f, a, size)
  BY <1>2 DEF Recursive, RunsUp
<1> QED
  BY <1>3

-----------------------------------------------------------------------------
(* FlattenSeq.                                                             *)

LEMMA FlattenEmpty == FlattenSeq(<< >>) = << >>
  BY DEF FlattenSeq

\* The function that FlattenSeq is defined with exists.
LEMMA FlattenUnfold ==
  ASSUME NEW X, NEW s \in Seq(Seq(X)), Len(s) > 0
  PROVE  \E f \in [1..Len(s) -> Seq(X)] :
           /\ f[1] = s[1]
           /\ \A i \in 2..Len(s) : f[i] = f[i - 1] \o s[i]
           /\ FlattenSeq(s) = f[Len(s)]
<1> DEFINE part(n) == IF n + 1 \in 1..Len(s) THEN s[n + 1] ELSE << >>
           step == [n \in Nat |-> [x \in Seq(X) |-> x \o part(n)]]
           Unfolds(f) == f = [i \in 1..Len(s) |-> IF i = 1 THEN s[i] ELSE f[i - 1] \o s[i]]
           flatten == CHOOSE f : Unfolds(f)
<1>1. step \in Steps(Seq(X))
  <2>1. \A n \in Nat : part(n) \in Seq(X)
    OBVIOUS
  <2> HIDE DEF part
  <2>2. \A n \in Nat : \A x \in Seq(X) : x \o part(n) \in Seq(X)
    BY <2>1
  <2> QED
    BY <2>2 DEF Steps
<1>2. PICK g : Recursive(g, Seq(X), << >>, step)
  <2>1. << >> \in Seq(X)
    OBVIOUS
  <2> HIDE DEF step
  <2> QED
    BY <1>1, <2>1, RecursiveFunction
<1> HIDE DEF flatten, Unfolds
<1>3. ASSUME NEW i \in 1..Len(s)
      PROVE  /\ g[i] \in Seq(X)
             /\ g[i] = IF i = 1 THEN s[i] ELSE g[i - 1] \o s[i]
  <2>1. i - 1 \in Nat /\ (i - 1) + 1 = i /\ s[i] \in Seq(X)
    OBVIOUS
  <2>2. part(i - 1) = s[i]
    BY <2>1
  <2> HIDE DEF part
  <2>3. g \in [Nat -> Seq(X)] /\ g[0] = << >> /\ \A n \in Nat : g[n + 1] = g[n] \o part(n)
    BY <1>2 DEF Recursive
  <2>5. g[(i - 1) + 1] = g[i - 1] \o s[i]
    BY <2>1, <2>2, <2>3
  <2>4. << >> \o s[i] = s[i]
    BY <2>1
  <2>6. i = 1 => g[i - 1] = << >>
    BY <2>3
  <2> HIDE DEF step
  <2>7. g[i] = g[i - 1] \o s[i] /\ g[i] \in Seq(X)
    <3>1. g[i] \in Seq(X)
      BY <2>3
    <3> QED
      BY <2>1, <2>5, <3>1
  <2>8. i = 1 => g[i] = s[i]
    BY <2>4, <2>6, <2>7
  <2> QED
    BY <2>7, <2>8
<1> HIDE DEF step, part
<1> DEFINE h == [i \in 1..Len(s) |-> g[i]]
<1>4. Unfolds(h)
  <2> USE DEF Unfolds
  <2>1. \A i \in 1..Len(s) : i # 1 => i - 1 \in 1..Len(s)
    OBVIOUS
  <2>2. \A i \in 1..Len(s) : h[i] = IF i = 1 THEN s[i] ELSE h[i - 1] \o s[i]
    BY <1>3, <2>1
  <2>3. h = [i \in 1..Len(s) |-> h[i]]
    OBVIOUS
  <2> HIDE DEF h
  <2> QED
    BY <2>2, <2>3
<1>5. Unfolds(flatten)
  <2> HIDE DEF h
  <2> QED
    BY <1>4 DEF flatten
<1>6. \A i \in 1..Len(s) : flatten[i] = IF i = 1 THEN s[i] ELSE flatten[i - 1] \o s[i]
  BY <1>5 DEF Unfolds
<1>7. FlattenSeq(s) = flatten[Len(s)]
  BY DEF FlattenSeq, flatten, Unfolds
\* It is the function of the recursion.
<1>8. \A i \in 1..Len(s) : flatten[i] = g[i]
  <2> DEFINE S == {n \in Nat : n + 1 \in 1..Len(s) => flatten[n + 1] = g[n + 1]}
  <2>1. 0 \in S
    BY <1>3, <1>6
  <2>2. ASSUME NEW n \in Nat, n \in S PROVE n + 1 \in S
    <3> SUFFICES ASSUME (n + 1) + 1 \in 1..Len(s) PROVE flatten[(n + 1) + 1] = g[(n + 1) + 1]
      OBVIOUS
    <3>1. flatten[n + 1] = g[n + 1] /\ ((n + 1) + 1) - 1 = n + 1
      BY <2>2
    <3> DEFINE k == (n + 1) + 1
    <3>2. k \in 1..Len(s) /\ k # 1 /\ k - 1 = n + 1
      OBVIOUS
    <3> HIDE DEF k
    <3>3. flatten[k] = flatten[n + 1] \o s[k] /\ g[k] = g[n + 1] \o s[k]
      BY <1>3, <1>6, <3>2
    <3> QED
      BY <3>1, <3>3 DEF k
  <2>3. Nat \subseteq S
    <3> HIDE DEF S
    <3> QED
      BY <2>1, <2>2, InductiveSet
  <2>4. \A i \in 1..Len(s) : i - 1 \in Nat /\ (i - 1) + 1 = i
    OBVIOUS
  <2> QED
    BY <2>3, <2>4
<1>9. h \in [1..Len(s) -> Seq(X)] /\ h[1] = s[1] /\ FlattenSeq(s) = h[Len(s)]
  BY <1>3, <1>7, <1>8
<1>10. \A i \in 2..Len(s) : h[i] = h[i - 1] \o s[i]
  <2>1. \A i \in 2..Len(s) : i \in 1..Len(s) /\ i - 1 \in 1..Len(s) /\ i # 1
    OBVIOUS
  <2>2. \A i \in 2..Len(s) : h[i] = g[i] /\ h[i - 1] = g[i - 1]
    BY <2>1
  <2> HIDE DEF h
  <2> QED
    BY <1>3, <2>1, <2>2
<1> HIDE DEF h
<1> QED
  BY <1>9, <1>10

LEMMA FlattenType ==
  ASSUME NEW X, NEW s \in Seq(Seq(X))
  PROVE  FlattenSeq(s) \in Seq(X)
<1>1. CASE Len(s) = 0
  <2>1. s = << >>
    BY <1>1
  <2>2. << >> \in Seq(X)
    OBVIOUS
  <2> QED
    BY <2>1, <2>2, FlattenEmpty, Zenon
<1>2. CASE Len(s) > 0
  <2>1. PICK f \in [1..Len(s) -> Seq(X)] : FlattenSeq(s) = f[Len(s)]
    BY <1>2, FlattenUnfold
  <2>2. Len(s) \in 1..Len(s)
    BY <1>2
  <2> QED
    BY <2>1, <2>2, Zenon
<1> QED
  BY <1>1, <1>2

LEMMA FlattenAppend ==
  ASSUME NEW X, NEW s \in Seq(Seq(X)), NEW x \in Seq(X)
  PROVE  FlattenSeq(Append(s, x)) = FlattenSeq(s) \o x
<1> DEFINE t == Append(s, x)
<1>1. /\ t \in Seq(Seq(X)) /\ Len(t) = Len(s) + 1 /\ Len(t) > 0
      /\ \A i \in 1..Len(s) : t[i] = s[i]
      /\ t[Len(t)] = x
  OBVIOUS
<1> HIDE DEF t
<1>2. PICK g \in [1..Len(t) -> Seq(X)] :
        /\ g[1] = t[1]
        /\ \A i \in 2..Len(t) : g[i] = g[i - 1] \o t[i]
        /\ FlattenSeq(t) = g[Len(t)]
  BY <1>1, FlattenUnfold
<1>3. CASE Len(s) = 0
  <2>1. s = << >>
    BY <1>3
  <2>2. FlattenSeq(t) = x /\ FlattenSeq(s) = << >>
    BY <1>1, <1>2, <1>3, <2>1, FlattenEmpty
  <2> QED
    BY <2>2 DEF t
<1>4. CASE Len(s) > 0
  <2>1. PICK f \in [1..Len(s) -> Seq(X)] :
          /\ f[1] = s[1]
          /\ \A i \in 2..Len(s) : f[i] = f[i - 1] \o s[i]
          /\ FlattenSeq(s) = f[Len(s)]
    BY <1>4, FlattenUnfold
  <2> DEFINE S == {n \in Nat : n + 1 \in 1..Len(s) => g[n + 1] = f[n + 1]}
  <2>2. 0 \in S
    BY <1>1, <1>2, <1>4, <2>1
  <2>3. ASSUME NEW n \in Nat, n \in S PROVE n + 1 \in S
    <3> SUFFICES ASSUME (n + 1) + 1 \in 1..Len(s) PROVE g[(n + 1) + 1] = f[(n + 1) + 1]
      OBVIOUS
    <3>1. f[n + 1] = g[n + 1]
      BY <2>3
    <3> DEFINE k == (n + 1) + 1
    <3>2. /\ k \in 1..Len(s) /\ k - 1 = n + 1 /\ k \in 2..Len(s) /\ k \in 2..Len(t)
      BY <1>1
    <3> HIDE DEF k
    <3>3. g[k] = g[n + 1] \o s[k] /\ f[k] = f[n + 1] \o s[k]
      BY <1>1, <1>2, <2>1, <3>2
    <3> QED
      BY <3>1, <3>3 DEF k
  <2>4. Nat \subseteq S
    <3> HIDE DEF S
    <3> QED
      BY <2>2, <2>3, InductiveSet
  <2>5. Len(s) - 1 \in Nat /\ (Len(s) - 1) + 1 = Len(s) /\ Len(s) \in 1..Len(s)
    BY <1>4
  <2>6. g[Len(s)] = f[Len(s)]
    BY <2>4, <2>5
  <2>7. Len(t) \in 2..Len(t) /\ Len(t) - 1 = Len(s)
    BY <1>1, <1>4
  <2>8. FlattenSeq(t) = g[Len(s)] \o x
    BY <1>1, <1>2, <2>7
  <2> QED
    BY <2>1, <2>6, <2>8 DEF t
<1> QED
  BY <1>3, <1>4

\* Induction over sequences: a set that holds the empty sequence and, with a
\* sequence, what Append makes of it.
LEMMA InductiveSeqSet ==
  ASSUME NEW X, NEW T, << >> \in T, \A s \in Seq(X), x \in X : s \in T => Append(s, x) \in T
  PROVE  Seq(X) \subseteq T
<1> DEFINE S == {n \in Nat : \A s \in Seq(X) : Len(s) = n => s \in T}
<1>1. 0 \in S
  <2>1. \A s \in Seq(X) : Len(s) = 0 => s = << >>
    OBVIOUS
  <2> QED
    BY <2>1
<1>2. ASSUME NEW n \in Nat, n \in S PROVE n + 1 \in S
  <2> SUFFICES ASSUME NEW s \in Seq(X), Len(s) = n + 1 PROVE s \in T
    OBVIOUS
  <2>1. s # << >>
    OBVIOUS
  <2>2. PICK r \in Seq(X), x \in X : s = Append(r, x)
    BY <2>1, SequenceEmptyOrAppend
  <2>3. Len(r) = n
    BY <2>2
  <2> QED
    BY <1>2, <2>2, <2>3
<1>3. Nat \subseteq S
  <2> HIDE DEF S
  <2> QED
    BY <1>1, <1>2, InductiveSet
<1> QED
  BY <1>3

\* The first of the sequences comes first.
LEMMA FlattenHead ==
  ASSUME NEW X, NEW s \in Seq(Seq(X)), s # << >>
  PROVE  FlattenSeq(s) = Head(s) \o FlattenSeq(Tail(s))
<1> DEFINE T == {r \in Seq(Seq(X)) : r # << >> => FlattenSeq(r) = Head(r) \o FlattenSeq(Tail(r))}
<1>1. << >> \in T
  OBVIOUS
<1>2. ASSUME NEW r \in Seq(Seq(X)), NEW x \in Seq(X), r \in T PROVE Append(r, x) \in T
  <2>0. Append(r, x) \in Seq(Seq(X)) /\ FlattenSeq(Append(r, x)) = FlattenSeq(r) \o x
    BY FlattenAppend
  <2>1. CASE r = << >>
    <3>1. Head(Append(r, x)) = x /\ Tail(Append(r, x)) = << >>
      BY <2>1, HeadTailAppend
    <3>2. << >> \o x = x /\ x \o << >> = x
      BY ConcatEmptySeq
    <3> QED
      BY <2>0, <2>1, <3>1, <3>2, FlattenEmpty
  <2>2. CASE r # << >>
    <3>1. Head(Append(r, x)) = Head(r) /\ Tail(Append(r, x)) = Append(Tail(r), x)
      BY <2>2, HeadTailAppend
    <3>2. Head(r) \in Seq(X) /\ Tail(r) \in Seq(Seq(X))
      BY <2>2, HeadTailProperties
    <3>3. /\ FlattenSeq(r) = Head(r) \o FlattenSeq(Tail(r))
          /\ FlattenSeq(Append(Tail(r), x)) = FlattenSeq(Tail(r)) \o x
          /\ FlattenSeq(Tail(r)) \in Seq(X)
      BY <1>2, <2>2, <3>2, FlattenAppend, FlattenType
    <3>4. (Head(r) \o FlattenSeq(Tail(r))) \o x = Head(r) \o (FlattenSeq(Tail(r)) \o x)
      <4> DEFINE first == Head(r)
                 rest == FlattenSeq(Tail(r))
      <4>1. first \in Seq(X) /\ rest \in Seq(X)
        BY <3>2, <3>3
      <4> HIDE DEF first, rest, T
      <4>2. (first \o rest) \o x = first \o (rest \o x)
        BY <4>1, ConcatAssociative, SMTT(40)
      <4> QED
        BY <4>2 DEF first, rest
    <3> QED
      BY <2>0, <3>1, <3>3, <3>4
  <2> QED
    BY <2>1, <2>2
<1>3. Seq(Seq(X)) \subseteq T
  <2> HIDE DEF T
  <2> QED
    BY <1>1, <1>2, InductiveSeqSet
<1> QED
  BY <1>3

\* B[i] is where the sequences behind the i-th one start.
Ends(B, s) ==
  /\ B \in [Nat -> Int] /\ B[0] = 0
  /\ \A i \in 1..Len(s) : B[i] = B[i - 1] + Len(s[i])

\* Element j of the i-th sequence is element B[i - 1] + j of all of them, end
\* to end, and there are no others.
Located(B, s) ==
  /\ Len(FlattenSeq(s)) = B[Len(s)]
  /\ \A i \in 1..Len(s) : \A j \in 1..Len(s[i]) :
       /\ B[i - 1] + j \in 1..B[Len(s)]
       /\ FlattenSeq(s)[B[i - 1] + j] = s[i][j]
  /\ \A p \in 1..B[Len(s)] :
       \E i \in 1..Len(s) : p - B[i - 1] \in 1..Len(s[i])

LEMMA FlattenLocated ==
  ASSUME NEW X, NEW s \in Seq(Seq(X)), NEW B, Ends(B, s)
  PROVE  Located(B, s)
<1> DEFINE T == {r \in Seq(Seq(X)) : Ends(B, r) => Located(B, r)}
<1>1. << >> \in T
  <2>1. << >> \in Seq(Seq(X)) /\ Len(<< >>) = 0
    OBVIOUS
  <2>2. ASSUME Ends(B, << >>) PROVE Located(B, << >>)
    BY <2>2, FlattenEmpty DEF Ends, Located
  <2> QED
    BY <2>1, <2>2
<1>2. ASSUME NEW r \in Seq(Seq(X)), NEW x \in Seq(X), r \in T PROVE Append(r, x) \in T
  <2> DEFINE t == Append(r, x)
  <2>1. /\ t \in Seq(Seq(X)) /\ Len(t) = Len(r) + 1 /\ t[Len(r) + 1] = x
        /\ \A i \in 1..Len(r) : t[i] = r[i]
        /\ FlattenSeq(t) = FlattenSeq(r) \o x
        /\ FlattenSeq(r) \in Seq(X)
    BY FlattenAppend, FlattenType
  <2> SUFFICES ASSUME Ends(B, t) PROVE Located(B, t)
    BY <2>1
  <2> HIDE DEF t
  <2> DEFINE n == Len(r)
  <2>2. n \in Nat /\ Len(t) = n + 1 /\ Len(x) \in Nat
    BY <2>1
  <2>3. /\ Ends(B, r) /\ B[n + 1] = B[n] + Len(x) /\ B[n] \in Int
        /\ B \in [Nat -> Int]
    <3>1. B \in [Nat -> Int] /\ B[0] = 0
      BY DEF Ends
    <3>2. \A i \in 1..Len(t) : B[i] = B[i - 1] + Len(t[i])
      BY DEF Ends
    <3>3. n + 1 \in 1..Len(t) /\ (n + 1) - 1 = n /\ t[n + 1] = x
      BY <2>1, <2>2
    <3>4. \A i \in 1..Len(r) : i \in 1..Len(t) /\ t[i] = r[i]
      BY <2>1
    <3> HIDE DEF n, T
    <3>5. B[n + 1] = B[n] + Len(x) /\ B[n] \in Int
      BY <2>2, <3>1, <3>2, <3>3
    <3>6. \A i \in 1..Len(r) : B[i] = B[i - 1] + Len(r[i])
      BY <3>2, <3>4
    <3> QED
      BY <3>1, <3>5, <3>6 DEF Ends
  <2>4. Located(B, r)
    BY <1>2, <2>3
  <2>5. Len(FlattenSeq(r)) = B[n] /\ B[n] \in Nat
    BY <2>1, <2>4 DEF Located
  <2>6. /\ Len(FlattenSeq(t)) = B[n + 1]
        /\ \A p \in 1..B[n] : FlattenSeq(t)[p] = FlattenSeq(r)[p]
        /\ \A j \in 1..Len(x) : FlattenSeq(t)[B[n] + j] = x[j]
    <3> DEFINE f == FlattenSeq(r)
    <3>1. f \in Seq(X) /\ FlattenSeq(t) = f \o x /\ Len(f) = B[n]
      BY <2>1, <2>5
    <3> HIDE DEF f, n, T
    <3>2. /\ Len(f \o x) = B[n] + Len(x)
          /\ \A p \in 1..B[n] : (f \o x)[p] = f[p]
          /\ \A j \in 1..Len(x) : (f \o x)[B[n] + j] = x[j]
      BY <2>5, <3>1, SMTT(40)
    <3> QED
      BY <2>3, <3>1, <3>2 DEF f
  <2> HIDE DEF n
  <2>7. ASSUME NEW i \in 1..Len(t), NEW j \in 1..Len(t[i])
        PROVE  B[i - 1] + j \in 1..B[n + 1] /\ FlattenSeq(t)[B[i - 1] + j] = t[i][j]
    <3>1. CASE i = n + 1
      <4>1. i - 1 = n /\ t[i] = x
        BY <2>1, <2>2, <3>1 DEF n
      <4>2. B[n] + j \in 1..B[n + 1]
        BY <2>2, <2>3, <2>5, <2>7, <4>1, SMTT(40)
      <4> QED
        BY <2>6, <2>7, <4>1, <4>2
    <3>2. CASE i # n + 1
      <4>1. i \in 1..Len(r) /\ t[i] = r[i] /\ j \in 1..Len(r[i])
        BY <2>1, <2>2, <2>7, <3>2, SMTT(40) DEF n
      <4>2. B[i - 1] + j \in 1..B[n] /\ FlattenSeq(r)[B[i - 1] + j] = r[i][j]
        BY <2>4, <4>1 DEF Located, n
      <4>3. B[i - 1] + j \in 1..B[n + 1]
        <5>1. B[n + 1] \in Int /\ B[n] <= B[n + 1]
          BY <2>2, <2>3, <2>5
        <5> QED
          BY <2>5, <4>2, <5>1, SMTT(40)
      <4> QED
        BY <2>6, <4>1, <4>2, <4>3
    <3> QED
      BY <3>1, <3>2
  <2>8. ASSUME NEW p \in 1..B[n + 1]
        PROVE  \E i \in 1..Len(t) : p - B[i - 1] \in 1..Len(t[i])
    <3>1. CASE p <= B[n]
      <4>1. PICK i \in 1..Len(r) : p - B[i - 1] \in 1..Len(r[i])
        BY <2>3, <2>4, <2>5, <3>1 DEF Located, n
      <4>2. i \in 1..Len(t) /\ t[i] = r[i]
        BY <2>1
      <4> QED
        BY <4>1, <4>2
    <3>2. CASE p > B[n]
      <4>1. n + 1 \in 1..Len(t) /\ (n + 1) - 1 = n /\ t[n + 1] = x
        BY <2>1, <2>2 DEF n
      <4>2. p - B[n] \in 1..Len(x)
        BY <2>2, <2>3, <2>5, <3>2, SMTT(40)
      <4> QED
        BY <4>1, <4>2
    <3> QED
      BY <2>5, <3>1, <3>2
  <2> QED
    BY <2>2, <2>6, <2>7, <2>8 DEF Located
<1>3. Seq(Seq(X)) \subseteq T
  <2> HIDE DEF T
  <2> QED
    BY <1>1, <1>2, InductiveSeqSet
<1> QED
  BY <1>3

\* Sums of sizes never go down.
LEMMA SumsGrow ==
  ASSUME NEW B \in [Nat -> Int], NEW n \in Nat, \A i \in 0..(n - 1) : B[i] <= B[i + 1]
  PROVE  \A i, j \in 0..n : i <= j => B[i] <= B[j]
<1> SUFFICES ASSUME NEW i \in 0..n PROVE \A j \in 0..n : i <= j => B[i] <= B[j]
  OBVIOUS
<1> DEFINE S == {k \in Nat : i + k <= n => B[i] <= B[i + k]}
<1>1. 0 \in S
  OBVIOUS
<1>2. ASSUME NEW k \in Nat, k \in S PROVE k + 1 \in S
  <2> SUFFICES ASSUME i + (k + 1) <= n PROVE B[i] <= B[i + (k + 1)]
    OBVIOUS
  <2>1. B[i] <= B[i + k]
    BY <1>2
  <2>2. i + k \in 0..(n - 1) /\ (i + k) + 1 = i + (k + 1)
    OBVIOUS
  <2>3. B[i + k] <= B[i + (k + 1)] /\ B[i] \in Int /\ B[i + k] \in Int /\ B[i + (k + 1)] \in Int
    BY <2>2
  <2> QED
    BY <2>1, <2>3
<1>3. Nat \subseteq S
  <2> HIDE DEF S
  <2> QED
    BY <1>1, <1>2, InductiveSet
<1>4. ASSUME NEW j \in 0..n, i <= j PROVE B[i] <= B[j]
  <2>1. j - i \in Nat /\ i + (j - i) = j
    BY <1>4
  <2>2. i + (j - i) <= n => B[i] <= B[i + (j - i)]
    BY <1>3, <2>1
  <2> QED
    BY <2>1, <2>2
<1> QED
  BY <1>4

\* Two sums that grow by the same amounts for n steps, one from index a and the
\* other from index b, have grown by the same amount after them.
SameSteps(f, a, g, b, n) ==
  \A k \in 0..(n - 1) : f[(a + k) + 1] - f[a + k] = g[(b + k) + 1] - g[b + k]

GrowAlike(f, a, g, b, n) == \A k \in 0..n : f[a + k] - f[a] = g[b + k] - g[b]

LEMMA SumsAgree ==
  ASSUME NEW f \in [Nat -> Int], NEW g \in [Nat -> Int],
         NEW a \in Nat, NEW b \in Nat, NEW n \in Nat, SameSteps(f, a, g, b, n)
  PROVE  GrowAlike(f, a, g, b, n)
<1> DEFINE S == {k \in Nat : k <= n => f[a + k] - f[a] = g[b + k] - g[b]}
<1>1. 0 \in S
  <2>1. a + 0 = a /\ b + 0 = b /\ f[a] - f[a] = 0 /\ g[b] - g[b] = 0
    OBVIOUS
  <2> QED
    BY <2>1
<1>2. ASSUME NEW k \in Nat, k \in S PROVE k + 1 \in S
  <2> SUFFICES ASSUME k + 1 <= n
               PROVE  f[a + (k + 1)] - f[a] = g[b + (k + 1)] - g[b]
    OBVIOUS
  <2>1. f[a + k] - f[a] = g[b + k] - g[b]
    BY <1>2
  <2>2. k \in 0..(n - 1) /\ (a + k) + 1 = a + (k + 1) /\ (b + k) + 1 = b + (k + 1)
    OBVIOUS
  <2>3. f[a + (k + 1)] - f[a + k] = g[b + (k + 1)] - g[b + k]
    BY <2>2 DEF SameSteps
  <2>4. /\ f[a] \in Int /\ f[a + k] \in Int /\ f[a + (k + 1)] \in Int
        /\ g[b] \in Int /\ g[b + k] \in Int /\ g[b + (k + 1)] \in Int
    OBVIOUS
  <2> QED
    BY <2>1, <2>3, <2>4
<1>3. Nat \subseteq S
  <2> HIDE DEF S
  <2> QED
    BY <1>1, <1>2, InductiveSet
<1> QED
  BY <1>3 DEF GrowAlike

\* What is behind u in a sequence is a suffix of it.
LEMMA SuffixIntro ==
  ASSUME NEW X, NEW u \in Seq(X), NEW s \in Seq(X)
  PROVE  IsSuffix(s, u \o s)
<1> DEFINE t == u \o s
           r == Reverse(s)
           q == Reverse(t)
           n == Len(s)
<1>1. /\ t \in Seq(X) /\ n \in Nat /\ Len(t) = Len(u) + n /\ Len(u) \in Nat
      /\ \A i \in 1..n : t[Len(u) + i] = s[i]
  OBVIOUS
<1>2. r = [i \in 1..n |-> s[(n - i) + 1]] /\ q = [i \in 1..Len(t) |-> t[(Len(t) - i) + 1]]
  BY DEF Reverse
<1> HIDE DEF t, r, q, n
<1>3. /\ \A i \in 1..n : (n - i) + 1 \in 1..n
      /\ \A i \in 1..Len(t) : (Len(t) - i) + 1 \in 1..Len(t)
  BY <1>1
<1>4. r \in Seq(X) /\ Len(r) = n /\ q \in Seq(X) /\ Len(q) = Len(t)
  BY <1>1, <1>2, <1>3 DEF n
<1>5. ASSUME NEW i \in 1..n PROVE r[i] = q[i]
  <2>1. i \in 1..Len(t) /\ (Len(t) - i) + 1 = Len(u) + ((n - i) + 1)
    BY <1>1
  <2>2. q[i] = t[Len(u) + ((n - i) + 1)]
    BY <1>2, <2>1
  <2>3. t[Len(u) + ((n - i) + 1)] = s[(n - i) + 1]
    BY <1>1, <1>3
  <2> QED
    BY <1>2, <2>2, <2>3
<1>6. n <= Len(t)
  BY <1>1
<1>7. SubSeq(r, 1, n) = [i \in 1..n |-> r[i]] /\ SubSeq(q, 1, n) = [i \in 1..n |-> q[i]]
  BY <1>1, <1>4, <1>6
<1>8. IsPrefix(r, q)
  BY <1>4, <1>5, <1>6, <1>7 DEF IsPrefix
<1> QED
  BY <1>8 DEF IsSuffix, r, q, t
=============================================================================
