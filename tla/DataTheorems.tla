---------------------------- MODULE DataTheorems ----------------------------
(***************************************************************************)
(* Facts about data that proofs of several modules need:                   *)
(*   - a least number in place of induction, functions defined by          *)
(*     recursion on the numbers, and the joining of a sequence of          *)
(*     sequences (FlattenSeq);                                             *)
(*   - what sequences contain, and sequences of numbers that grow;         *)
(*   - the elements of a finite set, each behind those before it;          *)
(*   - division.                                                           *)
(*                                                                         *)
(* An induction over P is an argument by the least number that has not P,  *)
(* and a recursion is given by a set, its steps.                           *)
(***************************************************************************)
EXTENDS Integers, SequencesExt, SequenceTheorems, FiniteSetTheorems,
        WellFoundedInduction, TLAPS

(* A set of numbers that is not empty has a least one.                     *)
LEMMA LeastNumber ==
    ASSUME NEW T \in SUBSET Nat, T # {}
    PROVE  \E n \in T : \A m \in T : n <= m
  <1>1. PICK n \in T : \A m \in T : ~(<<m, n>> \in OpToRel(<, Nat))
    BY NatLessThanWellFounded, WFMin
  <1>2. ASSUME NEW m \in T
        PROVE  n <= m
    <2>1. ~(m < n)
      BY <1>1, <1>2 DEF OpToRel
    <2>2. QED BY <2>1
  <1>3. QED BY <1>2

(* What holds of 0, and of n + 1 when of n, holds of all numbers.          *)
LEMMA SetInduction ==
    ASSUME NEW T, 0 \in T, \A n \in Nat : n \in T => n + 1 \in T
    PROVE  Nat \subseteq T
  <1> SUFFICES ASSUME Nat \ T # {}
               PROVE  FALSE
    OBVIOUS
  <1>1. PICK n \in Nat \ T : \A m \in Nat \ T : n <= m
    BY LeastNumber
  <1>2. n # 0 /\ n - 1 \in Nat /\ (n - 1) + 1 = n
    BY <1>1
  <1>3. n - 1 \in T
    BY <1>1, <1>2
  <1>4. QED BY <1>1, <1>2, <1>3

-----------------------------------------------------------------------------
(* A sequence joined as FlattenSeq joins it: f[i] is the first i elements, *)
(* one behind the other.                                                   *)
Joins(f, ss) == f = [i \in 1..Len(ss) |-> IF i = 1 THEN ss[i] ELSE f[i - 1] \o ss[i]]

(* There is such a function: one for n elements extends to n + 1.          *)
LEMMA JoinsExists ==
    ASSUME NEW S, NEW ss \in Seq(Seq(S))
    PROVE  \E f : Joins(f, ss)
  <1> DEFINE Prefix(n, f) == f = [i \in 1..n |-> IF i = 1 THEN ss[i] ELSE f[i - 1] \o ss[i]]
             T == {n \in Nat : \E f : Prefix(n, f)}
  <1>1. 0 \in T
    <2>1. Prefix(0, <<>>)
      BY DEF Prefix
    <2>2. QED BY <2>1
  <1>2. ASSUME NEW n \in Nat, n \in T
        PROVE  n + 1 \in T
    <2>1. PICK f : Prefix(n, f)
      BY <1>2
    <2> DEFINE last == IF n + 1 = 1 THEN ss[n + 1] ELSE f[n] \o ss[n + 1]
               g == [i \in 1..(n + 1) |-> IF i = n + 1 THEN last ELSE f[i]]
    <2>2. ASSUME NEW i \in 1..(n + 1)
          PROVE  g[i] = IF i = 1 THEN ss[i] ELSE g[i - 1] \o ss[i]
      <3>1. CASE i = n + 1
        <4>1. g[i] = last
          BY <3>1
        <4>2. CASE n = 0
          BY <3>1, <4>1, <4>2
        <4>3. CASE n # 0
          <5>1. i # 1 /\ i - 1 = n /\ i - 1 \in 1..(n + 1) /\ i - 1 # n + 1
            BY <3>1, <4>3
          <5>2. g[i - 1] = f[n]
            BY <5>1
          <5>3. QED BY <3>1, <4>1, <4>3, <5>1, <5>2
        <4>4. QED BY <4>2, <4>3
      <3>2. CASE i # n + 1
        <4>1. i \in 1..n
          BY <3>2
        <4>2. g[i] = f[i] /\ f[i] = IF i = 1 THEN ss[i] ELSE f[i - 1] \o ss[i]
          BY <2>1, <3>2, <4>1
        <4>3. CASE i = 1
          BY <4>2, <4>3
        <4>4. CASE i # 1
          <5>1. i - 1 \in 1..(n + 1) /\ i - 1 # n + 1
            BY <4>1, <4>4
          <5>2. g[i - 1] = f[i - 1]
            BY <5>1
          <5>3. QED BY <4>2, <4>4, <5>2
        <4>5. QED BY <4>3, <4>4
      <3>3. QED BY <3>1, <3>2
    <2>3. Prefix(n + 1, g)
      BY <2>2
    <2> HIDE DEF g, Prefix
    <2>4. n + 1 \in Nat /\ \E h : Prefix(n + 1, h)
      BY <2>3
    <2>5. QED BY <2>4
  <1> HIDE DEF T
  <1>3. Len(ss) \in T
    BY <1>1, <1>2, SetInduction, SMTT(30)
  <1>4. QED BY <1>3 DEF T, Joins

(* FlattenSeq joins, whichever such function it takes.                     *)
LEMMA FlattenJoins ==
    ASSUME NEW S, NEW ss \in Seq(Seq(S)), ss # <<>>
    PROVE  \E f : Joins(f, ss) /\ FlattenSeq(ss) = f[Len(ss)]
  <1> DEFINE f == CHOOSE f : Joins(f, ss)
  <1>1. Len(ss) \in Nat /\ Len(ss) # 0
    BY EmptySeq
  <1>2. Joins(f, ss)
    BY JoinsExists
  <1>3. FlattenSeq(ss) = f[Len(ss)]
    BY <1>1 DEF FlattenSeq, Joins
  <1>4. QED BY <1>2, <1>3

(* Its values, one by one.                                                 *)
LEMMA JoinsAt ==
    ASSUME NEW ss, NEW f, Joins(f, ss), NEW i \in 1..Len(ss)
    PROVE  f[i] = IF i = 1 THEN ss[i] ELSE f[i - 1] \o ss[i]
  <1> DEFINE g == [j \in 1..Len(ss) |-> IF j = 1 THEN ss[j] ELSE f[j - 1] \o ss[j]]
  <1>1. g[i] = IF i = 1 THEN ss[i] ELSE f[i - 1] \o ss[i]
    OBVIOUS
  <1>2. f = g
    BY DEF Joins
  <1> HIDE DEF g
  <1>3. f[i] = g[i]
    BY <1>2
  <1>4. QED BY <1>1, <1>3

(* Its values are sequences over the set of the elements.                  *)
LEMMA JoinsType ==
    ASSUME NEW S, NEW ss \in Seq(Seq(S)), NEW f, Joins(f, ss)
    PROVE  \A i \in 1..Len(ss) : f[i] \in Seq(S)
  <1> DEFINE T == {i \in Nat : i \in 1..Len(ss) => f[i] \in Seq(S)}
  <1>1. 0 \in T
    OBVIOUS
  <1>2. ASSUME NEW n \in Nat, n \in T
        PROVE  n + 1 \in T
    <2> SUFFICES ASSUME n + 1 \in 1..Len(ss)
                 PROVE  f[n + 1] \in Seq(S)
      OBVIOUS
    <2>1. ss[n + 1] \in Seq(S)
      <3> DEFINE U == Seq(S)
      <3>1. ss \in Seq(U)
        OBVIOUS
      <3> HIDE DEF U
      <3>2. ss[n + 1] \in U
        BY <3>1, ElementOfSeq
      <3>3. QED BY <3>2 DEF U
    <2>2. f[n + 1] = IF n + 1 = 1 THEN ss[n + 1] ELSE f[n + 1 - 1] \o ss[n + 1]
      BY JoinsAt
    <2>3. CASE n = 0
      BY <2>1, <2>2, <2>3
    <2>4. CASE n # 0
      <3>1. n \in 1..Len(ss) /\ n + 1 # 1 /\ n + 1 - 1 = n
        BY <2>4
      <3>2. f[n] \in Seq(S) /\ f[n + 1] = f[n] \o ss[n + 1]
        BY <1>2, <2>2, <3>1
      <3>3. QED BY <2>1, <3>2, ConcatProperties
    <2>5. QED BY <2>3, <2>4
  <1> HIDE DEF T
  <1>3. Nat \subseteq T
    BY <1>1, <1>2, SetInduction
  <1>4. QED BY <1>3 DEF T

(* What is joined first does not depend on what comes after.               *)
Begins(ss, tt) == Len(ss) <= Len(tt) /\ \A i \in 1..Len(ss) : ss[i] = tt[i]

(* Joins of sequences that begin alike agree as far as they do.            *)
LEMMA JoinsAgree ==
    ASSUME NEW S, NEW ss \in Seq(Seq(S)), NEW tt \in Seq(Seq(S)), NEW f, NEW g,
           Joins(f, ss), Joins(g, tt),
           Begins(ss, tt)
    PROVE  \A i \in 1..Len(ss) : f[i] = g[i]
  <1> DEFINE T == {i \in Nat : i \in 1..Len(ss) => f[i] = g[i]}
  <1> USE DEF Begins
  <1>1. 0 \in T
    OBVIOUS
  <1>2. ASSUME NEW k \in Nat, k \in T
        PROVE  k + 1 \in T
    <2> SUFFICES ASSUME k + 1 \in 1..Len(ss)
                 PROVE  f[k + 1] = g[k + 1]
      OBVIOUS
    <2>1. k + 1 \in 1..Len(ss) /\ k + 1 \in 1..Len(tt)
      OBVIOUS
    <2>2. /\ f[k + 1] = IF k + 1 = 1 THEN ss[k + 1] ELSE f[k + 1 - 1] \o ss[k + 1]
          /\ g[k + 1] = IF k + 1 = 1 THEN tt[k + 1] ELSE g[k + 1 - 1] \o tt[k + 1]
      BY <2>1, JoinsAt
    <2>3. CASE k = 0
      BY <2>2, <2>3
    <2>4. CASE k # 0
      <3>1. k \in 1..Len(ss) /\ k + 1 - 1 = k
        BY <2>4
      <3>2. f[k] = g[k]
        BY <1>2, <3>1
      <3>3. QED BY <2>2, <3>1, <3>2
    <2>5. QED BY <2>3, <2>4
  <1> HIDE DEF T
  <1>3. Nat \subseteq T
    BY <1>1, <1>2, SetInduction
  <1>4. QED BY <1>3 DEF T

-----------------------------------------------------------------------------
(* FlattenSeq.                                                             *)

(* Nothing joined is nothing.                                              *)
LEMMA FlattenEmpty == FlattenSeq(<<>>) = <<>>
  BY DEF FlattenSeq

(* The result is a sequence over the set of the elements.                  *)
LEMMA FlattenType ==
    ASSUME NEW S, NEW ss \in Seq(Seq(S))
    PROVE  FlattenSeq(ss) \in Seq(S)
  <1>1. CASE ss = <<>>
    <2>1. <<>> \in Seq(S)
      BY EmptySeq
    <2>2. QED BY <1>1, <2>1, FlattenEmpty
  <1>2. CASE ss # <<>>
    <2>1. PICK f : Joins(f, ss) /\ FlattenSeq(ss) = f[Len(ss)]
      BY <1>2, FlattenJoins
    <2>2. Len(ss) \in 1..Len(ss)
      BY <1>2, EmptySeq
    <2>3. QED BY <2>1, <2>2, JoinsType
  <1>3. QED BY <1>1, <1>2

(* One sequence is joined to itself.                                       *)
LEMMA FlattenOne ==
    ASSUME NEW S, NEW s \in Seq(S)
    PROVE  FlattenSeq(<<s>>) = s
  <1>1. <<s>> \in Seq(Seq(S)) /\ <<s>> # <<>> /\ Len(<<s>>) = 1 /\ <<s>>[1] = s
    OBVIOUS
  <1>2. PICK f : Joins(f, <<s>>) /\ FlattenSeq(<<s>>) = f[Len(<<s>>)]
    BY <1>1, FlattenJoins
  <1>3. f[1] = s
    <2>1. 1 \in 1..Len(<<s>>)
      BY <1>1
    <2>2. QED BY <1>1, <1>2, <2>1, JoinsAt
  <1>4. QED BY <1>1, <1>2, <1>3

(* What is appended comes last.                                            *)
LEMMA FlattenAppend ==
    ASSUME NEW S, NEW ss \in Seq(Seq(S)), NEW s \in Seq(S)
    PROVE  FlattenSeq(Append(ss, s)) = FlattenSeq(ss) \o s
  <1> DEFINE U == Seq(S)
             tt == Append(ss, s)
             n == Len(ss)
  <1>1. ss \in Seq(U) /\ s \in U
    OBVIOUS
  <1> HIDE DEF U
  <1>2. /\ tt \in Seq(U) /\ Len(tt) = n + 1 /\ tt[n + 1] = s /\ n \in Nat
        /\ \A i \in 1..n : ss[i] = tt[i]
    BY <1>1, AppendProperties, LenProperties
  <1>3. tt # <<>> /\ tt \in Seq(Seq(S))
    <2>1. tt # <<>>
      BY <1>1, AppendProperties
    <2>2. QED BY <1>2, <2>1 DEF U
  <1> HIDE DEF tt
  <1>4. PICK g : Joins(g, tt) /\ FlattenSeq(tt) = g[Len(tt)]
    BY <1>3, FlattenJoins
  <1>5. g[n + 1] = IF n + 1 = 1 THEN tt[n + 1] ELSE g[n + 1 - 1] \o tt[n + 1]
    <2>1. n + 1 \in 1..Len(tt)
      BY <1>2
    <2>2. QED BY <1>4, <2>1, JoinsAt
  <1>6. CASE ss = <<>>
    <2>1. n = 0
      BY <1>6
    <2>2. FlattenSeq(tt) = s
      BY <1>2, <1>4, <1>5, <2>1
    <2>3. <<>> \o s = s
      OBVIOUS
    <2>4. QED BY <1>6, <2>2, <2>3, FlattenEmpty DEF tt
  <1>7. CASE ss # <<>>
    <2>1. PICK f : Joins(f, ss) /\ FlattenSeq(ss) = f[n]
      BY <1>7, FlattenJoins
    <2>2. n # 0 /\ n \in 1..n /\ n <= n + 1
      BY <1>1, <1>2, <1>7, EmptySeq
    <2>3. f[n] = g[n]
      <3>1. Begins(ss, tt)
        BY <1>2 DEF Begins
      <3>2. \A i \in 1..Len(ss) : f[i] = g[i]
        BY <1>3, <1>4, <2>1, <3>1, JoinsAgree
      <3>3. QED BY <2>2, <3>2
    <2>4. FlattenSeq(tt) = g[n] \o s
      BY <1>2, <1>4, <1>5, <2>2
    <2>5. QED BY <2>1, <2>3, <2>4 DEF tt
  <1>8. QED BY <1>6, <1>7

(* The first sequence comes first.                                         *)
LEMMA FlattenCons ==
    ASSUME NEW S, NEW s \in Seq(S), NEW ss \in Seq(Seq(S))
    PROVE  FlattenSeq(<<s>> \o ss) = s \o FlattenSeq(ss)
  <1> DEFINE First(n) == SubSeq(ss, 1, n)
             T == {n \in Nat : n <= Len(ss) =>
                      FlattenSeq(<<s>> \o First(n)) = s \o FlattenSeq(First(n))}
             U == Seq(S)
  <1>1. Len(ss) \in Nat /\ ss \in Seq(U) /\ s \in U /\ <<s>> \in Seq(U)
    OBVIOUS
  <1> HIDE DEF U
  <1>2. 0 \in T
    <2>1. First(0) = <<>>
      BY <1>1
    <2>2. <<s>> \o <<>> = <<s>> /\ s \o <<>> = s
      BY <1>1, ConcatEmptySeq
    <2>3. QED BY <2>1, <2>2, FlattenEmpty, FlattenOne
  <1>3. ASSUME NEW n \in Nat, n \in T
        PROVE  n + 1 \in T
    <2> HIDE DEF First
    <2> SUFFICES ASSUME n + 1 <= Len(ss)
                 PROVE  FlattenSeq(<<s>> \o First(n + 1)) = s \o FlattenSeq(First(n + 1))
      <3>1. n + 1 \in Nat
        OBVIOUS
      <3>2. QED BY <3>1
    <2> USE DEF First
    <2>1. n <= Len(ss) /\ n + 1 \in 1..Len(ss)
      BY <1>1
    <2>2. First(n) \in Seq(U) /\ ss[n + 1] \in U
      BY <1>1, <2>1, ElementOfSeq
    <2>3. First(n + 1) = Append(First(n), ss[n + 1])
      BY <1>1, <2>1
    <2>4. <<s>> \o First(n + 1) = Append(<<s>> \o First(n), ss[n + 1])
      <3> DEFINE p == First(n)
                 x == ss[n + 1]
                 q == <<s>>
      <3>1. p \in Seq(U) /\ x \in U /\ q \in Seq(U) /\ <<x>> \in Seq(U) /\ q \o p \in Seq(U)
        BY <1>1, <2>2, ConcatProperties
      <3>2. First(n + 1) = Append(p, x)
        BY <2>3
      <3> HIDE DEF p, x, q
      <3>3. Append(p, x) = p \o <<x>> /\ Append(q \o p, x) = (q \o p) \o <<x>>
        BY <3>1, AppendIsConcat
      <3>4. (q \o p) \o <<x>> = q \o (p \o <<x>>)
        BY ONLY <3>1, ConcatAssociative, SMTT(30)
      <3>5. q \o First(n + 1) = Append(q \o p, x)
        BY <3>2, <3>3, <3>4
      <3>6. QED BY <3>5 DEF p, x, q
    <2>5. First(n) \in Seq(Seq(S)) /\ <<s>> \o First(n) \in Seq(Seq(S)) /\ ss[n + 1] \in Seq(S)
      <3>1. <<s>> \o First(n) \in Seq(U)
        BY <1>1, <2>2, ConcatProperties
      <3>2. QED BY <2>2, <3>1 DEF U
    <2> HIDE DEF First
    <2>6. FlattenSeq(<<s>> \o First(n)) = s \o FlattenSeq(First(n))
      BY <1>3, <2>1
    <2>7. FlattenSeq(<<s>> \o First(n + 1)) = (s \o FlattenSeq(First(n))) \o ss[n + 1]
      BY <2>4, <2>5, <2>6, FlattenAppend, ZenonT(40)
    <2>8. FlattenSeq(First(n + 1)) = FlattenSeq(First(n)) \o ss[n + 1]
      BY <2>3, <2>5, FlattenAppend
    <2>9. FlattenSeq(First(n)) \in Seq(S)
      BY <2>5, FlattenType
    <2>10. (s \o FlattenSeq(First(n))) \o ss[n + 1] = s \o (FlattenSeq(First(n)) \o ss[n + 1])
      <3> DEFINE p == FlattenSeq(First(n))
                 x == ss[n + 1]
      <3>1. p \in Seq(S) /\ x \in Seq(S) /\ s \in Seq(S)
        BY <2>5, <2>9
      <3> HIDE DEF p, x
      <3>2. (s \o p) \o x = s \o (p \o x)
        BY ONLY <3>1, ConcatAssociative, SMTT(30)
      <3>3. QED BY <3>2 DEF p, x
    <2>11. QED BY <2>7, <2>8, <2>10
  <1> HIDE DEF T
  <1>4. Len(ss) \in T
    BY <1>1, <1>2, <1>3, SetInduction
  <1>5. First(Len(ss)) = ss
    BY <1>1
  <1> HIDE DEF First
  <1>6. Len(ss) <= Len(ss)
    BY <1>1
  <1>7. QED BY <1>4, <1>5, <1>6 DEF T

(* The elements of a sequence of sequences of one length.                  *)
LEMMA FlattenLen ==
    ASSUME NEW S, NEW ss \in Seq(Seq(S)), NEW k \in Nat, \A i \in 1..Len(ss) : Len(ss[i]) = k
    PROVE  Len(FlattenSeq(ss)) = Len(ss) * k
  <1> DEFINE First(n) == SubSeq(ss, 1, n)
             T == {n \in Nat : n <= Len(ss) => Len(FlattenSeq(First(n))) = n * k}
             U == Seq(S)
  <1>1. Len(ss) \in Nat /\ ss \in Seq(U)
    OBVIOUS
  <1> HIDE DEF U
  <1>2. 0 \in T
    <2>1. First(0) = <<>>
      BY <1>1
    <2>2. FlattenSeq(First(0)) = <<>>
      BY <2>1, FlattenEmpty
    <2> HIDE DEF First
    <2>3. QED BY <2>2
  <1>3. ASSUME NEW n \in Nat, n \in T
        PROVE  n + 1 \in T
    <2> SUFFICES ASSUME n + 1 <= Len(ss)
                 PROVE  Len(FlattenSeq(First(n + 1))) = (n + 1) * k
      OBVIOUS
    <2>1. n <= Len(ss) /\ n + 1 \in 1..Len(ss)
      BY <1>1
    <2>2. First(n) \in Seq(U) /\ ss[n + 1] \in U
      BY <1>1, <2>1, ElementOfSeq
    <2>3. First(n + 1) = Append(First(n), ss[n + 1])
      BY <1>1, <2>1
    <2> HIDE DEF First
    <2>4. Len(FlattenSeq(First(n))) = n * k /\ Len(ss[n + 1]) = k
      BY <1>3, <2>1
    <2>5. First(n) \in Seq(Seq(S)) /\ ss[n + 1] \in Seq(S)
      BY <2>2 DEF U
    <2>6. FlattenSeq(First(n + 1)) = FlattenSeq(First(n)) \o ss[n + 1]
      BY <2>3, <2>5, FlattenAppend
    <2>7. FlattenSeq(First(n)) \in Seq(S)
      BY <2>5, FlattenType
    <2>8. Len(FlattenSeq(First(n + 1))) = n * k + k
      BY <2>4, <2>5, <2>6, <2>7, ConcatProperties
    <2>9. QED BY <2>8
  <1> HIDE DEF T
  <1>4. Len(ss) \in T
    BY <1>1, <1>2, <1>3, SetInduction
  <1>5. First(Len(ss)) = ss
    BY <1>1
  <1> HIDE DEF First
  <1>6. Len(ss) <= Len(ss)
    BY <1>1
  <1>7. QED BY <1>4, <1>5, <1>6 DEF T

-----------------------------------------------------------------------------
(* What a sequence contains.                                               *)

(* A sequence behind another contains what either does.                    *)
LEMMA ConcatContains ==
    ASSUME NEW S, NEW s \in Seq(S), NEW t \in Seq(S)
    PROVE  \A x : Contains(s \o t, x) <=> Contains(s, x) \/ Contains(t, x)
  <1> DEFINE u == s \o t
  <1>1. /\ u \in Seq(S) /\ Len(u) = Len(s) + Len(t) /\ Len(s) \in Nat /\ Len(t) \in Nat
        /\ \A i \in 1..Len(u) : u[i] = IF i <= Len(s) THEN s[i] ELSE t[i - Len(s)]
    BY ConcatProperties, LenProperties
  <1> HIDE DEF u
  <1>2. ASSUME NEW x, Contains(u, x)
        PROVE  Contains(s, x) \/ Contains(t, x)
    <2>1. PICK i \in 1..Len(u) : u[i] = x
      BY <1>2 DEF Contains
    <2>2. CASE i <= Len(s)
      <3>1. i \in 1..Len(s) /\ s[i] = x
        BY <1>1, <2>1, <2>2
      <3> QED BY <3>1 DEF Contains
    <2>3. CASE ~(i <= Len(s))
      <3>1. i - Len(s) \in 1..Len(t) /\ t[i - Len(s)] = x
        BY <1>1, <2>1, <2>3
      <3> QED BY <3>1 DEF Contains
    <2> QED BY <2>2, <2>3
  <1>3. ASSUME NEW x, Contains(s, x)
        PROVE  Contains(u, x)
    <2>1. PICK i \in 1..Len(s) : s[i] = x
      BY <1>3 DEF Contains
    <2>2. i \in 1..Len(u) /\ u[i] = x
      BY <1>1, <2>1
    <2> QED BY <2>2 DEF Contains
  <1>4. ASSUME NEW x, Contains(t, x)
        PROVE  Contains(u, x)
    <2>1. PICK i \in 1..Len(t) : t[i] = x
      BY <1>4 DEF Contains
    <2>2. /\ i + Len(s) \in 1..Len(u) /\ ~(i + Len(s) <= Len(s))
          /\ (i + Len(s)) - Len(s) = i
      BY <1>1
    <2>3. u[i + Len(s)] = x
      BY <1>1, <2>1, <2>2
    <2> QED BY <2>2, <2>3 DEF Contains
  <1> QED BY <1>2, <1>3, <1>4 DEF u

(* A suffix contains nothing else.                                         *)
LEMMA SuffixContains ==
    ASSUME NEW S, NEW s \in Seq(S), NEW m \in 1..(Len(s) + 1)
    PROVE  /\ SubSeq(s, m, Len(s)) \in Seq(S)
           /\ Len(SubSeq(s, m, Len(s))) = Len(s) - m + 1
           /\ \A i \in 1..(Len(s) - m + 1) : SubSeq(s, m, Len(s))[i] = s[m + i - 1]
           /\ \A x : Contains(SubSeq(s, m, Len(s)), x) <=> \E i \in m..Len(s) : s[i] = x
  <1> DEFINE u == SubSeq(s, m, Len(s))
  <1>1. /\ u \in Seq(S) /\ Len(s) \in Nat /\ Len(u) = Len(s) - m + 1
        /\ \A i \in 1..(Len(s) - m + 1) : u[i] = s[m + i - 1]
    BY SubSeqProperties, LenProperties
  <1> HIDE DEF u
  <1>2. ASSUME NEW x, Contains(u, x)
        PROVE  \E i \in m..Len(s) : s[i] = x
    <2>1. PICK i \in 1..Len(u) : u[i] = x
      BY <1>2 DEF Contains
    <2>2. m + i - 1 \in m..Len(s) /\ s[m + i - 1] = x
      BY <1>1, <2>1
    <2> QED BY <2>2
  <1>3. ASSUME NEW i \in m..Len(s)
        PROVE  Contains(u, s[i])
    <2>1. i - m + 1 \in 1..Len(u) /\ m + (i - m + 1) - 1 = i
      BY <1>1
    <2>2. u[i - m + 1] = s[i]
      BY <1>1, <2>1
    <2> QED BY <2>1, <2>2 DEF Contains
  <1> QED BY <1>1, <1>2, <1>3 DEF u

(* Joined sequences contain what one of them does.                         *)
LEMMA FlattenContains ==
    ASSUME NEW S, NEW ss \in Seq(Seq(S))
    PROVE  \A x : Contains(FlattenSeq(ss), x) <=> \E k \in 1..Len(ss) : Contains(ss[k], x)
  <1> DEFINE First(n) == SubSeq(ss, 1, n)
             Same(n) == \A x : Contains(FlattenSeq(First(n)), x) <=>
                                  \E k \in 1..n : Contains(ss[k], x)
             T == {n \in Nat : n <= Len(ss) => Same(n)}
             U == Seq(S)
  <1>1. Len(ss) \in Nat /\ ss \in Seq(U)
    OBVIOUS
  <1> HIDE DEF U
  <1>2. 0 \in T
    <2>1. First(0) = <<>>
      BY <1>1
    <2>2. FlattenSeq(First(0)) = <<>>
      BY <2>1, FlattenEmpty
    <2>3. \A x : ~Contains(<<>>, x)
      BY DEF Contains
    <2> HIDE DEF First
    <2> QED BY <2>2, <2>3
  <1>3. ASSUME NEW n \in Nat, n \in T
        PROVE  n + 1 \in T
    <2> SUFFICES ASSUME n + 1 <= Len(ss)
                 PROVE  Same(n + 1)
      OBVIOUS
    <2>1. n <= Len(ss) /\ n + 1 \in 1..Len(ss)
      BY <1>1
    <2>2. First(n) \in Seq(U) /\ ss[n + 1] \in U
      BY <1>1, <2>1, ElementOfSeq
    <2>3. First(n + 1) = Append(First(n), ss[n + 1])
      BY <1>1, <2>1
    <2> HIDE DEF First
    <2>4. First(n) \in Seq(Seq(S)) /\ ss[n + 1] \in Seq(S)
      BY <2>2 DEF U
    <2>5. FlattenSeq(First(n + 1)) = FlattenSeq(First(n)) \o ss[n + 1]
      BY <2>3, <2>4, FlattenAppend
    <2>6. FlattenSeq(First(n)) \in Seq(S)
      BY <2>4, FlattenType
    <2>7. \A x : Contains(FlattenSeq(First(n + 1)), x) <=>
                    Contains(FlattenSeq(First(n)), x) \/ Contains(ss[n + 1], x)
      <3> DEFINE v == FlattenSeq(First(n))
                 w == ss[n + 1]
      <3>1. v \in Seq(S) /\ w \in Seq(S)
        BY <2>4, <2>6
      <3> HIDE DEF v, w
      <3>2. \A x : Contains(v \o w, x) <=> Contains(v, x) \/ Contains(w, x)
        BY <3>1, ConcatContains
      <3> QED BY <2>5, <3>2 DEF v, w
    <2>8. \A x : Contains(FlattenSeq(First(n)), x) <=> \E k \in 1..n : Contains(ss[k], x)
      BY <1>3, <2>1
    <2>9. 1..(n + 1) = (1..n) \cup {n + 1}
      OBVIOUS
    <2> QED BY <2>7, <2>8, <2>9
  <1> HIDE DEF T
  <1>4. Len(ss) \in T
    BY <1>1, <1>2, <1>3, SetInduction
  <1>5. First(Len(ss)) = ss
    BY <1>1
  <1> HIDE DEF First
  <1> QED BY <1>1, <1>4, <1>5 DEF T

(* A sequence without some of its elements, as joined by FlattenSeq.       *)
Without(s, D) == [i \in DOMAIN s |-> IF i \in D THEN <<>> ELSE <<s[i]>>]

(* One sequence for each element, empty where it is in D.                  *)
LEMMA WithoutType ==
    ASSUME NEW S, NEW s \in Seq(S), NEW D
    PROVE  /\ Without(s, D) \in Seq(Seq(S)) /\ Len(Without(s, D)) = Len(s)
           /\ \A k \in 1..Len(s) : \A x : Contains(Without(s, D)[k], x) <=> k \notin D /\ s[k] = x
  <1> DEFINE ss == Without(s, D)
             U == Seq(S)
  <1>1. /\ DOMAIN s = 1..Len(s) /\ Len(s) \in Nat
        /\ \A i \in 1..Len(s) : s[i] \in S
    BY LenProperties, ElementOfSeq
  <1>2. ss = [i \in 1..Len(s) |-> IF i \in D THEN <<>> ELSE <<s[i]>>]
    BY <1>1 DEF Without
  <1>3. \A i \in 1..Len(s) : (IF i \in D THEN <<>> ELSE <<s[i]>>) \in U
    BY <1>1
  <1> HIDE DEF U
  <1>4. ss \in Seq(U) /\ Len(ss) = Len(s)
    BY <1>1, <1>2, <1>3, IsASeq, LenProperties
  <1>5. \A k \in 1..Len(s) : ss[k] = IF k \in D THEN <<>> ELSE <<s[k]>>
    BY <1>2
  <1> HIDE DEF ss
  <1>6. ASSUME NEW k \in 1..Len(s), NEW x
        PROVE  Contains(ss[k], x) <=> k \notin D /\ s[k] = x
    <2>1. ~Contains(<<>>, x)
      BY DEF Contains
    <2>2. Contains(<<s[k]>>, x) <=> s[k] = x
      BY DEF Contains
    <2> QED BY <1>5, <2>1, <2>2
  <1> QED BY <1>4, <1>6 DEF ss, U

(* What is left without the elements of D.                                 *)
LEMMA WithoutContains ==
    ASSUME NEW S, NEW s \in Seq(S), NEW D
    PROVE  /\ FlattenSeq(Without(s, D)) \in Seq(S)
           /\ \A x : Contains(FlattenSeq(Without(s, D)), x) <=>
                        \E k \in 1..Len(s) : k \notin D /\ s[k] = x
  <1> DEFINE ss == Without(s, D)
  <1>1. /\ ss \in Seq(Seq(S)) /\ Len(ss) = Len(s)
        /\ \A k \in 1..Len(s) : \A x : Contains(ss[k], x) <=> k \notin D /\ s[k] = x
    BY WithoutType
  <1> HIDE DEF ss
  <1>2. \A x : Contains(FlattenSeq(ss), x) <=> \E k \in 1..Len(s) : Contains(ss[k], x)
    BY <1>1, FlattenContains
  <1>3. FlattenSeq(ss) \in Seq(S)
    BY <1>1, FlattenType
  <1> QED BY <1>1, <1>2, <1>3 DEF ss

-----------------------------------------------------------------------------
(* Sequences of numbers that grow.                                         *)
Ascending(s) == \A i, j \in 1..Len(s) : i < j => s[i] < s[j]

(* What is in one is less than what is in the other.                       *)
Precedes(s, t) == \A x, y : Contains(s, x) /\ Contains(t, y) => x < y

(* Growing from one element to the next is growing.                        *)
LEMMA AscendingSteps ==
    ASSUME NEW s \in Seq(Int), \A i \in 1..(Len(s) - 1) : s[i] < s[i + 1]
    PROVE  Ascending(s)
  <1> SUFFICES ASSUME NEW i \in 1..Len(s)
               PROVE  \A j \in 1..Len(s) : i < j => s[i] < s[j]
    BY DEF Ascending
  <1> DEFINE T == {n \in Nat : i + n + 1 <= Len(s) => s[i] < s[i + n + 1]}
  <1>1. Len(s) \in Nat /\ \A k \in 1..Len(s) : s[k] \in Int
    BY LenProperties, ElementOfSeq
  <1>2. 0 \in T
    BY <1>1
  <1>3. ASSUME NEW n \in Nat, n \in T
        PROVE  n + 1 \in T
    <2> SUFFICES ASSUME i + (n + 1) + 1 <= Len(s)
                 PROVE  s[i] < s[i + (n + 1) + 1]
      OBVIOUS
    <2> DEFINE k == i + n + 1
    <2>1. /\ k \in 1..(Len(s) - 1) /\ k \in 1..Len(s) /\ k + 1 \in 1..Len(s)
          /\ i + (n + 1) + 1 = k + 1
      BY <1>1
    <2>2. s[i] < s[k] /\ s[k] < s[k + 1] /\ s[i] \in Int /\ s[k] \in Int /\ s[k + 1] \in Int
      BY <1>1, <1>3, <2>1
    <2> HIDE DEF k
    <2> QED BY <2>1, <2>2, SMTT(30)
  <1> HIDE DEF T
  <1>4. Nat \subseteq T
    BY <1>2, <1>3, SetInduction
  <1>5. ASSUME NEW j \in 1..Len(s), i < j
        PROVE  s[i] < s[j]
    <2>1. j - i - 1 \in Nat /\ i + (j - i - 1) + 1 = j
      BY <1>1, <1>5
    <2>2. i + (j - i - 1) + 1 <= Len(s) => s[i] < s[i + (j - i - 1) + 1]
      BY <1>4, <2>1 DEF T
    <2> QED BY <2>1, <2>2
  <1> QED BY <1>5

(* Two that grow, one behind the other, grow when one precedes the other.  *)
LEMMA ConcatAscending ==
    ASSUME NEW s \in Seq(Int), NEW t \in Seq(Int)
    PROVE  Ascending(s \o t) <=> Ascending(s) /\ Ascending(t) /\ Precedes(s, t)
  <1> DEFINE u == s \o t
  <1>1. /\ Len(u) = Len(s) + Len(t) /\ Len(s) \in Nat /\ Len(t) \in Nat
        /\ \A i \in 1..Len(u) : u[i] = IF i <= Len(s) THEN s[i] ELSE t[i - Len(s)]
    BY ConcatProperties, LenProperties
  <1> HIDE DEF u
  <1>2. ASSUME Ascending(u)
        PROVE  Ascending(s)
    <2> SUFFICES ASSUME NEW i \in 1..Len(s), NEW j \in 1..Len(s), i < j
                 PROVE  s[i] < s[j]
      BY DEF Ascending
    <2>1. i \in 1..Len(u) /\ j \in 1..Len(u) /\ u[i] = s[i] /\ u[j] = s[j]
      BY <1>1
    <2> QED BY <1>2, <2>1 DEF Ascending
  <1>3. ASSUME Ascending(u)
        PROVE  Ascending(t)
    <2> SUFFICES ASSUME NEW i \in 1..Len(t), NEW j \in 1..Len(t), i < j
                 PROVE  t[i] < t[j]
      BY DEF Ascending
    <2>1. \A k \in 1..Len(t) :
             /\ k + Len(s) \in 1..Len(u) /\ ~(k + Len(s) <= Len(s))
             /\ (k + Len(s)) - Len(s) = k
      BY <1>1
    <2>2. i + Len(s) < j + Len(s)
      BY <1>1
    <2>3. u[i + Len(s)] = t[i] /\ u[j + Len(s)] = t[j]
      BY <1>1, <2>1
    <2> QED BY <1>3, <2>1, <2>2, <2>3 DEF Ascending
  <1>4. ASSUME Ascending(u)
        PROVE  Precedes(s, t)
    <2> SUFFICES ASSUME NEW i \in 1..Len(s), NEW j \in 1..Len(t)
                 PROVE  s[i] < t[j]
      BY DEF Precedes, Contains
    <2>1. /\ i \in 1..Len(u) /\ j + Len(s) \in 1..Len(u) /\ i < j + Len(s)
          /\ i <= Len(s) /\ ~(j + Len(s) <= Len(s)) /\ (j + Len(s)) - Len(s) = j
      BY <1>1
    <2>2. u[i] = s[i] /\ u[j + Len(s)] = t[j]
      BY <1>1, <2>1
    <2> QED BY <1>4, <2>1, <2>2 DEF Ascending
  <1>5. ASSUME Ascending(s), Ascending(t), Precedes(s, t)
        PROVE  Ascending(u)
    <2> SUFFICES ASSUME NEW i \in 1..Len(u), NEW j \in 1..Len(u), i < j
                 PROVE  u[i] < u[j]
      BY DEF Ascending
    <2>1. CASE j <= Len(s)
      <3>1. i \in 1..Len(s) /\ j \in 1..Len(s) /\ u[i] = s[i] /\ u[j] = s[j]
        BY <1>1, <2>1
      <3> QED BY <1>5, <3>1 DEF Ascending
    <2>2. CASE i <= Len(s) /\ ~(j <= Len(s))
      <3>1. /\ i \in 1..Len(s) /\ j - Len(s) \in 1..Len(t)
            /\ u[i] = s[i] /\ u[j] = t[j - Len(s)]
        BY <1>1, <2>2
      <3>2. Contains(s, u[i]) /\ Contains(t, u[j])
        BY <3>1 DEF Contains
      <3> QED BY <1>5, <3>2 DEF Precedes
    <2>3. CASE ~(i <= Len(s))
      <3>1. /\ i - Len(s) \in 1..Len(t) /\ j - Len(s) \in 1..Len(t)
            /\ i - Len(s) < j - Len(s) /\ ~(j <= Len(s))
        BY <1>1, <2>3
      <3>2. u[i] = t[i - Len(s)] /\ u[j] = t[j - Len(s)]
        BY <1>1, <2>3, <3>1
      <3> QED BY <1>5, <3>1, <3>2 DEF Ascending
    <2> QED BY <2>1, <2>2, <2>3
  <1> QED BY <1>2, <1>3, <1>4, <1>5 DEF u

(* So do many.                                                             *)
LEMMA FlattenAscending ==
    ASSUME NEW ss \in Seq(Seq(Int)),
           \A k \in 1..Len(ss) : Ascending(ss[k]),
           \A k, l \in 1..Len(ss) : k < l => Precedes(ss[k], ss[l])
    PROVE  Ascending(FlattenSeq(ss))
  <1> DEFINE First(n) == SubSeq(ss, 1, n)
             T == {n \in Nat : n <= Len(ss) => Ascending(FlattenSeq(First(n)))}
             U == Seq(Int)
  <1>1. Len(ss) \in Nat /\ ss \in Seq(U)
    OBVIOUS
  <1> HIDE DEF U
  <1>2. 0 \in T
    <2>1. First(0) = <<>>
      BY <1>1
    <2>2. FlattenSeq(First(0)) = <<>>
      BY <2>1, FlattenEmpty
    <2>3. Ascending(<<>>)
      BY DEF Ascending
    <2> HIDE DEF First
    <2> QED BY <2>2, <2>3
  <1>3. ASSUME NEW n \in Nat, n \in T
        PROVE  n + 1 \in T
    <2> SUFFICES ASSUME n + 1 <= Len(ss)
                 PROVE  Ascending(FlattenSeq(First(n + 1)))
      OBVIOUS
    <2>1. n <= Len(ss) /\ n + 1 \in 1..Len(ss)
      BY <1>1
    <2>2. First(n) \in Seq(U) /\ ss[n + 1] \in U
      BY <1>1, <2>1, ElementOfSeq
    <2>3. First(n + 1) = Append(First(n), ss[n + 1])
      BY <1>1, <2>1
    <2>11. Len(First(n)) = n /\ \A k \in 1..n : First(n)[k] = ss[k]
      BY <1>1, <2>1
    <2> HIDE DEF First
    <2>4. First(n) \in Seq(Seq(Int)) /\ ss[n + 1] \in Seq(Int)
      BY <2>2 DEF U
    <2>5. FlattenSeq(First(n + 1)) = FlattenSeq(First(n)) \o ss[n + 1]
      BY <2>3, <2>4, FlattenAppend
    <2>6. FlattenSeq(First(n)) \in Seq(Int)
      BY <2>4, FlattenType
    <2>7. Ascending(FlattenSeq(First(n))) /\ Ascending(ss[n + 1])
      BY <1>3, <2>1
    <2>8. \A x : Contains(FlattenSeq(First(n)), x) <=> \E k \in 1..n : Contains(First(n)[k], x)
      BY <2>4, <2>11, FlattenContains
    <2>9. \A k \in 1..n : k \in 1..Len(ss) /\ k < n + 1
      BY <2>1, <1>1
    <2>10. Precedes(FlattenSeq(First(n)), ss[n + 1])
      BY <2>1, <2>8, <2>9, <2>11 DEF Precedes
    <2> QED BY <2>4, <2>5, <2>6, <2>7, <2>10, ConcatAscending, ZenonT(40)
  <1> HIDE DEF T
  <1>4. Len(ss) \in T
    BY <1>1, <1>2, <1>3, SetInduction
  <1>5. First(Len(ss)) = ss
    BY <1>1
  <1> HIDE DEF First
  <1> QED BY <1>1, <1>4, <1>5 DEF T

(* Two that grow and contain the same are the same.                        *)
LEMMA AscendingSame ==
    ASSUME NEW s \in Seq(Int), NEW t \in Seq(Int), Ascending(s), Ascending(t),
           \A x : Contains(s, x) <=> Contains(t, x)
    PROVE  s = t
  <1>1. /\ Len(s) \in Nat /\ Len(t) \in Nat
        /\ \A i \in 1..Len(s) : s[i] \in Int
        /\ \A i \in 1..Len(t) : t[i] \in Int
    BY LenProperties, ElementOfSeq
  <1> DEFINE Agree(n) == n \in 1..Len(s) /\ n \in 1..Len(t) /\ s[n] = t[n]
             T == {n \in Nat \ {0} : (n <= Len(s) \/ n <= Len(t)) /\ ~Agree(n)}
  <1>2. T = {}
    <2> SUFFICES ASSUME T # {}
                 PROVE  FALSE
      OBVIOUS
    <2>1. PICK n \in T : \A m \in T : n <= m
      BY LeastNumber
    <2>2. n \in Nat \ {0} /\ (n <= Len(s) \/ n <= Len(t)) /\ ~Agree(n)
      BY <2>1
    <2>3. ASSUME NEW m \in 1..(n - 1), m <= Len(s) \/ m <= Len(t)
          PROVE  Agree(m)
      BY <2>1, <2>2, <2>3, SMTT(30)
    <2> HIDE DEF T
    <2>4. ASSUME n <= Len(s)
          PROVE  n <= Len(t) /\ t[n] <= s[n]
      <3>1. n \in 1..Len(s)
        BY <2>2, <2>4
      <3>2. Contains(t, s[n])
        BY <3>1 DEF Contains
      <3>3. PICK j \in 1..Len(t) : t[j] = s[n]
        BY <3>2 DEF Contains
      <3>4. ~(j < n)
        <4> SUFFICES ASSUME j < n
                     PROVE  FALSE
          OBVIOUS
        <4>1. Agree(j)
          BY <1>1, <2>2, <2>3
        <4>2. s[j] < s[n]
          BY <3>1, <4>1 DEF Ascending
        <4> QED BY <1>1, <3>1, <3>3, <4>1, <4>2
      <3>5. n \in 1..Len(t)
        BY <1>1, <2>2, <3>4
      <3>6. CASE j = n
        BY <1>1, <3>1, <3>3, <3>5, <3>6
      <3>7. CASE n < j
        <4>1. t[n] < t[j]
          BY <3>5, <3>7 DEF Ascending
        <4> QED BY <1>1, <3>1, <3>3, <3>5, <4>1, SMTT(30)
      <3> QED BY <1>1, <2>2, <3>4, <3>6, <3>7
    <2>5. ASSUME n <= Len(t)
          PROVE  n <= Len(s) /\ s[n] <= t[n]
      <3>1. n \in 1..Len(t)
        BY <2>2, <2>5
      <3>2. Contains(s, t[n])
        BY <3>1 DEF Contains
      <3>3. PICK j \in 1..Len(s) : s[j] = t[n]
        BY <3>2 DEF Contains
      <3>4. ~(j < n)
        <4> SUFFICES ASSUME j < n
                     PROVE  FALSE
          OBVIOUS
        <4>1. Agree(j)
          BY <1>1, <2>2, <2>3
        <4>2. t[j] < t[n]
          BY <3>1, <4>1 DEF Ascending
        <4> QED BY <1>1, <3>1, <3>3, <4>1, <4>2
      <3>5. n \in 1..Len(s)
        BY <1>1, <2>2, <3>4
      <3>6. CASE j = n
        BY <1>1, <3>1, <3>3, <3>5, <3>6
      <3>7. CASE n < j
        <4>1. s[n] < s[j]
          BY <3>5, <3>7 DEF Ascending
        <4> QED BY <1>1, <3>1, <3>3, <3>5, <4>1
      <3> QED BY <1>1, <2>2, <3>4, <3>6, <3>7
    <2> QED BY <1>1, <2>2, <2>4, <2>5
  <1>3. ASSUME NEW n \in 1..Len(s)
        PROVE  n \in 1..Len(t) /\ s[n] = t[n]
    <2>1. n \in Nat \ {0} /\ n <= Len(s)
      BY <1>1
    <2> QED BY <1>2, <2>1
  <1>4. ASSUME NEW n \in 1..Len(t)
        PROVE  n \in 1..Len(s)
    <2>1. n \in Nat \ {0} /\ n <= Len(t)
      BY <1>1
    <2> QED BY <1>2, <2>1
  <1> HIDE DEF T
  <1>5. Len(s) = Len(t)
    BY <1>1, <1>3, <1>4, SMTT(30)
  <1> QED BY <1>3, <1>5, SeqEqual

(* What is left of one that grows, grows.                                  *)
LEMMA WithoutAscending ==
    ASSUME NEW s \in Seq(Int), Ascending(s), NEW D
    PROVE  Ascending(FlattenSeq(Without(s, D)))
  <1> DEFINE ss == Without(s, D)
  <1>1. /\ ss \in Seq(Seq(Int)) /\ Len(ss) = Len(s)
        /\ \A k \in 1..Len(s) : \A x : Contains(ss[k], x) <=> k \notin D /\ s[k] = x
    BY WithoutType
  <1>2. ASSUME NEW k \in 1..Len(s)
        PROVE  Ascending(ss[k])
    <2>1. DOMAIN s = 1..Len(s)
      OBVIOUS
    <2>2. ss[k] = IF k \in D THEN <<>> ELSE <<s[k]>>
      BY <2>1 DEF Without
    <2>3. Ascending(<<>>) /\ Ascending(<<s[k]>>)
      BY DEF Ascending
    <2> HIDE DEF ss
    <2> QED BY <2>2, <2>3
  <1> HIDE DEF ss
  <1>3. ASSUME NEW k \in 1..Len(s), NEW l \in 1..Len(s), k < l
        PROVE  Precedes(ss[k], ss[l])
    <2>1. s[k] < s[l]
      BY <1>3 DEF Ascending
    <2>2. \A x, y : Contains(ss[k], x) /\ Contains(ss[l], y) => x = s[k] /\ y = s[l]
      BY <1>1
    <2> QED BY <2>1, <2>2 DEF Precedes
  <1> QED BY <1>1, <1>2, <1>3, FlattenAscending DEF ss

(* A suffix of one that grows grows, and contains the larger elements.     *)
LEMMA SuffixAscending ==
    ASSUME NEW s \in Seq(Int), Ascending(s), NEW m \in 1..(Len(s) + 1)
    PROVE  /\ Ascending(SubSeq(s, m, Len(s)))
           /\ \A i \in 1..Len(s) : Contains(SubSeq(s, m, Len(s)), s[i]) <=> m <= i
           /\ \A x, y : Contains(SubSeq(s, m, Len(s)), x) /\ Contains(s, y) /\ x <= y
                          => Contains(SubSeq(s, m, Len(s)), y)
  <1> DEFINE u == SubSeq(s, m, Len(s))
  <1>1. /\ u \in Seq(Int) /\ Len(u) = Len(s) - m + 1 /\ Len(s) \in Nat
        /\ \A i \in 1..(Len(s) - m + 1) : u[i] = s[m + i - 1]
        /\ \A x : Contains(u, x) <=> \E i \in m..Len(s) : s[i] = x
    BY SuffixContains, LenProperties
  <1> HIDE DEF u
  <1>2. Ascending(u)
    <2> SUFFICES ASSUME NEW i \in 1..Len(u), NEW j \in 1..Len(u), i < j
                 PROVE  u[i] < u[j]
      BY DEF Ascending
    <2>1. /\ m + i - 1 \in 1..Len(s) /\ m + j - 1 \in 1..Len(s) /\ m + i - 1 < m + j - 1
          /\ i \in 1..(Len(s) - m + 1) /\ j \in 1..(Len(s) - m + 1)
      BY <1>1
    <2>2. s[m + i - 1] < s[m + j - 1]
      BY <2>1 DEF Ascending
    <2> QED BY <1>1, <2>1, <2>2
  <1>3. \A i \in 1..Len(s) : s[i] \in Int
    BY ElementOfSeq
  <1>4. ASSUME NEW i \in 1..Len(s)
        PROVE  Contains(u, s[i]) <=> m <= i
    <2>1. ASSUME Contains(u, s[i])
          PROVE  m <= i
      <3>1. PICK j \in m..Len(s) : s[j] = s[i]
        BY <1>1, <2>1
      <3>2. j \in 1..Len(s) /\ m <= j
        BY <1>1
      <3>3. ~(i < j)
        BY <1>3, <3>1, <3>2 DEF Ascending
      <3> QED BY <1>1, <3>2, <3>3
    <2>2. ASSUME m <= i
          PROVE  Contains(u, s[i])
      <3>1. i \in m..Len(s)
        BY <1>1, <2>2
      <3> QED BY <1>1, <3>1
    <2> QED BY <2>1, <2>2
  <1>5. ASSUME NEW x, NEW y, Contains(u, x), Contains(s, y), x <= y
        PROVE  Contains(u, y)
    <2>1. PICK i \in m..Len(s) : s[i] = x
      BY <1>1, <1>5
    <2>2. PICK j \in 1..Len(s) : s[j] = y
      BY <1>5 DEF Contains
    <2>3. i \in 1..Len(s) /\ m <= i
      BY <1>1
    <2>4. ~(j < i)
      BY <1>3, <1>5, <2>1, <2>2, <2>3 DEF Ascending
    <2>5. m <= j
      BY <1>1, <2>3, <2>4
    <2> QED BY <1>4, <2>2, <2>5
  <1> QED BY <1>2, <1>4, <1>5 DEF u

(* A run of numbers that is contained lies together.                       *)
LEMMA RunTogether ==
    ASSUME NEW s \in Seq(Int), Ascending(s), NEW i \in 1..Len(s), NEW n \in Nat,
           \A j \in 0..n : Contains(s, s[i] + j)
    PROVE  i + n <= Len(s) /\ s[i + n] = s[i] + n
  <1> DEFINE T == {k \in Nat : k <= n => i + k \in 1..Len(s) /\ s[i + k] = s[i] + k}
  <1>1. /\ Len(s) \in Nat /\ \A j \in 1..Len(s) : s[j] \in Int
    BY LenProperties, ElementOfSeq
  <1>2. 0 \in T
    BY <1>1
  <1>3. ASSUME NEW k \in Nat, k \in T
        PROVE  k + 1 \in T
    <2> SUFFICES ASSUME k + 1 <= n
                 PROVE  i + (k + 1) \in 1..Len(s) /\ s[i + (k + 1)] = s[i] + (k + 1)
      OBVIOUS
    <2> DEFINE a == i + k
    <2>1. a \in 1..Len(s) /\ s[a] = s[i] + k /\ i + (k + 1) = a + 1
      BY <1>1, <1>3
    <2>2. k + 1 \in 0..n
      OBVIOUS
    <2>3. PICK j \in 1..Len(s) : s[j] = s[i] + (k + 1)
      BY <2>2 DEF Contains
    <2> HIDE DEF a
    <2>10. s[i] \in Int /\ s[a] \in Int /\ s[j] \in Int
      BY <1>1, <2>1
    <2>11. \A b \in Int : b + (k + 1) = (b + k) + 1
      OBVIOUS
    <2>12. s[j] = s[a] + 1
      BY <2>1, <2>3, <2>10, <2>11
    <2>4. s[a] < s[j] /\ s[a] \in Int /\ s[j] \in Int /\ s[j] = s[a] + 1
      BY <2>10, <2>12
    <2>5. ~(j < a) /\ j # a
      BY <2>1, <2>4, SMTT(30) DEF Ascending
    <2>6. a + 1 \in 1..Len(s) /\ a < a + 1 /\ a + 1 <= j
      BY <1>1, <2>1, <2>5
    <2>7. s[a] < s[a + 1] /\ s[a + 1] \in Int
      BY <1>1, <2>1, <2>6 DEF Ascending
    <2>8. CASE a + 1 = j
      BY <1>1, <2>1, <2>3, <2>6, <2>8
    <2>9. CASE a + 1 < j
      <3>1. s[a + 1] < s[j]
        BY <2>6, <2>9 DEF Ascending
      <3> QED BY <2>4, <2>7, <3>1, SMTT(30)
    <2> QED BY <1>1, <2>1, <2>6, <2>8, <2>9
  <1> HIDE DEF T
  <1>4. n \in T
    BY <1>2, <1>3, SetInduction
  <1> QED BY <1>1, <1>4 DEF T

-----------------------------------------------------------------------------
(* The elements of a finite set, each behind those an order R puts before  *)
(* it: element k is the one with k - 1 before it.                          *)
Orders(R, S) ==
    /\ \A x \in S : <<x, x>> \notin R
    /\ \A x, y, z \in S : <<x, y>> \in R /\ <<y, z>> \in R => <<x, z>> \in R
    /\ \A x, y \in S : x = y \/ <<x, y>> \in R \/ <<y, x>> \in R

Priors(R, S, x) == {y \in S : <<y, x>> \in R}

(* An element has more before it than those before it have.                *)
LEMMA RankGrows ==
    ASSUME NEW S, NEW R, IsFiniteSet(S), Orders(R, S), NEW x \in S, NEW y \in S,
           <<x, y>> \in R
    PROVE  Cardinality(Priors(R, S, x)) < Cardinality(Priors(R, S, y))
  <1> DEFINE B == Priors(R, S, x)
             C == Priors(R, S, y)
  <1>1. B \in SUBSET C
    BY DEF Priors, Orders
  <1>2. x \in C /\ x \notin B
    BY DEF Priors, Orders
  <1>3. C \in SUBSET S
    BY DEF Priors
  <1> HIDE DEF B, C
  <1>4. IsFiniteSet(C)
    BY <1>3, FS_Subset
  <1>5. IsFiniteSet(B) /\ Cardinality(B) <= Cardinality(C) /\ Cardinality(B) # Cardinality(C)
    BY <1>1, <1>2, <1>4, FS_Subset
  <1>6. Cardinality(B) \in Nat /\ Cardinality(C) \in Nat
    BY <1>4, <1>5, FS_CardinalityType
  <1>7. Cardinality(B) < Cardinality(C)
    BY <1>5, <1>6
  <1> QED BY <1>7 DEF B, C

(* The numbers of elements before one are all up to the cardinality, once. *)
LEMMA Ranks ==
    ASSUME NEW S, NEW R, IsFiniteSet(S), Orders(R, S)
    PROVE  /\ \A x \in S : Cardinality(Priors(R, S, x)) \in 0..(Cardinality(S) - 1)
           /\ \A x, y \in S : Cardinality(Priors(R, S, x)) < Cardinality(Priors(R, S, y))
                                 => <<x, y>> \in R
           /\ \A k \in 0..(Cardinality(S) - 1) :
                 \E x \in S : Cardinality(Priors(R, S, x)) = k
  <1> DEFINE n == Cardinality(S)
             T == 0..(n - 1)
             r == [x \in S |-> Cardinality(Priors(R, S, x))]
  <1>1. n \in Nat
    BY FS_CardinalityType
  <1>2. ASSUME NEW x \in S
        PROVE  Cardinality(Priors(R, S, x)) \in T
    <2> DEFINE B == Priors(R, S, x)
               D == S \ {x}
    <2>1. B \in SUBSET D
      BY DEF Priors, Orders
    <2>2. IsFiniteSet(D) /\ Cardinality(D) = n - 1
      BY FS_RemoveElement
    <2> HIDE DEF B, D
    <2>3. IsFiniteSet(B) /\ Cardinality(B) <= n - 1
      BY <2>1, <2>2, FS_Subset
    <2>4. Cardinality(B) \in Nat
      BY <2>3, FS_CardinalityType
    <2>5. Cardinality(B) \in T
      BY <1>1, <2>3, <2>4
    <2> QED BY <2>5 DEF B
  <1>3. ASSUME NEW x \in S, NEW y \in S, r[x] = r[y]
        PROVE  x = y
    <2>1. r[x] \in Nat /\ r[y] \in Nat
      BY <1>1, <1>2
    <2>2. <<x, y>> \in R => r[x] < r[y]
      BY RankGrows
    <2>3. <<y, x>> \in R => r[y] < r[x]
      BY RankGrows
    <2>4. <<x, y>> \notin R /\ <<y, x>> \notin R
      BY <1>3, <2>1, <2>2, <2>3
    <2> QED BY <2>4 DEF Orders
  <1>4. r \in Injection(S, T)
    <2>1. r \in [S -> T]
      BY <1>2
    <2> HIDE DEF r, T
    <2> QED BY <1>3, <2>1 DEF Injection, IsInjective
  <1>5. IsFiniteSet(T) /\ Cardinality(T) = n
    <2>1. 0 \in Int /\ n - 1 \in Int
      BY <1>1
    <2>2. IsFiniteSet(T) /\ Cardinality(T) = IF 0 > n - 1 THEN 0 ELSE (n - 1) - 0 + 1
      BY <2>1, FS_Interval
    <2> QED BY <1>1, <2>2
  <1>6. r \in Surjection(S, T)
    <2> HIDE DEF r, T
    <2> QED BY <1>4, <1>5, FS_Injection DEF n
  <1>7. \A k \in T : \E x \in S : r[x] = k
    <2> HIDE DEF T
    <2> QED BY <1>6 DEF Surjection
  <1>8. ASSUME NEW x \in S, NEW y \in S,
               Cardinality(Priors(R, S, x)) < Cardinality(Priors(R, S, y))
        PROVE  <<x, y>> \in R
    <2>1. r[x] \in Nat /\ r[y] \in Nat /\ r[x] < r[y]
      BY <1>1, <1>2, <1>8
    <2>2. <<y, x>> \in R => r[y] < r[x]
      BY RankGrows
    <2>3. x # y /\ <<y, x>> \notin R
      BY <2>1, <2>2
    <2> QED BY <2>3 DEF Orders
  <1> QED BY <1>2, <1>7, <1>8

(* So each of them is that of an element.                                  *)
LEMMA RankFound ==
    ASSUME NEW S, NEW R, IsFiniteSet(S), Orders(R, S), NEW k \in 0..(Cardinality(S) - 1)
    PROVE  \E x \in S : Cardinality(Priors(R, S, x)) = k
  BY Ranks

(* A function on the first n numbers is a sequence of n elements.          *)
LEMMA FunctionSeq ==
    ASSUME NEW S, NEW n \in Nat, NEW f \in [1..n -> S]
    PROVE  f \in Seq(S) /\ Len(f) = n
  <1>1. f \in Seq(S)
    BY SeqDef
  <1>2. Len(f) \in Nat /\ DOMAIN f = 1..Len(f)
    BY <1>1, LenProperties
  <1>3. 1..Len(f) = 1..n
    BY <1>2
  <1>4. \A a, b \in Nat : 1..a = 1..b => ~(a < b)
    <2> SUFFICES ASSUME NEW a \in Nat, NEW b \in Nat, a < b
                 PROVE  1..a # 1..b
      OBVIOUS
    <2>1. b \in 1..b /\ b \notin 1..a
      OBVIOUS
    <2> QED BY <2>1
  <1> QED BY <1>1, <1>2, <1>3, <1>4

(* Of a sequence that holds at k an element with k - 1 before it.          *)
LEMMA Ranked ==
    ASSUME NEW S, NEW R, IsFiniteSet(S), Orders(R, S), NEW e \in [1..Cardinality(S) -> S],
           \A k \in 1..Cardinality(S) : Cardinality(Priors(R, S, e[k])) = k - 1
    PROVE  /\ e \in Seq(S) /\ Len(e) = Cardinality(S)
           /\ \A x : Contains(e, x) <=> x \in S
           /\ \A k, l \in 1..Len(e) : k < l => <<e[k], e[l]>> \in R
  <1> DEFINE n == Cardinality(S)
  <1>1. n \in Nat
    BY FS_CardinalityType
  <1>2. \A k \in 1..n : e[k] \in S /\ Cardinality(Priors(R, S, e[k])) = k - 1
    OBVIOUS
  <1>5. e \in Seq(S) /\ Len(e) = n
    <2> HIDE DEF n
    <2> QED BY <1>1, FunctionSeq DEF n
  <1>6. \A k, l \in 1..n : k < l => <<e[k], e[l]>> \in R
    <2> SUFFICES ASSUME NEW k \in 1..n, NEW l \in 1..n, k < l
                 PROVE  <<e[k], e[l]>> \in R
      OBVIOUS
    <2>1. k - 1 < l - 1
      BY <1>1
    <2> QED BY <1>2, <2>1, Ranks
  <1>7. ASSUME NEW x \in S
        PROVE  Contains(e, x)
    <2> DEFINE k == Cardinality(Priors(R, S, x)) + 1
    <2>1. k - 1 \in 0..(n - 1) /\ Cardinality(Priors(R, S, x)) = k - 1 /\ k \in 1..n
      <3>1. Cardinality(Priors(R, S, x)) \in 0..(n - 1)
        BY Ranks
      <3> QED BY <1>1, <3>1
    <2> HIDE DEF k
    <2>2. e[k] \in S /\ Cardinality(Priors(R, S, e[k])) = k - 1
      BY <1>2, <2>1
    <2>3. e[k] = x
      <3>1. ~(k - 1 < k - 1)
        BY <2>1
      <3>2. <<x, e[k]>> \notin R /\ <<e[k], x>> \notin R
        BY <2>1, <2>2, <3>1, RankGrows
      <3> QED BY <2>2, <3>2 DEF Orders
    <2> QED BY <1>5, <2>1, <2>3 DEF Contains
  <1>8. \A x : Contains(e, x) => x \in S
    BY <1>2, <1>5 DEF Contains
  <1> QED BY <1>5, <1>6, <1>7, <1>8

(* Numbers, in their order.                                                *)
Less(S) == {p \in S \X S : p[1] < p[2]}

(* Less than orders numbers.                                               *)
LEMMA LessOrders ==
    ASSUME NEW S \in SUBSET Nat
    PROVE  /\ Orders(Less(S), S)
           /\ \A x, y \in S : <<x, y>> \in Less(S) <=> x < y
           /\ \A n \in S : Priors(Less(S), S, n) = {m \in S : m < n}
  <1> DEFINE R == Less(S)
  <1>1. \A x, y \in S : <<x, y>> \in R <=> x < y
    BY DEF Less
  <1>2. \A x, y, z \in Nat : x < y /\ y < z => x < z
    OBVIOUS
  <1>3. \A x, y \in Nat : ~(x < x) /\ (x = y \/ x < y \/ y < x)
    OBVIOUS
  <1>4. \A x \in S : x \in Nat
    OBVIOUS
  <1> HIDE DEF R
  <1>5. Orders(R, S)
    BY <1>1, <1>2, <1>3, <1>4 DEF Orders
  <1>6. \A n \in S : Priors(R, S, n) = {m \in S : m < n}
    BY <1>1 DEF Priors
  <1> QED BY <1>1, <1>5, <1>6 DEF R

(* Numbers by how many are less.                                           *)
LEMMA NumberRanks ==
    ASSUME NEW S \in SUBSET Nat, IsFiniteSet(S), NEW k \in 1..Cardinality(S)
    PROVE  \E n \in S : Cardinality({m \in S : m < n}) = k - 1
  <1>1. Orders(Less(S), S) /\ \A n \in S : Priors(Less(S), S, n) = {m \in S : m < n}
    BY LessOrders
  <1>2. k - 1 \in 0..(Cardinality(S) - 1)
    BY FS_CardinalityType
  <1>3. \E x : x \in S /\ Cardinality(Priors(Less(S), S, x)) = k - 1
    BY <1>1, <1>2, RankFound
  <1> QED BY <1>1, <1>3

(* A list of numbers by how many are less has each once, growing.          *)
LEMMA NumbersRanked ==
    ASSUME NEW S \in SUBSET Nat, IsFiniteSet(S), NEW e \in [1..Cardinality(S) -> S],
           \A k \in 1..Cardinality(S) : Cardinality({m \in S : m < e[k]}) = k - 1
    PROVE  /\ e \in Seq(S) /\ Len(e) = Cardinality(S)
           /\ \A x : Contains(e, x) <=> x \in S
           /\ Ascending(e)
  <1> DEFINE R == Less(S)
  <1>1. /\ Orders(R, S) /\ \A n \in S : Priors(R, S, n) = {m \in S : m < n}
        /\ \A x, y \in S : <<x, y>> \in R <=> x < y
    BY LessOrders
  <1> HIDE DEF R
  <1>2. \A k \in 1..Cardinality(S) : Cardinality(Priors(R, S, e[k])) = k - 1
    BY <1>1
  <1>3. /\ e \in Seq(S) /\ Len(e) = Cardinality(S)
        /\ \A x : Contains(e, x) <=> x \in S
        /\ \A k, l \in 1..Len(e) : k < l => <<e[k], e[l]>> \in R
    BY <1>1, <1>2, Ranked
  <1>4. \A k \in 1..Len(e) : e[k] \in S
    BY <1>3, ElementOfSeq
  <1>5. Ascending(e)
    BY <1>1, <1>3, <1>4 DEF Ascending
  <1> QED BY <1>3, <1>5

(* That list, given by a choice.                                           *)
LEMMA NumbersInOrder ==
    ASSUME NEW S \in SUBSET Nat, IsFiniteSet(S), NEW e,
           e = [k \in 1..Cardinality(S) |->
                   CHOOSE n \in S : Cardinality({m \in S : m < n}) = k - 1]
    PROVE  /\ e \in Seq(S) /\ Len(e) = Cardinality(S)
           /\ \A x : Contains(e, x) <=> x \in S
           /\ Ascending(e)
  <1>1. ASSUME NEW k \in 1..Cardinality(S)
        PROVE  e[k] \in S /\ Cardinality({m \in S : m < e[k]}) = k - 1
    <2>1. \E n \in S : Cardinality({m \in S : m < n}) = k - 1
      BY NumberRanks
    <2>2. e[k] = CHOOSE n \in S : Cardinality({m \in S : m < n}) = k - 1
      OBVIOUS
    <2> QED BY <2>1, <2>2
  <1>2. e \in [1..Cardinality(S) -> S]
    BY <1>1
  <1>3. \A k \in 1..Cardinality(S) : Cardinality({m \in S : m < e[k]}) = k - 1
    BY <1>1
  <1> QED BY <1>2, <1>3, NumbersRanked

-----------------------------------------------------------------------------
(* Division.                                                               *)

(* A number is so many times the divisor, and the remainder.               *)
LEMMA Division ==
    ASSUME NEW n \in Nat \ {0}, NEW a \in Nat
    PROVE  /\ a \div n \in Nat /\ a % n \in 0..(n - 1)
           /\ a = n * (a \div n) + (a % n)
  BY SMT

(* The next multiple is greater by the number.                             *)
LEMMA NextMultiple ==
    ASSUME NEW n \in Nat, NEW a \in Nat, NEW b \in Nat, a < b
    PROVE  n * a + n <= n * b
  <1>1. PICK d \in Nat : b = a + 1 + d
    <2>1. b - a - 1 \in Nat /\ b = a + 1 + (b - a - 1)
      OBVIOUS
    <2> QED BY <2>1
  <1>2. n * (a + 1 + d) = n * a + n + n * d
    OBVIOUS
  <1>3. n * d >= 0 /\ n * a \in Nat /\ n * d \in Nat
    OBVIOUS
  <1> QED BY <1>1, <1>2, <1>3

(* In one way only.                                                        *)
LEMMA DivisionUnique ==
    ASSUME NEW n \in Nat \ {0}, NEW q \in Nat, NEW k \in Nat,
           NEW r \in 0..(n - 1), NEW t \in 0..(n - 1), n * q + r = n * k + t
    PROVE  q = k /\ r = t
  <1>1. \A a, b \in Nat : a < b => n * a + n <= n * b
    BY NextMultiple
  <1>2. n * q \in Nat /\ n * k \in Nat
    OBVIOUS
  <1>3. ~(q < k)
    BY <1>1, <1>2
  <1>4. ~(k < q)
    BY <1>1, <1>2
  <1> QED BY <1>2, <1>3, <1>4

(* The greatest multiple of n that is not greater than a.                  *)
Floor(n, a) == a - (a % n)

(* The multiple at or below a number.                                      *)
LEMMA FloorFacts ==
    ASSUME NEW n \in Nat \ {0}, NEW a \in Nat
    PROVE  /\ Floor(n, a) \in Nat /\ Floor(n, a) <= a /\ a < Floor(n, a) + n
           /\ Floor(n, a) = n * (a \div n) /\ Floor(n, a) % n = 0
           /\ (a % n = 0) <=> (Floor(n, a) = a)
  <1> DEFINE q == a \div n
             r == a % n
             p == n * q
  <1>1. q \in Nat /\ r \in 0..(n - 1) /\ a = p + r
    BY Division
  <1>2. p \in Nat
    BY <1>1
  <1>3. p % n = 0
    <2> DEFINE k == p \div n
               t == p % n
    <2>1. k \in Nat /\ t \in 0..(n - 1) /\ p = n * k + t
      BY <1>2, Division
    <2> HIDE DEF k, t, q, r
    <2>2. n * q + 0 = n * k + t /\ 0 \in 0..(n - 1)
      BY <1>1, <2>1
    <2>3. t = 0
      BY <1>1, <2>1, <2>2, DivisionUnique
    <2> QED BY <2>3 DEF t
  <1>4. Floor(n, a) = a - r
    BY DEF Floor
  <1> HIDE DEF r, p
  <1>5. Floor(n, a) = p
    BY <1>1, <1>2, <1>4
  <1> QED BY <1>1, <1>2, <1>3, <1>5 DEF p, r

(* Whatever is less than n above a multiple has it below.                  *)
LEMMA FloorUnique ==
    ASSUME NEW n \in Nat \ {0}, NEW b \in Nat, b % n = 0, NEW j \in 0..(n - 1)
    PROVE  Floor(n, b + j) = b
  <1> DEFINE q == b \div n
             a == b + j
             k == a \div n
             r == a % n
  <1>1. q \in Nat /\ b = n * q + 0 /\ a \in Nat
    BY Division
  <1>2. k \in Nat /\ r \in 0..(n - 1) /\ a = n * k + r
    BY <1>1, Division
  <1>3. n * q \in Nat /\ n * k \in Nat
    BY <1>1, <1>2
  <1> HIDE DEF q, k, r
  <1>4. n * q + j = n * k + r
    BY <1>1, <1>2
  <1>5. r = j
    BY <1>1, <1>2, <1>4, DivisionUnique
  <1> HIDE DEF a
  <1>6. a - j = b
    BY <1>1 DEF a
  <1> QED BY <1>5, <1>6 DEF Floor, r, a

(* A multiple is not crossed.                                              *)
LEMMA FloorBounds ==
    ASSUME NEW n \in Nat \ {0}, NEW b \in Nat, b % n = 0, NEW a \in Nat
    PROVE  /\ a < b => Floor(n, a) + n <= b
           /\ b <= a => b <= Floor(n, a)
  <1> DEFINE q == b \div n
             k == a \div n
  <1>1. q \in Nat /\ k \in Nat /\ b = n * q + 0
    BY Division
  <1>2. Floor(n, a) \in Nat /\ Floor(n, a) <= a /\ a < Floor(n, a) + n /\ Floor(n, a) = n * k
    BY FloorFacts
  <1> HIDE DEF q, k
  <1>3. \A c, d \in Nat : c < d => n * c + n <= n * d
    BY NextMultiple
  <1>4. n * q \in Nat /\ n * k \in Nat
    BY <1>1
  <1>5. CASE k < q
    BY <1>1, <1>2, <1>3, <1>4, <1>5
  <1>6. CASE k = q
    BY <1>1, <1>2, <1>4, <1>6
  <1>7. CASE q < k
    BY <1>1, <1>2, <1>3, <1>4, <1>7
  <1> QED BY <1>1, <1>5, <1>6, <1>7

(* Multiples grow with their numbers.                                      *)
LEMMA TimesGrows ==
    ASSUME NEW n \in Nat, NEW a \in Nat, NEW b \in Nat, a <= b
    PROVE  a * n <= b * n /\ a * n \in Nat /\ b * n \in Nat
  <1> DEFINE d == b - a
             dn == d * n
             an == a * n
  <1>1. d \in Nat /\ b = a + d
    OBVIOUS
  <1> HIDE DEF d
  <1>2. b * n = an + dn /\ dn \in Nat /\ an \in Nat
    BY <1>1
  <1> HIDE DEF an, dn
  <1>3. an <= an + dn
    BY <1>2
  <1> QED BY <1>2, <1>3 DEF an

(* Times in order lie in hours in order.                                   *)
LEMMA DivisionGrows ==
    ASSUME NEW n \in Nat \ {0}, NEW a \in Nat, NEW b \in Nat, a <= b
    PROVE  a \div n <= b \div n
  <1> DEFINE q == a \div n
             k == b \div n
             r == a % n
             t == b % n
             nq == n * q
             nk == n * k
  <1>1. q \in Nat /\ k \in Nat /\ r \in 0..(n - 1) /\ t \in 0..(n - 1) /\ a = nq + r /\ b = nk + t
    BY Division
  <1>2. nq \in Nat /\ nk \in Nat
    BY <1>1
  <1> HIDE DEF q, k, r, t
  <1>3. ASSUME k < q
        PROVE  FALSE
    <2>1. nk + n <= nq
      BY <1>1, <1>3, NextMultiple
    <2> HIDE DEF nq, nk
    <2> QED BY <1>1, <1>2, <2>1
  <1>4. q <= k
    BY <1>1, <1>3
  <1> QED BY <1>4 DEF q, k
=============================================================================
