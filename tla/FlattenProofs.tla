---------------------------- MODULE FlattenProofs ----------------------------
(***************************************************************************)
(* Lemmas on sequences put together from sequences, which several proofs   *)
(* need: induction over the natural numbers, and what FlattenSeq returns.  *)
(***************************************************************************)
EXTENDS SequencesExt, SequenceTheorems, FiniteSetTheorems, WellFoundedInduction, TLAPS

\* Induction over the natural numbers, with a set for the predicate: it is
\* the least number outside the set that cannot be.
LEMMA SetInduction ==
  ASSUME NEW S, 0 \in S, \A n \in Nat : n \in S => n + 1 \in S
  PROVE  Nat \subseteq S
<1> DEFINE T == Nat \ S
           R == OpToRel(<, Nat)
<1>1. ASSUME T # {} PROVE FALSE
  <2>1. IsWellFoundedOn(R, Nat)
    BY NatLessThanWellFounded
  <2>2. T \subseteq Nat
    OBVIOUS
  <2> HIDE DEF R
  <2>3. PICK x \in T : \A y \in T : ~ (<<y, x>> \in R)
    BY <1>1, <2>1, <2>2, WFMin
  <2>4. x \in Nat /\ x # 0 /\ x \notin S
    OBVIOUS
  <2>5. x - 1 \in Nat /\ (x - 1) + 1 = x
    BY <2>4
  <2>6. x - 1 \notin S
    BY <2>4, <2>5
  <2>7. <<x - 1, x>> \in R
    BY <2>4, <2>5 DEF OpToRel, R
  <2> QED BY <2>3, <2>5, <2>6, <2>7
<1> QED BY <1>1

-----------------------------------------------------------------------------
\* What the function in FlattenSeq is: f[i] is the first i sequences of ss in
\* one.
Flattens(f, ss, n) ==
  f = [i \in 1..n |-> IF i = 1 THEN ss[i] ELSE f[i - 1] \o ss[i]]

\* There is such a function.
LEMMA FlattensExists ==
  ASSUME NEW ss, NEW n \in Nat
  PROVE  \E f : Flattens(f, ss, n)
<1> DEFINE S == {k \in Nat : \E f : Flattens(f, ss, k)}
<1>1. 0 \in S
  <2>1. Flattens([i \in 1..0 |-> 0], ss, 0)
    BY DEF Flattens
  <2> QED BY <2>1
<1>2. ASSUME NEW k \in Nat, k \in S PROVE k + 1 \in S
  <2>1. PICK f : Flattens(f, ss, k)
    BY <1>2
  <2> DEFINE g == [i \in 1..(k + 1) |-> IF i = 1 THEN ss[i] ELSE f[i - 1] \o ss[i]]
  <2>2. ASSUME NEW i \in 1..k PROVE g[i] = f[i]
    <3>1. i \in 1..(k + 1)
      OBVIOUS
    <3>2. g[i] = IF i = 1 THEN ss[i] ELSE f[i - 1] \o ss[i]
      BY <3>1
    <3>3. f[i] = IF i = 1 THEN ss[i] ELSE f[i - 1] \o ss[i]
      BY <2>1, Zenon DEF Flattens
    <3> QED BY <3>2, <3>3
  <2>3. \A i \in 1..(k + 1) : i # 1 => i - 1 \in 1..k
    OBVIOUS
  <2>4. \A i \in 1..(k + 1) : IF i = 1 THEN TRUE ELSE g[i - 1] = f[i - 1]
    BY <2>2, <2>3
  <2> HIDE DEF g
  <2>6. [i \in 1..(k + 1) |-> IF i = 1 THEN ss[i] ELSE f[i - 1] \o ss[i]]
         = [i \in 1..(k + 1) |-> IF i = 1 THEN ss[i] ELSE g[i - 1] \o ss[i]]
    BY <2>4
  <2>5. Flattens(g, ss, k + 1)
    BY <2>6 DEF Flattens, g
  <2> QED BY <2>5
<1> HIDE DEF S
<1>3. n \in S
  BY <1>1, <1>2, SetInduction
<1> QED BY <1>3 DEF S

\* The function for fewer sequences agrees with the one for all of them.
LEMMA FlattensAgree ==
  ASSUME NEW n \in Nat, NEW ss, NEW tt, NEW f, NEW g,
         Flattens(f, ss, n), Flattens(g, tt, n - 1),
         \A i \in 1..(n - 1) : ss[i] = tt[i]
  PROVE  \A i \in 1..(n - 1) : f[i] = g[i]
<1> DEFINE S == {k \in Nat : k \in 1..(n - 1) => f[k] = g[k]}
<1>1. 0 \in S
  OBVIOUS
<1>2. ASSUME NEW k \in Nat, k \in S PROVE k + 1 \in S
  <2> SUFFICES ASSUME k + 1 \in 1..(n - 1) PROVE f[k + 1] = g[k + 1]
    OBVIOUS
  <2>0. (k + 1) - 1 = k /\ k + 1 \in 1..n /\ (k + 1 = 1 <=> k = 0)
    OBVIOUS
  <2>1. f[k + 1] = IF k + 1 = 1 THEN ss[k + 1] ELSE f[(k + 1) - 1] \o ss[k + 1]
    BY <2>0 DEF Flattens
  <2>2. g[k + 1] = IF k + 1 = 1 THEN tt[k + 1] ELSE g[(k + 1) - 1] \o tt[k + 1]
    BY <2>0 DEF Flattens
  <2>3. k # 0 => f[k] = g[k]
    BY <1>2
  <2> QED BY <2>0, <2>1, <2>2, <2>3
<1> HIDE DEF S
<1>3. Nat \subseteq S
  BY <1>1, <1>2, SetInduction
<1> QED BY <1>3 DEF S

\* FlattenSeq is its last value.
LEMMA FlattenSeqIs ==
  ASSUME NEW R, NEW ss \in Seq(Seq(R)), ss # <<>>
  PROVE  \E f : Flattens(f, ss, Len(ss)) /\ FlattenSeq(ss) = f[Len(ss)]
<1> DEFINE c == CHOOSE f : f = [i \in 1..Len(ss) |-> IF i = 1 THEN ss[i] ELSE f[i - 1] \o ss[i]]
<1>1. \E f : f = [i \in 1..Len(ss) |-> IF i = 1 THEN ss[i] ELSE f[i - 1] \o ss[i]]
  <2>1. Len(ss) \in Nat
    BY LenProperties
  <2> QED BY <2>1, FlattensExists DEF Flattens
<1>2. c = [i \in 1..Len(ss) |-> IF i = 1 THEN ss[i] ELSE c[i - 1] \o ss[i]]
  BY <1>1
<1>3. Len(ss) # 0
  BY EmptySeq
<1>4. FlattenSeq(ss) = c[Len(ss)]
  BY <1>3 DEF FlattenSeq
<1> HIDE DEF c
<1> QED BY <1>2, <1>4 DEF Flattens

\* Nothing flattened is nothing.
LEMMA FlattenEmpty == FlattenSeq(<<>>) = <<>>
BY DEF FlattenSeq

\* The first n of the sequences ss in one.
Joined(ss, n) == FlattenSeq([i \in 1..n |-> ss[i]])

\* The first n of some sequences are sequences.
LEMMA JoinedSeq ==
  ASSUME NEW R, NEW ss \in Seq(Seq(R)), NEW n \in 0..Len(ss)
  PROVE  /\ [i \in 1..n |-> ss[i]] \in Seq(Seq(R))
         /\ Len([i \in 1..n |-> ss[i]]) = n
         /\ n = 0 => [i \in 1..n |-> ss[i]] = <<>>
         /\ n # 0 => [i \in 1..n |-> ss[i]] # <<>>
<1> DEFINE tt == [i \in 1..n |-> ss[i]]
<1>0. Len(ss) \in Nat /\ n \in Nat
  BY LenProperties
<1>1. \A i \in 1..n : ss[i] \in Seq(R)
  BY <1>0, ElementOfSeq
<1>2. tt \in Seq(Seq(R))
  BY <1>0, <1>1, IsASeq
<1>3. Len(tt) = n
  BY <1>0, <1>2, LenProperties
<1>4. n = 0 => tt = <<>>
  OBVIOUS
<1>5. n # 0 => tt # <<>>
  BY <1>3
<1> QED BY <1>2, <1>3, <1>4, <1>5

\* The first sequences in one, from fewer of them.
LEMMA JoinedStep ==
  ASSUME NEW R, NEW ss \in Seq(Seq(R))
  PROVE  /\ Joined(ss, 0) = <<>>
         /\ \A n \in 1..Len(ss) :
              Joined(ss, n) = IF n = 1 THEN ss[n] ELSE Joined(ss, n - 1) \o ss[n]
<1>0. Len(ss) \in Nat
  BY LenProperties
<1>1. Joined(ss, 0) = <<>>
  BY <1>0, JoinedSeq, FlattenEmpty DEF Joined
<1>2. ASSUME NEW n \in 1..Len(ss)
      PROVE  Joined(ss, n) = IF n = 1 THEN ss[n] ELSE Joined(ss, n - 1) \o ss[n]
  <2> DEFINE tt == [i \in 1..n |-> ss[i]]
             uu == [i \in 1..(n - 1) |-> ss[i]]
  <2>0. n \in 0..Len(ss) /\ n - 1 \in 0..Len(ss) /\ n # 0 /\ n \in 1..n /\ tt[n] = ss[n]
    BY <1>0
  <2>9. tt \in Seq(Seq(R)) /\ Len(tt) = n
    BY <2>0, JoinedSeq
  <2>2. uu \in Seq(Seq(R)) /\ Len(uu) = n - 1 /\ (n - 1 # 0 => uu # <<>>)
    BY <2>0, JoinedSeq
  <2>3. \A i \in 1..(n - 1) : tt[i] = uu[i]
    BY <2>0
  <2> HIDE DEF tt, uu
  <2>1. tt \in Seq(Seq(R)) /\ tt # <<>> /\ Len(tt) = n
    BY <2>0, <2>9, EmptySeq
  <2>4. PICK f : Flattens(f, tt, n) /\ FlattenSeq(tt) = f[n]
    BY <2>1, FlattenSeqIs
  <2>5. f[n] = IF n = 1 THEN tt[n] ELSE f[n - 1] \o tt[n]
    BY <2>0, <2>4, Zenon DEF Flattens
  <2>6. CASE n = 1
    BY <2>0, <2>4, <2>5, <2>6 DEF Joined, tt
  <2>7. CASE n # 1
    <3>1. PICK g : Flattens(g, uu, n - 1) /\ FlattenSeq(uu) = g[n - 1]
      <4>1. uu # <<>>
        BY <2>0, <2>2, <2>7
      <4>2. \E g : Flattens(g, uu, Len(uu)) /\ FlattenSeq(uu) = g[Len(uu)]
        BY <2>2, <4>1, FlattenSeqIs
      <4> QED BY <2>2, <4>2
    <3>2. n - 1 \in Nat /\ n \in Nat /\ n - 1 <= n /\ n - 1 \in 1..(n - 1)
      BY <1>0, <2>7
    <3>3. f[n - 1] = g[n - 1]
      <4>1. \A i \in 1..(n - 1) : f[i] = g[i]
        BY <2>3, <2>4, <3>1, <3>2, FlattensAgree
      <4> QED BY <3>2, <4>1
    <3> QED BY <2>0, <2>4, <2>5, <2>7, <3>1, <3>3 DEF Joined, tt, uu
  <2> QED BY <2>6, <2>7
<1> QED BY <1>1, <1>2

\* They are one sequence, and all of them are FlattenSeq.
LEMMA JoinedType ==
  ASSUME NEW R, NEW ss \in Seq(Seq(R)), NEW n \in 0..Len(ss)
  PROVE  /\ Joined(ss, n) \in Seq(R)
         /\ Joined(ss, Len(ss)) = FlattenSeq(ss)
<1>0. Len(ss) \in Nat
  BY LenProperties
<1> DEFINE S == {k \in Nat : k <= Len(ss) => Joined(ss, k) \in Seq(R)}
<1>1. 0 \in S
  BY JoinedStep, EmptySeq
<1>2. ASSUME NEW k \in Nat, k \in S PROVE k + 1 \in S
  <2> SUFFICES ASSUME k + 1 <= Len(ss) PROVE Joined(ss, k + 1) \in Seq(R)
    OBVIOUS
  <2>1. k + 1 \in 1..Len(ss) /\ (k + 1) - 1 = k /\ Joined(ss, k) \in Seq(R)
    BY <1>0, <1>2
  <2>2. ss[k + 1] \in Seq(R)
    BY <2>1, ElementOfSeq
  <2>3. Joined(ss, k) \o ss[k + 1] \in Seq(R)
    BY <2>1, <2>2, ConcatProperties
  <2> QED BY <2>1, <2>2, <2>3, JoinedStep
<1> HIDE DEF S
<1>3. Nat \subseteq S
  BY <1>1, <1>2, SetInduction
<1>4. [i \in 1..Len(ss) |-> ss[i]] = ss
  BY LenProperties
<1>5. n \in Nat /\ n <= Len(ss)
  BY <1>0
<1>6. Joined(ss, n) \in Seq(R)
  BY <1>3, <1>5 DEF S
<1> QED BY <1>4, <1>6 DEF Joined

\* Joined one more, whether or not it is the first.
LEMMA JoinedNext ==
  ASSUME NEW R, NEW ss \in Seq(Seq(R)), NEW n \in Nat, n + 1 <= Len(ss)
  PROVE  /\ ss[n + 1] \in Seq(R)
         /\ Joined(ss, n) \in Seq(R)
         /\ Joined(ss, n + 1) = Joined(ss, n) \o ss[n + 1]
         /\ Len(Joined(ss, n + 1)) = Len(Joined(ss, n)) + Len(ss[n + 1])
<1>0. Len(ss) \in Nat
  BY LenProperties
<1>1. n + 1 \in 1..Len(ss) /\ (n + 1) - 1 = n /\ n \in 0..Len(ss)
  BY <1>0
<1>2. ss[n + 1] \in Seq(R)
  BY <1>1, ElementOfSeq
<1>3. Joined(ss, n) \in Seq(R)
  BY <1>1, JoinedType
<1>4. Joined(ss, n + 1) = Joined(ss, n) \o ss[n + 1]
  <2>0. Joined(ss, n + 1) =
          IF n + 1 = 1 THEN ss[n + 1] ELSE Joined(ss, (n + 1) - 1) \o ss[n + 1]
    BY <1>1, JoinedStep
  <2>1. CASE n = 0
    <3>1. Joined(ss, n) = <<>>
      BY <2>1, JoinedStep
    <3>2. <<>> \o ss[n + 1] = ss[n + 1]
      BY <1>2, ConcatEmptySeq
    <3>3. n + 1 = 1
      BY <2>1
    <3> QED BY <2>0, <3>1, <3>2, <3>3
  <2>2. CASE n # 0
    <3>1. n + 1 # 1
      BY <2>2
    <3> QED BY <1>1, <2>0, <3>1
  <2> QED BY <2>1, <2>2
<1> QED BY <1>2, <1>3, <1>4, ConcatProperties

\* More sequences are longer.
LEMMA JoinedGrows ==
  ASSUME NEW R, NEW ss \in Seq(Seq(R)), NEW n \in 0..Len(ss), NEW m \in n..Len(ss)
  PROVE  Len(Joined(ss, n)) <= Len(Joined(ss, m))
<1> DEFINE S == {k \in Nat : n + k <= Len(ss)
                                => Len(Joined(ss, n)) <= Len(Joined(ss, n + k))}
<1>0. Len(ss) \in Nat /\ n \in Nat /\ m \in Nat
  BY LenProperties
<1>1. 0 \in S
  <2>1. Joined(ss, n) \in Seq(R) /\ n + 0 = n
    BY <1>0, JoinedType
  <2>2. Len(Joined(ss, n)) \in Nat
    BY <2>1, LenProperties
  <2> QED BY <2>1, <2>2
<1>2. ASSUME NEW k \in Nat, k \in S PROVE k + 1 \in S
  <2> SUFFICES ASSUME n + (k + 1) <= Len(ss)
               PROVE  Len(Joined(ss, n)) <= Len(Joined(ss, n + (k + 1)))
    OBVIOUS
  <2> DEFINE q == n + k
  <2>1. q \in Nat /\ q + 1 <= Len(ss) /\ q + 1 = n + (k + 1)
    BY <1>0
  <2>2. Len(Joined(ss, n)) <= Len(Joined(ss, q))
    BY <1>0, <1>2, <2>1
  <2> HIDE DEF S, q
  <2>3. /\ Joined(ss, q) \in Seq(R) /\ ss[q + 1] \in Seq(R)
        /\ Len(Joined(ss, q + 1)) = Len(Joined(ss, q)) + Len(ss[q + 1])
    BY <2>1, JoinedNext
  <2>4. Joined(ss, n) \in Seq(R)
    BY <1>0, JoinedType
  <2>5. /\ Len(Joined(ss, n)) \in Nat /\ Len(Joined(ss, q)) \in Nat
        /\ Len(ss[q + 1]) \in Nat
    BY <2>3, <2>4, LenProperties
  <2>6. Len(Joined(ss, n)) <= Len(Joined(ss, q + 1))
    BY <2>2, <2>3, <2>5
  <2> QED BY <2>1, <2>6
<1> HIDE DEF S
<1>3. Nat \subseteq S
  BY <1>1, <1>2, SetInduction
<1>4. m - n \in Nat /\ n + (m - n) = m /\ m <= Len(ss)
  BY <1>0
<1>5. m - n \in S
  BY <1>3, <1>4
<1> QED BY <1>4, <1>5 DEF S

\* Where an element of a sequence is in all of them in one.
LEMMA JoinedAt ==
  ASSUME NEW R, NEW ss \in Seq(Seq(R)), NEW n \in Nat, n + 1 <= Len(ss),
         NEW j \in 1..Len(ss[n + 1])
  PROVE  /\ Len(Joined(ss, n)) + j \in 1..Len(FlattenSeq(ss))
         /\ FlattenSeq(ss)[Len(Joined(ss, n)) + j] = ss[n + 1][j]
<1> DEFINE p == Len(Joined(ss, n)) + j
           S == {k \in Nat : n + 1 + k <= Len(ss)
                   => /\ p \in 1..Len(Joined(ss, n + 1 + k))
                      /\ Joined(ss, n + 1 + k)[p] = ss[n + 1][j]}
<1>0. /\ Len(ss) \in Nat /\ ss[n + 1] \in Seq(R) /\ Joined(ss, n) \in Seq(R)
      /\ Len(ss[n + 1]) \in Nat /\ j \in Nat /\ Len(Joined(ss, n)) \in Nat
      /\ p \in Nat /\ p > Len(Joined(ss, n))
  <2>1. Len(ss) \in Nat
    BY LenProperties
  <2>2. ss[n + 1] \in Seq(R) /\ Joined(ss, n) \in Seq(R)
    BY JoinedNext
  <2>3. Len(ss[n + 1]) \in Nat /\ Len(Joined(ss, n)) \in Nat
    BY <2>2, LenProperties
  <2> QED BY <2>1, <2>2, <2>3
<1>1. 0 \in S
  <2> DEFINE a == Joined(ss, n)
             b == ss[n + 1]
  <2>1. Joined(ss, n + 1) = a \o b
    BY JoinedNext
  <2>2. n + 1 + 0 = n + 1 /\ p - Len(a) = j
    BY <1>0
  <2>3. Len(a \o b) = Len(a) + Len(b)
    BY <1>0, ConcatProperties
  <2>4. p \in 1..(Len(a) + Len(b))
    BY <1>0
  <2>5. (a \o b)[p] = b[j]
    BY <1>0, <2>2, <2>4, ConcatProperties
  <2> QED BY <2>1, <2>2, <2>3, <2>4, <2>5
<1>2. ASSUME NEW k \in Nat, k \in S PROVE k + 1 \in S
  <2> SUFFICES ASSUME n + 1 + (k + 1) <= Len(ss)
               PROVE  /\ p \in 1..Len(Joined(ss, n + 1 + (k + 1)))
                      /\ Joined(ss, n + 1 + (k + 1))[p] = ss[n + 1][j]
    OBVIOUS
  <2> DEFINE q == n + 1 + k
             a == Joined(ss, q)
             b == ss[q + 1]
  <2>1. q \in Nat /\ q + 1 <= Len(ss) /\ q + 1 = n + 1 + (k + 1) /\ q <= Len(ss)
    BY <1>0
  <2>2. p \in 1..Len(a) /\ a[p] = ss[n + 1][j]
    BY <1>2, <2>1
  <2> HIDE DEF q, S, p
  <2>3. a \in Seq(R) /\ b \in Seq(R) /\ Joined(ss, q + 1) = a \o b
    BY <2>1, JoinedNext
  <2> HIDE DEF a, b
  <2>4. Len(a) \in Nat /\ Len(b) \in Nat
    BY <2>3, LenProperties
  <2>5. p \in 1..(Len(a) + Len(b)) /\ p <= Len(a)
    BY <2>2, <2>4
  <2>6. (a \o b)[p] = a[p] /\ Len(a \o b) = Len(a) + Len(b)
    BY <2>3, <2>5, ConcatProperties
  <2> QED BY <2>1, <2>2, <2>3, <2>5, <2>6
<1> HIDE DEF S, p
<1>3. Nat \subseteq S
  BY <1>1, <1>2, SetInduction
<1>4. Len(ss) - (n + 1) \in Nat /\ n + 1 + (Len(ss) - (n + 1)) = Len(ss)
      /\ n + 1 + (Len(ss) - (n + 1)) <= Len(ss)
  BY <1>0
<1>5. Len(ss) - (n + 1) \in S
  BY <1>3, <1>4
<1>6. p \in 1..Len(Joined(ss, Len(ss))) /\ Joined(ss, Len(ss))[p] = ss[n + 1][j]
  BY <1>4, <1>5 DEF S
<1>7. Joined(ss, Len(ss)) = FlattenSeq(ss)
  <2>1. Len(ss) \in 0..Len(ss)
    BY <1>0
  <2> QED BY <2>1, JoinedType
<1> QED BY <1>6, <1>7 DEF p

\* b members of the sequence after the first n of ss begin behind its a-th
\* and behind the c-th of all.
IsPart(R, ss, n, a, b, c) ==
  /\ ss \in Seq(Seq(R)) /\ n \in Nat /\ n + 1 <= Len(ss)
  /\ a \in Nat /\ b \in Nat /\ a + b <= Len(ss[n + 1])
  /\ c = Len(Joined(ss, n)) + a

\* SubSeq, to be expanded only where it is needed.
Part(s, m, n) == SubSeq(s, m, n)

\* A part of one of the sequences is a part of all of them in one.
LEMMA FlattenSegment ==
  ASSUME NEW R, NEW ss, NEW n, NEW a, NEW b, NEW e, IsPart(R, ss, n, a, b, e)
  PROVE  Part(ss[n + 1], a + 1, a + b) = Part(FlattenSeq(ss), e + 1, e + b)
<1> DEFINE c == Len(Joined(ss, n))
           all == FlattenSeq(ss)
           s == ss[n + 1]
<1>00. /\ ss \in Seq(Seq(R)) /\ n \in Nat /\ n + 1 <= Len(ss)
       /\ a \in Nat /\ b \in Nat /\ a + b <= Len(s) /\ e = c + a
  BY DEF IsPart
<1>0. Len(ss) \in Nat /\ s \in Seq(R) /\ Joined(ss, n) \in Seq(R) /\ all \in Seq(R)
  <2>1. Len(ss) \in Nat
    BY <1>00, LenProperties
  <2>2. Len(ss) \in 0..Len(ss)
    BY <2>1
  <2> QED BY <1>00, <2>1, <2>2, JoinedNext, JoinedType
<1>1. c \in Nat /\ Len(s) \in Nat /\ Len(all) \in Nat
  BY <1>0, LenProperties
<1>2. \A j \in 1..Len(s) : c + j \in 1..Len(all) /\ all[c + j] = s[j]
  BY <1>00, JoinedAt
<1> HIDE DEF c, all, s
<1>3. \A i \in 1..b : /\ s[a + i] = all[c + a + i]
  <2> SUFFICES ASSUME NEW i \in 1..b PROVE s[a + i] = all[c + a + i]
    OBVIOUS
  <2>1. a + i \in 1..Len(s) /\ c + (a + i) = c + a + i
    BY <1>00, <1>1
  <2> QED BY <1>2, <2>1
<1>4. SubSeq(s, a + 1, a + b) = [i \in 1..b |-> s[a + i]]
  <2>1. SubSeq(s, a + 1, a + b) = [i \in 1..((a + b) - (a + 1) + 1) |-> s[i + (a + 1) - 1]]
    BY <1>00, <1>0, <1>1
  <2>2. (a + b) - (a + 1) + 1 = b /\ \A i \in 1..b : i + (a + 1) - 1 = a + i
    BY <1>00
  <2> QED BY <2>1, <2>2
<1>5. SubSeq(all, c + a + 1, c + a + b) = [i \in 1..b |-> all[c + a + i]]
  <2>1. SubSeq(all, c + a + 1, c + a + b)
          = [i \in 1..((c + a + b) - (c + a + 1) + 1) |-> all[i + (c + a + 1) - 1]]
    BY <1>00, <1>0, <1>1
  <2>2. /\ (c + a + b) - (c + a + 1) + 1 = b
        /\ \A i \in 1..b : i + (c + a + 1) - 1 = c + a + i
    BY <1>00, <1>1
  <2> QED BY <2>1, <2>2
<1>6. [i \in 1..b |-> s[a + i]] = [i \in 1..b |-> all[c + a + i]]
  BY <1>3
<1> QED BY <1>00, <1>4, <1>5, <1>6 DEF c, all, s, Part

\* Sequences with nothing in them are nothing.
LEMMA FlattenNothing ==
  ASSUME NEW R, NEW ss \in Seq(Seq(R)), \A i \in 1..Len(ss) : ss[i] = <<>>
  PROVE  FlattenSeq(ss) = <<>>
<1> DEFINE S == {k \in Nat : k <= Len(ss) => Joined(ss, k) = <<>>}
<1>0. Len(ss) \in Nat
  BY LenProperties
<1>1. 0 \in S
  BY JoinedStep
<1>2. ASSUME NEW k \in Nat, k \in S PROVE k + 1 \in S
  <2> SUFFICES ASSUME k + 1 <= Len(ss) PROVE Joined(ss, k + 1) = <<>>
    OBVIOUS
  <2>1. Joined(ss, k + 1) = Joined(ss, k) \o ss[k + 1]
    BY JoinedNext
  <2>2. Joined(ss, k) = <<>> /\ ss[k + 1] = <<>>
    BY <1>0, <1>2
  <2>3. <<>> \o <<>> = <<>>
    BY ConcatEmptySeq, EmptySeq
  <2> QED BY <2>1, <2>2, <2>3
<1> HIDE DEF S
<1>3. Nat \subseteq S
  BY <1>1, <1>2, SetInduction
<1>4. Joined(ss, Len(ss)) = <<>>
  BY <1>0, <1>3 DEF S
<1>5. Len(ss) \in 0..Len(ss)
  BY <1>0
<1> QED BY <1>4, <1>5, JoinedType

\* Sequences that agree are the same in one.
LEMMA JoinedSame ==
  ASSUME NEW ss, NEW tt, NEW n \in Nat, \A i \in 1..n : ss[i] = tt[i]
  PROVE  Joined(ss, n) = Joined(tt, n)
<1>1. [i \in 1..n |-> ss[i]] = [i \in 1..n |-> tt[i]]
  OBVIOUS
<1> QED BY <1>1 DEF Joined

\* One more sequence, with nothing in it, changes nothing wherever it is.
LEMMA FlattenInserted ==
  ASSUME NEW R, NEW ss \in Seq(Seq(R)), NEW tt \in Seq(Seq(R)), NEW j \in 0..Len(ss),
         Len(tt) = Len(ss) + 1,
         \A i \in 1..Len(tt) :
           tt[i] = IF i <= j THEN ss[i] ELSE IF i = j + 1 THEN <<>> ELSE ss[i - 1]
  PROVE  FlattenSeq(tt) = FlattenSeq(ss)
<1> DEFINE S == {k \in Nat : j + k <= Len(ss) => Joined(tt, j + k + 1) = Joined(ss, j + k)}
<1>0. Len(ss) \in Nat /\ Len(tt) \in Nat /\ j \in Nat
  BY LenProperties
<1>1. 0 \in S
  <2>0. j + 1 \in 1..Len(tt) /\ \A i \in 1..j : i \in 1..Len(tt) /\ i <= j
    BY <1>0
  <2>1. \A i \in 1..j : tt[i] = ss[i]
    BY <2>0
  <2>2. Joined(tt, j) = Joined(ss, j)
    BY <1>0, <2>1, JoinedSame
  <2>8. j + 1 <= Len(tt) /\ ~ (j + 1 <= j)
    BY <1>0
  <2>3. Joined(tt, j + 1) = Joined(tt, j) \o tt[j + 1]
    BY <1>0, <2>8, JoinedNext
  <2>4. tt[j + 1] = <<>>
    BY <2>0, <2>8
  <2>5. Joined(ss, j) \in Seq(R)
    BY JoinedType
  <2>6. Joined(ss, j) \o <<>> = Joined(ss, j)
    BY <2>5, ConcatEmptySeq
  <2>7. j + 0 = j
    BY <1>0
  <2> QED BY <2>2, <2>3, <2>4, <2>6, <2>7
<1>2. ASSUME NEW k \in Nat, k \in S PROVE k + 1 \in S
  <2> SUFFICES ASSUME j + (k + 1) <= Len(ss)
               PROVE  Joined(tt, j + (k + 1) + 1) = Joined(ss, j + (k + 1))
    OBVIOUS
  <2> DEFINE q == j + k
  <2>1. q \in Nat /\ q + 1 <= Len(ss) /\ q + 1 = j + (k + 1) /\ q + 2 = j + (k + 1) + 1
        /\ q + 1 \in Nat /\ (q + 1) + 1 <= Len(tt) /\ (q + 1) + 1 = q + 2
    BY <1>0
  <2>2. Joined(tt, q + 1) = Joined(ss, q)
    BY <1>0, <1>2
  <2>3. tt[(q + 1) + 1] = ss[q + 1]
    BY <1>0
  <2> HIDE DEF S, q
  <2>4. Joined(tt, (q + 1) + 1) = Joined(tt, q + 1) \o tt[(q + 1) + 1]
    BY <2>1, JoinedNext
  <2>5. Joined(ss, q + 1) = Joined(ss, q) \o ss[q + 1]
    BY <2>1, JoinedNext
  <2> QED BY <2>1, <2>2, <2>3, <2>4, <2>5
<1> HIDE DEF S
<1>3. Nat \subseteq S
  BY <1>1, <1>2, SetInduction
<1>4. Len(ss) - j \in Nat /\ j + (Len(ss) - j) = Len(ss) /\ j + (Len(ss) - j) + 1 = Len(tt)
  BY <1>0
<1>5. Len(ss) - j \in S
  BY <1>3, <1>4
<1>6. Joined(tt, Len(tt)) = Joined(ss, Len(ss))
  BY <1>4, <1>5 DEF S
<1>7. Len(ss) \in 0..Len(ss) /\ Len(tt) \in 0..Len(tt)
  BY <1>0
<1> QED BY <1>6, <1>7, JoinedType

\* Of sequences of at most one element, there are as many elements as there
\* are sequences that have one.
LEMMA FlattenCount ==
  ASSUME NEW R, NEW ss \in Seq(Seq(R)), \A i \in 1..Len(ss) : ss[i] = <<>> \/ Len(ss[i]) = 1
  PROVE  /\ Len(FlattenSeq(ss)) = Cardinality({i \in 1..Len(ss) : ss[i] # <<>>})
         /\ IsFiniteSet({i \in 1..Len(ss) : ss[i] # <<>>})
<1> DEFINE Some(k) == {i \in 1..k : ss[i] # <<>>}
           S == {k \in Nat : k <= Len(ss) => /\ IsFiniteSet(Some(k))
                                             /\ Len(Joined(ss, k)) = Cardinality(Some(k))}
<1>0. Len(ss) \in Nat
  BY LenProperties
<1>1. 0 \in S
  <2>1. Some(0) = {}
    OBVIOUS
  <2>2. Len(Joined(ss, 0)) = 0
    BY JoinedStep, EmptySeq
  <2> HIDE DEF Some
  <2> QED BY <2>1, <2>2, FS_EmptySet
<1>2. ASSUME NEW k \in Nat, k \in S PROVE k + 1 \in S
  <2> SUFFICES ASSUME k + 1 <= Len(ss)
               PROVE  /\ IsFiniteSet(Some(k + 1))
                      /\ Len(Joined(ss, k + 1)) = Cardinality(Some(k + 1))
    OBVIOUS
  <2>1. IsFiniteSet(Some(k)) /\ Len(Joined(ss, k)) = Cardinality(Some(k))
    BY <1>0, <1>2
  <2>2. Joined(ss, k) \in Seq(R) /\ ss[k + 1] \in Seq(R)
        /\ Len(Joined(ss, k + 1)) = Len(Joined(ss, k)) + Len(ss[k + 1])
    BY JoinedNext
  <2>3. Len(Joined(ss, k)) \in Nat
    BY <2>2, LenProperties
  <2>4. ss[k + 1] = <<>> \/ Len(ss[k + 1]) = 1
    BY <1>0
  <2>5. CASE ss[k + 1] = <<>>
    <3>1. Some(k + 1) = Some(k)
      BY <2>5
    <3>2. Len(ss[k + 1]) = 0
      BY <2>5, EmptySeq
    <3> HIDE DEF Some, S
    <3> QED BY <2>1, <2>2, <2>3, <3>1, <3>2
  <2>6. CASE ss[k + 1] # <<>>
    <3>1. Some(k + 1) = Some(k) \cup {k + 1} /\ k + 1 \notin Some(k)
      BY <2>6
    <3> HIDE DEF Some, S
    <3>2. /\ IsFiniteSet(Some(k) \cup {k + 1})
          /\ Cardinality(Some(k) \cup {k + 1}) = Cardinality(Some(k)) + 1
      BY <2>1, <3>1, FS_AddElement
    <3> QED BY <2>1, <2>2, <2>3, <2>4, <2>6, <3>1, <3>2
  <2> QED BY <2>5, <2>6
<1> HIDE DEF S
<1>3. Nat \subseteq S
  BY <1>1, <1>2, SetInduction
<1>4. IsFiniteSet(Some(Len(ss))) /\ Len(Joined(ss, Len(ss))) = Cardinality(Some(Len(ss)))
  <2>1. Len(ss) \in S
    BY <1>0, <1>3
  <2> HIDE DEF Some
  <2> QED BY <1>0, <2>1 DEF S
<1>5. Len(ss) \in 0..Len(ss)
  BY <1>0
<1> QED BY <1>4, <1>5, JoinedType

\* The members of each of ss are related, one by one, to those of tt.
Paired(A, R, Q, ss, tt) ==
  /\ ss \in Seq(Seq(R)) /\ tt \in Seq(Seq(Q)) /\ Len(tt) = Len(ss)
  /\ \A i \in 1..Len(ss) :
       /\ Len(tt[i]) = Len(ss[i])
       /\ \A k \in 1..Len(ss[i]) : <<ss[i][k], tt[i][k]>> \in A

\* What holds one by one for sequences holds for them in one.
LEMMA FlattenPaired ==
  ASSUME NEW A, NEW R, NEW Q, NEW ss, NEW tt, Paired(A, R, Q, ss, tt)
  PROVE  /\ FlattenSeq(ss) \in Seq(R) /\ FlattenSeq(tt) \in Seq(Q)
         /\ Len(FlattenSeq(tt)) = Len(FlattenSeq(ss))
         /\ \A k \in 1..Len(FlattenSeq(ss)) : <<FlattenSeq(ss)[k], FlattenSeq(tt)[k]>> \in A
<1> DEFINE Good(s, t) == /\ Len(t) = Len(s)
                         /\ \A k \in 1..Len(s) : <<s[k], t[k]>> \in A
           S == {n \in Nat : n <= Len(ss) => Good(Joined(ss, n), Joined(tt, n))}
<1>0. ss \in Seq(Seq(R)) /\ tt \in Seq(Seq(Q)) /\ Len(tt) = Len(ss) /\ Len(ss) \in Nat
  BY LenProperties DEF Paired
<1>1. 0 \in S
  <2>1. Joined(ss, 0) = <<>> /\ Joined(tt, 0) = <<>>
    BY <1>0, JoinedStep
  <2>2. Good(<<>>, <<>>)
    BY EmptySeq
  <2> QED BY <2>1, <2>2
<1>2. ASSUME NEW n \in Nat, n \in S PROVE n + 1 \in S
  <2> SUFFICES ASSUME n + 1 <= Len(ss) PROVE Good(Joined(ss, n + 1), Joined(tt, n + 1))
    OBVIOUS
  <2> DEFINE a == Joined(ss, n)
             b == ss[n + 1]
             c == Joined(tt, n)
             d == tt[n + 1]
  <2>1. a \in Seq(R) /\ b \in Seq(R) /\ Joined(ss, n + 1) = a \o b
    BY <1>0, JoinedNext
  <2>2. c \in Seq(Q) /\ d \in Seq(Q) /\ Joined(tt, n + 1) = c \o d
    BY <1>0, JoinedNext
  <2>3. Good(a, c)
    BY <1>0, <1>2
  <2>4. Good(b, d)
    <3>1. n + 1 \in 1..Len(ss)
      BY <1>0
    <3> QED BY <3>1 DEF Paired
  <2> HIDE DEF a, b, c, d
  <2>5. /\ Len(a) \in Nat /\ Len(b) \in Nat /\ Len(a \o b) = Len(a) + Len(b)
        /\ \A k \in 1..Len(a) + Len(b) :
             (a \o b)[k] = IF k <= Len(a) THEN a[k] ELSE b[k - Len(a)]
    BY <2>1, LenProperties, ConcatProperties
  <2>61. /\ Len(c \o d) = Len(c) + Len(d)
         /\ \A k \in 1..Len(c) + Len(d) :
              (c \o d)[k] = IF k <= Len(c) THEN c[k] ELSE d[k - Len(c)]
    BY <2>2, ConcatProperties
  <2>62. Len(c) = Len(a) /\ Len(d) = Len(b)
    BY <2>3, <2>4
  <2>6. /\ Len(c) = Len(a) /\ Len(d) = Len(b) /\ Len(c \o d) = Len(a) + Len(b)
        /\ \A k \in 1..Len(a) + Len(b) :
             (c \o d)[k] = IF k <= Len(a) THEN c[k] ELSE d[k - Len(a)]
    BY ONLY <2>61, <2>62
  <2>7. ASSUME NEW k \in 1..Len(a \o b) PROVE <<(a \o b)[k], (c \o d)[k]>> \in A
    <3>1. CASE k <= Len(a)
      <4>1. k \in 1..Len(a) /\ (a \o b)[k] = a[k] /\ (c \o d)[k] = c[k]
        BY <2>5, <2>6, <3>1
      <4> QED BY <2>3, <4>1
    <3>2. CASE ~(k <= Len(a))
      <4>1. /\ k - Len(a) \in 1..Len(b)
            /\ (a \o b)[k] = b[k - Len(a)] /\ (c \o d)[k] = d[k - Len(a)]
        BY <2>5, <2>6, <3>2
      <4> QED BY <2>4, <4>1
    <3> QED BY <3>1, <3>2
  <2> QED BY <2>1, <2>2, <2>5, <2>6, <2>7
<1> HIDE DEF S
<1>3. Nat \subseteq S
  BY <1>1, <1>2, SetInduction
<1>4. Len(ss) \in S
  BY <1>0, <1>3
<1>5. Good(Joined(ss, Len(ss)), Joined(tt, Len(ss)))
  BY <1>0, <1>4 DEF S
<1>6. /\ Joined(ss, Len(ss)) = FlattenSeq(ss) /\ Joined(ss, Len(ss)) \in Seq(R)
      /\ Joined(tt, Len(ss)) = FlattenSeq(tt) /\ Joined(tt, Len(ss)) \in Seq(Q)
  <2>1. Len(ss) \in 0..Len(ss) /\ Len(tt) \in 0..Len(tt)
    BY <1>0
  <2> QED BY <1>0, <2>1, JoinedType
<1> QED BY <1>5, <1>6

-----------------------------------------------------------------------------
\* The members of s at the places in K, each in a sequence of its own, and these in one.
Singles(s, K) == [i \in DOMAIN s |-> IF i \in K THEN <<s[i]>> ELSE <<>>]

Filtered(s, K) == FlattenSeq(Singles(s, K))

\* The sequences it is made of.
LEMMA FilteredParts ==
  ASSUME NEW R, NEW s \in Seq(R), NEW K
  PROVE  /\ Singles(s, K) \in Seq(Seq(R)) /\ Len(Singles(s, K)) = Len(s) /\ Len(s) \in Nat
         /\ DOMAIN s = 1..Len(s)
         /\ \A i \in 1..Len(s) : /\ s[i] \in R
                                 /\ i \in K => Singles(s, K)[i] = <<s[i]>>
                                 /\ i \notin K => Singles(s, K)[i] = <<>>
<1> DEFINE ss == Singles(s, K)
           n == Len(s)
<1>1. n \in Nat /\ DOMAIN s = 1..n /\ \A i \in 1..n : s[i] \in R
  BY LenProperties, ElementOfSeq
<1>2. ss = [i \in 1..n |-> ss[i]] /\ DOMAIN ss = 1..n /\ \A i \in 1..n : ss[i] \in Seq(R)
  BY <1>1 DEF Singles
<1>3. ss \in Seq(Seq(R))
  BY <1>1, <1>2, IsASeq
<1>4. Len(ss) = n
  BY <1>1, <1>2, <1>3, LenProperties
<1>5. \A i \in 1..n : /\ i \in K => ss[i] = <<s[i]>>
                      /\ i \notin K => ss[i] = <<>>
  BY <1>1 DEF Singles
<1> QED BY <1>1, <1>3, <1>4, <1>5

\* t has just the members of s at the places of K up to m.
HasThose(t, s, K, m) ==
  \A x : (\E a \in 1..Len(t) : x = t[a]) <=> \E i \in 1..m : i \in K /\ x = s[i]

\* What comes earlier in t is related by Le to what comes later.
KeepsOrder(t, Le) == \A a, b \in 1..Len(t) : a < b => <<t[a], t[b]>> \in Le

\* Earlier and later members of s at the places in K are related by Le.
Related(R, s, K, Le) ==
  /\ s \in Seq(R)
  /\ \A i, j \in 1..Len(s) : i \in K /\ j \in K /\ i < j => <<s[i], s[j]>> \in Le

\* It has just these members, and what holds of any two of them that follow
\* each other in s holds of them there too.
LEMMA FilteredIs ==
  ASSUME NEW R, NEW s, NEW K, NEW Le, Related(R, s, K, Le)
  PROVE  /\ Filtered(s, K) \in Seq(R)
         /\ \A x : x \in ToSet(Filtered(s, K)) <=> \E i \in 1..Len(s) : i \in K /\ x = s[i]
         /\ \A a, b \in 1..Len(Filtered(s, K)) :
              a < b => <<Filtered(s, K)[a], Filtered(s, K)[b]>> \in Le
<1> DEFINE ss == Singles(s, K)
           n == Len(s)
<1>0. /\ s \in Seq(R)
      /\ \A i, j \in 1..Len(s) : i \in K /\ j \in K /\ i < j => <<s[i], s[j]>> \in Le
  BY DEF Related
<1>1. /\ ss \in Seq(Seq(R)) /\ Len(ss) = n /\ n \in Nat
      /\ \A i \in 1..n : /\ s[i] \in R
                         /\ i \in K => ss[i] = <<s[i]>>
                         /\ i \notin K => ss[i] = <<>>
  BY <1>0, FilteredParts
<1> HIDE DEF ss
<1> DEFINE J(m) == Joined(ss, m)
           Has(m) == HasThose(J(m), s, K, m)
           Ordered(m) == KeepsOrder(J(m), Le)
           S == {m \in Nat : m <= n => Has(m) /\ Ordered(m)}
<1>2. 0 \in S
  <2>1. J(0) = <<>> /\ Len(J(0)) = 0
    BY <1>1, JoinedStep, EmptySeq
  <2>2. Has(0) /\ Ordered(0)
    BY ONLY <2>1 DEF HasThose, KeepsOrder
  <2> QED BY <2>2
<1>3. ASSUME NEW m \in Nat, m \in S PROVE m + 1 \in S
  <2> SUFFICES ASSUME m + 1 <= n PROVE Has(m + 1) /\ Ordered(m + 1)
    OBVIOUS
  <2>1. Has(m) /\ Ordered(m)
    BY <1>1, <1>3
  <2>2. J(m) \in Seq(R) /\ J(m + 1) = J(m) \o ss[m + 1]
    BY <1>1, JoinedNext
  <2>3. m + 1 \in 1..n /\ Len(J(m)) \in Nat /\ s[m + 1] \in R
    BY <1>1, <2>2, LenProperties
  <2> HIDE DEF J
  <2>4. CASE m + 1 \notin K
    <3>1. ss[m + 1] = <<>>
      BY <1>1, <2>3, <2>4
    <3>2. J(m + 1) = J(m)
      BY <2>2, <3>1, ConcatEmptySeq
    <3>3. \A x : (\E i \in 1..(m + 1) : i \in K /\ x = s[i]) <=> \E i \in 1..m : i \in K /\ x = s[i]
      BY <2>4
    <3>4. Has(m + 1)
      <4> SUFFICES ASSUME NEW x
                   PROVE  (\E a \in 1..Len(J(m + 1)) : x = J(m + 1)[a])
                             <=> \E i \in 1..(m + 1) : i \in K /\ x = s[i]
        BY DEF HasThose
      <4>1. (\E a \in 1..Len(J(m)) : x = J(m)[a]) <=> \E i \in 1..m : i \in K /\ x = s[i]
        BY <2>1 DEF HasThose
      <4> QED BY <3>2, <3>3, <4>1
    <3> QED BY ONLY <2>1, <3>2, <3>4
  <2>5. CASE m + 1 \in K
    <3> DEFINE l == Len(J(m))
               e == s[m + 1]
    <3>1. J(m + 1) = J(m) \o <<e>>
      BY <1>1, <2>2, <2>3, <2>5
    <3>2. <<e>> \in Seq(R) /\ Len(<<e>>) = 1 /\ <<e>>[1] = e
      BY <2>3
    <3>3. /\ Len(J(m + 1)) = l + 1
          /\ \A a \in 1..l : J(m + 1)[a] = J(m)[a]
          /\ J(m + 1)[l + 1] = e
      <4>1. /\ Len(J(m) \o <<e>>) = l + 1
            /\ \A a \in 1..(l + 1) : (J(m) \o <<e>>)[a] = IF a <= l THEN J(m)[a] ELSE <<e>>[a - l]
        BY <2>2, <3>2, ConcatProperties
      <4>2. (l + 1) - l = 1 /\ l + 1 \in 1..(l + 1) /\ ~(l + 1 <= l)
        BY <2>3
      <4>3. \A a \in 1..l : a \in 1..(l + 1) /\ a <= l
        BY <2>3
      <4>4. (J(m) \o <<e>>)[l + 1] = <<e>>[1]
        BY <4>1, <4>2
      <4> QED BY <3>1, <3>2, <4>1, <4>3, <4>4
    <3>4. l \in Nat /\ \A a \in 1..(l + 1) : a \in 1..l \/ a = l + 1
      BY <2>3
    <3>5. \A a \in 1..l : a \in 1..(l + 1)
      BY <3>4
    <3>6. \A i \in 1..(m + 1) : i \in 1..m \/ i = m + 1
      OBVIOUS
    <3>7. \A i \in 1..m : i \in 1..(m + 1) /\ i < m + 1 /\ i \in 1..n
      BY <1>1, <2>3
    <3> HIDE DEF l
    <3>8. Has(m + 1)
      <4> SUFFICES ASSUME NEW x
                   PROVE  (\E a \in 1..Len(J(m + 1)) : x = J(m + 1)[a])
                             <=> \E i \in 1..(m + 1) : i \in K /\ x = s[i]
        BY DEF HasThose
      <4>1. (\E a \in 1..Len(J(m + 1)) : x = J(m + 1)[a])
              <=> (\E a \in 1..l : x = J(m)[a]) \/ x = e
        BY <3>3, <3>4, <3>5
      <4>2. (\E i \in 1..(m + 1) : i \in K /\ x = s[i])
              <=> (\E i \in 1..m : i \in K /\ x = s[i]) \/ x = e
        BY <2>5, <3>6, <3>7
      <4> QED BY <2>1, <4>1, <4>2 DEF l, HasThose
    <3>9. \A a \in 1..l : <<J(m)[a], e>> \in Le
      <4> SUFFICES ASSUME NEW a \in 1..l PROVE <<J(m)[a], e>> \in Le
        OBVIOUS
      <4>1. PICK i \in 1..m : i \in K /\ J(m)[a] = s[i]
        BY <2>1 DEF l, HasThose
      <4> QED BY <1>0, <2>3, <2>5, <3>7, <4>1
    <3>10. Ordered(m + 1)
      <4> SUFFICES ASSUME NEW a \in 1..(l + 1), NEW b \in 1..(l + 1), a < b
                   PROVE  <<J(m + 1)[a], J(m + 1)[b]>> \in Le
        BY <3>3 DEF KeepsOrder
      <4>1. a \in 1..l
        BY <3>4
      <4>2. CASE b = l + 1
        BY <3>3, <3>9, <4>1, <4>2
      <4>3. CASE b \in 1..l
        BY <2>1, <3>3, <4>1, <4>3 DEF l, KeepsOrder
      <4> QED BY <3>4, <4>2, <4>3
    <3> QED BY <3>8, <3>10
  <2> QED BY <2>4, <2>5
<1> HIDE DEF S
<1>4. Nat \subseteq S
  BY <1>2, <1>3, SetInduction
<1>5. n \in S
  BY <1>1, <1>4
<1>6. Has(n) /\ Ordered(n)
  BY <1>1, <1>5 DEF S
<1>7. J(n) = Filtered(s, K) /\ J(n) \in Seq(R)
  <2>1. n \in 0..Len(ss)
    BY <1>1
  <2>2. J(n) = FlattenSeq(ss) /\ J(n) \in Seq(R)
    BY <1>1, <2>1, JoinedType DEF J
  <2> QED BY <2>2 DEF Filtered, ss
<1> HIDE DEF J
<1>8. DOMAIN J(n) = 1..Len(J(n))
  BY <1>7, LenProperties
<1>9. \A x : x \in ToSet(J(n)) <=> \E a \in 1..Len(J(n)) : x = J(n)[a]
  BY <1>8 DEF ToSet
<1> QED BY <1>6, <1>7, <1>9 DEF HasThose, KeepsOrder
=============================================================================
