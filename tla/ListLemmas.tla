------------------------------ MODULE ListLemmas ------------------------------
(* What the proofs of several components count with and know of lists: the least  *)
(* of some naturals, what goes from each number to the next, a list made in steps *)
(* or laid end to end from others, and its prefixes.                              *)
EXTENDS Integers, Sequences, SequencesExt, SequenceTheorems, NaturalsInduction, WellFoundedInduction,
        TLAPS

----------------------------------------------------------------------------
(* Counting.                                                                  *)

(* Among naturals there is a least one.                                       *)
Smaller == {ab \in Nat \X Nat : ab[1] < ab[2]}
LEMMA LeastNatural ==
  ASSUME NEW T, T \subseteq Nat, T # {}
  PROVE  \E x \in T : \A y \in T : x <= y
  <1>1. IsWellFoundedOn(Smaller, Nat)
    BY NatLessThanWellFounded DEF Smaller, OpToRel
  <1>2. PICK x \in T : \A y \in T : <<y, x>> \notin Smaller
    BY <1>1, WFMin
  <1>3. \A y \in T : ~(y < x)
    BY <1>2 DEF Smaller
  <1>4. x \in Nat /\ \A y \in T : y \in Nat
    OBVIOUS
  <1>5. QED
    BY <1>3, <1>4

(* What holds at 0 and goes from each number to the next holds up to n.       *)
LEMMA CountUp ==
  ASSUME NEW n \in Nat, NEW S, 0 \in S, \A i \in 1..n : i - 1 \in S => i \in S
  PROVE  \A i \in 0..n : i \in S
  <1> SUFFICES ASSUME NEW k \in 0..n, k \notin S PROVE FALSE
    OBVIOUS
  <1> DEFINE T == {i \in 0..n : i \notin S}
  <1>1. T \subseteq Nat /\ T # {}
    OBVIOUS
  <1>2. PICK x \in T : \A y \in T : x <= y
    BY <1>1, LeastNatural
  <1>3. x \in 1..n /\ x - 1 \in 0..n /\ ~(x <= x - 1)
    OBVIOUS
  <1>4. x - 1 \in S
    BY <1>2, <1>3
  <1>5. QED
    BY <1>3, <1>4

----------------------------------------------------------------------------
(* Steps from a first value: a function of what comes after each of them.     *)
StepsTo(g, n, base, step) == g[0] = base /\ \A i \in 1 .. n : g[i] = step[<<g[i - 1], i>>]

LEMMA StepsExist ==
  ASSUME NEW n \in Nat, NEW S, NEW base \in S, NEW step \in [S \X (1 .. n) -> S]
  PROVE  \E g \in [0 .. n -> S] : StepsTo(g, n, base, step)
  <1> DEFINE K == {k \in 0 .. n : \E g \in [0 .. k -> S] : StepsTo(g, k, base, step)}
  <1>1. 0 \in K
    <2> DEFINE h == [i \in 0 .. 0 |-> base]
    <2>1. h \in [0 .. 0 -> S] /\ StepsTo(h, 0, base, step)
      BY DEF StepsTo
    <2> HIDE DEF h
    <2>2. QED
      BY <2>1
  <1>2. ASSUME NEW k \in 1 .. n, k - 1 \in K PROVE k \in K
    <2>1. PICK h \in [0 .. (k - 1) -> S] : StepsTo(h, k - 1, base, step)
      BY <1>2
    <2> DEFINE new == step[<<h[k - 1], k>>]
               g == [i \in 0 .. k |-> IF i = k THEN new ELSE h[i]]
    <2>2. \A i \in 0 .. k : i # k => i \in 0 .. (k - 1)
      OBVIOUS
    <2>3. new \in S
      <3>1. h[k - 1] \in S
        OBVIOUS
      <3>2. QED
        BY <3>1
    <2> HIDE DEF new
    <2>4. g \in [0 .. k -> S] /\ g[k] = new /\ g[k - 1] = h[k - 1] /\ g[0] = h[0]
      BY <2>2, <2>3
    <2>5. ASSUME NEW i \in 1 .. k PROVE g[i] = step[<<g[i - 1], i>>]
      <3>1. CASE i = k
        BY <3>1, <2>4 DEF new
      <3>2. CASE i # k
        <4>1. i \in 1 .. (k - 1) /\ g[i] = h[i] /\ g[i - 1] = h[i - 1]
          BY <3>2
        <4>2. QED
          BY <4>1, <2>1 DEF StepsTo
      <3>3. QED
        BY <3>1, <3>2
    <2> HIDE DEF g
    <2>6. StepsTo(g, k, base, step)
      BY <2>1, <2>4, <2>5 DEF StepsTo
    <2>7. QED
      BY <2>4, <2>6
  <1> HIDE DEF K
  <1>3. n \in K
    BY <1>1, <1>2, CountUp
  <1>4. QED
    BY <1>3 DEF K

----------------------------------------------------------------------------
(* Sequences of sequences, laid end to end.                                   *)

Lists(T) == Seq(T)
Then(s, t) == s \o t

LEMMA ThenType ==
  ASSUME NEW T, NEW s \in Lists(T), NEW t \in Lists(T)
  PROVE  /\ Then(s, t) \in Lists(T) /\ Len(Then(s, t)) = Len(s) + Len(t)
         /\ Len(s) \in Nat /\ Len(t) \in Nat
  BY ConcatProperties DEF Then, Lists

LEMMA ThenEmpty ==
  ASSUME NEW T, NEW s \in Lists(T)
  PROVE  /\ Then(s, <<>>) = s /\ Then(<<>>, s) = s
         /\ <<>> \in Lists(T)
  BY ConcatEmptySeq, EmptySeq DEF Then, Lists

LEMMA ThenThen ==
  ASSUME NEW T, NEW s \in Lists(T), NEW t \in Lists(T), NEW u \in Lists(T)
  PROVE  Then(Then(s, t), u) = Then(s, Then(t, u))
  BY ConcatAssociative DEF Then, Lists

LEMMA AppendIsThen ==
  ASSUME NEW T, NEW s \in Lists(T), NEW x \in T
  PROVE  \E one \in Lists(T) : \A r \in Lists(T) : Append(r, x) = Then(r, one) /\ one = <<x>>
  <1>1. <<x>> \in Seq(T)
    OBVIOUS
  <1>2. \A r \in Seq(T) : Append(r, x) = r \o <<x>>
    BY AppendIsConcat
  <1>3. QED
    BY <1>1, <1>2 DEF Then, Lists

LEMMA ThenAppends ==
  ASSUME NEW T, NEW s \in Lists(T), NEW t \in Lists(T), NEW x \in T
  PROVE  Then(s, Append(t, x)) = Append(Then(s, t), x)
  <1>1. PICK one \in Lists(T) : \A r \in Lists(T) : Append(r, x) = Then(r, one)
    BY AppendIsThen
  <1>2. Then(s, t) \in Lists(T)
    BY ThenType
  <1>3. Then(Then(s, t), one) = Then(s, Then(t, one))
    BY ThenThen
  <1>4. QED
    BY <1>1, <1>2, <1>3

LEMMA EmptyIs ==
  ASSUME NEW T, NEW s \in Lists(T)
  PROVE  Len(s) \in Nat /\ (Len(s) = 0 <=> s = <<>>) /\ \A i \in 1 .. Len(s) : s[i] \in T
  <1>1. s \in Seq(T)
    BY DEF Lists
  <1>2. QED
    BY <1>1

LEMMA ListsOf ==
  ASSUME NEW T, NEW U, NEW s \in Lists(T), \A i \in 1 .. Len(s) : s[i] \in U
  PROVE  s \in Lists(U)
  <1>1. s \in Seq(T)
    BY DEF Lists
  <1>2. Len(s) \in Nat /\ s \in [1 .. Len(s) -> U]
    BY <1>1
  <1>3. QED
    BY <1>2 DEF Lists

LEMMA ListsWithin ==
  ASSUME NEW T, NEW U, T \subseteq U
  PROVE  Lists(T) \subseteq Lists(U)
  <1>1. \A s \in Seq(T) : s \in Seq(U)
    BY SeqMonotonic
  <1>2. QED
    BY <1>1 DEF Lists

(* What FlattenSeq has laid after each of the first n.                        *)
FlatTo(f, ss, n, T) ==
    /\ f[1] = ss[1]
    /\ \A i \in 2 .. n : f[i] = Then(f[i - 1], ss[i])
    /\ \A i \in 1 .. n : f[i] \in Lists(T)

LEMMA FlattenSteps ==
  ASSUME NEW T, NEW ss \in Lists(Lists(T)), NEW n \in Nat, Len(ss) = n, n # 0
  PROVE  \E f : FlatTo(f, ss, n, T) /\ FlattenSeq(ss) = f[n]
  <1> DEFINE step == [p \in Lists(T) \X (1 .. n) |-> Then(p[1], ss[p[2]])]
             F(g) == [i \in 1 .. n |-> IF i = 1 THEN ss[i] ELSE Then(g[i - 1], ss[i])]
             f == CHOOSE g : g = F(g)
  <1>1. \A i \in 1 .. n : ss[i] \in Lists(T)
    BY EmptyIs
  <1>2. <<>> \in Lists(T) /\ step \in [Lists(T) \X (1 .. n) -> Lists(T)]
    <2>1. <<>> \in Lists(T)
      BY EmptySeq DEF Lists
    <2>2. \A p \in Lists(T) \X (1 .. n) : Then(p[1], ss[p[2]]) \in Lists(T)
      BY <1>1, ThenType
    <2>3. QED
      BY <2>1, <2>2
  <1>3. FlattenSeq(ss) = f[n]
    BY Zenon DEF FlattenSeq, Then
  <1>4. \E g : g = F(g)
    <2> HIDE DEF step
    <2>1. PICK h \in [0 .. n -> Lists(T)] : StepsTo(h, n, <<>>, step)
      BY <1>2, StepsExist
    <2>2. ASSUME NEW i \in 1 .. n PROVE h[i] = Then(h[i - 1], ss[i])
      <3>1. h[i] = step[<<h[i - 1], i>>]
        BY <2>1 DEF StepsTo
      <3>2. i - 1 \in 0 .. n
        OBVIOUS
      <3>3. <<h[i - 1], i>> \in Lists(T) \X (1 .. n)
        BY <3>2
      <3>4. QED
        BY <3>1, <3>3 DEF step
    <2>3. h[1] = ss[1]
      <3>1. 1 \in 1 .. n /\ 1 - 1 = 0 /\ ss[1] \in Lists(T)
        BY <1>1
      <3>2. h[0] = <<>>
        BY <2>1 DEF StepsTo
      <3>3. h[1] = Then(<<>>, ss[1])
        BY <2>2, <3>1, <3>2
      <3>4. QED
        BY <3>1, <3>3, ThenEmpty
    <2> DEFINE g == [i \in 1 .. n |-> h[i]]
    <2>4. \A i \in 1 .. n : g[i] = IF i = 1 THEN ss[i] ELSE Then(g[i - 1], ss[i])
      BY <2>2, <2>3
    <2>5. g = F(g)
      BY <2>4
    <2>6. QED
      BY <2>5
  <1>5. f = F(f)
    BY <1>4
  <1> HIDE DEF f
  <1>6. f[1] = ss[1] /\ \A i \in 2 .. n : f[i] = Then(f[i - 1], ss[i])
    <2>1. PICK g : g = f /\ g = F(f)
      BY <1>5
    <2>2. g[1] = ss[1] /\ \A i \in 2 .. n : g[i] = Then(f[i - 1], ss[i])
      BY <2>1
    <2>3. QED
      BY <2>1, <2>2
  <1>7. \A i \in 1 .. n : f[i] \in Lists(T)
    <2> DEFINE K == {i \in 0 .. n : i # 0 => f[i] \in Lists(T)}
    <2>1. 0 \in K
      OBVIOUS
    <2>2. ASSUME NEW i \in 1 .. n, i - 1 \in K PROVE i \in K
      <3>1. CASE i = 1
        BY <3>1, <1>1, <1>6
      <3>2. CASE i # 1
        <4>1. f[i - 1] \in Lists(T) /\ i \in 2 .. n
          BY <3>2, <2>2
        <4>2. f[i] = Then(f[i - 1], ss[i]) /\ ss[i] \in Lists(T)
          BY <4>1, <1>1, <1>6
        <4>3. f[i] \in Lists(T)
          BY <4>1, <4>2, ThenType
        <4>4. QED
          BY <4>3
      <3>3. QED
        BY <3>1, <3>2
    <2> HIDE DEF K
    <2>3. \A i \in 0 .. n : i \in K
      BY <2>1, <2>2, CountUp
    <2>4. QED
      BY <2>3 DEF K
  <1> HIDE DEF F, step
  <1>8. FlatTo(f, ss, n, T)
    BY <1>6, <1>7 DEF FlatTo
  <1>9. QED
    BY <1>3, <1>8

LEMMA FlattenEmpty == FlattenSeq(<<>>) = <<>>
  BY DEF FlattenSeq

LEMMA FlattenType ==
  ASSUME NEW T, NEW ss \in Lists(Lists(T))
  PROVE  FlattenSeq(ss) \in Lists(T)
  <1>1. CASE ss = <<>>
    BY <1>1, FlattenEmpty, EmptySeq DEF Lists
  <1>2. CASE ss # <<>>
    <2>1. PICK n \in Nat : n = Len(ss) /\ n # 0
      BY <1>2, EmptyIs
    <2>2. PICK f : FlatTo(f, ss, n, T) /\ FlattenSeq(ss) = f[n]
      BY <2>1, FlattenSteps
    <2>3. QED
      BY <2>1, <2>2 DEF FlatTo
  <1>3. QED
    BY <1>1, <1>2

LEMMA FlattenAppend ==
  ASSUME NEW T, NEW ss \in Lists(Lists(T)), NEW s \in Lists(T)
  PROVE  FlattenSeq(Append(ss, s)) = Then(FlattenSeq(ss), s)
  <1> DEFINE tt == Append(ss, s)
  <1>1. PICK n \in Nat, m \in Nat : n = Len(ss) /\ m = n + 1
    BY EmptyIs
  <1>2. tt \in Lists(Lists(T)) /\ Len(tt) = m /\ tt[m] = s /\ \A i \in 1 .. n : tt[i] = ss[i]
    BY <1>1, AppendProperties DEF Lists
  <1>3. m # 0 /\ m \in 1 .. m /\ m - 1 = n
    BY <1>1
  <1> HIDE DEF tt
  <1>4. PICK g : FlatTo(g, tt, m, T) /\ FlattenSeq(tt) = g[m]
    BY <1>2, <1>3, FlattenSteps
  <1>5. CASE n = 0
    <2>0. m = 1 /\ Len(ss) = 0
      BY <1>1, <1>5
    <2>1. ss = <<>>
      BY <2>0, EmptyIs
    <2>2. FlattenSeq(ss) = <<>>
      BY <2>1, FlattenEmpty
    <2>3. FlattenSeq(tt) = s
      BY <1>2, <1>4, <2>0 DEF FlatTo
    <2>4. Then(<<>>, s) = s
      BY ThenEmpty
    <2>5. QED
      BY <2>2, <2>3, <2>4 DEF tt
  <1>6. CASE n # 0
    <2>1. PICK f : FlatTo(f, ss, n, T) /\ FlattenSeq(ss) = f[n]
      BY <1>1, <1>6, FlattenSteps
    <2> DEFINE K == {i \in 0 .. n : i # 0 => f[i] = g[i]}
    <2>2. 0 \in K
      OBVIOUS
    <2>3. ASSUME NEW i \in 1 .. n, i - 1 \in K PROVE i \in K
      <3>1. CASE i = 1
        <4>1. f[i] = g[i]
          BY <3>1, <1>2, <1>4, <2>1 DEF FlatTo
        <4>2. QED
          BY <4>1
      <3>2. CASE i # 1
        <4>1. f[i - 1] = g[i - 1] /\ i \in 2 .. n /\ i \in 2 .. m
          BY <1>1, <3>2, <2>3
        <4>2. f[i] = Then(f[i - 1], ss[i]) /\ g[i] = Then(g[i - 1], tt[i]) /\ ss[i] = tt[i]
          BY <4>1, <1>2, <1>4, <2>1 DEF FlatTo
        <4>3. f[i] = g[i]
          BY <4>1, <4>2
        <4>4. QED
          BY <4>3
      <3>3. QED
        BY <3>1, <3>2
    <2> HIDE DEF K
    <2>4. \A i \in 0 .. n : i \in K
      BY <2>2, <2>3, CountUp
    <2>5. f[n] = g[n]
      BY <2>4, <1>6 DEF K
    <2>6. m \in 2 .. m
      BY <1>1, <1>6
    <2>7. g[m] = Then(g[m - 1], tt[m])
      BY <1>4, <2>6 DEF FlatTo
    <2>8. QED
      BY <1>2, <1>3, <1>4, <2>1, <2>5, <2>7 DEF tt
  <1>7. QED
    BY <1>5, <1>6

(* Prefixes grow by one element at a time.                                    *)
LEMMA PrefixIs ==
  ASSUME NEW T, NEW s \in Lists(T)
  PROVE  SubSeq(s, 1, 0) = <<>> /\ SubSeq(s, 1, Len(s)) = s
  BY SubSeqEmpty, SubSeqFull DEF Lists

LEMMA PrefixMeans ==
  ASSUME NEW S, NEW b \in Seq(S), NEW s \in Seq(S)
  PROVE  IsPrefix(b, s) <=> Len(b) <= Len(s) /\ \A i \in 1..Len(b) : b[i] = s[i]
  <1>1. Len(b) \in Nat /\ Len(s) \in Nat /\ SubSeq(b, 1, Len(b)) = b
    OBVIOUS
  <1>2. ASSUME Len(b) <= Len(s)
        PROVE  /\ SubSeq(s, 1, Len(b)) \in Seq(S) /\ Len(SubSeq(s, 1, Len(b))) = Len(b)
               /\ \A i \in 1..Len(b) : SubSeq(s, 1, Len(b))[i] = s[i]
    BY <1>1, <1>2
  <1>3. ASSUME Len(b) <= Len(s), \A i \in 1..Len(b) : b[i] = s[i]
        PROVE  SubSeq(s, 1, Len(b)) = b
    <2> DEFINE c == SubSeq(s, 1, Len(b))
    <2>1. c \in Seq(S) /\ Len(c) = Len(b) /\ \A i \in 1..Len(b) : c[i] = b[i]
      BY <1>2, <1>3
    <2> HIDE DEF c
    <2>2. c = b
      BY <2>1
    <2>3. QED
      BY <2>2 DEF c
  <1>4. QED
    BY <1>1, <1>2, <1>3 DEF IsPrefix

LEMMA PrefixGrows ==
  ASSUME NEW T, NEW s \in Lists(T), NEW k \in 1 .. Len(s)
  PROVE  /\ SubSeq(s, 1, k - 1) \in Lists(T) /\ SubSeq(s, 1, k) \in Lists(T) /\ s[k] \in T
         /\ SubSeq(s, 1, k) = Append(SubSeq(s, 1, k - 1), s[k])
  <1>1. s \in Seq(T) /\ Len(s) \in Nat
    BY DEF Lists
  <1>2. s[k] \in T
    BY <1>1
  <1>3. \A i \in 1 .. k : s[i] \in T
    BY <1>1
  <1>4. SubSeq(s, 1, k - 1) \in Seq(T) /\ Len(SubSeq(s, 1, k - 1)) = k - 1
        /\ \A i \in 1 .. k - 1 : SubSeq(s, 1, k - 1)[i] = s[i]
    BY <1>1, <1>3
  <1>5. SubSeq(s, 1, k) \in Seq(T) /\ Len(SubSeq(s, 1, k)) = k
        /\ \A i \in 1 .. k : SubSeq(s, 1, k)[i] = s[i]
    BY <1>1, <1>3
  <1> DEFINE p == SubSeq(s, 1, k - 1)
             q == SubSeq(s, 1, k)
             x == s[k]
  <1> HIDE DEF p, q, x
  <1>6. p \in Seq(T) /\ Len(p) = k - 1 /\ q \in Seq(T) /\ Len(q) = k /\ x \in T
        /\ \A i \in 1 .. k : q[i] = IF i = k THEN x ELSE p[i]
    BY <1>2, <1>4, <1>5 DEF p, q, x
  <1>7. Append(p, x) \in Seq(T) /\ Len(Append(p, x)) = k
        /\ \A i \in 1 .. k : Append(p, x)[i] = IF i = k THEN x ELSE p[i]
    BY <1>6
  <1>8. q = Append(p, x)
    BY <1>6, <1>7, SeqEqual
  <1>9. QED
    BY <1>2, <1>4, <1>5, <1>8 DEF Lists, p, q, x

LEMMA FlattenThen ==
  ASSUME NEW T, NEW ss \in Lists(Lists(T)), NEW tt \in Lists(Lists(T))
  PROVE  FlattenSeq(Then(ss, tt)) = Then(FlattenSeq(ss), FlattenSeq(tt))
  <1> DEFINE P(k) == SubSeq(tt, 1, k)
             K == {k \in 0 .. Len(tt) : FlattenSeq(Then(ss, P(k))) = Then(FlattenSeq(ss), FlattenSeq(P(k)))}
  <1>1. Len(tt) \in Nat /\ FlattenSeq(ss) \in Lists(T)
    BY EmptyIs, FlattenType
  <1>2. 0 \in K
    <2>1. P(0) = <<>>
      BY PrefixIs
    <2>2. Then(ss, <<>>) = ss /\ Then(FlattenSeq(ss), <<>>) = FlattenSeq(ss)
      BY <1>1, ThenEmpty
    <2>3. FlattenSeq(Then(ss, P(0))) = Then(FlattenSeq(ss), FlattenSeq(P(0)))
      BY <2>1, <2>2, FlattenEmpty, Zenon
    <2> HIDE DEF P
    <2>4. QED
      BY <1>1, <2>3
  <1>3. ASSUME NEW k \in 1 .. Len(tt), k - 1 \in K PROVE k \in K
    <2>1. P(k - 1) \in Lists(Lists(T)) /\ P(k) \in Lists(Lists(T)) /\ tt[k] \in Lists(T)
          /\ P(k) = Append(P(k - 1), tt[k])
      BY PrefixGrows
    <2> HIDE DEF P
    <2>2. FlattenSeq(Then(ss, P(k - 1))) = Then(FlattenSeq(ss), FlattenSeq(P(k - 1)))
      BY <1>3
    <2> HIDE DEF K
    <2>3. Then(ss, P(k)) = Append(Then(ss, P(k - 1)), tt[k])
      <3>1. \A p \in Lists(Lists(T)) : \A x \in Lists(T) : Then(ss, Append(p, x)) = Append(Then(ss, p), x)
        BY ThenAppends
      <3>2. QED
        BY <2>1, <3>1, Zenon
    <2>4. Then(ss, P(k - 1)) \in Lists(Lists(T)) /\ FlattenSeq(P(k - 1)) \in Lists(T)
      BY <2>1, ThenType, FlattenType
    <2>5. FlattenSeq(Append(Then(ss, P(k - 1)), tt[k])) = Then(FlattenSeq(Then(ss, P(k - 1))), tt[k])
      BY <2>1, <2>4, FlattenAppend
    <2>6. Then(Then(FlattenSeq(ss), FlattenSeq(P(k - 1))), tt[k])
          = Then(FlattenSeq(ss), Then(FlattenSeq(P(k - 1)), tt[k]))
      BY <1>1, <2>1, <2>4, ThenThen
    <2>7. FlattenSeq(P(k)) = Then(FlattenSeq(P(k - 1)), tt[k])
      BY <2>1, FlattenAppend
    <2>8. FlattenSeq(Then(ss, P(k))) = Then(FlattenSeq(ss), FlattenSeq(P(k)))
      BY <2>2, <2>3, <2>5, <2>6, <2>7, Zenon
    <2>9. k \in 0 .. Len(tt)
      BY <1>1
    <2>10. QED
      BY <2>8, <2>9 DEF K
  <1> HIDE DEF K
  <1>4. \A k \in 0 .. Len(tt) : k \in K
    BY <1>1, <1>2, <1>3, CountUp
  <1>5. Len(tt) \in K
    BY <1>1, <1>4
  <1>6. P(Len(tt)) = tt
    BY PrefixIs
  <1> HIDE DEF P
  <1>7. FlattenSeq(Then(ss, P(Len(tt)))) = Then(FlattenSeq(ss), FlattenSeq(P(Len(tt))))
    BY <1>5 DEF K
  <1>8. QED
    BY <1>6, <1>7, Zenon

(* Laying out what the lists of lists hold is laying out the lists they make. *)
LEMMA FlattenNested ==
  ASSUME NEW T, NEW us \in Lists(Lists(Lists(T))), NEW ls \in Lists(Lists(T)), Len(us) = Len(ls),
         \A i \in 1 .. Len(ls) : FlattenSeq(us[i]) = ls[i]
  PROVE  FlattenSeq(FlattenSeq(us)) = FlattenSeq(ls)
  <1> DEFINE P(k) == SubSeq(us, 1, k)
             Q(k) == SubSeq(ls, 1, k)
             K == {k \in 0 .. Len(ls) : FlattenSeq(FlattenSeq(P(k))) = FlattenSeq(Q(k))}
  <1>1. Len(ls) \in Nat
    BY EmptyIs
  <1>2. 0 \in K
    <2>1. P(0) = <<>> /\ Q(0) = <<>>
      BY PrefixIs
    <2> HIDE DEF P, Q
    <2>2. FlattenSeq(FlattenSeq(P(0))) = FlattenSeq(Q(0))
      BY <2>1, FlattenEmpty, Zenon
    <2>3. QED
      BY <1>1, <2>2
  <1>3. ASSUME NEW k \in 1 .. Len(ls), k - 1 \in K PROVE k \in K
    <2>1. P(k - 1) \in Lists(Lists(Lists(T))) /\ us[k] \in Lists(Lists(T)) /\ P(k) = Append(P(k - 1), us[k])
      BY PrefixGrows
    <2>2. Q(k - 1) \in Lists(Lists(T)) /\ ls[k] \in Lists(T) /\ Q(k) = Append(Q(k - 1), ls[k])
      BY PrefixGrows
    <2> HIDE DEF P, Q
    <2>3. FlattenSeq(FlattenSeq(P(k - 1))) = FlattenSeq(Q(k - 1)) /\ FlattenSeq(us[k]) = ls[k]
      BY <1>3
    <2> HIDE DEF K
    <2>4. FlattenSeq(P(k)) = Then(FlattenSeq(P(k - 1)), us[k])
      BY <2>1, FlattenAppend
    <2>5. FlattenSeq(P(k - 1)) \in Lists(Lists(T))
      BY <2>1, FlattenType
    <2>6. FlattenSeq(Then(FlattenSeq(P(k - 1)), us[k]))
          = Then(FlattenSeq(FlattenSeq(P(k - 1))), FlattenSeq(us[k]))
      BY <2>1, <2>5, FlattenThen
    <2>7. FlattenSeq(Q(k)) = Then(FlattenSeq(Q(k - 1)), ls[k])
      BY <2>2, FlattenAppend
    <2>8. FlattenSeq(FlattenSeq(P(k))) = FlattenSeq(Q(k))
      BY <2>3, <2>4, <2>6, <2>7, Zenon
    <2>9. k \in 0 .. Len(ls)
      BY <1>1
    <2>10. QED
      BY <2>8, <2>9 DEF K
  <1> HIDE DEF K
  <1>4. \A k \in 0 .. Len(ls) : k \in K
    BY <1>1, <1>2, <1>3, CountUp
  <1>5. Len(ls) \in K
    BY <1>1, <1>4
  <1>6. P(Len(us)) = us /\ Q(Len(ls)) = ls
    BY PrefixIs
  <1> HIDE DEF P, Q
  <1>7. FlattenSeq(FlattenSeq(P(Len(ls)))) = FlattenSeq(Q(Len(ls)))
    BY <1>5 DEF K
  <1>8. QED
    BY <1>6, <1>7, Zenon

LEMMA LastIs ==
  ASSUME NEW T, NEW ss \in Lists(T), ss # <<>>
  PROVE  /\ Front(ss) \in Lists(T) /\ Last(ss) \in T /\ ss = Append(Front(ss), Last(ss))
         /\ Len(Front(ss)) = Len(ss) - 1 /\ Len(ss) \in Nat \ {0}
         /\ \A i \in 1 .. Len(ss) - 1 : Front(ss)[i] = ss[i]
  <1>1. PICK n \in Nat : n = Len(ss) /\ n # 0
    BY EmptyIs
  <1>2. n \in 1 .. Len(ss)
    BY <1>1
  <1>3. SubSeq(ss, 1, n - 1) \in Lists(T) /\ ss[n] \in T
        /\ SubSeq(ss, 1, n) = Append(SubSeq(ss, 1, n - 1), ss[n])
    BY <1>2, PrefixGrows
  <1>4. SubSeq(ss, 1, n) = ss
    BY <1>1, PrefixIs
  <1>5. Front(ss) = SubSeq(ss, 1, n - 1) /\ Last(ss) = ss[n]
    BY <1>1 DEF Front, Last
  <1>6. Len(SubSeq(ss, 1, n - 1)) = n - 1 /\ \A i \in 1 .. n - 1 : SubSeq(ss, 1, n - 1)[i] = ss[i]
    BY <1>1 DEF Lists
  <1>7. QED
    BY <1>1, <1>3, <1>4, <1>5, <1>6

(* What holds of the empty list, and of each list with one more element, holds
   of every list.                                                             *)
LEMMA GrowUp ==
  ASSUME NEW T, NEW P, <<>> \in P,
         \A r \in Lists(T), x \in T : r \in P => Append(r, x) \in P,
         NEW s \in Lists(T)
  PROVE  s \in P
  <1> DEFINE K == {i \in 0 .. Len(s) : SubSeq(s, 1, i) \in P}
  <1>1. Len(s) \in Nat /\ SubSeq(s, 1, 0) = <<>> /\ SubSeq(s, 1, Len(s)) = s
    BY EmptyIs, PrefixIs
  <1>0. PICK n \in Nat : n = Len(s)
    BY <1>1
  <1>2. 0 \in K
    <2>1. 0 \in 0 .. Len(s)
      BY <1>0
    <2>2. SubSeq(s, 1, 0) \in P
      BY <1>1
    <2>3. QED
      BY <2>1, <2>2, Zenon
  <1>3. ASSUME NEW i \in 1 .. n, i - 1 \in K PROVE i \in K
    <2>1. /\ SubSeq(s, 1, i - 1) \in Lists(T) /\ s[i] \in T
          /\ SubSeq(s, 1, i) = Append(SubSeq(s, 1, i - 1), s[i])
      BY <1>0, PrefixGrows
    <2>2. SubSeq(s, 1, i) \in P
      BY <1>3, <2>1
    <2>3. QED
      BY <1>0, <2>2
  <1> HIDE DEF K
  <1>4. n \in K
    BY <1>2, <1>3, CountUp
  <1>5. QED
    BY <1>0, <1>1, <1>4 DEF K

(* A list is what comes up to a place in it and what comes after.             *)
LEMMA PartsAre ==
  ASSUME NEW T, NEW s \in Lists(T), NEW i \in 0 .. Len(s), NEW j \in i .. Len(s)
  PROVE  /\ SubSeq(s, 1, i) \in Lists(T) /\ Len(SubSeq(s, 1, i)) = i
         /\ SubSeq(s, i + 1, j) \in Lists(T) /\ Len(SubSeq(s, i + 1, j)) = j - i
         /\ \A k \in 1 .. j - i : SubSeq(s, i + 1, j)[k] = s[i + k]
         /\ Then(SubSeq(s, 1, i), SubSeq(s, i + 1, j)) = SubSeq(s, 1, j)
  <1>1. s \in Seq(T) /\ Len(s) \in Nat
    BY DEF Lists
  <1> DEFINE p == SubSeq(s, 1, i)
             q == SubSeq(s, i + 1, j)
             r == SubSeq(s, 1, j)
  <1>2. p \in Seq(T) /\ Len(p) = i /\ \A k \in 1 .. i : p[k] = s[k]
    BY <1>1
  <1>3. q \in Seq(T) /\ Len(q) = j - i /\ \A k \in 1 .. j - i : q[k] = s[i + k]
    BY <1>1
  <1>4. r \in Seq(T) /\ Len(r) = j /\ \A k \in 1 .. j : r[k] = s[k]
    BY <1>1
  <1> HIDE DEF p, q, r
  <1>5. /\ p \o q \in Seq(T) /\ Len(p \o q) = j
        /\ \A k \in 1 .. j : (p \o q)[k] = IF k <= i THEN p[k] ELSE q[k - i]
    <2>1. Len(p) + Len(q) = j
      BY <1>1, <1>2, <1>3
    <2>2. /\ p \o q \in Seq(T) /\ Len(p \o q) = Len(p) + Len(q)
          /\ \A k \in 1 .. Len(p) + Len(q) : (p \o q)[k] = IF k <= Len(p) THEN p[k] ELSE q[k - Len(p)]
      BY <1>2, <1>3, ConcatProperties
    <2>3. QED
      BY <1>2, <2>1, <2>2
  <1>6. \A k \in 1 .. j : (p \o q)[k] = r[k]
    <2> TAKE k \in 1 .. j
    <2>0. (p \o q)[k] = (IF k <= i THEN p[k] ELSE q[k - i]) /\ r[k] = s[k]
      BY <1>4, <1>5
    <2>1. CASE k <= i
      <3>1. k \in 1 .. i
        BY <2>1
      <3>2. p[k] = s[k]
        BY <1>2, <3>1
      <3>3. QED
        BY <2>0, <2>1, <3>2
    <2>2. CASE ~(k <= i)
      <3>1. k - i \in 1 .. j - i /\ i + (k - i) = k
        BY <2>2
      <3>2. q[k - i] = s[k]
        BY <1>3, <3>1
      <3>3. QED
        BY <2>0, <2>2, <3>2
    <2>3. QED
      BY <2>1, <2>2
  <1>7. p \o q = r
    BY <1>4, <1>5, <1>6, SeqEqual
  <1>8. QED
    BY <1>2, <1>3, <1>7 DEF Lists, Then, p, q, r

(* What comes up to a place in a list is the same in a longer one.            *)
LEMMA PartsOfThen ==
  ASSUME NEW T, NEW s \in Lists(T), NEW t \in Lists(T), NEW i \in 0 .. Len(s)
  PROVE  /\ SubSeq(Then(s, t), 1, i) = SubSeq(s, 1, i)
         /\ SubSeq(Then(s, t), i + 1, Len(s) + Len(t)) = Then(SubSeq(s, i + 1, Len(s)), t)
  <1>1. s \in Seq(T) /\ t \in Seq(T) /\ Len(s) \in Nat /\ Len(t) \in Nat
    BY DEF Lists
  <1> DEFINE u == s \o t
             p == SubSeq(s, i + 1, Len(s))
             n == Len(s) + Len(t)
  <1>2. /\ u \in Seq(T) /\ Len(u) = n
        /\ \A k \in 1 .. n : u[k] = IF k <= Len(s) THEN s[k] ELSE t[k - Len(s)]
    BY <1>1, ConcatProperties
  <1>3. p \in Seq(T) /\ Len(p) = Len(s) - i /\ \A k \in 1 .. Len(s) - i : p[k] = s[i + k]
    BY <1>1
  <1> HIDE DEF u, p
  <1>4. SubSeq(u, 1, i) = SubSeq(s, 1, i)
    <2>1. SubSeq(u, 1, i) \in Seq(T) /\ Len(SubSeq(u, 1, i)) = i
          /\ \A k \in 1 .. i : SubSeq(u, 1, i)[k] = u[k]
      BY <1>1, <1>2
    <2>2. SubSeq(s, 1, i) \in Seq(T) /\ Len(SubSeq(s, 1, i)) = i
          /\ \A k \in 1 .. i : SubSeq(s, 1, i)[k] = s[k]
      BY <1>1
    <2>3. \A k \in 1 .. i : u[k] = s[k]
      BY <1>1, <1>2
    <2>4. QED
      BY <2>1, <2>2, <2>3, SeqEqual
  <1>5. SubSeq(u, i + 1, n) = p \o t
    <2>1. /\ SubSeq(u, i + 1, n) \in Seq(T) /\ Len(SubSeq(u, i + 1, n)) = n - i
          /\ \A k \in 1 .. n - i : SubSeq(u, i + 1, n)[k] = u[i + k]
      BY <1>1, <1>2
    <2>2. /\ p \o t \in Seq(T) /\ Len(p \o t) = n - i
          /\ \A k \in 1 .. n - i : (p \o t)[k] = IF k <= Len(s) - i THEN p[k] ELSE t[k - (Len(s) - i)]
      <3>1. Len(p) + Len(t) = n - i
        BY <1>1, <1>3
      <3>2. /\ p \o t \in Seq(T) /\ Len(p \o t) = Len(p) + Len(t)
            /\ \A k \in 1 .. Len(p) + Len(t) : (p \o t)[k] = IF k <= Len(p) THEN p[k] ELSE t[k - Len(p)]
        BY <1>1, <1>3, ConcatProperties
      <3>3. QED
        BY <1>3, <3>1, <3>2
    <2>3. ASSUME NEW k \in 1 .. n - i
          PROVE  u[i + k] = IF k <= Len(s) - i THEN p[k] ELSE t[k - (Len(s) - i)]
      <3>1. i + k \in 1 .. n /\ (i + k <= Len(s) <=> k <= Len(s) - i) /\ i + k - Len(s) = k - (Len(s) - i)
        BY <1>1
      <3>2. u[i + k] = IF k <= Len(s) - i THEN s[i + k] ELSE t[k - (Len(s) - i)]
        BY <1>2, <3>1
      <3>3. k <= Len(s) - i => p[k] = s[i + k]
        BY <1>1, <1>3
      <3>4. QED
        BY <3>2, <3>3
    <2>4. QED
      BY <2>1, <2>2, <2>3, SeqEqual
  <1>6. QED
    BY <1>4, <1>5 DEF Then, u, p

(* Where the elements of two lists are in the one after the other.            *)
JoinIs(s, t, u, n, m) ==
    /\ Len(u) = n + m /\ DOMAIN u = 1 .. (n + m)
    /\ \A i \in 1 .. n : u[i] = s[i]
    /\ \A i \in 1 .. m : u[n + i] = t[i]

LEMMA ThenAt ==
  ASSUME NEW T, NEW s \in Lists(T), NEW t \in Lists(T), NEW n \in Nat, NEW m \in Nat, n = Len(s), m = Len(t)
  PROVE  Then(s, t) \in Lists(T) /\ JoinIs(s, t, Then(s, t), n, m)
  <1>1. s \in Seq(T) /\ t \in Seq(T) /\ Then(s, t) \in Lists(T) /\ Len(Then(s, t)) = n + m
    BY ThenType DEF Lists
  <1>2. DOMAIN Then(s, t) = 1 .. (n + m)
    BY <1>1 DEF Lists
  <1>3. \A i \in 1 .. n : Then(s, t)[i] = s[i]
    BY <1>1 DEF Then
  <1>4. \A i \in 1 .. m : Then(s, t)[n + i] = t[i]
    BY <1>1 DEF Then
  <1>5. QED
    BY <1>1, <1>2, <1>3, <1>4 DEF JoinIs
===============================================================================
