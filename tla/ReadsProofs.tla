------------------------------ MODULE ReadsProofs ------------------------------
(* What is read of a tool's files: a JSONL file that grows or changes under a     *)
(* read, the sessions of pi, whose forks repeat their parents' entries, and the   *)
(* logs that tell one request in several ways or more than once.                  *)
EXTENDS JsonlRead, PiSessions, SourceLogs, ListLemmas, SequenceTheorems, TLAPS

----------------------------------------------------------------------------
(* JsonlRead, for any bytes and any size of a buffer: the lines.              *)

Text == Lists(Bytes)
Acc == [carried : Text, isFirst : BOOLEAN, at : Nat, lineEnd : Nat, out : Lists(Text)]

LEMMA RecordsTyped ==
  ASSUME NEW line \in Text, NEW isFirst \in BOOLEAN
  PROVE  RecordsOf(line, isFirst) \in Lists(Text)
  <1> DEFINE end == IF line # <<>> /\ Last(line) = CR THEN Len(line) - 1 ELSE Len(line)
             start == IF isFirst /\ end >= 1 /\ line[1] = BOM THEN 2 ELSE 1
             text == SubSeq(line, start, end)
  <1>1. line \in Seq(Bytes) /\ Len(line) \in Nat /\ (line # <<>> => Len(line) >= 1)
    BY DEF Text, Lists
  <1>2. end \in Nat /\ end <= Len(line) /\ start \in 1 .. 2
    BY <1>1
  <1> HIDE DEF end, start
  <1>3. text \in Seq(Bytes)
    <2>1. \A i \in start .. end : line[i] \in Bytes
      BY <1>1, <1>2
    <2>2. QED
      BY <1>1, <1>2, <2>1
  <1> HIDE DEF text
  <1>4. LineText(line, isFirst) = text \/ LineText(line, isFirst) = <<>>
    BY DEF LineText, text, start, end
  <1>5. LineText(line, isFirst) \in Text
    <2>1. <<>> \in Seq(Bytes)
      OBVIOUS
    <2>2. QED
      BY <1>3, <1>4, <2>1, Zenon DEF Text, Lists
  <1> DEFINE it == LineText(line, isFirst)
  <1> HIDE DEF it
  <1>6. <<it>> \in Seq(Text) /\ <<>> \in Seq(Text)
    BY <1>5 DEF it
  <1>7. QED
    BY <1>6 DEF RecordsOf, it, Lists

LEMMA ByteTyped ==
  ASSUME NEW acc \in Acc, NEW b \in Bytes
  PROVE  /\ TakeByte(acc, b) \in Acc /\ TakeByte(acc, b).at = acc.at + 1
         /\ b = LF => /\ TakeByte(acc, b).carried = <<>> /\ TakeByte(acc, b).isFirst = FALSE
                      /\ TakeByte(acc, b).lineEnd = acc.at + 1
                      /\ TakeByte(acc, b).out = Then(acc.out, RecordsOf(acc.carried, acc.isFirst))
         /\ b # LF => /\ TakeByte(acc, b).carried = Append(acc.carried, b)
                      /\ TakeByte(acc, b).isFirst = acc.isFirst
                      /\ TakeByte(acc, b).lineEnd = acc.lineEnd /\ TakeByte(acc, b).out = acc.out
  <1>1. /\ acc.carried \in Text /\ acc.isFirst \in BOOLEAN /\ acc.at \in Nat /\ acc.lineEnd \in Nat
        /\ acc.out \in Lists(Text)
    BY DEF Acc
  <1> DEFINE more == RecordsOf(acc.carried, acc.isFirst)
             out == Then(acc.out, more)
             text == Append(acc.carried, b)
  <1>2. out \in Lists(Text) /\ acc.out \o more = out
    BY <1>1, RecordsTyped, ThenType DEF Then
  <1>3. text \in Text /\ <<>> \in Text
    BY <1>1 DEF Text, Lists
  <1>4. acc.at + 1 \in Nat
    BY <1>1
  <1> HIDE DEF out, text
  <1>5. CASE b = LF
    <2>1. TakeByte(acc, b) = [carried |-> <<>>, isFirst |-> FALSE, at |-> acc.at + 1,
                              lineEnd |-> acc.at + 1, out |-> out]
      BY <1>2, <1>5 DEF TakeByte
    <2>2. QED
      BY <1>2, <1>3, <1>4, <1>5, <2>1 DEF Acc, out
  <1>6. CASE b # LF
    <2>1. TakeByte(acc, b) = [carried |-> text, isFirst |-> acc.isFirst, at |-> acc.at + 1,
                              lineEnd |-> acc.lineEnd, out |-> acc.out]
      BY <1>6 DEF TakeByte, text
    <2>2. QED
      BY <1>1, <1>3, <1>4, <1>6, <2>1 DEF Acc, text
  <1>7. QED
    BY <1>5, <1>6

(* What the bytes taken so far come to, after each of them.                   *)
TakesTo(g, n, acc, bs) == g[0] = acc /\ \A i \in 1 .. n : g[i] = TakeByte(g[i - 1], bs[i])

LEMMA TakeBytesIs ==
  ASSUME NEW acc \in Acc, NEW bs \in Text
  PROVE  \E g \in [0 .. Len(bs) -> Acc] : TakesTo(g, Len(bs), acc, bs) /\ TakeBytes(acc, bs) = g[Len(bs)]
  <1>1. PICK n \in Nat : n = Len(bs)
    BY EmptyIs DEF Text
  <1>2. \A i \in 1 .. n : bs[i] \in Bytes
    BY <1>1, EmptyIs DEF Text
  <1> DEFINE step == [p \in Acc \X (1 .. n) |-> TakeByte(p[1], bs[p[2]])]
  <1>3. step \in [Acc \X (1 .. n) -> Acc]
    BY <1>2, ByteTyped
  <1>4. \A x \in Acc, i \in 1 .. n : step[<<x, i>>] = TakeByte(x, bs[i])
    OBVIOUS
  <1> HIDE DEF step
  <1>5. PICK g \in [0 .. n -> Acc] : StepsTo(g, n, acc, step)
    BY <1>3, StepsExist
  <1>6. TakesTo(g, n, acc, bs)
    <2>1. \A i \in 1 .. n : i - 1 \in 0 .. n /\ g[i - 1] \in Acc
      OBVIOUS
    <2>2. QED
      BY <1>4, <1>5, <2>1 DEF StepsTo, TakesTo
  <1> DEFINE F(h) == [i \in 0 .. n |-> IF i = 0 THEN acc ELSE TakeByte(h[i - 1], bs[i])]
             f == CHOOSE h : h = F(h)
  <1>7. g = F(g)
    <2>1. \A i \in 0 .. n : g[i] = IF i = 0 THEN acc ELSE TakeByte(g[i - 1], bs[i])
      BY <1>6 DEF TakesTo
    <2>2. QED
      BY <2>1
  <1>8. f = F(f)
    BY <1>7
  <1>9. TakeBytes(acc, bs) = f[n]
    BY <1>1 DEF TakeBytes
  <1> HIDE DEF f
  <1>10. \A i \in 0 .. n : f[i] = g[i]
    <2> DEFINE K == {i \in 0 .. n : f[i] = g[i]}
    <2>1. 0 \in K
      BY <1>7, <1>8
    <2>2. ASSUME NEW i \in 1 .. n, i - 1 \in K PROVE i \in K
      <3>1. f[i] = TakeByte(f[i - 1], bs[i]) /\ g[i] = TakeByte(g[i - 1], bs[i])
        BY <1>8, <1>6 DEF TakesTo
      <3>2. QED
        BY <2>2, <3>1
    <2> HIDE DEF K
    <2>3. \A i \in 0 .. n : i \in K
      BY <2>1, <2>2, CountUp
    <2>4. QED
      BY <2>3 DEF K
  <1>11. QED
    BY <1>1, <1>6, <1>9, <1>10

(* Bytes taken one after another, and in two parts.                           *)
LEMMA TakeNone ==
  ASSUME NEW acc \in Acc
  PROVE  TakeBytes(acc, <<>>) = acc
  <1>1. <<>> \in Text /\ Len(<<>>) = 0
    BY ThenEmpty DEF Text, Lists
  <1>2. PICK g : TakesTo(g, 0, acc, <<>>) /\ TakeBytes(acc, <<>>) = g[0]
    BY <1>1, TakeBytesIs
  <1>3. QED
    BY <1>2 DEF TakesTo

LEMMA TakesAgree ==
  ASSUME NEW n \in Nat, NEW acc, NEW bs, NEW cs, NEW g, NEW h, \A i \in 1 .. n : bs[i] = cs[i],
         TakesTo(g, n, acc, bs), TakesTo(h, n, acc, cs)
  PROVE  g[n] = h[n]
  <1> DEFINE K == {i \in 0 .. n : g[i] = h[i]}
  <1>1. 0 \in K
    BY DEF TakesTo
  <1>2. ASSUME NEW i \in 1 .. n, i - 1 \in K PROVE i \in K
    <2>1. g[i] = TakeByte(g[i - 1], bs[i]) /\ h[i] = TakeByte(h[i - 1], cs[i])
      BY DEF TakesTo
    <2>2. QED
      BY <1>2, <2>1
  <1> HIDE DEF K
  <1>3. \A i \in 0 .. n : i \in K
    BY <1>1, <1>2, CountUp
  <1>4. QED
    BY <1>3 DEF K

LEMMA TakeMore ==
  ASSUME NEW acc \in Acc, NEW bs \in Text, NEW b \in Bytes
  PROVE  /\ TakeBytes(acc, bs) \in Acc
         /\ Append(bs, b) \in Text
         /\ TakeBytes(acc, Append(bs, b)) = TakeByte(TakeBytes(acc, bs), b)
  <1> DEFINE cs == Append(bs, b)
  <1>1. PICK n \in Nat : n = Len(bs)
    BY EmptyIs DEF Text
  <1>2. cs \in Text /\ Len(cs) = n + 1 /\ cs[n + 1] = b /\ \A i \in 1 .. n : cs[i] = bs[i]
    BY <1>1, AppendProperties DEF Text, Lists
  <1>3. PICK g \in [0 .. n -> Acc] : TakesTo(g, n, acc, bs) /\ TakeBytes(acc, bs) = g[n]
    BY <1>1, TakeBytesIs
  <1> HIDE DEF cs
  <1>4. PICK h : TakesTo(h, n + 1, acc, cs) /\ TakeBytes(acc, cs) = h[n + 1]
    BY <1>2, TakeBytesIs
  <1>5. TakesTo(h, n, acc, cs) /\ h[n + 1] = TakeByte(h[n], cs[n + 1])
    <2>1. \A i \in 1 .. n : i \in 1 .. n + 1
      OBVIOUS
    <2>2. n + 1 \in 1 .. n + 1 /\ n + 1 - 1 = n
      OBVIOUS
    <2>3. QED
      BY <1>4, <2>1, <2>2 DEF TakesTo
  <1>6. g[n] = h[n]
    BY <1>2, <1>3, <1>5, TakesAgree
  <1>7. g[n] \in Acc
    BY <1>3
  <1>8. QED
    BY <1>2, <1>3, <1>4, <1>5, <1>6, <1>7 DEF cs

LEMMA TakeTyped ==
  ASSUME NEW acc \in Acc, NEW bs \in Text
  PROVE  /\ TakeBytes(acc, bs) \in Acc
         /\ TakeBytes(acc, bs).at = acc.at + Len(bs)
         /\ \/ TakeBytes(acc, bs).lineEnd = acc.lineEnd
            \/ TakeBytes(acc, bs).lineEnd \in acc.at + 1 .. acc.at + Len(bs)
  <1> DEFINE Fits(r) == /\ TakeBytes(acc, r) \in Acc /\ TakeBytes(acc, r).at = acc.at + Len(r)
                        /\ \/ TakeBytes(acc, r).lineEnd = acc.lineEnd
                           \/ TakeBytes(acc, r).lineEnd \in acc.at + 1 .. acc.at + Len(r)
             P == {r \in Text : Fits(r)}
  <1>0. acc.at \in Nat /\ acc.lineEnd \in Nat
    BY DEF Acc
  <1>1. <<>> \in P
    <2>1. <<>> \in Text /\ Len(<<>>) = 0
      BY DEF Text, Lists
    <2>2. QED
      BY <1>0, <2>1, TakeNone
  <1>2. ASSUME NEW r \in Text, NEW x \in Bytes, r \in P PROVE Append(r, x) \in P
    <2> DEFINE was == TakeBytes(acc, r)
               new == TakeByte(was, x)
               s == Append(r, x)
    <2>1. Len(r) \in Nat /\ Len(s) = Len(r) + 1
      BY DEF Text, Lists
    <2>2. was \in Acc /\ s \in Text /\ TakeBytes(acc, s) = new
      BY TakeMore
    <2>3. was.at = acc.at + Len(r) /\ (was.lineEnd = acc.lineEnd \/ was.lineEnd \in acc.at + 1 .. acc.at + Len(r))
      BY <1>2
    <2> HIDE DEF was
    <2>4. new \in Acc /\ new.at = was.at + 1 /\ (new.lineEnd = was.at + 1 \/ new.lineEnd = was.lineEnd)
      BY <2>2, ByteTyped
    <2> HIDE DEF new, s
    <2>5. Fits(s)
      BY <1>0, <2>1, <2>2, <2>3, <2>4
    <2>6. QED
      BY <2>2, <2>5 DEF s
  <1> HIDE DEF P
  <1>3. bs \in P
    BY <1>1, <1>2, GrowUp DEF Text
  <1>4. QED
    BY <1>3 DEF P

LEMMA TakeThen ==
  ASSUME NEW acc \in Acc, NEW bs \in Text, NEW cs \in Text
  PROVE  TakeBytes(acc, Then(bs, cs)) = TakeBytes(TakeBytes(acc, bs), cs)
  <1> DEFINE mid == TakeBytes(acc, bs)
             P == {r \in Text : TakeBytes(acc, Then(bs, r)) = TakeBytes(mid, r)}
  <1>1. mid \in Acc
    BY TakeTyped
  <1>2. <<>> \in P
    BY <1>1, TakeNone, ThenEmpty DEF Text
  <1> HIDE DEF mid
  <1>3. ASSUME NEW r \in Text, NEW x \in Bytes, r \in P PROVE Append(r, x) \in P
    <2>1. Then(bs, Append(r, x)) = Append(Then(bs, r), x) /\ Then(bs, r) \in Text
      BY ThenAppends, ThenType DEF Text
    <2>2. TakeBytes(acc, Append(Then(bs, r), x)) = TakeByte(TakeBytes(acc, Then(bs, r)), x)
      BY <2>1, TakeMore
    <2>3. TakeBytes(mid, Append(r, x)) = TakeByte(TakeBytes(mid, r), x) /\ Append(r, x) \in Text
      BY <1>1, TakeMore
    <2>4. QED
      BY <1>3, <2>1, <2>2, <2>3
  <1> HIDE DEF P
  <1>4. cs \in P
    BY <1>2, <1>3, GrowUp DEF Text
  <1>5. QED
    BY <1>4 DEF P, mid

(* What a file's bytes hold: the lines that ended, up to the last LF, and what
   is carried after it.                                                       *)
WholeFits(s) ==
    LET whole == Whole(s)
        ended == SubSeq(s, 1, whole.lineEnd)
    IN /\ whole \in Acc /\ whole.at = Len(s) /\ whole.lineEnd \in 0 .. Len(s)
       /\ whole.isFirst = (whole.lineEnd = 0)
       /\ whole.carried = SubSeq(s, whole.lineEnd + 1, Len(s))
       /\ whole.lineEnd # 0 => s[whole.lineEnd] = LF
       /\ \A i \in whole.lineEnd + 1 .. Len(s) : s[i] # LF
       /\ whole.out = Whole(ended).out

LEMMA LinesFromTyped ==
  ASSUME NEW at \in Nat
  PROVE  /\ LinesFrom(at) \in Acc /\ LinesFrom(at).at = at /\ LinesFrom(at).lineEnd = at
         /\ LinesFrom(at).carried = <<>> /\ LinesFrom(at).isFirst = (at = 0) /\ LinesFrom(at).out = <<>>
  <1>1. <<>> \in Text /\ <<>> \in Lists(Text)
    BY DEF Text, Lists
  <1>2. QED
    BY <1>1 DEF LinesFrom, Acc

LEMMA WholeTyped ==
  ASSUME NEW s \in Text
  PROVE  Whole(s) \in Acc
  <1>1. 0 \in Nat
    OBVIOUS
  <1>2. LinesFrom(0) \in Acc
    BY <1>1, LinesFromTyped
  <1>3. QED
    BY <1>2, TakeTyped DEF Whole

LEMMA WholeMore ==
  ASSUME NEW s \in Text, NEW x \in Bytes
  PROVE  Append(s, x) \in Text /\ Whole(Append(s, x)) = TakeByte(Whole(s), x)
  <1>1. 0 \in Nat
    OBVIOUS
  <1>2. LinesFrom(0) \in Acc
    BY <1>1, LinesFromTyped
  <1>3. QED
    BY <1>2, TakeMore DEF Whole

LEMMA WholeIs ==
  ASSUME NEW s \in Text
  PROVE  WholeFits(s)
  <1> DEFINE P == {r \in Text : WholeFits(r)}
  <1>1. <<>> \in P
    <2>1. <<>> \in Text /\ Len(<<>>) = 0 /\ SubSeq(<<>>, 1, 0) = <<>>
      BY DEF Text, Lists
    <2>2. 0 \in Nat
      OBVIOUS
    <2>3. Whole(<<>>) = LinesFrom(0)
      BY <2>2, LinesFromTyped, TakeNone DEF Whole
    <2>4. PICK e \in Text : e = <<>> /\ Len(e) = 0 /\ SubSeq(e, 1, 0) = e
      BY <2>1
    <2> DEFINE none == Whole(e)
    <2>5. /\ none \in Acc /\ none.at = 0 /\ none.lineEnd = 0 /\ none.isFirst = TRUE /\ none.carried = e
      BY <2>2, <2>3, <2>4, LinesFromTyped
    <2>6. /\ Len(e) = 0 /\ SubSeq(e, 0 + 1, 0) = e /\ SubSeq(e, 1, 0) = e
          /\ 0 \in 0 .. 0 /\ 0 + 1 .. 0 = {}
      BY <2>4
    <2> HIDE DEF none
    <2>7. WholeFits(e)
      BY <2>5, <2>6 DEF WholeFits, none
    <2>8. QED
      BY <2>4, <2>7
  <1>2. ASSUME NEW r \in Text, NEW x \in Bytes, r \in P PROVE Append(r, x) \in P
    <2> DEFINE was == Whole(r)
               s1 == Append(r, x)
               new == Whole(s1)
    <2>1. /\ was \in Acc /\ was.at = Len(r) /\ was.lineEnd \in 0 .. Len(r)
          /\ was.isFirst = (was.lineEnd = 0)
          /\ was.carried = SubSeq(r, was.lineEnd + 1, Len(r))
          /\ was.lineEnd # 0 => r[was.lineEnd] = LF
          /\ \A i \in was.lineEnd + 1 .. Len(r) : r[i] # LF
          /\ was.out = Whole(SubSeq(r, 1, was.lineEnd)).out
      BY <1>2 DEF WholeFits
    <2>2. PICK n \in Nat : n = Len(r)
      BY EmptyIs DEF Text
    <2>3. s1 \in Text /\ Len(s1) = n + 1 /\ s1[n + 1] = x /\ \A i \in 1 .. n : s1[i] = r[i]
      BY <2>2, AppendProperties DEF Text, Lists
    <2>4. new = TakeByte(was, x)
      BY WholeMore
    <2> HIDE DEF was, new
    <2>5. new \in Acc /\ new.at = n + 1
      <3>1. was \in Acc /\ was.at = n
        BY <2>1, <2>2
      <3>2. TakeByte(was, x) \in Acc /\ TakeByte(was, x).at = was.at + 1
        BY <3>1, ByteTyped
      <3>3. QED
        BY <2>4, <3>1, <3>2
    <2>6. CASE x = LF
      <3>0. was \in Acc /\ was.at = n
        BY <2>1, <2>2
      <3>1. /\ new.carried = <<>> /\ new.isFirst = FALSE /\ new.lineEnd = n + 1
        BY <3>0, <2>4, <2>6, ByteTyped
      <3>2. SubSeq(s1, n + 2, n + 1) = <<>> /\ SubSeq(s1, 1, n + 1) = s1
        BY <2>3, SubSeqEmpty, PrefixIs DEF Text
      <3>3. (n + 1) + 1 = n + 2 /\ n + 1 # 0 /\ n + 1 \in 0 .. n + 1 /\ n + 2 .. n + 1 = {}
        OBVIOUS
      <3>4. WholeFits(s1)
        BY <2>3, <2>5, <2>6, <3>1, <3>2, <3>3 DEF WholeFits, new
      <3>5. QED
        BY <2>3, <3>4
    <2>7. CASE x # LF
      <3>1. /\ new.carried = Append(was.carried, x) /\ new.isFirst = was.isFirst
            /\ new.lineEnd = was.lineEnd /\ new.out = was.out
        BY <2>1, <2>4, <2>7, ByteTyped
      <3>2. PICK k \in 0 .. n : k = was.lineEnd
        BY <2>1, <2>2
      <3>3. PICK one \in Text : \A t \in Text : Append(t, x) = Then(t, one) /\ one = <<x>>
        BY AppendIsThen DEF Text
      <3>4. s1 = Then(r, one)
        BY <3>3
      <3>5. SubSeq(r, k + 1, n) \in Text
        BY <2>2, PartsAre DEF Text
      <3>6. SubSeq(s1, k + 1, n + 1) = Append(SubSeq(r, k + 1, n), x)
        <4>1. Len(one) = 1
          BY <3>3
        <4>2. SubSeq(Then(r, one), k + 1, n + 1) = Then(SubSeq(r, k + 1, n), one)
          BY <2>2, <4>1, PartsOfThen DEF Text
        <4>3. QED
          BY <3>3, <3>4, <3>5, <4>2
      <3>7. SubSeq(s1, 1, k) = SubSeq(r, 1, k)
        <4>1. r \in Lists(Bytes) /\ one \in Lists(Bytes) /\ k \in 0 .. Len(r)
          BY <2>2, <3>3 DEF Text
        <4>2. SubSeq(Then(r, one), 1, k) = SubSeq(r, 1, k)
          BY <4>1, PartsOfThen
        <4>3. QED
          BY <3>4, <4>2
      <3>8. \A i \in k + 1 .. n + 1 : s1[i] # LF
        <4>1. \A i \in k + 1 .. n : r[i] # LF /\ s1[i] = r[i]
          BY <2>1, <2>2, <2>3, <3>2
        <4>2. \A i \in k + 1 .. n + 1 : i = n + 1 \/ i \in k + 1 .. n
          BY <3>2
        <4>3. QED
          BY <2>3, <2>7, <4>1, <4>2
      <3>9. k # 0 => s1[k] = LF
        <4>1. k # 0 => k \in 1 .. n
          OBVIOUS
        <4>2. QED
          BY <2>1, <2>3, <3>2, <4>1
      <3>10. k \in 0 .. n + 1
        OBVIOUS
      <3>11. WholeFits(s1)
        BY <2>1, <2>2, <2>3, <2>5, <3>1, <3>2, <3>6, <3>7, <3>8, <3>9, <3>10 DEF WholeFits, new
      <3>12. QED
        BY <2>3, <3>11
    <2>8. QED
      BY <2>6, <2>7
  <1> HIDE DEF P
  <1>3. s \in P
    BY <1>1, <1>2, GrowUp DEF Text
  <1>4. QED
    BY <1>3 DEF P

(* A read whose lines, after those of earlier reads, are as a read at once of
   all that it saw.                                                           *)
Like(lines, before, s) ==
    LET whole == Whole(s) IN
    /\ lines.carried = whole.carried /\ lines.isFirst = whole.isFirst /\ lines.at = whole.at
    /\ lines.lineEnd = whole.lineEnd /\ Then(before, lines.out) = whole.out

LEMMA LikeMore ==
  ASSUME NEW lines \in Acc, NEW before \in Lists(Text), NEW s \in Text, Like(lines, before, s),
         NEW x \in Bytes
  PROVE  Like(TakeByte(lines, x), before, Append(s, x))
  <1> DEFINE new == TakeByte(lines, x)
             was == Whole(s)
             then == TakeByte(was, x)
             more == RecordsOf(lines.carried, lines.isFirst)
  <1>1. was \in Acc /\ Whole(Append(s, x)) = then
    BY WholeTyped, WholeMore
  <1>2. /\ lines.carried = was.carried /\ lines.isFirst = was.isFirst /\ lines.at = was.at
        /\ lines.lineEnd = was.lineEnd /\ Then(before, lines.out) = was.out
    BY DEF Like
  <1>3. lines.carried \in Text /\ lines.isFirst \in BOOLEAN /\ lines.out \in Lists(Text)
    BY DEF Acc
  <1>4. more \in Lists(Text)
    BY <1>3, RecordsTyped
  <1> HIDE DEF was
  <1>5. CASE x = LF
    <2>1. /\ new.carried = <<>> /\ new.isFirst = FALSE /\ new.lineEnd = lines.at + 1 /\ new.at = lines.at + 1
          /\ new.out = Then(lines.out, more)
      BY <1>5, ByteTyped
    <2>2. /\ then.carried = <<>> /\ then.isFirst = FALSE /\ then.lineEnd = was.at + 1 /\ then.at = was.at + 1
          /\ then.out = Then(was.out, more)
      <3>1. /\ then.carried = <<>> /\ then.isFirst = FALSE /\ then.lineEnd = was.at + 1 /\ then.at = was.at + 1
            /\ then.out = Then(was.out, RecordsOf(was.carried, was.isFirst))
        BY <1>1, <1>5, ByteTyped
      <3>2. more = RecordsOf(was.carried, was.isFirst)
        BY <1>2
      <3> HIDE DEF then, more
      <3>3. QED
        BY <3>1, <3>2
    <2> HIDE DEF new, then, more
    <2>3. Then(before, Then(lines.out, more)) = Then(Then(before, lines.out), more)
      BY <1>3, <1>4, ThenThen
    <2>4. QED
      BY <1>1, <1>2, <2>1, <2>2, <2>3 DEF Like, new
  <1>6. CASE x # LF
    <2>1. /\ new.carried = Append(lines.carried, x) /\ new.isFirst = lines.isFirst /\ new.lineEnd = lines.lineEnd
          /\ new.at = lines.at + 1 /\ new.out = lines.out
      BY <1>6, ByteTyped
    <2>2. /\ then.carried = Append(was.carried, x) /\ then.isFirst = was.isFirst /\ then.lineEnd = was.lineEnd
          /\ then.at = was.at + 1 /\ then.out = was.out
      BY <1>1, <1>6, ByteTyped
    <2> HIDE DEF new, then, more
    <2>3. QED
      BY <1>1, <1>2, <2>1, <2>2 DEF Like, new
  <1>7. QED
    BY <1>5, <1>6

(* Whatever the chunk.                                                        *)
LEMMA LikeThen ==
  ASSUME NEW lines \in Acc, NEW before \in Lists(Text), NEW s \in Text, Like(lines, before, s),
         NEW chunk \in Text
  PROVE  Like(TakeBytes(lines, chunk), before, Then(s, chunk))
  <1> DEFINE P == {r \in Text : Like(TakeBytes(lines, r), before, Then(s, r))}
  <1>1. <<>> \in P
    BY TakeNone, ThenEmpty DEF Text
  <1>2. ASSUME NEW r \in Text, NEW x \in Bytes, r \in P PROVE Append(r, x) \in P
    <2>1. Then(s, Append(r, x)) = Append(Then(s, r), x) /\ Then(s, r) \in Text
      BY ThenAppends, ThenType DEF Text
    <2>2. /\ TakeBytes(lines, r) \in Acc /\ Append(r, x) \in Text
          /\ TakeBytes(lines, Append(r, x)) = TakeByte(TakeBytes(lines, r), x)
      BY TakeMore
    <2>3. Like(TakeByte(TakeBytes(lines, r), x), before, Append(Then(s, r), x))
      BY <1>2, <2>1, <2>2, LikeMore
    <2>4. QED
      BY <2>1, <2>2, <2>3
  <1> HIDE DEF P
  <1>3. chunk \in P
    BY <1>1, <1>2, GrowUp DEF Text
  <1>4. QED
    BY <1>3 DEF P

----------------------------------------------------------------------------
(* JsonlRead: the cursor, while the file changes.                             *)

Trackers == [hash : Text, pending : Text, hashedTo : Nat, chunkStart : Nat]
Reads == [positioned : BOOLEAN, before : Lists(Text), tracker : Trackers, lines : Acc]

(* What a read has of the file, from its start, though it may have begun under
   a cursor and the file may have changed since.                              *)
SeenBy(tracker) == Then(tracker.hash, tracker.pending)

(* The tracker's hash is of what it saw up to the end of the last line, and the
   records are those of the whole.                                            *)
ReadFits(r) ==
    /\ r \in Reads
    /\ r.tracker.hashedTo = Len(r.tracker.hash) /\ r.lines.lineEnd = Len(r.tracker.hash)
    /\ r.tracker.chunkStart = Len(SeenBy(r.tracker))
    /\ Like(r.lines, r.before, SeenBy(r.tracker))
    /\ ~r.positioned => r.before = <<>>
CursorFits(k) ==
    k.cursor # NoCursor =>
        /\ k.cursor \in Text /\ k.records \in Lists(Text)
        /\ k.records = Whole(k.cursor).out
        /\ k.cursor # <<>> => k.cursor[Len(k.cursor)] = LF

JsonlInv ==
    /\ bytes \in Text
    /\ CursorFits(kept)
    /\ read # NoRead => ReadFits(read)
    /\ read # NoRead /\ ~touched => IsPrefix(SeenBy(read.tracker), bytes)

LEMMA BytesAre == Byte \in Bytes /\ LF \in Bytes /\ \A i, j \in Nat, s \in Text : i >= 1 /\ j <= Len(s) => SubSeq(s, i, j) \in Text
  <1>1. ASSUME NEW i \in Nat, NEW j \in Nat, NEW s \in Text, i >= 1, j <= Len(s) PROVE SubSeq(s, i, j) \in Text
    <2>1. s \in Seq(Bytes) /\ Len(s) \in Nat
      BY DEF Text, Lists
    <2>2. \A k \in i .. j : s[k] \in Bytes
      BY <1>1, <2>1
    <2>3. QED
      BY <1>1, <2>1, <2>2 DEF Text, Lists
  <1>2. QED
    BY <1>1 DEF Bytes

LEMMA JsonlInitHolds == JsonlInit => JsonlInv
  <1> SUFFICES ASSUME JsonlInit PROVE JsonlInv
    OBVIOUS
  <1>1. bytes \in Text
    BY DEF JsonlInit, Text, Lists
  <1>2. kept.cursor = NoCursor /\ read = NoRead
    BY DEF JsonlInit
  <1>3. QED
    BY <1>1, <1>2 DEF JsonlInv, CursorFits

(* A cursor's end is where its last line ends.                                *)
LEMMA CursorIsWhole ==
  ASSUME NEW s \in Text, s # <<>> => s[Len(s)] = LF
  PROVE  Whole(s).lineEnd = Len(s) /\ Whole(s).carried = <<>> /\ Whole(s).at = Len(s)
         /\ Whole(s).isFirst = (Len(s) = 0)
  <1> DEFINE whole == Whole(s)
  <1>1. /\ whole.at = Len(s) /\ whole.lineEnd \in 0 .. Len(s)
        /\ whole.isFirst = (whole.lineEnd = 0)
        /\ whole.carried = SubSeq(s, whole.lineEnd + 1, Len(s))
        /\ \A i \in whole.lineEnd + 1 .. Len(s) : s[i] # LF
    BY WholeIs DEF WholeFits
  <1>2. PICK n \in Nat : n = Len(s)
    BY EmptyIs DEF Text
  <1> HIDE DEF whole
  <1>3. whole.lineEnd = n
    <2> SUFFICES ASSUME whole.lineEnd # n PROVE FALSE
      OBVIOUS
    <2>1. n \in whole.lineEnd + 1 .. n /\ n # 0
      BY <1>1, <1>2
    <2>2. s # <<>>
      BY <1>2, <2>1
    <2>3. QED
      BY <1>1, <1>2, <2>1, <2>2
  <1>4. SubSeq(s, n + 1, n) = <<>>
    BY SubSeqEmpty DEF Text, Lists
  <1>5. QED
    BY <1>1, <1>2, <1>3, <1>4 DEF whole

LEMMA BeginKeepsInv ==
  ASSUME JsonlInv, NEW hash \in Text, NEW positioned \in BOOLEAN, NEW records \in Lists(Text),
         BeginAt(hash, positioned, records), IsPrefix(hash, bytes),
         hash # <<>> => hash[Len(hash)] = LF, records = Whole(hash).out,
         ~positioned => records = <<>>
  PROVE  JsonlInv'
  <1>1. PICK n \in Nat : n = Len(hash)
    BY EmptyIs DEF Text
  <1> DEFINE tracker == [hash |-> hash, pending |-> <<>>, hashedTo |-> n, chunkStart |-> n]
             lines == LinesFrom(n)
             new == [positioned |-> positioned, before |-> records, tracker |-> tracker, lines |-> lines]
  <1>2. read' = new /\ touched' = FALSE /\ UNCHANGED <<bytes, kept>>
    BY <1>1 DEF BeginAt, Tracker
  <1>3. /\ lines \in Acc /\ lines.at = n /\ lines.lineEnd = n /\ lines.carried = <<>>
        /\ lines.isFirst = (n = 0) /\ lines.out = <<>>
    BY LinesFromTyped
  <1>4. <<>> \in Text
    BY DEF Text, Lists
  <1>5. tracker \in Trackers /\ tracker.hash = hash /\ tracker.pending = <<>> /\ tracker.hashedTo = n
        /\ tracker.chunkStart = n
    BY <1>4 DEF Trackers
  <1>6. SeenBy(tracker) = hash
    BY <1>5, ThenEmpty DEF SeenBy, Text
  <1> HIDE DEF tracker, lines
  <1>7. new \in Reads /\ new.tracker = tracker /\ new.lines = lines /\ new.before = records
        /\ new.positioned = positioned
    BY <1>3, <1>5 DEF Reads
  <1>8. Like(lines, records, hash)
    <2>1. Then(records, <<>>) = records
      BY ThenEmpty
    <2>2. Whole(hash).lineEnd = n /\ Whole(hash).carried = <<>> /\ Whole(hash).at = n
          /\ Whole(hash).isFirst = (n = 0)
      BY <1>1, CursorIsWhole
    <2>3. QED
      BY <1>3, <2>1, <2>2 DEF Like
  <1> HIDE DEF new
  <1>9. ReadFits(new)
    BY <1>1, <1>3, <1>5, <1>6, <1>7, <1>8 DEF ReadFits
  <1>10. QED
    BY <1>2, <1>6, <1>7, <1>9 DEF JsonlInv, CursorFits

LEMMA BeginReadKeepsInv ==
  ASSUME JsonlInv, BeginRead
  PROVE  JsonlInv'
  <1> DEFINE none == <<>>
  <1>1. none \in Text /\ none \in Lists(Text) /\ Whole(none).out = none /\ IsPrefix(none, bytes)
    <2>1. none \in Text /\ none \in Lists(Text)
      BY DEF Text, Lists
    <2>2. 0 \in Nat
      OBVIOUS
    <2>3. Whole(none) = LinesFrom(0)
      BY <2>2, LinesFromTyped, TakeNone DEF Whole
    <2>4. Whole(none).out = none
      BY <2>2, <2>3, LinesFromTyped
    <2>5. IsPrefix(none, bytes)
      <3>1. bytes \in Text /\ Len(none) = 0
        BY DEF JsonlInv
      <3>2. PICK m \in Nat : m = Len(bytes)
        BY <3>1, EmptyIs DEF Text
      <3>3. SubSeq(bytes, 1, 0) = none /\ SubSeq(none, 1, 0) = none
        BY <2>1, <3>1, PrefixIs DEF Text
      <3>4. Len(none) <= Len(bytes)
        BY <3>1, <3>2
      <3> HIDE DEF none
      <3>5. QED
        BY <3>1, <3>3, <3>4 DEF IsPrefix
    <2>6. QED
      BY <2>1, <2>4, <2>5
  <1>2. CASE CursorValid /\ BeginAt(kept.cursor, TRUE, kept.records)
    <2>1. kept.cursor \in Text /\ kept.records \in Lists(Text) /\ kept.records = Whole(kept.cursor).out
          /\ (kept.cursor # <<>> => kept.cursor[Len(kept.cursor)] = LF) /\ IsPrefix(kept.cursor, bytes)
      BY <1>2 DEF JsonlInv, CursorFits, CursorValid
    <2>2. QED
      BY <1>2, <2>1, BeginKeepsInv
  <1>3. ASSUME NEW positioned \in BOOLEAN, BeginAt(none, positioned, none) PROVE JsonlInv'
    <2> HIDE DEF none
    <2>1. none # <<>> => none[Len(none)] = LF
      BY DEF none
    <2>2. positioned \/ none = <<>>
      BY DEF none
    <2>3. QED
      BY <1>1, <1>3, <2>1, <2>2, BeginKeepsInv
  <1>4. QED
    BY <1>2, <1>3 DEF BeginRead

(* What addChunk makes of a tracker: it has seen the chunk as well, and its
   hash goes on to the line's end that the chunk has.                         *)
LEMMA AddChunkIs ==
  ASSUME NEW tracker \in Trackers, tracker.hashedTo = Len(tracker.hash),
         tracker.chunkStart = Len(SeenBy(tracker)),
         NEW chunk \in Text, chunk # <<>>, NEW lineEnd \in Nat,
         \/ lineEnd = tracker.hashedTo
         \/ lineEnd \in tracker.chunkStart + 1 .. tracker.chunkStart + Len(chunk)
  PROVE  LET new == AddChunk(tracker, chunk, lineEnd) IN
         /\ new \in Trackers /\ SeenBy(new) = Then(SeenBy(tracker), chunk)
         /\ new.hashedTo = lineEnd /\ new.hashedTo = Len(new.hash)
         /\ new.chunkStart = Len(SeenBy(new))
  <1> DEFINE new == AddChunk(tracker, chunk, lineEnd)
             hash == tracker.hash
             pending == tracker.pending
             seen == Then(hash, pending)
  <1>1. hash \in Text /\ pending \in Text /\ tracker.hashedTo = Len(hash) /\ tracker.chunkStart = Len(seen)
    BY DEF Trackers, SeenBy
  <1>2. PICK h \in Nat, s \in Nat, c \in Nat :
          /\ h = Len(hash) /\ s = Len(seen) /\ c = Len(chunk) /\ c # 0 /\ h <= s
          /\ seen \in Text /\ Then(seen, chunk) \in Text /\ Len(Then(seen, chunk)) = s + c
    <2>1. /\ seen \in Text /\ Len(seen) = Len(hash) + Len(pending) /\ Len(hash) \in Nat /\ Len(pending) \in Nat
      BY <1>1, ThenType DEF Text
    <2> HIDE DEF seen
    <2>2. Len(chunk) \in Nat /\ Len(chunk) # 0
      BY EmptyIs DEF Text
    <2>3. Then(seen, chunk) \in Text /\ Len(Then(seen, chunk)) = Len(seen) + Len(chunk)
      BY <2>1, ThenType DEF Text
    <2>4. Len(hash) <= Len(seen) /\ Len(seen) \in Nat
      <3>1. PICK h \in Nat, p \in Nat : h = Len(hash) /\ p = Len(pending)
        BY <2>1
      <3>2. PICK s \in Nat : s = h + p /\ h <= s
        OBVIOUS
      <3>3. Len(seen) = s
        BY <2>1, <3>1, <3>2
      <3>4. QED
        BY <3>1, <3>2, <3>3, Zenon
    <2>5. QED
      BY <2>1, <2>2, <2>3, <2>4
  <1>3. CASE lineEnd > h
    <2>1. PICK k \in 1 .. c : lineEnd = s + k
      <3>1. lineEnd \in s + 1 .. s + c
        BY <1>1, <1>2, <1>3
      <3>2. lineEnd - s \in 1 .. c /\ lineEnd = s + (lineEnd - s)
        BY <3>1
      <3>3. QED
        BY <3>2
    <2> DEFINE lead == SubSeq(chunk, 1, k)
               rest == SubSeq(chunk, k + 1, c)
    <2>2. /\ lead \in Text /\ rest \in Text /\ Len(lead) = k /\ Then(lead, rest) = chunk
      <3>1. k \in 0 .. Len(chunk) /\ Len(chunk) \in k .. Len(chunk)
        BY <1>2
      <3>2. SubSeq(chunk, 1, Len(chunk)) = chunk
        BY PrefixIs DEF Text
      <3>3. /\ SubSeq(chunk, 1, k) \in Text /\ SubSeq(chunk, k + 1, Len(chunk)) \in Text
            /\ Len(SubSeq(chunk, 1, k)) = k
            /\ Then(SubSeq(chunk, 1, k), SubSeq(chunk, k + 1, Len(chunk))) = SubSeq(chunk, 1, Len(chunk))
        BY <3>1, PartsAre DEF Text
      <3>4. QED
        BY <1>2, <3>2, <3>3
    <2>3. new.hashedTo = s + k /\ new.chunkStart = s + c
      BY <1>1, <1>2, <1>3, <2>1 DEF AddChunk
    <2>4. new.hash = Then(seen, lead)
      <3>1. lineEnd > tracker.hashedTo /\ lineEnd - tracker.chunkStart = k
        BY <1>1, <1>2, <1>3, <2>1
      <3>2. QED
        BY <3>1 DEF AddChunk, Then
    <2>5. new.pending = rest
      <3>1. /\ lineEnd > tracker.hashedTo /\ lineEnd > tracker.chunkStart /\ lineEnd - tracker.chunkStart = k
            /\ tracker.chunkStart + Len(chunk) > lineEnd <=> c > k
        BY <1>1, <1>2, <1>3, <2>1
      <3>2. new.pending = Then(<<>>, IF c > k THEN rest ELSE <<>>)
        BY <1>2, <3>1 DEF AddChunk, Then
      <3>3. c > k \/ rest = <<>>
        <4>1. c > k \/ c = k
          OBVIOUS
        <4>2. SubSeq(chunk, k + 1, k) = <<>>
          BY SubSeqEmpty DEF Text, Lists
        <4>3. QED
          BY <4>1, <4>2
      <3>4. Then(<<>>, rest) = rest
        BY <2>2, ThenEmpty DEF Text
      <3> HIDE DEF rest
      <3>5. (IF c > k THEN rest ELSE <<>>) = rest
        BY <3>3
      <3>6. QED
        BY <3>2, <3>4, <3>5
    <2>6. new = [hash |-> new.hash, pending |-> new.pending, hashedTo |-> new.hashedTo, chunkStart |-> new.chunkStart]
      BY DEF AddChunk
    <2> HIDE DEF new, lead, rest, seen
    <2>7. new.hash \in Text /\ Len(new.hash) = s + k
      <3>1. Then(seen, lead) \in Text /\ Len(Then(seen, lead)) = Len(seen) + Len(lead)
        BY <1>2, <2>2, ThenType DEF Text
      <3>2. QED
        BY <1>2, <2>2, <2>4, <3>1
    <2>8. new \in Trackers
      BY <2>2, <2>3, <2>5, <2>6, <2>7 DEF Trackers
    <2>9. SeenBy(new) = Then(seen, chunk)
      BY <1>2, <2>2, <2>4, <2>5, ThenThen DEF SeenBy, Text
    <2>10. SeenBy(tracker) = seen
      BY DEF SeenBy, seen
    <2>11. QED
      BY <1>2, <2>1, <2>3, <2>7, <2>8, <2>9, <2>10 DEF new
  <1>4. CASE ~(lineEnd > h)
    <2>1. lineEnd = h
      BY <1>1, <1>2, <1>4
    <2>2. ~(lineEnd > tracker.hashedTo) /\ ~(tracker.hashedTo > tracker.chunkStart)
          /\ tracker.chunkStart + Len(chunk) > tracker.hashedTo
      BY <1>1, <1>2, <2>1
    <2>3. new.hash = hash /\ new.hashedTo = h /\ new.chunkStart = s + c
      BY <1>1, <1>2, <2>2 DEF AddChunk
    <2>4. new.pending = Then(pending, chunk)
      <3>1. new.pending = pending \o SubSeq(chunk, 0 + 1, Len(chunk))
        BY <2>2 DEF AddChunk
      <3>2. SubSeq(chunk, 1, Len(chunk)) = chunk
        BY PrefixIs DEF Text
      <3>3. QED
        BY <3>1, <3>2, 0 + 1 = 1 DEF Then
    <2>5. new = [hash |-> new.hash, pending |-> new.pending, hashedTo |-> new.hashedTo, chunkStart |-> new.chunkStart]
      BY DEF AddChunk
    <2>6. SeenBy(tracker) = seen
      BY DEF SeenBy
    <2> HIDE DEF new
    <2>7. new.pending \in Text
      BY <1>1, <2>4, ThenType DEF Text
    <2>8. new \in Trackers
      BY <1>1, <1>2, <2>3, <2>5, <2>7 DEF Trackers
    <2>9. SeenBy(new) = Then(seen, chunk)
      BY <1>1, <2>3, <2>4, ThenThen DEF SeenBy, Text
    <2> HIDE DEF seen
    <2>10. QED
      BY <1>2, <2>1, <2>3, <2>6, <2>8, <2>9 DEF new
  <1>5. QED
    BY <1>3, <1>4

LEMMA ReadChunkKeepsInv ==
  ASSUME JsonlInv, ReadChunk
  PROVE  JsonlInv'
  <1> DEFINE seen == SeenBy(read.tracker)
  <1>1. /\ read # NoRead /\ read \in Reads /\ bytes \in Text
        /\ read.tracker.hashedTo = Len(read.tracker.hash) /\ read.lines.lineEnd = Len(read.tracker.hash)
        /\ read.tracker.chunkStart = Len(seen) /\ Like(read.lines, read.before, seen)
        /\ (~read.positioned => read.before = <<>>) /\ (~touched => IsPrefix(seen, bytes))
    BY DEF JsonlInv, ReadFits, ReadChunk
  <1>2. /\ read.tracker \in Trackers /\ read.lines \in Acc /\ read.before \in Lists(Text)
        /\ read.positioned \in BOOLEAN
    BY <1>1 DEF Reads
  <1>3. PICK n \in 1 .. ChunkSize :
          /\ read.lines.at + n <= Len(bytes)
          /\ LET chunk == SubSeq(bytes, read.lines.at + 1, read.lines.at + n)
                 lines == TakeBytes(read.lines, chunk)
             IN read' = [read EXCEPT !.lines = lines, !.tracker = AddChunk(@, chunk, lines.lineEnd)]
    BY DEF ReadChunk
  <1>4. seen \in Text /\ Len(seen) \in Nat
    <2>1. read.tracker.hash \in Text /\ read.tracker.pending \in Text
      BY <1>2 DEF Trackers
    <2>2. seen \in Text
      BY <2>1, ThenType DEF SeenBy, Text
    <2> HIDE DEF seen
    <2>3. QED
      BY <2>2, EmptyIs DEF Text
  <1>5. read.lines.at = Len(seen)
    <2>1. Whole(seen).at = Len(seen)
      BY <1>4, WholeIs DEF WholeFits
    <2>2. QED
      BY <1>1, <2>1 DEF Like
  <1>6. PICK a \in Nat, m \in Nat : a = Len(seen) /\ m = Len(bytes)
    BY <1>1, <1>4, EmptyIs DEF Text
  <1>7. n \in Nat /\ n >= 1 /\ a + n <= m
    BY <1>3, <1>5, <1>6, JsonlAssumption
  <1> DEFINE chunk == SubSeq(bytes, a + 1, a + n)
             lines == TakeBytes(read.lines, chunk)
             tracker == AddChunk(read.tracker, chunk, lines.lineEnd)
  <1>8. /\ chunk \in Text /\ Len(chunk) = n /\ chunk # <<>>
        /\ Then(SubSeq(bytes, 1, a), chunk) = SubSeq(bytes, 1, a + n)
    <2>1. a \in 0 .. Len(bytes) /\ a + n \in a .. Len(bytes)
      BY <1>6, <1>7
    <2>2. chunk \in Text /\ Len(chunk) = a + n - a /\ Then(SubSeq(bytes, 1, a), chunk) = SubSeq(bytes, 1, a + n)
      BY <1>1, <2>1, PartsAre DEF Text
    <2> HIDE DEF chunk
    <2>3. Len(chunk) = n /\ n # 0
      BY <1>7, <2>2
    <2>4. QED
      BY <2>2, <2>3, EmptyIs DEF Text
  <1>9. read' = [read EXCEPT !.lines = lines, !.tracker = tracker]
    BY <1>3, <1>5, <1>6
  <1>10. UNCHANGED <<bytes, touched, kept>>
    BY DEF ReadChunk
  <1> HIDE DEF chunk, seen
  <1>11. /\ lines \in Acc
         /\ lines.lineEnd = read.lines.lineEnd \/ lines.lineEnd \in a + 1 .. a + n
         /\ Like(lines, read.before, Then(seen, chunk))
    BY <1>1, <1>2, <1>4, <1>5, <1>6, <1>8, TakeTyped, LikeThen
  <1> HIDE DEF lines
  <1>12. lines.lineEnd \in Nat
    BY <1>11 DEF Acc
  <1>13. /\ tracker \in Trackers /\ SeenBy(tracker) = Then(seen, chunk)
         /\ tracker.hashedTo = lines.lineEnd /\ tracker.hashedTo = Len(tracker.hash)
         /\ tracker.chunkStart = Len(SeenBy(tracker))
    <2>1. \/ lines.lineEnd = read.tracker.hashedTo
          \/ lines.lineEnd \in read.tracker.chunkStart + 1 .. read.tracker.chunkStart + Len(chunk)
      BY <1>1, <1>6, <1>8, <1>11
    <2>2. QED
      <3>1. /\ read.tracker \in Trackers /\ read.tracker.hashedTo = Len(read.tracker.hash)
            /\ read.tracker.chunkStart = Len(SeenBy(read.tracker)) /\ seen = SeenBy(read.tracker)
            /\ chunk \in Text /\ chunk # <<>>
        BY <1>1, <1>2, <1>8 DEF seen
      <3>2. QED
        BY <3>1, <1>12, <2>1, AddChunkIs
  <1> HIDE DEF tracker
  <1>14. /\ read' \in Reads /\ read'.lines = lines /\ read'.tracker = tracker
         /\ read'.before = read.before /\ read'.positioned = read.positioned
    BY <1>1, <1>9, <1>11, <1>13 DEF Reads
  <1>15. ReadFits(read')
    BY <1>1, <1>11, <1>13, <1>14 DEF ReadFits
  <1>16. ASSUME ~touched PROVE IsPrefix(Then(seen, chunk), bytes)
    <2>1. IsPrefix(seen, bytes)
      BY <1>1, <1>16
    <2>2. seen = SubSeq(bytes, 1, a)
      <3>1. SubSeq(seen, 1, Len(seen)) = seen
        BY <1>4, PrefixIs DEF Text
      <3>2. QED
        BY <1>6, <2>1, <3>1 DEF IsPrefix
    <2>3. Then(seen, chunk) = SubSeq(bytes, 1, a + n)
      BY <1>8, <2>2
    <2>4. Len(Then(seen, chunk)) = a + n
      BY <1>4, <1>6, <1>8, ThenType DEF Text
    <2>5. QED
      BY <1>6, <1>7, <2>3, <2>4 DEF IsPrefix
  <1>17. read' # NoRead /\ ~touched' => IsPrefix(SeenBy(read'.tracker), bytes')
    BY <1>10, <1>13, <1>14, <1>16
  <1>18. QED
    BY <1>1, <1>10, <1>15, <1>17 DEF JsonlInv, CursorFits

(* What is kept when a read ends: the records up to the last line's end, and
   the bytes up to there.                                                     *)
LEMMA EndReadKeepsInv ==
  ASSUME JsonlInv, EndRead
  PROVE  JsonlInv'
  <1> DEFINE hash == read.tracker.hash
             pending == read.tracker.pending
             seen == SeenBy(read.tracker)
  <1>1. /\ read # NoRead /\ read \in Reads /\ read.lines.lineEnd = Len(hash)
        /\ Like(read.lines, read.before, seen)
    BY DEF JsonlInv, ReadFits, EndRead
  <1>2. hash \in Text /\ pending \in Text /\ read.before \in Lists(Text) /\ read.lines.out \in Lists(Text)
    BY <1>1 DEF Reads, Trackers, Acc
  <1>3. seen \in Text
    BY <1>2, ThenType DEF SeenBy, Text
  <1>4. SubSeq(seen, 1, Len(hash)) = hash
    <2>1. Len(hash) \in 0 .. Len(hash)
      BY <1>2, EmptyIs DEF Text
    <2>2. SubSeq(Then(hash, pending), 1, Len(hash)) = SubSeq(hash, 1, Len(hash))
      BY <1>2, <2>1, PartsOfThen DEF Text
    <2>3. SubSeq(hash, 1, Len(hash)) = hash
      BY <1>2, PrefixIs DEF Text
    <2>4. QED
      BY <2>2, <2>3 DEF SeenBy
  <1> HIDE DEF seen
  <1>5. Whole(seen).lineEnd = Len(hash) /\ Whole(seen).out = Then(read.before, read.lines.out)
    BY <1>1 DEF Like
  <1>6. Whole(seen).out = Whole(hash).out
    BY <1>3, <1>4, <1>5, WholeIs DEF WholeFits
  <1>7. hash # <<>> => hash[Len(hash)] = LF
    <2> SUFFICES ASSUME hash # <<>> PROVE hash[Len(hash)] = LF
      OBVIOUS
    <2>1. PICK n \in Nat : n = Len(hash) /\ n # 0
      BY <1>2, EmptyIs DEF Text
    <2>2. seen[n] = LF
      BY <1>3, <1>5, <2>1, WholeIs DEF WholeFits
    <2>3. hash[n] = seen[n]
      <3>1. n \in 1 .. Len(seen)
        BY <1>3, <1>5, <2>1, WholeIs DEF WholeFits
      <3>2. SubSeq(seen, 1, n)[n] = seen[n]
        BY <1>3, <2>1, <3>1 DEF Text, Lists
      <3>3. QED
        BY <1>4, <2>1, <3>2
    <2>4. QED
      BY <2>1, <2>2, <2>3
  <1> DEFINE records == Then(read.before, read.lines.out)
  <1>8. records \in Lists(Text)
    BY <1>2, ThenType
  <1>9. kept' = IF read.positioned THEN [records |-> records, cursor |-> hash] ELSE kept
    BY DEF EndRead, Then
  <1> HIDE DEF records, hash
  <1>10. CursorFits(kept')
    <2>1. CASE read.positioned
      <3>1. kept'.cursor = hash /\ kept'.records = records
        BY <1>9, <2>1
      <3>2. QED
        BY <3>1, <1>2, <1>5, <1>6, <1>7, <1>8 DEF CursorFits, records
    <2>2. CASE ~read.positioned
      BY <1>9, <2>2 DEF JsonlInv
    <2>3. QED
      BY <2>1, <2>2
  <1>11. read' = NoRead /\ bytes' = bytes
    BY DEF EndRead
  <1>12. QED
    BY <1>10, <1>11 DEF JsonlInv

(* The inductive invariant: what a read saw, and what its lines are of it.    *)
THEOREM JsonlInvariant == JsonlSpec => []JsonlInv
  <1>1. ASSUME JsonlInv, [JsonlNext]_jsonlVars PROVE JsonlInv'
    <2>1. CASE AppendByte \/ Rewrite
      <3>1. bytes' \in Text
        <4>1. ASSUME NEW b \in Bytes PROVE Append(bytes, b) \in Text
          BY <1>1 DEF JsonlInv, Text, Lists
        <4>2. ASSUME NEW i \in DOMAIN bytes, NEW b \in Bytes PROVE [bytes EXCEPT ![i] = b] \in Text
          BY <1>1 DEF JsonlInv, Text, Lists
        <4>3. ASSUME NEW i \in DOMAIN bytes PROVE SubSeq(bytes, 1, i - 1) \in Text
          <5>1. bytes \in Text
            BY <1>1 DEF JsonlInv
          <5>2. i \in Nat /\ i - 1 \in Nat /\ i - 1 <= Len(bytes) /\ 1 \in Nat /\ 1 >= 1
            BY <5>1 DEF Text, Lists
          <5>3. QED
            BY <5>1, <5>2, BytesAre
        <4>4. CASE AppendByte
          BY <4>1, <4>4 DEF AppendByte
        <4>5. CASE Rewrite
          <5>1. PICK i \in DOMAIN bytes :
                  bytes' \in {[bytes EXCEPT ![i] = Byte], [bytes EXCEPT ![i] = LF], SubSeq(bytes, 1, i - 1)}
            BY <4>5 DEF Rewrite
          <5>2. [bytes EXCEPT ![i] = Byte] \in Text /\ [bytes EXCEPT ![i] = LF] \in Text
            BY <4>2, BytesAre
          <5>3. SubSeq(bytes, 1, i - 1) \in Text
            BY <4>3
          <5>4. QED
            BY <5>1, <5>2, <5>3, Zenon
        <4>6. QED
          BY <2>1, <4>4, <4>5
      <3>2. touched' = TRUE /\ UNCHANGED <<read, kept>>
        BY <2>1 DEF AppendByte, Rewrite
      <3>3. QED
        BY <1>1, <3>1, <3>2 DEF JsonlInv, CursorFits, ReadFits
    <2>2. CASE BeginRead \/ ReadChunk \/ EndRead
      BY <1>1, <2>2, BeginReadKeepsInv, ReadChunkKeepsInv, EndReadKeepsInv
    <2>3. CASE UNCHANGED jsonlVars
      BY <1>1, <2>3 DEF JsonlInv, CursorFits, ReadFits, jsonlVars
    <2>4. QED
      BY <1>1, <2>1, <2>2, <2>3 DEF JsonlNext
  <1>2. QED
    BY JsonlInitHolds, <1>1, PTL DEF JsonlSpec

(* However chunks come and a file changes while it is read: a cursor ends with
   a line and covers the bytes that the kept records are of (CursorPrefixTracker),
   and a read of a file that did not change has all its lines, the first of them
   from the reads it went on from (readJsonlFromCursor).                      *)
THEOREM ReadsContinue == JsonlSpec => []ReadsGoOn
  <1>1. ASSUME JsonlInv PROVE CursorCoversRecords
    <2> SUFFICES ASSUME kept.cursor # NoCursor
                 PROVE  /\ kept.cursor = <<>> \/ Last(kept.cursor) = LF
                        /\ kept.records = CompleteRecords(kept.cursor)
      BY DEF CursorCoversRecords
    <2>1. QED
      BY <1>1 DEF JsonlInv, CursorFits, CompleteRecords, Last
  <1>2. ASSUME JsonlInv PROVE ReadsWholeFile
    <2> SUFFICES ASSUME read # NoRead, ~touched, read.lines.at = Len(bytes)
                 PROVE  IF read.positioned THEN read.before \o read.lines.out = CompleteRecords(bytes)
                        ELSE read.lines.out \o RecordsOf(read.lines.carried, read.lines.isFirst) = AllRecords(bytes)
      BY DEF ReadsWholeFile
    <2> DEFINE seen == SeenBy(read.tracker)
    <2>1. /\ read \in Reads /\ Like(read.lines, read.before, seen) /\ IsPrefix(seen, bytes)
          /\ (~read.positioned => read.before = <<>>) /\ bytes \in Text
      BY <1>2 DEF JsonlInv, ReadFits
    <2>2. seen \in Text
      <3>1. read.tracker.hash \in Text /\ read.tracker.pending \in Text
        BY <2>1 DEF Reads, Trackers
      <3>2. QED
        BY <3>1, ThenType DEF SeenBy, Text
    <2> HIDE DEF seen
    <2>3. Len(seen) = Len(bytes)
      BY <2>1, <2>2, WholeIs DEF Like, WholeFits
    <2>4. seen = bytes
      <3>1. SubSeq(seen, 1, Len(seen)) = seen /\ SubSeq(bytes, 1, Len(bytes)) = bytes
        BY <2>1, <2>2, PrefixIs DEF Text
      <3>2. QED
        BY <2>1, <2>3, <3>1 DEF IsPrefix
    <2>5. /\ read.lines.carried = Whole(bytes).carried /\ read.lines.isFirst = Whole(bytes).isFirst
          /\ Then(read.before, read.lines.out) = Whole(bytes).out
      BY <2>1, <2>4 DEF Like
    <2>6. CASE read.positioned
      BY <2>5, <2>6 DEF CompleteRecords, Then
    <2>7. CASE ~read.positioned
      <3>1. read.lines.out \in Lists(Text)
        BY <2>1 DEF Reads, Acc
      <3>2. read.lines.out = Whole(bytes).out
        BY <2>1, <2>5, <2>7, <3>1, ThenEmpty
      <3>3. QED
        BY <2>5, <2>7, <3>2 DEF AllRecords
    <2>8. QED
      BY <2>6, <2>7
  <1>3. JsonlInv => ReadsGoOn
    BY <1>1, <1>2 DEF ReadsGoOn
  <1>4. QED
    BY JsonlInvariant, <1>3, PTL

----------------------------------------------------------------------------
(* PiSessions, for any number of sessions and models: the files.              *)

ModelSet == ToSet(PiModels)
Headers == [type : {"session"}, id : PiFiles, parent : PiFiles \cup {NoEntry}, at : Nat]
Changes == [type : {"model_change"}, model : ModelSet, at : Nat]
Messages == [type : {"message"}, model : ModelSet \cup {NoEntry}, at : Nat]
PiEntries == Headers \cup Changes \cup Messages
Answers == [session : PiFiles, at : Nat, model : ModelSet]

IsChange(e) == e.type = "model_change"
IsMessage(e) == e.type = "message"

(* The model of a message: the one it names, or that of the last change before. *)
ModelFits(es, i, model) ==
    \/ es[i].model = model
    \/ /\ es[i].model = NoEntry
       /\ \E j \in 2 .. i - 1 : /\ IsChange(es[j]) /\ es[j].model = model
                                /\ \A k \in j + 1 .. i - 1 : ~IsChange(es[k])
Answered(es, i, s, as) ==
    \E a \in as : /\ a.at = es[i].at /\ ModelFits(es, i, a.model)
                  /\ es[i].at >= es[1].at => a.session = s

(* A file starts with its header and a change, and each of its messages is an
   answer, of its own session unless it is a copy: older than the header.     *)
EntryFits(es, i, s, t, as) ==
    /\ es[i] \in Changes \cup Messages /\ es[i].at < t
    /\ es[1].parent = NoEntry => es[i].at >= es[1].at
    /\ IsMessage(es[i]) => Answered(es, i, s, as)
FileFits(es, s, t, as) ==
    /\ es \in Seq(PiEntries) /\ Len(es) >= 2
    /\ es[1] \in Headers /\ es[1].id = s /\ es[1].at < t
    /\ es[1].parent # NoEntry => es[1].parent < s
    /\ IsChange(es[2])
    /\ \A i \in 2 .. Len(es) : EntryFits(es, i, s, t, as)
(* Copies are entries of the parent's file.                                   *)
CopiesFit(es, ps) ==
    \A i \in 2 .. Len(es) : IsMessage(es[i]) /\ es[i].at < es[1].at =>
        \E j \in 2 .. Len(ps) : IsMessage(ps[j]) /\ ps[j].at = es[i].at

PiTypes ==
    /\ session \in [PiFiles -> Seq(PiEntries)] /\ used \in 0 .. MaxSessions
    /\ outside \subseteq PiFiles /\ clock \in Nat /\ answers \subseteq Answers
    /\ \A s \in PiFiles : s > used => session[s] = NoFile /\ stored[s] = NoEntry
AnswersApart ==
    /\ \A a \in answers : a.at < clock /\ a.session <= used
    /\ \A a, b \in answers : a.at = b.at => a = b
FilesFit ==
    \A s \in PiFiles : Exists(s) =>
        /\ FileFits(session[s], s, clock, answers)
        /\ session[s][1].parent # NoEntry /\ Exists(session[s][1].parent) =>
              CopiesFit(session[s], session[session[s][1].parent])

----------------------------------------------------------------------------
(* PiSessions: what is stored.                                                *)

Forks == [at : Nat, parent : PiFiles, counted : BOOLEAN]
Rows == [id : PiFiles, at : Nat, model : ModelSet \cup {NoEntry}]
States == [id : PiFiles \cup {NoEntry}, fork : Forks \cup {NoEntry}, model : ModelSet \cup {NoEntry},
           rows : Seq(Rows)]
Prints == [size : Nat, dependency : Nat \cup {NoEntry}]

(* The sessions that no report from now on will find.                         *)
Gone == {s \in 1 .. used : s \notin Discovered}

(* A row is an answer, counted for the session that gave it, or for one that no
   report will count it for again.                                            *)
RowFits(row, as, gone) ==
    \E a \in as : a.at = row.at /\ a.model = row.model /\ (row.id = a.session \/ row.id \in gone)

(* The fork of a header: of a parent that is counted it is known that it was
   there (its length), and one that is not is gone.                           *)
ForkFits(header, fork, length, gone) ==
    /\ fork = NoFork <=> header.parent = NoEntry
    /\ fork # NoFork => /\ fork.at = header.at /\ fork.parent = header.parent
                        /\ fork.counted => length \in Nat \ {0}
                        /\ ~fork.counted => fork.parent \in gone

(* What reading the first n entries of a file has come to.                    *)
RowsFit(st, as, gone) == \A k \in 1 .. Len(st.rows) : RowFits(st.rows[k], as, gone)
MessageTaken(e, st) ==
    \/ st.fork # NoFork /\ st.fork.counted /\ e.at < st.fork.at
    \/ \E k \in 1 .. Len(st.rows) : st.rows[k].at = e.at
StateFits(es, n, s, st, length, as, gone) ==
    /\ st \in States /\ RowsFit(st, as, gone)
    /\ n = 0 => st.fork = NoFork
    /\ n > 0 => st.id = s /\ ForkFits(es[1], st.fork, length, gone)
    /\ \A i \in 2 .. n : IsChange(es[i]) /\ (\A j \in i + 1 .. n : ~IsChange(es[j])) => st.model = es[i].model
    /\ \A i \in 2 .. n : IsMessage(es[i]) => MessageTaken(es[i], st)

KeptFits(es, s, k, as, gone) ==
    /\ k.print \in Prints /\ k.state \in States /\ RowsFit(k.state, as, gone)
    /\ es # NoFile => /\ k.print.size \in 1 .. Len(es)
                      /\ StateFits(es, k.print.size, s, k.state, k.print.dependency, as, gone)
StoredFits == \A s \in PiFiles : stored[s] # NoEntry => KeptFits(session[s], s, stored[s], answers, Gone)

PiInv == PiTypes /\ AnswersApart /\ FilesFit /\ StoredFits

----------------------------------------------------------------------------
(* What stays so while the sessions grow, fork and go.                        *)

LEMMA PiConstants ==
  /\ PiModels # <<>> /\ Len(PiModels) \in Nat \ {0}
  /\ PiModels[1] \in ModelSet /\ PiModels[Len(PiModels)] \in ModelSet
  /\ NoEntry \notin Nat /\ NoEntry \notin ModelSet /\ NoEntry \notin Forks /\ NoEntry \notin PiFiles
  /\ PiFiles \subseteq Nat \ {0} /\ MaxSessions \in Nat
  <1>1. PiModels \in Seq(ModelSet) /\ PiModels # <<>>
    BY PiAssumption DEF ModelSet
  <1>2. Len(PiModels) \in Nat \ {0}
    BY <1>1
  <1>3. PiModels[1] \in ModelSet /\ PiModels[Len(PiModels)] \in ModelSet
    BY <1>1, <1>2
  <1>4. PiFiles \subseteq Nat \ {0} /\ MaxSessions \in Nat
    BY PiAssumption DEF PiFiles
  <1>5. NoEntry \notin Nat /\ NoEntry \notin ModelSet
    BY PiAssumption DEF ModelSet
  <1>6. NoEntry \notin Forks
    <2>1. Forks \subseteq [at : Nat, parent : Nat, counted : BOOLEAN]
      BY <1>4 DEF Forks
    <2>2. QED
      BY <2>1, PiAssumption
  <1>7. QED
    BY <1>1, <1>2, <1>3, <1>4, <1>5, <1>6

LEMMA RowStays ==
  ASSUME NEW st, NEW as, NEW bs, as \subseteq bs, NEW gone, NEW after, gone \subseteq after,
         RowsFit(st, as, gone)
  PROVE  RowsFit(st, bs, after)
  BY DEF RowsFit, RowFits

LEMMA StateStays ==
  ASSUME NEW n \in Nat, NEW es, NEW fs, \A i \in 1 .. n : fs[i] = es[i],
         NEW as, NEW bs, as \subseteq bs, NEW gone, NEW after, gone \subseteq after,
         NEW s, NEW st, NEW length, StateFits(es, n, s, st, length, as, gone)
  PROVE  StateFits(fs, n, s, st, length, bs, after)
  <1>1. RowsFit(st, bs, after)
    BY RowStays DEF StateFits
  <1>2. n > 0 => st.id = s /\ ForkFits(fs[1], st.fork, length, after)
    BY DEF StateFits, ForkFits
  <1>3. ASSUME NEW i \in 2 .. n, IsChange(fs[i]), \A j \in i + 1 .. n : ~IsChange(fs[j])
        PROVE  st.model = fs[i].model
    <2>1. fs[i] = es[i] /\ \A j \in i + 1 .. n : fs[j] = es[j]
      OBVIOUS
    <2>2. IsChange(es[i]) /\ \A j \in i + 1 .. n : ~IsChange(es[j])
      BY <1>3, <2>1
    <2>3. st.model = es[i].model
      BY <2>2 DEF StateFits
    <2>4. QED
      BY <2>1, <2>3
  <1>4. ASSUME NEW i \in 2 .. n, IsMessage(fs[i]) PROVE MessageTaken(fs[i], st)
    <2>1. fs[i] = es[i]
      OBVIOUS
    <2>2. QED
      BY <1>4, <2>1 DEF StateFits
  <1>5. QED
    BY <1>1, <1>2, <1>3, <1>4 DEF StateFits

LEMMA ModelStays ==
  ASSUME NEW es, NEW fs, NEW n \in Nat, \A i \in 2 .. n : fs[i] = es[i], NEW i \in 2 .. n, NEW model,
         ModelFits(es, i, model)
  PROVE  ModelFits(fs, i, model)
  <1>1. fs[i] = es[i] /\ \A j \in 2 .. i - 1 : fs[j] = es[j]
    OBVIOUS
  <1>2. CASE es[i].model = model
    BY <1>1, <1>2 DEF ModelFits
  <1>3. CASE es[i].model = NoEntry
             /\ \E j \in 2 .. i - 1 : /\ IsChange(es[j]) /\ es[j].model = model
                                      /\ \A k \in j + 1 .. i - 1 : ~IsChange(es[k])
    <2>1. PICK j \in 2 .. i - 1 : /\ IsChange(es[j]) /\ es[j].model = model
                                  /\ \A k \in j + 1 .. i - 1 : ~IsChange(es[k])
      BY <1>3
    <2>2. \A k \in j + 1 .. i - 1 : k \in 2 .. i - 1
      OBVIOUS
    <2>3. IsChange(fs[j]) /\ fs[j].model = model /\ \A k \in j + 1 .. i - 1 : ~IsChange(fs[k])
      BY <1>1, <2>1, <2>2
    <2>4. QED
      BY <1>1, <1>3, <2>3 DEF ModelFits
  <1>4. QED
    BY <1>2, <1>3 DEF ModelFits

(* A file that is as it was, at a later time, with more answers.              *)
LEMMA FileStays ==
  ASSUME NEW es, NEW s, NEW t \in Nat, NEW u \in Nat, t <= u, NEW as, NEW bs, as \subseteq bs,
         FileFits(es, s, t, as)
  PROVE  FileFits(es, s, u, bs)
  <1>1. \A h \in Headers : h.at \in Nat
    BY DEF Headers
  <1>2. ASSUME NEW i \in 2 .. Len(es) PROVE EntryFits(es, i, s, u, bs)
    <2>1. EntryFits(es, i, s, t, as)
      BY DEF FileFits
    <2>2. es[i].at \in Nat
      BY <2>1 DEF EntryFits, Changes, Messages
    <2>3. es[i].at < u
      BY <2>1, <2>2 DEF EntryFits
    <2>4. IsMessage(es[i]) => Answered(es, i, s, bs)
      BY <2>1 DEF EntryFits, Answered
    <2>5. QED
      BY <2>1, <2>3, <2>4 DEF EntryFits
  <1>3. es[1].at < u
    BY <1>1 DEF FileFits
  <1>4. QED
    BY <1>2, <1>3 DEF FileFits

(* An entry more: a change, or a message that is answered.                    *)
LEMMA FileGrows ==
  ASSUME NEW es, NEW s, NEW t \in Nat, NEW as, NEW bs, as \subseteq bs, FileFits(es, s, t, as),
         NEW n \in Nat, n = Len(es), NEW e \in Changes \cup Messages, e.at = t,
         NEW fs, fs \in Seq(PiEntries), Len(fs) = n + 1, fs[n + 1] = e, \A i \in 1 .. n : fs[i] = es[i],
         IsMessage(e) => \E a \in bs : a.at = t /\ a.session = s /\ ModelFits(fs, n + 1, a.model)
  PROVE  FileFits(fs, s, t + 1, bs)
  <1>1. n >= 2 /\ fs[1] = es[1] /\ fs[2] = es[2] /\ 1 \in 1 .. n /\ 2 \in 1 .. n
    BY DEF FileFits
  <1>2. es[1].at \in Nat /\ es[1].at < t
    BY DEF FileFits, Headers
  <1>3. t + 1 \in Nat /\ t <= t + 1
    OBVIOUS
  <1>4. FileFits(es, s, t + 1, bs)
    BY <1>3, FileStays
  <1>5. ASSUME NEW i \in 2 .. n PROVE EntryFits(fs, i, s, t + 1, bs)
    <2>1. EntryFits(es, i, s, t + 1, bs) /\ fs[i] = es[i] /\ \A j \in 2 .. n : fs[j] = es[j]
      BY <1>4 DEF FileFits
    <2>2. ASSUME IsMessage(fs[i]) PROVE Answered(fs, i, s, bs)
      <3>1. PICK a \in bs : a.at = es[i].at /\ ModelFits(es, i, a.model)
                            /\ (es[i].at >= es[1].at => a.session = s)
        BY <2>1, <2>2 DEF EntryFits, Answered
      <3>2. ModelFits(fs, i, a.model)
        BY <2>1, <3>1, ModelStays
      <3>3. QED
        BY <1>1, <2>1, <3>1, <3>2 DEF Answered
    <2>3. QED
      BY <1>1, <2>1, <2>2 DEF EntryFits
  <1>6. EntryFits(fs, n + 1, s, t + 1, bs)
    <2>1. IsMessage(e) => Answered(fs, n + 1, s, bs)
      BY DEF Answered
    <2>2. QED
      BY <1>1, <1>2, <2>1 DEF EntryFits
  <1>7. \A i \in 2 .. n + 1 : i = n + 1 \/ i \in 2 .. n
    OBVIOUS
  <1>8. \A i \in 2 .. n + 1 : EntryFits(fs, i, s, t + 1, bs)
    BY <1>5, <1>6, <1>7
  <1>9. QED
    BY <1>1, <1>4, <1>8 DEF FileFits

LEMMA CopiesStay ==
  ASSUME NEW es, NEW fs, NEW n \in Nat, NEW m \in Nat, n = Len(es), m = Len(fs), n >= 1,
         \A i \in 1 .. n : i <= m /\ fs[i] = es[i], \A i \in n + 1 .. m : fs[i].at >= es[1].at,
         \A i \in 1 .. m : fs[i].at \in Nat,
         NEW ps, NEW qs, Len(ps) \in Nat, Len(qs) \in Nat,
         \A i \in 1 .. Len(ps) : i <= Len(qs) /\ qs[i] = ps[i], CopiesFit(es, ps)
  PROVE  CopiesFit(fs, qs)
  <1>1. fs[1] = es[1] /\ 1 \in 1 .. m
    OBVIOUS
  <1>2. ASSUME NEW i \in 2 .. m, IsMessage(fs[i]), fs[i].at < fs[1].at
        PROVE  \E j \in 2 .. Len(qs) : IsMessage(qs[j]) /\ qs[j].at = fs[i].at
    <2>1. i \in 1 .. m /\ fs[i].at \in Nat /\ fs[1].at \in Nat /\ (i \in 2 .. n \/ i \in n + 1 .. m)
      BY <1>1
    <2>2. i \in 2 .. n
      BY <1>1, <1>2, <2>1
    <2>3. fs[i] = es[i]
      BY <2>2
    <2>4. PICK j \in 2 .. Len(ps) : IsMessage(ps[j]) /\ ps[j].at = es[i].at
      BY <1>1, <1>2, <2>2, <2>3 DEF CopiesFit
    <2>5. j \in 2 .. Len(qs) /\ qs[j] = ps[j]
      OBVIOUS
    <2>6. QED
      BY <2>3, <2>4, <2>5
  <1>3. QED
    BY <1>2, m = Len(fs) DEF CopiesFit

LEMMA PiStarts == PiInit => PiInv
  <1> SUFFICES ASSUME PiInit PROVE PiInv
    OBVIOUS
  <1> USE DEF PiInit
  <1>1. NoFile \in Seq(PiEntries) /\ Len(NoFile) = 0
    BY DEF NoFile
  <1>2. \A s \in PiFiles : session[s] = NoFile /\ stored[s] = NoEntry
    OBVIOUS
  <1>3. PiTypes
    BY <1>1, <1>2, PiConstants DEF PiTypes
  <1>4. AnswersApart /\ FilesFit /\ StoredFits
    BY <1>2 DEF AnswersApart, FilesFit, StoredFits, Exists
  <1>5. QED
    BY <1>3, <1>4 DEF PiInv

(* What has gone stays so, when the sessions change as s does.                *)
LEMMA GoneIs ==
  ASSUME PiTypes
  PROVE  /\ Gone = {q \in 1 .. used : q \in outside \/ session[q] = NoFile}
         /\ Gone' = {q \in 1 .. used' : q \notin PiFiles \/ q \in outside' \/ session'[q] = NoFile}
         /\ 1 .. used \subseteq PiFiles
  <1>1. 1 .. used \subseteq PiFiles
    BY PiConstants DEF PiTypes, PiFiles
  <1>2. QED
    BY <1>1 DEF Gone, Discovered, Exists

(* A step that leaves each session's file as it was, makes it longer, or
   removes it, and adds answers, keeps what is stored true.                   *)
LEMMA StoredStays ==
  ASSUME PiInv, answers \subseteq answers', Gone \subseteq Gone', stored' = stored,
         \A s \in PiFiles : \/ session'[s] = NoFile
                            \/ session[s] = NoFile /\ stored[s] = NoEntry
                            \/ /\ session[s] # NoFile /\ Len(session'[s]) \in Nat
                               /\ \A i \in 1 .. Len(session[s]) :
                                      i <= Len(session'[s]) /\ session'[s][i] = session[s][i]
  PROVE  StoredFits'
  <1> SUFFICES ASSUME NEW s \in PiFiles, stored[s] # NoEntry
               PROVE  KeptFits(session'[s], s, stored[s], answers', Gone')
    BY DEF StoredFits
  <1> DEFINE k == stored[s]
             es == session[s]
             fs == session'[s]
  <1>1. KeptFits(es, s, k, answers, Gone)
    BY DEF PiInv, StoredFits
  <1>2. RowsFit(k.state, answers', Gone')
    BY <1>1, RowStays DEF KeptFits
  <1>3. CASE fs = NoFile
    BY <1>1, <1>2, <1>3 DEF KeptFits
  <1>4. CASE fs # NoFile
    <2>1. /\ es # NoFile /\ Len(fs) \in Nat
          /\ \A i \in 1 .. Len(es) : i <= Len(fs) /\ fs[i] = es[i]
      BY <1>4
    <2>2. PICK n \in 1 .. Len(es) : n = k.print.size
      BY <1>1, <2>1 DEF KeptFits
    <2>3. Len(es) \in Nat
      BY DEF PiInv, PiTypes
    <2>4. StateFits(es, n, s, k.state, k.print.dependency, answers, Gone)
      BY <1>1, <2>1, <2>2 DEF KeptFits
    <2>5. n \in Nat /\ n \in 1 .. Len(fs) /\ \A i \in 1 .. n : fs[i] = es[i]
      BY <2>1, <2>2, <2>3
    <2> DEFINE length == k.print.dependency
               st == k.state
               after == Gone'
               bs == answers'
    <2> HIDE DEF fs, es, length, st, after, bs
    <2>6. StateFits(fs, n, s, st, length, bs, after)
      <3>1. StateFits(es, n, s, st, length, answers, Gone)
        BY <2>4 DEF length, st
      <3>2. answers \subseteq bs /\ Gone \subseteq after
        BY DEF bs, after
      <3>3. QED
        BY <2>5, <3>1, <3>2, StateStays
    <2>7. KeptFits(fs, s, k, bs, after)
      BY <1>1, <1>2, <2>2, <2>5, <2>6 DEF KeptFits, length, st, after, bs
    <2>8. QED
      BY <2>7 DEF fs, bs, after
  <1>5. QED
    BY <1>3, <1>4

(* An entry more in the file of s.                                            *)
LEMMA OneMore ==
  ASSUME PiInv, NEW s \in PiFiles, Exists(s), NEW e \in Changes \cup Messages, e.at = clock,
         AddEntries(s, <<e>>), used' = used, NEW bs \in SUBSET Answers, answers \subseteq bs,
         answers' = bs, \A a \in bs : a.at < clock + 1 /\ a.session <= used,
         \A a, b \in bs : a.at = b.at => a = b,
         IsMessage(e) => \E a \in bs : a.at = clock /\ a.session = s /\
                             ModelFits(Append(session[s], e), Len(session[s]) + 1, a.model)
  PROVE  PiInv'
  <1> DEFINE es == session[s]
             fs == Append(es, e)
  <1>1. PICK n \in Nat : n = Len(es)
    BY DEF PiInv, PiTypes
  <1>2. /\ es \in Seq(PiEntries) /\ e \in PiEntries /\ fs \in Seq(PiEntries) /\ Len(fs) = n + 1
        /\ fs[n + 1] = e /\ \A i \in 1 .. n : fs[i] = es[i]
    <2>1. es \in Seq(PiEntries) /\ e \in PiEntries
      BY DEF PiInv, PiTypes, PiEntries
    <2>2. QED
      BY <1>1, <2>1, AppendProperties
  <1>3. es \o <<e>> = fs
    BY <1>2, AppendIsConcat
  <1>4. session' = [session EXCEPT ![s] = fs] /\ clock' = clock + 1 /\ outside' = outside /\ stored' = stored
    BY <1>3 DEF AddEntries
  <1>5. /\ session' \in [PiFiles -> Seq(PiEntries)] /\ session'[s] = fs
        /\ \A q \in PiFiles : q # s => session'[q] = session[q]
    BY <1>2, <1>4 DEF PiInv, PiTypes
  <1>6. fs # NoFile /\ es # NoFile
    BY <1>1, <1>2 DEF NoFile, Exists
  <1>7. clock \in Nat /\ clock + 1 \in Nat /\ clock <= clock + 1 /\ used \in Nat
    BY DEF PiInv, PiTypes
  <1>8. s <= used
    BY <1>6, <1>7, PiConstants DEF PiInv, PiTypes
  <1>9. PiTypes'
    <2>1. \A q \in PiFiles : q > used => session'[q] = NoFile /\ stored[q] = NoEntry
      BY <1>5, <1>7, <1>8, PiConstants DEF PiInv, PiTypes
    <2>2. QED
      BY <1>4, <1>5, <1>7, <2>1 DEF PiInv, PiTypes
  <1>10. AnswersApart'
    BY <1>4 DEF AnswersApart
  <1>11. /\ FileFits(es, s, clock, answers)
         /\ es[1].parent # NoEntry /\ Exists(es[1].parent) => CopiesFit(es, session[es[1].parent])
         /\ es[1] \in Headers /\ es[1].at \in Nat /\ n >= 2
    BY <1>1, <1>6 DEF PiInv, FilesFit, Exists, FileFits, Headers
  <1> HIDE DEF es, fs
  <1>12. FileFits(fs, s, clock + 1, bs)
    <2>1. IsMessage(e) => \E a \in bs : a.at = clock /\ a.session = s /\ ModelFits(fs, n + 1, a.model)
      BY <1>1 DEF fs, es
    <2>2. clock \in Nat /\ FileFits(es, s, clock, answers)
      BY <1>7, <1>11
    <2>3. fs \in Seq(PiEntries) /\ Len(fs) = n + 1 /\ fs[n + 1] = e /\ \A i \in 1 .. n : fs[i] = es[i]
      BY <1>2
    <2>4. e \in Changes \cup Messages /\ e.at = clock /\ answers \subseteq bs /\ n = Len(es) /\ n \in Nat
      BY <1>1
    <2>5. QED
      BY <2>1, <2>2, <2>3, <2>4, FileGrows
  <1>13. /\ \A q \in PiFiles : Len(session[q]) \in Nat /\ Len(session'[q]) \in Nat
         /\ \A q \in PiFiles : \A i \in 1 .. Len(session[q]) :
                i <= Len(session'[q]) /\ session'[q][i] = session[q][i]
    <2>1. \A q \in PiFiles : session[q] \in Seq(PiEntries) /\ session'[q] \in Seq(PiEntries)
      BY <1>5 DEF PiInv, PiTypes
    <2>2. \A q \in PiFiles : Len(session[q]) \in Nat /\ Len(session'[q]) \in Nat
      BY <2>1
    <2>3. ASSUME NEW q \in PiFiles, NEW i \in 1 .. Len(session[q])
          PROVE  i <= Len(session'[q]) /\ session'[q][i] = session[q][i]
      <3>1. CASE q = s
        <4>1. i \in 1 .. n /\ session[q][i] = es[i]
          BY <1>1, <3>1 DEF es
        <4>2. QED
          BY <1>2, <1>5, <3>1, <4>1
      <3>2. CASE q # s
        BY <1>5, <2>2, <3>2
      <3>3. QED
        BY <3>1, <3>2
    <2>4. QED
      BY <2>2, <2>3
  <1>14. FilesFit'
    <2> SUFFICES ASSUME NEW q \in PiFiles, session'[q] # NoFile
                 PROVE  /\ FileFits(session'[q], q, clock + 1, bs)
                        /\ session'[q][1].parent # NoEntry /\ session'[session'[q][1].parent] # NoFile =>
                              CopiesFit(session'[q], session'[session'[q][1].parent])
      BY <1>4 DEF FilesFit, Exists
    <2> DEFINE old == session[q]
               new == session'[q]
    <2>1. old # NoFile
      BY <1>5, <1>6 DEF es
    <2>2. /\ FileFits(old, q, clock, answers)
          /\ old[1].parent # NoEntry /\ Exists(old[1].parent) => CopiesFit(old, session[old[1].parent])
      BY <2>1 DEF PiInv, FilesFit, Exists
    <2>3. FileFits(new, q, clock + 1, bs)
      <3>1. CASE q = s
        BY <1>5, <1>12, <3>1
      <3>2. CASE q # s
        <4>1. FileFits(old, q, clock + 1, bs)
          BY <1>7, <2>2, FileStays
        <4>2. QED
          BY <1>5, <3>2, <4>1
      <3>3. QED
        BY <3>1, <3>2
    <2>4. ASSUME new[1].parent # NoEntry, session'[new[1].parent] # NoFile
          PROVE  CopiesFit(new, session'[new[1].parent])
      <3>1. Len(old) \in Nat /\ Len(new) \in Nat /\ Len(old) >= 1 /\ Len(new) >= 1
        BY <1>13, <2>2, <2>3 DEF FileFits
      <3>2. new[1] = old[1] /\ \A i \in 1 .. Len(old) : i <= Len(new) /\ new[i] = old[i]
        BY <1>13, <3>1
      <3>3. PICK p \in PiFiles : p = old[1].parent
        BY <2>2, <2>4, <3>2 DEF FileFits, Headers
      <3>4. session[p] # NoFile
        BY <1>5, <1>6, <2>4, <3>2, <3>3 DEF es
      <3>5. CopiesFit(old, session[p])
        BY <2>2, <2>4, <3>2, <3>3, <3>4 DEF Exists
      <3>6. \A i \in 1 .. Len(new) : new[i].at \in Nat
        <4>1. \A x \in PiEntries : x.at \in Nat
          BY DEF PiEntries, Headers, Changes, Messages
        <4>2. QED
          BY <4>1, <1>5
      <3>7. \A i \in Len(old) + 1 .. Len(new) : new[i].at >= old[1].at
        <4>1. CASE q = s
          <5>1. new = fs /\ old = es /\ Len(old) = n /\ Len(new) = n + 1
            BY <1>1, <1>2, <1>5, <4>1 DEF es
          <5>2. fs[n + 1].at = clock /\ es[1].at < clock
            BY <1>2, <1>11 DEF FileFits
          <5>3. \A i \in n + 1 .. n + 1 : i = n + 1
            OBVIOUS
          <5>4. QED
            BY <1>7, <1>11, <5>1, <5>2, <5>3
        <4>2. CASE q # s
          <5>1. new = old
            BY <1>5, <4>2
          <5>2. QED
            BY <3>1, <5>1
        <4>3. QED
          BY <4>1, <4>2
      <3> HIDE DEF old, new
      <3>8. CopiesFit(new, session'[p])
        <4>1. /\ Len(session[p]) \in Nat /\ Len(session'[p]) \in Nat
              /\ \A i \in 1 .. Len(session[p]) : i <= Len(session'[p]) /\ session'[p][i] = session[p][i]
          BY <1>13
        <4> DEFINE ps == session[p]
                   qs == session'[p]
        <4> HIDE DEF ps, qs
        <4>2. CopiesFit(old, ps) /\ Len(ps) \in Nat /\ Len(qs) \in Nat
              /\ \A i \in 1 .. Len(ps) : i <= Len(qs) /\ qs[i] = ps[i]
          BY <3>5, <4>1 DEF ps, qs
        <4>3. PICK m \in Nat, k \in Nat : m = Len(old) /\ k = Len(new) /\ m >= 1
          BY <3>1
        <4>4. /\ \A i \in 1 .. m : i <= k /\ new[i] = old[i]
              /\ \A i \in m + 1 .. k : new[i].at >= old[1].at
              /\ \A i \in 1 .. k : new[i].at \in Nat
          BY <3>2, <3>6, <3>7, <4>3
        <4>5. CopiesFit(new, qs)
          BY <4>2, <4>3, <4>4, CopiesStay
        <4>6. QED
          BY <4>5 DEF qs
      <3>9. QED
        BY <3>2, <3>3, <3>8
    <2>5. QED
      BY <2>3, <2>4
  <1>15. Gone \subseteq Gone'
    <2>1. PiTypes
      BY DEF PiInv
    <2>2. \A q \in PiFiles : session[q] = NoFile => session'[q] = NoFile
      BY <1>5, <1>6 DEF es
    <2>3. QED
      BY <1>4, <2>1, <2>2, GoneIs
  <1>16. StoredFits'
    <2>1. answers \subseteq answers' /\ stored' = stored
      BY <1>4
    <2>2. ASSUME NEW q \in PiFiles
          PROVE  \/ session'[q] = NoFile
                 \/ session[q] = NoFile /\ stored[q] = NoEntry
                 \/ /\ session[q] # NoFile /\ Len(session'[q]) \in Nat
                    /\ \A i \in 1 .. Len(session[q]) :
                           i <= Len(session'[q]) /\ session'[q][i] = session[q][i]
      <3>1. session[q] = NoFile => session'[q] = NoFile
        BY <1>5, <1>6 DEF es
      <3>2. QED
        BY <1>13, <3>1, Zenon
    <2>3. QED
      BY <1>15, <2>1, <2>2, StoredStays, Zenon
  <1>17. QED
    BY <1>9, <1>10, <1>14, <1>16 DEF PiInv

(* A new file, of a session whose number is the next.                         *)
LEMMA OneFile ==
  ASSUME PiInv, NEW s \in PiFiles, NEW parent, NEW entries,
         parent # NoEntry => parent \in PiFiles /\ parent <= used /\ Exists(parent),
         BeginSession(s, parent, entries), entries \in Seq(Changes \cup Messages), entries # <<>>,
         IsChange(entries[1]),
         parent = NoEntry => Len(entries) = 1 /\ entries[1].at = clock,
         parent # NoEntry => /\ Len(entries) < Len(session[parent])
                             /\ \A i \in 1 .. Len(entries) : entries[i] = session[parent][i + 1]
  PROVE  PiInv'
  <1> DEFINE h == Header(s, parent)
  <1>1. /\ clock \in Nat /\ clock + 1 \in Nat /\ clock <= clock + 1 /\ used \in Nat
        /\ session \in [PiFiles -> Seq(PiEntries)]
        /\ answers \subseteq Answers
    BY DEF PiInv, PiTypes
  <1>2. /\ s = used + 1 /\ used' = s /\ answers' = answers /\ clock' = clock + 1
        /\ outside' = outside /\ stored' = stored /\ session[s] = NoFile /\ stored[s] = NoEntry
        /\ s <= MaxSessions
    <2>1. s > used => session[s] = NoFile /\ stored[s] = NoEntry
      BY DEF PiInv, PiTypes
    <2>2. s \in Nat /\ s <= MaxSessions
      BY PiConstants DEF PiFiles
    <2>3. QED
      BY <1>1, <2>1, <2>2 DEF BeginSession, AddEntries
  <1>3. h \in Headers /\ h.id = s /\ h.parent = parent /\ h.at = clock
    BY <1>1 DEF Header, Headers
  <1>4. PICK n \in Nat : n = Len(entries) /\ n >= 1
    <2>1. Len(entries) \in Nat /\ Len(entries) # 0
      OBVIOUS
    <2>2. QED
      BY <2>1
  <1> HIDE DEF h
  <1>5. \A e \in PiEntries : e.at \in Nat
    BY DEF PiEntries, Headers, Changes, Messages
  <1> DEFINE fs == NoFile \o (<<h>> \o entries)
  <1>6. /\ fs \in Seq(PiEntries) /\ Len(fs) = n + 1 /\ fs[1] = h
        /\ \A i \in 2 .. n + 1 : fs[i] = entries[i - 1]
    <2>1. entries \in Seq(PiEntries) /\ <<h>> \in Seq(PiEntries) /\ NoFile \in Seq(PiEntries)
          /\ Len(<<h>>) = 1 /\ <<h>>[1] = h /\ Len(NoFile) = 0
      <3>1. h \in PiEntries /\ Changes \cup Messages \subseteq PiEntries
        BY <1>3 DEF PiEntries
      <3>2. entries \in Seq(PiEntries)
        BY <3>1
      <3>3. QED
        BY <3>1, <3>2 DEF NoFile
    <2>2. PICK one \in Seq(PiEntries) : one = <<h>> /\ Len(one) = 1 /\ one[1] = h
      BY <2>1
    <2>3. PICK none \in Seq(PiEntries) : none = NoFile /\ Len(none) = 0
      BY <2>1
    <2>4. PICK gs \in Seq(PiEntries) : gs = one \o entries
      BY <2>1, ConcatProperties
    <2>5. Len(gs) = n + 1 /\ gs[1] = h /\ \A i \in 2 .. n + 1 : gs[i] = entries[i - 1]
      <3>1. Len(gs) = Len(one) + Len(entries) /\ \A i \in 1 .. Len(one) + Len(entries) :
                gs[i] = IF i <= Len(one) THEN one[i] ELSE entries[i - Len(one)]
        BY <2>1, <2>4, ConcatProperties
      <3>2. QED
        BY <1>4, <2>2, <3>1
    <2>6. none \o gs = gs
      BY <2>3, <2>4
    <2>7. QED
      BY <2>2, <2>3, <2>4, <2>5, <2>6
  <1>7. /\ session' \in [PiFiles -> Seq(PiEntries)] /\ session'[s] = fs
        /\ \A q \in PiFiles : q # s => session'[q] = session[q]
    <2>1. session' = [session EXCEPT ![s] = session[s] \o (<<h>> \o entries)]
      BY DEF BeginSession, AddEntries, h
    <2>2. session' = [session EXCEPT ![s] = fs]
      BY <1>2, <2>1
    <2> HIDE DEF fs
    <2>3. QED
      BY <1>1, <1>6, <2>2
  <1> HIDE DEF fs
  <1>8. fs[2] = entries[1] /\ 2 \in 2 .. n + 1 /\ 1 \in 1 .. n
    <2>1. 2 \in 2 .. n + 1 /\ 1 \in 1 .. n /\ 2 - 1 = 1
      BY <1>4
    <2>2. QED
      BY <1>6, <2>1
  <1>9. parent # NoEntry =>
          /\ parent \in PiFiles /\ parent # s /\ parent < s /\ session[parent] # NoFile
          /\ FileFits(session[parent], parent, clock, answers)
          /\ \A i \in 2 .. n + 1 : i \in 2 .. Len(session[parent]) /\ fs[i] = session[parent][i]
    <2> SUFFICES ASSUME parent # NoEntry
                 PROVE  /\ parent \in PiFiles /\ parent # s /\ parent < s /\ session[parent] # NoFile
                        /\ FileFits(session[parent], parent, clock, answers)
                        /\ \A i \in 2 .. n + 1 : i \in 2 .. Len(session[parent]) /\ fs[i] = session[parent][i]
      OBVIOUS
    <2>1. parent \in PiFiles /\ parent <= used /\ session[parent] # NoFile
      BY DEF Exists
    <2>2. FileFits(session[parent], parent, clock, answers)
      BY <2>1 DEF PiInv, FilesFit, Exists
    <2>3. parent \in Nat /\ parent < s /\ parent # s
      BY <1>1, <1>2, <2>1, PiConstants
    <2>4. PICK m \in Nat : m = Len(session[parent]) /\ n < m
      <3>1. session[parent] \in Seq(PiEntries)
        BY <1>1, <2>1
      <3>2. Len(session[parent]) \in Nat
        BY <3>1
      <3>3. QED
        BY <1>4, <3>2
    <2>5. \A i \in 2 .. n + 1 : i \in 2 .. m /\ i - 1 \in 1 .. n /\ i - 1 + 1 = i
      BY <2>4
    <2>6. QED
      BY <1>4, <1>6, <2>1, <2>2, <2>3, <2>4, <2>5
  <1>10. PiTypes'
    <2>1. \A q \in PiFiles : q > s => q > used /\ q # s
      BY <1>1, <1>2, PiConstants
    <2>2. \A q \in PiFiles : q > s => session'[q] = NoFile /\ stored[q] = NoEntry
      BY <1>7, <2>1 DEF PiInv, PiTypes
    <2>3. s \in 0 .. MaxSessions
      BY <1>2, PiConstants
    <2>4. outside \subseteq PiFiles
      BY DEF PiInv, PiTypes
    <2>5. QED
      BY <1>1, <1>2, <1>7, <2>2, <2>3, <2>4 DEF PiTypes
  <1>11. AnswersApart'
    <2>1. \A a \in answers : a.at \in Nat /\ a.session \in Nat
      BY <1>1, PiConstants DEF Answers
    <2>2. \A a \in answers : a.at < clock + 1 /\ a.session <= s
      BY <1>1, <1>2, <2>1 DEF PiInv, AnswersApart
    <2>3. \A a, b \in answers : a.at = b.at => a = b
      BY DEF PiInv, AnswersApart
    <2>4. QED
      BY <1>2, <2>2, <2>3 DEF AnswersApart
  <1>12. FileFits(fs, s, clock + 1, answers)
    <2>1. ASSUME NEW i \in 2 .. n + 1 PROVE EntryFits(fs, i, s, clock + 1, answers)
      <3>1. i - 1 \in 1 .. n /\ fs[i] = entries[i - 1]
        BY <1>6
      <3>2. fs[i] \in Changes \cup Messages
        BY <1>4, <3>1
      <3>3. CASE parent = NoEntry
        <4>1. n = 1 /\ i = 2 /\ fs[i] = entries[1] /\ fs[i].at = clock
          BY <1>4, <1>8, <3>3
        <4>2. ~IsMessage(fs[i])
          BY <4>1 DEF IsChange, IsMessage
        <4>3. QED
          BY <1>1, <1>3, <1>6, <3>2, <4>1, <4>2 DEF EntryFits
      <3>4. CASE parent # NoEntry
        <4> DEFINE ps == session[parent]
        <4>1. FileFits(ps, parent, clock, answers) /\ i \in 2 .. Len(ps)
              /\ \A j \in 2 .. n + 1 : fs[j] = ps[j]
          BY <1>9, <3>4
        <4>2. EntryFits(ps, i, parent, clock, answers) /\ fs[i] = ps[i]
          BY <4>1 DEF FileFits
        <4>3. fs[i].at \in Nat /\ fs[i].at < clock
          BY <3>2, <4>2 DEF EntryFits, Changes, Messages
        <4>4. ASSUME IsMessage(fs[i]) PROVE Answered(fs, i, s, answers)
          <5>1. PICK a \in answers : a.at = ps[i].at /\ ModelFits(ps, i, a.model)
            BY <4>2, <4>4 DEF EntryFits, Answered
          <5>2. ModelFits(fs, i, a.model)
            <6>1. n + 1 \in Nat /\ \A j \in 2 .. n + 1 : fs[j] = ps[j]
              BY <4>1
            <6>2. QED
              BY <5>1, <6>1, ModelStays
          <5>3. fs[1].at = clock
            BY <1>3, <1>6
          <5>4. QED
            BY <1>1, <4>2, <4>3, <5>1, <5>2, <5>3 DEF Answered
        <4>5. QED
          BY <1>1, <1>3, <1>6, <3>2, <3>4, <4>3, <4>4 DEF EntryFits
      <3>5. QED
        BY <3>3, <3>4
    <2>2. fs[1].parent # NoEntry => fs[1].parent < s
      BY <1>3, <1>6, <1>9
    <2>3. QED
      BY <1>1, <1>3, <1>4, <1>6, <1>8, <2>1, <2>2 DEF FileFits
  <1>13. FilesFit'
    <2> SUFFICES ASSUME NEW q \in PiFiles, session'[q] # NoFile
                 PROVE  /\ FileFits(session'[q], q, clock + 1, answers)
                        /\ session'[q][1].parent # NoEntry /\ session'[session'[q][1].parent] # NoFile =>
                              CopiesFit(session'[q], session'[session'[q][1].parent])
      BY <1>2 DEF FilesFit, Exists
    <2>1. CASE q = s
      <3>1. ASSUME parent # NoEntry PROVE CopiesFit(fs, session[parent])
        <4>1. \A i \in 2 .. n + 1 : i \in 2 .. Len(session[parent]) /\ fs[i] = session[parent][i]
          BY <1>9, <3>1
        <4>2. QED
          BY <1>6, <4>1 DEF CopiesFit
      <3>2. parent # NoEntry => session'[parent] = session[parent]
        BY <1>7, <1>9
      <3>3. fs[1].parent = parent
        BY <1>3, <1>6
      <3>4. QED
        BY <1>7, <1>12, <2>1, <3>1, <3>2, <3>3
    <2>2. CASE q # s
      <3> DEFINE old == session[q]
      <3>1. session'[q] = old /\ old # NoFile
        BY <1>7, <2>2
      <3>2. /\ FileFits(old, q, clock, answers)
            /\ old[1].parent # NoEntry /\ session[old[1].parent] # NoFile =>
                  CopiesFit(old, session[old[1].parent])
        BY <3>1 DEF PiInv, FilesFit, Exists
      <3>3. FileFits(old, q, clock + 1, answers)
        BY <1>1, <3>2, FileStays
      <3>4. q \in Nat /\ q <= used
        <4>1. ~(q > used)
          BY <3>1 DEF PiInv, PiTypes
        <4>2. QED
          BY <1>1, <4>1, PiConstants
      <3>5. old[1].parent # NoEntry => session'[old[1].parent] = session[old[1].parent]
        <4>1. ASSUME old[1].parent # NoEntry
              PROVE  old[1].parent \in PiFiles /\ old[1].parent < q
          BY <3>2, <4>1 DEF FileFits, Headers
        <4>2. ASSUME NEW p \in PiFiles, p < q PROVE p # s
          BY <1>1, <1>2, <3>4, <4>2, PiConstants
        <4>3. QED
          BY <1>7, <4>1, <4>2
      <3>6. QED
        BY <3>1, <3>2, <3>3, <3>5
    <2>3. QED
      BY <2>1, <2>2
  <1>14. Gone \subseteq Gone'
    <2>1. PiTypes
      BY DEF PiInv
    <2>2. \A q \in 1 .. used : q \in PiFiles /\ q # s /\ q \in 1 .. s /\ session'[q] = session[q]
      <3>1. \A q \in 1 .. used : q # s /\ q \in 1 .. s
        BY <1>1, <1>2
      <3>2. QED
        BY <1>7, <2>1, <3>1, GoneIs
    <2>3. QED
      BY <1>2, <2>1, <2>2, GoneIs
  <1>15. StoredFits'
    <2>1. ASSUME NEW q \in PiFiles
          PROVE  \/ session'[q] = NoFile
                 \/ session[q] = NoFile /\ stored[q] = NoEntry
                 \/ /\ session[q] # NoFile /\ Len(session'[q]) \in Nat
                    /\ \A i \in 1 .. Len(session[q]) :
                           i <= Len(session'[q]) /\ session'[q][i] = session[q][i]
      <3>1. CASE q = s
        BY <1>2, <3>1
      <3>2. CASE q # s
        <4>1. session'[q] = session[q] /\ Len(session[q]) \in Nat
          BY <1>1, <1>7, <3>2
        <4>2. QED
          BY <4>1
      <3>3. QED
        BY <3>1, <3>2
    <2>2. QED
      BY <1>2, <1>14, <2>1, StoredStays
  <1>16. QED
    BY <1>10, <1>11, <1>13, <1>15 DEF PiInv

(* What pi does.                                                              *)
LEMMA BegunKeeps ==
  ASSUME PiInv, NEW s \in PiFiles, NewSession(s)
  PROVE  PiInv'
  <1> DEFINE c == Change(PiModels[1])
  <1>1. clock \in Nat
    BY DEF PiInv, PiTypes
  <1>2. c \in Changes /\ c.at = clock /\ IsChange(c)
    BY <1>1, PiConstants DEF Change, Changes, IsChange
  <1> HIDE DEF c
  <1> DEFINE Some == Changes \cup Messages
  <1>3. PICK one \in Seq(Some) : one = <<c>> /\ Len(one) = 1 /\ one[1] = c /\ one # <<>>
    <2>1. c \in Some
      BY <1>2
    <2> HIDE DEF Some
    <2>2. <<c>> \in Seq(Some) /\ Len(<<c>>) = 1 /\ <<c>>[1] = c /\ <<c>> # <<>>
      BY <2>1
    <2>3. QED
      BY <2>2
  <1>4. Len(one) = 1 /\ one[1].at = clock /\ one # <<>> /\ IsChange(one[1])
    BY <1>2, <1>3
  <1>5. BeginSession(s, NoEntry, one)
    BY <1>3 DEF NewSession, c
  <1>6. one \in Seq(Changes \cup Messages)
    BY <1>3
  <1>7. QED
    BY <1>4, <1>5, <1>6, OneFile

LEMMA ForkedKeeps ==
  ASSUME PiInv, NEW p \in PiFiles, NEW s \in PiFiles, ForkSession(p, s)
  PROVE  PiInv'
  <1> DEFINE ps == session[p]
  <1>1. Exists(p) /\ FileFits(ps, p, clock, answers) /\ ps \in Seq(PiEntries)
    BY DEF ForkSession, PiInv, FilesFit, FileFits
  <1>2. p <= used /\ p # NoEntry
    <2>1. ~(p > used)
      BY <1>1 DEF PiInv, PiTypes, Exists
    <2>2. QED
      BY <2>1, PiConstants DEF PiInv, PiTypes
  <1>3. PICK m \in Nat : m = Len(ps) /\ m >= 2
    BY <1>1 DEF FileFits
  <1>4. PICK n \in 2 .. m : BeginSession(s, p, SubSeq(ps, 2, n))
    BY <1>3 DEF ForkSession
  <1> DEFINE entries == SubSeq(ps, 2, n)
  <1>5. entries \in Seq(PiEntries) /\ Len(entries) = n - 1 /\ \A i \in 1 .. n - 1 : entries[i] = ps[i + 1]
    <2>1. \A i \in 2 .. n : ps[i] \in PiEntries
      BY <1>1, <1>3
    <2>2. Len(entries) = n - 2 + 1 /\ \A i \in 1 .. n - 2 + 1 : entries[i] = ps[2 + i - 1]
      BY <1>1, <1>3, SubSeqProperties
    <2>3. entries \in Seq(PiEntries)
      BY <1>1, <1>3, SubSeqProperties
    <2>4. \A i \in 1 .. n - 1 : 2 + i - 1 = i + 1 /\ i \in 1 .. n - 2 + 1
      OBVIOUS
    <2>5. QED
      BY <2>2, <2>3, <2>4
  <1> HIDE DEF entries
  <1>6. \A i \in 1 .. n - 1 : i + 1 \in 2 .. Len(ps)
    BY <1>3
  <1>7. \A i \in 1 .. n - 1 : entries[i] \in Changes \cup Messages
    BY <1>1, <1>5, <1>6 DEF FileFits, EntryFits
  <1>8. entries \in Seq(Changes \cup Messages) /\ entries # <<>>
    BY <1>5, <1>7
  <1>9. IsChange(entries[1])
    <2>1. 1 \in 1 .. n - 1 /\ 1 + 1 = 2
      OBVIOUS
    <2>2. QED
      BY <1>1, <1>5, <2>1 DEF FileFits
  <1>10. Len(entries) < Len(ps) /\ \A i \in 1 .. Len(entries) : entries[i] = ps[i + 1]
    BY <1>3, <1>5
  <1>11. BeginSession(s, p, entries)
    BY <1>4 DEF entries
  <1>12. QED
    BY <1>1, <1>2, <1>8, <1>9, <1>10, <1>11, OneFile

(* The model of a session is that of its last change.                         *)
LEMMA LastChangeIs ==
  ASSUME NEW es, NEW s, NEW t, NEW as, FileFits(es, s, t, as)
  PROVE  \E i \in 2 .. Len(es) : LastChange(es, i) /\ (CHOOSE j \in DOMAIN es : LastChange(es, j)) = i
                                 /\ es[i].model \in ModelSet
  <1>1. PICK n \in Nat : n = Len(es) /\ n >= 2 /\ DOMAIN es = 1 .. n
    BY DEF FileFits
  <1> DEFINE back == {k \in 0 .. n : n - k \in 2 .. n /\ IsChange(es[n - k])}
  <1>2. n - 2 \in back /\ back \subseteq Nat
    BY <1>1 DEF FileFits
  <1>3. PICK k \in back : \A j \in back : k <= j
    BY <1>2, LeastNatural
  <1>4. PICK i \in 2 .. n : i = n - k /\ IsChange(es[i])
    OBVIOUS
  <1>5. \A j \in i + 1 .. n : ~IsChange(es[j])
    <2> SUFFICES ASSUME NEW j \in i + 1 .. n, IsChange(es[j]) PROVE FALSE
      OBVIOUS
    <2>1. n - j \in 0 .. n /\ n - (n - j) = j /\ j \in 2 .. n
      OBVIOUS
    <2>2. n - j \in back
      BY <2>1
    <2>3. k <= n - j /\ k \in Nat
      BY <1>2, <1>3, <2>2
    <2>4. QED
      BY <1>4, <2>1, <2>3
  <1> HIDE DEF back
  <1>6. LastChange(es, i) /\ i \in DOMAIN es
    BY <1>1, <1>4, <1>5 DEF LastChange, IsChange
  <1>7. ASSUME NEW j \in DOMAIN es, LastChange(es, j) PROVE j = i
    <2>1. j \in 1 .. n /\ ~(i \in j + 1 .. n) /\ ~(j \in i + 1 .. n)
      BY <1>1, <1>4, <1>5, <1>7 DEF LastChange, IsChange
    <2>2. QED
      BY <2>1
  <1>8. (CHOOSE j \in DOMAIN es : LastChange(es, j)) = i
    BY <1>6, <1>7
  <1>9. es[i].model \in ModelSet
    <2>1. es[i] \in Changes \cup Messages
      BY <1>1 DEF FileFits, EntryFits
    <2>2. QED
      BY <1>4, <2>1 DEF IsChange, Changes, Messages
  <1>10. QED
    BY <1>1, <1>6, <1>8, <1>9

LEMMA SwitchedKeeps ==
  ASSUME PiInv, NEW s \in PiFiles, SwitchModel(s)
  PROVE  PiInv'
  <1> DEFINE c == Change(PiModels[Len(PiModels)])
  <1>1. clock \in Nat /\ used \in Nat /\ answers \in SUBSET Answers
    BY DEF PiInv, PiTypes
  <1>2. c \in Changes \cup Messages /\ c.at = clock /\ ~IsMessage(c)
    BY <1>1, PiConstants DEF Change, Changes, IsMessage
  <1> HIDE DEF c
  <1>3. \A a \in answers : a.at < clock + 1 /\ a.session <= used
    BY <1>1 DEF PiInv, AnswersApart, Answers
  <1>4. \A a, b \in answers : a.at = b.at => a = b
    BY DEF PiInv, AnswersApart
  <1>5. Exists(s) /\ AddEntries(s, <<c>>) /\ used' = used /\ answers' = answers
    BY DEF SwitchModel, c
  <1>6. QED
    BY <1>1, <1>2, <1>3, <1>4, <1>5, OneMore

LEMMA RespondedKeeps ==
  ASSUME PiInv, NEW s \in PiFiles, Respond(s)
  PROVE  PiInv'
  <1> DEFINE es == session[s]
             model == ModelOf(s)
             a == [session |-> s, at |-> clock, model |-> model]
             bs == answers \cup {a}
  <1>1. clock \in Nat /\ used \in Nat /\ answers \in SUBSET Answers /\ es \in Seq(PiEntries)
    BY DEF PiInv, PiTypes
  <1>2. Exists(s) /\ FileFits(es, s, clock, answers)
    BY DEF Respond, PiInv, FilesFit
  <1>3. PICK i \in 2 .. Len(es) : LastChange(es, i) /\ model = es[i].model /\ model \in ModelSet
    <2>1. PICK i \in 2 .. Len(es) :
              /\ LastChange(es, i) /\ (CHOOSE j \in DOMAIN es : LastChange(es, j)) = i
              /\ es[i].model \in ModelSet
      BY <1>2, LastChangeIs
    <2>2. model = es[i].model
      BY <2>1 DEF ModelOf
    <2>3. QED
      BY <2>1, <2>2
  <1>4. PICK named \in BOOLEAN : AddEntries(s, <<Message(IF named THEN model ELSE NoEntry)>>)
    BY DEF Respond
  <1> DEFINE e == Message(IF named THEN model ELSE NoEntry)
  <1>5. used' = used /\ answers' = bs
    BY DEF Respond
  <1> HIDE DEF model
  <1>6. e \in Changes \cup Messages /\ e.at = clock /\ (e.model = model \/ e.model = NoEntry)
    BY <1>1, <1>3 DEF Message, Messages
  <1>7. a \in Answers /\ a.at = clock /\ a.session = s /\ a.model = model /\ bs \in SUBSET Answers
    BY <1>1, <1>3 DEF Answers
  <1>8. s <= used
    <2>1. ~(s > used)
      BY <1>2 DEF PiInv, PiTypes, Exists
    <2>2. QED
      BY <1>1, <2>1, PiConstants
  <1> HIDE DEF a, e
  <1>9. \A b \in bs : b.at < clock + 1 /\ b.session <= used
    BY <1>1, <1>7, <1>8 DEF PiInv, AnswersApart, Answers
  <1>10. \A b, c \in bs : b.at = c.at => b = c
    <2>1. \A b \in answers : b.at # clock
      BY <1>1 DEF PiInv, AnswersApart, Answers
    <2>2. \A b, c \in answers : b.at = c.at => b = c
      BY DEF PiInv, AnswersApart
    <2>3. QED
      BY <1>7, <2>1, <2>2
  <1>11. ModelFits(Append(es, e), Len(es) + 1, a.model)
    <2>1. PICK n \in Nat : n = Len(es)
      BY <1>1
    <2> DEFINE fs == Append(es, e)
    <2>2. fs[n + 1] = e /\ \A j \in 1 .. n : fs[j] = es[j]
      <3>1. e \in PiEntries
        BY <1>6 DEF PiEntries
      <3>2. QED
        BY <1>1, <2>1, <3>1, AppendProperties
    <2> HIDE DEF fs
    <2>3. i \in 2 .. n + 1 - 1 /\ fs[i] = es[i] /\ n + 1 - 1 = n
      BY <2>1, <2>2
    <2>4. IsChange(es[i]) /\ \A j \in i + 1 .. n : ~IsChange(es[j])
      BY <1>3, <2>1 DEF LastChange, IsChange
    <2>5. \A j \in i + 1 .. n : fs[j] = es[j]
      BY <2>1, <2>2
    <2>6. IsChange(fs[i]) /\ fs[i].model = model /\ \A j \in i + 1 .. n : ~IsChange(fs[j])
      BY <1>3, <2>3, <2>4, <2>5
    <2>7. ModelFits(fs, n + 1, model)
      <3>1. PICK m \in Nat : m = n + 1 /\ m - 1 = n
        BY <2>3
      <3>2. fs[m].model = model \/ fs[m].model = NoEntry
        BY <1>6, <2>2, <3>1
      <3>3. i \in 2 .. m - 1 /\ \A j \in i + 1 .. m - 1 : ~IsChange(fs[j])
        BY <2>3, <2>6, <3>1
      <3>4. ModelFits(fs, m, model)
        BY <2>6, <3>2, <3>3, Zenon DEF ModelFits
      <3>5. QED
        BY <3>1, <3>4
    <2>8. QED
      BY <1>7, <2>1, <2>7 DEF fs
  <1>12. AddEntries(s, <<e>>)
    BY <1>4 DEF e
  <1>13. a \in bs /\ answers \subseteq bs
    OBVIOUS
  <1>14. IsMessage(e) => \E b \in bs : b.at = clock /\ b.session = s /\
                             ModelFits(Append(session[s], e), Len(session[s]) + 1, b.model)
    BY <1>7, <1>11, <1>13
  <1> HIDE DEF bs, es
  <1>15. QED
    BY <1>2, <1>5, <1>6, <1>7, <1>9, <1>10, <1>12, <1>13, <1>14, OneMore

LEMMA DeletedKeeps ==
  ASSUME PiInv, NEW s \in PiFiles, Delete(s)
  PROVE  PiInv'
  <1>1. /\ used' = used /\ outside' = outside /\ clock' = clock /\ answers' = answers /\ stored' = stored
        /\ session' = [session EXCEPT ![s] = NoFile]
    BY DEF Delete
  <1>2. NoFile \in Seq(PiEntries)
    BY DEF NoFile
  <1>3. /\ session \in [PiFiles -> Seq(PiEntries)] /\ session' \in [PiFiles -> Seq(PiEntries)]
        /\ session'[s] = NoFile
        /\ \A q \in PiFiles : q # s => session'[q] = session[q]
    BY <1>1, <1>2 DEF PiInv, PiTypes
  <1>4. PiTypes'
    <2>1. \A q \in PiFiles : q > used => session'[q] = NoFile /\ stored[q] = NoEntry
      BY <1>3 DEF PiInv, PiTypes
    <2>2. QED
      BY <1>1, <1>3, <2>1 DEF PiInv, PiTypes
  <1>5. AnswersApart'
    BY <1>1 DEF PiInv, AnswersApart
  <1>6. FilesFit'
    <2> SUFFICES ASSUME NEW q \in PiFiles, session'[q] # NoFile
                 PROVE  /\ FileFits(session'[q], q, clock, answers)
                        /\ session'[q][1].parent # NoEntry /\ session'[session'[q][1].parent] # NoFile =>
                              CopiesFit(session'[q], session'[session'[q][1].parent])
      BY <1>1 DEF FilesFit, Exists
    <2> DEFINE old == session[q]
    <2>1. session'[q] = old /\ old # NoFile
      BY <1>3
    <2>2. /\ FileFits(old, q, clock, answers)
          /\ old[1].parent # NoEntry /\ session[old[1].parent] # NoFile =>
                CopiesFit(old, session[old[1].parent])
      BY <2>1 DEF PiInv, FilesFit, Exists
    <2>3. ASSUME old[1].parent # NoEntry, session'[old[1].parent] # NoFile
          PROVE  session'[old[1].parent] = session[old[1].parent]
      <3>1. old[1].parent \in PiFiles
        BY <2>2, <2>3 DEF FileFits, Headers
      <3>2. QED
        BY <1>3, <2>3, <3>1
    <2>4. QED
      BY <2>1, <2>2, <2>3
  <1>7. Gone \subseteq Gone'
    <2>1. PiTypes
      BY DEF PiInv
    <2>2. \A q \in PiFiles : session[q] = NoFile => session'[q] = NoFile
      BY <1>3
    <2>3. QED
      BY <1>1, <2>1, <2>2, GoneIs
  <1>8. StoredFits'
    <2>1. ASSUME NEW q \in PiFiles
          PROVE  \/ session'[q] = NoFile
                 \/ session[q] = NoFile /\ stored[q] = NoEntry
                 \/ /\ session[q] # NoFile /\ Len(session'[q]) \in Nat
                    /\ \A i \in 1 .. Len(session[q]) :
                           i <= Len(session'[q]) /\ session'[q][i] = session[q][i]
      <3>1. session[q] \in Seq(PiEntries)
        BY <1>3
      <3>2. Len(session[q]) \in Nat
        BY <3>1
      <3>3. CASE q = s
        BY <1>3, <3>3
      <3>4. CASE q # s
        <4>1. session'[q] = session[q]
          BY <1>3, <3>4
        <4>2. QED
          BY <3>2, <4>1
      <3>5. QED
        BY <3>3, <3>4
    <2>2. QED
      BY <1>1, <1>7, <2>1, StoredStays
  <1>9. QED
    BY <1>4, <1>5, <1>6, <1>8 DEF PiInv

----------------------------------------------------------------------------
(* What a report reads of a file.                                             *)

LEMMA StateIs ==
  ASSUME NEW st \in States
  PROVE  /\ st.id \in PiFiles \cup {NoEntry} /\ st.fork \in Forks \cup {NoEntry}
         /\ st.model \in ModelSet \cup {NoEntry} /\ st.rows \in Seq(Rows)
         /\ st = [id |-> st.id, fork |-> st.fork, model |-> st.model, rows |-> st.rows]
  BY DEF States

LEMMA HeaderTaken ==
  ASSUME NEW st \in States, NEW e \in Headers
  PROVE  /\ TakeEntry(st, e) \in States /\ TakeEntry(st, e).id = e.id
         /\ TakeEntry(st, e).fork = IF e.parent = NoEntry THEN st.fork ELSE ForkOf(e)
         /\ TakeEntry(st, e).model = st.model /\ TakeEntry(st, e).rows = st.rows
         /\ e.parent # NoEntry => ForkOf(e) \in Forks
  <1> DEFINE fork == IF e.parent = NoEntry THEN st.fork ELSE ForkOf(e)
  <1>1. e.type = "session" /\ e.id \in PiFiles /\ e.parent \in PiFiles \cup {NoEntry} /\ e.at \in Nat
    BY DEF Headers
  <1>2. e.parent # NoEntry => ForkOf(e) \in Forks
    BY <1>1 DEF ForkOf, Forks
  <1>3. fork \in Forks \cup {NoEntry}
    BY <1>2, StateIs
  <1>4. TakeEntry(st, e) = [st EXCEPT !.id = e.id, !.fork = fork]
    BY <1>1 DEF TakeEntry
  <1> HIDE DEF fork
  <1>5. TakeEntry(st, e) = [id |-> e.id, fork |-> fork, model |-> st.model, rows |-> st.rows]
    BY <1>4 DEF States
  <1>6. QED
    BY <1>1, <1>2, <1>3, <1>5, StateIs DEF States, fork

LEMMA ChangeTaken ==
  ASSUME NEW st \in States, NEW e \in Changes
  PROVE  /\ TakeEntry(st, e) \in States /\ TakeEntry(st, e).id = st.id /\ TakeEntry(st, e).fork = st.fork
         /\ TakeEntry(st, e).model = e.model /\ TakeEntry(st, e).rows = st.rows
  <1>1. e.type = "model_change" /\ e.type # "session" /\ e.model \in ModelSet
    BY DEF Changes
  <1>2. TakeEntry(st, e) = [st EXCEPT !.model = e.model]
    BY <1>1 DEF TakeEntry
  <1>3. TakeEntry(st, e) = [id |-> st.id, fork |-> st.fork, model |-> e.model, rows |-> st.rows]
    BY <1>2 DEF States
  <1>4. QED
    BY <1>1, <1>3, StateIs DEF States

RowOf(st, e) ==
    [id |-> RecordSession(st, e.at), at |-> e.at, model |-> IF e.model = NoEntry THEN st.model ELSE e.model]

LEMMA MessageTakenIs ==
  ASSUME NEW st \in States, NEW e \in Messages
  PROVE  LET new == TakeEntry(st, e)
             id == RecordSession(st, e.at)
         IN /\ new \in States /\ new.id = st.id /\ new.fork = st.fork /\ new.model = st.model
            /\ id \in PiFiles \cup {NoEntry}
            /\ id = NoEntry => new.rows = st.rows
            /\ id # NoEntry => new.rows = Append(st.rows, RowOf(st, e)) /\ RowOf(st, e) \in Rows
  <1> DEFINE new == TakeEntry(st, e)
             id == RecordSession(st, e.at)
             row == RowOf(st, e)
  <1>1. /\ e.type # "session" /\ e.type # "model_change" /\ e.at \in Nat
        /\ e.model \in ModelSet \cup {NoEntry}
    BY DEF Messages
  <1>2. /\ st.id \in PiFiles \cup {NoEntry} /\ st.fork \in Forks \cup {NoEntry}
        /\ st.model \in ModelSet \cup {NoEntry} /\ st.rows \in Seq(Rows)
    BY StateIs
  <1>3. id \in PiFiles \cup {NoEntry}
    BY <1>2 DEF RecordSession, NoFork, Forks
  <1>4. new = IF id = NoEntry THEN st ELSE [st EXCEPT !.rows = Append(st.rows, row)]
    BY <1>1 DEF TakeEntry, RowOf
  <1>5. CASE id = NoEntry
    BY <1>3, <1>4, <1>5
  <1>6. CASE id # NoEntry
    <2>1. row \in Rows
      BY <1>1, <1>2, <1>3, <1>6 DEF RowOf, Rows
    <2> HIDE DEF row, new
    <2>2. Append(st.rows, row) \in Seq(Rows)
      BY <1>2, <2>1
    <2> DEFINE rows == Append(st.rows, row)
    <2> HIDE DEF rows
    <2>3. rows \in Seq(Rows) /\ new = [st EXCEPT !.rows = rows]
      BY <1>4, <1>6, <2>2 DEF rows
    <2>4. new = [id |-> st.id, fork |-> st.fork, model |-> st.model, rows |-> rows]
      BY <2>3 DEF States
    <2>5. /\ new \in States /\ new.id = st.id /\ new.fork = st.fork /\ new.model = st.model
          /\ new.rows = rows
      BY <1>2, <2>3, <2>4 DEF States
    <2>6. QED
      BY <1>3, <1>6, <2>1, <2>5 DEF rows, row, new
  <1>7. QED
    BY <1>5, <1>6

(* Rows: one more that fits.                                                  *)
LEMMA RowsMore ==
  ASSUME NEW st \in States, NEW new \in States, NEW row \in Rows, new.rows = Append(st.rows, row),
         NEW as, NEW gone, RowsFit(st, as, gone), RowFits(row, as, gone)
  PROVE  /\ RowsFit(new, as, gone)
         /\ \A k \in 1 .. Len(st.rows) : k \in 1 .. Len(new.rows) /\ new.rows[k] = st.rows[k]
         /\ \E k \in 1 .. Len(new.rows) : new.rows[k] = row
  <1>1. st.rows \in Seq(Rows)
    BY StateIs
  <1>2. PICK n \in Nat : n = Len(st.rows)
    BY <1>1
  <1>3. Len(new.rows) = n + 1 /\ new.rows[n + 1] = row /\ \A k \in 1 .. n : new.rows[k] = st.rows[k]
    BY <1>1, <1>2, AppendProperties
  <1>4. \A k \in 1 .. n + 1 : k = n + 1 \/ k \in 1 .. n
    OBVIOUS
  <1>5. \A k \in 1 .. n + 1 : RowFits(new.rows[k], as, gone)
    BY <1>2, <1>3, <1>4 DEF RowsFit
  <1>6. RowsFit(new, as, gone)
    BY <1>3, <1>5 DEF RowsFit
  <1>7. n + 1 \in 1 .. n + 1 /\ \A k \in 1 .. n : k \in 1 .. n + 1
    OBVIOUS
  <1>8. QED
    BY <1>2, <1>3, <1>6, <1>7

(* What a report knows of the file that it reads.                             *)
LEMMA FoundIs ==
  ASSUME PiInv, NEW s \in Discovered
  PROVE  /\ s \in PiFiles /\ session[s] # NoFile /\ FileFits(session[s], s, clock, answers)
         /\ s <= used /\ used \in Nat /\ Dependency(s) \in Nat \cup {NoEntry}
         /\ Parent(s) \in PiFiles \cup {NoEntry}
         /\ Parent(s) # NoEntry => Parent(s) < s
         /\ Parent(s) # NoEntry /\ Parent(s) \notin Discovered => Parent(s) \in Gone
         /\ Parent(s) \in Discovered => Dependency(s) \in Nat \ {0}
  <1>1. s \in PiFiles /\ session[s] # NoFile
    BY DEF Discovered, Exists
  <1>2. FileFits(session[s], s, clock, answers)
    BY <1>1 DEF PiInv, FilesFit, Exists
  <1>3. used \in Nat /\ s <= used
    <2>1. ~(s > used)
      BY <1>1 DEF PiInv, PiTypes
    <2>2. QED
      BY <1>1, <2>1, PiConstants DEF PiInv, PiTypes
  <1>4. Parent(s) \in PiFiles \cup {NoEntry} /\ (Parent(s) # NoEntry => Parent(s) < s)
    BY <1>2 DEF FileFits, Headers, Parent
  <1>5. \A p \in PiFiles : session[p] \in Seq(PiEntries) /\ Len(session[p]) \in Nat
    <2>1. \A p \in PiFiles : session[p] \in Seq(PiEntries)
      BY DEF PiInv, PiTypes
    <2>2. QED
      BY <2>1
  <1>6. Dependency(s) \in Nat \cup {NoEntry}
    BY <1>4, <1>5 DEF Dependency
  <1>7. ASSUME Parent(s) # NoEntry, Parent(s) \notin Discovered PROVE Parent(s) \in Gone
    <2>1. Parent(s) \in PiFiles /\ Parent(s) < s
      BY <1>4, <1>7
    <2>2. PICK p \in PiFiles : p = Parent(s) /\ p < s
      BY <2>1
    <2>3. p \in Nat \ {0} /\ s \in Nat
      BY <1>1, PiConstants
    <2>4. p \in 1 .. used
      BY <1>3, <2>2, <2>3
    <2>5. QED
      BY <1>7, <2>2, <2>4 DEF Gone
  <1>8. ASSUME Parent(s) \in Discovered PROVE Dependency(s) \in Nat \ {0}
    <2>1. Parent(s) \in PiFiles /\ Parent(s) \notin outside /\ session[Parent(s)] # NoFile
      BY <1>8 DEF Discovered, Exists
    <2>2. Parent(s) # NoEntry
      BY <2>1, PiConstants
    <2>3. Dependency(s) = Len(session[Parent(s)])
      BY <2>1, <2>2 DEF Dependency
    <2>4. \A es \in Seq(PiEntries) : Len(es) = 0 => es = <<>>
      OBVIOUS
    <2>5. QED
      BY <1>5, <2>1, <2>3, <2>4 DEF NoFile
  <1>9. QED
    BY <1>1, <1>2, <1>3, <1>4, <1>6, <1>7, <1>8

(* An entry more of it that is taken.                                         *)
LEMMA TakeEntryKeeps ==
  ASSUME PiInv, NEW s \in Discovered, NEW i \in 1 .. Len(session[s]), NEW st,
         StateFits(session[s], i - 1, s, st, Dependency(s), answers, Gone)
  PROVE  StateFits(session[s], i, s, TakeEntry(st, session[s][i]), Dependency(s), answers, Gone)
  <1> DEFINE es == session[s]
             e == es[i]
             new == TakeEntry(st, e)
             length == Dependency(s)
             gone == Gone
  <1>1. st \in States /\ RowsFit(st, answers, gone)
    BY DEF StateFits
  <1>2. /\ s \in PiFiles /\ FileFits(es, s, clock, answers)
        /\ es[1].parent \in PiFiles \cup {NoEntry}
        /\ es[1].parent # NoEntry /\ es[1].parent \notin Discovered => es[1].parent \in gone
        /\ es[1].parent \in Discovered => length \in Nat \ {0}
    BY FoundIs DEF Parent
  <1>3. PICK n \in Nat : n = Len(es)
    BY <1>2 DEF FileFits
  <1> HIDE DEF es, length, gone
  <1>4. CASE i = 1
    <2>1. e \in Headers /\ e = es[1] /\ e.id = s
      BY <1>2, <1>4 DEF FileFits
    <2>2. st.fork = NoFork
      BY <1>4 DEF StateFits
    <2>3. /\ new \in States /\ new.id = s /\ new.rows = st.rows
          /\ new.fork = IF e.parent = NoEntry THEN st.fork ELSE ForkOf(e)
          /\ e.parent # NoEntry => ForkOf(e) \in Forks
      BY <1>1, <2>1, HeaderTaken
    <2> HIDE DEF new
    <2>4. RowsFit(new, answers, gone)
      BY <1>1, <2>3 DEF RowsFit
    <2>5. ForkFits(es[1], new.fork, length, gone)
      <3>1. CASE e.parent = NoEntry
        BY <2>1, <2>2, <2>3, <3>1 DEF ForkFits
      <3>2. CASE e.parent # NoEntry
        <4>1. new.fork = ForkOf(e) /\ new.fork # NoFork
          BY <2>3, <3>2, PiConstants DEF NoFork
        <4>2. /\ new.fork.at = e.at /\ new.fork.parent = e.parent
              /\ new.fork.counted = (e.parent \in Discovered)
          BY <4>1 DEF ForkOf
        <4>3. CASE e.parent \in Discovered
          BY <1>2, <2>1, <3>2, <4>1, <4>2, <4>3 DEF ForkFits
        <4>4. CASE e.parent \notin Discovered
          BY <1>2, <2>1, <3>2, <4>1, <4>2, <4>4 DEF ForkFits
        <4>5. QED
          BY <4>3, <4>4
      <3>3. QED
        BY <3>1, <3>2
    <2>6. 2 .. i = {} /\ i > 0 /\ i # 0
      BY <1>4
    <2>7. QED
      BY <2>3, <2>4, <2>5, <2>6 DEF StateFits, es, new, length, gone
  <1>5. CASE i # 1
    <2>1. /\ i \in 2 .. n /\ i - 1 > 0 /\ i > 0 /\ i # 0 /\ i - 1 \in 2 .. i \cup {1}
          /\ \A j \in 2 .. i : j = i \/ j \in 2 .. i - 1
      BY <1>3, <1>5 DEF es
    <2>2. st.id = s /\ ForkFits(es[1], st.fork, length, gone)
      BY <2>1 DEF StateFits, es, length, gone
    <2>3. EntryFits(es, i, s, clock, answers)
      BY <1>2, <1>3, <2>1 DEF FileFits
    <2>4. e \in Changes \/ e \in Messages
      BY <2>3 DEF EntryFits
    <2>5. \A j \in 2 .. i - 1 : IsMessage(es[j]) => MessageTaken(es[j], st)
      BY DEF StateFits, es
    <2>6. \A j \in 2 .. i - 1 : IsChange(es[j]) /\ (\A k \in j + 1 .. i - 1 : ~IsChange(es[k])) =>
              st.model = es[j].model
      BY DEF StateFits, es
    <2>7. CASE e \in Changes
      <3>1. /\ new \in States /\ new.id = st.id /\ new.fork = st.fork /\ new.model = e.model
            /\ new.rows = st.rows
        BY <1>1, <2>7, ChangeTaken
      <3>2. IsChange(e) /\ ~IsMessage(e)
        BY <2>7 DEF Changes, IsChange, IsMessage
      <3>3. e = es[i]
        OBVIOUS
      <3> HIDE DEF new, e
      <3>4. RowsFit(new, answers, gone)
        BY <1>1, <3>1 DEF RowsFit
      <3>5. ASSUME NEW j \in 2 .. i, IsChange(es[j]), \A k \in j + 1 .. i : ~IsChange(es[k])
            PROVE  new.model = es[j].model
        <4>1. j # i => i \in j + 1 .. i
          OBVIOUS
        <4>2. j = i
          BY <3>2, <3>3, <3>5, <4>1
        <4>3. QED
          BY <3>1, <3>3, <4>2
      <3>6. ASSUME NEW j \in 2 .. i, IsMessage(es[j]) PROVE MessageTaken(es[j], new)
        <4>1. j \in 2 .. i - 1
          BY <2>1, <3>2, <3>3, <3>6
        <4>2. QED
          BY <2>5, <3>1, <3>6, <4>1 DEF MessageTaken
      <3>7. StateFits(es, i, s, new, length, answers, gone)
        BY <2>1, <2>2, <3>1, <3>4, <3>5, <3>6 DEF StateFits
      <3>8. QED
        BY <3>7 DEF es, new, e, length, gone
    <2>8. CASE e \in Messages
      <3> DEFINE id == RecordSession(st, e.at)
                 row == RowOf(st, e)
      <3>1. /\ new \in States /\ new.id = st.id /\ new.fork = st.fork /\ new.model = st.model
            /\ id \in PiFiles \cup {NoEntry} /\ (id = NoEntry => new.rows = st.rows)
            /\ id # NoEntry => new.rows = Append(st.rows, row) /\ row \in Rows
        BY <1>1, <2>8, MessageTakenIs
      <3>2. IsMessage(e) /\ ~IsChange(e) /\ e = es[i] /\ e.at \in Nat
        BY <2>8 DEF Messages, IsChange, IsMessage
      <3>3. PICK a \in answers : /\ a.at = e.at /\ ModelFits(es, i, a.model)
                                 /\ e.at >= es[1].at => a.session = s
        BY <2>3, <3>2 DEF EntryFits, Answered
      <3>4. id = NoEntry => st.fork # NoFork /\ st.fork.counted /\ e.at < st.fork.at
        <4>1. s # NoEntry /\ (st.fork # NoFork => st.fork \in Forks)
          BY <1>1, <1>2, StateIs, PiConstants DEF NoFork
        <4>2. st.fork # NoFork => st.fork.at \in Nat /\ st.fork.parent # NoEntry
          BY <4>1, PiConstants DEF Forks
        <4>3. QED
          BY <2>2, <3>2, <4>1, <4>2 DEF RecordSession
      <3>5. id # NoEntry => RowFits(row, answers, gone)
        <4> SUFFICES ASSUME id # NoEntry PROVE RowFits(row, answers, gone)
          OBVIOUS
        <4>1. row.at = a.at /\ row.id = id /\ row.model = IF e.model = NoEntry THEN st.model ELSE e.model
          BY <3>3 DEF RowOf
        <4>2. a.model \in ModelSet /\ a.model # NoEntry
          BY PiConstants DEF PiInv, PiTypes, Answers
        <4>3. row.model = a.model
          <5>1. CASE e.model = a.model
            BY <4>1, <4>2, <5>1
          <5>2. CASE e.model # a.model
            <6>1. e.model = NoEntry /\ \E j \in 2 .. i - 1 :
                      /\ IsChange(es[j]) /\ es[j].model = a.model
                      /\ \A k \in j + 1 .. i - 1 : ~IsChange(es[k])
              BY <3>2, <3>3, <5>2 DEF ModelFits
            <6>2. st.model = a.model
              BY <2>6, <6>1
            <6>3. QED
              BY <4>1, <6>1, <6>2
          <5>3. QED
            BY <5>1, <5>2
        <4>4. id = a.session \/ id \in gone
          <5>1. CASE st.fork = NoFork \/ e.at >= st.fork.at
            <6>1. id = s
              BY <2>2, <5>1 DEF RecordSession
            <6>2. e.at >= es[1].at
              BY <2>2, <2>3, <3>2, <5>1 DEF EntryFits, ForkFits
            <6>3. QED
              BY <3>3, <6>1, <6>2
          <5>2. CASE ~(st.fork = NoFork \/ e.at >= st.fork.at)
            <6>1. ~st.fork.counted /\ id = st.fork.parent
              BY <5>2 DEF RecordSession
            <6>2. QED
              BY <2>2, <5>2, <6>1 DEF ForkFits
          <5>3. QED
            BY <5>1, <5>2
        <4>5. QED
          BY <4>1, <4>3, <4>4 DEF RowFits
      <3> HIDE DEF new, e, id, row
      <3>6. /\ RowsFit(new, answers, gone)
            /\ \A k \in 1 .. Len(st.rows) : k \in 1 .. Len(new.rows) /\ new.rows[k] = st.rows[k]
            /\ id # NoEntry => \E k \in 1 .. Len(new.rows) : new.rows[k] = row
        <4>1. CASE id = NoEntry
          BY <1>1, <3>1, <4>1 DEF RowsFit
        <4>2. CASE id # NoEntry
          BY <1>1, <3>1, <3>5, <4>2, RowsMore
        <4>3. QED
          BY <4>1, <4>2
      <3>7. ASSUME NEW j \in 2 .. i, IsChange(es[j]), \A k \in j + 1 .. i : ~IsChange(es[k])
            PROVE  new.model = es[j].model
        <4>1. j \in 2 .. i - 1
          BY <2>1, <3>2, <3>7
        <4>2. \A k \in j + 1 .. i - 1 : k \in j + 1 .. i
          OBVIOUS
        <4>3. QED
          BY <2>6, <3>1, <3>7, <4>1, <4>2
      <3>8. ASSUME NEW j \in 2 .. i, IsMessage(es[j]) PROVE MessageTaken(es[j], new)
        <4>1. CASE j = i
          <5>1. row.at = e.at
            BY DEF RowOf, row
          <5>2. es[j] = e
            BY <3>2, <4>1
          <5>3. QED
            BY <3>1, <3>4, <3>6, <5>1, <5>2 DEF MessageTaken
        <4>2. CASE j # i
          <5>1. MessageTaken(es[j], st)
            BY <2>1, <2>5, <3>8, <4>2
          <5>2. QED
            BY <3>1, <3>6, <5>1 DEF MessageTaken
        <4>3. QED
          BY <4>1, <4>2
      <3>9. StateFits(es, i, s, new, length, answers, gone)
        BY <2>1, <2>2, <3>1, <3>6, <3>7, <3>8 DEF StateFits
      <3>10. QED
        BY <3>9 DEF es, new, e, length, gone
    <2>9. QED
      BY <2>4, <2>7, <2>8
  <1>6. QED
    BY <1>4, <1>5

LEMMA EntryTyped ==
  ASSUME NEW st \in States, NEW e \in PiEntries
  PROVE  TakeEntry(st, e) \in States
  BY HeaderTaken, ChangeTaken, MessageTakenIs DEF PiEntries

(* What the entries taken so far come to, after each of them.                 *)
ReadsTo(g, n, st, entries) == g[0] = st /\ \A i \in 1 .. n : g[i] = TakeEntry(g[i - 1], entries[i])

LEMMA ReadEntriesIs ==
  ASSUME NEW st \in States, NEW entries \in Seq(PiEntries)
  PROVE  \E g : ReadsTo(g, Len(entries), st, entries) /\ ReadEntries(st, entries) = g[Len(entries)]
  <1>1. PICK n \in Nat : n = Len(entries) /\ \A i \in 1 .. n : entries[i] \in PiEntries
    BY EmptyIs DEF Lists
  <1> DEFINE step == [p \in States \X (1 .. n) |-> TakeEntry(p[1], entries[p[2]])]
  <1>2. step \in [States \X (1 .. n) -> States]
    BY <1>1, EntryTyped
  <1>3. \A x \in States, i \in 1 .. n : step[<<x, i>>] = TakeEntry(x, entries[i])
    OBVIOUS
  <1> HIDE DEF step
  <1>4. PICK g \in [0 .. n -> States] : StepsTo(g, n, st, step)
    BY <1>2, StepsExist
  <1>5. ReadsTo(g, n, st, entries)
    <2>1. \A i \in 1 .. n : i - 1 \in 0 .. n /\ g[i - 1] \in States
      OBVIOUS
    <2>2. QED
      BY <1>3, <1>4, <2>1 DEF StepsTo, ReadsTo
  <1> DEFINE F(h) == [i \in 0 .. n |-> IF i = 0 THEN st ELSE TakeEntry(h[i - 1], entries[i])]
             f == CHOOSE h : h = F(h)
  <1>6. g = F(g)
    <2>1. \A i \in 0 .. n : g[i] = IF i = 0 THEN st ELSE TakeEntry(g[i - 1], entries[i])
      BY <1>5 DEF ReadsTo
    <2>2. QED
      BY <2>1
  <1>7. f = F(f)
    BY <1>6
  <1>8. ReadEntries(st, entries) = f[n]
    BY <1>1 DEF ReadEntries
  <1> HIDE DEF f
  <1>9. ReadsTo(f, n, st, entries)
    <2>1. \A i \in 0 .. n : f[i] = IF i = 0 THEN st ELSE TakeEntry(f[i - 1], entries[i])
      BY <1>7
    <2>2. QED
      BY <2>1 DEF ReadsTo
  <1>10. QED
    BY <1>1, <1>8, <1>9

(* The rest of a file, read after what was read of it.                        *)
LEMMA ReadOn ==
  ASSUME PiInv, NEW s \in Discovered, NEW n \in Nat, NEW m \in Nat, n + m = Len(session[s]), NEW st,
         NEW entries \in Seq(PiEntries), Len(entries) = m, \A k \in 1 .. m : entries[k] = session[s][n + k],
         StateFits(session[s], n, s, st, Dependency(s), answers, Gone)
  PROVE  StateFits(session[s], n + m, s, ReadEntries(st, entries), Dependency(s), answers, Gone)
  <1>1. st \in States
    BY DEF StateFits
  <1>2. PICK g : ReadsTo(g, m, st, entries) /\ ReadEntries(st, entries) = g[m]
    BY <1>1, ReadEntriesIs
  <1> DEFINE K == {k \in 0 .. m : StateFits(session[s], n + k, s, g[k], Dependency(s), answers, Gone)}
  <1>3. 0 \in K
    BY <1>2 DEF ReadsTo
  <1>4. ASSUME NEW k \in 1 .. m, k - 1 \in K PROVE k \in K
    <2>1. PICK i \in 1 .. Len(session[s]) : i = n + k /\ i - 1 = n + (k - 1)
      OBVIOUS
    <2>2. StateFits(session[s], i - 1, s, g[k - 1], Dependency(s), answers, Gone)
      BY <1>4, <2>1
    <2>3. g[k] = TakeEntry(g[k - 1], session[s][i])
      BY <1>2, <2>1 DEF ReadsTo
    <2>4. StateFits(session[s], i, s, TakeEntry(g[k - 1], session[s][i]), Dependency(s), answers, Gone)
      BY <2>2, TakeEntryKeeps
    <2>5. QED
      BY <2>1, <2>3, <2>4
  <1> HIDE DEF K
  <1>5. \A k \in 0 .. m : k \in K
    BY <1>3, <1>4, CountUp
  <1>6. QED
    BY <1>2, <1>5 DEF K

LEMMA RereadKeeps ==
  ASSUME PiInv, NEW s \in Discovered
  PROVE  KeptFits(session[s], s, Reread(s), answers, Gone)
  <1> DEFINE es == session[s]
             old == stored[s]
             from == old.print.size
             grown == old # NoEntry /\ old.print.dependency = Dependency(s)
             rest == SubSeq(es, from + 1, Len(es))
             st == IF grown THEN ReadEntries(old.state, rest) ELSE ReadEntries(FreshState, es)
  <1>1. s \in PiFiles /\ es # NoFile /\ FileFits(es, s, clock, answers) /\ Dependency(s) \in Nat \cup {NoEntry}
    BY FoundIs
  <1>2. es \in Seq(PiEntries) /\ Len(es) \in Nat \ {0}
    BY <1>1 DEF FileFits
  <1>3. StateFits(es, Len(es), s, st, Dependency(s), answers, Gone)
    <2>1. CASE grown
      <3>1. KeptFits(es, s, old, answers, Gone)
        BY <1>1, <2>1 DEF PiInv, StoredFits
      <3>2. /\ from \in 1 .. Len(es)
            /\ StateFits(es, from, s, old.state, Dependency(s), answers, Gone)
        BY <1>1, <2>1, <3>1 DEF KeptFits
      <3>3. PICK m \in Nat : m = Len(es) - from /\ from + m = Len(es)
        BY <1>2, <3>2
      <3>4. /\ rest \in Seq(PiEntries) /\ Len(rest) = m /\ \A k \in 1 .. m : rest[k] = es[from + k]
        <4> DEFINE fs == es
                   f == from
        <4>1. fs \in Lists(PiEntries) /\ f \in 0 .. Len(fs) /\ Len(fs) \in f .. Len(fs) /\ Len(fs) - f = m
          BY <1>2, <3>2, <3>3 DEF Lists
        <4> HIDE DEF fs, f
        <4>2. /\ SubSeq(fs, f + 1, Len(fs)) \in Lists(PiEntries)
              /\ Len(SubSeq(fs, f + 1, Len(fs))) = Len(fs) - f
              /\ \A k \in 1 .. Len(fs) - f : SubSeq(fs, f + 1, Len(fs))[k] = fs[f + k]
          BY <4>1, PartsAre
        <4>3. QED
          BY <4>1, <4>2 DEF fs, f, Lists
      <3> HIDE DEF rest
      <3>5. from \in Nat
        BY <3>2
      <3>6. StateFits(es, from + m, s, ReadEntries(old.state, rest), Dependency(s), answers, Gone)
        BY <3>2, <3>3, <3>4, <3>5, ReadOn
      <3>7. QED
        BY <2>1, <3>3, <3>6
    <2>2. CASE ~grown
      <3>1. FreshState \in States /\ FreshState.fork = NoFork /\ FreshState.rows = <<>>
        BY DEF FreshState, States, NoFork
      <3>2. RowsFit(FreshState, answers, Gone)
        BY <3>1 DEF RowsFit
      <3>3. 2 .. 0 = {} /\ ~(0 > 0)
        OBVIOUS
      <3>4. StateFits(es, 0, s, FreshState, Dependency(s), answers, Gone)
        BY <3>1, <3>2, <3>3 DEF StateFits
      <3>5. PICK m \in Nat : m = Len(es) /\ 0 + m = Len(es) /\ \A k \in 1 .. m : 0 + k = k
        BY <1>2
      <3>6. 0 \in Nat /\ \A k \in 1 .. m : es[k] = es[0 + k]
        BY <3>5
      <3>7. StateFits(es, 0 + m, s, ReadEntries(FreshState, es), Dependency(s), answers, Gone)
        BY <1>2, <3>4, <3>5, <3>6, ReadOn
      <3>8. QED
        BY <2>2, <3>5, <3>7
    <2>3. QED
      BY <2>1, <2>2
  <1>4. Reread(s) = [print |-> PrintOf(s), state |-> st]
    BY DEF Reread
  <1>5. /\ PrintOf(s) \in Prints /\ PrintOf(s).size = Len(es) /\ PrintOf(s).dependency = Dependency(s)
    BY <1>1, <1>2 DEF PrintOf, Prints
  <1> HIDE DEF st, es
  <1>6. st \in States /\ RowsFit(st, answers, Gone) /\ Len(es) \in 1 .. Len(es)
    BY <1>2, <1>3 DEF StateFits
  <1>7. KeptFits(es, s, Reread(s), answers, Gone)
    BY <1>3, <1>4, <1>5, <1>6 DEF KeptFits
  <1>8. QED
    BY <1>7 DEF es

LEMMA ReportedKeeps ==
  ASSUME PiInv, Report
  PROVE  PiInv'
  <1>1. /\ UNCHANGED <<session, used, outside, clock, answers>>
        /\ \A s \in PiFiles : stored'[s] = IF s \in Discovered THEN Reread(s) ELSE stored[s]
    BY DEF Report
  <1>2. PiTypes'
    <2>1. \A s \in PiFiles : session[s] = NoFile => s \notin Discovered
      BY DEF Discovered, Exists
    <2>2. \A s \in PiFiles : s > used => session[s] = NoFile /\ stored'[s] = NoEntry
      BY <1>1, <2>1 DEF PiInv, PiTypes
    <2>3. QED
      BY <1>1, <2>2 DEF PiInv, PiTypes
  <1>3. AnswersApart' /\ FilesFit'
    BY <1>1 DEF PiInv, AnswersApart, FilesFit, Exists
  <1>4. StoredFits'
    <2>1. Gone' = Gone
      BY <1>1 DEF Gone, Discovered, Exists
    <2>2. ASSUME NEW s \in PiFiles, stored'[s] # NoEntry
          PROVE  KeptFits(session[s], s, stored'[s], answers, Gone)
      <3>1. CASE s \in Discovered
        BY <1>1, <3>1, RereadKeeps
      <3>2. CASE s \notin Discovered
        BY <1>1, <2>2, <3>2 DEF PiInv, StoredFits
      <3>3. QED
        BY <3>1, <3>2
    <2>3. QED
      BY <1>1, <2>1, <2>2 DEF StoredFits
  <1>5. QED
    BY <1>2, <1>3, <1>4 DEF PiInv

(***************************************************************************)
(* PiSessions, for any number of sessions and models, any clock, and with  *)
(* any of the sessions outside the roots: each row that is stored of a     *)
(* file is a response, counted for the session that gave it or for one     *)
(* that no report will find again, and no response of a file that was read *)
(* is missing but those that the fork's parent tells of.                   *)
(***************************************************************************)
THEOREM PiInvariant == PiSpec => []PiInv
  <1>1. PiInit => PiInv
    BY PiStarts
  <1>2. ASSUME PiInv, [PiNext]_piVars PROVE PiInv'
    <2>1. CASE Report
      BY <1>2, <2>1, ReportedKeeps
    <2>2. CASE \E s \in PiFiles : NewSession(s) \/ SwitchModel(s) \/ Respond(s) \/ Delete(s)
      BY <1>2, <2>2, BegunKeeps, SwitchedKeeps, RespondedKeeps, DeletedKeeps
    <2>3. CASE \E p, s \in PiFiles : ForkSession(p, s)
      BY <1>2, <2>3, ForkedKeeps
    <2>4. CASE UNCHANGED piVars
      <3>1. /\ session' = session /\ used' = used /\ outside' = outside /\ clock' = clock
            /\ answers' = answers /\ stored' = stored
        BY <2>4 DEF piVars
      <3>2. Gone' = Gone
        BY <3>1 DEF Gone, Discovered, Exists
      <3>3. QED
        BY <1>2, <3>1, <3>2 DEF PiInv, PiTypes, AnswersApart, FilesFit, StoredFits, Exists
    <2>5. QED
      BY <1>2, <2>1, <2>2, <2>3, <2>4 DEF PiNext
  <1>3. QED
    BY <1>1, <1>2, PTL DEF PiSpec

(* The answers in a file that is found are rows, of it or of a file it forks. *)
AnswerIn(es, at) == \E i \in 2 .. Len(es) : IsMessage(es[i]) /\ es[i].at = at

LEMMA AnswerIsReported ==
  ASSUME PiInv, UpToDate, NEW at, NEW s \in Discovered, AnswerIn(session[s], at)
  PROVE  \E row \in Reported : row.at = at
  <1> DEFINE T == {q \in Discovered : AnswerIn(session[q], at)}
  <1>1. T \subseteq Nat /\ T # {}
    BY FoundIs, PiConstants
  <1>2. PICK q \in T : \A p \in T : q <= p
    BY <1>1, LeastNatural
  <1> DEFINE es == session[q]
             st == stored[q].state
  <1>3. /\ q \in PiFiles /\ q \in Discovered /\ es # NoFile /\ FileFits(es, q, clock, answers)
        /\ Parent(q) \in PiFiles \cup {NoEntry} /\ (Parent(q) # NoEntry => Parent(q) < q)
    BY <1>2, FoundIs
  <1>4. /\ stored[q] # NoEntry /\ stored[q].print.size = Len(es)
        /\ stored[q].print.dependency = Dependency(q)
    <2>1. stored[q] # NoEntry /\ stored[q].print = PrintOf(q)
      BY <1>3 DEF UpToDate
    <2>2. PrintOf(q).size = Len(es) /\ PrintOf(q).dependency = Dependency(q)
      BY DEF PrintOf
    <2>3. QED
      BY <2>1, <2>2
  <1>5. KeptFits(es, q, stored[q], answers, Gone)
    BY <1>3, <1>4 DEF PiInv, StoredFits
  <1>6. Len(es) > 0 /\ StateFits(es, Len(es), q, st, Dependency(q), answers, Gone)
    BY <1>3, <1>4, <1>5 DEF KeptFits, FileFits
  <1>7. PICK i \in 2 .. Len(es) : IsMessage(es[i]) /\ es[i].at = at
    BY <1>2 DEF AnswerIn
  <1>8. MessageTaken(es[i], st)
    BY <1>6, <1>7 DEF StateFits
  <1>9. CASE \E k \in 1 .. Len(st.rows) : st.rows[k].at = at
    <2>1. PICK k \in 1 .. Len(st.rows) : st.rows[k].at = at
      BY <1>9
    <2>2. st.rows \in Seq(Rows)
      BY <1>6, StateIs DEF StateFits
    <2>3. st.rows[k] \in ToSet(st.rows)
      BY <2>2 DEF ToSet
    <2>4. st.rows[k] \in Reported
      BY <1>3, <1>4, <2>3 DEF Reported
    <2>5. QED
      BY <2>1, <2>4
  <1>10. CASE st.fork # NoFork /\ st.fork.counted /\ es[i].at < st.fork.at
    <2>1. /\ Parent(q) # NoEntry /\ st.fork.at = es[1].at /\ Dependency(q) \in Nat \ {0}
      BY <1>6, <1>10 DEF StateFits, ForkFits, Parent
    <2>2. PICK p \in PiFiles : p = Parent(q) /\ p < q
      BY <1>3, <2>1
    <2>3. p \notin outside /\ Dependency(q) = Len(session[p])
      BY <2>1, <2>2, PiConstants DEF Dependency
    <2>4. session[p] # NoFile
      <3>1. Len(NoFile) = 0
        BY DEF NoFile
      <3>2. QED
        BY <2>1, <2>3, <3>1
    <2>5. CopiesFit(es, session[p])
      BY <1>3, <2>1, <2>2, <2>4 DEF PiInv, FilesFit, Exists, Parent
    <2>6. p \in T
      BY <1>7, <1>10, <2>1, <2>2, <2>3, <2>4, <2>5 DEF CopiesFit, AnswerIn, Discovered, Exists
    <2>7. q <= p /\ p \in Nat /\ q \in Nat
      BY <1>1, <1>2, <2>6
    <2>8. QED
      BY <2>2, <2>7
  <1>11. QED
    BY <1>7, <1>8, <1>9, <1>10 DEF MessageTaken

LEMMA RowOfAnswer ==
  ASSUME PiInv, NEW a \in answers, NEW row \in Reported, row.at = a.at
  PROVE  row.model = a.model /\ (row.id # a.session => row.id \notin Discovered)
  <1>1. PICK s \in PiFiles : stored[s] # NoEntry /\ row \in ToSet(stored[s].state.rows)
    BY DEF Reported
  <1> DEFINE st == stored[s].state
  <1>2. KeptFits(session[s], s, stored[s], answers, Gone)
    BY <1>1 DEF PiInv, StoredFits
  <1>3. st \in States /\ RowsFit(st, answers, Gone)
    BY <1>2 DEF KeptFits
  <1>4. st.rows \in Seq(Rows)
    BY <1>3, StateIs
  <1>5. PICK k \in 1 .. Len(st.rows) : row = st.rows[k]
    BY <1>1, <1>4 DEF ToSet
  <1>6. RowFits(row, answers, Gone)
    BY <1>3, <1>5 DEF RowsFit
  <1>7. PICK b \in answers : /\ b.at = row.at /\ b.model = row.model
                             /\ row.id = b.session \/ row.id \in Gone
    BY <1>6 DEF RowFits
  <1>8. b = a
    BY <1>7 DEF PiInv, AnswersApart
  <1>9. QED
    BY <1>7, <1>8 DEF Gone

(***************************************************************************)
(* For any sessions and forks: what reports have counted when they are up  *)
(* to date is each response that a file tells of, with its model, and for  *)
(* the session that gave it or one that no report finds: AnswersCountOnce. *)
(***************************************************************************)
THEOREM AnswersAreCountedOnce == PiSpec => []AnswersCountOnce
  <1>1. ASSUME PiInv PROVE AnswersCountOnce
    <2> SUFFICES ASSUME UpToDate, NEW a \in answers
                 PROVE  LET rows == {row \in Reported : row.at = a.at} IN
                        /\ (\E s \in Discovered : \E i \in DOMAIN session[s] :
                               session[s][i].type = "message" /\ session[s][i].at = a.at) => rows # {}
                        /\ \A row \in rows : /\ row.model = a.model
                                             /\ row.id # a.session => row.id \notin Discovered
      BY DEF AnswersCountOnce
    <2>1. ASSUME NEW s \in Discovered, NEW i \in DOMAIN session[s],
                 session[s][i].type = "message", session[s][i].at = a.at
          PROVE  \E row \in Reported : row.at = a.at
      <3>1. FileFits(session[s], s, clock, answers)
        BY <1>1, FoundIs
      <3>2. i \in 1 .. Len(session[s]) /\ i # 1
        BY <2>1, <3>1 DEF FileFits, Headers
      <3>3. i \in 2 .. Len(session[s])
        BY <3>1, <3>2 DEF FileFits
      <3>4. AnswerIn(session[s], a.at)
        BY <2>1, <3>3 DEF AnswerIn, IsMessage
      <3>5. QED
        BY <1>1, <3>4, AnswerIsReported
    <2>2. QED
      BY <1>1, <2>1, RowOfAnswer
  <1>2. QED
    BY <1>1, PiInvariant, PTL

----------------------------------------------------------------------------
(* SourceLogs, for any counts: one request out of the logs of several tools.  *)

Billing == [input : Nat, cached : Nat, written : Nat, output : Nat, thoughts : Nat]

LEMMA CachedApart ==
  ASSUME NEW r \in Billing
  PROVE  r.written = 0 => /\ \A log \in GeminiLogs(r) : ReadGemini(log) = AsBilled(r)
                          /\ \A log \in QwenLogs(r) : ReadQwen(log) = AsBilled(r)
                          /\ \A log \in AntigravityLogs(r) : ReadAntigravity(log) = AsBilled(r)
  <1> SUFFICES ASSUME r.written = 0
               PROVE  /\ \A log \in GeminiLogs(r) : ReadGemini(log) = AsBilled(r)
                      /\ \A log \in QwenLogs(r) : ReadQwen(log) = AsBilled(r)
                      /\ \A log \in AntigravityLogs(r) : ReadAntigravity(log) = AsBilled(r)
    OBVIOUS
  <1>1. r.input \in Nat /\ r.cached \in Nat /\ r.written = 0 /\ r.output \in Nat /\ r.thoughts \in Nat
    BY DEF Billing
  <1>2. \A log \in GeminiLogs(r) : ReadGemini(log) = AsBilled(r)
    BY <1>1 DEF GeminiLogs, ReadGemini, AsBilled, Counted, FreshOf, PromptOf
  <1>3. \A log \in QwenLogs(r) : ReadQwen(log) = AsBilled(r)
    BY <1>1 DEF QwenLogs, ReadQwen, AsBilled, Counted, FreshOf, PromptOf, TokensOf, ThoughtsOutside
  <1>4. \A log \in AntigravityLogs(r) : ReadAntigravity(log) = AsBilled(r)
    BY <1>1 DEF AntigravityLogs, ReadAntigravity, AsBilled, Counted, Absent
  <1>5. QED
    BY <1>2, <1>3, <1>4

LEMMA WrittenApart ==
  ASSUME NEW r \in Billing
  PROVE  /\ \A log \in OpenCodeLogs(r) : ReadOpenCode(log) = AsBilled(r)
         /\ \A log \in OpenClawLogs(r) : ReadOpenClaw(log) = AsBilled(r)
         /\ \A log \in TaskLogs(r) : ReadTask(log) = [AsBilled(r) EXCEPT !.reasoning = 0]
  <1>1. r.input \in Nat /\ r.cached \in Nat /\ r.written \in Nat /\ r.output \in Nat /\ r.thoughts \in Nat
    BY DEF Billing
  <1>2. ASSUME NEW log \in OpenCodeLogs(r) PROVE ReadOpenCode(log) = AsBilled(r)
    <2>1. /\ log.input = r.input /\ log.reasoning = r.thoughts /\ log.read = r.cached /\ log.write = r.written
          /\ \/ log.output = r.output + r.thoughts /\ log.total \in {0, TokensOf(r)} /\ ~log.v2
             \/ log.output = r.output /\ log.total = TokensOf(r) /\ ~log.v2
             \/ log.output = r.output /\ log.v2
      BY DEF OpenCodeLogs, OpenCodeLog
    <2>2. TokensOf(r) = r.input + r.cached + r.written + r.output + r.thoughts
      BY <1>1 DEF TokensOf, PromptOf
    <2>3. log.output + (IF OutputIncludesReasoning(log) THEN 0 ELSE log.reasoning) = r.output + r.thoughts
      BY <1>1, <2>1, <2>2 DEF OutputIncludesReasoning
    <2>4. QED
      BY <2>1, <2>3 DEF ReadOpenCode, AsBilled
  <1>3. \A log \in OpenClawLogs(r) : ReadOpenClaw(log) = AsBilled(r)
    BY <1>1 DEF OpenClawLogs, ReadOpenClaw, AsBilled, Counted, FreshOf, PromptOf, Absent
  <1>4. \A log \in TaskLogs(r) : ReadTask(log) = [AsBilled(r) EXCEPT !.reasoning = 0]
    BY <1>1 DEF TaskLogs, TaskLog, ReadTask, AsBilled, Counted, PromptOf
  <1>5. QED
    BY <1>2, <1>3, <1>4

LEMMA LeftOpen ==
  ASSUME NEW r \in Billing
  PROVE  /\ \A log \in GooseLogs(r) : LET told == ReadGoose(log) IN
                /\ Billable(told) = TokensOf(r) /\ told.output = r.output + r.thoughts
                /\ told.reasoning \in {0, r.thoughts}
         /\ LET told == ReadOpenCode(OldGeminiLog(r)) IN
                Billable(told) <= TokensOf(r) /\ (r.output < r.thoughts => told = AsBilled(r))
         /\ LET told == ReadTask(OldRooLog(r)) IN
                Billable(told) <= TokensOf(r) /\ (r.input < r.cached + r.written => told.input = r.input)
  <1>1. r.input \in Nat /\ r.cached \in Nat /\ r.written \in Nat /\ r.output \in Nat /\ r.thoughts \in Nat
    BY DEF Billing
  <1>2. \A log \in GooseLogs(r) : LET told == ReadGoose(log) IN
            /\ Billable(told) = TokensOf(r) /\ told.output = r.output + r.thoughts
            /\ told.reasoning \in {0, r.thoughts}
    BY <1>1 DEF GooseLogs, ReadGoose, Billable, TokensOf, PromptOf, Counted, FreshOf, Absent
  <1>3. LET told == ReadOpenCode(OldGeminiLog(r)) IN
            Billable(told) <= TokensOf(r) /\ (r.output < r.thoughts => told = AsBilled(r))
    BY <1>1 DEF OldGeminiLog, OpenCodeLog, ReadOpenCode, OutputIncludesReasoning, Billable, TokensOf, PromptOf,
                Counted, AsBilled
  <1>4. LET told == ReadTask(OldRooLog(r)) IN
            Billable(told) <= TokensOf(r) /\ (r.input < r.cached + r.written => told.input = r.input)
    BY <1>1 DEF OldRooLog, TaskLog, ReadTask, Billable, TokensOf, PromptOf, Counted
  <1>5. QED
    BY <1>2, <1>3, <1>4

(* Out of every log that tells a request's buckets they are read the same, for any *)
(* counts (ReadsAlike of UsageCountsOnce).                                        *)
THEOREM LogsAreReadAlike == \A r \in Billing : ReadsAlike(r)
  BY CachedApart, WrittenApart, LeftOpen DEF ReadsAlike

----------------------------------------------------------------------------
(* SourceLogs: the largest update of a message.                               *)

Updates == [id : Nat, total : Nat, at : Nat]
Kept(D) == [D -> Updates]
AllKept == UNION {Kept(D) : D \in SUBSET Nat}
With(held, u) ==
    IF u.id \notin DOMAIN held \/ NewerUpdate(u, held[u.id])
    THEN [k \in DOMAIN held \cup {u.id} |-> IF k = u.id THEN u ELSE held[k]] ELSE held
LargestTo(g, n, lines) == g[0] = <<>> /\ \A i \in 1 .. n : g[i] = With(g[i - 1], lines[i])

LEMMA WithType ==
  ASSUME NEW held \in AllKept, NEW u \in Updates
  PROVE  With(held, u) \in AllKept /\ DOMAIN With(held, u) = DOMAIN held \cup {u.id}
  <1>1. PICK D \in SUBSET Nat : held \in Kept(D)
    BY DEF AllKept
  <1>2. u.id \in Nat /\ DOMAIN held = D
    BY <1>1 DEF Kept, Updates
  <1>3. CASE u.id \notin DOMAIN held \/ NewerUpdate(u, held[u.id])
    <2>1. With(held, u) = [k \in D \cup {u.id} |-> IF k = u.id THEN u ELSE held[k]]
      BY <1>2, <1>3 DEF With
    <2>2. With(held, u) \in Kept(D \cup {u.id})
      BY <1>1, <2>1 DEF Kept
    <2>3. D \cup {u.id} \in SUBSET Nat
      BY <1>2
    <2>4. QED
      BY <1>2, <2>1, <2>2, <2>3 DEF AllKept
  <1>4. CASE ~(u.id \notin DOMAIN held \/ NewerUpdate(u, held[u.id]))
    BY <1>4 DEF With
  <1>5. QED
    BY <1>3, <1>4

LEMMA NoneKept == <<>> \in AllKept /\ DOMAIN <<>> = {}
  <1>1. DOMAIN <<>> = {}
    OBVIOUS
  <1>2. <<>> \in Kept({})
    BY DEF Kept
  <1>3. QED
    BY <1>1, <1>2 DEF AllKept

LEMMA LargestSteps ==
  ASSUME NEW lines \in Lists(Updates), NEW n \in Nat, n = Len(lines)
  PROVE  \E g \in [0 .. n -> AllKept] : LargestTo(g, n, lines) /\ LargestUpdates(lines) = g[n]
  <1>1. \A i \in 1 .. n : lines[i] \in Updates
    BY EmptyIs
  <1> DEFINE Take(r, i) == With(r, lines[i])
             step == [p \in AllKept \X (1 .. n) |-> Take(p[1], p[2])]
  <1>2. \A r \in AllKept, i \in 1 .. n : Take(r, i) \in AllKept
    BY <1>1, WithType
  <1> HIDE DEF Take
  <1>3. step \in [AllKept \X (1 .. n) -> AllKept]
    BY <1>2
  <1>4. \A r \in AllKept, i \in 1 .. n : step[<<r, i>>] = Take(r, i)
    OBVIOUS
  <1> HIDE DEF step
  <1>5. <<>> \in AllKept
    BY NoneKept
  <1>6. PICK g \in [0 .. n -> AllKept] : StepsTo(g, n, <<>>, step)
    BY <1>3, <1>5, StepsExist
  <1>7. g[0] = <<>> /\ \A i \in 1 .. n : g[i] = Take(g[i - 1], i)
    <2>1. \A i \in 1 .. n : i - 1 \in 0 .. n /\ g[i - 1] \in AllKept
      OBVIOUS
    <2>2. QED
      BY <1>4, <1>6, <2>1 DEF StepsTo
  <1> DEFINE F(h) == [i \in 0 .. n |->
                        IF i = 0 THEN <<>>
                        ELSE IF lines[i].id \notin DOMAIN h[i - 1] \/ NewerUpdate(lines[i], h[i - 1][lines[i].id])
                             THEN [k \in DOMAIN h[i - 1] \cup {lines[i].id} |->
                                      IF k = lines[i].id THEN lines[i] ELSE h[i - 1][k]]
                             ELSE h[i - 1]]
             f == CHOOSE h : h = F(h)
  <1>8. \A h : F(h) = [i \in 0 .. n |-> IF i = 0 THEN <<>> ELSE Take(h[i - 1], i)]
    BY DEF Take, With
  <1>9. g = F(g)
    <2>1. \A i \in 0 .. n : g[i] = IF i = 0 THEN <<>> ELSE Take(g[i - 1], i)
      BY <1>7
    <2> HIDE DEF F
    <2>2. QED
      BY <2>1, <1>8
  <1>10. f = F(f)
    BY <1>9
  <1>11. LargestUpdates(lines) = f[n]
    BY DEF LargestUpdates
  <1> HIDE DEF f, F
  <1>12. f[0] = <<>> /\ \A i \in 1 .. n : f[i] = Take(f[i - 1], i)
    <2>1. PICK k : k = f /\ k = F(k)
      BY <1>10
    <2>2. F(k) = [i \in 0 .. n |-> IF i = 0 THEN <<>> ELSE Take(k[i - 1], i)]
      BY <1>8
    <2>3. 0 \in 0 .. n /\ \A i \in 1 .. n : i \in 0 .. n /\ i # 0
      OBVIOUS
    <2>4. k[0] = <<>> /\ \A i \in 1 .. n : k[i] = Take(k[i - 1], i)
      BY <2>1, <2>2, <2>3
    <2>5. QED
      BY <2>1, <2>4
  <1>13. \A i \in 0 .. n : f[i] = g[i]
    <2> DEFINE K == {i \in 0 .. n : f[i] = g[i]}
    <2>1. 0 \in K
      BY <1>7, <1>12
    <2>2. \A i \in 1 .. n : i - 1 \in K => i \in K
      BY <1>7, <1>12
    <2> HIDE DEF K
    <2>3. \A i \in 0 .. n : i \in K
      BY <2>1, <2>2, CountUp
    <2>4. QED
      BY <2>3 DEF K
  <1>14. g[n] = f[n]
    BY <1>13
  <1>15. QED
    BY <1>7, <1>11, <1>14 DEF LargestTo, Take

(* The updates kept of lines: of each message one of its lines, and none of them  *)
(* is newer.                                                                  *)
KeptAre(held, lines, n) ==
    /\ DOMAIN held = {lines[i].id : i \in 1 .. n}
    /\ \A k \in DOMAIN held : \E i \in 1 .. n : held[k] = lines[i] /\ lines[i].id = k
    /\ \A i \in 1 .. n : ~NewerUpdate(lines[i], held[lines[i].id])

LEMMA LargestAre ==
  ASSUME NEW lines \in Lists(Updates)
  PROVE  LargestUpdates(lines) \in AllKept /\ KeptAre(LargestUpdates(lines), lines, Len(lines))
  <1>1. PICK n \in Nat : n = Len(lines)
    BY EmptyIs
  <1>2. PICK g \in [0 .. n -> AllKept] : LargestTo(g, n, lines) /\ LargestUpdates(lines) = g[n]
    BY <1>1, LargestSteps
  <1>3. \A i \in 1 .. n : lines[i] \in Updates
    BY <1>1, EmptyIs
  <1> DEFINE K == {i \in 0 .. n : KeptAre(g[i], lines, i)}
  <1>4. 0 \in K
    <2>1. g[0] = <<>> /\ DOMAIN g[0] = {} /\ 1 .. 0 = {}
      BY <1>2, NoneKept DEF LargestTo
    <2>2. QED
      BY <2>1 DEF KeptAre
  <1>5. ASSUME NEW i \in 1 .. n, i - 1 \in K PROVE i \in K
    <2> DEFINE u == lines[i] old == g[i - 1] new == g[i]
    <2>1. old \in AllKept /\ u \in Updates /\ new = With(old, u) /\ i - 1 \in 0 .. n
      BY <1>2, <1>3 DEF LargestTo
    <2>2. KeptAre(old, lines, i - 1)
      BY <1>5
    <2>3. 1 .. i = 1 .. (i - 1) \cup {i} /\ i \in 0 .. n
      OBVIOUS
    <2>4. \A j \in 1 .. (i - 1) : lines[j] \in Updates
      BY <1>3
    <2>5. DOMAIN new = DOMAIN old \cup {u.id}
      BY <2>1, WithType
    <2>6. DOMAIN new = {lines[j].id : j \in 1 .. i}
      BY <2>2, <2>3, <2>5 DEF KeptAre
    <2>7. \A j \in 1 .. (i - 1) : old[lines[j].id] \in Updates /\ lines[j].id \in DOMAIN old
      <3>1. \A k \in DOMAIN old : old[k] \in Updates
        BY <2>2, <2>4 DEF KeptAre
      <3>2. QED
        BY <2>2, <3>1 DEF KeptAre
    <2>8. \A j \in 1 .. (i - 1) : ~NewerUpdate(lines[j], old[lines[j].id])
      BY <2>2 DEF KeptAre
    <2>9. CASE u.id \notin DOMAIN old \/ NewerUpdate(u, old[u.id])
      <3>1. new = [k \in DOMAIN old \cup {u.id} |-> IF k = u.id THEN u ELSE old[k]]
        BY <2>1, <2>9 DEF With
      <3> HIDE DEF u, old, new
      <3>2. \A k \in DOMAIN new : new[k] = IF k = u.id THEN u ELSE old[k]
        BY <3>1
      <3>3. \A k \in DOMAIN new : \E j \in 1 .. i : new[k] = lines[j] /\ lines[j].id = k
        BY <2>2, <2>3, <2>5, <3>2 DEF KeptAre, u
      <3>4. ~NewerUpdate(u, new[u.id])
        <4>1. new[u.id] = u /\ u.total \in Nat /\ u.at \in Nat
          BY <2>1, <2>5, <3>2 DEF Updates
        <4>2. QED
          BY <4>1 DEF NewerUpdate
      <3>5. ASSUME NEW j \in 1 .. (i - 1) PROVE ~NewerUpdate(lines[j], new[lines[j].id])
        <4>1. CASE lines[j].id # u.id
          BY <4>1, <2>5, <2>7, <2>8, <3>2
        <4>2. CASE lines[j].id = u.id
          <5>1. new[lines[j].id] = u /\ NewerUpdate(u, old[u.id]) /\ ~NewerUpdate(lines[j], old[u.id])
            BY <4>2, <2>5, <2>7, <2>8, <2>9, <3>2
          <5>2. lines[j] \in Updates /\ u \in Updates /\ old[u.id] \in Updates
            BY <2>1, <2>4, <2>7, <4>2
          <5>3. QED
            BY <5>1, <5>2 DEF NewerUpdate, Updates
        <4>3. QED
          BY <4>1, <4>2
      <3>6. \A j \in 1 .. i : ~NewerUpdate(lines[j], new[lines[j].id])
        BY <2>3, <3>4, <3>5 DEF u
      <3>7. KeptAre(new, lines, i)
        BY <2>6, <3>3, <3>6 DEF KeptAre
      <3>8. QED
        BY <2>3, <3>7 DEF new
    <2>10. CASE u.id \in DOMAIN old /\ ~NewerUpdate(u, old[u.id])
      <3>1. new = old
        BY <2>1, <2>10 DEF With
      <3> HIDE DEF old, new
      <3>2. \A j \in 1 .. i : ~NewerUpdate(lines[j], old[lines[j].id])
        BY <2>3, <2>8, <2>10
      <3>3. KeptAre(old, lines, i)
        BY <2>2, <2>3, <2>6, <3>1, <3>2 DEF KeptAre
      <3>4. QED
        BY <2>3, <3>1, <3>3 DEF new
    <2>11. QED
      BY <2>9, <2>10
  <1> HIDE DEF K
  <1>6. \A i \in 0 .. n : i \in K
    BY <1>4, <1>5, CountUp
  <1>7. n \in 0 .. n /\ g[n] \in AllKept
    OBVIOUS
  <1>8. QED
    BY <1>1, <1>2, <1>6, <1>7 DEF K

LEMMA SameFunctions ==
  ASSUME NEW D, NEW T, NEW f \in [D -> T], NEW g \in [D -> T], \A k \in D : f[k] = g[k]
  PROVE  f = g
  OBVIOUS

LEMMA OneIsKept ==
  ASSUME NEW a \in AllKept, NEW b \in AllKept, NEW s \in Lists(Updates), NEW t \in Lists(Updates),
         KeptAre(a, s, Len(s)), KeptAre(b, t, Len(t)),
         \A i \in 1 .. Len(s) : \E j \in 1 .. Len(t) : t[j] = s[i],
         \A j \in 1 .. Len(t) : \E i \in 1 .. Len(s) : t[j] = s[i]
  PROVE  a = b
  <1>1. \A i \in 1 .. Len(s) : s[i] \in Updates
    BY EmptyIs
  <1>2. \A i \in 1 .. Len(t) : t[i] \in Updates
    BY EmptyIs
  <1>3. DOMAIN a = DOMAIN b
    <2>1. DOMAIN a = {s[i].id : i \in 1 .. Len(s)} /\ DOMAIN b = {t[j].id : j \in 1 .. Len(t)}
      BY DEF KeptAre
    <2>2. \A k : k \in DOMAIN a => k \in DOMAIN b
      BY <2>1
    <2>3. \A k : k \in DOMAIN b => k \in DOMAIN a
      BY <2>1
    <2>4. QED
      BY <2>2, <2>3
  <1>4. ASSUME NEW k \in DOMAIN a PROVE a[k] = b[k]
    <2>1. PICK i \in 1 .. Len(s) : a[k] = s[i] /\ s[i].id = k
      BY DEF KeptAre
    <2>2. PICK j \in 1 .. Len(t) : b[k] = t[j] /\ t[j].id = k
      BY <1>3 DEF KeptAre
    <2>3. ~NewerUpdate(s[i], b[k]) /\ ~NewerUpdate(t[j], a[k])
      <3>1. PICK h \in 1 .. Len(t) : t[h] = s[i]
        OBVIOUS
      <3>2. PICK l \in 1 .. Len(s) : t[j] = s[l]
        OBVIOUS
      <3>3. ~NewerUpdate(t[h], b[t[h].id]) /\ ~NewerUpdate(s[l], a[s[l].id])
        BY DEF KeptAre
      <3>4. t[h].id = k /\ s[l].id = k
        BY <2>1, <2>2, <3>1, <3>2
      <3>5. QED
        BY <3>1, <3>2, <3>3, <3>4
    <2>4. a[k] \in Updates /\ b[k] \in Updates /\ a[k].id = b[k].id
      BY <1>1, <1>2, <2>1, <2>2
    <2>5. ~NewerUpdate(a[k], b[k]) /\ ~NewerUpdate(b[k], a[k])
      BY <2>1, <2>2, <2>3
    <2>6. PICK x \in Updates, y \in Updates : x = a[k] /\ y = b[k]
      BY <2>4
    <2>7. x.total \in Nat /\ x.at \in Nat /\ y.total \in Nat /\ y.at \in Nat
      BY DEF Updates
    <2> DEFINE Even(p, q) == ~(p > q) /\ ~(q > p) => p = q
    <2>0. \A p, q \in Nat : Even(p, q)
      OBVIOUS
    <2> HIDE DEF Even
    <2>8. x.total = y.total /\ x.at = y.at
      <3>1. ~NewerUpdate(x, y) /\ ~NewerUpdate(y, x)
        BY <2>5, <2>6
      <3>2. ~(x.total > y.total) /\ ~(y.total > x.total)
        BY <3>1 DEF NewerUpdate
      <3>3. x.total = y.total
        BY <2>0, <2>7, <3>2 DEF Even
      <3>4. ~(x.at > y.at) /\ ~(y.at > x.at)
        BY <3>1, <3>3 DEF NewerUpdate
      <3>5. QED
        BY <2>0, <2>7, <3>3, <3>4 DEF Even
    <2>9. x = y
      <3>1. x.id = y.id
        BY <2>4, <2>6
      <3>2. x = [id |-> x.id, total |-> x.total, at |-> x.at] /\ y = [id |-> y.id, total |-> y.total, at |-> y.at]
        BY DEF Updates
      <3>3. QED
        BY <2>8, <3>1, <3>2
    <2>10. QED
      BY <2>6, <2>9
  <1>5. PICK D \in SUBSET Nat : a \in Kept(D)
    BY DEF AllKept
  <1>6. PICK C \in SUBSET Nat : b \in Kept(C)
    BY DEF AllKept
  <1>7. D = DOMAIN a /\ C = DOMAIN b
    BY <1>5, <1>6 DEF Kept
  <1>8. a \in [D -> Updates] /\ b \in [D -> Updates]
    BY <1>3, <1>5, <1>6, <1>7 DEF Kept
  <1>9. \A k \in D : a[k] = b[k]
    BY <1>4, <1>7
  <1>10. QED
    BY <1>8, <1>9, SameFunctions

LEMMA ReverseIs ==
  ASSUME NEW T, NEW s \in Lists(T)
  PROVE  /\ Reverse(s) \in Lists(T) /\ Len(Reverse(s)) = Len(s) /\ Len(s) \in Nat
         /\ \A i \in 1 .. Len(s) : Reverse(s)[i] = s[(Len(s) - i) + 1] /\ (Len(s) - i) + 1 \in 1 .. Len(s)
  <1>1. PICK n \in Nat : n = Len(s) /\ \A i \in 1 .. n : s[i] \in T
    BY EmptyIs
  <1>2. \A i \in 1 .. n : (n - i) + 1 \in 1 .. n
    OBVIOUS
  <1>3. Reverse(s) = [i \in 1 .. n |-> s[(n - i) + 1]]
    BY <1>1 DEF Reverse
  <1>4. Reverse(s) \in [1 .. n -> T]
    BY <1>1, <1>2, <1>3
  <1>5. Reverse(s) \in Seq(T) /\ Len(Reverse(s)) = n
    BY <1>3, <1>4
  <1>6. QED
    BY <1>1, <1>2, <1>3, <1>5 DEF Lists

(* Which lines repeat a message, and in which order, does not matter.         *)
LEMMA UpdatesDoSettle == \A lines \in Lists(Updates) : UpdatesSettle(lines)
  <1> SUFFICES ASSUME NEW lines \in Lists(Updates) PROVE UpdatesSettle(lines)
    OBVIOUS
  <1> DEFINE back == Reverse(lines) held == LargestUpdates(lines)
  <1>1. PICK n \in Nat : n = Len(lines) /\ n = Len(back) /\ back \in Lists(Updates) /\ DOMAIN lines = 1 .. n
    BY ReverseIs DEF Lists
  <1>2. \A i \in 1 .. n : back[i] = lines[(n - i) + 1] /\ (n - i) + 1 \in 1 .. n
    BY <1>1, ReverseIs
  <1>3. \A i \in 1 .. n : back[(n - i) + 1] = lines[i] /\ (n - i) + 1 \in 1 .. n
    <2>1. ASSUME NEW i \in 1 .. n PROVE back[(n - i) + 1] = lines[i] /\ (n - i) + 1 \in 1 .. n
      <3>1. (n - i) + 1 \in 1 .. n /\ (n - ((n - i) + 1)) + 1 = i
        OBVIOUS
      <3> HIDE DEF back
      <3>2. QED
        BY <1>2, <3>1
    <2>2. QED
      BY <2>1
  <1>4. /\ held \in AllKept /\ KeptAre(held, lines, n)
        /\ LargestUpdates(back) \in AllKept /\ KeptAre(LargestUpdates(back), back, n)
    BY <1>1, LargestAre
  <1> HIDE DEF back, held
  <1>5. held = LargestUpdates(back)
    BY <1>1, <1>2, <1>3, <1>4, OneIsKept
  <1>6. ASSUME NEW i \in 1 .. n PROVE held[lines[i].id].total >= lines[i].total
    <2>1. lines[i] \in Updates /\ ~NewerUpdate(lines[i], held[lines[i].id]) /\ lines[i].id \in DOMAIN held
      BY <1>1, <1>4, EmptyIs DEF KeptAre
    <2>2. held[lines[i].id] \in Updates
      <3>1. PICK j \in 1 .. n : held[lines[i].id] = lines[j]
        BY <1>4, <2>1 DEF KeptAre
      <3>2. QED
        BY <1>1, <3>1, EmptyIs
    <2>3. QED
      BY <2>1, <2>2 DEF NewerUpdate, Updates
  <1>7. QED
    BY <1>1, <1>5, <1>6 DEF UpdatesSettle, back, held

----------------------------------------------------------------------------
(* SourceLogs: what is picked of a list by its positions.                     *)

PickedTo(g, n, s, I) ==
    g[0] = <<>> /\ \A i \in 1 .. n : g[i] = IF i \in I THEN Append(g[i - 1], s[i]) ELSE g[i - 1]

LEMMA PickedSteps ==
  ASSUME NEW E, NEW s \in Lists(E), NEW I, NEW n \in Nat, n = Len(s)
  PROVE  \E g \in [0 .. n -> Lists(E)] : PickedTo(g, n, s, I) /\ Picked(s, I) = g[n]
  <1>1. \A i \in 1 .. n : s[i] \in E
    BY EmptyIs
  <1> DEFINE Take(r, i) == IF i \in I THEN Append(r, s[i]) ELSE r
             step == [p \in Lists(E) \X (1 .. n) |-> Take(p[1], p[2])]
  <1>2. \A r \in Lists(E), i \in 1 .. n : Take(r, i) \in Lists(E)
    <2>1. \A r \in Lists(E), x \in E : Append(r, x) \in Lists(E)
      BY AppendProperties DEF Lists
    <2>2. QED
      BY <1>1, <2>1
  <1> HIDE DEF Take
  <1>3. step \in [Lists(E) \X (1 .. n) -> Lists(E)]
    BY <1>2
  <1>4. \A r \in Lists(E), i \in 1 .. n : step[<<r, i>>] = Take(r, i)
    OBVIOUS
  <1> HIDE DEF step
  <1>5. <<>> \in Lists(E)
    BY EmptySeq DEF Lists
  <1>6. PICK g \in [0 .. n -> Lists(E)] : StepsTo(g, n, <<>>, step)
    BY <1>3, <1>5, StepsExist
  <1>7. g[0] = <<>> /\ \A i \in 1 .. n : g[i] = Take(g[i - 1], i)
    <2>1. \A i \in 1 .. n : i - 1 \in 0 .. n /\ g[i - 1] \in Lists(E)
      OBVIOUS
    <2>2. QED
      BY <1>4, <1>6, <2>1 DEF StepsTo
  <1> DEFINE F(h) == [i \in 0 .. n |-> IF i = 0 THEN <<>>
                                       ELSE IF i \in I THEN Append(h[i - 1], s[i]) ELSE h[i - 1]]
             f == CHOOSE h : h = F(h)
  <1>8. \A h : F(h) = [i \in 0 .. n |-> IF i = 0 THEN <<>> ELSE Take(h[i - 1], i)]
    BY DEF Take
  <1>9. g = F(g)
    <2>1. \A i \in 0 .. n : g[i] = IF i = 0 THEN <<>> ELSE Take(g[i - 1], i)
      BY <1>7
    <2> HIDE DEF F
    <2>2. QED
      BY <2>1, <1>8
  <1>10. f = F(f)
    BY <1>9
  <1>11. Picked(s, I) = f[n]
    BY DEF Picked
  <1> HIDE DEF f, F
  <1>12. f[0] = <<>> /\ \A i \in 1 .. n : f[i] = Take(f[i - 1], i)
    <2>1. PICK k : k = f /\ k = F(k)
      BY <1>10
    <2>2. F(k) = [i \in 0 .. n |-> IF i = 0 THEN <<>> ELSE Take(k[i - 1], i)]
      BY <1>8
    <2>3. 0 \in 0 .. n /\ \A i \in 1 .. n : i \in 0 .. n /\ i # 0
      OBVIOUS
    <2>4. k[0] = <<>> /\ \A i \in 1 .. n : k[i] = Take(k[i - 1], i)
      BY <2>1, <2>2, <2>3
    <2>5. QED
      BY <2>1, <2>4
  <1>13. \A i \in 0 .. n : f[i] = g[i]
    <2> DEFINE K == {i \in 0 .. n : f[i] = g[i]}
    <2>1. 0 \in K
      BY <1>7, <1>12
    <2>2. \A i \in 1 .. n : i - 1 \in K => i \in K
      BY <1>7, <1>12
    <2> HIDE DEF K
    <2>3. \A i \in 0 .. n : i \in K
      BY <2>1, <2>2, CountUp
    <2>4. QED
      BY <2>3 DEF K
  <1>14. g[n] = f[n]
    BY <1>13
  <1>15. QED
    BY <1>7, <1>11, <1>14 DEF PickedTo, Take

LEMMA PickedOfNone ==
  ASSUME NEW E, NEW I
  PROVE  <<>> \in Lists(E) /\ Picked(<<>>, I) = <<>>
  <1>1. <<>> \in Lists(E)
    BY ThenEmpty, EmptySeq DEF Lists
  <1>2. PICK e \in Lists(E) : e = <<>>
    BY <1>1
  <1>3. PICK z \in Nat : z = Len(e)
    BY EmptyIs
  <1>4. PICK h \in [0 .. z -> Lists(E)] : PickedTo(h, z, e, I) /\ Picked(e, I) = h[z]
    BY <1>3, PickedSteps
  <1>5. z = 0
    BY <1>2, <1>3
  <1>6. QED
    BY <1>1, <1>2, <1>4, <1>5 DEF PickedTo

LEMMA PickedGrows ==
  ASSUME NEW E, NEW s \in Lists(E), NEW x \in E, NEW I
  PROVE  /\ Picked(s, I) \in Lists(E)
         /\ Picked(Append(s, x), I) = IF Len(s) + 1 \in I THEN Append(Picked(s, I), x) ELSE Picked(s, I)
  <1> DEFINE t == Append(s, x)
  <1>1. PICK n \in Nat, m \in Nat : n = Len(s) /\ m = n + 1
    BY EmptyIs
  <1>2. t \in Lists(E) /\ Len(t) = m /\ t[m] = x /\ \A i \in 1 .. n : t[i] = s[i]
    BY <1>1, AppendProperties DEF Lists
  <1> HIDE DEF t
  <1>3. PICK g \in [0 .. n -> Lists(E)] : PickedTo(g, n, s, I) /\ Picked(s, I) = g[n]
    BY <1>1, PickedSteps
  <1>4. PICK k \in [0 .. m -> Lists(E)] : PickedTo(k, m, t, I) /\ Picked(t, I) = k[m]
    <2>1. m = Len(t)
      BY <1>2
    <2>2. QED
      BY <1>2, <2>1, PickedSteps
  <1> DEFINE K == {i \in 0 .. n : g[i] = k[i]}
  <1>5. 0 \in K
    BY <1>3, <1>4 DEF PickedTo
  <1>6. ASSUME NEW i \in 1 .. n, i - 1 \in K PROVE i \in K
    <2>1. i \in 1 .. m /\ t[i] = s[i] /\ g[i - 1] = k[i - 1]
      BY <1>1, <1>2, <1>6
    <2>2. g[i] = k[i]
      BY <1>3, <1>4, <2>1 DEF PickedTo
    <2>3. QED
      BY <2>2
  <1> HIDE DEF K
  <1>7. \A i \in 0 .. n : i \in K
    BY <1>5, <1>6, CountUp
  <1>8. g[n] = k[n] /\ g[n] \in Lists(E)
    <2>1. n \in K
      BY <1>7
    <2>2. QED
      BY <2>1 DEF K
  <1>9. k[m] = IF m \in I THEN Append(k[n], x) ELSE k[n]
    <2>1. m \in 1 .. m /\ m - 1 = n
      BY <1>1
    <2>2. QED
      BY <1>2, <1>4, <2>1 DEF PickedTo
  <1>10. QED
    BY <1>1, <1>3, <1>4, <1>8, <1>9 DEF t

(* A list of which nothing is picked leaves what is picked before it; one of  *)
(* which all is picked follows it.                                            *)
LEMMA NoneOfTheRest ==
  ASSUME NEW E, NEW s \in Lists(E), NEW t \in Lists(E), NEW I, \A i \in I : i \in Nat => i <= Len(s)
  PROVE  Picked(Then(s, t), I) = Picked(s, I)
  <1> DEFINE P == {r \in Lists(E) : Picked(Then(s, r), I) = Picked(s, I)}
  <1>1. <<>> \in P
    BY ThenEmpty
  <1>2. ASSUME NEW r \in Lists(E), NEW x \in E, r \in P PROVE Append(r, x) \in P
    <2>1. Then(s, Append(r, x)) = Append(Then(s, r), x) /\ Then(s, r) \in Lists(E)
          /\ Len(Then(s, r)) = Len(s) + Len(r) /\ Len(s) \in Nat /\ Len(r) \in Nat
      BY ThenAppends, ThenType
    <2>2. Append(r, x) \in Lists(E)
      BY AppendProperties DEF Lists
    <2>3. Len(Then(s, r)) + 1 \notin I
      <3>1. PICK n \in Nat, m \in Nat : n = Len(s) /\ m = Len(r)
        BY <2>1
      <3>2. n + m + 1 \in Nat /\ ~(n + m + 1 <= n)
        OBVIOUS
      <3>3. QED
        BY <2>1, <3>1, <3>2
    <2>4. Picked(Append(Then(s, r), x), I) = Picked(Then(s, r), I)
      BY <2>1, <2>3, PickedGrows
    <2>5. QED
      BY <1>2, <2>1, <2>2, <2>4
  <1> HIDE DEF P
  <1>3. t \in P
    BY <1>1, <1>2, GrowUp
  <1>4. QED
    BY <1>3 DEF P

LEMMA NothingPicked ==
  ASSUME NEW E, NEW s \in Lists(E), NEW I, \A i \in 1 .. Len(s) : i \notin I
  PROVE  Picked(s, I) = <<>>
  <1>1. PICK n \in Nat : n = Len(s)
    BY EmptyIs
  <1>2. PICK g \in [0 .. n -> Lists(E)] : PickedTo(g, n, s, I) /\ Picked(s, I) = g[n]
    BY <1>1, PickedSteps
  <1> DEFINE K == {i \in 0 .. n : g[i] = <<>>}
  <1>3. 0 \in K
    BY <1>2 DEF PickedTo
  <1>4. \A i \in 1 .. n : i - 1 \in K => i \in K
    BY <1>1, <1>2 DEF PickedTo
  <1> HIDE DEF K
  <1>5. \A i \in 0 .. n : i \in K
    BY <1>3, <1>4, CountUp
  <1>6. n \in K
    BY <1>5
  <1>7. QED
    BY <1>2, <1>6 DEF K

LEMMA AllOfTheRest ==
  ASSUME NEW E, NEW s \in Lists(E), NEW t \in Lists(E), NEW I,
         \A i \in 1 .. Len(s) : i \notin I, \A i \in 1 .. Len(t) : Len(s) + i \in I
  PROVE  Picked(Then(s, t), I) = t
  <1> DEFINE J == I \cap 1 .. (Len(s) + Len(t))
             P == {r \in Lists(E) : (\A i \in 1 .. Len(r) : Len(s) + i \in I) => Picked(Then(s, r), I) = r}
  <1>1. <<>> \in P
    BY ThenEmpty, NothingPicked
  <1>2. ASSUME NEW r \in Lists(E), NEW x \in E, r \in P PROVE Append(r, x) \in P
    <2>1. PICK n \in Nat, m \in Nat : n = Len(s) /\ m = Len(r)
      BY EmptyIs
    <2>2. /\ Then(s, Append(r, x)) = Append(Then(s, r), x) /\ Then(s, r) \in Lists(E)
          /\ Len(Then(s, r)) = n + m
      BY <2>1, ThenAppends, ThenType
    <2>3. Append(r, x) \in Lists(E) /\ Len(Append(r, x)) = m + 1
      BY <2>1, AppendProperties DEF Lists
    <2>4. ASSUME \A i \in 1 .. Len(Append(r, x)) : Len(s) + i \in I
          PROVE  Picked(Then(s, Append(r, x)), I) = Append(r, x)
      <3>1. \A i \in 1 .. (m + 1) : n + i \in I
        BY <2>1, <2>3, <2>4
      <3>2. n + (m + 1) \in I /\ n + (m + 1) = Len(Then(s, r)) + 1
        BY <2>2, <3>1
      <3>3. Picked(Then(s, r), I) = r
        BY <1>2, <2>1, <3>1
      <3>4. Picked(Append(Then(s, r), x), I) = Append(Picked(Then(s, r), I), x)
        BY <2>2, <3>2, PickedGrows
      <3>5. QED
        BY <2>2, <3>3, <3>4
    <2>5. QED
      BY <2>3, <2>4
  <1> HIDE DEF P
  <1>3. t \in P
    BY <1>1, <1>2, GrowUp
  <1>4. QED
    BY <1>3 DEF P

(* What lists that agree up to a place have picked up to there.               *)
LEMMA SamePicked ==
  ASSUME NEW E, NEW s \in Lists(E), NEW I, NEW J, \A i \in 1 .. Len(s) : i \in I <=> i \in J
  PROVE  Picked(s, I) = Picked(s, J)
  <1>1. PICK n \in Nat : n = Len(s)
    BY EmptyIs
  <1>2. PICK g \in [0 .. n -> Lists(E)] : PickedTo(g, n, s, I) /\ Picked(s, I) = g[n]
    BY <1>1, PickedSteps
  <1>3. PICK h \in [0 .. n -> Lists(E)] : PickedTo(h, n, s, J) /\ Picked(s, J) = h[n]
    BY <1>1, PickedSteps
  <1> DEFINE K == {i \in 0 .. n : g[i] = h[i]}
  <1>4. 0 \in K
    BY <1>2, <1>3 DEF PickedTo
  <1>5. \A i \in 1 .. n : i - 1 \in K => i \in K
    BY <1>1, <1>2, <1>3 DEF PickedTo
  <1> HIDE DEF K
  <1>6. \A i \in 0 .. n : i \in K
    BY <1>4, <1>5, CountUp
  <1>7. n \in K
    BY <1>6
  <1>8. QED
    BY <1>2, <1>3, <1>7 DEF K

(* Picking and then making each into another is the other way round as well.  *)
Maker(M, E, F) == M \in [E -> F]
Made(s, M) == [i \in DOMAIN s |-> M[s[i]]]
LEMMA MadeIs ==
  ASSUME NEW E, NEW F, NEW M, Maker(M, E, F), NEW s \in Lists(E)
  PROVE  /\ Made(s, M) \in Lists(F) /\ Len(Made(s, M)) = Len(s) /\ Made(<<>>, M) = <<>>
         /\ \A i \in 1 .. Len(s) : Made(s, M)[i] = M[s[i]]
         /\ \A x \in E : Made(Append(s, x), M) = Append(Made(s, M), M[x])
  <1>0. M \in [E -> F]
    BY DEF Maker
  <1>1. PICK n \in Nat : n = Len(s) /\ DOMAIN s = 1 .. n /\ \A i \in 1 .. n : s[i] \in E
    BY EmptyIs DEF Lists
  <1>2. Made(s, M) = [i \in 1 .. n |-> M[s[i]]]
    BY <1>1 DEF Made
  <1>3. Made(s, M) \in Lists(F) /\ Len(Made(s, M)) = n /\ \A i \in 1 .. n : Made(s, M)[i] = M[s[i]]
    BY <1>0, <1>1, <1>2 DEF Lists
  <1>4. ASSUME NEW x \in E PROVE Made(Append(s, x), M) = Append(Made(s, M), M[x])
    <2> DEFINE t == Append(s, x) a == Made(s, M) b == Append(a, M[x])
    <2>1. t \in Lists(E) /\ Len(t) = n + 1 /\ t[n + 1] = x /\ \A i \in 1 .. n : t[i] = s[i]
      BY <1>1, AppendProperties DEF Lists
    <2>2. DOMAIN t = 1 .. (n + 1)
      BY <2>1 DEF Lists
    <2> HIDE DEF t, a
    <2>3. Made(t, M) = [i \in 1 .. (n + 1) |-> M[t[i]]]
      BY <2>2 DEF Made
    <2>4. \A i \in 1 .. (n + 1) : M[t[i]] \in F
      BY <1>0, <1>1, <2>1
    <2>5. Made(t, M) \in Seq(F) /\ Len(Made(t, M)) = n + 1
      BY <2>3, <2>4
    <2>6. b \in Seq(F) /\ Len(b) = n + 1 /\ b[n + 1] = M[x] /\ \A i \in 1 .. n : b[i] = a[i]
      <3>1. PICK y \in F : y = M[x]
        BY <1>0
      <3>2. a \in Seq(F) /\ Len(a) = n
        BY <1>3 DEF a, Lists
      <3>3. QED
        BY <3>1, <3>2, AppendProperties
    <2>7. \A i \in 1 .. (n + 1) : Made(t, M)[i] = b[i]
      BY <1>3, <2>1, <2>3, <2>6 DEF a
    <2> HIDE DEF b
    <2>8. Made(t, M) = b
      BY <2>5, <2>6, <2>7, SeqEqual
    <2>9. QED
      BY <2>8 DEF b, a, t
  <1>5. Made(<<>>, M) = <<>>
    BY DEF Made
  <1>6. QED
    BY <1>1, <1>3, <1>4, <1>5

LEMMA MadeOfPicked ==
  ASSUME NEW E, NEW F, NEW M, Maker(M, E, F), NEW s \in Lists(E), NEW I
  PROVE  Picked(Made(s, M), I) = Made(Picked(s, I), M)
  <1> DEFINE P == {r \in Lists(E) : Picked(Made(r, M), I) = Made(Picked(r, I), M)}
  <1>1. <<>> \in P
    BY PickedOfNone, MadeIs
  <1>2. ASSUME NEW r \in Lists(E), NEW x \in E, r \in P PROVE Append(r, x) \in P
    <2>0. \A l \in Lists(E) : Made(Append(l, x), M) = Append(Made(l, M), M[x])
      <3>1. ASSUME NEW l \in Lists(E) PROVE Made(Append(l, x), M) = Append(Made(l, M), M[x])
        <4>1. \A y \in E : Made(Append(l, y), M) = Append(Made(l, M), M[y])
          BY MadeIs
        <4>2. QED
          BY <4>1
      <3>2. QED
        BY <3>1
    <2>1. /\ Made(r, M) \in Lists(F) /\ Len(Made(r, M)) = Len(r) /\ M[x] \in F
          /\ Made(Append(r, x), M) = Append(Made(r, M), M[x])
      <3>1. Made(r, M) \in Lists(F) /\ Len(Made(r, M)) = Len(r)
        BY MadeIs
      <3>2. M[x] \in F
        BY DEF Maker
      <3>3. QED
        BY <2>0, <3>1, <3>2
    <2>2. /\ Picked(r, I) \in Lists(E)
          /\ Picked(Append(r, x), I) = IF Len(r) + 1 \in I THEN Append(Picked(r, I), x) ELSE Picked(r, I)
      BY PickedGrows
    <2>3. Picked(Append(Made(r, M), M[x]), I)
            = IF Len(r) + 1 \in I THEN Append(Picked(Made(r, M), I), M[x]) ELSE Picked(Made(r, M), I)
      <3>1. PICK q \in Lists(F), y \in F : q = Made(r, M) /\ y = M[x]
        BY <2>1
      <3>2. Picked(Append(q, y), I) = IF Len(q) + 1 \in I THEN Append(Picked(q, I), y) ELSE Picked(q, I)
        BY PickedGrows
      <3>3. QED
        BY <2>1, <3>1, <3>2
    <2>4. Made(Append(Picked(r, I), x), M) = Append(Made(Picked(r, I), M), M[x])
      BY <2>0, <2>2
    <2>5. Append(r, x) \in Lists(E)
      BY AppendProperties DEF Lists
    <2>6. Picked(Made(r, M), I) = Made(Picked(r, I), M)
      BY <1>2
    <2>7. Picked(Made(Append(r, x), M), I) = Made(Picked(Append(r, x), I), M)
      BY <2>1, <2>2, <2>3, <2>4, <2>6
    <2>8. QED
      BY <2>5, <2>7
  <1> HIDE DEF P
  <1>3. s \in P
    BY <1>1, <1>2, GrowUp
  <1>4. QED
    BY <1>3 DEF P

----------------------------------------------------------------------------
(* SourceLogs: the steps of a message, and the messages of a thread.          *)

Some(T) == Lists(T) \ {<<>>}

LEMMA StepsAreRequests ==
  ASSUME NEW T, NEW steps \in Lists(Some(T)), NEW i \in 1 .. Len(steps)
  PROVE  RequestsOf(V1Messages(steps)[i]) = steps[i]
  <1>1. PICK s \in Lists(T) : s = steps[i] /\ s # <<>>
    BY EmptyIs DEF Some
  <1>2. DOMAIN steps = 1 .. Len(steps)
    BY DEF Lists
  <1>3. V1Messages(steps)[i] = [id |-> i, last |-> Last(s), parts |-> s]
    BY <1>1, <1>2 DEF V1Messages
  <1>4. PICK l \in Nat \ {0} : l = Len(s) /\ s \in Seq(T)
    BY <1>1, LastIs DEF Lists
  <1>5. CASE l > 1
    BY <1>1, <1>3, <1>4, <1>5 DEF RequestsOf
  <1>6. CASE l = 1
    <2>0. Len(s) = 1 /\ Last(s) = s[1] /\ s \in Seq(T)
      BY <1>4, <1>6 DEF Last
    <2>1. s = <<s[1]>> /\ Last(s) = s[1]
      <3>1. \A x : x = s[1] => Len(<<x>>) = 1 /\ <<x>>[1] = s[1]
        OBVIOUS
      <3>2. s[1] \in T
        BY <2>0
      <3>3. <<s[1]>> \in Seq(T)
        BY <3>2
      <3>4. QED
        BY <2>0, <3>1, <3>3, SeqEqual
    <2>2. QED
      BY <1>1, <1>3, <1>4, <1>6, <2>1 DEF RequestsOf
  <1>7. QED
    BY <1>5, <1>6

LEMMA StepsAreReadOnce ==
  ASSUME NEW T, NEW steps \in Lists(Some(T)), NEW new \in Lists(T), NEW migrated \in BOOLEAN
  PROVE  StepsOnce(steps, migrated, new)
  <1> DEFINE old == V1Messages(steps)
             more == [i \in DOMAIN new |-> [id |-> Len(steps) + i, last |-> new[i], parts |-> <<>>]]
             M == [id : Nat, last : T, parts : Lists(T)]
             db == OpenCodeDb(steps, migrated, new)
             only == OnlyIn(db.v2, db.v1)
  <1>1. PICK k \in Nat, m \in Nat : k = Len(steps) /\ m = Len(new) /\ DOMAIN steps = 1 .. k /\ DOMAIN new = 1 .. m
    BY EmptyIs DEF Lists
  <1>2. \A i \in 1 .. k : steps[i] \in Lists(T) /\ Last(steps[i]) \in T
    <2>1. ASSUME NEW i \in 1 .. k PROVE steps[i] \in Lists(T) /\ Last(steps[i]) \in T
      <3>1. steps[i] \in Some(T)
        BY <1>1, EmptyIs
      <3>2. QED
        BY <3>1, LastIs DEF Some
    <2>2. QED
      BY <2>1
  <1>3. old \in Lists(M) /\ Len(old) = k /\ \A i \in 1 .. k : old[i].id = i
    <2>1. old = [i \in 1 .. k |-> [id |-> i, last |-> Last(steps[i]), parts |-> steps[i]]]
      BY <1>1 DEF V1Messages
    <2>2. \A i \in 1 .. k : [id |-> i, last |-> Last(steps[i]), parts |-> steps[i]] \in M
      BY <1>2
    <2> HIDE DEF M, old
    <2>3. old \in [1 .. k -> M]
      BY <2>1, <2>2
    <2>4. \A i \in 1 .. k : old[i].id = i
      BY <2>1
    <2>5. QED
      BY <2>3, <2>4 DEF Lists
  <1>4. more \in Lists(M) /\ Len(more) = m /\ \A i \in 1 .. m : more[i].id = k + i /\ more[i].last = new[i]
    <2>1. more = [i \in 1 .. m |-> [id |-> k + i, last |-> new[i], parts |-> <<>>]]
      BY <1>1
    <2>2. \A i \in 1 .. m : new[i] \in T
      BY <1>1, EmptyIs
    <2>3. <<>> \in Lists(T)
      BY EmptySeq DEF Lists
    <2>4. \A i \in 1 .. m : [id |-> k + i, last |-> new[i], parts |-> <<>>] \in M
      BY <2>2, <2>3
    <2> HIDE DEF M, more
    <2>5. more \in [1 .. m -> M]
      BY <2>1, <2>4
    <2>6. \A i \in 1 .. m : more[i].id = k + i /\ more[i].last = new[i]
      BY <2>1
    <2>7. QED
      BY <2>5, <2>6 DEF Lists
  <1>5. db.v1 = old /\ db.v2 = IF migrated THEN Then(old, more) ELSE <<>>
    BY DEF OpenCodeDb, Then
  <1> HIDE DEF old, more, M, db
  <1>6. \A i \in 1 .. Len(more) : \A j \in 1 .. Len(old) : old[j].id # more[i].id
    BY <1>3, <1>4
  <1>7. OnlyIn(Then(old, more), old) = more /\ OnlyIn(<<>>, old) = <<>>
    <2> DEFINE both == Then(old, more)
               I == {i \in DOMAIN both : \A j \in DOMAIN old : old[j].id # both[i].id}
    <2>1. /\ both \in Lists(M) /\ Len(both) = k + m
          /\ \A i \in 1 .. k : both[i] = old[i]
          /\ \A i \in 1 .. m : both[k + i] = more[i]
      <3>1. both \in Lists(M) /\ JoinIs(old, more, both, k, m)
        BY <1>1, <1>3, <1>4, ThenAt
      <3> HIDE DEF both
      <3>2. QED
        BY <3>1 DEF JoinIs
    <2> HIDE DEF both
    <2>2. DOMAIN both = 1 .. (k + m) /\ DOMAIN old = 1 .. k
      BY <1>3, <2>1 DEF Lists
    <2>3. \A i \in 1 .. Len(old) : i \notin I
      BY <1>3, <2>1, <2>2
    <2>4. \A i \in 1 .. Len(more) : Len(old) + i \in I
      <3>1. \A i \in 1 .. m : k + i \in 1 .. (k + m)
        BY <1>1
      <3>2. ASSUME NEW i \in 1 .. m PROVE k + i \in I
        <4>1. both[k + i].id = more[i].id
          BY <2>1
        <4>2. \A j \in 1 .. k : old[j].id # both[k + i].id
          BY <1>3, <1>4, <1>6, <4>1
        <4>3. QED
          BY <2>2, <3>1, <4>2
      <3> HIDE DEF I
      <3>3. QED
        BY <1>3, <1>4, <3>2
    <2> HIDE DEF I
    <2>5. Picked(Then(old, more), I) = more
      BY <1>3, <1>4, <2>3, <2>4, AllOfTheRest
    <2>6. OnlyIn(both, old) = Picked(both, I)
      BY DEF OnlyIn, I
    <2>7. OnlyIn(<<>>, old) = <<>>
      <3>1. \A J : Picked(<<>>, J) = <<>>
        BY PickedOfNone
      <3>2. QED
        BY <3>1 DEF OnlyIn
    <2>8. QED
      BY <2>5, <2>6, <2>7 DEF both
  <1>8. only = IF migrated THEN more ELSE <<>>
    BY <1>5, <1>7
  <1> HIDE DEF only
  <1>9. [i \in DOMAIN only |-> only[i].last] = IF migrated THEN new ELSE <<>>
    <2>1. CASE migrated
      <3>1. DOMAIN more = 1 .. m
        BY <1>4 DEF Lists
      <3>2. [i \in DOMAIN more |-> more[i].last] = [i \in 1 .. m |-> new[i]]
        BY <1>4, <3>1
      <3>3. new = [i \in 1 .. m |-> new[i]]
        BY <1>1 DEF Lists
      <3>4. QED
        BY <1>8, <2>1, <3>2, <3>3
    <2>2. CASE ~migrated
      BY <1>8, <2>2
    <2>3. QED
      BY <2>1, <2>2
  <1>10. [i \in DOMAIN old |-> RequestsOf(old[i])] = steps
    <2>1. DOMAIN old = 1 .. k
      BY <1>3 DEF Lists
    <2>2. \A i \in 1 .. k : RequestsOf(old[i]) = steps[i]
      BY <1>1, StepsAreRequests DEF old
    <2>3. steps = [i \in 1 .. k |-> steps[i]]
      BY <1>1 DEF Lists
    <2>4. QED
      BY <2>1, <2>2, <2>3
  <1>11. OpenCodeRequests(db)
           = FlattenSeq([i \in DOMAIN old |-> RequestsOf(old[i])]) \o [i \in DOMAIN only |-> only[i].last]
    BY <1>5 DEF OpenCodeRequests, only
  <1>12. QED
    BY <1>9, <1>10, <1>11 DEF StepsOnce, db
(* Each of what is picked has its place, and what was picked before it are    *)
(* those at the places before.                                                *)
PlacesUpTo(p, s, I, m) ==
    /\ \A j \in 1 .. Len(p) : \E i \in 1 .. m : /\ i \in I /\ p[j] = s[i]
                                            /\ \A h \in 1 .. i - 1 : h \in I => \E k \in 1 .. j - 1 : p[k] = s[h]
    /\ \A h \in 1 .. m : h \in I => \E k \in 1 .. Len(p) : p[k] = s[h]

LEMMA PickedAre ==
  ASSUME NEW E, NEW s \in Lists(E), NEW I
  PROVE  PlacesUpTo(Picked(s, I), s, I, Len(s)) /\ Picked(s, I) \in Lists(E)
  <1>1. PICK n \in Nat : n = Len(s) /\ \A i \in 1 .. n : s[i] \in E
    BY EmptyIs
  <1>2. PICK g \in [0 .. n -> Lists(E)] : PickedTo(g, n, s, I) /\ Picked(s, I) = g[n]
    BY <1>1, PickedSteps
  <1> DEFINE K == {i \in 0 .. n : PlacesUpTo(g[i], s, I, i)}
  <1>3. 0 \in K
    <2>1. g[0] = <<>> /\ Len(<<>>) = 0 /\ 1 .. 0 = {}
      BY <1>2 DEF PickedTo
    <2>2. QED
      BY <2>1 DEF PlacesUpTo
  <1>4. ASSUME NEW i \in 1 .. n, i - 1 \in K PROVE i \in K
    <2>1. PICK p \in Lists(E), q \in Lists(E) : p = g[i - 1] /\ q = g[i]
      BY <1>1
    <2>2. PlacesUpTo(p, s, I, i - 1)
      BY <1>4, <2>1
    <2>3. PICK l \in Nat : l = Len(p)
      BY EmptyIs
    <2>4. 1 .. i = 1 .. (i - 1) \cup {i} /\ i \in 0 .. n /\ i \in Nat
      BY <1>1
    <2>5. CASE i \notin I
      <3>1. q = p
        BY <1>2, <2>1, <2>5 DEF PickedTo
      <3>2. PlacesUpTo(p, s, I, i)
        BY <2>2, <2>4, <2>5 DEF PlacesUpTo
      <3>3. QED
        BY <2>1, <2>4, <3>1, <3>2
    <2>6. CASE i \in I
      <3>1. q = Append(p, s[i]) /\ s[i] \in E
        BY <1>1, <1>2, <2>1, <2>6 DEF PickedTo
      <3>2. Len(q) = l + 1 /\ q[l + 1] = s[i] /\ \A j \in 1 .. l : q[j] = p[j]
        BY <2>3, <3>1, AppendProperties DEF Lists
      <3>3. \A j \in 1 .. (l + 1) : j # l + 1 => j \in 1 .. l
        BY <2>3
      <3>4. \A j \in 1 .. (l + 1) : \A k \in 1 .. (j - 1) : k \in 1 .. l
        BY <2>3
      <3>5. \A h \in 1 .. i : h \in I => \E k \in 1 .. Len(q) : q[k] = s[h]
        <4>1. \A h \in 1 .. (i - 1) : h \in I => \E k \in 1 .. l : p[k] = s[h]
          BY <2>2, <2>3 DEF PlacesUpTo
        <4>2. \A k \in 1 .. l : k \in 1 .. (l + 1)
          BY <2>3
        <4>3. l + 1 \in 1 .. (l + 1)
          BY <2>3
        <4>4. QED
          BY <2>4, <3>2, <4>1, <4>2, <4>3
      <3>6. ASSUME NEW j \in 1 .. Len(q)
            PROVE  \E a \in 1 .. i : /\ a \in I /\ q[j] = s[a]
                                    /\ \A h \in 1 .. a - 1 : h \in I => \E k \in 1 .. j - 1 : q[k] = s[h]
        <4>1. CASE j = l + 1
          <5>1. \A h \in 1 .. (i - 1) : h \in I => \E k \in 1 .. l : q[k] = s[h]
            BY <2>2, <2>3, <3>2 DEF PlacesUpTo
          <5>2. j - 1 = l /\ i \in 1 .. i
            BY <2>3, <4>1
          <5>3. QED
            BY <2>6, <3>2, <4>1, <5>1, <5>2
        <4>2. CASE j # l + 1
          <5>1. j \in 1 .. l
            BY <3>2, <3>3, <4>2
          <5>2. PICK a \in 1 .. (i - 1) : /\ a \in I /\ p[j] = s[a]
                                       /\ \A h \in 1 .. a - 1 : h \in I => \E k \in 1 .. j - 1 : p[k] = s[h]
            BY <2>2, <2>3, <5>1 DEF PlacesUpTo
          <5>3. \A h \in 1 .. a - 1 : h \in I => \E k \in 1 .. j - 1 : q[k] = s[h]
            BY <3>2, <3>4, <5>2
          <5>4. a \in 1 .. i
            BY <2>4
          <5>5. QED
            BY <3>2, <5>1, <5>2, <5>3, <5>4
        <4>3. QED
          BY <4>1, <4>2
      <3>7. PlacesUpTo(q, s, I, i)
        BY <3>5, <3>6 DEF PlacesUpTo
      <3>8. QED
        BY <2>1, <2>4, <3>7
    <2>7. QED
      BY <2>5, <2>6
  <1> HIDE DEF K
  <1>5. \A i \in 0 .. n : i \in K
    BY <1>3, <1>4, CountUp
  <1>6. n \in K /\ g[n] \in Lists(E)
    BY <1>5
  <1>7. QED
    BY <1>1, <1>2, <1>6 DEF K

Threaded == [id : Nat \ {NoId}, assistant : BOOLEAN, tokens : Nat, cache : Nat]
AsEvent == [x \in Threaded |-> [id |-> x.id, to |-> x.id, tokens |-> x.tokens]]
LedgerEvents == [id : Nat \ {NoId}, to : Nat \ {NoId}, tokens : Nat]

(* The events of a ledger that a thread counts are the ones of the messages   *)
(* it would count without one.                                                *)
LEMMA LedgerTellsMessages ==
  ASSUME NEW a \in Lists(Threaded), NEW rest \in Lists(LedgerEvents),
         \A i \in 1 .. Len(rest) : \E j \in 1 .. Len(a) : rest[i].id = a[j].id
  PROVE  FirstOfIds(Then(Made(a, AsEvent), rest)) = Made(FirstOfIds(a), AsEvent)
  <1> DEFINE made == Made(a, AsEvent) all == Then(made, rest)
             First(s) == {i \in DOMAIN s : s[i].id # NoId => \A h \in 1 .. i - 1 : s[h].id # s[i].id}
             I == First(all)
  <1>1. Maker(AsEvent, Threaded, LedgerEvents)
    BY DEF Maker, AsEvent, Threaded, LedgerEvents
  <1>2. PICK n \in Nat, m \in Nat : n = Len(a) /\ m = Len(rest)
    BY EmptyIs
  <1>3. made \in Lists(LedgerEvents) /\ Len(made) = n /\ \A i \in 1 .. n : made[i] = AsEvent[a[i]]
    BY <1>1, <1>2, MadeIs
  <1>4. \A i \in 1 .. n : made[i].id = a[i].id /\ a[i].id # NoId
    <2>1. \A i \in 1 .. n : a[i] \in Threaded
      BY <1>2, EmptyIs
    <2>2. \A x \in Threaded : AsEvent[x].id = x.id /\ x.id # NoId
      BY DEF AsEvent, Threaded
    <2>3. QED
      BY <1>3, <2>1, <2>2
  <1> HIDE DEF made
  <1>5. /\ all \in Lists(LedgerEvents) /\ Len(all) = n + m
        /\ \A i \in 1 .. n : all[i] = made[i]
        /\ \A i \in 1 .. m : all[n + i] = rest[i]
    <2>1. all \in Lists(LedgerEvents) /\ JoinIs(made, rest, all, n, m)
      BY <1>2, <1>3, ThenAt
    <2> HIDE DEF all
    <2>2. QED
      BY <2>1 DEF JoinIs
  <1> HIDE DEF all
  <1>6. DOMAIN all = 1 .. (n + m) /\ DOMAIN a = 1 .. n
    BY <1>2, <1>5 DEF Lists
  <1>7. \A i \in I : i \in Nat => i <= n
    <2>1. ASSUME NEW i \in I, ~(i <= n) PROVE FALSE
      <3>1. i \in 1 .. (n + m) /\ i - n \in 1 .. m /\ i = n + (i - n)
        BY <1>6, <2>1
      <3>2. all[i] = rest[i - n] /\ rest[i - n] \in LedgerEvents
        <4>1. PICK k \in 1 .. m : k = i - n /\ i = n + k
          BY <3>1
        <4>2. QED
          BY <1>2, <1>5, <4>1, EmptyIs
      <3>3. all[i].id # NoId
        BY <3>2 DEF LedgerEvents
      <3>4. PICK j \in 1 .. n : all[i].id = a[j].id
        BY <1>2, <3>1, <3>2
      <3>5. j \in 1 .. i - 1 /\ all[j].id = all[i].id
        BY <1>4, <1>5, <2>1, <3>1, <3>4
      <3>6. QED
        BY <3>3, <3>5
    <2>2. QED
      BY <2>1
  <1>8. \A i \in 1 .. n : i \in I <=> i \in First(a)
    <2>1. ASSUME NEW i \in 1 .. n PROVE i \in I <=> i \in First(a)
      <3>1. i \in 1 .. (n + m) /\ \A h \in 1 .. i - 1 : h \in 1 .. n
        OBVIOUS
      <3>2. all[i].id = a[i].id /\ \A h \in 1 .. i - 1 : all[h].id = a[h].id
        BY <1>4, <1>5, <3>1
      <3>3. QED
        BY <1>6, <3>1, <3>2
    <2>2. QED
      BY <2>1
  <1>9. FirstOfIds(all) = Picked(all, I) /\ FirstOfIds(a) = Picked(a, First(a))
    BY DEF FirstOfIds
  <1> HIDE DEF First, I
  <1>10. Picked(all, I) = Picked(made, I)
    BY <1>3, <1>7, NoneOfTheRest DEF all
  <1>11. Picked(made, I) = Made(Picked(a, I), AsEvent)
    BY <1>1, MadeOfPicked DEF made
  <1>12. Picked(a, I) = Picked(a, First(a))
    BY <1>2, <1>8, SamePicked
  <1>13. QED
    BY <1>9, <1>10, <1>11, <1>12 DEF all, made

(* A message that is the first assistant's of its id states that id's cache.  *)
LEMMA CacheOfFirst ==
  ASSUME NEW messages \in Lists(Threaded), NEW held, held = FirstOfIds(AssistantsOf(messages))
  PROVE  held \in Lists(Threaded) /\ \A j \in 1 .. Len(held) : CacheOf(messages, held[j].id) = held[j].cache
  <1> DEFINE A == {i \in DOMAIN messages : messages[i].assistant}
             a == AssistantsOf(messages)
             F == {i \in DOMAIN a : a[i].id # NoId => \A h \in 1 .. i - 1 : a[h].id # a[i].id}
  <1>1. PICK n \in Nat : n = Len(messages) /\ DOMAIN messages = 1 .. n
    BY EmptyIs DEF Lists
  <1>2. a = Picked(messages, A) /\ held = Picked(a, F)
    BY DEF AssistantsOf, FirstOfIds
  <1> HIDE DEF A, a, F
  <1>3. a \in Lists(Threaded) /\ PlacesUpTo(a, messages, A, n)
    BY <1>1, <1>2, PickedAre
  <1>4. PICK m \in Nat : m = Len(a) /\ DOMAIN a = 1 .. m
    BY <1>3, EmptyIs DEF Lists
  <1>5. held \in Lists(Threaded) /\ PlacesUpTo(held, a, F, m)
    BY <1>2, <1>3, <1>4, PickedAre
  <1>6. ASSUME NEW j \in 1 .. Len(held) PROVE CacheOf(messages, held[j].id) = held[j].cache
    <2>1. PICK i \in 1 .. m : i \in F /\ held[j] = a[i]
      BY <1>5 DEF PlacesUpTo
    <2>2. PICK q \in 1 .. n : /\ q \in A /\ a[i] = messages[q]
                             /\ \A h \in 1 .. q - 1 : h \in A => \E k \in 1 .. i - 1 : a[k] = messages[h]
      BY <1>3, <1>4 DEF PlacesUpTo
    <2> DEFINE id == held[j].id
               own == {h \in DOMAIN messages : messages[h].assistant /\ messages[h].id = id /\ id # NoId}
    <2>3. id = messages[q].id /\ id # NoId /\ messages[q].assistant
      <3>1. messages[q] \in Threaded
        BY <1>1, EmptyIs
      <3>2. QED
        BY <2>1, <2>2, <3>1 DEF Threaded, A
    <2>4. q \in own
      BY <1>1, <2>3
    <2>5. ASSUME NEW h \in own, h < q PROVE FALSE
      <3>1. h \in 1 .. q - 1 /\ h \in A /\ messages[h].id = id
        BY <1>1, <2>5 DEF A
      <3>2. PICK k \in 1 .. i - 1 : a[k] = messages[h]
        BY <2>2, <3>1
      <3>3. a[i].id = id /\ a[k].id = id
        BY <2>1, <3>1, <3>2
      <3>4. QED
        BY <2>1, <2>3, <3>3 DEF F
    <2>6. own \subseteq Nat
      BY <1>1
    <2> HIDE DEF own
    <2>7. Min(own) = q
      <3>1. \A h \in own : q <= h
        BY <2>4, <2>5, <2>6
      <3>2. \A x \in own : (\A h \in own : x <= h) => x = q
        BY <2>4, <2>6, <3>1
      <3>3. QED
        BY <2>4, <3>1, <3>2 DEF Min
    <2>8. CacheOf(messages, id) = messages[Min(own)].cache
      BY <2>4 DEF CacheOf, own
    <2>9. QED
      BY <2>1, <2>2, <2>7, <2>8
  <1>7. QED
    BY <1>5, <1>6

LEMMA ThreadsAreReadAlike ==
  ASSUME NEW messages \in Lists(Threaded), NEW again
  PROVE  ThreadAlike(messages, again)
  <1> DEFINE a == AssistantsOf(messages)
             event == [i \in DOMAIN a |-> [id |-> a[i].id, to |-> a[i].id, tokens |-> a[i].tokens]]
             twice == {i \in DOMAIN event : event[i].id \in again}
             rest == Picked(event, twice)
             held == FirstOfIds(a)
             told == Made(held, AsEvent)
  <1>1. Maker(AsEvent, Threaded, LedgerEvents)
    BY DEF Maker, AsEvent, Threaded, LedgerEvents
  <1>2. a \in Lists(Threaded)
    BY PickedAre DEF AssistantsOf
  <1>3. event = Made(a, AsEvent)
    <2>1. \A i \in DOMAIN a : a[i] \in Threaded
      BY <1>2, EmptyIs DEF Lists
    <2> HIDE DEF a
    <2>2. \A x \in Threaded : AsEvent[x] = [id |-> x.id, to |-> x.id, tokens |-> x.tokens]
      BY DEF AsEvent
    <2>3. \A i \in DOMAIN a : AsEvent[a[i]] = [id |-> a[i].id, to |-> a[i].id, tokens |-> a[i].tokens]
      BY <2>1, <2>2
    <2>4. QED
      BY <2>3 DEF Made
  <1>4. AmpLedger(messages, again) = Then(event, rest)
    BY DEF AmpLedger, Then
  <1> HIDE DEF a, event, twice, rest, held
  <1>5. PICK n \in Nat : n = Len(a) /\ n = Len(event) /\ event \in Lists(LedgerEvents)
    BY <1>1, <1>2, <1>3, MadeIs, EmptyIs
  <1>6. rest \in Lists(LedgerEvents) /\ PlacesUpTo(rest, event, twice, n)
    BY <1>5, PickedAre DEF rest
  <1>7. \A i \in 1 .. Len(rest) : \E j \in 1 .. Len(a) : rest[i].id = a[j].id
    <2>1. \A j \in 1 .. n : event[j].id = a[j].id
      BY <1>2, <1>5, EmptyIs DEF event, Lists
    <2>2. ASSUME NEW i \in 1 .. Len(rest) PROVE \E j \in 1 .. Len(a) : rest[i].id = a[j].id
      <3>1. PICK j \in 1 .. n : rest[i] = event[j]
        BY <1>6 DEF PlacesUpTo
      <3>2. rest[i].id = a[j].id
        BY <2>1, <3>1
      <3>3. QED
        BY <1>5, <3>2
    <2>3. QED
      BY <2>2
  <1>8. FirstOfIds(Then(event, rest)) = told
    BY <1>2, <1>3, <1>6, <1>7, LedgerTellsMessages DEF held
  <1>9. held \in Lists(Threaded) /\ \A j \in 1 .. Len(held) : CacheOf(messages, held[j].id) = held[j].cache
    BY CacheOfFirst DEF held, a
  <1> DEFINE byLedger == AmpThread([messages |-> messages, ledger |-> AmpLedger(messages, again)])
             byMessages == AmpThread([messages |-> messages, ledger |-> <<>>])
  <1>10. byMessages = [i \in DOMAIN held |-> [tokens |-> held[i].tokens, cache |-> held[i].cache]]
    BY DEF AmpThread, held, a
  <1>11. byLedger = byMessages
    <2>1. CASE AmpLedger(messages, again) = <<>>
      BY <2>1
    <2>2. CASE AmpLedger(messages, again) # <<>>
      <3>1. byLedger = [i \in DOMAIN told |-> [tokens |-> told[i].tokens, cache |-> CacheOf(messages, told[i].to)]]
        BY <1>4, <1>8, <2>2 DEF AmpThread
      <3>2. DOMAIN held = 1 .. Len(held) /\ DOMAIN told = DOMAIN held
        BY <1>9 DEF Made, Lists
      <3>3. \A i \in DOMAIN held : told[i].tokens = held[i].tokens /\ told[i].to = held[i].id
        <4>1. \A i \in DOMAIN held : held[i] \in Threaded /\ told[i] = AsEvent[held[i]]
          BY <1>9, <3>2, EmptyIs DEF Made
        <4>2. \A x \in Threaded : AsEvent[x].tokens = x.tokens /\ AsEvent[x].to = x.id
          BY DEF AsEvent
        <4>3. QED
          BY <4>1, <4>2
      <3> HIDE DEF told
      <3>4. QED
        BY <1>9, <1>10, <3>1, <3>2, <3>3
    <2>3. QED
      BY <2>1, <2>2
  <1>12. QED
    BY <1>11 DEF ThreadAlike

(* A log that repeats a message counts it once: of updates the largest, of a  *)
(* thread's ledger as of its messages, and a message's steps whether or not   *)
(* its database was migrated (UpdatesSettle, ThreadAlike and StepsOnce of     *)
(* UsageCountsOnce).                                                          *)
THEOREM RepeatedLogsCountOnce ==
  /\ \A lines \in Lists(Updates) : UpdatesSettle(lines)
  /\ \A again : \A messages \in Lists(Threaded) : ThreadAlike(messages, again)
  /\ \A T : \A migrated \in BOOLEAN : \A steps \in Lists(Some(T)), new \in Lists(T) : StepsOnce(steps, migrated, new)
  <1>1. \A lines \in Lists(Updates) : UpdatesSettle(lines)
    BY UpdatesDoSettle
  <1>2. \A again : \A messages \in Lists(Threaded) : ThreadAlike(messages, again)
    BY ThreadsAreReadAlike
  <1>3. \A T : \A migrated \in BOOLEAN : \A steps \in Lists(Some(T)), new \in Lists(T) : StepsOnce(steps, migrated, new)
    BY StepsAreReadOnce
  <1>4. QED
    BY <1>1, <1>2, <1>3
================================================================================
