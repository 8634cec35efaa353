----------------------------- MODULE IngestProofs -----------------------------
(* For any number of runs and any lines: what the ledger holds under a file's *)
(* fingerprint is the parse of the file, and a cursor continues the rows it   *)
(* is stored with.                                                            *)
EXTENDS Ingest, ListLemmas, TLAPS

(* Rows that differ in no more than the parent they were parsed with.         *)
Same(x, y) == x.first = y.first /\ x.last = y.last
Alike(xs, ys) == Len(xs) = Len(ys) /\ \A i \in 1..Len(xs) : Same(xs[i], ys[i])

(* The rows xs are alike to the rows ys with the rows zs after them.          *)
Continues(xs, ys, zs) ==
    /\ Len(xs) = Len(ys) + Len(zs)
    /\ \A i \in 1..Len(ys) : Same(xs[i], ys[i])
    /\ \A i \in 1..Len(zs) : Same(xs[Len(ys) + i], zs[i])

(* The parents the rows were parsed with.                                     *)
Saw(xs, lo, hi) == \A i \in 1..Len(xs) : xs[i].parent \in lo..hi

----------------------------------------------------------------------------
(* Adding a line.                                                             *)

LEMMA AddLineJoins ==
  ASSUME NEW xs \in Seq(Rows), NEW l \in Joining, l \in Lines, NEW p \in Nat, xs # <<>>,
         NEW x, x = AddLine(xs, l, p)
  PROVE  /\ x \in Seq(Rows) /\ Len(x) = Len(xs)
         /\ \A i \in 1..Len(xs) : i # Len(xs) => x[i] = xs[i]
         /\ x[Len(xs)] = [first |-> xs[Len(xs)].first, last |-> l, parent |-> p]
  <1> DEFINE n == Len(xs)
             row == [first |-> xs[n].first, last |-> l, parent |-> p]
  <1>1. n \in Nat \ {0} /\ xs[n] \in Rows
    OBVIOUS
  <1>2. ASSUME NEW old \in Rows
        PROVE  /\ [old EXCEPT !.last = l, !.parent = p] = [first |-> old.first, last |-> l, parent |-> p]
               /\ [first |-> old.first, last |-> l, parent |-> p] \in Rows
    <2> DEFINE new == [old EXCEPT !.last = l, !.parent = p]
    <2>1. old \in [first : Lines, last : Lines, parent : Nat]
      BY DEF Rows
    <2>2. new \in [first : Lines, last : Lines, parent : Nat]
      BY <2>1
    <2>3. new.first = old.first /\ new.last = l /\ new.parent = p
      BY <2>1
    <2> HIDE DEF new
    <2>4. new = [first |-> new.first, last |-> new.last, parent |-> new.parent]
      BY <2>2
    <2>5. [first |-> old.first, last |-> l, parent |-> p] \in Rows
      BY <2>1 DEF Rows
    <2>6. new = [first |-> old.first, last |-> l, parent |-> p]
      BY <2>3, <2>4
    <2>7. QED
      BY <2>5, <2>6 DEF new
  <1>3. [xs[n] EXCEPT !.last = l, !.parent = p] = row /\ row \in Rows
    BY <1>1, <1>2
  <1>4. x = [xs EXCEPT ![n] = row]
    BY <1>3 DEF AddLine
  <1>5. row \in Rows
    BY <1>3
  <1> HIDE DEF row
  <1>6. x \in Seq(Rows) /\ Len(x) = n /\ x[n] = row /\ \A i \in 1..n : i # n => x[i] = xs[i]
    BY <1>1, <1>4, <1>5
  <1>7. QED
    BY <1>6 DEF row

LEMMA AddLineAppends ==
  ASSUME NEW xs \in Seq(Rows), NEW l \in Lines, NEW p \in Nat, ~(l \in Joining /\ xs # <<>>),
         NEW x, x = AddLine(xs, l, p)
  PROVE  /\ x \in Seq(Rows) /\ Len(x) = Len(xs) + 1
         /\ \A i \in 1..Len(xs) : x[i] = xs[i]
         /\ x[Len(xs) + 1] = [first |-> l, last |-> l, parent |-> p]
  <1> DEFINE row == [first |-> l, last |-> l, parent |-> p]
  <1>1. row \in Rows
    BY DEF Rows
  <1>2. x = Append(xs, row)
    BY DEF AddLine
  <1> HIDE DEF row
  <1>3. /\ x \in Seq(Rows) /\ Len(x) = Len(xs) + 1
        /\ \A i \in 1..Len(xs) : x[i] = xs[i]
        /\ x[Len(xs) + 1] = row
    BY <1>1, <1>2
  <1>4. QED
    BY <1>3 DEF row

LEMMA AddLineType ==
  ASSUME NEW xs \in Seq(Rows), NEW l \in Lines, NEW p \in Nat
  PROVE  AddLine(xs, l, p) \in Seq(Rows) /\ Len(AddLine(xs, l, p)) # 0
  <1>1. Len(xs) \in Nat /\ (xs # <<>> => Len(xs) # 0)
    OBVIOUS
  <1>2. CASE l \in Joining /\ xs # <<>>
    BY <1>1, <1>2, AddLineJoins
  <1>3. CASE ~(l \in Joining /\ xs # <<>>)
    <2>1. AddLine(xs, l, p) \in Seq(Rows) /\ Len(AddLine(xs, l, p)) = Len(xs) + 1
      BY <1>3, AddLineAppends
    <2>2. QED
      BY <1>1, <2>1
  <1>4. QED
    BY <1>2, <1>3

(* The rows of two parses stay alike, line by line, though one of them began
   at the last row the other had by then.                                   *)
LEMMA LastRowContinues ==
  ASSUME NEW k \in Nat, NEW m \in Nat \ {0}, NEW xs, NEW ys, NEW zs, NEW x, NEW z,
         Len(ys) = k, Len(zs) = m, Continues(xs, ys, zs),
         Len(x) = k + m, \A i \in 1..(k + m) : i # k + m => x[i] = xs[i],
         Len(z) = m, \A i \in 1..m : i # m => z[i] = zs[i],
         Same(x[k + m], z[m])
  PROVE  Continues(x, ys, z)
  <1>1. /\ \A i \in 1..k : Same(xs[i], ys[i])
        /\ \A i \in 1..m : Same(xs[k + i], zs[i])
    BY DEF Continues
  <1>2. \A i \in 1..k : i \in 1..(k + m) /\ i # k + m
    OBVIOUS
  <1>3. \A i \in 1..m : k + i \in 1..(k + m) /\ (i # m => k + i # k + m)
    OBVIOUS
  <1>4. \A i \in 1..k : Same(x[i], ys[i])
    BY <1>1, <1>2
  <1>5. ASSUME NEW i \in 1..m PROVE Same(x[k + i], z[i])
    <2>1. CASE i = m
      BY <2>1
    <2>2. CASE i # m
      <3>1. x[k + i] = xs[k + i] /\ z[i] = zs[i]
        BY <2>2, <1>3
      <3>2. QED
        BY <3>1, <1>1
    <2>3. QED
      BY <2>1, <2>2
  <1>6. QED
    BY <1>4, <1>5 DEF Continues

LEMMA NewRowContinues ==
  ASSUME NEW k \in Nat, NEW m \in Nat, NEW xs, NEW ys, NEW zs, NEW x, NEW z,
         Len(ys) = k, Len(zs) = m, Continues(xs, ys, zs),
         Len(x) = k + m + 1, \A i \in 1..(k + m) : x[i] = xs[i],
         Len(z) = m + 1, \A i \in 1..m : z[i] = zs[i],
         Same(x[k + m + 1], z[m + 1])
  PROVE  Continues(x, ys, z)
  <1>1. /\ \A i \in 1..k : Same(xs[i], ys[i])
        /\ \A i \in 1..m : Same(xs[k + i], zs[i])
    BY DEF Continues
  <1>2. \A i \in 1..k : i \in 1..(k + m)
    OBVIOUS
  <1>3. \A i \in 1..m : k + i \in 1..(k + m)
    OBVIOUS
  <1>4. \A i \in 1..k : Same(x[i], ys[i])
    BY <1>1, <1>2
  <1>5. ASSUME NEW i \in 1..(m + 1) PROVE Same(x[k + i], z[i])
    <2>1. CASE i = m + 1
      <3>1. k + (m + 1) = k + m + 1
        OBVIOUS
      <3>2. QED
        BY <2>1, <3>1
    <2>2. CASE i \in 1..m
      <3>1. x[k + i] = xs[k + i] /\ z[i] = zs[i]
        BY <2>2, <1>3
      <3>2. QED
        BY <2>2, <3>1, <1>1
    <2>3. QED
      BY <2>1, <2>2
  <1>6. Len(x) = Len(ys) + Len(z)
    OBVIOUS
  <1>7. QED
    BY <1>4, <1>5, <1>6 DEF Continues

LEMMA AddLineContinues ==
  ASSUME NEW xs \in Seq(Rows), NEW ys \in Seq(Rows), NEW zs \in Seq(Rows), NEW l \in Lines,
         NEW p \in Nat, NEW q \in Nat,
         Continues(xs, ys, zs), ys = <<>> \/ zs # <<>>
  PROVE  Continues(AddLine(xs, l, p), ys, AddLine(zs, l, q))
  <1> DEFINE x == AddLine(xs, l, p)
             z == AddLine(zs, l, q)
  <1>1. PICK k \in Nat, m \in Nat : k = Len(ys) /\ m = Len(zs)
    OBVIOUS
  <1>2. Len(xs) = k + m
    BY <1>1 DEF Continues
  <1>3. xs # <<>> <=> zs # <<>>
    <2>1. (xs # <<>> <=> Len(xs) # 0) /\ (zs # <<>> <=> m # 0) /\ (ys = <<>> => k = 0)
      BY <1>1
    <2>2. QED
      BY <2>1, <1>1, <1>2
  <1>4. CASE l \in Joining /\ zs # <<>>
    <2>1. /\ Len(x) = k + m /\ \A i \in 1..(k + m) : i # k + m => x[i] = xs[i]
          /\ x[k + m] = [first |-> xs[k + m].first, last |-> l, parent |-> p]
      <3>1. xs # <<>>
        BY <1>3, <1>4
      <3>2. l \in Joining /\ l \in Lines
        BY <1>4
      <3>3. /\ Len(x) = Len(xs) /\ \A i \in 1..Len(xs) : i # Len(xs) => x[i] = xs[i]
            /\ x[Len(xs)] = [first |-> xs[Len(xs)].first, last |-> l, parent |-> p]
        <4> HIDE DEF x
        <4>1. x = AddLine(xs, l, p)
          BY DEF x
        <4>2. QED
          BY <3>1, <3>2, <4>1, AddLineJoins
      <3>4. QED
        BY Zenon, <1>2, <3>3
    <2>2. /\ Len(z) = m /\ \A i \in 1..m : i # m => z[i] = zs[i]
          /\ z[m] = [first |-> zs[m].first, last |-> l, parent |-> q]
      BY <1>1, <1>4, AddLineJoins
    <2> HIDE DEF x, z
    <2>3. m # 0
      BY <1>1, <1>4
    <2>4. Same(x[k + m], z[m])
      <3>1. m \in 1..m
        BY <2>3
      <3>2. Same(xs[k + m], zs[m])
        BY <3>1, <1>1 DEF Continues
      <3>3. QED
        BY <3>2, <2>1, <2>2 DEF Same
    <2>5. QED
      BY <1>1, <2>1, <2>2, <2>3, <2>4, LastRowContinues DEF x, z
  <1>5. CASE ~(l \in Joining /\ zs # <<>>)
    <2>1. /\ Len(x) = k + m + 1 /\ \A i \in 1..(k + m) : x[i] = xs[i]
          /\ x[k + m + 1] = [first |-> l, last |-> l, parent |-> p]
      <3>1. ~(l \in Joining /\ xs # <<>>)
        BY <1>3, <1>5
      <3>2. /\ Len(x) = Len(xs) + 1 /\ \A i \in 1..Len(xs) : x[i] = xs[i]
            /\ x[Len(xs) + 1] = [first |-> l, last |-> l, parent |-> p]
        BY <3>1, AddLineAppends
      <3>3. QED
        BY <3>2, <1>2
    <2>2. /\ Len(z) = m + 1 /\ \A i \in 1..m : z[i] = zs[i]
          /\ z[m + 1] = [first |-> l, last |-> l, parent |-> q]
      BY <1>1, <1>5, AddLineAppends
    <2> HIDE DEF x, z
    <2>3. Same(x[k + m + 1], z[m + 1])
      BY <2>1, <2>2 DEF Same
    <2>4. QED
      BY ZenonT(60), <1>1, <2>1, <2>2, <2>3, NewRowContinues DEF x, z
  <1>6. QED
    BY <1>4, <1>5

LEMMA AddLineSaw ==
  ASSUME NEW xs \in Seq(Rows), NEW l \in Lines, NEW p \in Nat, NEW lo \in Nat, NEW hi \in Nat,
         Saw(xs, lo, hi), p \in lo..hi
  PROVE  Saw(AddLine(xs, l, p), lo, hi)
  <1> DEFINE x == AddLine(xs, l, p)
  <1>1. PICK n \in Nat : n = Len(xs)
    OBVIOUS
  <1>2. \A i \in 1..n : xs[i].parent \in lo..hi
    BY <1>1 DEF Saw
  <1>3. CASE l \in Joining /\ xs # <<>>
    <2>1. /\ Len(x) = n /\ \A i \in 1..n : i # n => x[i] = xs[i]
          /\ x[n] = [first |-> xs[n].first, last |-> l, parent |-> p]
      BY <1>1, <1>3, AddLineJoins
    <2> HIDE DEF x
    <2>2. x[n].parent = p
      BY <2>1
    <2>3. QED
      BY <2>1, <2>2, <1>2 DEF Saw, x
  <1>4. CASE ~(l \in Joining /\ xs # <<>>)
    <2>1. /\ Len(x) = n + 1 /\ \A i \in 1..n : x[i] = xs[i]
          /\ x[n + 1] = [first |-> l, last |-> l, parent |-> p]
      BY <1>1, <1>4, AddLineAppends
    <2> HIDE DEF x
    <2>2. x[n + 1].parent = p
      BY <2>1
    <2>3. \A i \in 1..(n + 1) : i \in 1..n \/ i = n + 1
      OBVIOUS
    <2>4. QED
      BY <2>1, <2>2, <2>3, <1>2 DEF Saw, x
  <1>5. QED
    BY <1>3, <1>4

----------------------------------------------------------------------------
(* Adding lines.                                                              *)

(* The rows after each line.                                                  *)
TraceTo(k, g, sofar, ls, p) ==
    /\ g[0] = sofar
    /\ \A i \in 1..k : g[i] = AddLine(g[i - 1], ls[i], p)
Trace(g, sofar, ls, p) == TraceTo(Len(ls), g, sofar, ls, p)

LEMMA TraceExists ==
  ASSUME NEW sofar \in Seq(Rows), NEW ls \in Seq(Lines), NEW p \in Nat
  PROVE  \E g \in [0..Len(ls) -> Seq(Rows)] : Trace(g, sofar, ls, p)
  <1> DEFINE S == {k \in 0..Len(ls) : \E h \in [0..k -> Seq(Rows)] : TraceTo(k, h, sofar, ls, p)}
  <1>1. PICK n \in Nat : n = Len(ls) /\ \A i \in 1..n : ls[i] \in Lines
    OBVIOUS
  <1>2. 0 \in S
    <2> DEFINE h == [i \in 0..0 |-> sofar]
    <2>1. h \in [0..0 -> Seq(Rows)]
      OBVIOUS
    <2>2. TraceTo(0, h, sofar, ls, p)
      BY DEF TraceTo
    <2> HIDE DEF h
    <2>3. QED
      BY <2>1, <2>2, <1>1
  <1>3. ASSUME NEW k \in 1..n, k - 1 \in S PROVE k \in S
    <2>1. PICK h \in [0..(k - 1) -> Seq(Rows)] : TraceTo(k - 1, h, sofar, ls, p)
      BY <1>3
    <2> DEFINE new == AddLine(h[k - 1], ls[k], p)
               g == [i \in 0..k |-> IF i = k THEN new ELSE h[i]]
    <2>2. \A i \in 0..k : i # k => i \in 0..(k - 1)
      OBVIOUS
    <2>3. h[k - 1] \in Seq(Rows) /\ new \in Seq(Rows)
      <3>1. k - 1 \in 0..(k - 1)
        OBVIOUS
      <3>2. QED
        BY <3>1, <1>1, AddLineType
    <2> HIDE DEF new
    <2>4. g \in [0..k -> Seq(Rows)]
      BY <2>2, <2>3
    <2>5. g[k] = new /\ g[k - 1] = h[k - 1] /\ g[0] = h[0]
      OBVIOUS
    <2>6. ASSUME NEW i \in 1..k PROVE g[i] = AddLine(g[i - 1], ls[i], p)
      <3>1. CASE i = k
        BY <3>1, <2>5 DEF new
      <3>2. CASE i # k
        <4>1. i \in 1..(k - 1) /\ g[i] = h[i] /\ g[i - 1] = h[i - 1]
          BY <3>2
        <4>2. QED
          BY <4>1, <2>1 DEF TraceTo
      <3>3. QED
        BY <3>1, <3>2
    <2> HIDE DEF g
    <2>7. TraceTo(k, g, sofar, ls, p)
      BY <2>1, <2>5, <2>6 DEF TraceTo
    <2>8. k \in 0..Len(ls)
      BY <1>1
    <2>9. QED
      BY <2>4, <2>7, <2>8
  <1> HIDE DEF S
  <1>4. \A i \in 0..n : i \in S
    BY <1>2, <1>3, CountUp
  <1>5. n \in S
    BY <1>4
  <1>6. QED
    BY <1>1, <1>5 DEF S, Trace

LEMMA AddLinesTrace ==
  ASSUME NEW sofar \in Seq(Rows), NEW ls \in Seq(Lines), NEW p \in Nat
  PROVE  \E g \in [0..Len(ls) -> Seq(Rows)] :
            Trace(g, sofar, ls, p) /\ AddLines(sofar, ls, p) = g[Len(ls)]
  <1> DEFINE Next1(g) == [i \in 0..Len(ls) |-> IF i = 0 THEN sofar ELSE AddLine(g[i - 1], ls[i], p)]
             f == CHOOSE g : g = Next1(g)
  <1>1. PICK n \in Nat : n = Len(ls) /\ \A i \in 1..n : ls[i] \in Lines
    OBVIOUS
  <1>2. AddLines(sofar, ls, p) = f[Len(ls)]
    BY DEF AddLines
  <1>3. \E g : g = Next1(g)
    <2>1. PICK h \in [0..n -> Seq(Rows)] : Trace(h, sofar, ls, p)
      BY <1>1, TraceExists
    <2>2. \A i \in 0..n : h[i] = IF i = 0 THEN sofar ELSE AddLine(h[i - 1], ls[i], p)
      BY <2>1, <1>1 DEF Trace, TraceTo
    <2>3. h = Next1(h)
      BY <2>2, <1>1
    <2>4. QED
      BY <2>3
  <1>4. f = Next1(f)
    BY <1>3
  <1> HIDE DEF f
  <1>5. f[0] = sofar /\ \A i \in 1..n : f[i] = AddLine(f[i - 1], ls[i], p)
    <2>1. PICK g : g = f /\ g = Next1(f)
      BY <1>4
    <2>2. g[0] = sofar /\ \A i \in 1..n : g[i] = AddLine(f[i - 1], ls[i], p)
      BY <2>1, <1>1
    <2>3. QED
      BY <2>1, <2>2
  <1>6. \A i \in 0..n : f[i] \in Seq(Rows)
    <2> DEFINE S == {i \in 0..n : f[i] \in Seq(Rows)}
    <2>1. 0 \in S
      BY <1>5
    <2>2. ASSUME NEW i \in 1..n, i - 1 \in S PROVE i \in S
      <3>1. f[i - 1] \in Seq(Rows) /\ ls[i] \in Lines
        BY <2>2, <1>1
      <3>2. f[i] \in Seq(Rows)
        BY <3>1, <1>5, AddLineType
      <3>3. QED
        BY <3>2
    <2> HIDE DEF S
    <2>3. \A i \in 0..n : i \in S
      BY <2>1, <2>2, CountUp
    <2>4. QED
      BY <2>3 DEF S
  <1>7. f \in [0..n -> Seq(Rows)]
    BY <1>1, <1>4, <1>6
  <1>8. QED
    BY <1>1, <1>2, <1>5, <1>7 DEF Trace, TraceTo

LEMMA AddLinesType ==
  ASSUME NEW sofar \in Seq(Rows), NEW ls \in Seq(Lines), NEW p \in Nat
  PROVE  /\ AddLines(sofar, ls, p) \in Seq(Rows)
         /\ ls # <<>> => Len(AddLines(sofar, ls, p)) # 0
  <1>1. PICK g \in [0..Len(ls) -> Seq(Rows)] :
          Trace(g, sofar, ls, p) /\ AddLines(sofar, ls, p) = g[Len(ls)]
    BY AddLinesTrace
  <1>2. Len(ls) \in Nat /\ Len(ls) \in 0..Len(ls)
    OBVIOUS
  <1>3. g[Len(ls)] \in Seq(Rows)
    BY <1>2
  <1>4. ASSUME ls # <<>> PROVE Len(g[Len(ls)]) # 0
    <2>1. Len(ls) \in 1..Len(ls) /\ Len(ls) - 1 \in 0..Len(ls) /\ ls[Len(ls)] \in Lines
      BY <1>4
    <2>2. g[Len(ls)] = AddLine(g[Len(ls) - 1], ls[Len(ls)], p)
      BY <1>1, <2>1 DEF Trace, TraceTo
    <2>3. g[Len(ls) - 1] \in Seq(Rows)
      BY <2>1
    <2>4. QED
      BY <2>1, <2>2, <2>3, AddLineType
  <1>5. QED
    BY <1>1, <1>3, <1>4

LEMMA AddLinesSaw ==
  ASSUME NEW sofar \in Seq(Rows), NEW ls \in Seq(Lines), NEW p \in Nat, NEW lo \in Nat, NEW hi \in Nat,
         Saw(sofar, lo, hi), p \in lo..hi
  PROVE  Saw(AddLines(sofar, ls, p), lo, hi)
  <1>1. PICK g \in [0..Len(ls) -> Seq(Rows)] :
          Trace(g, sofar, ls, p) /\ AddLines(sofar, ls, p) = g[Len(ls)]
    BY AddLinesTrace
  <1>2. PICK n \in Nat : n = Len(ls) /\ \A i \in 1..n : ls[i] \in Lines
    OBVIOUS
  <1> DEFINE S == {i \in 0..n : Saw(g[i], lo, hi)}
  <1>3. 0 \in S
    BY <1>1 DEF Trace, TraceTo
  <1>4. ASSUME NEW i \in 1..n, i - 1 \in S PROVE i \in S
    <2>1. g[i - 1] \in Seq(Rows) /\ Saw(g[i - 1], lo, hi) /\ i \in 0..n
      BY <1>2, <1>4
    <2>2. g[i] = AddLine(g[i - 1], ls[i], p)
      BY <1>1, <1>2 DEF Trace, TraceTo
    <2>3. Saw(g[i], lo, hi)
      BY <2>1, <2>2, <1>2, AddLineSaw
    <2>4. QED
      BY <2>1, <2>3
  <1> HIDE DEF S
  <1>5. \A i \in 0..n : i \in S
    BY <1>3, <1>4, CountUp
  <1>6. n \in S
    BY <1>5
  <1>7. QED
    BY <1>1, <1>2, <1>6 DEF S

(* Parses of the same lines stay alike.                                       *)
LEMMA AddLinesContinues ==
  ASSUME NEW xs \in Seq(Rows), NEW ys \in Seq(Rows), NEW zs \in Seq(Rows), NEW ls \in Seq(Lines),
         NEW p \in Nat, NEW q \in Nat, Continues(xs, ys, zs), ys = <<>> \/ zs # <<>>
  PROVE  Continues(AddLines(xs, ls, p), ys, AddLines(zs, ls, q))
  <1>1. PICK g \in [0..Len(ls) -> Seq(Rows)] :
          Trace(g, xs, ls, p) /\ AddLines(xs, ls, p) = g[Len(ls)]
    BY AddLinesTrace
  <1>2. PICK h \in [0..Len(ls) -> Seq(Rows)] :
          Trace(h, zs, ls, q) /\ AddLines(zs, ls, q) = h[Len(ls)]
    BY AddLinesTrace
  <1>3. PICK n \in Nat : n = Len(ls) /\ \A i \in 1..n : ls[i] \in Lines
    OBVIOUS
  <1> DEFINE S == {i \in 0..n : Continues(g[i], ys, h[i]) /\ (ys = <<>> \/ h[i] # <<>>)}
  <1>4. 0 \in S
    BY <1>1, <1>2 DEF Trace, TraceTo
  <1>5. ASSUME NEW i \in 1..n, i - 1 \in S PROVE i \in S
    <2>1. /\ g[i - 1] \in Seq(Rows) /\ h[i - 1] \in Seq(Rows) /\ i \in 0..n
          /\ Continues(g[i - 1], ys, h[i - 1]) /\ (ys = <<>> \/ h[i - 1] # <<>>)
      BY SMTT(60), <1>3, <1>5
    <2>2. g[i] = AddLine(g[i - 1], ls[i], p) /\ h[i] = AddLine(h[i - 1], ls[i], q)
      BY <1>1, <1>2, <1>3 DEF Trace, TraceTo
    <2>3. Continues(g[i], ys, h[i])
      BY <2>1, <2>2, <1>3, AddLineContinues
    <2>4. h[i] # <<>>
      <3>1. Len(h[i]) # 0
        BY <2>1, <2>2, <1>3, AddLineType
      <3>2. QED
        BY <3>1
    <2>5. QED
      BY <2>1, <2>3, <2>4
  <1> HIDE DEF S
  <1>6. \A i \in 0..n : i \in S
    BY <1>4, <1>5, CountUp
  <1>7. n \in S
    BY <1>6
  <1>8. QED
    BY <1>1, <1>2, <1>3, <1>7 DEF S

(* Lines added in two passes are those added in one.                          *)
LEMMA AddLinesSplit ==
  ASSUME NEW sofar \in Seq(Rows), NEW ls \in Seq(Lines), NEW p \in Nat, NEW b \in 0..Len(ls)
  PROVE  AddLines(sofar, ls, p)
         = AddLines(AddLines(sofar, SubSeq(ls, 1, b), p), SubSeq(ls, b + 1, Len(ls)), p)
  <1> SUFFICES ASSUME NEW base, base = SubSeq(ls, 1, b), NEW rest, rest = SubSeq(ls, b + 1, Len(ls))
               PROVE  AddLines(sofar, ls, p) = AddLines(AddLines(sofar, base, p), rest, p)
    OBVIOUS
  <1>1. PICK n \in Nat : n = Len(ls) /\ \A i \in 1..n : ls[i] \in Lines
    OBVIOUS
  <1>2. /\ b \in Nat /\ n - b \in Nat
        /\ base \in Seq(Lines) /\ Len(base) = b /\ \A i \in 1..b : base[i] = ls[i]
        /\ rest \in Seq(Lines) /\ Len(rest) = n - b /\ \A i \in 1..(n - b) : rest[i] = ls[b + i]
    BY <1>1
  <1>3. PICK g \in [0..n -> Seq(Rows)] :
          Trace(g, sofar, ls, p) /\ AddLines(sofar, ls, p) = g[n]
    BY <1>1, AddLinesTrace
  <1>4. PICK h \in [0..Len(base) -> Seq(Rows)] :
          Trace(h, sofar, base, p) /\ AddLines(sofar, base, p) = h[Len(base)]
    <2>1. base \in Seq(Lines)
      BY <1>2
    <2>2. QED
      BY <2>1, AddLinesTrace, Zenon
  <1>5. h[b] \in Seq(Rows) /\ AddLines(sofar, base, p) = h[b]
    BY <1>2, <1>4
  <1>6. PICK k \in [0..Len(rest) -> Seq(Rows)] :
          Trace(k, h[b], rest, p) /\ AddLines(h[b], rest, p) = k[Len(rest)]
    <2>1. rest \in Seq(Lines)
      BY <1>2
    <2>2. QED
      BY <2>1, <1>5, AddLinesTrace, Zenon
  <1>7. /\ g[0] = sofar /\ h[0] = sofar /\ k[0] = h[b]
        /\ \A i \in 1..n : g[i] = AddLine(g[i - 1], ls[i], p)
        /\ \A i \in 1..b : h[i] = AddLine(h[i - 1], base[i], p)
        /\ \A i \in 1..(n - b) : k[i] = AddLine(k[i - 1], rest[i], p)
    BY <1>1, <1>2, <1>3, <1>4, <1>6 DEF Trace, TraceTo
  <1>8. g[b] = h[b]
    <2> DEFINE S == {i \in 0..b : g[i] = h[i]}
    <2>1. 0 \in S
      BY <1>2, <1>7
    <2>2. ASSUME NEW i \in 1..b, i - 1 \in S PROVE i \in S
      <3>1. i \in 1..n /\ i \in 0..b
        BY <1>2
      <3>2. g[i - 1] = h[i - 1]
        BY <2>2
      <3>3. g[i] = h[i]
        BY <3>1, <3>2, <1>2, <1>7
      <3>4. QED
        BY <3>1, <3>3
    <2> HIDE DEF S
    <2>3. \A i \in 0..b : i \in S
      BY <2>1, <2>2, <1>2, CountUp
    <2>4. b \in S
      BY <2>3, <1>2
    <2>5. QED
      BY <2>4 DEF S
  <1>9. g[n] = k[n - b]
    <2> DEFINE S == {i \in 0..(n - b) : g[b + i] = k[i]}
    <2>1. 0 \in S
      <3>1. b + 0 = b /\ 0 \in 0..(n - b)
        BY <1>2
      <3>2. g[b + 0] = k[0]
        BY <3>1, <1>7, <1>8
      <3>3. QED
        BY <3>1, <3>2
    <2>2. ASSUME NEW i \in 1..(n - b), i - 1 \in S PROVE i \in S
      <3>1. b + i \in 1..n /\ i \in 0..(n - b) /\ b + (i - 1) = (b + i) - 1
        BY <1>2
      <3>2. g[b + (i - 1)] = k[i - 1]
        BY <2>2
      <3>3. g[(b + i) - 1] = k[i - 1]
        BY <3>1, <3>2
      <3>4. g[b + i] = AddLine(g[(b + i) - 1], ls[b + i], p)
        BY <3>1, <1>7
      <3>5. g[b + i] = k[i]
        BY <3>3, <3>4, <1>2, <1>7
      <3>6. QED
        BY <3>1, <3>5
    <2> HIDE DEF S
    <2>3. \A i \in 0..(n - b) : i \in S
      BY <2>1, <2>2, <1>2, CountUp
    <2>4. n - b \in S /\ b + (n - b) = n
      BY SMTT(60), <2>3, <1>2
    <2>5. QED
      BY <2>4 DEF S
  <1>10. QED
    BY <1>2, <1>3, <1>5, <1>6, <1>9

----------------------------------------------------------------------------
(* Parses.                                                                    *)

(* The rows are those of the parse of these lines, whatever its parents.      *)
ParseOf(xs, ls) == Alike(xs, Parse(ls, 0))

LEMMA NothingAdded ==
  /\ <<>> \in Seq(Rows)
  /\ \A xs, ys : Alike(xs, ys) <=> Continues(xs, <<>>, ys) /\ Len(xs) = Len(ys)
  /\ \A lo, hi \in Nat : Saw(<<>>, lo, hi)
  <1>1. Len(<<>>) = 0 /\ <<>> \in Seq(Rows)
    OBVIOUS
  <1>2. ASSUME NEW xs, NEW ys PROVE Alike(xs, ys) <=> Continues(xs, <<>>, ys) /\ Len(xs) = Len(ys)
    <2>1. ASSUME Len(xs) = Len(ys), NEW i \in 1..Len(xs) PROVE 0 + i = i
      OBVIOUS
    <2>2. QED
      BY <1>1, <2>1 DEF Alike, Continues
  <1>3. QED
    BY <1>1, <1>2 DEF Saw

LEMMA ParseFacts ==
  ASSUME NEW ls \in Seq(Lines), NEW p \in Nat
  PROVE  /\ Parse(ls, p) \in Seq(Rows) /\ ParseOf(Parse(ls, p), ls) /\ Saw(Parse(ls, p), p, p)
         /\ ls # <<>> => Len(Parse(ls, p)) # 0
         /\ ls = <<>> => Parse(ls, p) = <<>>
  <1>1. /\ Parse(ls, p) \in Seq(Rows) /\ Parse(ls, 0) \in Seq(Rows)
        /\ ls # <<>> => Len(Parse(ls, p)) # 0
    BY NothingAdded, AddLinesType DEF Parse
  <1>2. ParseOf(Parse(ls, p), ls)
    <2>1. Continues(<<>>, <<>>, <<>>)
      BY NothingAdded DEF Continues
    <2>2. Continues(Parse(ls, p), <<>>, Parse(ls, 0))
      BY <2>1, NothingAdded, AddLinesContinues DEF Parse
    <2>3. Len(Parse(ls, p)) = Len(Parse(ls, 0))
      <3>1. Len(Parse(ls, p)) = 0 + Len(Parse(ls, 0))
        BY <2>2 DEF Continues
      <3>2. Len(Parse(ls, 0)) \in Nat
        BY <1>1
      <3>3. QED
        BY <3>1, <3>2
    <2>4. QED
      BY <2>2, <2>3, NothingAdded DEF ParseOf
  <1>3. Saw(Parse(ls, p), p, p)
    <2>1. Saw(<<>>, p, p) /\ p \in p..p
      BY NothingAdded
    <2>2. QED
      BY <2>1, NothingAdded, AddLinesSaw DEF Parse
  <1>4. ASSUME ls = <<>> PROVE Parse(ls, p) = <<>>
    <2>1. PICK g \in [0..Len(ls) -> Seq(Rows)] :
            Trace(g, <<>>, ls, p) /\ AddLines(<<>>, ls, p) = g[Len(ls)]
      BY NothingAdded, AddLinesTrace
    <2>2. Len(ls) = 0
      BY <1>4
    <2>3. QED
      BY <2>1, <2>2 DEF Trace, TraceTo, Parse
  <1>5. QED
    BY <1>1, <1>2, <1>3, <1>4

LEMMA ParseSplit ==
  ASSUME NEW ls \in Seq(Lines), NEW p \in Nat, NEW b \in 0..Len(ls)
  PROVE  Parse(ls, p) = AddLines(Parse(SubSeq(ls, 1, b), p), SubSeq(ls, b + 1, Len(ls)), p)
  BY NothingAdded, AddLinesSplit DEF Parse

(* Rows alike to those of a parse that saw the same one parent are the same.  *)
LEMMA AlikeIsEqual ==
  ASSUME NEW xs \in Seq(Rows), NEW ys \in Seq(Rows), NEW p \in Nat,
         Alike(xs, ys), Saw(xs, p, p), Saw(ys, p, p)
  PROVE  xs = ys
  <1>0. /\ Len(xs) \in Nat /\ xs \in [1..Len(xs) -> Rows]
        /\ Len(ys) \in Nat /\ ys \in [1..Len(ys) -> Rows]
    OBVIOUS
  <1>1. PICK n \in Nat : n = Len(xs) /\ n = Len(ys)
    BY <1>0 DEF Alike
  <1>3. xs \in [1..n -> Rows] /\ ys \in [1..n -> Rows]
    BY <1>0, <1>1
  <1>2. ASSUME NEW i \in 1..n PROVE xs[i] = ys[i]
    <2>0. xs[i] \in Rows /\ ys[i] \in Rows
      BY <1>3
    <2>1. xs[i] \in [first : Lines, last : Lines, parent : Nat] /\ ys[i] \in [first : Lines, last : Lines, parent : Nat]
      BY <2>0 DEF Rows
    <2>2. xs[i].parent = p /\ ys[i].parent = p
      BY <1>1 DEF Saw
    <2>3. xs[i].first = ys[i].first /\ xs[i].last = ys[i].last
      BY <1>1 DEF Alike, Same
    <2>4. ASSUME NEW x \in [first : Lines, last : Lines, parent : Nat],
                 NEW y \in [first : Lines, last : Lines, parent : Nat],
                 x.first = y.first, x.last = y.last, x.parent = y.parent
          PROVE  x = y
      BY <2>4
    <2>5. QED
      BY <2>1, <2>2, <2>3, <2>4
  <1>4. QED
    BY <1>2, <1>3

(* A resumed read continues the rows it resumed: the rows of the lines the
   cursor covers, but for the open one, and then the read's own, are the rows
   of the file (joinResumedRead, insertAppendedEvents).                      *)
LEMMA ResumeJoins ==
  ASSUME NEW rs \in Seq(Rows), NEW base \in Seq(Lines), NEW all \in Seq(Lines), NEW p \in Nat,
         ParseOf(rs, base), IsPrefix(base, all),
         NEW new, new = AddLines(OpenRows(base, p), SubSeq(all, Len(base) + 1, Len(all)), p)
  PROVE  /\ DropLast(rs, Replaced(base)) \in Seq(Rows) /\ new \in Seq(Rows)
         /\ Saw(new, p, p)
         /\ ParseOf(DropLast(rs, Replaced(base)) \o new, all)
  <1> DEFINE b == Len(base)
             rest == SubSeq(all, b + 1, Len(all))
             ys == DropLast(rs, Replaced(base))
             zs == OpenRows(base, p)
             xs == Parse(base, 0)
  <1>1. /\ b \in Nat /\ b \in 0..Len(all) /\ Len(all) \in Nat
        /\ base = SubSeq(all, 1, b) /\ rest \in Seq(Lines)
    <2>1. b \in Nat /\ Len(all) \in Nat /\ b <= Len(all) /\ SubSeq(base, 1, b) = SubSeq(all, 1, b)
      BY DEF IsPrefix
    <2>2. SubSeq(base, 1, b) = base
      OBVIOUS
    <2>3. rest \in Seq(Lines)
      BY <2>1
    <2>4. QED
      BY <2>1, <2>2, <2>3
  <1>2. xs \in Seq(Rows) /\ Len(xs) = Len(rs) /\ Len(rs) \in Nat /\ \A i \in 1..Len(rs) : Same(xs[i], rs[i])
    BY ParseFacts DEF ParseOf, Alike, Same
  <1>3. ys \in Seq(Rows) /\ zs \in Seq(Rows) /\ Continues(xs, ys, zs) /\ (ys = <<>> \/ zs # <<>>) /\ Saw(zs, p, p)
    <2>1. CASE base = <<>>
      <3>1. xs = <<>>
        BY <2>1, ParseFacts
      <3>2. Len(rs) = 0 /\ rs = <<>>
        BY <3>1, <1>2
      <3>3. zs = <<>> /\ Replaced(base) = 0
        BY <2>1 DEF OpenRows, Replaced
      <3>4. ys = <<>>
        BY <3>2, <3>3 DEF DropLast
      <3> HIDE DEF xs, ys, zs
      <3>5. Continues(<<>>, <<>>, <<>>) /\ Saw(<<>>, p, p)
        BY NothingAdded DEF Continues
      <3>6. QED
        BY <3>1, <3>3, <3>4, <3>5, NothingAdded
    <2>2. CASE base # <<>>
      <3> DEFINE ps == Parse(base, p)
                 m == Len(rs)
      <3>1. ps \in Seq(Rows) /\ Alike(ps, xs) /\ Saw(ps, p, p) /\ Len(ps) # 0
        BY <2>2, ParseFacts DEF ParseOf
      <3>2. Len(ps) = m /\ m \in Nat \ {0} /\ Same(ps[m], xs[m]) /\ ps[m].parent \in p..p /\ ps[m] \in Rows
        BY <3>1, <1>2 DEF Alike, Saw
      <3>3. zs = <<ps[m]>>
        BY <2>2, <3>2 DEF OpenRows, Last
      <3>4. ys = SubSeq(rs, 1, m - 1)
        BY <2>2 DEF DropLast, Replaced
      <3> HIDE DEF ps, xs, ys, zs
      <3>5. /\ ys \in Seq(Rows) /\ Len(ys) = m - 1 /\ \A i \in 1..(m - 1) : ys[i] = rs[i]
            /\ zs \in Seq(Rows) /\ Len(zs) = 1 /\ zs[1] = ps[m] /\ zs # <<>>
        BY <3>2, <3>3, <3>4
      <3>6. \A i \in 1..(m - 1) : Same(xs[i], ys[i])
        BY <3>2, <3>5, <1>2
      <3>7. \A i \in 1..1 : Same(xs[(m - 1) + i], zs[i])
        <4>1. (m - 1) + 1 = m /\ Same(xs[m], ps[m])
          BY <3>2 DEF Same
        <4>2. QED
          BY <4>1, <3>5
      <3>8. Len(xs) = Len(ys) + Len(zs)
        BY <3>2, <3>5, <1>2
      <3>9. Saw(zs, p, p)
        BY <3>2, <3>5 DEF Saw
      <3>10. QED
        BY <3>5, <3>6, <3>7, <3>8, <3>9 DEF Continues
    <2>3. QED
      BY <2>1, <2>2
  <1>4. new = AddLines(zs, rest, p)
    OBVIOUS
  <1>5. Parse(all, 0) = AddLines(xs, rest, 0)
    <2>1. Parse(all, 0) = AddLines(Parse(SubSeq(all, 1, b), 0), rest, 0)
      BY <1>1, ParseSplit
    <2>2. QED
      BY <2>1, <1>1
  <1> HIDE DEF rest, ys, zs, xs
  <1>6. Continues(Parse(all, 0), ys, new) /\ new \in Seq(Rows) /\ Saw(new, p, p)
    <2>1. Continues(AddLines(xs, rest, 0), ys, AddLines(zs, rest, p))
      BY <1>1, <1>2, <1>3, AddLinesContinues
    <2>2. new \in Seq(Rows) /\ Saw(new, p, p)
      <3>1. p \in p..p
        OBVIOUS
      <3>2. QED
        BY <3>1, <1>1, <1>3, <1>4, AddLinesType, AddLinesSaw
    <2>3. QED
      BY <2>1, <2>2, <1>4, <1>5
  <1>7. ParseOf(ys \o new, all)
    <2> DEFINE ps == Parse(all, 0)
    <2>1. PICK k \in Nat, m \in Nat : k = Len(ys) /\ m = Len(new)
      BY <1>3, <1>6
    <2>2. /\ Len(ps) = k + m
          /\ \A i \in 1..k : Same(ps[i], ys[i])
          /\ \A i \in 1..m : Same(ps[k + i], new[i])
      BY <1>6, <2>1 DEF Continues
    <2> HIDE DEF ps
    <2>3. /\ Len(ys \o new) = k + m
          /\ \A i \in 1..k : (ys \o new)[i] = ys[i]
          /\ \A i \in 1..m : (ys \o new)[k + i] = new[i]
      BY <1>3, <1>6, <2>1
    <2>4. ASSUME NEW i \in 1..(k + m) PROVE Same((ys \o new)[i], ps[i])
      <3>1. CASE i \in 1..k
        BY <3>1, <2>2, <2>3 DEF Same
      <3>2. CASE i \in (k + 1)..(k + m)
        <4>1. i - k \in 1..m /\ k + (i - k) = i
          BY <3>2
        <4>2. Same(ps[i], new[i - k]) /\ (ys \o new)[i] = new[i - k]
          BY <4>1, <2>2, <2>3
        <4>3. QED
          BY <4>2 DEF Same
      <3>3. i \in 1..k \/ i \in (k + 1)..(k + m)
        OBVIOUS
      <3>4. QED
        BY <3>1, <3>2, <3>3
    <2>5. QED
      BY <2>2, <2>3, <2>4 DEF ParseOf, Alike, ps
  <1>8. QED
    BY <1>3, <1>6, <1>7 DEF ys
----------------------------------------------------------------------------
(* Prefixes of the file.                                                      *)

(* The complete lines are all, or all but the last.                           *)
LEMMA CompleteIs ==
  ASSUME NEW d \in [lines : Seq(Lines), open : BOOLEAN, mtime : Nat]
  PROVE  /\ Complete(d) \in Seq(Lines) /\ Len(Complete(d)) \in 0..Len(d.lines)
         /\ \A i \in 1..Len(Complete(d)) : Complete(d)[i] = d.lines[i]
  <1>1. d.lines \in Seq(Lines) /\ Len(d.lines) \in Nat
    OBVIOUS
  <1>2. CASE d.open
    <2>1. Complete(d) = SubSeq(d.lines, 1, Len(d.lines) - 1)
      BY <1>2 DEF Complete, Front
    <2>2. QED
      BY <1>1, <2>1
  <1>3. CASE ~d.open
    BY <1>1, <1>3 DEF Complete
  <1>4. QED
    BY <1>2, <1>3

LEMMA CutIs ==
  ASSUME NEW s \in Seq(Lines), NEW n \in 0..Len(s)
  PROVE  /\ SubSeq(s, 1, n) \in Seq(Lines) /\ Len(SubSeq(s, 1, n)) = n
         /\ \A i \in 1..n : SubSeq(s, 1, n)[i] = s[i]
         /\ IsPrefix(SubSeq(s, 1, n), s)
  <1>1. /\ SubSeq(s, 1, n) \in Seq(Lines) /\ Len(SubSeq(s, 1, n)) = n
        /\ \A i \in 1..n : SubSeq(s, 1, n)[i] = s[i]
        /\ n <= Len(s)
    OBVIOUS
  <1>2. QED
    BY <1>1, PrefixMeans

(* What a read has, and the rest of the file as it is now.                    *)
ReadOn(got, s) == got \o SubSeq(s, Len(got) + 1, Len(s))
LEMMA ReadOnIs ==
  ASSUME NEW got \in Seq(Lines), NEW s \in Seq(Lines)
  PROVE  /\ ReadOn(got, s) \in Seq(Lines)
         /\ IsPrefix(got, s) => ReadOn(got, s) = s
         /\ \A b \in Seq(Lines) : IsPrefix(b, got) => IsPrefix(b, ReadOn(got, s))
  <1> DEFINE all == ReadOn(got, s)
             rest == SubSeq(s, Len(got) + 1, Len(s))
  <1>1. Len(got) \in Nat /\ Len(s) \in Nat
    OBVIOUS
  <1>2. rest \in Seq(Lines)
    BY <1>1
  <1>3. Len(got) <= Len(s) => /\ Len(rest) = Len(s) - Len(got)
                             /\ \A i \in 1..Len(rest) : rest[i] = s[Len(got) + i]
    BY <1>1
  <1>4. all = got \o rest
    BY DEF ReadOn
  <1> HIDE DEF rest, all
  <1>5. /\ all \in Seq(Lines) /\ Len(all) = Len(got) + Len(rest) /\ Len(rest) \in Nat
        /\ \A i \in 1..Len(got) : all[i] = got[i]
        /\ \A i \in 1..Len(rest) : all[Len(got) + i] = rest[i]
    <2>1. PICK k \in Nat, m \in Nat : k = Len(got) /\ m = Len(rest)
      BY <1>2
    <2>2. /\ got \o rest \in Seq(Lines) /\ Len(got \o rest) = k + m
          /\ \A i \in 1..k : (got \o rest)[i] = got[i]
          /\ \A i \in 1..m : (got \o rest)[k + i] = rest[i]
      BY <1>2, <2>1
    <2>3. QED
      BY <1>4, <2>1, <2>2
  <1>6. ASSUME IsPrefix(got, s) PROVE all = s
    <2>1. Len(got) <= Len(s) /\ \A i \in 1..Len(got) : got[i] = s[i]
      BY <1>6, PrefixMeans
    <2>2. Len(all) = Len(s)
      BY <1>1, <1>3, <1>5, <2>1
    <2>3. ASSUME NEW i \in 1..Len(s) PROVE all[i] = s[i]
      <3>1. CASE i <= Len(got)
        BY <3>1, <1>1, <1>5, <2>1
      <3>2. CASE i > Len(got)
        <4>1. i - Len(got) \in 1..Len(rest) /\ Len(got) + (i - Len(got)) = i
          BY <3>2, <1>1, <1>3, <2>1
        <4>2. all[i] = rest[i - Len(got)] /\ rest[i - Len(got)] = s[i]
          BY <4>1, <1>3, <1>5, <2>1
        <4>3. QED
          BY <4>2
      <3>3. QED
        BY <3>1, <3>2, <1>1
    <2>4. QED
      BY SMTT(60), <1>5, <2>2, <2>3
  <1>7. ASSUME NEW b \in Seq(Lines), IsPrefix(b, got) PROVE IsPrefix(b, all)
    <2>1. Len(b) \in Nat /\ Len(b) <= Len(got) /\ \A i \in 1..Len(b) : b[i] = got[i]
      BY <1>7, PrefixMeans
    <2>2. Len(b) <= Len(all) /\ \A i \in 1..Len(b) : b[i] = all[i]
      BY <1>1, <1>5, <2>1
    <2>3. QED
      BY <1>5, <2>2, PrefixMeans
  <1>8. QED
    BY <1>5, <1>6, <1>7 DEF all

(* The parents rows saw, when rows are dropped and joined.                    *)
LEMMA SawJoined ==
  ASSUME NEW xs \in Seq(Rows), NEW ys \in Seq(Rows), NEW lo \in Nat, NEW hi \in Nat,
         NEW ls \in Seq(Lines), NEW p \in lo..hi,
         Saw(xs, lo, hi), Saw(ys, p, p), DropLast(xs, Replaced(ls)) \in Seq(Rows)
  PROVE  Saw(DropLast(xs, Replaced(ls)) \o ys, lo, hi)
  <1> DEFINE ds == DropLast(xs, Replaced(ls))
  <1>1. Len(xs) \in Nat /\ Len(xs) - Replaced(ls) \in Int /\ Len(xs) - Replaced(ls) <= Len(xs)
    BY DEF Replaced
  <1>2. \A i \in 1..Len(ds) : i \in 1..Len(xs) /\ ds[i] = xs[i]
    BY <1>1 DEF DropLast
  <1>3. ds \in Seq(Rows)
    OBVIOUS
  <1> HIDE DEF ds
  <1>4. \A i \in 1..Len(ds) : ds[i].parent \in lo..hi
    BY <1>2 DEF Saw
  <1>5. \A i \in 1..Len(ys) : ys[i].parent \in lo..hi
    BY DEF Saw
  <1>6. PICK k \in Nat, m \in Nat : k = Len(ds) /\ m = Len(ys)
    BY <1>3
  <1>7. /\ Len(ds \o ys) = k + m
        /\ \A i \in 1..k : (ds \o ys)[i] = ds[i]
        /\ \A i \in 1..m : (ds \o ys)[k + i] = ys[i]
    BY <1>3, <1>6
  <1>8. ASSUME NEW i \in 1..(k + m) PROVE (ds \o ys)[i].parent \in lo..hi
    <2>1. CASE i \in 1..k
      BY <2>1, <1>4, <1>6, <1>7
    <2>2. CASE i \in (k + 1)..(k + m)
      <3>1. i - k \in 1..m /\ k + (i - k) = i
        BY <2>2
      <3>2. QED
        BY <3>1, <1>5, <1>6, <1>7
    <2>3. i \in 1..k \/ i \in (k + 1)..(k + m)
      OBVIOUS
    <2>4. QED
      BY <2>1, <2>2, <2>3
  <1>9. Saw(ds \o ys, lo, hi)
    BY <1>7, <1>8 DEF Saw
  <1>10. QED
    BY <1>9 DEF ds

(* Rows of one parse of these lines that saw one parent are that parse.       *)
LEMMA ParseIs ==
  ASSUME NEW xs \in Seq(Rows), NEW ls \in Seq(Lines), NEW p \in Nat,
         ParseOf(xs, ls), Saw(xs, p, p)
  PROVE  xs = Parse(ls, p)
  <1>1. /\ Parse(ls, p) \in Seq(Rows) /\ Saw(Parse(ls, p), p, p)
        /\ Alike(Parse(ls, p), Parse(ls, 0)) /\ Alike(xs, Parse(ls, 0))
    BY ParseFacts DEF ParseOf
  <1>2. Alike(xs, Parse(ls, p))
    BY <1>1 DEF Alike, Same
  <1>3. QED
    BY <1>1, <1>2, AlikeIsEqual
----------------------------------------------------------------------------
(* The inductive invariant.                                                   *)

(* What readFileGrowth may return.                                            *)
Growths == [kind : {"none", "grown"}, fp : {None}, rows : {<<>>}, lines : {<<>>}]
    \cup [kind : {"resume"}, fp : Fingerprints, rows : Seq(Rows), lines : Seq(Lines)]
Reads == [lines : Seq(Lines), kept : BOOLEAN, resumed : BOOLEAN, parent : Nat]

IngestTypeOK ==
    /\ TypeOK
    /\ disk.lines # <<>>
    /\ fp \in [Runs -> Fingerprints \cup {None}]
    /\ growth \in [Runs -> Growths]
    /\ read \in [Runs -> Reads]

Taken(r) == pc[r] \notin {"idle", "stat"}
Reading(r) == pc[r] \in {"readOn", "write"}

(* A fingerprint is of the file as it is or as it was.                        *)
TimePasses(r) ==
    Taken(r) => fp[r] # None /\ fp[r].mtime <= disk.mtime /\ fp[r].parent <= parent

(* The rows are the parse of what the cursor covers, and of the file itself
   while its lines are those of the stored version.  The parents they were
   parsed with are the fingerprint's or later ones.                         *)
StoreHolds ==
    /\ cursor # None => entry # None /\ cursor.fp = entry /\ ParseOf(rows, cursor.lines)
    /\ entry # None =>
         /\ entry.mtime <= disk.mtime /\ entry.parent <= parent
         /\ Saw(rows, entry.parent, parent)
         /\ entry.mtime = disk.mtime => ParseOf(rows, disk.lines)

(* The same of the rows a run resumes, as it read them.                       *)
GrowthHolds(r) ==
    growth[r].kind = "resume" =>
        /\ pc[r] \in {"read", "readOn", "readAgain", "write"}
        /\ growth[r].fp.parent = fp[r].parent
        /\ ParseOf(growth[r].rows, growth[r].lines)
        /\ Saw(growth[r].rows, fp[r].parent, parent)

(* A read begins after the fingerprint was taken, and is of the file as it was
   then if the file has not changed since.                                    *)
ReadHolds(r) ==
    /\ Reading(r) =>
         /\ read[r].parent \in fp[r].parent..parent
         /\ read[r].resumed => growth[r].kind = "resume" /\ IsPrefix(growth[r].lines, read[r].lines)
    /\ pc[r] = "readOn" /\ fp[r].mtime = disk.mtime => IsPrefix(read[r].lines, disk.lines)
    /\ pc[r] = "write" /\ fp[r].mtime = disk.mtime => read[r].lines = disk.lines

RunHolds(r) == TimePasses(r) /\ GrowthHolds(r) /\ ReadHolds(r)

IngestInv == IngestTypeOK /\ StoreHolds /\ \A r \in Runs : RunHolds(r)

LEMMA Kinds ==
  ASSUME NEW g \in Growths
  PROVE  /\ g.lines \in Seq(Lines) /\ g.kind \in {"none", "grown", "resume"}
         /\ g.kind = "resume" => g.fp \in Fingerprints /\ g.rows \in Seq(Rows)
         /\ NoGrowth \in Growths /\ NoGrowth.kind = "none"
         /\ [NoGrowth EXCEPT !.kind = "grown"] \in Growths
  <1> DEFINE grown == [NoGrowth EXCEPT !.kind = "grown"]
             Plain == [kind : {"none", "grown"}, fp : {None}, rows : {<<>>}, lines : {<<>>}]
             Resumable == [kind : {"resume"}, fp : Fingerprints, rows : Seq(Rows), lines : Seq(Lines)]
  <1>1. NoGrowth \in Plain /\ grown \in Plain /\ NoGrowth.kind = "none"
    BY DEF NoGrowth
  <1>2. <<>> \in Seq(Lines)
    OBVIOUS
  <1>3. g \in Plain \/ g \in Resumable
    BY DEF Growths
  <1>4. g \in Plain => g.lines = <<>> /\ g.kind \in {"none", "grown"}
    OBVIOUS
  <1>5. g \in Resumable => /\ g.lines \in Seq(Lines) /\ g.kind = "resume"
                           /\ g.fp \in Fingerprints /\ g.rows \in Seq(Rows)
    OBVIOUS
  <1>6. Plain \subseteq Growths
    BY DEF Growths
  <1> HIDE DEF grown, Plain, Resumable
  <1>7. /\ g.lines \in Seq(Lines) /\ g.kind \in {"none", "grown", "resume"}
        /\ g.kind = "resume" => g.fp \in Fingerprints /\ g.rows \in Seq(Rows)
    BY <1>2, <1>3, <1>4, <1>5
  <1>8. NoGrowth \in Growths /\ grown \in Growths
    BY <1>1, <1>6
  <1>9. QED
    BY <1>1, <1>7, <1>8 DEF grown

LEMMA ReadNothing == NothingRead \in Reads /\ NothingRead.resumed = FALSE
  BY DEF NothingRead, Reads

(* A step of run r leaves the other runs alone.                               *)
Alone(r) == \A q \in Runs \ {r} :
    pc'[q] = pc[q] /\ fp'[q] = fp[q] /\ growth'[q] = growth[q] /\ read'[q] = read[q]

LEMMA OthersHold ==
  ASSUME IngestInv, NEW r \in Runs, Alone(r), disk' = disk, parent' = parent
  PROVE  \A q \in Runs \ {r} : RunHolds(q)'
  BY DEF IngestInv, RunHolds, TimePasses, GrowthHolds, ReadHolds, Taken, Reading, Alone

LEMMA StoreStays ==
  ASSUME IngestInv, UNCHANGED <<disk, parent, storeVars>>
  PROVE  StoreHolds'
  BY DEF IngestInv, StoreHolds, storeVars

LEMMA RunMoves ==
  ASSUME IngestInv, NEW r \in Runs, Alone(r), UNCHANGED <<disk, parent, storeVars>>,
         IngestTypeOK', RunHolds(r)'
  PROVE  IngestInv'
  <1>1. \A q \in Runs \ {r} : RunHolds(q)'
    BY OthersHold
  <1>2. StoreHolds'
    BY StoreStays
  <1>3. QED
    BY <1>1, <1>2 DEF IngestInv

(* A step of the tool leaves a version of its own.                            *)
LEMMA ToolMoves ==
  ASSUME IngestInv, NEW d \in [lines : Seq(Lines), open : BOOLEAN, mtime : Nat], disk' = d,
         d.lines # <<>>, d.mtime = disk.mtime + 1, UNCHANGED <<parent, storeVars, runVars>>
  PROVE  IngestInv'
  <1> USE DEF storeVars, runVars
  <1>1. IngestTypeOK'
    BY DEF IngestInv, IngestTypeOK, TypeOK
  <1>2. disk.mtime \in Nat /\ disk'.mtime = disk.mtime + 1
    BY DEF IngestInv, IngestTypeOK, TypeOK
  <1>3. StoreHolds'
    <2>1. entry # None => entry.mtime \in Nat
      BY DEF IngestInv, IngestTypeOK, TypeOK, Fingerprints
    <2>2. QED
      BY <1>2, <2>1 DEF IngestInv, StoreHolds
  <1>4. ASSUME NEW r \in Runs PROVE RunHolds(r)'
    <2>1. fp[r] # None => fp[r].mtime \in Nat
      BY DEF IngestInv, IngestTypeOK, Fingerprints
    <2>2. TimePasses(r)'
      BY <1>2, <2>1 DEF IngestInv, RunHolds, TimePasses, Taken
    <2>3. GrowthHolds(r)'
      BY DEF IngestInv, RunHolds, GrowthHolds
    <2>4. ReadHolds(r)'
      BY <1>2, <2>1 DEF IngestInv, RunHolds, TimePasses, Taken, ReadHolds, Reading
    <2>5. QED
      BY <2>2, <2>3, <2>4 DEF RunHolds
  <1>5. QED
    BY <1>1, <1>3, <1>4 DEF IngestInv
LEMMA IngestInit == Init => IngestInv
  <1> SUFFICES ASSUME Init PROVE IngestInv
    OBVIOUS
  <1>1. IngestTypeOK
    <2>1. disk \in [lines : Seq(Lines), open : BOOLEAN, mtime : Nat] /\ disk.lines # <<>>
      BY DEF Init
    <2>2. NoGrowth \in Growths /\ NothingRead \in Reads
      BY DEF Growths, Reads, NoGrowth, NothingRead
    <2>3. QED
      BY <2>1, <2>2, NothingAdded DEF Init, IngestTypeOK, TypeOK, Reads
  <1>2. StoreHolds
    BY DEF Init, StoreHolds
  <1>3. \A r \in Runs : RunHolds(r)
    BY DEF Init, RunHolds, TimePasses, GrowthHolds, ReadHolds, Taken, Reading, NoGrowth
  <1>4. QED
    BY <1>1, <1>2, <1>3 DEF IngestInv

LEMMA ToolKeeps ==
  ASSUME IngestInv, AppendLine \/ EndLine \/ Rewrite
  PROVE  IngestInv'
  <1> DEFINE Disks == [lines : Seq(Lines), open : BOOLEAN, mtime : Nat]
  <1>1. disk \in Disks /\ disk.lines # <<>>
    BY DEF IngestInv, IngestTypeOK, TypeOK
  <1>2. disk' \in Disks /\ disk'.lines # <<>> /\ disk'.mtime = disk.mtime + 1
    <2>1. CASE AppendLine
      BY <1>1, <2>1 DEF AppendLine
    <2>2. CASE EndLine
      BY <1>1, <2>2 DEF EndLine
    <2>3. CASE Rewrite
      <3>1. PICK n \in 1..MaxLen, l \in Lines :
              \/ disk' = [lines |-> [i \in 1..n |-> l], open |-> FALSE, mtime |-> disk.mtime + 1]
              \/ /\ n < Len(disk.lines)
                 /\ disk' = [lines |-> SubSeq(disk.lines, 1, n), open |-> FALSE,
                             mtime |-> disk.mtime + 1]
        BY <2>3 DEF Rewrite
      <3>2. n \in Nat /\ [i \in 1..n |-> l] \in Seq(Lines) /\ [i \in 1..n |-> l] # <<>>
        BY IngestAssumption
      <3>3. n < Len(disk.lines) =>
              SubSeq(disk.lines, 1, n) \in Seq(Lines) /\ SubSeq(disk.lines, 1, n) # <<>>
        BY <1>1, <3>2
      <3>4. disk.mtime + 1 \in Nat
        BY <1>1
      <3>5. ASSUME NEW ls \in Seq(Lines), ls # <<>>,
                   disk' = [lines |-> ls, open |-> FALSE, mtime |-> disk.mtime + 1]
            PROVE  disk' \in Disks /\ disk'.lines # <<>> /\ disk'.mtime = disk.mtime + 1
        BY <3>4, <3>5
      <3>6. CASE disk' = [lines |-> [i \in 1..n |-> l], open |-> FALSE, mtime |-> disk.mtime + 1]
        BY <3>2, <3>5, <3>6
      <3>7. CASE /\ n < Len(disk.lines)
                 /\ disk' = [lines |-> SubSeq(disk.lines, 1, n), open |-> FALSE,
                             mtime |-> disk.mtime + 1]
        BY <3>3, <3>5, <3>7
      <3>8. QED
        BY <3>1, <3>6, <3>7
    <2>4. QED
      BY <2>1, <2>2, <2>3
  <1>3. UNCHANGED <<parent, storeVars, runVars>>
    BY DEF AppendLine, EndLine, Rewrite
  <1>4. QED
    BY <1>2, <1>3, ToolMoves

(* What rows and reads saw of the dependency stays between the fingerprint's
   version and the latest.                                                    *)
LEMMA SawLater ==
  ASSUME NEW xs, NEW lo \in Nat, NEW hi \in Nat, Saw(xs, lo, hi)
  PROVE  Saw(xs, lo, hi + 1)
  BY DEF Saw

LEMMA ParentKeeps ==
  ASSUME IngestInv, ParentChanges
  PROVE  IngestInv'
  <1> USE DEF storeVars, runVars
  <1>0. /\ parent \in Nat /\ parent' = parent + 1
        /\ UNCHANGED <<disk, entry, rows, cursor, pc, fp, growth, read>>
    BY DEF IngestInv, IngestTypeOK, TypeOK, ParentChanges
  <1>1. IngestTypeOK'
    BY <1>0 DEF IngestInv, IngestTypeOK, TypeOK
  <1>2. StoreHolds'
    <2>1. entry # None => entry.parent \in Nat
      BY DEF IngestInv, IngestTypeOK, TypeOK, Fingerprints
    <2>2. entry # None => Saw(rows, entry.parent, parent')
      BY <1>0, <2>1, SawLater DEF IngestInv, StoreHolds
    <2>3. entry # None => entry.parent <= parent'
      BY <1>0, <2>1 DEF IngestInv, StoreHolds
    <2>4. QED
      BY <1>0, <2>2, <2>3 DEF IngestInv, StoreHolds
  <1>3. ASSUME NEW r \in Runs PROVE RunHolds(r)'
    <2>1. fp[r] # None => fp[r].parent \in Nat
      BY DEF IngestInv, IngestTypeOK, Fingerprints
    <2>2. RunHolds(r)
      BY DEF IngestInv
    <2>3. TimePasses(r)'
      BY <1>0, <2>1, <2>2 DEF RunHolds, TimePasses, Taken
    <2>4. GrowthHolds(r)'
      <3>1. ASSUME growth[r].kind = "resume" PROVE Saw(growth[r].rows, fp[r].parent, parent')
        <4>1. fp[r] # None
          BY <2>2, <3>1 DEF RunHolds, TimePasses, Taken, GrowthHolds
        <4>2. QED
          BY <1>0, <2>1, <2>2, <3>1, <4>1, SawLater DEF RunHolds, GrowthHolds
      <3>2. QED
        BY <1>0, <2>2, <3>1 DEF RunHolds, GrowthHolds
    <2>5. ReadHolds(r)'
      <3>1. Reading(r) => read[r].parent \in fp[r].parent..parent'
        BY <1>0, <2>1, <2>2 DEF RunHolds, ReadHolds, TimePasses, Taken, Reading
      <3>2. QED
        BY <1>0, <2>2, <3>1 DEF RunHolds, ReadHolds, Reading
    <2>6. QED
      BY <2>3, <2>4, <2>5 DEF RunHolds
  <1>4. QED
    BY <1>1, <1>2, <1>3 DEF IngestInv
----------------------------------------------------------------------------
(* The steps of a run.                                                        *)

LEMMA StartKeeps ==
  ASSUME IngestInv, NEW r \in Runs, Start(r)
  PROVE  IngestInv'
  <1>1. /\ pc[r] = "idle" /\ pc' = [pc EXCEPT ![r] = "stat"]
        /\ UNCHANGED <<disk, parent, storeVars, fp, growth, read>>
    BY DEF Start, Goto
  <1>2. IngestTypeOK'
    BY <1>1 DEF IngestInv, IngestTypeOK, TypeOK, storeVars
  <1>3. Alone(r) /\ pc'[r] = "stat"
    BY <1>1 DEF Alone, IngestInv, IngestTypeOK, TypeOK
  <1>4. growth[r].kind # "resume"
    BY <1>1 DEF IngestInv, RunHolds, GrowthHolds
  <1>5. RunHolds(r)'
    BY <1>1, <1>3, <1>4 DEF RunHolds, TimePasses, GrowthHolds, ReadHolds, Taken, Reading
  <1>6. QED
    BY <1>1, <1>2, <1>3, <1>5, RunMoves

LEMMA StatFileKeeps ==
  ASSUME IngestInv, NEW r \in Runs, StatFile(r)
  PROVE  IngestInv'
  <1>1. /\ pc[r] = "stat" /\ pc' = [pc EXCEPT ![r] = "statParent"]
        /\ fp' = [fp EXCEPT ![r] = Fingerprint]
        /\ UNCHANGED <<disk, parent, storeVars, growth, read>>
    BY DEF StatFile, Goto
  <1>2. /\ Fingerprint \in Fingerprints /\ Fingerprint # None
        /\ Fingerprint.mtime = disk.mtime /\ Fingerprint.parent = parent
        /\ disk.mtime \in Nat /\ parent \in Nat
    <2>1. /\ disk.lines \in Seq(Lines) /\ disk.lines # <<>>
          /\ disk.open \in BOOLEAN /\ disk.mtime \in Nat /\ parent \in Nat
      BY DEF IngestInv, IngestTypeOK, TypeOK
    <2>2. Len(disk.lines) \in Nat \ {0}
      BY <2>1
    <2>3. Size(disk) \in Nat
      BY <2>2 DEF Size
    <2>4. Fingerprint \in Fingerprints
      BY <2>1, <2>3 DEF Fingerprint, Fingerprints
    <2>5. QED
      BY <2>1, <2>4, IngestAssumption DEF Fingerprint
  <1>3. IngestTypeOK'
    BY <1>1, <1>2 DEF IngestInv, IngestTypeOK, TypeOK, storeVars
  <1>4. Alone(r) /\ pc'[r] = "statParent" /\ fp'[r] = Fingerprint
    BY <1>1 DEF Alone, IngestInv, IngestTypeOK, TypeOK
  <1>5. growth[r].kind # "resume"
    BY <1>1 DEF IngestInv, RunHolds, GrowthHolds
  <1>6. RunHolds(r)'
    BY <1>1, <1>2, <1>4, <1>5 DEF RunHolds, TimePasses, GrowthHolds, ReadHolds, Taken, Reading
  <1>7. QED
    BY <1>1, <1>3, <1>4, <1>6, RunMoves

LEMMA StatParentKeeps ==
  ASSUME IngestInv, NEW r \in Runs, StatParent(r)
  PROVE  IngestInv'
  <1>1. /\ pc[r] = "statParent" /\ pc' = [pc EXCEPT ![r] = "compare"]
        /\ fp' = [fp EXCEPT ![r].parent = parent]
        /\ UNCHANGED <<disk, parent, storeVars, growth, read>>
    BY DEF StatParent, Goto
  <1>2. /\ fp[r] \in Fingerprints /\ fp[r].mtime <= disk.mtime /\ parent \in Nat
    BY <1>1 DEF IngestInv, IngestTypeOK, TypeOK, RunHolds, TimePasses, Taken
  <1>3. PICK f \in Fingerprints : f = [fp[r] EXCEPT !.parent = parent]
    BY <1>2 DEF Fingerprints
  <1>4. f # None /\ f.mtime = fp[r].mtime /\ f.parent = parent
    BY <1>2, <1>3, IngestAssumption DEF Fingerprints
  <1>5. fp' = [fp EXCEPT ![r] = f]
    BY <1>1, <1>3 DEF IngestInv, IngestTypeOK
  <1>6. IngestTypeOK'
    BY <1>1, <1>5 DEF IngestInv, IngestTypeOK, TypeOK, storeVars
  <1>7. Alone(r) /\ pc'[r] = "compare" /\ fp'[r] = f
    BY <1>1, <1>5 DEF Alone, IngestInv, IngestTypeOK, TypeOK
  <1>8. growth[r].kind # "resume"
    BY <1>1 DEF IngestInv, RunHolds, GrowthHolds
  <1>9. RunHolds(r)'
    BY <1>1, <1>2, <1>4, <1>7, <1>8 DEF RunHolds, TimePasses, GrowthHolds, ReadHolds, Taken, Reading
  <1>10. QED
    BY <1>1, <1>6, <1>7, <1>9, RunMoves

LEMMA CompareKeeps ==
  ASSUME IngestInv, NEW r \in Runs, Compare(r)
  PROVE  IngestInv'
  <1>1. PICK to \in {"serve", "growth"} :
          /\ pc[r] = "compare" /\ pc' = [pc EXCEPT ![r] = to]
          /\ UNCHANGED <<disk, parent, storeVars, fp, growth, read>>
    BY DEF Compare, Goto
  <1>2. IngestTypeOK'
    BY <1>1 DEF IngestInv, IngestTypeOK, TypeOK, storeVars
  <1>3. Alone(r) /\ pc'[r] = to
    BY <1>1 DEF Alone, IngestInv, IngestTypeOK, TypeOK
  <1>4. growth[r].kind # "resume" /\ RunHolds(r)
    BY <1>1 DEF IngestInv, RunHolds, GrowthHolds
  <1>5. RunHolds(r)'
    BY <1>1, <1>3, <1>4 DEF RunHolds, TimePasses, GrowthHolds, ReadHolds, Taken, Reading
  <1>6. QED
    BY <1>1, <1>2, <1>3, <1>5, RunMoves

(* A run that ends without a write leaves the store as it is.                 *)
LEMMA ResetHolds ==
  ASSUME IngestInv, NEW r \in Runs, pc' = [pc EXCEPT ![r] = "idle"], Reset(r)
  PROVE  /\ fp' \in [Runs -> Fingerprints \cup {None}] /\ growth' \in [Runs -> Growths]
         /\ read' \in [Runs -> Reads] /\ Alone(r) /\ RunHolds(r)'
  <1>1. NoGrowth \in Growths /\ NoGrowth.kind = "none"
    BY NothingAdded DEF Growths, NoGrowth
  <1>2. /\ fp' \in [Runs -> Fingerprints \cup {None}] /\ growth' \in [Runs -> Growths]
        /\ read' \in [Runs -> Reads]
    BY <1>1, ReadNothing DEF IngestInv, IngestTypeOK, Reset
  <1>3. Alone(r) /\ pc'[r] = "idle" /\ growth'[r] = NoGrowth
    BY DEF Alone, IngestInv, IngestTypeOK, TypeOK, Reset
  <1>4. RunHolds(r)'
    BY <1>1, <1>3 DEF RunHolds, TimePasses, GrowthHolds, ReadHolds, Taken, Reading
  <1>5. QED
    BY <1>2, <1>3, <1>4

LEMMA EndsKeep ==
  ASSUME IngestInv, NEW r \in Runs, Serve(r) \/ NoWrite(r)
  PROVE  IngestInv'
  <1>1. pc' = [pc EXCEPT ![r] = "idle"] /\ Reset(r) /\ UNCHANGED <<disk, parent, storeVars>>
    BY DEF Serve, NoWrite, Goto
  <1>2. /\ fp' \in [Runs -> Fingerprints \cup {None}] /\ growth' \in [Runs -> Growths]
        /\ read' \in [Runs -> Reads] /\ Alone(r) /\ RunHolds(r)'
    BY <1>1, ResetHolds
  <1>3. IngestTypeOK'
    BY <1>1, <1>2 DEF IngestInv, IngestTypeOK, TypeOK, storeVars, Reads
  <1>4. QED
    BY <1>1, <1>2, <1>3, RunMoves
LEMMA ReadGrowthKeeps ==
  ASSUME IngestInv, NEW r \in Runs, ReadGrowth(r)
  PROVE  IngestInv'
  <1> DEFINE resume == [kind |-> "resume", fp |-> entry, rows |-> rows, lines |-> cursor.lines]
             grown == [NoGrowth EXCEPT !.kind = "grown"]
  <1>1. PICK g : g = IF ~OnlyGrown(entry, fp[r]) THEN NoGrowth
                     ELSE IF CursorHolds THEN resume ELSE grown
    OBVIOUS
  <1>2. /\ pc[r] = "growth" /\ pc' = [pc EXCEPT ![r] = "read"]
        /\ growth' = [growth EXCEPT ![r] = g]
        /\ UNCHANGED <<disk, parent, storeVars, fp, read>>
    BY <1>1 DEF ReadGrowth, Goto
  <1>3. growth[r] \in Growths /\ grown.kind = "grown"
    BY DEF IngestInv, IngestTypeOK, NoGrowth
  <1>4. CASE OnlyGrown(entry, fp[r]) /\ CursorHolds
    <2>1. g = resume
      BY <1>1, <1>4
    <2>2. entry # None /\ entry.parent = fp[r].parent /\ cursor # None
      BY <1>4 DEF OnlyGrown, CursorHolds
    <2>3. entry \in Fingerprints /\ rows \in Seq(Rows) /\ cursor.lines \in Seq(Lines)
      BY <2>2 DEF IngestInv, IngestTypeOK, TypeOK, Cursors
    <2>4. g \in Growths /\ g.fp = entry /\ g.rows = rows /\ g.lines = cursor.lines
      BY <2>1, <2>3 DEF Growths
    <2>5. ParseOf(rows, cursor.lines) /\ Saw(rows, fp[r].parent, parent)
      BY <2>2 DEF IngestInv, StoreHolds
    <2>6. /\ g \in Growths
          /\ g.fp.parent = fp[r].parent /\ ParseOf(g.rows, g.lines) /\ Saw(g.rows, fp[r].parent, parent)
      BY <2>2, <2>4, <2>5
    <2> HIDE DEF resume, grown
    <2>7. IngestTypeOK'
      BY <1>2, <2>6 DEF IngestInv, IngestTypeOK, TypeOK, storeVars
    <2>8. Alone(r) /\ pc'[r] = "read" /\ growth'[r] = g
      BY <1>2 DEF Alone, IngestInv, IngestTypeOK, TypeOK
    <2>9. RunHolds(r)'
      BY <1>2, <2>6, <2>8 DEF IngestInv, RunHolds, TimePasses, GrowthHolds, ReadHolds, Taken, Reading
    <2>10. QED
      BY <1>2, <2>7, <2>8, <2>9, RunMoves
  <1>5. CASE ~(OnlyGrown(entry, fp[r]) /\ CursorHolds)
    <2>1. g \in Growths /\ g.kind # "resume"
      <3>1. g = NoGrowth \/ g = grown
        BY <1>1, <1>5
      <3> HIDE DEF grown
      <3>2. NoGrowth \in Growths /\ NoGrowth.kind = "none" /\ grown \in Growths
        BY <1>3, Kinds DEF grown
      <3>3. QED
        BY <1>3, <3>1, <3>2
    <2>2. IngestTypeOK'
      BY <1>2, <2>1 DEF IngestInv, IngestTypeOK, TypeOK, storeVars
    <2>3. Alone(r) /\ pc'[r] = "read" /\ growth'[r] = g
      BY <1>2 DEF Alone, IngestInv, IngestTypeOK, TypeOK
    <2>4. RunHolds(r)'
      BY <1>2, <2>1, <2>3 DEF IngestInv, RunHolds, TimePasses, GrowthHolds, ReadHolds, Taken, Reading
    <2>5. QED
      BY <1>2, <2>2, <2>3, <2>4, RunMoves
  <1>6. QED
    BY <1>4, <1>5

(* A step that only reads the file: what it has read fits the run's growth
   and the file.                                                              *)
LEMMA ReadMoves ==
  ASSUME IngestInv, NEW r \in Runs, NEW to \in {"readOn", "readAgain", "write"}, NEW x \in Reads,
         pc[r] \in {"read", "readOn", "readAgain"}, pc' = [pc EXCEPT ![r] = to],
         read' = [read EXCEPT ![r] = x], UNCHANGED <<disk, parent, storeVars, fp, growth>>,
         to # "readAgain" => x.parent \in fp[r].parent..parent,
         x.resumed => growth[r].kind = "resume" /\ IsPrefix(growth[r].lines, x.lines),
         to = "readOn" => IsPrefix(x.lines, disk.lines),
         to = "write" /\ fp[r].mtime = disk.mtime => x.lines = disk.lines
  PROVE  IngestInv'
  <1>1. IngestTypeOK'
    BY DEF IngestInv, IngestTypeOK, TypeOK, storeVars, Reads
  <1>2. Alone(r) /\ pc'[r] = to /\ read'[r] = x
    BY DEF Alone, IngestInv, IngestTypeOK, TypeOK
  <1>3. RunHolds(r)
    BY DEF IngestInv
  <1>4. TimePasses(r)'
    BY <1>2, <1>3 DEF RunHolds, TimePasses, Taken
  <1>5. GrowthHolds(r)'
    BY <1>2, <1>3 DEF RunHolds, GrowthHolds
  <1>6. ReadHolds(r)'
    BY <1>2, <1>3 DEF RunHolds, ReadHolds, Reading
  <1>7. RunHolds(r)'
    BY <1>4, <1>5, <1>6 DEF RunHolds
  <1>8. QED
    BY <1>1, <1>2, <1>7, RunMoves

(* What a run has by the time it reads.                                       *)
LEMMA ReadFacts ==
  ASSUME IngestInv, NEW r \in Runs, Taken(r)
  PROVE  /\ disk \in [lines : Seq(Lines), open : BOOLEAN, mtime : Nat]
         /\ disk.lines \in Seq(Lines) /\ Len(disk.lines) \in Nat
         /\ fp[r] \in Fingerprints /\ fp[r].parent \in Nat /\ fp[r].mtime \in Nat
         /\ parent \in Nat /\ disk.mtime \in Nat /\ fp[r].parent <= parent
         /\ parent \in fp[r].parent..parent
         /\ growth[r] \in Growths /\ growth[r].lines \in Seq(Lines)
         /\ read[r] \in Reads /\ read[r].lines \in Seq(Lines) /\ Len(read[r].lines) \in Nat
  <1>1. /\ disk \in [lines : Seq(Lines), open : BOOLEAN, mtime : Nat] /\ parent \in Nat
        /\ fp[r] \in Fingerprints /\ growth[r] \in Growths /\ read[r] \in Reads
        /\ fp[r].parent <= parent
    BY DEF IngestInv, IngestTypeOK, TypeOK, RunHolds, TimePasses
  <1>2. fp[r].parent \in Nat /\ fp[r].mtime \in Nat
    BY <1>1 DEF Fingerprints
  <1>3. read[r].lines \in Seq(Lines)
    BY <1>1 DEF Reads
  <1>4. growth[r].lines \in Seq(Lines)
    BY <1>1, Kinds
  <1>5. QED
    BY <1>1, <1>2, <1>3, <1>4

LEMMA BeginReadKeeps ==
  ASSUME IngestInv, NEW r \in Runs, BeginRead(r)
  PROVE  IngestInv'
  <1> DEFINE from == IF Resumes(r) THEN Len(growth[r].lines) ELSE 0
             all == Complete(disk)
  <1>1. /\ pc[r] = "read" /\ pc' = [pc EXCEPT ![r] = "readOn"]
        /\ UNCHANGED <<disk, parent, storeVars, fp, growth>>
    BY DEF BeginRead, Goto
  <1>2. Taken(r)
    BY <1>1 DEF Taken
  <1>3. /\ growth[r] \in Growths /\ growth[r].lines \in Seq(Lines) /\ Len(growth[r].lines) \in Nat
        /\ disk.lines \in Seq(Lines) /\ Len(disk.lines) \in Nat /\ parent \in fp[r].parent..parent
        /\ parent \in Nat
    BY <1>2, ReadFacts
  <1>4. /\ all \in Seq(Lines) /\ Len(all) \in 0..Len(disk.lines)
        /\ \A i \in 1..Len(all) : all[i] = disk.lines[i]
    BY <1>2, ReadFacts, CompleteIs
  <1>5. PICK keep \in BOOLEAN, n \in from..Len(all) :
          read' = [read EXCEPT ![r] = [lines |-> SubSeq(disk.lines, 1, n), kept |-> keep,
                                       resumed |-> Resumes(r), parent |-> parent]]
    <2>1. growth[r].kind \in {"none", "grown", "resume"}
      BY <1>3, Kinds
    <2>2. QED
      BY <2>1 DEF BeginRead
  <1> DEFINE cut == SubSeq(disk.lines, 1, n)
             x == [lines |-> cut, kept |-> keep, resumed |-> Resumes(r), parent |-> parent]
  <1>6. n \in 0..Len(disk.lines) /\ n <= Len(all) /\ from <= n
    BY <1>3, <1>4, <1>5
  <1>7. /\ cut \in Seq(Lines) /\ Len(cut) = n /\ \A i \in 1..n : cut[i] = disk.lines[i]
        /\ IsPrefix(cut, disk.lines)
    BY <1>3, <1>6, CutIs
  <1>8. Resumes(r) \in BOOLEAN
    BY <1>3, <1>4, PrefixMeans DEF Resumes
  <1> HIDE DEF cut, all
  <1>9. x \in Reads /\ x.lines = cut /\ x.resumed = Resumes(r) /\ x.parent = parent
    BY <1>3, <1>7, <1>8 DEF Reads
  <1>10. ASSUME Resumes(r) PROVE growth[r].kind = "resume" /\ IsPrefix(growth[r].lines, cut)
    <2>1. growth[r].kind = "resume" /\ IsPrefix(growth[r].lines, all)
      BY <1>10 DEF Resumes, all
    <2>2. \A i \in 1..Len(growth[r].lines) : growth[r].lines[i] = all[i]
      BY <1>3, <1>4, <2>1, PrefixMeans
    <2>3. Len(growth[r].lines) <= n
      BY <1>6, <1>10
    <2>4. Len(growth[r].lines) <= Len(cut) /\ \A i \in 1..Len(growth[r].lines) : growth[r].lines[i] = cut[i]
      <3>1. PICK b \in Nat, m \in Nat : b = Len(growth[r].lines) /\ m = Len(all) /\ b <= n /\ n <= m
        BY <1>3, <1>4, <1>6, <2>3
      <3>2. ASSUME NEW i \in 1..b PROVE growth[r].lines[i] = cut[i]
        <4>1. i \in 1..n /\ i \in 1..m
          BY <3>1, <1>6
        <4>2. QED
          BY <4>1, <3>1, <1>4, <1>7, <2>2
      <3>3. QED
        BY <3>1, <3>2, <1>7
    <2>5. QED
      BY <1>3, <1>7, <2>1, <2>4, PrefixMeans
  <1>11. read' = [read EXCEPT ![r] = x]
    BY <1>5 DEF cut
  <1> HIDE DEF x
  <1>12. QED
    BY <1>1, <1>3, <1>7, <1>9, <1>10, <1>11, ReadMoves

LEMMA ReadAgainKeeps ==
  ASSUME IngestInv, NEW r \in Runs, ReadAgain(r)
  PROVE  IngestInv'
  <1>1. /\ pc[r] = "readAgain" /\ pc' = [pc EXCEPT ![r] = "readOn"]
        /\ UNCHANGED <<disk, parent, storeVars, fp, growth>>
    BY DEF ReadAgain, Goto
  <1>2. Taken(r)
    BY <1>1 DEF Taken
  <1>3. /\ disk.lines \in Seq(Lines) /\ Len(disk.lines) \in Nat /\ parent \in fp[r].parent..parent
        /\ parent \in Nat
    BY <1>2, ReadFacts
  <1>4. PICK n \in 0..Len(Complete(disk)) :
          read' = [read EXCEPT ![r] = [NothingRead EXCEPT !.lines = SubSeq(disk.lines, 1, n),
                                                          !.parent = parent]]
    BY DEF ReadAgain
  <1>5. n \in 0..Len(disk.lines)
    BY <1>2, <1>3, <1>4, ReadFacts, CompleteIs
  <1> DEFINE cut == SubSeq(disk.lines, 1, n)
             x == [NothingRead EXCEPT !.lines = cut, !.parent = parent]
  <1>6. cut \in Seq(Lines) /\ IsPrefix(cut, disk.lines)
    BY <1>3, <1>5, CutIs
  <1> HIDE DEF cut
  <1>7. x \in Reads /\ x.lines = cut /\ x.resumed = FALSE /\ x.parent = parent
    BY <1>3, <1>6 DEF Reads, NothingRead
  <1>8. read' = [read EXCEPT ![r] = x]
    BY <1>4 DEF cut
  <1> HIDE DEF x
  <1>9. QED
    BY <1>1, <1>3, <1>6, <1>7, <1>8, ReadMoves
LEMMA EndReadKeeps ==
  ASSUME IngestInv, NEW r \in Runs, EndRead(r)
  PROVE  IngestInv'
  <1> DEFINE got == read[r].lines
             end == Len(disk.lines)
  <1>1. pc[r] = "readOn" /\ UNCHANGED <<disk, parent, storeVars, fp, growth>>
    BY DEF EndRead
  <1>2. Taken(r) /\ Reading(r)
    BY <1>1 DEF Taken, Reading
  <1>3. /\ disk.lines \in Seq(Lines) /\ Len(disk.lines) \in Nat /\ read[r] \in Reads
        /\ got \in Seq(Lines) /\ Len(got) \in Nat /\ growth[r].lines \in Seq(Lines)
    BY <1>2, ReadFacts
  <1>4. /\ read[r].parent \in fp[r].parent..parent
        /\ read[r].resumed => growth[r].kind = "resume" /\ IsPrefix(growth[r].lines, got)
        /\ fp[r].mtime = disk.mtime => IsPrefix(got, disk.lines)
    BY <1>1, <1>2 DEF IngestInv, RunHolds, ReadHolds
  <1>5. PICK from \in {Len(got)} \cup (IF read[r].resumed THEN {0} ELSE {}) :
          \/ pc' = [pc EXCEPT ![r] = "readAgain"] /\ read' = [read EXCEPT ![r] = NothingRead]
          \/ /\ pc' = [pc EXCEPT ![r] = "write"]
             /\ read' = [read EXCEPT
                  ![r].lines = SubSeq(got, 1, from) \o SubSeq(disk.lines, from + 1, end),
                  ![r].resumed = @ /\ from = Len(got)]
    BY DEF EndRead
  <1>6. CASE pc' = [pc EXCEPT ![r] = "readAgain"] /\ read' = [read EXCEPT ![r] = NothingRead]
    BY <1>1, <1>6, ReadNothing, ReadMoves
  <1>7. CASE /\ pc' = [pc EXCEPT ![r] = "write"]
             /\ read' = [read EXCEPT
                  ![r].lines = SubSeq(got, 1, from) \o SubSeq(disk.lines, from + 1, end),
                  ![r].resumed = @ /\ from = Len(got)]
    <2> DEFINE all == SubSeq(got, 1, from) \o SubSeq(disk.lines, from + 1, end)
               x == [read[r] EXCEPT !.lines = all, !.resumed = @ /\ from = Len(got)]
    <2>1. /\ all \in Seq(Lines)
          /\ fp[r].mtime = disk.mtime => all = disk.lines
          /\ from = Len(got) /\ read[r].resumed => IsPrefix(growth[r].lines, all)
      <3>1. CASE from = Len(got)
        <4>1. SubSeq(got, 1, from) = got
          BY <1>3, <3>1
        <4>2. all = ReadOn(got, disk.lines)
          BY <3>1, <4>1 DEF ReadOn
        <4> HIDE DEF all, got
        <4>3. /\ all \in Seq(Lines)
              /\ IsPrefix(got, disk.lines) => all = disk.lines
              /\ \A b \in Seq(Lines) : IsPrefix(b, got) => IsPrefix(b, all)
          BY <1>3, <4>2, ReadOnIs
        <4>4. QED
          BY <1>3, <1>4, <4>3
      <3>2. CASE from # Len(got)
        <4>1. from = 0
          BY <1>5, <3>2
        <4>2. SubSeq(got, 1, from) = <<>> /\ SubSeq(disk.lines, from + 1, end) = disk.lines
          BY <1>3, <4>1
        <4>3. all = disk.lines
          BY <1>3, <4>2
        <4>4. QED
          BY <1>3, <3>2, <4>3
      <3>3. QED
        BY <3>1, <3>2
    <2> HIDE DEF all, got
    <2>2. /\ x \in Reads /\ x.lines = all /\ x.parent = read[r].parent
          /\ x.resumed = (read[r].resumed /\ from = Len(got))
      <3>1. read[r] \in [lines : Seq(Lines), kept : BOOLEAN, resumed : BOOLEAN, parent : Nat]
        BY <1>3 DEF Reads
      <3>2. (read[r].resumed /\ from = Len(got)) \in BOOLEAN
        OBVIOUS
      <3>3. QED
        BY <2>1, <3>1, <3>2 DEF Reads
    <2>3. read' = [read EXCEPT ![r] = x]
      BY <1>7 DEF IngestInv, IngestTypeOK, all, got
    <2> HIDE DEF x
    <2>4. /\ x.parent \in fp[r].parent..parent
          /\ x.resumed => growth[r].kind = "resume" /\ IsPrefix(growth[r].lines, x.lines)
          /\ fp[r].mtime = disk.mtime => x.lines = disk.lines
      BY <1>4, <2>1, <2>2
    <2>5. QED
      BY <1>1, <1>7, <2>2, <2>3, <2>4, ReadMoves
  <1>8. QED
    BY <1>5, <1>6, <1>7

(* What a run is about to store or report of the lines it read.               *)
LEMMA WriteFacts ==
  ASSUME IngestInv, NEW r \in Runs, pc[r] = "write"
  PROVE  /\ NewRows(r) \in Seq(Rows) /\ Saw(NewRows(r), read[r].parent, read[r].parent)
         /\ ~read[r].resumed => ParseOf(NewRows(r), read[r].lines)
         /\ read[r].resumed =>
              /\ growth[r].kind = "resume"
              /\ \A rs \in Seq(Rows) : ParseOf(rs, growth[r].lines) =>
                   /\ DropLast(rs, Replaced(growth[r].lines)) \in Seq(Rows)
                   /\ ParseOf(DropLast(rs, Replaced(growth[r].lines)) \o NewRows(r), read[r].lines)
  <1> DEFINE p == read[r].parent
  <1>1. Taken(r) /\ Reading(r)
    BY DEF Taken, Reading
  <1>2. /\ read[r].lines \in Seq(Lines) /\ growth[r].lines \in Seq(Lines) /\ p \in Nat
        /\ read[r].resumed \in BOOLEAN
    BY <1>1, ReadFacts DEF Reads
  <1>3. CASE ~read[r].resumed
    <2>1. NewRows(r) = Parse(read[r].lines, p)
      BY <1>3 DEF NewRows
    <2>2. QED
      BY <1>2, <1>3, <2>1, ParseFacts
  <1>4. CASE read[r].resumed
    <2>1. growth[r].kind = "resume" /\ IsPrefix(growth[r].lines, read[r].lines)
      BY <1>1, <1>4 DEF IngestInv, RunHolds, ReadHolds
    <2>2. NewRows(r) = AddLines(OpenRows(growth[r].lines, p),
              SubSeq(read[r].lines, Len(growth[r].lines) + 1, Len(read[r].lines)), p)
      BY <1>4 DEF NewRows
    <2>3. ASSUME NEW rs \in Seq(Rows), ParseOf(rs, growth[r].lines)
          PROVE  /\ DropLast(rs, Replaced(growth[r].lines)) \in Seq(Rows) /\ NewRows(r) \in Seq(Rows)
                 /\ Saw(NewRows(r), p, p)
                 /\ ParseOf(DropLast(rs, Replaced(growth[r].lines)) \o NewRows(r), read[r].lines)
      BY <1>2, <2>1, <2>2, <2>3, ResumeJoins
    <2>4. Parse(growth[r].lines, 0) \in Seq(Rows) /\ ParseOf(Parse(growth[r].lines, 0), growth[r].lines)
      BY <1>2, ParseFacts
    <2>5. NewRows(r) \in Seq(Rows) /\ Saw(NewRows(r), p, p)
      BY <2>3, <2>4
    <2>6. QED
      BY <1>4, <2>1, <2>3, <2>5
  <1>5. QED
    BY <1>2, <1>3, <1>4

LEMMA SawFrom ==
  ASSUME NEW xs, NEW lo \in Nat, NEW hi \in Nat, NEW p \in lo..hi, Saw(xs, p, p)
  PROVE  Saw(xs, lo, hi)
  BY DEF Saw

LEMMA WriteKeeps ==
  ASSUME IngestInv, NEW r \in Runs, Write(r)
  PROVE  IngestInv'
  <1> DEFINE lines == read[r].lines
             f == fp[r]
             p == read[r].parent
             kept == DropLast(rows, Replaced(growth[r].lines))
  <1>1. /\ pc[r] = "write" /\ pc' = [pc EXCEPT ![r] = "idle"] /\ Reset(r)
        /\ UNCHANGED <<disk, parent>>
    BY DEF Write, Goto
  <1>2. Taken(r) /\ Reading(r)
    BY <1>1 DEF Taken, Reading
  <1>3. /\ fp' \in [Runs -> Fingerprints \cup {None}] /\ growth' \in [Runs -> Growths]
        /\ read' \in [Runs -> Reads] /\ Alone(r) /\ RunHolds(r)'
    BY <1>1, ResetHolds
  <1>4. /\ f \in Fingerprints /\ f # None /\ f.parent \in Nat /\ parent \in Nat /\ p \in f.parent..parent
        /\ f.mtime <= disk.mtime /\ f.parent <= parent /\ lines \in Seq(Lines)
        /\ f.mtime = disk.mtime => lines = disk.lines
    BY <1>1, <1>2, ReadFacts DEF IngestInv, RunHolds, TimePasses, ReadHolds
  <1>5. CASE UNCHANGED storeVars
    <2>1. IngestTypeOK'
      BY <1>1, <1>3, <1>5 DEF IngestInv, IngestTypeOK, TypeOK, storeVars, Reads
    <2>2. QED
      BY <1>1, <1>3, <1>5, <2>1, RunMoves
  <1>6. CASE ~UNCHANGED storeVars
    <2>1. /\ read[r].resumed => AppendFits(r)
          /\ entry' = f /\ cursor' = StoredCursor(r)
          /\ rows' = IF read[r].resumed THEN kept \o NewRows(r) ELSE NewRows(r)
      BY <1>6 DEF Write
    <2>2. rows' \in Seq(Rows) /\ ParseOf(rows', lines) /\ Saw(rows', f.parent, parent)
      <3>1. CASE ~read[r].resumed
        <4>1. rows' = NewRows(r)
          BY <2>1, <3>1
        <4>2. QED
          BY <1>1, <1>4, <3>1, <4>1, WriteFacts, SawFrom
      <3>2. CASE read[r].resumed
        <4>1. /\ entry = growth[r].fp /\ cursor # None /\ cursor.fp = entry
              /\ cursor.lines = growth[r].lines
          BY <2>1, <3>2 DEF AppendFits, CursorHolds
        <4>2. growth[r].fp.parent = f.parent /\ growth[r].lines \in Seq(Lines)
          BY <1>1, <1>2, <3>2, ReadFacts, WriteFacts DEF IngestInv, RunHolds, GrowthHolds
        <4>3. rows \in Seq(Rows) /\ ParseOf(rows, growth[r].lines) /\ Saw(rows, f.parent, parent)
          BY <4>1, <4>2 DEF IngestInv, IngestTypeOK, TypeOK, StoreHolds
        <4>4. /\ kept \in Seq(Rows) /\ NewRows(r) \in Seq(Rows) /\ Saw(NewRows(r), p, p)
              /\ ParseOf(kept \o NewRows(r), lines)
          BY <1>1, <3>2, <4>3, WriteFacts
        <4>5. Saw(kept \o NewRows(r), f.parent, parent)
          BY <1>4, <4>2, <4>3, <4>4, SawJoined
        <4>6. rows' = kept \o NewRows(r)
          BY <2>1, <3>2
        <4> HIDE DEF kept
        <4>7. QED
          BY <4>4, <4>5, <4>6
      <3>3. QED
        BY <3>1, <3>2
    <2>3. cursor' \in Cursors \cup {None} /\ (cursor' # None => cursor'.fp = f /\ cursor'.lines = lines)
      BY <1>4, <2>1 DEF StoredCursor, Cursors
    <2>4. StoreHolds'
      BY <1>1, <1>4, <2>1, <2>2, <2>3 DEF StoreHolds
    <2>5. IngestTypeOK'
      BY <1>1, <1>3, <1>4, <2>1, <2>2, <2>3 DEF IngestInv, IngestTypeOK, TypeOK, Reads
    <2>6. \A q \in Runs \ {r} : RunHolds(q)'
      BY <1>1, <1>3, OthersHold
    <2>7. QED
      BY <1>3, <2>4, <2>5, <2>6 DEF IngestInv
  <1>7. QED
    BY <1>5, <1>6

LEMMA IngestStep ==
  ASSUME IngestInv, [Next]_vars
  PROVE  IngestInv'
  <1>1. CASE AppendLine \/ EndLine \/ Rewrite
    BY <1>1, ToolKeeps
  <1>2. CASE ParentChanges
    BY <1>2, ParentKeeps
  <1>3. ASSUME NEW r \in Runs, Start(r) \/ Step(r) \/ NoWrite(r)
        PROVE  IngestInv'
    BY <1>3, StartKeeps, StatFileKeeps, StatParentKeeps, CompareKeeps, EndsKeep, ReadGrowthKeeps,
       BeginReadKeeps, EndReadKeeps, ReadAgainKeeps, WriteKeeps DEF Step
  <1>4. CASE UNCHANGED vars
    <2>1. UNCHANGED <<disk, parent, entry, rows, cursor, pc, fp, growth, read>>
      BY <1>4 DEF vars, storeVars, runVars
    <2>2. IngestTypeOK' /\ StoreHolds'
      BY <2>1 DEF IngestInv, IngestTypeOK, TypeOK, StoreHolds
    <2>3. ASSUME NEW r \in Runs PROVE RunHolds(r)'
      BY <2>1 DEF IngestInv, RunHolds, TimePasses, GrowthHolds, ReadHolds, Taken, Reading
    <2>4. QED
      BY <2>2, <2>3 DEF IngestInv
  <1>5. QED
    BY <1>1, <1>2, <1>3, <1>4 DEF Next
(* The store, the runs' fingerprints and what they read fit each other at
   every moment, whatever the runs and the tool do in between.                *)
THEOREM IngestInvariant == Spec => []IngestInv
  <1>1. Init => IngestInv
    BY IngestInit
  <1>2. IngestInv /\ [Next]_vars => IngestInv'
    BY IngestStep
  <1>3. QED
    BY <1>1, <1>2, PTL DEF Spec

(* While the stored fingerprint is the file's own, the stored rows are the
   file's parse, for any number of runs, lines and changes of the file
   (readParsedFileFromEventStore serves them without reading the file).       *)
THEOREM StoredRowsAreTheFile == Spec => []CurrentIsExact
  <1>1. IngestInv => CurrentIsExact
    <2> SUFFICES ASSUME IngestInv, entry = Fingerprint PROVE rows = Parse(disk.lines, parent)
      BY DEF CurrentIsExact
    <2>1. disk.lines \in Seq(Lines) /\ parent \in Nat /\ rows \in Seq(Rows)
      BY DEF IngestInv, IngestTypeOK, TypeOK
    <2>2. entry.mtime = disk.mtime /\ entry.parent = parent
      BY DEF Fingerprint
    <2>3. entry # None
      <3>1. CASE entry = None
        <4>1. Len(disk.lines) \in Nat \ {0} /\ disk.mtime \in Nat
          BY <2>1 DEF IngestInv, IngestTypeOK, TypeOK
        <4>2. Size(disk) \in Nat
          BY <4>1 DEF Size
        <4>3. Fingerprint \in Fingerprints
          BY <2>1, <4>1, <4>2 DEF Fingerprint, Fingerprints
        <4>4. QED
          BY <3>1, <4>3, IngestAssumption
      <3>2. QED
        BY <3>1
    <2>4. ParseOf(rows, disk.lines) /\ Saw(rows, parent, parent)
      BY <2>2, <2>3 DEF IngestInv, StoreHolds
    <2>5. QED
      BY <2>1, <2>4, ParseIs
  <1>2. QED
    BY <1>1, IngestInvariant, PTL

(* The stored rows are the rows of the lines the stored cursor covers
   (writeFileReadCursor, in the transaction that writes the rows).            *)
THEOREM CursorsContinueTheRows == Spec => []CursorPairsRows
  <1>1. IngestInv => CursorPairsRows
    <2> SUFFICES ASSUME IngestInv, CursorHolds PROVE Untagged(rows) = Untagged(Parse(cursor.lines, 0))
      BY DEF CursorPairsRows
    <2>1. Alike(rows, Parse(cursor.lines, 0))
      BY DEF IngestInv, StoreHolds, ParseOf, CursorHolds
    <2>2. Len(rows) = Len(Parse(cursor.lines, 0)) /\
          \A i \in 1..Len(rows) : /\ rows[i].first = Parse(cursor.lines, 0)[i].first
                                 /\ rows[i].last = Parse(cursor.lines, 0)[i].last
      BY <2>1 DEF Alike, Same
    <2>3. QED
      BY <2>2 DEF Untagged
  <1>2. QED
    BY <1>1, IngestInvariant, PTL

(* What a run reports of a file it read is the file's parse, if the file is
   still the one its fingerprint names (joinResumedRead).                     *)
THEOREM ReportsAreTheFile == Spec => []ReportIsExact
  <1>1. IngestInv => ReportIsExact
    <2> SUFFICES ASSUME IngestInv, NEW r \in Runs, pc[r] = "write", fp[r] = Fingerprint
                 PROVE  ReportRows(r) = Parse(disk.lines, parent)
      BY DEF ReportIsExact
    <2>1. Taken(r) /\ Reading(r)
      BY DEF Taken, Reading
    <2>2. disk.lines \in Seq(Lines) /\ parent \in Nat /\ growth[r] \in Growths /\ read[r].resumed \in BOOLEAN
      BY <2>1, ReadFacts DEF Reads
    <2>3. fp[r].mtime = disk.mtime /\ fp[r].parent = parent
      BY DEF Fingerprint
    <2>4. read[r].parent = parent /\ read[r].lines = disk.lines
      BY <2>1, <2>2, <2>3 DEF IngestInv, RunHolds, ReadHolds
    <2>5. ReportRows(r) \in Seq(Rows) /\ ParseOf(ReportRows(r), disk.lines) /\ Saw(ReportRows(r), parent, parent)
      <3>1. CASE ~read[r].resumed
        BY <2>4, <3>1, WriteFacts DEF ReportRows
      <3>2. CASE read[r].resumed
        <4> DEFINE gs == growth[r].rows
                   kept == DropLast(gs, Replaced(growth[r].lines))
        <4>1. growth[r].kind = "resume" /\ gs \in Seq(Rows) /\ growth[r].lines \in Seq(Lines)
          BY <2>2, <3>2, Kinds, WriteFacts
        <4>2. ParseOf(gs, growth[r].lines) /\ Saw(gs, parent, parent)
          BY <2>3, <4>1 DEF IngestInv, RunHolds, GrowthHolds
        <4>3. /\ kept \in Seq(Rows) /\ NewRows(r) \in Seq(Rows) /\ Saw(NewRows(r), parent, parent)
              /\ ParseOf(kept \o NewRows(r), disk.lines)
          BY <2>4, <3>2, <4>1, <4>2, WriteFacts
        <4>4. parent \in parent..parent
          BY <2>2
        <4>5. Saw(kept \o NewRows(r), parent, parent)
          BY <2>2, <4>1, <4>2, <4>3, <4>4, SawJoined
        <4>6. ReportRows(r) = kept \o NewRows(r)
          BY <3>2 DEF ReportRows
        <4> HIDE DEF kept
        <4>7. QED
          BY <4>3, <4>5, <4>6
      <3>3. QED
        BY <3>1, <3>2
    <2>6. QED
      BY <2>2, <2>5, ParseIs
  <1>2. QED
    BY <1>1, IngestInvariant, PTL
===============================================================================
