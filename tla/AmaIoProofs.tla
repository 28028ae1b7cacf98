---------------------------- MODULE AmaIoProofs ----------------------------
(***************************************************************************)
(* Theorems about AmaWire and AmaLoop, for every value of their constants: *)
(* the bytes of a connection, and the loop that finds it readable.         *)
(***************************************************************************)
EXTENDS AmaWire, AmaLoop, SharedLemmas

Piece == [id : Nat, does : Kinds, to : People, last : BOOLEAN]

\* p is the end of a stream of lines, cut between two pieces at both ends: of the lines
\* e + 1 to e + m, without the first t pieces, and then the first u pieces of the
\* next.
Shape(p, t, e, m, u) ==
  /\ Len(p) = 2 * m + u - t
  /\ \A j \in 1..m : p[2 * j - t].last /\ p[2 * j - t].id = e + j
  /\ \A j \in 1..m + u :
       2 * j - 1 - t >= 1 => ~p[2 * j - 1 - t].last /\ p[2 * j - 1 - t].id = e + j

\* What is sent joins what is there.
LEMMA ShapeConcat ==
  ASSUME NEW p \in Seq(Piece), NEW q \in Seq(Piece), NEW t \in {0, 1},
         NEW e \in Nat, NEW m \in Nat, NEW n \in Nat,
         Shape(p, t, e, m, 0), Shape(q, 0, e + m, n, 0)
  PROVE  Shape(p \o q, t, e, m + n, 0)
<1> DEFINE r == p \o q
<1>1. /\ Len(p) \in Nat /\ Len(p) = 2 * m - t /\ Len(q) = 2 * n
      /\ Len(r) = 2 * (m + n) - t
      /\ \A x \in 1..Len(p) : r[x] = p[x]
      /\ \A x \in 1..Len(q) : r[Len(p) + x] = q[x]
  <2>1. Len(p) \in Nat /\ Len(q) \in Nat
    BY LenProperties
  <2>2. Len(p) = 2 * m - t /\ Len(q) = 2 * n
    BY DEF Shape
  <2>3. /\ Len(r) = Len(p) + Len(q)
        /\ \A x \in 1..Len(p) : r[x] = p[x]
        /\ \A x \in 1..Len(q) : r[Len(p) + x] = q[x]
    BY <2>1
  <2>4. Len(r) = 2 * (m + n) - t
    BY <2>2, <2>3
  <2> QED
    BY <2>1, <2>2, <2>3, <2>4
<1> HIDE DEF r
<1>6. Len(p) \in Nat /\ Len(p) = 2 * m - t /\ Len(q) = 2 * n
  BY <1>1
<1>2. ASSUME NEW j \in 1..m + n
      PROVE  r[2 * j - t].last /\ r[2 * j - t].id = e + j
  <2>1. CASE j <= m
    <3>1. j \in 1..m /\ 2 * j - t \in 1..Len(p)
      BY <1>6, <2>1
    <3>2. p[2 * j - t].last /\ p[2 * j - t].id = e + j
      BY <3>1 DEF Shape
    <3>3. r[2 * j - t] = p[2 * j - t]
      BY <1>1, <3>1
    <3> QED
      BY <3>2, <3>3
  <2>2. CASE j > m
    <3>1. /\ j - m \in 1..n /\ 2 * (j - m) \in 1..Len(q)
          /\ 2 * j - t = Len(p) + 2 * (j - m) /\ (e + m) + (j - m) = e + j
          /\ 2 * (j - m) - 0 = 2 * (j - m)
      BY <1>6, <2>2
    <3>2. q[2 * (j - m) - 0].last /\ q[2 * (j - m) - 0].id = (e + m) + (j - m)
      BY <3>1 DEF Shape
    <3>3. r[2 * j - t] = q[2 * (j - m)]
      BY <1>1, <3>1
    <3> QED
      BY <3>1, <3>2, <3>3
  <2> QED
    BY <2>1, <2>2
<1>3. ASSUME NEW j \in 1..m + n, 2 * j - 1 - t >= 1
      PROVE  ~r[2 * j - 1 - t].last /\ r[2 * j - 1 - t].id = e + j
  <2>1. CASE j <= m
    <3>1. j \in 1..m + 0 /\ 2 * j - 1 - t \in 1..Len(p)
      BY <1>6, <1>3, <2>1
    <3>2. ~p[2 * j - 1 - t].last /\ p[2 * j - 1 - t].id = e + j
      BY <1>3, <3>1 DEF Shape
    <3>3. r[2 * j - 1 - t] = p[2 * j - 1 - t]
      BY <1>1, <3>1
    <3> QED
      BY <3>2, <3>3
  <2>2. CASE j > m
    <3>1. /\ j - m \in 1..n + 0 /\ 2 * (j - m) - 1 \in 1..Len(q)
          /\ 2 * j - 1 - t = Len(p) + (2 * (j - m) - 1) /\ (e + m) + (j - m) = e + j
          /\ 2 * (j - m) - 1 - 0 = 2 * (j - m) - 1 /\ 2 * (j - m) - 1 >= 1
      BY <1>6, <2>2
    <3>2. /\ ~q[2 * (j - m) - 1 - 0].last
          /\ q[2 * (j - m) - 1 - 0].id = (e + m) + (j - m)
      BY <3>1 DEF Shape
    <3>3. r[2 * j - 1 - t] = q[2 * (j - m) - 1]
      BY <1>1, <3>1
    <3> QED
      BY <3>1, <3>2, <3>3
  <2> QED
    BY <2>1, <2>2
<1>4. Len(r) = 2 * (m + n) + 0 - t /\ m + n + 0 = m + n
  BY <1>1
<1>5. Shape(r, t, e, m + n, 0)
  BY <1>2, <1>3, <1>4 DEF Shape
<1> QED
  BY <1>5 DEF r

\* A read divides what is there into two.
LEMMA ShapeCut ==
  ASSUME NEW p \in Seq(Piece), NEW t \in {0, 1}, NEW e \in Nat, NEW m \in Nat,
         Shape(p, t, e, m, 0), NEW n \in 1..Len(p)
  PROVE  \E h \in 0..m, u \in {0, 1} :
           /\ Shape(SubSeq(p, 1, n), t, e, h, u)
           /\ Shape(SubSeq(p, n + 1, Len(p)), u, e + h, m - h, 0)
           /\ p[n].last <=> u = 0
           /\ u = 1 => p[n].id = e + h + 1
<1>1. Len(p) = 2 * m - t /\ Len(p) \in Nat
  BY DEF Shape
<1>2. PICK h \in 0..m, u \in {0, 1} : n = 2 * h + u - t
  <2> DEFINE h == (n + t) \div 2
             u == (n + t) % 2
  <2>1. n + t \in Nat /\ n + t <= 2 * m
    BY <1>1
  <2>2. h \in 0..m /\ u \in {0, 1} /\ n + t = 2 * h + u
    BY <2>1
  <2> HIDE DEF h, u
  <2>3. n = 2 * h + u - t
    BY <2>2
  <2> QED
    BY <2>2, <2>3
<1> DEFINE a == SubSeq(p, 1, n)
           b == SubSeq(p, n + 1, Len(p))
<1>3. /\ Len(a) = n /\ \A x \in 1..n : a[x] = p[x]
      /\ Len(b) = Len(p) - n /\ \A x \in 1..Len(p) - n : b[x] = p[n + x]
  BY <1>1
<1> HIDE DEF a, b
<1>4. Shape(a, t, e, h, u)
  <2>1. \A j \in 1..h : j \in 1..m /\ 2 * j - t \in 1..n
    BY <1>2
  <2>2. \A j \in 1..h : a[2 * j - t].last /\ a[2 * j - t].id = e + j
    BY <1>3, <2>1 DEF Shape
  <2>3. \A j \in 1..h + u :
          2 * j - 1 - t >= 1 => j \in 1..m + 0 /\ 2 * j - 1 - t \in 1..n
    BY <1>1, <1>2
  <2>4. \A j \in 1..h + u :
          2 * j - 1 - t >= 1 => ~a[2 * j - 1 - t].last /\ a[2 * j - 1 - t].id = e + j
    BY <1>3, <2>3 DEF Shape
  <2> QED
    BY <1>2, <1>3, <2>2, <2>4 DEF Shape
<1>5. Shape(b, u, e + h, m - h, 0)
  <2>1. Len(b) = 2 * (m - h) + 0 - u
    BY <1>1, <1>2, <1>3
  <2>2. ASSUME NEW j \in 1..m - h
        PROVE  b[2 * j - u].last /\ b[2 * j - u].id = e + h + j
    <3>1. /\ h + j \in 1..m /\ 2 * j - u \in 1..Len(p) - n
          /\ n + (2 * j - u) = 2 * (h + j) - t /\ e + (h + j) = e + h + j
      BY <1>1, <1>2
    <3>2. p[2 * (h + j) - t].last /\ p[2 * (h + j) - t].id = e + (h + j)
      BY <3>1 DEF Shape
    <3>3. b[2 * j - u] = p[2 * (h + j) - t]
      BY <1>3, <3>1
    <3> QED
      BY <3>1, <3>2, <3>3
  <2>3. ASSUME NEW j \in 1..m - h + 0, 2 * j - 1 - u >= 1
        PROVE  ~b[2 * j - 1 - u].last /\ b[2 * j - 1 - u].id = e + h + j
    <3>1. /\ h + j \in 1..m + 0 /\ 2 * j - 1 - u \in 1..Len(p) - n
          /\ 2 * (h + j) - 1 - t >= 1
          /\ n + (2 * j - 1 - u) = 2 * (h + j) - 1 - t /\ e + (h + j) = e + h + j
      BY <1>1, <1>2, <2>3
    <3>2. ~p[2 * (h + j) - 1 - t].last /\ p[2 * (h + j) - 1 - t].id = e + (h + j)
      BY <3>1 DEF Shape
    <3>3. b[2 * j - 1 - u] = p[2 * (h + j) - 1 - t]
      BY <1>3, <3>1
    <3> QED
      BY <3>1, <3>2, <3>3
  <2> QED
    BY <2>1, <2>2, <2>3 DEF Shape
<1>6. (p[n].last <=> u = 0) /\ (u = 1 => p[n].id = e + h + 1)
  <2>1. CASE u = 0
    <3>1. h \in 1..m /\ n = 2 * h - t
      BY <1>2, <2>1
    <3> QED
      BY <2>1, <3>1 DEF Shape
  <2>2. CASE u = 1
    <3>1. h + 1 \in 1..m + 0 /\ n = 2 * (h + 1) - 1 - t /\ n >= 1 /\ e + (h + 1) = e + h + 1
      BY <1>1, <1>2, <2>2
    <3>2. ~p[2 * (h + 1) - 1 - t].last /\ p[2 * (h + 1) - 1 - t].id = e + (h + 1)
      BY <3>1 DEF Shape
    <3> QED
      BY <2>2, <3>1, <3>2
  <2> QED
    BY <2>1, <2>2
<1> QED
  BY <1>4, <1>5, <1>6 DEF a, b

\* Complete keeps the ends of lines, and their order.
LEMMA CompleteSelects ==
  ASSUME NEW p \in Seq(Piece)
  PROVE  /\ [k \in 1..Len(p) |-> Ending(p, k)] \in Seq(Text)
         /\ Complete(p) \in Seq(Text)
         /\ \E at : Selects([k \in 1..Len(p) |-> Ending(p, k)],
                            {k \in 1..Len(p) : ~p[k].last}, Complete(p), at)
<1> DEFINE K == {k \in 1..Len(p) : ~p[k].last}
           s == [k \in 1..Len(p) |-> Ending(p, k)]
           upTo == CHOOSE g : g = [k \in 0..Len(p) |->
                     IF k = 0 THEN <<>>
                     ELSE IF p[k].last THEN Append(g[k - 1], Ending(p, k))
                     ELSE g[k - 1]]
<1>0. Len(p) \in Nat /\ \A k \in 1..Len(p) : p[k] \in Piece
  BY LenProperties, ElementOfSeq
<1>1. Complete(p) = upTo[Len(p)]
  BY DEF Complete
<1>2. s \in Seq(Text) /\ Len(s) = Len(p)
  <2>1. \A k \in 1..Len(p) : Ending(p, k) \in Text
    BY <1>0 DEF Ending, Text, Piece
  <2> QED
    BY <1>0, <2>1
<1>3. PICK g : Keeps(s, K, g)
  BY <1>2, KeptExists
<1>4. \A k \in 0..Len(p) : k # 0 => (k \in K <=> ~p[k].last) /\ s[k] = Ending(p, k)
  BY <1>0
<1> HIDE DEF K, s
<1>5. ASSUME NEW h
      PROVE  Keeps(s, K, h) <=>
               h = [k \in 0..Len(p) |->
                      IF k = 0 THEN <<>>
                      ELSE IF p[k].last THEN Append(h[k - 1], Ending(p, k))
                      ELSE h[k - 1]]
  <2>1. \A k \in 0..Len(p) :
          (IF k = 0 THEN <<>>
           ELSE IF k \in K THEN h[k - 1] ELSE Append(h[k - 1], s[k]))
          = (IF k = 0 THEN <<>>
             ELSE IF p[k].last THEN Append(h[k - 1], Ending(p, k)) ELSE h[k - 1])
    BY <1>4
  <2> QED
    BY <1>2, <2>1 DEF Keeps
<1>6. Keeps(s, K, upTo)
  BY <1>3, <1>5
<1> HIDE DEF upTo
<1>7. upTo[Len(s)] \in Seq(Text) /\ \E at : Selects(s, K, upTo[Len(s)], at)
  BY <1>2, <1>6, KeptProperties
<1> QED
  BY <1>1, <1>2, <1>7 DEF K, s

\* Every line whose end is there is found once, in order, and is whole unless its head
\* was there before.
LEMMA CompleteShape ==
  ASSUME NEW p \in Seq(Piece), NEW t \in {0, 1}, NEW e \in Nat, NEW m \in Nat,
         NEW u \in {0, 1}, Shape(p, t, e, m, u)
  PROVE  /\ Complete(p) \in Seq(Text)
         /\ Len(Complete(p)) = m
         /\ \A j \in 1..m : /\ Complete(p)[j].id = e + j
                            /\ Complete(p)[j].whole <=> ~(j = 1 /\ t = 1)
<1> DEFINE s == [k \in 1..Len(p) |-> Ending(p, k)]
           K == {k \in 1..Len(p) : ~p[k].last}
           r == Complete(p)
<1>0. Len(p) \in Nat /\ Len(p) = 2 * m + u - t
  BY LenProperties DEF Shape
<1>1. PICK at : r \in Seq(Text) /\ s \in Seq(Text) /\ Selects(s, K, r, at)
  BY CompleteSelects
<1>2. Len(r) \in Nat /\ Len(s) = Len(p)
  BY <1>0, <1>1, LenProperties
<1>3. \A k \in 1..Len(p) : k \notin K <=> \E j \in 1..m : k = 2 * j - t
  <2> SUFFICES ASSUME NEW k \in 1..Len(p) PROVE p[k].last <=> \E j \in 1..m : k = 2 * j - t
    OBVIOUS
  <2>1. CASE \E j \in 1..m : k = 2 * j - t
    BY <2>1 DEF Shape
  <2>2. CASE ~\E j \in 1..m : k = 2 * j - t
    <3> DEFINE j == (k + t + 1) \div 2
    <3>1. k + t + 1 \in Nat /\ (k + t + 1 = 2 * j \/ k + t + 1 = 2 * j + 1) /\ j \in Int
      OBVIOUS
    <3> HIDE DEF j
    <3>2. CASE k + t + 1 = 2 * j + 1
      <4>1. j \in 1..m /\ k = 2 * j - t
        BY <1>0, <3>1, <3>2
      <4> QED
        BY <2>2, <4>1
    <3>3. CASE k + t + 1 = 2 * j
      <4>1. j \in 1..m + u /\ k = 2 * j - 1 - t /\ k >= 1
        BY <1>0, <3>1, <3>3
      <4>2. ~p[2 * j - 1 - t].last
        BY <4>1 DEF Shape
      <4> QED
        BY <2>2, <4>1, <4>2
    <3> QED
      BY <3>1, <3>2, <3>3
  <2> QED
    BY <2>1, <2>2
<1> HIDE DEF K
<1>4. /\ \A j \in 1..Len(r) : /\ at[j] \in 1..Len(p) /\ r[j] = s[at[j]]
                              /\ at[j] \notin K
      /\ \A j, k \in 1..Len(r) : j < k => at[j] < at[k]
      /\ \A k \in 1..Len(p) : k \notin K => \E j \in 1..Len(r) : at[j] = k
  BY <1>1, <1>2 DEF Selects
<1> HIDE DEF r, s
<1>5. \A j \in 1..Len(r) : j \in 1..m /\ at[j] = 2 * j - t
  <2> DEFINE T == {j \in 0..Len(r) : j # 0 => j \in 1..m /\ at[j] = 2 * j - t}
  <2>1. 0 \in T
    BY <1>2
  <2>2. ASSUME NEW k \in 0..Len(r), k # Len(r), k \in T
        PROVE  k + 1 \in T
    <3>1. k + 1 \in 1..Len(r) /\ k \in Nat
      BY <1>2, <2>2
    <3>2. PICK j \in 1..m : at[k + 1] = 2 * j - t
      BY <1>3, <1>4, <3>1
    <3>3. j >= k + 1
      <4>1. CASE k = 0
        BY <4>1
      <4>2. CASE k # 0
        <5>1. k \in 1..Len(r) /\ k < k + 1 /\ at[k] = 2 * k - t
          BY <1>2, <2>2, <4>2
        <5>2. at[k] < at[k + 1]
          BY <1>4, <3>1, <5>1
        <5> QED
          BY <3>1, <3>2, <5>1, <5>2
      <4> QED
        BY <4>1, <4>2
    <3>4. k + 1 \in 1..m /\ 2 * (k + 1) - t \in 1..Len(p)
      BY <1>0, <3>1, <3>3
    <3>5. PICK x \in 1..Len(r) : at[x] = 2 * (k + 1) - t
      BY <1>3, <1>4, <3>4
    <3>6. ~(x < k + 1)
      <4> SUFFICES ASSUME x < k + 1 PROVE FALSE
        OBVIOUS
      <4>1. k \in 1..Len(r) /\ k # 0 /\ at[k] = 2 * k - t
        BY <1>2, <2>2, <3>1
      <4>2. x = k \/ x < k
        BY <3>1
      <4>3. at[x] = at[k] \/ at[x] < at[k]
        BY <1>4, <4>1, <4>2
      <4> QED
        BY <3>5, <4>1, <4>3
    <3>7. ~(k + 1 < x)
      <4> SUFFICES ASSUME k + 1 < x PROVE FALSE
        OBVIOUS
      <4>1. at[k + 1] < at[x]
        BY <1>4, <3>1
      <4> QED
        BY <3>1, <3>2, <3>3, <3>5, <4>1
    <3>8. x = k + 1
      BY <3>1, <3>6, <3>7
    <3> QED
      BY <3>1, <3>4, <3>5, <3>8
  <2> HIDE DEF T
  <2>3. \A k \in 0..Len(r) : k \in T
    BY <1>2, <2>1, <2>2, CountUp
  <2> QED
    BY <1>2, <2>3 DEF T
<1>6. Len(r) = m
  <2>1. Len(r) <= m
    BY <1>2, <1>5
  <2>2. ASSUME m # 0 PROVE m <= Len(r)
    <3>1. m \in 1..m /\ 2 * m - t \in 1..Len(p)
      BY <1>0, <2>2
    <3>2. PICK j \in 1..Len(r) : at[j] = 2 * m - t
      BY <1>3, <1>4, <3>1
    <3>3. at[j] = 2 * j - t
      BY <1>5
    <3> QED
      BY <1>2, <3>2, <3>3
  <2> QED
    BY <1>2, <2>1, <2>2
<1>7. ASSUME NEW j \in 1..m
      PROVE  r[j].id = e + j /\ (r[j].whole <=> ~(j = 1 /\ t = 1))
  <2> DEFINE k == 2 * j - t
  <2>1. k \in 1..Len(p) /\ r[j] = s[k]
    BY <1>4, <1>5, <1>6
  <2>2. r[j] = Ending(p, k)
    BY <2>1 DEF s
  <2>3. p[k].id = e + j
    BY DEF Shape
  <2>4. k > 1 => ~p[k - 1].last
    <3>1. k > 1 => j \in 1..m + u /\ 2 * j - 1 - t >= 1 /\ k - 1 = 2 * j - 1 - t
      OBVIOUS
    <3> QED
      BY <3>1 DEF Shape
  <2>5. k > 1 <=> ~(j = 1 /\ t = 1)
    OBVIOUS
  <2> HIDE DEF k
  <2>6. r[j].id = p[k].id /\ r[j].whole = (k > 1 /\ ~p[k - 1].last)
    BY <2>2 DEF Ending
  <2> QED
    BY <2>3, <2>4, <2>5, <2>6
<1> QED
  BY <1>1, <1>6, <1>7 DEF r

\* The pieces of a line.
LEMMA PiecesShape ==
  ASSUME NEW e \in Nat, NEW does \in Kinds, NEW to \in People
  PROVE  /\ Pieces(e + 1, does, to) \in Seq(Piece)
         /\ Shape(Pieces(e + 1, does, to), 0, e, 1, 0)
<1> DEFINE q == Pieces(e + 1, does, to)
           piece(k) == [id |-> e + 1, does |-> does, to |-> to, last |-> k = 2]
<1>1. q = [k \in 1..2 |-> piece(k)]
  BY DEF Pieces
<1>2. ASSUME NEW k \in 1..2
      PROVE  piece(k) \in Piece /\ piece(k).id = e + 1 /\ (piece(k).last <=> k = 2)
  <2>1. e + 1 \in Nat /\ (k = 2) \in BOOLEAN
    OBVIOUS
  <2>2. piece(k) \in Piece
    BY <2>1 DEF Piece
  <2>3. piece(k).id = e + 1
    OBVIOUS
  <2>4. piece(k).last <=> k = 2
    OBVIOUS
  <2> QED
    BY <2>2, <2>3, <2>4
<1>3. piece(2).last /\ ~piece(1).last /\ piece(1).id = e + 1 /\ piece(2).id = e + 1
  <2> HIDE DEF piece
  <2> QED
    BY <1>2
<1> HIDE DEF q, piece
<1>4. q \in Seq(Piece) /\ Len(q) = 2 /\ q[1] = piece(1) /\ q[2] = piece(2)
  <2>1. \A k \in 1..2 : q[k] = piece(k) /\ q[k] \in Piece
    BY <1>1, <1>2
  <2>2. q = [k \in 1..2 |-> q[k]]
    BY <1>1
  <2>3. q \in Seq(Piece) /\ Len(q) = 2
    BY <2>1, <2>2
  <2> QED
    BY <2>1, <2>3
<1>5. \A j \in 1..1 + 0 : j = 1 /\ 2 * j - 0 = 2 /\ 2 * j - 1 - 0 = 1
  OBVIOUS
<1> QED
  BY <1>3, <1>4, <1>5 DEF Shape, q

\* The pieces of n things the bot says.
LEMMA BotLinesShape ==
  ASSUME said[Bot] \in Nat, NEW d \in People, NEW n \in Nat, NEW does \in Kinds,
         NEW to \in People
  PROVE  /\ BotLines(d, n, does, to) \in Seq(Piece)
         /\ Shape(BotLines(d, n, does, to), 0, said[Bot], n, 0)
<1> DEFINE b == BotLines(d, n, does, to)
           what(j) == IF j = 1 THEN does ELSE "talk"
           whom(j) == IF j = 1 THEN to ELSE d
           piece(k) == [id |-> said[Bot] + (k + 1) \div 2, does |-> what((k + 1) \div 2),
                        to |-> whom((k + 1) \div 2), last |-> 2 - (k % 2) = 2]
<1>0. \A j : what(j) \in Kinds /\ whom(j) \in People
  BY DEF Kinds
<1>1. ASSUME NEW k \in 1..2 * n
      PROVE  /\ 2 - (k % 2) \in 1..2 /\ said[Bot] + (k + 1) \div 2 \in Nat
             /\ b[k] = piece(k)
  <2>1. 2 - (k % 2) \in 1..2 /\ (k + 1) \div 2 \in Nat
    OBVIOUS
  <2>2. b[k] = Pieces(said[Bot] + (k + 1) \div 2, what((k + 1) \div 2),
                      whom((k + 1) \div 2))[2 - (k % 2)]
    BY DEF BotLines
  <2> HIDE DEF b, what, whom
  <2> QED
    BY <2>1, <2>2 DEF Pieces
<1>2. ASSUME NEW k \in 1..2 * n PROVE b[k] \in Piece
  <2> HIDE DEF b, what, whom
  <2>1. piece(k) \in Piece
    BY <1>0, <1>1 DEF Piece
  <2> QED
    BY <1>1, <2>1
<1>3. b = [k \in 1..2 * n |-> b[k]] /\ 2 * n \in Nat
  BY DEF BotLines
<1> HIDE DEF b, what, whom
<1>4. b \in Seq(Piece) /\ Len(b) = 2 * n
  BY <1>2, <1>3
<1>5. ASSUME NEW j \in 1..n
      PROVE  /\ b[2 * j - 0].last /\ b[2 * j - 0].id = said[Bot] + j
             /\ ~b[2 * j - 1 - 0].last /\ b[2 * j - 1 - 0].id = said[Bot] + j
  <2>1. /\ 2 * j \in 1..2 * n /\ 2 * j - 0 = 2 * j /\ 2 * j - 1 \in 1..2 * n
        /\ 2 * j - 1 - 0 = 2 * j - 1
        /\ (2 * j + 1) \div 2 = j /\ (2 * j - 1 + 1) \div 2 = j
        /\ 2 - ((2 * j) % 2) = 2 /\ 2 - ((2 * j - 1) % 2) # 2
    OBVIOUS
  <2>2. piece(2 * j).last /\ piece(2 * j).id = said[Bot] + j
    BY <2>1
  <2>3. ~piece(2 * j - 1).last /\ piece(2 * j - 1).id = said[Bot] + j
    BY <2>1
  <2> HIDE DEF piece
  <2>4. b[2 * j] = piece(2 * j) /\ b[2 * j - 1] = piece(2 * j - 1)
    BY <1>1, <2>1
  <2>5. 2 * j - 0 = 2 * j /\ 2 * j - 1 - 0 = 2 * j - 1
    BY <2>1
  <2> QED
    BY <2>2, <2>3, <2>4, <2>5
<1> QED
  BY <1>4, <1>5 DEF Shape, b
-----------------------------------------------------------------------------
(* What is true of one client c between two steps: b are the lines of c in *)
(* the segment that is being handled, d how many lines were executed, s    *)
(* how many were sent, p what is on the way and C the lines that were cut. *)
(* Only the first line on the way can have lost its head.                  *)

Good(c, b, d, s, p, C) ==
  /\ d + Len(b) <= s
  /\ \A k \in 1..Len(b) : b[k].id = d + k /\ (b[k].whole <=> <<c, d + k>> \notin C)
  /\ \E t \in {0, 1} : /\ Shape(p, t, d + Len(b), s - (d + Len(b)), 0)
                       /\ t = 1 <=> <<c, d + Len(b) + 1>> \in C
  /\ \A n \in Nat : <<c, n>> \in C => n <= d + Len(b) + 1

Cuts == SUBSET (People \X Nat)

\* A client of whom nothing was read.
LEMMA GoodFresh ==
  ASSUME NEW c, NEW s \in Nat, NEW p, Shape(p, 0, 0, s, 0)
  PROVE  Good(c, <<>>, 0, s, p, {})
<1>1. Len(<<>>) = 0
  BY EmptySeq
<1>2. 0 + Len(<<>>) = 0 /\ s - (0 + Len(<<>>)) = s
  BY <1>1
<1> QED
  BY <1>1, <1>2 DEF Good

\* What makes a stream good.
LEMMA GoodWhen ==
  ASSUME NEW c, NEW b, NEW d, NEW s, NEW p, NEW C,
         d + Len(b) <= s,
         \A k \in 1..Len(b) : b[k].id = d + k /\ (b[k].whole <=> <<c, d + k>> \notin C),
         \E t \in {0, 1} : /\ Shape(p, t, d + Len(b), s - (d + Len(b)), 0)
                           /\ t = 1 <=> <<c, d + Len(b) + 1>> \in C,
         \A n \in Nat : <<c, n>> \in C => n <= d + Len(b) + 1
  PROVE  Good(c, b, d, s, p, C)
BY Zenon DEF Good

\* Only the cuts of c itself matter.
LEMMA GoodOther ==
  ASSUME NEW c, NEW b, NEW d, NEW s, NEW p, NEW C, NEW D,
         Good(c, b, d, s, p, C), \A n : <<c, n>> \in C <=> <<c, n>> \in D
  PROVE  Good(c, b, d, s, p, D)
BY DEF Good

\* c says n lines more.
LEMMA GoodGrows ==
  ASSUME NEW c, NEW b \in Seq(Text), NEW d \in Nat, NEW s \in Nat, NEW p \in Seq(Piece),
         NEW C, NEW q \in Seq(Piece), NEW n \in Nat,
         Good(c, b, d, s, p, C), Shape(q, 0, s, n, 0)
  PROVE  Good(c, b, d, s + n, p \o q, C)
<1> DEFINE e == d + Len(b)
<1>1. e \in Nat /\ e <= s /\ s - e \in Nat /\ e + (s - e) = s /\ (s - e) + n = s + n - e
      /\ e <= s + n
  <2>1. Len(b) \in Nat
    BY LenProperties
  <2> QED
    BY <2>1 DEF Good
<1>2. PICK t \in {0, 1} : Shape(p, t, e, s - e, 0) /\ (t = 1 <=> <<c, e + 1>> \in C)
  BY DEF Good
<1>3. /\ \A k \in 1..Len(b) : b[k].id = d + k /\ (b[k].whole <=> <<c, d + k>> \notin C)
      /\ \A k \in Nat : <<c, k>> \in C => k <= e + 1
  BY DEF Good
<1> HIDE DEF e
<1>4. Shape(q, 0, e + (s - e), n, 0)
  BY <1>1
<1>5. Shape(p \o q, t, e, (s - e) + n, 0)
  BY <1>1, <1>2, <1>4, ShapeConcat
<1>6. Shape(p \o q, t, e, s + n - e, 0)
  BY <1>1, <1>5
<1> QED
  BY <1>1, <1>2, <1>3, <1>6 DEF Good, e

\* The next line of c is executed, and forgotten.
LEMMA GoodDone ==
  ASSUME NEW c, NEW b \in Seq(Text), NEW d \in Nat, NEW s \in Nat, NEW p \in Seq(Piece),
         NEW C, b # <<>>, Good(c, b, d, s, p, C)
  PROVE  Good(c, Tail(b), d + 1, s, p, C \ {<<c, Head(b).id>>})
<1> DEFINE r == Tail(b)
           D == C \ {<<c, Head(b).id>>}
<1>1. /\ Len(b) \in Nat \ {0} /\ Len(r) = Len(b) - 1
      /\ \A k \in 1..Len(r) : r[k] = b[k + 1]
      /\ Head(b) = b[1] /\ d + 1 + Len(r) = d + Len(b)
  BY EmptySeq, LenProperties
<1>2. Head(b).id = d + 1
  <2>1. 1 \in 1..Len(b)
    BY <1>1
  <2> QED
    BY <1>1, <2>1 DEF Good
<1>3. \A n \in Nat : n # d + 1 => (<<c, n>> \in D <=> <<c, n>> \in C)
  BY <1>2
<1> HIDE DEF r, D
<1>4. ASSUME NEW k \in 1..Len(r)
      PROVE  r[k].id = d + 1 + k /\ (r[k].whole <=> <<c, d + 1 + k>> \notin D)
  <2>1. /\ k + 1 \in 1..Len(b) /\ d + (k + 1) = d + 1 + k
        /\ d + 1 + k \in Nat /\ d + 1 + k # d + 1
    BY <1>1
  <2>2. b[k + 1].id = d + (k + 1) /\ (b[k + 1].whole <=> <<c, d + (k + 1)>> \notin C)
    BY <2>1 DEF Good
  <2> QED
    BY <1>1, <1>3, <2>1, <2>2
<1>5. \E t \in {0, 1} : /\ Shape(p, t, d + 1 + Len(r), s - (d + 1 + Len(r)), 0)
                        /\ t = 1 <=> <<c, d + 1 + Len(r) + 1>> \in D
  <2>1. d + Len(b) + 1 \in Nat /\ d + Len(b) + 1 # d + 1
    BY <1>1
  <2> QED
    BY <1>1, <1>3, <2>1 DEF Good
<1>6. \A n \in Nat : <<c, n>> \in D => n <= d + 1 + Len(r) + 1
  BY <1>1, <1>3 DEF Good, D
<1>7. d + 1 + Len(r) <= s
  BY <1>1 DEF Good
<1> QED
  BY <1>4, <1>5, <1>6, <1>7 DEF Good, r, D

\* A read takes n pieces.
LEMMA GoodRead ==
  ASSUME NEW c, NEW d \in Nat, NEW s \in Nat, NEW p \in Seq(Piece), NEW C,
         Good(c, <<>>, d, s, p, C), NEW n \in 1..Len(p)
  PROVE  Good(c, Complete(SubSeq(p, 1, n)), d, s, SubSeq(p, n + 1, Len(p)),
              IF p[n].last THEN C ELSE C \cup {<<c, p[n].id>>})
<1> DEFINE a == SubSeq(p, 1, n)
           b == Complete(a)
           q == SubSeq(p, n + 1, Len(p))
           D == IF p[n].last THEN C ELSE C \cup {<<c, p[n].id>>}
           m == s - d
<1>1. m \in Nat /\ d + m = s
  BY EmptySeq DEF Good
<1>2. PICK t \in {0, 1} : Shape(p, t, d, m, 0) /\ (t = 1 <=> <<c, d + 1>> \in C)
  <2>1. Len(<<>>) = 0 /\ d + 0 = d
    BY EmptySeq
  <2> QED
    BY <2>1 DEF Good
<1>3. \A k \in Nat : <<c, k>> \in C => k <= d + 1
  <2>1. d + Len(<<>>) + 1 = d + 1
    BY EmptySeq
  <2> QED
    BY <2>1 DEF Good
<1> HIDE DEF m
<1>4. PICK h \in 0..m, u \in {0, 1} :
        /\ Shape(a, t, d, h, u)
        /\ Shape(q, u, d + h, m - h, 0)
        /\ p[n].last <=> u = 0
        /\ u = 1 => p[n].id = d + h + 1
  BY <1>1, <1>2, ShapeCut
<1>5. n \in Nat \ {0} /\ Len(p) \in Nat /\ a \in Seq(Piece) /\ Len(a) = n
  <2>1. n \in Nat \ {0} /\ Len(p) \in Nat
    BY LenProperties
  <2> QED
    BY <2>1
<1> HIDE DEF a, q
<1>6. h \in Nat /\ n = 2 * h + u - t
  BY <1>1, <1>4, <1>5 DEF Shape
<1>7. /\ b \in Seq(Text) /\ Len(b) = h
      /\ \A j \in 1..h : b[j].id = d + j /\ (b[j].whole <=> ~(j = 1 /\ t = 1))
  <2>1. Shape(a, t, d, h, u) /\ h \in Nat /\ a \in Seq(Piece)
    BY <1>4, <1>5, <1>6
  <2>2. /\ Complete(a) \in Seq(Text)
        /\ Len(Complete(a)) = h
        /\ \A j \in 1..h : /\ Complete(a)[j].id = d + j
                           /\ Complete(a)[j].whole <=> ~(j = 1 /\ t = 1)
    BY <2>1, CompleteShape
  <2> QED
    BY <2>2
<1> HIDE DEF b
<1>8. \A k \in Nat : k # d + h + 1 => (<<c, k>> \in D <=> <<c, k>> \in C)
  BY <1>4
<1>9. u = 1 <=> <<c, d + h + 1>> \in D
  <2>1. CASE u = 1
    BY <1>4, <2>1
  <2>2. CASE u = 0
    <3>1. h # 0 /\ d + h + 1 \in Nat /\ ~(d + h + 1 <= d + 1)
      BY <1>5, <1>6, <2>2
    <3>2. D = C
      BY <1>4, <2>2
    <3> QED
      BY <1>3, <2>2, <3>1, <3>2
  <2> QED
    BY <2>1, <2>2
<1> HIDE DEF D
<1>10. ASSUME NEW k \in 1..h
       PROVE  b[k].id = d + k /\ (b[k].whole <=> <<c, d + k>> \notin D)
  <2>1. d + k \in Nat /\ d + k # d + h + 1 /\ (k = 1 \/ ~(d + k <= d + 1))
    BY <1>6
  <2>2. <<c, d + k>> \in D <=> <<c, d + k>> \in C
    BY <1>8, <2>1
  <2>3. <<c, d + k>> \in C <=> k = 1 /\ t = 1
    BY <1>2, <1>3, <2>1
  <2> QED
    BY <1>7, <2>2, <2>3
<1>11. ASSUME NEW k \in Nat, <<c, k>> \in D
       PROVE  k <= d + h + 1
  BY <1>3, <1>6, <1>8, <1>11
<1>12. d + h <= s /\ m - h = s - (d + h)
  BY <1>1, <1>6
<1>13. Good(c, b, d, s, q, D)
  <2>1. Shape(q, u, d + Len(b), s - (d + Len(b)), 0)
    BY <1>4, <1>7, <1>12
  <2>2. \E v \in {0, 1} : /\ Shape(q, v, d + Len(b), s - (d + Len(b)), 0)
                          /\ v = 1 <=> <<c, d + Len(b) + 1>> \in D
    BY <1>7, <1>9, <2>1
  <2>3. \A x \in Nat : <<c, x>> \in D => x <= d + Len(b) + 1
    BY <1>7, <1>11
  <2>4. d + Len(b) <= s
    BY <1>7, <1>12
  <2>5. \A k \in 1..Len(b) : b[k].id = d + k /\ (b[k].whole <=> <<c, d + k>> \notin D)
    BY <1>7, <1>10
  <2> QED
    BY <2>2, <2>3, <2>4, <2>5, GoodWhen, Zenon
<1> QED
  BY <1>13 DEF a, b, q, D
-----------------------------------------------------------------------------
(* LinesKept is not inductive by itself: it speaks of the complete lines   *)
(* that are on the way, and the next read may end anywhere.                *)

Mine(c) == IF who = c THEN batch ELSE <<>>
StreamOK(c) == Good(c, Mine(c), done[c], said[c], Sent(c), cut)
Serving ==
  /\ who # Nobody => who \in conn
  /\ pc \in {"serve", "recv"} => todo = {}
  /\ Idle => who = Nobody
  /\ pc \in {"serve", "quit"} => taken = 0
  /\ pc = "recv" => batch = <<>> /\ who # Nobody /\ taken \in 1..Len(stream[who])

WInv == TypeOK /\ Serving /\ \A c \in conn : StreamOK(c)

\* The connections, and the descriptor that stands for none of them.
LEMMA PeopleAreNumbers ==
  /\ People \subseteq Nat /\ Bot \in People /\ Clients \subseteq People
  /\ Nobody \notin People /\ Bot \notin Clients /\ Room \in Nat \ {0}
BY WireConstants DEF People

\* The lines that were read from c and are not executed yet.
LEMMA MineType ==
  ASSUME TypeOK, NEW c
  PROVE  Mine(c) \in Seq(Text)
BY EmptySeq DEF TypeOK, Mine

\* What is missing of the line a client is in.
LEMMA LastPieceType ==
  ASSUME NEW c, said[c] \in Nat
  PROVE  LastPiece(c) \in Piece
<1> DEFINE piece(k) == [id |-> said[c], does |-> "talk", to |-> Bot, last |-> k = 2]
<1>1. LastPiece(c) = [k \in 1..2 |-> piece(k)][2]
  BY DEF LastPiece, Pieces
<1>2. "talk" \in Kinds /\ Bot \in People
  BY PeopleAreNumbers DEF Kinds
<1>3. \A k \in 1..2 : piece(k) \in Piece
  BY <1>2 DEF Piece
<1> HIDE DEF piece
<1> QED
  BY <1>1, <1>3

\* What a client has sent, and what is missing of the line it is in.
LEMMA SentType ==
  ASSUME TypeOK, NEW c \in People
  PROVE  /\ Sent(c) \in Seq(Piece) /\ stream[c] \in Seq(Piece)
         /\ c \notin unended => Sent(c) = stream[c]
         /\ \E q \in Seq(Piece) : Sent(c) = stream[c] \o q
<1> DEFINE q == IF c \in unended THEN <<LastPiece(c)>> ELSE <<>>
<1>1. stream[c] \in Seq(Piece) /\ said[c] \in Nat
  <2>1. stream \in [People -> Seq(Piece)]
    BY DEF TypeOK, Piece
  <2> QED
    BY <2>1 DEF TypeOK
<1>2. LastPiece(c) \in Piece
  BY <1>1, LastPieceType
<1>3. q \in Seq(Piece)
  BY <1>2, EmptySeq
<1>4. Sent(c) = stream[c] \o q
  BY DEF Sent
<1>5. c \notin unended => q = <<>>
  OBVIOUS
<1> HIDE DEF q
<1>6. c \notin unended => Sent(c) = stream[c]
  BY <1>1, <1>4, <1>5, ConcatEmptySeq
<1>7. Sent(c) \in Seq(Piece)
  BY <1>1, <1>3, <1>4
<1> QED
  BY <1>1, <1>3, <1>4, <1>6, <1>7

\* The bot's first line is on its way.
LEMMA WInvInit == Init => WInv
<1> SUFFICES ASSUME Init PROVE WInv
  OBVIOUS
<1> USE PeopleAreNumbers
<1> DEFINE q == Pieces(1, "user", Bot)
<1>1. q \in Seq(Piece) /\ Shape(q, 0, 0, 1, 0)
  <2>1. 0 + 1 = 1 /\ "user" \in Kinds
    BY DEF Kinds
  <2> QED
    BY <2>1, PiecesShape
<1> HIDE DEF q
<1>2. TypeOK
  <2>1. stream \in [People -> Seq(Piece)]
    BY <1>1, EmptySeq DEF Init, q
  <2>2. said \in [People -> Nat] /\ done \in [People -> Nat] /\ unread \in [People -> 0..Room]
    BY DEF Init
  <2>3. /\ peer \in [People -> {"up", "closed", "broken"}] /\ peer[Bot] = "up"
        /\ welcome \in [Clients -> {"none", "due", "told", "lost"}]
    BY DEF Init
  <2>4. batch \in Seq(Text) /\ Idle
    BY EmptySeq DEF Init, Idle
  <2> QED
    BY <2>1, <2>2, <2>3, <2>4 DEF Init, TypeOK, Piece
<1>3. Serving
  BY DEF Init, Serving, Idle
<1>4. ASSUME NEW c \in conn PROVE StreamOK(c)
  <2>1. Mine(c) = <<>> /\ Len(<<>>) = 0 /\ c \in People /\ done[c] = 0 /\ cut = {}
    BY EmptySeq DEF Init, Mine
  <2>4. Sent(c) = stream[c]
    <3>1. c \notin unended
      BY DEF Init
    <3> QED
      BY <1>2, <2>1, <3>1, SentType
  <2>2. CASE c = Bot
    <3>1. said[c] = 1 /\ stream[c] = q
      BY <2>1, <2>2 DEF Init, q
    <3>2. Good(c, <<>>, 0, 1, q, {})
      BY <1>1, GoodFresh
    <3> QED
      BY <2>1, <2>4, <3>1, <3>2 DEF StreamOK
  <2>3. CASE c # Bot
    <3>1. Shape(<<>>, 0, 0, 0, 0)
      BY <2>1 DEF Shape
    <3>2. said[c] = 0 /\ stream[c] = <<>>
      BY <2>1, <2>3 DEF Init
    <3>3. Good(c, <<>>, 0, 0, <<>>, {})
      BY <3>1, GoodFresh
    <3> QED
      BY <2>1, <2>4, <3>2, <3>3 DEF StreamOK
  <2> QED
    BY <2>2, <2>3
<1> QED
  BY <1>2, <1>3, <1>4 DEF WInv

\* A step that changes no stream, and no line that was read.
LEMMA StreamsStay ==
  ASSUME WInv, conn' \subseteq conn,
         \A c \in conn' : /\ Mine(c)' = Mine(c) /\ done'[c] = done[c] /\ said'[c] = said[c]
                          /\ Sent(c)' = Sent(c)
                          /\ \A n : <<c, n>> \in cut' <=> <<c, n>> \in cut
  PROVE  \A c \in conn' : StreamOK(c)'
<1> SUFFICES ASSUME NEW c \in conn' PROVE StreamOK(c)'
  OBVIOUS
<1>1. StreamOK(c)
  BY DEF WInv
<1>2. Good(c, Mine(c), done[c], said[c], Sent(c), cut')
  BY <1>1, GoodOther DEF StreamOK
<1>3. Good(c, Mine(c)', done'[c], said'[c], Sent(c)', cut')
  BY <1>2
<1> QED
  BY <1>3 DEF StreamOK

\* The four ways in which one send() ends.
LEMMA SendOnceType ==
  ASSUME TypeOK, NEW d \in People, pc = "serve",
         NEW got \in [Clients -> {"none", "due", "told", "lost"}],
         NEW missed \in [Clients -> {"none", "due", "told", "lost"}],
         SendOnce(d, got, missed)
  PROVE  /\ pc' \in {"serve", "killed"}
         /\ unread' \in [People -> 0..Room]
         /\ peer' \in [People -> {"up", "closed", "broken"}] /\ peer'[Bot] = "up"
         /\ welcome' \in [Clients -> {"none", "due", "told", "lost"}]
<1> USE PeopleAreNumbers
<1>0. /\ unread \in [People -> 0..Room] /\ peer \in [People -> {"up", "closed", "broken"}]
      /\ peer[Bot] = "up"
  BY DEF TypeOK
<1>1. CASE /\ peer[d] = "up" /\ unread[d] < Room
           /\ unread' = [unread EXCEPT ![d] = @ + 1]
           /\ welcome' = got
           /\ UNCHANGED <<pc, peer>>
  <2>1. unread[d] + 1 \in 0..Room
    BY <1>0, <1>1
  <2> QED
    BY <1>0, <1>1, <2>1
<1>2. CASE /\ peer[d] = "up" /\ unread[d] >= Room
           /\ welcome' = missed
           /\ UNCHANGED <<pc, unread, peer>>
  BY <1>0, <1>2
<1>3. CASE /\ peer[d] = "closed"
           /\ peer' \in {peer, [peer EXCEPT ![d] = "broken"]}
           /\ welcome' = missed
           /\ UNCHANGED <<pc, unread>>
  BY <1>0, <1>3
<1>4. CASE /\ peer[d] = "broken"
           /\ pc' \in {pc, "killed"}
           /\ welcome' = missed
           /\ UNCHANGED <<unread, peer>>
  BY <1>0, <1>4
<1> QED
  BY <1>1, <1>2, <1>3, <1>4 DEF SendOnce

\* What becomes of a welcome.
LEMMA HeardType ==
  ASSUME TypeOK, NEW d, NEW how \in {"told", "lost"}
  PROVE  Heard(d, how) \in [Clients -> {"none", "due", "told", "lost"}]
BY DEF TypeOK, Heard

\* What the bot says while somebody else's line is executed, or its own: m lines, and what it
\* does not get out.
LEMMA BotSaysType ==
  ASSUME TypeOK, NEW d \in People, NEW n \in Nat, BotSays(d, n)
  PROVE  /\ unended' = unended /\ torn' \in People \cup {Nobody}
         /\ \/ stream' = stream /\ said' = said
            \/ \E m \in Nat, q \in Seq(Piece) :
                 /\ Shape(q, 0, said[Bot], m, 0)
                 /\ stream' = [stream EXCEPT ![Bot] = stream[Bot] \o q]
                 /\ said' = [said EXCEPT ![Bot] = said[Bot] + m]
<1> USE PeopleAreNumbers
<1>0. torn \in People \cup {Nobody} /\ said[Bot] \in Nat
  BY DEF TypeOK
<1>1. CASE Bot \notin conn
  BY <1>0, <1>1 DEF BotSays
<1>2. CASE Bot \in conn
  <2>1. PICK m \in 0..n, does \in {"talk", "none"} :
          /\ stream' = [stream EXCEPT ![Bot] =
                          stream[Bot] \o BotLines(d, m, does, IF torn = Nobody THEN d ELSE torn)]
          /\ said' = [said EXCEPT ![Bot] = said[Bot] + m]
          /\ torn' \in IF m = 0 /\ (n = 0 \/ torn # Nobody) THEN {torn}
                      ELSE {Nobody} \cup IF m < n THEN {d} ELSE {}
    BY <1>2 DEF BotSays
  <2> DEFINE to == IF torn = Nobody THEN d ELSE torn
             q == BotLines(d, m, does, to)
  <2>2. m \in Nat /\ to \in People /\ does \in Kinds
    BY <1>0, <2>1 DEF Kinds
  <2> HIDE DEF to
  <2>3. q \in Seq(Piece) /\ Shape(q, 0, said[Bot], m, 0)
    BY <1>0, <2>2, BotLinesShape
  <2>4. stream' = [stream EXCEPT ![Bot] = stream[Bot] \o q]
    BY <2>1 DEF to
  <2>5. torn' \in People \cup {Nobody}
    BY <1>0, <2>1
  <2>6. unended' = unended
    BY DEF BotSays
  <2> HIDE DEF q
  <2> QED
    BY <2>1, <2>2, <2>3, <2>4, <2>5, <2>6
<1> QED
  BY <1>1, <1>2

\* A line that is executed, whatever it says: the bot may say something while it is,
\* also the bot whose line it is.
LEMMA ExecuteKeeps ==
  ASSUME WInv, NEW k, Execute(k), conn' = conn,
         Continue \/ (pc' = "quit" /\ who' = who),
         UNCHANGED input \/ \E d \in People, n \in Nat : BotSays(d, n),
         pc' \in {"serve", "quit", "killed"},
         todo' \subseteq conn \ {who}, pc' = "serve" => todo' = {},
         pc' = "quit" => who' = who,
         logged' \subseteq conn, botnick' \in logged' \cup {Nobody},
         unread' \in [People -> 0..Room],
         peer' \in [People -> {"up", "closed", "broken"}], peer'[Bot] = "up",
         welcome' \in [Clients -> {"none", "due", "told", "lost"}]
  PROVE  WInv'
<1> USE PeopleAreNumbers
<1>0. /\ TypeOK /\ Serving /\ pc = "serve" /\ todo = {} /\ taken = 0
      /\ batch \in Seq(Text) /\ batch # <<>> /\ Tail(batch) \in Seq(Text)
      /\ who \in conn /\ who \in People /\ conn \subseteq People /\ who # Nobody
      /\ stream \in [People -> Seq(Piece)] /\ said \in [People -> Nat]
      /\ done \in [People -> Nat] /\ cut \subseteq People \X Nat
      /\ unended \subseteq Clients /\ torn \in People \cup {Nobody}
  <2>1. pc = "serve" /\ batch # <<>>
    BY DEF Execute
  <2>2. batch \in Seq(Text) /\ Tail(batch) \in Seq(Text)
    BY <2>1, EmptySeq DEF WInv, TypeOK
  <2> QED
    BY <2>1, <2>2 DEF WInv, TypeOK, Serving, Idle, Piece
<1>1. /\ batch' = Tail(batch) /\ done' = [done EXCEPT ![who] = @ + 1]
      /\ cut' = cut \ {<<who, Head(batch).id>>} /\ taken' = 0
      /\ who' = who \/ (who' = Nobody /\ Tail(batch) = <<>> /\ pc' # "quit")
      /\ pc' = "serve" /\ Tail(batch) = <<>> => who' = Nobody
  BY <1>0 DEF Execute, Continue, Line
<1>2. \A c \in People : Mine(c)' = IF c = who THEN Tail(batch) ELSE Mine(c)
  BY <1>0, <1>1 DEF Mine
<1>3. ASSUME NEW c \in conn
      PROVE  Good(c, Mine(c)', done'[c], said[c], Sent(c), cut')
  <2>1. Good(c, Mine(c), done[c], said[c], Sent(c), cut) /\ c \in People
    BY <1>0 DEF WInv, StreamOK
  <2>2. CASE c = who
    <3>1. Mine(c) = batch /\ Mine(c)' = Tail(batch)
      BY <1>2, <2>1, <2>2 DEF Mine
    <3>2. done'[c] = done[c] + 1 /\ done[c] \in Nat /\ said[c] \in Nat
      BY <1>0, <1>1, <2>1, <2>2
    <3>3. Sent(c) \in Seq(Piece)
      BY <1>0, <2>1, SentType
    <3>4. Good(c, batch, done[c], said[c], Sent(c), cut)
      BY <2>1, <3>1
    <3>5. Good(c, Tail(batch), done[c] + 1, said[c], Sent(c),
               cut \ {<<c, Head(batch).id>>})
      BY <1>0, <3>2, <3>3, <3>4, GoodDone
    <3> QED
      BY <1>1, <2>2, <3>1, <3>2, <3>5
  <2>3. CASE c # who
    <3>1. Mine(c)' = Mine(c) /\ done'[c] = done[c]
      BY <1>0, <1>1, <1>2, <2>1, <2>3
    <3>2. \A n : <<c, n>> \in cut <=> <<c, n>> \in cut'
      BY <1>1, <2>3
    <3> QED
      BY <2>1, <3>1, <3>2, GoodOther
  <2> QED
    BY <2>2, <2>3
<1>7. done' \in [People -> Nat]
  <2>1. done \in [People -> Nat] /\ who \in People
    BY <1>0
  <2>2. done' = [done EXCEPT ![who] = @ + 1]
    BY <1>1
  <2> QED
    BY <2>1, <2>2
<1>8. /\ unended' = unended /\ torn' \in People \cup {Nobody}
      /\ \/ stream' = stream /\ said' = said
         \/ \E m \in Nat, q \in Seq(Piece) :
              /\ Shape(q, 0, said[Bot], m, 0)
              /\ stream' = [stream EXCEPT ![Bot] = stream[Bot] \o q]
              /\ said' = [said EXCEPT ![Bot] = said[Bot] + m]
  <2>1. CASE UNCHANGED input
    BY <1>0, <2>1 DEF input
  <2>2. CASE \E d \in People, n \in Nat : BotSays(d, n)
    BY <1>0, <2>2, BotSaysType
  <2> QED
    BY <2>1, <2>2
<1>4. /\ stream' \in [People -> Seq(Piece)] /\ said' \in [People -> Nat]
      /\ \A c \in conn : Good(c, Mine(c)', done'[c], said'[c], Sent(c)', cut')
  <2>1. CASE stream' = stream /\ said' = said
    <3> SUFFICES ASSUME NEW c \in conn
                 PROVE  Good(c, Mine(c)', done'[c], said'[c], Sent(c)', cut')
      BY <1>0, <2>1
    <3>1. Sent(c)' = Sent(c) /\ said'[c] = said[c]
      BY <1>8, <2>1 DEF Sent, LastPiece
    <3>2. Good(c, Mine(c)', done'[c], said[c], Sent(c), cut')
      BY <1>3
    <3> QED
      BY <3>1, <3>2
  <2>2. CASE \E m \in Nat, q \in Seq(Piece) :
               /\ Shape(q, 0, said[Bot], m, 0)
               /\ stream' = [stream EXCEPT ![Bot] = stream[Bot] \o q]
               /\ said' = [said EXCEPT ![Bot] = said[Bot] + m]
    <3>1. PICK n \in Nat, q \in Seq(Piece) :
            /\ Shape(q, 0, said[Bot], n, 0)
            /\ stream' = [stream EXCEPT ![Bot] = stream[Bot] \o q]
            /\ said' = [said EXCEPT ![Bot] = said[Bot] + n]
      BY <2>2
    <3>4. stream[Bot] \in Seq(Piece) /\ said[Bot] \in Nat /\ said[Bot] + n \in Nat
      <4>1. said[Bot] \in Nat
        BY <1>0
      <4>2. stream[Bot] \in Seq(Piece)
        BY <1>0
      <4> QED
        BY <4>1, <4>2
    <3>7. stream[Bot] \o q \in Seq(Piece)
      BY <3>1, <3>4
    <3>5. stream' \in [People -> Seq(Piece)] /\ said' \in [People -> Nat]
      BY <1>0, <3>1, <3>4, <3>7
    <3>6. ASSUME NEW c \in conn
          PROVE  Good(c, Mine(c)', done'[c], said'[c], Sent(c)', cut')
      <4>1. CASE c # Bot
        <5>1. said'[c] = said[c] /\ stream'[c] = stream[c]
          BY <1>0, <3>1, <4>1
        <5>2. Sent(c)' = Sent(c)
          BY <1>8, <5>1 DEF Sent, LastPiece
        <5> QED
          BY <1>3, <5>1, <5>2
      <4>2. CASE c = Bot
        <5>1. said'[c] = said[c] + n /\ stream'[c] = stream[c] \o q
          BY <1>0, <3>1, <4>2
        <5>2. Mine(c)' \in Seq(Text) /\ done'[c] \in Nat
          <6>1. Mine(c) \in Seq(Text)
            BY <1>0, MineType
          <6>2. Mine(c)' \in Seq(Text)
            BY <1>0, <1>2, <4>2, <6>1
          <6> QED
            BY <1>7, <4>2, <6>2
        <5>5. Sent(c) = stream[c] /\ Sent(c)' = stream[c] \o q
          <6>1. c \notin unended /\ c \notin unended'
            BY <1>0, <1>8, <4>2
          <6>2. Sent(c) = stream[c]
            BY <1>0, <4>2, <6>1, SentType
          <6>3. Sent(c)' = (stream[c] \o q) \o <<>>
            BY <5>1, <6>1 DEF Sent
          <6> QED
            BY <3>7, <4>2, <6>2, <6>3, ConcatEmptySeq
        <5>3. Good(c, Mine(c)', done'[c], said[c], stream[c], cut')
          BY <1>3, <5>5
        <5>4. Good(c, Mine(c)', done'[c], said[c] + n, stream[c] \o q, cut')
          BY <3>1, <3>4, <4>2, <5>2, <5>3, GoodGrows
        <5> QED
          BY <5>1, <5>4, <5>5
      <4> QED
        BY <4>1, <4>2
    <3> QED
      BY <3>5, <3>6
  <2> QED
    BY <1>8, <2>1, <2>2
<1>5. TypeOK'
  <2>1. cut' \subseteq People \X Nat /\ batch' \in Seq(Text)
    BY <1>0, <1>1
  <2>2. who' \in People \cup {Nobody} /\ (who' = Nobody => Idle' \/ pc' = "killed")
    BY <1>0, <1>1 DEF Idle
  <2>3. todo' \subseteq conn' \ {who'}
    BY <1>0, <1>1
  <2> QED
    BY <1>0, <1>1, <1>4, <1>7, <1>8, <2>1, <2>2, <2>3 DEF TypeOK, Piece
<1>6. Serving'
  BY <1>0, <1>1 DEF Serving, Idle
<1> QED
  BY <1>4, <1>5, <1>6 DEF WInv, StreamOK

\* A line that registers its client, and is answered.
LEMMA RegisterKeeps == WInv /\ Register => WInv'
<1> SUFFICES ASSUME WInv, Register PROVE WInv'
  OBVIOUS
<1> USE PeopleAreNumbers
<1> DEFINE due == [c \in Clients |-> IF c # who THEN welcome[c]
                                     ELSE IF SaidWell THEN "due" ELSE "lost"]
<1>0. /\ TypeOK /\ pc = "serve" /\ todo = {} /\ who \in conn /\ who \in People
      /\ logged \subseteq conn /\ Execute("user") /\ Continue /\ UNCHANGED <<conn, todo>>
      /\ SendOnce(who, due, due)
  <2>1. pc = "serve" /\ batch # <<>> /\ Execute("user") /\ Continue /\ UNCHANGED <<conn, todo>>
        /\ SendOnce(who, due, due)
    BY DEF Register, Execute
  <2> HIDE DEF due
  <2> QED
    BY <2>1 DEF WInv, TypeOK, Serving, Idle
<1>1. due \in [Clients -> {"none", "due", "told", "lost"}]
  BY <1>0 DEF TypeOK
<1> HIDE DEF due
<1>2. /\ pc' \in {"serve", "killed"}
      /\ unread' \in [People -> 0..Room]
      /\ peer' \in [People -> {"up", "closed", "broken"}] /\ peer'[Bot] = "up"
      /\ welcome' \in [Clients -> {"none", "due", "told", "lost"}]
  BY <1>0, <1>1, SendOnceType
<1>3. PICK asBot \in BOOLEAN :
        /\ logged' = logged \cup {who}
        /\ botnick' = IF asBot THEN who ELSE botnick
        /\ BotSays(IF asBot THEN Bot ELSE who, 1)
  BY DEF Register
<1>4. \E d \in People, n \in Nat : BotSays(d, n)
  <2>1. (IF asBot THEN Bot ELSE who) \in People /\ 1 \in Nat
    BY <1>0
  <2> QED
    BY <1>3, <2>1
<1>5. logged' \subseteq conn /\ botnick' \in logged' \cup {Nobody}
  BY <1>0, <1>3 DEF TypeOK
<1> QED
  BY <1>0, <1>2, <1>4, <1>5, ExecuteKeeps

\* A line that is answered with an error.
LEMMA RefusedKeeps == WInv /\ Refused => WInv'
<1> SUFFICES ASSUME WInv, Refused PROVE WInv'
  OBVIOUS
<1> USE PeopleAreNumbers
<1>0. PICK k \in {"user", "talk", "quit", "none"} : Execute(k)
  BY DEF Refused
<1>1. /\ TypeOK /\ pc = "serve" /\ todo = {} /\ who \in conn /\ who \in People
      /\ logged \subseteq conn /\ botnick \in logged \cup {Nobody}
      /\ Continue /\ UNCHANGED <<conn, logged, botnick, todo>> /\ UNCHANGED input
      /\ SendOnce(who, welcome, welcome)
      /\ welcome \in [Clients -> {"none", "due", "told", "lost"}]
  <2>1. pc = "serve" /\ batch # <<>>
    BY <1>0 DEF Execute
  <2>2. /\ Continue /\ UNCHANGED <<conn, logged, botnick, todo>> /\ UNCHANGED input
        /\ SendOnce(who, welcome, welcome)
    BY DEF Refused, session
  <2> QED
    BY <2>1, <2>2 DEF WInv, TypeOK, Serving, Idle
<1>2. /\ pc' \in {"serve", "killed"}
      /\ unread' \in [People -> 0..Room]
      /\ peer' \in [People -> {"up", "closed", "broken"}] /\ peer'[Bot] = "up"
      /\ welcome' \in [Clients -> {"none", "due", "told", "lost"}]
  BY <1>1, SendOnceType
<1> QED
  BY <1>0, <1>1, <1>2, ExecuteKeeps

\* A line for somebody else.
LEMMA TalkKeeps == WInv /\ Talk => WInv'
<1> SUFFICES ASSUME WInv, Talk PROVE WInv'
  OBVIOUS
<1> USE PeopleAreNumbers
<1> DEFINE Welcomes == [Clients -> {"none", "due", "told", "lost"}]
           d == Called(Line.to)
<1>1. /\ TypeOK /\ pc = "serve" /\ todo = {} /\ who \in conn /\ who \in People
      /\ logged \subseteq conn /\ botnick \in logged \cup {Nobody} /\ conn \subseteq People
      /\ Continue /\ UNCHANGED <<conn, logged, botnick, todo>> /\ Execute("talk")
      /\ welcome \in Welcomes
  <2>1. pc = "serve" /\ batch # <<>>
    BY DEF Talk, Execute
  <2>2. Continue /\ UNCHANGED <<conn, logged, botnick, todo>> /\ Execute("talk")
    BY DEF Talk, session
  <2> QED
    BY <2>1, <2>2 DEF WInv, TypeOK, Serving, Idle
<1>2. \E e \in People, n \in Nat : BotSays(e, n)
  <2>1. PICK n \in IF who = botnick THEN {0} ELSE Answers : BotSays(who, n)
    BY DEF Talk
  <2>2. n \in Nat
    BY <2>1 DEF Answers
  <2> QED
    BY <1>1, <2>1, <2>2
<1>3. \E e \in People, got, missed \in Welcomes : SendOnce(e, got, missed)
  <2>1. d \in People \cup {Nobody}
    BY <1>1 DEF Called
  <2>2. \/ SendOnce(who, welcome, welcome)
        \/ d # Nobody /\ SendOnce(d, Heard(d, "told"), Heard(d, "lost"))
        \/ d # Nobody /\ SendOnce(d, welcome, welcome)
    BY DEF Talk
  <2> HIDE DEF d, Welcomes
  <2>3. Heard(d, "told") \in Welcomes /\ Heard(d, "lost") \in Welcomes
    BY <1>1, HeardType DEF Welcomes
  <2> QED
    BY <1>1, <2>1, <2>2, <2>3
<1>4. /\ pc' \in {"serve", "killed"}
      /\ unread' \in [People -> 0..Room]
      /\ peer' \in [People -> {"up", "closed", "broken"}] /\ peer'[Bot] = "up"
      /\ welcome' \in Welcomes
  BY <1>1, <1>3, SendOnceType
<1> QED
  BY <1>1, <1>2, <1>4, ExecuteKeeps

\* A QUIT, up to the first send().
LEMMA QuitBeginsKeeps == WInv /\ QuitBegins => WInv'
<1> SUFFICES ASSUME WInv, QuitBegins PROVE WInv'
  OBVIOUS
<1> USE PeopleAreNumbers
<1>1. /\ Execute("quit") /\ todo' = conn \ {who} /\ pc' = "quit" /\ who' = who
      /\ UNCHANGED <<conn, logged, botnick, unread, peer, welcome>> /\ UNCHANGED input
  BY DEF QuitBegins, session, output
<1>2. /\ logged \subseteq conn /\ botnick \in logged \cup {Nobody}
      /\ unread \in [People -> 0..Room]
      /\ peer \in [People -> {"up", "closed", "broken"}] /\ peer[Bot] = "up"
      /\ welcome \in [Clients -> {"none", "due", "told", "lost"}]
  BY DEF WInv, TypeOK
<1> QED
  BY <1>1, <1>2, ExecuteKeeps

\* A QUIT that tells one more connection.
LEMMA SendQuitKeeps == WInv /\ SendQuit => WInv'
<1> SUFFICES ASSUME WInv, SendQuit PROVE WInv'
  OBVIOUS
<1> USE PeopleAreNumbers
<1> DEFINE d == Min(todo)
<1>0. /\ TypeOK /\ Serving /\ pc = "quit" /\ todo # {} /\ todo \subseteq conn \ {who}
      /\ conn \subseteq People
      /\ unread \in [People -> 0..Room] /\ peer \in [People -> {"up", "closed", "broken"}]
      /\ peer[Bot] = "up"
  BY DEF WInv, TypeOK, SendQuit
<1>1. d \in People
  <2>1. todo \in SUBSET Nat
    BY <1>0
  <2>2. Min(todo) \in todo
    BY <1>0, <2>1, MinProperties
  <2> QED
    BY <1>0, <2>2
<1> HIDE DEF d
<1>2. UNCHANGED <<conn, logged, botnick, who, taken, batch, stream, said, unended, torn, welcome,
                  done, cut>>
  BY DEF SendQuit, session, input, past
<1>3. /\ pc' \in {"quit", "killed"} /\ todo' \subseteq todo
      /\ unread' \in [People -> 0..Room]
      /\ peer' \in [People -> {"up", "closed", "broken"}] /\ peer'[Bot] = "up"
  <2>1. CASE /\ peer[d] = "up" /\ unread[d] < Room
             /\ unread' = [unread EXCEPT ![d] = @ + 1]
             /\ todo' = todo \ {d}
             /\ UNCHANGED <<pc, peer>>
    <3>1. unread[d] + 1 \in 0..Room
      BY <1>0, <1>1, <2>1
    <3> QED
      BY <1>0, <1>1, <2>1, <3>1
  <2>2. CASE /\ peer[d] = "closed"
             /\ peer' \in {peer, [peer EXCEPT ![d] = "broken"]}
             /\ todo' = todo \ {d}
             /\ UNCHANGED <<pc, unread>>
    BY <1>0, <1>1, <2>2
  <2>3. CASE /\ peer[d] = "broken"
             /\ (todo' = {} /\ UNCHANGED pc) \/ (pc' = "killed" /\ UNCHANGED todo)
             /\ UNCHANGED <<unread, peer>>
    BY <1>0, <1>1, <2>3
  <2> QED
    BY <2>1, <2>2, <2>3 DEF SendQuit, d
<1>4. TypeOK'
  <2>1. who' = Nobody => Idle' \/ pc' = "killed"
    BY <1>0, <1>2 DEF TypeOK, Idle
  <2>2. todo' \subseteq conn' \ {who'}
    BY <1>0, <1>2, <1>3
  <2> QED
    BY <1>0, <1>2, <1>3, <2>1, <2>2 DEF TypeOK
<1>5. Serving'
  BY <1>0, <1>2, <1>3 DEF Serving, Idle
<1>6. \A c \in conn' : StreamOK(c)'
  BY <1>2, StreamsStay DEF Mine, Sent, LastPiece
<1> QED
  BY <1>4, <1>5, <1>6 DEF WInv

\* What is read of two sequences, one behind the other, where the read ends in the first.
LEMMA SubSeqConcat ==
  ASSUME NEW p \in Seq(Piece), NEW q \in Seq(Piece), NEW m \in 1..Len(p)
  PROVE  /\ m \in 1..Len(p \o q) /\ (p \o q)[m] = p[m]
         /\ SubSeq(p \o q, 1, m) = SubSeq(p, 1, m)
         /\ SubSeq(p \o q, m + 1, Len(p \o q)) = SubSeq(p, m + 1, Len(p)) \o q
<1> DEFINE r == p \o q
<1>1. /\ Len(p) \in Nat /\ Len(q) \in Nat /\ m \in Nat \ {0} /\ m <= Len(p)
      /\ Len(r) = Len(p) + Len(q) /\ r \in Seq(Piece)
      /\ r[m] = p[m]
  BY LenProperties, ConcatProperties
<1>2. SubSeq(r, 1, m) = SubSeq(p, 1, m)
  BY <1>1, SubSeqOfConcat1
<1>3. SubSeq(r, m + 1, Len(p)) = SubSeq(p, m + 1, Len(p))
  <2>1. CASE m = Len(p)
    <3>1. m + 1 \in Int /\ Len(p) \in Int /\ Len(p) < m + 1
      BY <1>1, <2>1
    <3> QED
      BY <3>1, SubSeqEmpty
  <2>2. CASE m # Len(p)
    <3>1. m + 1 \in 1..Len(p) /\ Len(p) \in 1..Len(p)
      BY <1>1, <2>2
    <3> QED
      BY <3>1, SubSeqOfConcat1
  <2> QED
    BY <2>1, <2>2
<1>4. SubSeq(r, Len(p) + 1, Len(r)) = q
  <2>1. CASE Len(q) = 0
    <3>1. q = <<>>
      BY <2>1, EmptySeq
    <3>2. Len(p) + 1 \in Int /\ Len(r) \in Int /\ Len(r) < Len(p) + 1
      BY <1>1, <2>1
    <3> QED
      BY <3>1, <3>2, SubSeqEmpty
  <2>2. CASE Len(q) # 0
    <3> DEFINE a == Len(p) + 1
               b == Len(p) + Len(q)
    <3>1. /\ a \in Len(p) + 1..Len(p) + Len(q) /\ b \in Len(p) + 1..Len(p) + Len(q)
          /\ a - Len(p) = 1 /\ b - Len(p) = Len(q)
      BY <1>1, <2>2
    <3> HIDE DEF a, b
    <3>2. SubSeq(p \o q, a, b) = SubSeq(q, a - Len(p), b - Len(p))
      BY <3>1, SubSeqOfConcat2
    <3>3. SubSeq(p \o q, a, b) = q
      BY <3>1, <3>2, SubSeqFull
    <3> QED
      BY <1>1, <3>3 DEF a, b
  <2> QED
    BY <2>1, <2>2
<1> HIDE DEF r
<1>5. SubSeq(r, m + 1, Len(p)) \o SubSeq(r, Len(p) + 1, Len(r)) = SubSeq(r, m + 1, Len(r))
  <2> DEFINE a == m + 1
             b == Len(p)
             n == Len(r)
  <2>1. /\ a \in 1..Len(r) + 1 /\ b \in a - 1..Len(r) /\ n \in b..Len(r)
    BY <1>1
  <2> HIDE DEF a, b, n
  <2>2. SubSeq(r, a, b) \o SubSeq(r, b + 1, n) = SubSeq(r, a, n)
    BY <1>1, <2>1, ConcatAdjacentSubSeq
  <2> QED
    BY <2>2, Zenon DEF a, b, n
<1>6. SubSeq(r, m + 1, Len(r)) = SubSeq(p, m + 1, Len(p)) \o q
  BY <1>3, <1>4, <1>5
<1>7. m \in 1..Len(r)
  BY <1>1
<1> QED
  BY <1>1, <1>2, <1>6, <1>7, Zenon DEF r

\* The smaller of two numbers.
LEMMA LeastOfTwo ==
  ASSUME NEW a \in Int, NEW b \in Int
  PROVE  Min({a, b}) \in {a, b} /\ Min({a, b}) <= a /\ Min({a, b}) <= b
<1>1. \E x \in {a, b} : \A y \in {a, b} : x <= y
  OBVIOUS
<1>2. Min({a, b}) \in {a, b} /\ \A y \in {a, b} : Min({a, b}) <= y
  BY <1>1 DEF Min
<1> QED
  BY <1>2

\* receiveMessage returns m pieces, wherever they end.
LEMMA ReturnsKeeps ==
  ASSUME WInv, NEW c \in People, Reads(c), NEW m \in 1..Len(stream[c]), Returns(c, m),
         torn' \in People \cup {Nobody},
         UNCHANGED <<session, todo, said, unended, unread, peer, done>>
  PROVE  WInv'
<1> USE PeopleAreNumbers
<1>0. /\ TypeOK /\ Serving /\ batch = <<>> /\ c \in conn /\ conn \subseteq People
      /\ stream \in [People -> Seq(Piece)] /\ said \in [People -> Nat]
      /\ done \in [People -> Nat] /\ cut \subseteq People \X Nat
      /\ stream[c] \in Seq(Piece) /\ said[c] \in Nat /\ done[c] \in Nat /\ todo = {}
  <2>1. stream \in [People -> Seq(Piece)] /\ Serving
    BY DEF WInv, TypeOK, Piece
  <2>2. batch = <<>> /\ c \in conn /\ pc \in {"serve", "recv"}
    BY <2>1 DEF Reads, Idle, Serving
  <2> QED
    BY <2>1, <2>2 DEF WInv, TypeOK, Serving
<1>1. /\ batch' = Complete(SubSeq(stream[c], 1, m))
      /\ cut' = IF stream[c][m].last THEN cut ELSE cut \cup {<<c, stream[c][m].id>>}
      /\ welcome' = IF c = Bot /\ ~stream[c][m].last THEN Heard(stream[c][m].to, "lost")
                    ELSE welcome
      /\ stream' = [stream EXCEPT ![c] = SubSeq(stream[c], m + 1, Len(stream[c]))]
      /\ who' = IF batch' = <<>> THEN Nobody ELSE c
      /\ pc' = "serve" /\ taken' = 0
  BY DEF Returns
<1>2. UNCHANGED <<conn, logged, botnick, todo, said, unended, unread, peer, done>>
  BY DEF session
<1>3. /\ SubSeq(stream[c], 1, m) \in Seq(Piece)
      /\ SubSeq(stream[c], m + 1, Len(stream[c])) \in Seq(Piece)
      /\ stream[c][m] \in Piece
  <2>1. Len(stream[c]) \in Nat /\ m \in Nat \ {0} /\ m <= Len(stream[c])
    BY <1>0, LenProperties
  <2> QED
    BY <1>0, <2>1, ElementOfSeq
<1>4. batch' \in Seq(Text)
  BY <1>1, <1>3, CompleteSelects
<1>5. /\ stream' \in [People -> Seq(Piece)]
      /\ stream'[c] = SubSeq(stream[c], m + 1, Len(stream[c]))
      /\ \A d \in People : d # c => stream'[d] = stream[d]
  BY <1>0, <1>1, <1>3
<1>6. TypeOK'
  <2>1. cut' \subseteq People \X Nat
    <3>1. stream[c][m].id \in Nat
      BY <1>3 DEF Piece
    <3>2. <<c, stream[c][m].id>> \in People \X Nat
      BY <3>1
    <3> QED
      BY <1>0, <1>1, <3>2
  <2>2. welcome' \in [Clients -> {"none", "due", "told", "lost"}]
    BY <1>0, <1>1, HeardType DEF TypeOK
  <2>3. who' \in People \cup {Nobody} /\ (who' = Nobody => Idle' \/ pc' = "killed")
    BY <1>0, <1>1 DEF Idle
  <2>4. todo' \subseteq conn' \ {who'} /\ taken' \in Nat /\ pc' = "serve"
    BY <1>0, <1>1, <1>2
  <2> QED
    BY <1>0, <1>2, <1>4, <1>5, <2>1, <2>2, <2>3, <2>4 DEF TypeOK, Piece
<1>7. Serving'
  BY <1>0, <1>1, <1>2 DEF Serving, Idle
<1>9. Sent(c)' = SubSeq(Sent(c), m + 1, Len(Sent(c)))
  <2> DEFINE q == IF c \in unended THEN <<LastPiece(c)>> ELSE <<>>
  <2>1. Sent(c) = stream[c] \o q
    BY DEF Sent
  <2>2. Sent(c)' = SubSeq(stream[c], m + 1, Len(stream[c])) \o q
    BY <1>2, <1>5 DEF Sent, LastPiece
  <2>3. q \in Seq(Piece)
    <3>1. Len(stream[c]) \in Nat
      BY <1>0, LenProperties
    <3>2. LastPiece(c) \in Piece
      BY <1>0, LastPieceType
    <3> QED
      BY <3>2, EmptySeq
  <2> HIDE DEF q
  <2>4. SubSeq(stream[c] \o q, m + 1, Len(stream[c] \o q)) =
          SubSeq(stream[c], m + 1, Len(stream[c])) \o q
    BY <1>0, <2>3, SubSeqConcat, Zenon
  <2> QED
    BY <2>1, <2>2, <2>4, Zenon
<1>8. ASSUME NEW d \in conn PROVE StreamOK(d)'
  <2>1. Good(d, Mine(d), done[d], said[d], Sent(d), cut) /\ d \in People
    BY <1>0 DEF WInv, StreamOK
  <2>2. Mine(d) = <<>>
    BY <1>0 DEF Mine
  <2>3. CASE d = c
    <3>1. Mine(d)' = batch'
      BY <1>1, <2>3 DEF Mine
    <3>2. Good(c, <<>>, done[c], said[c], Sent(c), cut)
      BY <2>1, <2>2, <2>3
    <3>5. /\ Sent(c) \in Seq(Piece) /\ m \in 1..Len(Sent(c))
          /\ SubSeq(Sent(c), 1, m) = SubSeq(stream[c], 1, m) /\ Sent(c)[m] = stream[c][m]
      <4>1. PICK q \in Seq(Piece) : Sent(c) = stream[c] \o q
        BY <1>0, SentType
      <4>2. Sent(c) \in Seq(Piece)
        BY <1>0, SentType
      <4> QED
        BY <1>0, <4>1, <4>2, SubSeqConcat
    <3>3. Good(c, Complete(SubSeq(Sent(c), 1, m)), done[c], said[c],
               SubSeq(Sent(c), m + 1, Len(Sent(c))),
               IF Sent(c)[m].last THEN cut ELSE cut \cup {<<c, Sent(c)[m].id>>})
      BY <1>0, <3>2, <3>5, GoodRead
    <3>4. Good(c, batch', done[c], said[c], Sent(c)', cut')
      BY <1>1, <1>9, <3>3, <3>5
    <3> QED
      BY <1>2, <2>3, <3>1, <3>4 DEF StreamOK
  <2>4. CASE d # c
    <3>1. Mine(d)' = <<>> /\ Sent(d)' = Sent(d)
      BY <1>1, <1>2, <1>5, <2>1, <2>4 DEF Mine, Sent, LastPiece
    <3>2. \A k : <<d, k>> \in cut <=> <<d, k>> \in cut'
      BY <1>1, <2>4
    <3>3. Good(d, <<>>, done[d], said[d], Sent(d), cut')
      BY <2>1, <2>2, <3>2, GoodOther
    <3> QED
      BY <1>2, <3>1, <3>3 DEF StreamOK
  <2> QED
    BY <2>3, <2>4
<1> QED
  BY <1>2, <1>6, <1>7, <1>8 DEF WInv

\* One recv(), whatever it brings.
LEMMA RecvKeeps == ASSUME WInv, NEW c \in People, Recv(c) PROVE WInv'
<1> USE PeopleAreNumbers
<1>0. /\ TypeOK /\ Serving /\ Reads(c) /\ c \in conn /\ batch = <<>> /\ todo = {}
      /\ taken \in Nat /\ Len(stream[c]) \in Nat /\ BufferSize \in Nat
      /\ UNCHANGED <<session, todo, said, unended, unread, peer, done>>
      /\ torn \in People \cup {Nobody} /\ (who = c \/ (who = Nobody /\ Idle))
  <2>1. TypeOK /\ Serving /\ Reads(c) /\ stream[c] \in Seq(Piece)
    BY SentType DEF WInv, Recv
  <2>2. Len(stream[c]) \in Nat
    BY <2>1, LenProperties
  <2>3. UNCHANGED <<session, todo, said, unended, unread, peer, done>>
    BY DEF Recv
  <2>4. batch = <<>> /\ todo = {} /\ c \in conn /\ (who = c \/ (who = Nobody /\ Idle))
    BY <2>1 DEF Reads, Idle, Serving
  <2> QED
    BY <2>1, <2>2, <2>3, <2>4, WireConstants DEF TypeOK
<1>1. PICK n \in 1..Min({BufferSize, Len(stream[c]) - taken}) :
        \/ /\ Returns(c, taken + n)
           /\ torn' \in {torn} \cup IF c = Bot /\ taken + n = Len(stream[c]) THEN {Nobody} ELSE {}
        \/ /\ pc' = "recv" /\ who' = c /\ taken' = taken + n
           /\ UNCHANGED <<batch, cut, welcome, stream, torn>>
  BY DEF Recv
<1>2. taken + n \in 1..Len(stream[c])
  <2> DEFINE rest == Len(stream[c]) - taken
             least == Min({BufferSize, rest})
  <2>1. rest \in Int /\ BufferSize \in Int
    BY <1>0
  <2> HIDE DEF rest
  <2>2. least \in {BufferSize, rest} /\ least <= rest
    BY <2>1, LeastOfTwo
  <2>3. n \in 1..least
    BY DEF rest
  <2> HIDE DEF least
  <2>4. n \in Nat \ {0} /\ n <= rest
    BY <2>1, <2>2, <2>3
  <2> QED
    BY <1>0, <2>4 DEF rest
<1>3. CASE /\ Returns(c, taken + n)
           /\ torn' \in {torn} \cup IF c = Bot /\ taken + n = Len(stream[c]) THEN {Nobody} ELSE {}
  BY <1>0, <1>2, <1>3, ReturnsKeeps
<1>4. CASE /\ pc' = "recv" /\ who' = c /\ taken' = taken + n
           /\ UNCHANGED <<batch, cut, welcome, stream, torn>>
  <2>1. UNCHANGED <<conn, logged, botnick, todo, said, unended, unread, peer, done>>
    BY <1>0 DEF session
  <2>2. TypeOK'
    <3>1. who' \in People \cup {Nobody} /\ who' # Nobody /\ todo' \subseteq conn' \ {who'}
      BY <1>0, <1>4, <2>1
    <3>2. pc' \in {"serve", "recv", "quit", "killed"} /\ taken' \in Nat
      BY <1>0, <1>2, <1>4
    <3> QED
      BY <1>0, <1>4, <2>1, <3>1, <3>2 DEF TypeOK
  <2>3. Serving'
    BY <1>0, <1>2, <1>4, <2>1 DEF Serving, Idle
  <2>4. \A d : Mine(d) = <<>> /\ Mine(d)' = <<>>
    BY <1>0, <1>4 DEF Mine
  <2>5. \A d \in conn' : StreamOK(d)'
    BY <1>4, <2>1, <2>4, StreamsStay DEF Sent, LastPiece
  <2> QED
    BY <2>2, <2>3, <2>5 DEF WInv
<1> QED
  BY <1>1, <1>3, <1>4

\* The recv() that finds nothing more.
LEMMA WouldBlockKeeps == ASSUME WInv, NEW c \in People, WouldBlock(c) PROVE WInv'
<1>1. /\ pc = "recv" /\ who = c /\ Returns(c, taken)
      /\ UNCHANGED <<session, todo, said, unended, torn, unread, peer, done>>
  BY DEF WouldBlock
<1>2. taken \in 1..Len(stream[c]) /\ Reads(c) /\ torn' \in People \cup {Nobody}
  <2>1. Serving /\ TypeOK
    BY DEF WInv
  <2>2. c \in conn /\ taken \in 1..Len(stream[c])
    BY <1>1, <2>1 DEF Serving
  <2> QED
    BY <1>1, <2>1, <2>2 DEF Reads, TypeOK
<1> QED
  BY <1>1, <1>2, ReturnsKeeps

\* The beginning of a line that nothing follows.
LEMMA DropTornKeeps == WInv /\ DropTorn => WInv'
<1> SUFFICES ASSUME WInv, DropTorn PROVE WInv'
  OBVIOUS
<1>1. /\ UNCHANGED <<pc, conn, logged, botnick, who, taken, batch, todo, stream, said, unended,
                     unread, peer, welcome, done, cut>>
      /\ torn' = Nobody
  BY DEF DropTorn, handler, session, output, past
<1>2. TypeOK' /\ Serving'
  BY <1>1 DEF WInv, TypeOK, Serving, Idle
<1>3. \A d \in conn' : StreamOK(d)'
  BY <1>1, StreamsStay DEF Mine, Sent, LastPiece
<1> QED
  BY <1>2, <1>3 DEF WInv

\* SIGPIPE, for what the bot says.
LEMMA BotSendKillsKeeps == WInv /\ BotSendKills => WInv'
<1> SUFFICES ASSUME WInv, BotSendKills PROVE WInv'
  OBVIOUS
<1>1. /\ UNCHANGED <<conn, logged, botnick, who, taken, batch, todo, stream, said, unended, torn,
                     unread, peer, welcome, done, cut>>
      /\ pc' = "killed"
  BY DEF BotSendKills, session, input, output, past
<1>2. TypeOK' /\ Serving'
  BY <1>1 DEF WInv, TypeOK, Serving, Idle
<1>3. \A d \in conn' : StreamOK(d)'
  BY <1>1, StreamsStay DEF Mine, Sent, LastPiece
<1> QED
  BY <1>2, <1>3 DEF WInv

\* A connection that ends, where it is read or with the one that quits.
LEMMA CloseKeeps ==
  ASSUME WInv, NEW c \in People, Close(c), c \in conn,
         Reads(c) \/ (pc = "quit" /\ who = c), todo = {},
         UNCHANGED <<todo, said, done>>
  PROVE  WInv'
<1> USE PeopleAreNumbers
<1>0. /\ TypeOK /\ Serving /\ conn \subseteq People
      /\ stream \in [People -> Seq(Piece)] /\ unread \in [People -> 0..Room]
      /\ peer \in [People -> {"up", "closed", "broken"}] /\ peer[Bot] = "up"
      /\ logged \subseteq conn /\ botnick \in logged \cup {Nobody}
      /\ cut \subseteq People \X Nat /\ unended \subseteq Clients
      /\ torn \in People \cup {Nobody}
      /\ welcome \in [Clients -> {"none", "due", "told", "lost"}]
  BY DEF WInv, TypeOK, Piece
<1>1. /\ conn' = conn \ {c} /\ logged' = logged \ {c}
      /\ botnick' = IF botnick = c THEN Nobody ELSE botnick
      /\ stream' = [stream EXCEPT ![c] = <<>>]
      /\ unended' = unended \ {c}
      /\ torn' = IF c = Bot THEN Nobody ELSE torn
      /\ unread' = [unread EXCEPT ![c] = 0]
      /\ peer' = [peer EXCEPT ![c] = "up"]
      /\ cut' = {l \in cut : l[1] # c}
      /\ welcome' = [d \in Clients |-> IF d = c THEN "none" ELSE welcome[d]]
  BY DEF Close
<1>2. stream' \in [People -> Seq(Piece)]
  BY <1>0, <1>1, EmptySeq
<1>3. unread' \in [People -> 0..Room]
  BY <1>0, <1>1
<1>4. peer' \in [People -> {"up", "closed", "broken"}] /\ peer'[Bot] = "up"
  BY <1>0, <1>1
<1>5. welcome' \in [Clients -> {"none", "due", "told", "lost"}]
  BY <1>0, <1>1
<1>6. /\ who' = Nobody /\ batch' = <<>> /\ pc' = "serve" /\ todo' = {} /\ Idle'
      /\ batch' \in Seq(Text) /\ taken' = 0
  <2>1. who' = Nobody /\ batch' = <<>> /\ pc' = "serve" /\ todo' = {} /\ taken' = 0
    BY <1>0 DEF Close
  <2> QED
    BY <2>1, EmptySeq DEF Idle
<1>7. TypeOK'
  <2>1. logged' \subseteq conn' /\ botnick' \in logged' \cup {Nobody} /\ conn' \subseteq People
    BY <1>0, <1>1
  <2>2. cut' \subseteq People \X Nat
    BY <1>0, <1>1
  <2>3. said' \in [People -> Nat] /\ done' \in [People -> Nat]
    BY <1>0 DEF TypeOK
  <2>4. unended' \subseteq Clients /\ torn' \in People \cup {Nobody} /\ taken' \in Nat
    BY <1>0, <1>1, <1>6
  <2> QED
    BY <1>2, <1>3, <1>4, <1>5, <1>6, <2>1, <2>2, <2>3, <2>4 DEF TypeOK, Piece
<1>8. \A d \in conn' : StreamOK(d)'
  <2> SUFFICES ASSUME NEW d \in conn'
               PROVE  /\ Mine(d)' = Mine(d) /\ done'[d] = done[d] /\ said'[d] = said[d]
                      /\ Sent(d)' = Sent(d)
                      /\ \A n : <<d, n>> \in cut' <=> <<d, n>> \in cut
    BY <1>1, StreamsStay
  <2>1. d \in conn /\ d # c /\ d \in People /\ d # Nobody
    BY <1>0, <1>1
  <2>2. Mine(d)' = Mine(d)
    <3>1. who = c \/ batch = <<>>
      BY DEF Reads, Idle
    <3> QED
      BY <1>6, <2>1, <3>1 DEF Mine
  <2>3. stream'[d] = stream[d] /\ (d \in unended' <=> d \in unended)
    BY <1>0, <1>1, <2>1
  <2>4. Sent(d)' = Sent(d)
    BY <2>3 DEF Sent, LastPiece
  <2>5. \A n : <<d, n>> \in cut' <=> <<d, n>> \in cut
    BY <1>0, <1>1, <2>1
  <2> QED
    BY <2>2, <2>4, <2>5
<1>9. Serving'
  BY <1>6 DEF Serving
<1> QED
  BY <1>7, <1>8, <1>9 DEF WInv

\* recv() returns 0, or fails.
LEMMA GoneKeeps == ASSUME WInv, NEW c \in People, Gone(c) PROVE WInv'
<1>1. Reads(c) /\ Close(c) /\ UNCHANGED <<todo, said, done>>
  BY DEF Gone
<1>2. c \in conn /\ todo = {}
  BY <1>1 DEF WInv, Serving, Reads, Idle
<1> QED
  BY <1>1, <1>2, CloseKeeps

\* A QUIT closes its connection.
LEMMA QuitEndsKeeps == WInv /\ QuitEnds => WInv'
<1> SUFFICES ASSUME WInv, QuitEnds PROVE WInv'
  OBVIOUS
<1>1. pc = "quit" /\ todo = {} /\ Close(who) /\ UNCHANGED <<todo, said, done>>
  BY DEF QuitEnds
<1>2. who \in conn /\ who \in People
  BY <1>1 DEF WInv, TypeOK, Serving, Idle
<1> QED
  BY <1>1, <1>2, CloseKeeps

\* What the clients do with what they were sent, and how they leave.
LEMMA WorldKeeps ==
  ASSUME WInv, NEW c \in Clients, Hear(c) \/ HangUp(c), pc # "killed"
  PROVE  WInv'
<1> USE PeopleAreNumbers
<1>0. /\ TypeOK /\ Serving /\ c \in People /\ c # Bot
      /\ unread \in [People -> 0..Room] /\ peer \in [People -> {"up", "closed", "broken"}]
      /\ peer[Bot] = "up"
  BY DEF WInv, TypeOK
<1>1. UNCHANGED <<pc, conn, logged, botnick, who, taken, batch, todo, stream, said, unended, torn,
                  done, cut, welcome>>
  BY DEF Hear, HangUp, handler, session, input, past
<1>2. /\ unread' \in [People -> 0..Room]
      /\ peer' \in [People -> {"up", "closed", "broken"}] /\ peer'[Bot] = "up"
  <2>1. CASE Hear(c)
    <3>1. unread[c] - 1 \in 0..Room
      BY <1>0, <2>1 DEF Hear
    <3> QED
      BY <1>0, <2>1, <3>1 DEF Hear
  <2>2. CASE HangUp(c)
    BY <1>0, <2>2 DEF HangUp
  <2> QED
    BY <2>1, <2>2
<1>3. TypeOK'
  BY <1>0, <1>1, <1>2 DEF TypeOK, Idle
<1>4. Serving'
  BY <1>0, <1>1 DEF Serving, Idle
<1>5. \A d \in conn' : StreamOK(d)'
  BY <1>1, StreamsStay DEF Mine, Sent, LastPiece
<1> QED
  BY <1>3, <1>4, <1>5 DEF WInv

\* A client sends something: stays of what receiveMessage has so far.
LEMMA StreamGrows ==
  ASSUME WInv, NEW c \in Clients, NEW q \in Seq(Piece),
         stream' = [stream EXCEPT ![c] = stream[c] \o q],
         said' \in [People -> Nat], unended' \subseteq Clients,
         UNCHANGED <<handler, session, torn, output, past>>,
         \A d \in conn \ {c} : said'[d] = said[d] /\ (d \in unended' <=> d \in unended),
         c \in conn => Good(c, Mine(c), done[c], said'[c], Sent(c)', cut)
  PROVE  WInv'
<1> USE PeopleAreNumbers
<1>0. /\ TypeOK /\ Serving /\ c \in People /\ conn \subseteq People
      /\ stream \in [People -> Seq(Piece)] /\ stream[c] \in Seq(Piece)
  <2>1. stream \in [People -> Seq(Piece)]
    BY DEF WInv, TypeOK, Piece
  <2> QED
    BY <2>1 DEF WInv, TypeOK
<1>1. UNCHANGED <<pc, conn, logged, botnick, who, taken, batch, todo, torn, unread, peer, welcome,
                  done, cut>>
  BY DEF handler, session, output, past
<1>2. stream[c] \o q \in Seq(Piece) /\ Len(stream[c] \o q) >= Len(stream[c])
      /\ Len(stream[c] \o q) \in Nat /\ Len(stream[c]) \in Nat
  BY <1>0, ConcatProperties, LenProperties
<1>3. /\ stream' \in [People -> Seq(Piece)]
      /\ \A d \in People : stream'[d] = IF d = c THEN stream[d] \o q ELSE stream[d]
  BY <1>0, <1>2
<1>4. TypeOK'
  BY <1>0, <1>1, <1>3 DEF TypeOK, Idle, Piece
<1>5. Serving'
  <2>1. pc = "recv" => taken' \in 1..Len(stream'[who'])
    <3> SUFFICES ASSUME pc = "recv" PROVE taken' \in 1..Len(stream'[who'])
      OBVIOUS
    <3>1. taken \in 1..Len(stream[who]) /\ who \in People /\ who' = who /\ taken' = taken
      BY <1>0, <1>1 DEF Serving
    <3>2. CASE who = c
      <4>1. stream'[who] = stream[c] \o q
        BY <1>3, <3>1, <3>2
      <4> QED
        BY <1>2, <3>1, <3>2, <4>1
    <3>3. CASE who # c
      <4>1. stream'[who] = stream[who]
        BY <1>3, <3>1, <3>3
      <4> QED
        BY <3>1, <4>1
    <3> QED
      BY <3>2, <3>3
  <2> QED
    BY <1>0, <1>1, <2>1 DEF Serving, Idle
<1>6. ASSUME NEW d \in conn PROVE StreamOK(d)'
  <2>1. Good(d, Mine(d), done[d], said[d], Sent(d), cut) /\ d \in People
    BY <1>0 DEF WInv, StreamOK
  <2>2. Mine(d)' = Mine(d)
    BY <1>1 DEF Mine
  <2>3. CASE d # c
    <3>1. Sent(d)' = Sent(d) /\ said'[d] = said[d]
      BY <1>3, <2>1, <2>3 DEF Sent, LastPiece
    <3> QED
      BY <1>1, <2>1, <2>2, <3>1 DEF StreamOK
  <2>4. CASE d = c
    BY <1>1, <2>2, <2>4 DEF StreamOK
  <2> QED
    BY <2>3, <2>4
<1> QED
  BY <1>1, <1>4, <1>5, <1>6 DEF WInv

\* A client sends its next line.
LEMMA SayKeeps ==
  ASSUME WInv, NEW c \in Clients, NEW does \in Kinds, NEW to \in People, Say(c, does, to)
  PROVE  WInv'
<1> USE PeopleAreNumbers
<1> DEFINE q == Pieces(said[c] + 1, does, to)
<1>0. /\ TypeOK /\ c \in People /\ said \in [People -> Nat] /\ said[c] \in Nat
      /\ c \in conn /\ c \notin unended /\ unended \subseteq Clients /\ conn \subseteq People
      /\ stream \in [People -> Seq(Piece)]
  <2>1. stream \in [People -> Seq(Piece)]
    BY DEF WInv, TypeOK, Piece
  <2> QED
    BY <2>1 DEF WInv, TypeOK, Say, MaySay
<1>1. /\ stream' = [stream EXCEPT ![c] = stream[c] \o q]
      /\ said' = [said EXCEPT ![c] = said[c] + 1]
      /\ UNCHANGED <<handler, session, unended, torn, output, past>>
  BY DEF Say
<1>2. q \in Seq(Piece) /\ Shape(q, 0, said[c], 1, 0)
  BY <1>0, PiecesShape
<1> HIDE DEF q
<1>3. /\ said' \in [People -> Nat]
      /\ \A d \in conn \ {c} : said'[d] = said[d] /\ (d \in unended' <=> d \in unended)
  BY <1>0, <1>1
<1>4. Good(c, Mine(c), done[c], said'[c], Sent(c)', cut)
  <2>1. Good(c, Mine(c), done[c], said[c], stream[c], cut) /\ stream[c] \in Seq(Piece)
    BY <1>0, SentType DEF WInv, StreamOK
  <2>2. Mine(c) \in Seq(Text) /\ done[c] \in Nat
    BY <1>0, MineType DEF TypeOK
  <2>3. Good(c, Mine(c), done[c], said[c] + 1, stream[c] \o q, cut)
    BY <1>0, <1>2, <2>1, <2>2, GoodGrows
  <2>4. Sent(c)' = stream[c] \o q /\ said'[c] = said[c] + 1
    <3>1. stream'[c] = stream[c] \o q /\ stream[c] \o q \in Seq(Piece)
      BY <1>0, <1>1, <1>2, <2>1
    <3>2. Sent(c)' = (stream[c] \o q) \o <<>>
      BY <1>0, <1>1, <3>1 DEF Sent
    <3> QED
      BY <1>0, <1>1, <3>1, <3>2, ConcatEmptySeq
  <2> QED
    BY <2>3, <2>4
<1> QED
  BY <1>0, <1>1, <1>2, <1>3, <1>4, StreamGrows

\* The two pieces of a line.
LEMMA TwoPieces ==
  ASSUME NEW n, NEW does, NEW to
  PROVE  Pieces(n, does, to) = <<Pieces(n, does, to)[1], Pieces(n, does, to)[2]>>
<1> DEFINE q == Pieces(n, does, to)
<1>1. q = [k \in 1..2 |-> q[k]]
  BY DEF Pieces
<1> HIDE DEF q
<1>2. q = <<q[1], q[2]>>
  BY <1>1
<1> QED
  BY <1>2 DEF q

\* One element and another.
LEMMA OneAndOne ==
  ASSUME NEW a \in Piece, NEW b \in Piece
  PROVE  <<a>> \o <<b>> = <<a, b>>
<1> DEFINE x == <<a>>
           y == <<b>>
           z == <<a, b>>
<1>1. /\ x \in Seq(Piece) /\ Len(x) = 1 /\ x[1] = a
      /\ y \in Seq(Piece) /\ Len(y) = 1 /\ y[1] = b
      /\ z \in Seq(Piece) /\ Len(z) = 2 /\ z[1] = a /\ z[2] = b
  OBVIOUS
<1> HIDE DEF x, y, z
<1>2. /\ x \o y \in Seq(Piece) /\ Len(x \o y) = Len(x) + Len(y)
      /\ \A k \in 1..Len(x) + Len(y) :
           (x \o y)[k] = IF k <= Len(x) THEN x[k] ELSE y[k - Len(x)]
  BY <1>1, ConcatProperties
<1>3. Len(x) + Len(y) = 2 /\ 1 \in 1..2 /\ 2 \in 1..2 /\ 1 <= 1 /\ ~(2 <= 1) /\ 2 - 1 = 1
  BY <1>1
<1>4. Len(x \o y) = 2 /\ (x \o y)[1] = a /\ (x \o y)[2] = b
  BY <1>1, <1>2, <1>3
<1>5. x \o y = z
  <2>1. Len(x \o y) = Len(z) /\ \A k \in 1..Len(x \o y) : (x \o y)[k] = z[k]
    BY <1>1, <1>4
  <2> QED
    BY <1>1, <1>2, <2>1, SeqEqual
<1> QED
  BY <1>5 DEF x, y, z

\* A client begins a line that goes on: it counts as what it will be.
LEMMA BeginKeeps == ASSUME WInv, NEW c \in Clients, Begin(c) PROVE WInv'
<1> USE PeopleAreNumbers
<1> DEFINE q == Pieces(said[c] + 1, "talk", Bot)
<1>0. /\ TypeOK /\ c \in People /\ said \in [People -> Nat] /\ said[c] \in Nat
      /\ c \in conn /\ c \notin unended /\ unended \subseteq Clients /\ conn \subseteq People
      /\ stream \in [People -> Seq(Piece)] /\ stream[c] \in Seq(Piece)
  <2>1. stream \in [People -> Seq(Piece)]
    BY DEF WInv, TypeOK, Piece
  <2> QED
    BY <2>1 DEF WInv, TypeOK, Begin, MaySay
<1>1. /\ stream' = [stream EXCEPT ![c] = Append(stream[c], q[1])]
      /\ said' = [said EXCEPT ![c] = said[c] + 1]
      /\ unended' = unended \cup {c}
      /\ UNCHANGED <<handler, session, torn, output, past>>
  BY DEF Begin
<1>2. q \in Seq(Piece) /\ Shape(q, 0, said[c], 1, 0) /\ q = <<q[1], q[2]>>
  <2>1. "talk" \in Kinds
    BY DEF Kinds
  <2> QED
    BY <1>0, <2>1, PiecesShape, TwoPieces
<1> HIDE DEF q
<1>3. /\ said' \in [People -> Nat] /\ said'[c] = said[c] + 1
      /\ \A d \in conn \ {c} : said'[d] = said[d] /\ (d \in unended' <=> d \in unended)
  BY <1>0, <1>1
<1>5. q[1] \in Piece /\ q[2] \in Piece
  BY <1>2
<1>6. <<q[1]>> \in Seq(Piece) /\ Append(stream[c], q[1]) = stream[c] \o <<q[1]>>
  BY <1>0, <1>5, AppendIsConcat
<1>4. Good(c, Mine(c), done[c], said'[c], Sent(c)', cut)
  <2>1. Good(c, Mine(c), done[c], said[c], stream[c], cut)
    BY <1>0, SentType DEF WInv, StreamOK
  <2>2. Mine(c) \in Seq(Text) /\ done[c] \in Nat
    BY <1>0, MineType DEF TypeOK
  <2>3. Good(c, Mine(c), done[c], said[c] + 1, stream[c] \o q, cut)
    BY <1>0, <1>2, <2>1, <2>2, GoodGrows
  <2>4. Sent(c)' = stream[c] \o q
    <3>1. stream'[c] = Append(stream[c], q[1])
      BY <1>0, <1>1
    <3>2. LastPiece(c)' = q[2]
      BY <1>3 DEF LastPiece, q
    <3>3. Sent(c)' = Append(stream[c], q[1]) \o <<q[2]>>
      BY <1>1, <3>1, <3>2 DEF Sent
    <3>4. Append(stream[c], q[1]) \o <<q[2]>> = stream[c] \o <<q[1], q[2]>>
      <4>1. <<q[1]>> \in Seq(Piece) /\ <<q[2]>> \in Seq(Piece)
        BY <1>5
      <4>2. <<q[1]>> \o <<q[2]>> = <<q[1], q[2]>>
        BY <1>5, OneAndOne
      <4>3. (stream[c] \o <<q[1]>>) \o <<q[2]>> = stream[c] \o (<<q[1]>> \o <<q[2]>>)
        BY <1>0, <4>1, ConcatAssociative
      <4> QED
        BY <1>6, <4>2, <4>3
    <3> QED
      BY <1>2, <3>3, <3>4
  <2> QED
    BY <1>3, <2>3, <2>4
<1>7. stream' = [stream EXCEPT ![c] = stream[c] \o <<q[1]>>]
  BY <1>1, <1>6
<1>8. unended' \subseteq Clients
  BY <1>0, <1>1
<1> QED
  BY <1>1, <1>3, <1>4, <1>6, <1>7, <1>8, StreamGrows

\* And ends it.
LEMMA EndKeeps == ASSUME WInv, NEW c \in Clients, End(c) PROVE WInv'
<1> USE PeopleAreNumbers
<1> DEFINE l == LastPiece(c)
<1>0. /\ TypeOK /\ c \in People /\ said \in [People -> Nat] /\ said[c] \in Nat
      /\ c \in conn /\ c \in unended /\ unended \subseteq Clients
      /\ stream[c] \in Seq(Piece)
  BY SentType DEF WInv, TypeOK, End
<1>1. /\ stream' = [stream EXCEPT ![c] = Append(stream[c], l)]
      /\ unended' = unended \ {c}
      /\ UNCHANGED <<handler, session, said, torn, output, past>>
  BY DEF End
<1>2. l \in Piece
  BY <1>0, LastPieceType
<1>3. Sent(c) = stream[c] \o <<l>>
  BY <1>0 DEF Sent
<1> HIDE DEF l
<1>4. /\ <<l>> \in Seq(Piece) /\ Append(stream[c], l) = stream[c] \o <<l>>
      /\ Append(stream[c], l) \in Seq(Piece)
  BY <1>0, <1>2
<1>5. Sent(c)' = Sent(c)
  <2>1. stream'[c] = Append(stream[c], l)
    BY <1>0, <1>1 DEF TypeOK
  <2>2. Sent(c)' = Append(stream[c], l) \o <<>>
    BY <1>1, <2>1 DEF Sent
  <2> QED
    BY <1>3, <1>4, <2>2, ConcatEmptySeq
<1>6. Good(c, Mine(c), done[c], said'[c], Sent(c)', cut)
  BY <1>0, <1>1, <1>5 DEF WInv, StreamOK
<1>7. stream' = [stream EXCEPT ![c] = stream[c] \o <<l>>]
  BY <1>1, <1>4
<1>8. /\ unended' \subseteq Clients /\ said' \in [People -> Nat]
      /\ \A d \in conn \ {c} : said'[d] = said[d] /\ (d \in unended' <=> d \in unended)
  BY <1>0, <1>1
<1> QED
  BY <1>1, <1>4, <1>6, <1>7, <1>8, StreamGrows

\* Every step keeps the invariant.
LEMMA WInvNext == WInv /\ [Next]_vars => WInv'
<1> SUFFICES ASSUME WInv, [Next]_vars PROVE WInv'
  OBVIOUS
<1>1. CASE Register
  BY <1>1, RegisterKeeps
<1>2. CASE Refused
  BY <1>2, RefusedKeeps
<1>3. CASE Talk
  BY <1>3, TalkKeeps
<1>4. CASE QuitBegins
  BY <1>4, QuitBeginsKeeps
<1>5. CASE SendQuit
  BY <1>5, SendQuitKeeps
<1>6. CASE QuitEnds
  BY <1>6, QuitEndsKeeps
<1>7. CASE \E c \in People : Recv(c) \/ WouldBlock(c) \/ Gone(c)
  BY <1>7, RecvKeeps, WouldBlockKeeps, GoneKeeps
<1>10. CASE BotSendKills \/ DropTorn
  BY <1>10, BotSendKillsKeeps, DropTornKeeps
<1>8. CASE World
  <2>1. PICK c \in Clients :
          \/ Hear(c) \/ HangUp(c) \/ Begin(c) \/ End(c)
          \/ Say(c, "user", c) \/ Say(c, "quit", c)
          \/ \E d \in People : Say(c, "talk", d)
    BY <1>8, PeopleAreNumbers DEF World
  <2>2. c \in People /\ {"user", "talk", "quit"} \subseteq Kinds /\ pc # "killed"
    BY <1>8, PeopleAreNumbers DEF Kinds, World
  <2> QED
    BY <2>1, <2>2, WorldKeeps, SayKeeps, BeginKeeps, EndKeeps
<1>9. CASE UNCHANGED vars
  <2>1. UNCHANGED <<pc, conn, logged, botnick, who, taken, batch, todo, stream, unended, torn,
                    unread, peer, said, done, cut, welcome>>
    BY <1>9 DEF vars
  <2>2. TypeOK' /\ Serving'
    BY <2>1 DEF WInv, TypeOK, Serving, Idle
  <2>3. \A d \in conn' : StreamOK(d)'
    BY <2>1, StreamsStay DEF Mine, Sent, LastPiece
  <2> QED
    BY <2>2, <2>3 DEF WInv
<1> QED
  BY <1>1, <1>2, <1>3, <1>4, <1>5, <1>6, <1>7, <1>8, <1>9, <1>10 DEF Next, Thread

\* The lines in front of a client: those of the segment, then what the next reads would find if they
\* ended behind a line.
LEMMA WInvLines == WInv => StreamsOK
<1> SUFFICES ASSUME WInv PROVE LinesKept
  BY DEF WInv, StreamsOK
<1> SUFFICES ASSUME NEW c \in conn
             PROVE  [k \in 1..Len(Ahead(c)) |-> <<Ahead(c)[k].id, Ahead(c)[k].whole>>] =
                      [k \in 1..said[c] - done[c] |->
                         <<done[c] + k, <<c, done[c] + k>> \notin cut>>]
  BY DEF LinesKept
<1> DEFINE b == Mine(c)
           d == done[c]
           s == said[c]
           p == Sent(c)
           e == d + Len(b)
           r == Complete(p)
           a == Ahead(c)
<1>1. /\ b \in Seq(Text) /\ d \in Nat /\ s \in Nat /\ p \in Seq(Piece)
      /\ Good(c, b, d, s, p, cut)
  <2>1. c \in People /\ Mine(c) \in Seq(Text)
    BY MineType DEF WInv, TypeOK
  <2>2. Sent(c) \in Seq(Piece)
    BY <2>1, SentType DEF WInv
  <2> QED
    BY <2>1, <2>2 DEF WInv, TypeOK, StreamOK
<1>2. a = b \o r
  BY DEF Ahead, Mine
<1> HIDE DEF b, d, s, p
<1>3. Len(b) \in Nat /\ e \in Nat /\ s - e \in Nat /\ e <= s
  <2>1. Len(b) \in Nat
    BY <1>1, LenProperties
  <2> QED
    BY <1>1, <2>1 DEF Good
<1>4. PICK t \in {0, 1} : Shape(p, t, e, s - e, 0) /\ (t = 1 <=> <<c, e + 1>> \in cut)
  BY <1>1 DEF Good
<1>5. /\ \A k \in 1..Len(b) : b[k].id = d + k /\ (b[k].whole <=> <<c, d + k>> \notin cut)
      /\ \A n \in Nat : <<c, n>> \in cut => n <= e + 1
  BY <1>1 DEF Good
<1>6. /\ r \in Seq(Text) /\ Len(r) = s - e
      /\ \A j \in 1..s - e : /\ r[j].id = e + j
                             /\ r[j].whole <=> ~(j = 1 /\ t = 1)
  BY <1>1, <1>3, <1>4, CompleteShape
<1> HIDE DEF r, a
<1>7. /\ Len(a) = s - d
      /\ \A k \in 1..Len(b) : a[k] = b[k]
      /\ \A k \in 1..s - d : k > Len(b) => a[k] = r[k - Len(b)]
      /\ a \in Seq(Text)
  BY <1>1, <1>2, <1>3, <1>6
<1>8. ASSUME NEW k \in 1..s - d
      PROVE  a[k].id = d + k /\ (a[k].whole <=> <<c, d + k>> \notin cut)
  <2>1. CASE k <= Len(b)
    <3>1. k \in 1..Len(b)
      BY <1>3, <2>1
    <3> QED
      BY <1>5, <1>7, <3>1
  <2>2. CASE k > Len(b)
    <3> DEFINE j == k - Len(b)
    <3>1. j \in 1..s - e /\ d + k = e + j /\ d + k \in Nat
      BY <1>1, <1>3, <2>2
    <3>2. a[k] = r[j]
      BY <1>7, <2>2
    <3> HIDE DEF j
    <3>3. <<c, e + j>> \in cut <=> j = 1 /\ t = 1
      <4>1. j = 1 \/ ~(e + j <= e + 1)
        BY <1>3, <3>1
      <4>2. e + j \in Nat
        BY <1>3, <3>1
      <4> QED
        BY <1>4, <1>5, <4>1, <4>2
    <3> QED
      BY <1>6, <3>1, <3>2, <3>3
  <2> QED
    BY <1>3, <2>1, <2>2
<1>9. \A k \in 1..s - d : a[k].whole \in BOOLEAN
  <2>1. \A k \in 1..s - d : a[k] \in Text
    BY <1>7, ElementOfSeq
  <2> QED
    BY <2>1 DEF Text
<1>10. [k \in 1..Len(a) |-> <<a[k].id, a[k].whole>>] =
         [k \in 1..s - d |-> <<d + k, <<c, d + k>> \notin cut>>]
  <2>1. ASSUME NEW k \in 1..s - d
        PROVE  <<a[k].id, a[k].whole>> = <<d + k, <<c, d + k>> \notin cut>>
    <3>1. a[k].id = d + k /\ a[k].whole = (<<c, d + k>> \notin cut)
      BY <1>8, <1>9
    <3> QED
      BY <3>1
  <2> QED
    BY <1>7, <2>1
<1> QED
  BY <1>10 DEF a, d, s

\* Whatever TCP does to the streams, every line that a client has sent is executed once,
\* in order and as it was sent, unless a read ended inside it.
THEOREM LinesAreKept == Spec => []StreamsOK
<1>1. Init => WInv
  BY WInvInit
<1>2. WInv /\ [Next]_vars => WInv'
  BY WInvNext
<1>3. WInv => StreamsOK
  BY WInvLines
<1> QED
  BY <1>1, <1>2, <1>3, PTL DEF Spec
-----------------------------------------------------------------------------
(* The loop over poll(). *)

Entries == [fd : Sockets, in : BOOLEAN]

\* Where s has an entry of one of the descriptors in closed.
Closing(s, closed) == {j \in 1..Len(s) : s[j].fd \in closed}

\* removeFd returns the entries whose descriptor stays, in their order.
LEMMA RemoveFdsProperties ==
  ASSUME NEW s \in Seq(Entries), NEW closed
  PROVE  /\ RemoveFds(s, closed) \in Seq(Entries)
         /\ \E at : Selects(s, Closing(s, closed), RemoveFds(s, closed), at)
<1> DEFINE K == Closing(s, closed)
           kept == CHOOSE g : g = [j \in 0..Len(s) |->
                     IF j = 0 THEN <<>>
                     ELSE IF s[j].fd \in closed THEN g[j - 1]
                     ELSE Append(g[j - 1], s[j])]
<1>0. Len(s) \in Nat
  BY LenProperties
<1>1. RemoveFds(s, closed) = kept[Len(s)]
  BY DEF RemoveFds
<1>2. PICK g : Keeps(s, K, g)
  BY KeptExists
<1>3. \A j \in 0..Len(s) : j # 0 => (j \in K <=> s[j].fd \in closed)
  BY <1>0 DEF Closing
<1>4. ASSUME NEW h
      PROVE  Keeps(s, K, h) <=>
               h = [j \in 0..Len(s) |->
                      IF j = 0 THEN <<>>
                      ELSE IF s[j].fd \in closed THEN h[j - 1]
                      ELSE Append(h[j - 1], s[j])]
  <2>1. \A j \in 0..Len(s) :
          (IF j = 0 THEN <<>>
           ELSE IF j \in K THEN h[j - 1] ELSE Append(h[j - 1], s[j]))
          = (IF j = 0 THEN <<>>
             ELSE IF s[j].fd \in closed THEN h[j - 1] ELSE Append(h[j - 1], s[j]))
    BY <1>3
  <2> QED
    BY <2>1 DEF Keeps
<1>5. Keeps(s, K, kept)
  BY <1>2, <1>4
<1> HIDE DEF kept
<1> QED
  BY <1>1, <1>5, KeptProperties

-----------------------------------------------------------------------------
(* The poll set.  PollSetOK alone is not inductive: that the backlog of    *)
(* accept() never becomes negative follows from NoStaleEvent, and that one *)
(* handler leaves no stale event to the next from OneEntryEach: all that   *)
(* the handler does to its own socket concerns no later entry.             *)

LInv == PollSetOK /\ NoStaleEvent

pollVars == <<place, open, pollfds, i, pending, gone>>

\* The entries, one by one.
LEMMA PolledProperties ==
  ASSUME LoopTypeOK
  PROVE  /\ Len(pollfds) \in Nat
         /\ \A j \in 1..Len(pollfds) : /\ pollfds[j] \in Entries
                                       /\ pollfds[j].fd \in Sockets
                                       /\ pollfds[j].fd \in Polled
         /\ \A s \in Polled : \E j \in 1..Len(pollfds) : pollfds[j].fd = s
<1>1. pollfds \in Seq(Entries)
  BY DEF LoopTypeOK, Entries
<1>2. Len(pollfds) \in Nat /\ \A j \in 1..Len(pollfds) : pollfds[j] \in Entries
  BY <1>1, LenProperties, ElementOfSeq
<1>3. \A e \in Entries : e.fd \in Sockets
  BY DEF Entries
<1> QED
  BY <1>2, <1>3 DEF Polled

\* run() begins with the listening socket alone.
LEMMA LInvInit ==
  ASSUME LoopInit
  PROVE  LInv
<1> DEFINE e == [fd |-> Listen, in |-> FALSE]
<1>1. e \in [fd : Sockets, in : BOOLEAN] /\ e.fd = Listen
  BY DEF Sockets
<1> DEFINE E == [fd : Sockets, in : BOOLEAN]
<1>2. pollfds = <<e>>
  BY DEF LoopInit
<1>3. /\ pollfds \in Seq([fd : Sockets, in : BOOLEAN])
      /\ Len(pollfds) = 1 /\ pollfds[1] = e
  <2> HIDE DEF e, E
  <2>1. e \in E => <<e>> \in Seq(E) /\ Len(<<e>>) = 1 /\ <<e>>[1] = e
    OBVIOUS
  <2> QED
    BY <1>1, <1>2, <2>1 DEF E
<1> HIDE DEF e
<1>4. LoopTypeOK
  <2>1. pending \in [Sockets -> 0..MaxPending]
    <3>1. 0 \in 0..MaxPending /\ 1 \in 0..MaxPending
      BY LoopConstants
    <3> QED
      BY <3>1 DEF LoopInit
  <2>2. /\ place \in Places /\ open \subseteq Fds /\ i \in Nat \ {0}
        /\ running \in BOOLEAN /\ gone \subseteq Fds /\ lost \in BOOLEAN
    <3>1. running \in BOOLEAN /\ lost \in BOOLEAN
      BY Zenon DEF LoopInit
    <3>2. place \in Places /\ open \subseteq Fds /\ i \in Nat \ {0} /\ gone \subseteq Fds
      BY DEF LoopInit, Places
    <3> QED
      BY <3>1, <3>2
  <2> QED
    BY <1>3, <2>1, <2>2 DEF LoopTypeOK
<1>5. OneEntryEach
  BY <1>1, <1>3 DEF LoopInit, OneEntryEach, Polled
<1>6. NoStaleEvent
  BY DEF LoopInit, NoStaleEvent
<1> QED
  BY <1>4, <1>5, <1>6 DEF LInv, PollSetOK

\* A client that sends or hangs up makes more sockets readable, not fewer.
LEMMA LInvClients ==
  ASSUME LInv, Connect \/ \E f \in Fds : Send(f) \/ Leave(f)
  PROVE  LInv'
<1>1. /\ UNCHANGED <<open, place, pollfds, i, running, lost>>
      /\ pending' \in [Sockets -> 0..MaxPending] /\ gone' \subseteq Fds
      /\ \A s \in Sockets : Ready(s) => Ready(s)'
  <2>1. CASE Connect
    BY <2>1, LoopConstants
       DEF Connect, LInv, PollSetOK, LoopTypeOK,
           Sockets, Ready
  <2>2. ASSUME NEW f \in Fds, Send(f) PROVE <1>1!1 /\ <1>1!2 /\ <1>1!3
    BY <2>2, LoopConstants
       DEF Send, LInv, PollSetOK, LoopTypeOK,
           Sockets, Ready
  <2>3. ASSUME NEW f \in Fds, Leave(f) PROVE <1>1!1 /\ <1>1!2 /\ <1>1!3
    BY <2>3 DEF Leave, LInv, PollSetOK, LoopTypeOK, Ready
  <2> QED
    BY <2>1, <2>2, <2>3
<1>2. PollSetOK'
  BY <1>1 DEF LInv, PollSetOK, LoopTypeOK, OneEntryEach, Polled
<1>3. \A j \in 1..Len(pollfds) : pollfds[j].fd \in Sockets
  BY PolledProperties DEF LInv, PollSetOK
<1>4. NoStaleEvent'
  BY <1>1, <1>3 DEF LInv, NoStaleEvent
<1> QED
  BY <1>2, <1>4 DEF LInv

\* What the thread does outside of a handler.
LEMMA LInvQuiet ==
  ASSUME LInv, Signal \/ Test \/ EnterPoll \/ EndOfScan \/ NotReady
  PROVE  LInv'
<1>1. /\ UNCHANGED <<open, pollfds, pending, gone>>
      /\ place' \in Places /\ running' \in BOOLEAN /\ lost' \in BOOLEAN
      /\ i' \in Nat \ {0} /\ i <= i'
      /\ place' = "scan" => place = "scan"
  <2>1. i \in Nat \ {0} /\ place \in Places /\ running \in BOOLEAN /\ lost \in BOOLEAN
    BY DEF LInv, PollSetOK, LoopTypeOK
  <2>2. CASE Signal
    <3>1. lost' = (place = "enter")
      BY <2>2 DEF Signal
    <3>2. (place = "enter") \in BOOLEAN
      OBVIOUS
    <3>3. lost' \in BOOLEAN
      BY <3>1, <3>2, Zenon
    <3>4. /\ UNCHANGED <<open, pollfds, i, pending, gone>>
          /\ place' \in Places /\ running' \in BOOLEAN
          /\ place' = "scan" => place = "scan"
      BY <2>1, <2>2 DEF Signal, Places
    <3> QED
      BY <2>1, <3>3, <3>4
  <2>3. CASE Test \/ EnterPoll \/ EndOfScan
    BY <2>1, <2>3 DEF Test, EnterPoll, EndOfScan, Places
  <2>4. CASE NotReady
    BY <2>1, <2>4 DEF NotReady
  <2> QED
    BY <2>2, <2>3, <2>4
<1>2. PollSetOK'
  BY <1>1 DEF LInv, PollSetOK, LoopTypeOK, OneEntryEach, Polled
<1>3. NoStaleEvent'
  <2>1. Len(pollfds) \in Nat /\ i \in Nat /\ i' \in Nat
    BY <1>1, PolledProperties DEF LInv, PollSetOK, LoopTypeOK
  <2>2. \A j \in 1..Len(pollfds) : j >= i' => j >= i
    BY <1>1, <2>1
  <2>3. UNCHANGED pollfds /\ \A s : Ready(s)' = Ready(s)
    BY <1>1 DEF Ready
  <2> QED
    BY <1>1, <2>2, <2>3 DEF LInv, NoStaleEvent
<1> QED
  BY <1>2, <1>3 DEF LInv

\* poll() marks what is ready, when it is.
LEMMA LInvPollReturns ==
  ASSUME LInv, PollReturns
  PROVE  LInv'
<1>1. /\ Len(pollfds) \in Nat
      /\ \A j \in 1..Len(pollfds) : pollfds[j].fd \in Sockets
      /\ pollfds' = [j \in 1..Len(pollfds) |->
                       [fd |-> pollfds[j].fd, in |-> Ready(pollfds[j].fd)]]
      /\ i' = 1 /\ place' = "scan"
      /\ UNCHANGED <<open, running, pending, gone, lost>>
  BY PolledProperties DEF PollReturns, LInv, PollSetOK
<1>2. \A s : Ready(s) \in BOOLEAN /\ Ready(s)' = Ready(s)
  BY <1>1 DEF Ready
<1>3. /\ Len(pollfds') = Len(pollfds)
      /\ pollfds' \in Seq(Entries)
      /\ \A j \in 1..Len(pollfds) : /\ pollfds'[j].fd = pollfds[j].fd
                                    /\ pollfds'[j].in = Ready(pollfds[j].fd)
  BY <1>1, <1>2 DEF Entries
<1>4. LoopTypeOK'
  BY <1>1, <1>3 DEF LInv, PollSetOK, LoopTypeOK, Entries, Places
<1>5. OneEntryEach'
  <2>1. Polled' = Polled
    BY <1>3 DEF Polled
  <2>2. 1 \in 1..Len(pollfds)
    <3>1. Listen \in Polled
      BY DEF LInv, PollSetOK, OneEntryEach
    <3> QED
      BY <1>1, <3>1 DEF Polled
  <2> QED
    BY <1>1, <1>3, <2>1, <2>2 DEF LInv, PollSetOK, OneEntryEach
<1>6. NoStaleEvent'
  BY <1>2, <1>3 DEF NoStaleEvent
<1> QED
  BY <1>4, <1>5, <1>6 DEF LInv, PollSetOK

\* A new connection is added behind every event that is still to come.
LEMMA LInvAccept ==
  ASSUME LInv, Accept
  PROVE  LInv'
<1>0. /\ LoopTypeOK /\ OneEntryEach /\ At(Listen)
      /\ Len(pollfds) \in Nat /\ i \in Nat \ {0} /\ i \in 1..Len(pollfds)
      /\ \A j \in 1..Len(pollfds) : pollfds[j].fd \in Sockets
  BY PolledProperties DEF Accept, At, LInv, PollSetOK, LoopTypeOK
<1>1. \A j \in 1..Len(pollfds) : j >= i + 1 => pollfds[j].fd # Listen
  BY <1>0 DEF At, OneEntryEach
<1>2. ASSUME NEW f \in Fds \ open,
             open' = open \cup {f}, pollfds' = AddFd(f),
             pending' = [pending EXCEPT ![Listen] = @ - 1],
             i' = i + 1, UNCHANGED <<place, running, gone, lost>>
      PROVE  LInv'
  <2> DEFINE e == [fd |-> f, in |-> FALSE]
             n == Len(pollfds)
  <2>1. e \in Entries /\ e.fd = f /\ e.in = FALSE
    BY DEF Entries, Sockets
  <2>2. /\ pollfds' \in Seq(Entries) /\ Len(pollfds') = n + 1
        /\ \A j \in 1..n : pollfds'[j] = pollfds[j]
        /\ pollfds'[n + 1] = e
    <3>1. pollfds \in Seq(Entries) /\ pollfds' = Append(pollfds, e)
      BY <1>0, <1>2 DEF LoopTypeOK, AddFd, Entries
    <3> HIDE DEF e
    <3> QED
      BY <2>1, <3>1, AppendProperties
  <2> HIDE DEF e, n
  <2>3. n \in Nat /\ i \in 1..n /\ n = Len(pollfds)
    BY <1>0 DEF n
  <2>4. pending[Listen] \in 1..MaxPending
    <3>1. Ready(Listen)
      BY <1>0 DEF LInv, NoStaleEvent, At
    <3>2. Listen \notin gone /\ pending[Listen] \in 0..MaxPending
      BY <1>0, LoopConstants DEF LoopTypeOK, Sockets
    <3> QED
      BY <3>1, <3>2, LoopConstants DEF Ready
  <2>5. LoopTypeOK'
    <3>1. pending' \in [Sockets -> 0..MaxPending]
      <4>1. pending[Listen] - 1 \in 0..MaxPending
        BY <2>4, LoopConstants
      <4>2. pending \in [Sockets -> 0..MaxPending]
        BY <1>0 DEF LoopTypeOK
      <4> QED
        BY <1>2, <4>1, <4>2
    <3> QED
      <4>1. /\ place' \in Places /\ gone' \subseteq Fds /\ open' \subseteq Fds
            /\ i' \in Nat \ {0}
        BY <1>0, <1>2 DEF LoopTypeOK
      <4>2. running' \in BOOLEAN /\ lost' \in BOOLEAN
        BY <1>0, <1>2 DEF LoopTypeOK
      <4>3. pollfds' \in Seq([fd : Sockets, in : BOOLEAN])
        BY <2>2 DEF Entries
      <4> QED
        BY <3>1, <4>1, <4>2, <4>3 DEF LoopTypeOK
  <2>6. OneEntryEach'
    <3>1. Polled' = Polled \cup {f}
      BY <2>1, <2>2, <2>3 DEF Polled
    <3>2. f \notin Polled
      BY <1>0, LoopConstants DEF OneEntryEach
    <3>3. \A j \in 1..n : pollfds[j].fd \in Polled
      BY <2>3 DEF Polled
    <3>4. \A j, k \in 1..n + 1 : pollfds'[j].fd = pollfds'[k].fd => j = k
      <4>1. \A j, k \in 1..n : pollfds[j].fd = pollfds[k].fd => j = k
        BY <1>0, <2>3 DEF OneEntryEach
      <4>2. \A j \in 1..n : pollfds'[j].fd # f
        BY <2>2, <3>2, <3>3
      <4>3. pollfds'[n + 1].fd = f
        BY <2>1, <2>2
      <4>4. \A j \in 1..n + 1 : j \in 1..n \/ j = n + 1
        BY <2>3
      <4> QED
        BY <2>2, <4>1, <4>2, <4>3, <4>4
    <3>5. pollfds'[1].fd = Listen
      BY <1>0, <2>2, <2>3 DEF OneEntryEach
    <3>6. Polled' = open' \cup {Listen}
      BY <1>0, <1>2, <3>1 DEF OneEntryEach
    <3> QED
      BY <2>2, <3>4, <3>5, <3>6 DEF OneEntryEach
  <2>7. NoStaleEvent'
    <3> SUFFICES ASSUME NEW j \in 1..n + 1, j >= i + 1, pollfds'[j].in
                 PROVE  pending'[pollfds'[j].fd] > 0 \/ pollfds'[j].fd \in gone'
      BY <1>2, <2>2 DEF NoStaleEvent, Ready
    <3>1. j \in 1..n /\ pollfds'[j] = pollfds[j]
      BY <2>1, <2>2, <2>3
    <3>2. Ready(pollfds[j].fd) /\ pollfds[j].fd \in Sockets \ {Listen}
      BY <1>0, <1>1, <2>3, <3>1 DEF LInv, NoStaleEvent, At
    <3>3. pending'[pollfds[j].fd] = pending[pollfds[j].fd]
      BY <1>0, <1>2, <3>2 DEF LoopTypeOK
    <3> QED
      BY <1>2, <3>1, <3>2, <3>3 DEF Ready
  <2> QED
    BY <2>5, <2>6, <2>7 DEF LInv, PollSetOK
<1>3. CASE place' = "abort" /\ UNCHANGED <<open, pollfds, pending, i, running, gone, lost>>
  <2>1. PollSetOK'
    BY <1>0, <1>3 DEF PollSetOK, LoopTypeOK, OneEntryEach, Polled, Places
  <2>2. NoStaleEvent'
    BY <1>3 DEF NoStaleEvent
  <2> QED
    BY <2>1, <2>2 DEF LInv
<1> QED
  BY <1>2, <1>3 DEF Accept

\* A handler that closes some connections: whatever it erases, the entries
\* that are left behind the index were behind it before.
LEMMA LInvHandle ==
  ASSUME NEW f \in Fds, LInv, Handle(f)
  PROVE  LInv'
<1>0. /\ LoopTypeOK /\ OneEntryEach /\ At(f)
      /\ Len(pollfds) \in Nat /\ i \in Nat \ {0} /\ i \in 1..Len(pollfds)
      /\ \A j \in 1..Len(pollfds) : pollfds[j].fd \in Sockets /\ pollfds[j].fd \in Polled
      /\ pollfds \in Seq(Entries)
  <2>1. LoopTypeOK /\ OneEntryEach /\ At(f)
    BY DEF Handle, LInv, PollSetOK
  <2>2. i \in Nat \ {0} /\ pollfds \in Seq(Entries)
    BY <2>1 DEF LoopTypeOK, Entries
  <2>3. Len(pollfds) \in Nat /\ i <= Len(pollfds)
    BY <2>1, PolledProperties DEF At
  <2>4. i \in 1..Len(pollfds)
    BY <2>2, <2>3
  <2> QED
    BY <2>1, <2>2, <2>3, <2>4, PolledProperties
<1>1. PICK closed \in {{}, {f}} \cup {{f, g} : g \in open}, left \in 0..MaxPending :
        /\ open' = open \ closed
        /\ pollfds' = RemoveFds(pollfds, closed)
        /\ pending' = [s \in Sockets |-> IF s \in closed THEN 0
                                         ELSE IF s = f THEN left
                                         ELSE pending[s]]
        /\ gone' = gone \ closed
        /\ i' = i + 1
        /\ UNCHANGED <<place, running, lost>>
  BY DEF Handle
<1>2. f \in open /\ closed \subseteq open /\ Listen \notin closed /\ open \subseteq Fds
  <2>1. f \in Polled /\ f # Listen
    BY <1>0, LoopConstants DEF At
  <2>2. f \in open /\ open \subseteq Fds
    BY <1>0, <2>1 DEF OneEntryEach, LoopTypeOK
  <2> QED
    BY <2>2, LoopConstants
<1> DEFINE r == RemoveFds(pollfds, closed)
           K == Closing(pollfds, closed)
<1>3. PICK at : r \in Seq(Entries) /\ Selects(pollfds, K, r, at)
  BY <1>0, RemoveFdsProperties
<1>4. pollfds' = r
  BY <1>1
<1> HIDE DEF r
<1>5. /\ Len(r) \in Nat
      /\ \A j \in 1..Len(r) : /\ at[j] \in 1..Len(pollfds) /\ at[j] >= j
                              /\ r[j] = pollfds[at[j]]
                              /\ pollfds[at[j]].fd \notin closed
      /\ \A j, k \in 1..Len(r) : at[j] = at[k] => j = k
      /\ \A m \in 1..Len(pollfds) : pollfds[m].fd \notin closed =>
           \E j \in 1..Len(r) : at[j] = m
  <2>1. Len(r) \in Nat
    BY <1>3, LenProperties
  <2>2. \A j \in 1..Len(r) : /\ at[j] \in 1..Len(pollfds) /\ at[j] >= j
                             /\ r[j] = pollfds[at[j]] /\ at[j] \notin K
    BY <1>3 DEF Selects
  <2>3. \A j, k \in 1..Len(r) : j < k => at[j] < at[k]
    BY <1>3 DEF Selects
  <2>4. \A j, k \in 1..Len(r) : at[j] = at[k] => j = k
    BY <2>1, <2>2, <2>3
  <2>5. \A m \in 1..Len(pollfds) : m \in K <=> pollfds[m].fd \in closed
    BY DEF Closing
  <2>6. \A m \in 1..Len(pollfds) : m \notin K => \E j \in 1..Len(r) : at[j] = m
    BY <1>3 DEF Selects
  <2> QED
    BY <2>1, <2>2, <2>4, <2>5, <2>6
<1>6. LoopTypeOK'
  <2>1. pending' \in [Sockets -> 0..MaxPending]
    BY <1>0, <1>1, LoopConstants DEF LoopTypeOK
  <2> QED
    BY <1>0, <1>1, <1>2, <1>3, <1>4, <2>1 DEF LoopTypeOK, Entries
<1>7. OneEntryEach'
  <2>1. Polled' = {r[j].fd : j \in 1..Len(r)}
    BY <1>4 DEF Polled
  <2>2. ASSUME NEW s \in Polled \ closed PROVE \E j \in 1..Len(r) : r[j].fd = s
    <3>1. PICK m \in 1..Len(pollfds) : pollfds[m].fd = s
      BY DEF Polled
    <3> QED
      BY <1>5, <2>2, <3>1
  <2>3. \A j \in 1..Len(r) : r[j].fd \in Polled \ closed
    BY <1>0, <1>5
  <2>4. Polled' = Polled \ closed
    BY <2>1, <2>2, <2>3
  <2>5. Polled' = open' \cup {Listen}
    BY <1>0, <1>1, <1>2, <2>4 DEF OneEntryEach
  <2>6. \A j, k \in 1..Len(r) : r[j].fd = r[k].fd => j = k
    <3> SUFFICES ASSUME NEW j \in 1..Len(r), NEW k \in 1..Len(r), r[j].fd = r[k].fd
                 PROVE  j = k
      OBVIOUS
    <3>1. /\ at[j] \in 1..Len(pollfds) /\ r[j] = pollfds[at[j]]
          /\ at[k] \in 1..Len(pollfds) /\ r[k] = pollfds[at[k]]
      BY <1>5
    <3>2. pollfds[at[j]].fd = pollfds[at[k]].fd
      BY <3>1
    <3>3. at[j] = at[k]
      BY <1>0, <3>1, <3>2 DEF OneEntryEach
    <3> QED
      BY <1>5, <3>3
  <2>7. r[1].fd = Listen
    <3>1. 1 \in 1..Len(pollfds) /\ pollfds[1].fd = Listen
      BY <1>0 DEF OneEntryEach
    <3>2. PICK j \in 1..Len(r) : at[j] = 1
      BY <1>2, <1>5, <3>1
    <3>3. j = 1
      BY <1>5, <3>2
    <3> QED
      BY <1>5, <3>1, <3>2, <3>3
  <2> QED
    BY <1>4, <2>5, <2>6, <2>7 DEF OneEntryEach
<1>8. NoStaleEvent'
  <2> SUFFICES ASSUME NEW j \in 1..Len(r), j >= i + 1, r[j].in
               PROVE  pending'[r[j].fd] > 0 \/ r[j].fd \in gone'
    BY <1>1, <1>4 DEF NoStaleEvent, Ready
  <2> DEFINE s == r[j].fd
  <2>1. at[j] \in 1..Len(pollfds) /\ at[j] >= i + 1 /\ pollfds[at[j]] = r[j]
    <3>1. at[j] \in 1..Len(pollfds) /\ at[j] >= j /\ r[j] = pollfds[at[j]]
      BY <1>5
    <3>2. at[j] \in Int /\ j \in Int /\ i \in Int
      BY <1>0, <3>1
    <3>3. at[j] >= i + 1
      BY <3>1, <3>2
    <3> QED
      BY <3>1, <3>3
  <2>2. Ready(s)
    BY <1>0, <2>1 DEF LInv, NoStaleEvent, At
  <2>3. s # f
    <3>1. at[j] # i
      BY <1>0, <2>1
    <3>2. pollfds[i].fd = f /\ pollfds[at[j]].fd = s
      BY <1>0, <2>1 DEF At
    <3> QED
      BY <1>0, <2>1, <3>1, <3>2 DEF OneEntryEach
  <2>4. s \in Sockets \ closed
    BY <1>0, <1>5, <2>1
  <2> HIDE DEF s
  <2>5. pending'[s] = pending[s] /\ (s \in gone' <=> s \in gone)
    BY <1>1, <2>3, <2>4
  <2> QED
    BY <2>2, <2>5 DEF Ready, s
<1> QED
  BY <1>6, <1>7, <1>8 DEF LInv, PollSetOK

\* Every step keeps the invariant.
LEMMA LInvNext ==
  ASSUME LInv, [LoopNext]_loopVars
  PROVE  LInv'
<1>1. CASE LoopNext
  BY <1>1, LInvClients, LInvQuiet, LInvPollReturns, LInvAccept, LInvHandle
     DEF LoopNext, LoopThread, LoopWorld
<1>2. CASE UNCHANGED loopVars
  BY <1>2 DEF loopVars, LInv, PollSetOK, LoopTypeOK, OneEntryEach, Polled,
              NoStaleEvent, Ready
<1> QED
  BY <1>1, <1>2

\* It holds in every state the loop reaches.
LEMMA LoopInvariant ==
  LoopSpec => []LInv
<1>1. LoopInit => LInv
  BY LInvInit
<1>2. LInv /\ [LoopNext]_loopVars => LInv'
  BY LInvNext
<1> QED
  BY <1>1, <1>2, PTL DEF LoopSpec

\* The poll set has one entry for each open descriptor and none for another,
\* the listening socket first, in the middle of a pass too.
THEOREM PollSetIsRight ==
  LoopSpec => []PollSetOK
<1>1. LInv => PollSetOK
  BY DEF LInv
<1> QED
  BY <1>1, LoopInvariant, PTL

\* No handler is called on an event that is over.
THEOREM EventsAreFresh ==
  LoopSpec => []NoStaleEvent
<1>1. LInv => NoStaleEvent
  BY DEF LInv
<1> QED
  BY <1>1, LoopInvariant, PTL
==============================================================================
