--------------------------- MODULE FtClientProofs ----------------------------
(* Theorems about what a client is, FtSessions, and what it sends, FtText: for every value of *)
(* their constants, so for everything a client may send.                                      *)
EXTENDS FtSessions, FtText, SharedLemmas, FiniteSetTheorems

-----------------------------------------------------------------------------
(* FtText: what a client sends *)

\* What is sent, read, cut up and executed.  (That "\r" is a string is beyond the provers.)
Chars == STRING \cup {"\r", "\n", " ", ":", "@", "*!*"}
Texts == Seq(Chars)

\* One token, two tokens and none are texts.
LEMMA Short ==
  /\ \A t \in Chars : <<t>> \in Texts
  /\ \A t, u \in Chars : /\ <<t, u>> \in Texts /\ Len(<<t, u>>) = 2
                        /\ <<t, u>>[1] = t /\ <<t, u>>[2] = u
  /\ <<>> \in Texts
BY DEF Texts

\* What a text joined of texts is.
LEMMA FlattenTexts ==
  /\ FlattenSeq(<<>>) = <<>>
  /\ \A a \in Seq(Texts) : FlattenSeq(a) \in Texts
  /\ \A a, b \in Seq(Texts) : FlattenSeq(a \o b) = FlattenSeq(a) \o FlattenSeq(b)
  /\ \A t \in Texts : <<t>> \in Seq(Texts) /\ FlattenSeq(<<t>>) = t
<1>1. FlattenSeq(<<>>) = <<>>
  BY DEF FlattenSeq
<1>2. ASSUME NEW a \in Seq(Texts) PROVE FlattenSeq(a) \in Texts
  BY FlattenType DEF Texts
<1>3. ASSUME NEW a \in Seq(Texts), NEW b \in Seq(Texts)
      PROVE  FlattenSeq(a \o b) = FlattenSeq(a) \o FlattenSeq(b)
  BY FlattenConcat DEF Texts
<1>4. ASSUME NEW t \in Texts PROVE <<t>> \in Seq(Texts) /\ FlattenSeq(<<t>>) = t
  BY FlattenOne DEF Texts
<1> QED
  BY <1>1, <1>2, <1>3, <1>4

\* A token of a text, without the line ends, as a text.
Token(t) == IF t \in {"\r", "\n"} THEN <<>> ELSE <<t>>
Tokens(s) == [k \in 1..Len(s) |-> Token(s[k])]

\* Text joins these.
LEMMA TokensType ==
  ASSUME NEW s \in Texts
  PROVE  /\ Tokens(s) \in Seq(Texts) /\ Len(Tokens(s)) = Len(s)
         /\ \A k \in 1..Len(s) : Tokens(s)[k] = Token(s[k])
         /\ Text(s) = FlattenSeq(Tokens(s))
<1>1. Len(s) \in Nat /\ \A k \in 1..Len(s) : s[k] \in Chars
  BY LenProperties, ElementOfSeq DEF Texts
<1>2. \A k \in 1..Len(s) : Token(s[k]) \in Texts
  <2>1. ASSUME NEW t \in Chars PROVE Token(t) \in Texts
    BY Short DEF Token
  <2> QED
    BY <1>1, <2>1
<1>3. Text(s) = FlattenSeq(Tokens(s))
  BY Zenon DEF Text, Tokens, Token
<1> QED
  BY <1>1, <1>2, <1>3 DEF Tokens

\* Tokens takes a text apart token by token.
LEMMA TokensConcat ==
  ASSUME NEW a \in Texts, NEW b \in Texts
  PROVE  a \o b \in Texts /\ Tokens(a \o b) = Tokens(a) \o Tokens(b)
<1>1. /\ Len(a) \in Nat /\ Len(b) \in Nat
      /\ a \o b \in Texts /\ Len(a \o b) = Len(a) + Len(b)
      /\ \A k \in 1..Len(a) + Len(b) : (a \o b)[k] = IF k <= Len(a) THEN a[k] ELSE b[k - Len(a)]
  BY LenProperties, ConcatProperties DEF Texts
<1> DEFINE x == Tokens(a)
           y == Tokens(b)
           z == Tokens(a \o b)
<1>2. /\ x \in Seq(Texts) /\ Len(x) = Len(a)
      /\ y \in Seq(Texts) /\ Len(y) = Len(b)
      /\ z \in Seq(Texts) /\ Len(z) = Len(a) + Len(b)
  BY <1>1, TokensType
<1>3. /\ \A k \in 1..Len(a) : x[k] = Token(a[k])
      /\ \A k \in 1..Len(b) : y[k] = Token(b[k])
      /\ \A k \in 1..Len(a) + Len(b) : z[k] = Token((a \o b)[k])
  BY <1>1, TokensType
<1> HIDE DEF x, y, z
<1>4. x \o y \in Seq(Texts) /\ Len(x \o y) = Len(a) + Len(b)
  <2>1. x \in Seq(Texts) /\ y \in Seq(Texts)
    BY <1>2
  <2>2. x \o y \in Seq(Texts) /\ Len(x \o y) = Len(x) + Len(y)
    BY <2>1, ConcatProperties
  <2> QED
    BY <1>2, <2>2, Zenon
<1>5. ASSUME NEW k \in 1..Len(a) + Len(b) PROVE z[k] = (x \o y)[k]
  <2>1. (x \o y)[k] = IF k <= Len(a) THEN x[k] ELSE y[k - Len(a)]
    BY <1>2, ConcatProperties
  <2>2. k <= Len(a) => k \in 1..Len(a)
    BY <1>1
  <2>3. ~(k <= Len(a)) => k - Len(a) \in 1..Len(b)
    BY <1>1
  <2>4. z[k] = Token(IF k <= Len(a) THEN a[k] ELSE b[k - Len(a)])
    BY <1>1, <1>3
  <2> QED
    BY <1>3, <2>1, <2>2, <2>3, <2>4
<1>6. z = x \o y
  BY <1>2, <1>4, <1>5, SeqEqual
<1> QED
  BY <1>1, <1>6 DEF x, y, z

\* Text takes the line ends out of each part of a text.
LEMMA TextConcat ==
  ASSUME NEW a \in Texts, NEW b \in Texts
  PROVE  Text(a) \in Texts /\ Text(a \o b) = Text(a) \o Text(b)
<1>1. /\ Text(a) = FlattenSeq(Tokens(a)) /\ Tokens(a) \in Seq(Texts)
      /\ Text(b) = FlattenSeq(Tokens(b)) /\ Tokens(b) \in Seq(Texts)
  BY TokensType
<1>2. a \o b \in Texts /\ Tokens(a \o b) = Tokens(a) \o Tokens(b)
  BY TokensConcat
<1>3. Text(a \o b) = FlattenSeq(Tokens(a) \o Tokens(b))
  BY <1>2, TokensType, Zenon
<1>4. FlattenSeq(Tokens(a) \o Tokens(b)) = FlattenSeq(Tokens(a)) \o FlattenSeq(Tokens(b))
  BY <1>1, FlattenTexts, Zenon
<1>5. FlattenSeq(Tokens(a)) \in Texts
  BY <1>1, FlattenTexts, Zenon
<1> QED
  BY <1>1, <1>3, <1>4, <1>5, Zenon

\* A line end is a text without text.
LEMMA TextOfEnd ==
  /\ CRLF \in Texts /\ Len(CRLF) = 2 /\ CRLF[1] = "\r" /\ CRLF[2] = "\n"
  /\ Text(CRLF) = <<>>
  /\ <<>> \in Texts /\ Text(<<>>) = <<>>
<1>1. CRLF \in Texts /\ Len(CRLF) = 2 /\ CRLF[1] = "\r" /\ CRLF[2] = "\n"
  <2>1. "\r" \in Chars /\ "\n" \in Chars
    BY DEF Chars
  <2> QED
    BY <2>1, Short DEF CRLF
<1>2. <<>> \in Texts /\ Len(<<>>) = 0
  BY DEF Texts
<1>3. Tokens(<<>>) = <<>>
  BY <1>2 DEF Tokens
<1>4. Text(<<>>) = <<>>
  BY <1>2, <1>3, TokensType, FlattenTexts, Zenon
<1>5. Tokens(CRLF) = << <<>>, <<>> >>
  BY <1>1 DEF Tokens, Token
<1>6. << <<>>, <<>> >> = << <<>> >> \o << <<>> >>
  OBVIOUS
<1>7. FlattenSeq(<< <<>> >>) = <<>> /\ << <<>> >> \in Seq(Texts)
  BY <1>2, FlattenTexts, Zenon
<1>8. Text(CRLF) = FlattenSeq(<< <<>> >> \o << <<>> >>)
  BY <1>1, <1>5, <1>6, TokensType, Zenon
<1>9. FlattenSeq(<< <<>> >> \o << <<>> >>) = FlattenSeq(<< <<>> >>) \o FlattenSeq(<< <<>> >>)
  BY <1>7, FlattenTexts, Zenon
<1>10. <<>> \o <<>> = <<>>
  OBVIOUS
<1> QED
  BY <1>1, <1>2, <1>4, <1>7, <1>8, <1>9, <1>10, Zenon

-----------------------------------------------------------------------------
(* Where something stands in a text, and the parts between *)

\* A line end is two tokens.
LEMMA AtMeans ==
  ASSUME NEW m \in Texts, NEW k \in 1..Len(m)
  PROVE  At(m, CRLF, k) <=> k + 1 <= Len(m) /\ m[k] = "\r" /\ m[k + 1] = "\n"
<1>1. CRLF \in Texts /\ Len(CRLF) = 2 /\ CRLF[1] = "\r" /\ CRLF[2] = "\n"
  BY TextOfEnd
<1>2. Len(m) \in Nat /\ \A i \in 1..Len(m) : m[i] \in Chars
  BY LenProperties, ElementOfSeq DEF Texts
<1>3. k + Len(CRLF) - 1 = k + 1
  BY <1>1
<1>4. ASSUME k + 1 <= Len(m)
      PROVE  SubSeq(m, k, k + 1) = CRLF <=> m[k] = "\r" /\ m[k + 1] = "\n"
  <2> DEFINE p == SubSeq(m, k, k + 1)
  <2>1. \A i \in k..k + 1 : m[i] \in Chars
    BY <1>2, <1>4
  <2>2. p \in Texts /\ Len(p) = 2 /\ p[1] = m[k] /\ p[2] = m[k + 1]
    <3>1. /\ p \in Seq(Chars) /\ Len(p) = k + 1 - k + 1
          /\ \A i \in 1..k + 1 - k + 1 : p[i] = m[k + i - 1]
      <4>1. k \in Int /\ k + 1 \in Int /\ k <= k + 1
        BY <1>2
      <4> QED
        BY <2>1, <4>1, SubSeqProperties
    <3>2. k + 1 - k + 1 = 2 /\ k + 1 - 1 = k /\ k + 2 - 1 = k + 1
      BY <1>2
    <3> HIDE DEF p
    <3> QED
      BY <3>1, <3>2 DEF Texts
  <2> HIDE DEF p
  <2>3. CASE m[k] = "\r" /\ m[k + 1] = "\n"
    <3>1. \A i \in 1..2 : p[i] = CRLF[i]
      <4>1. \A i \in 1..2 : i = 1 \/ i = 2
        OBVIOUS
      <4> QED
        BY <1>1, <2>2, <2>3, <4>1, Zenon
    <3>2. p = CRLF
      BY <1>1, <2>2, <3>1, SeqEqual DEF Texts
    <3> QED
      BY <2>3, <3>2 DEF p
  <2>4. CASE ~(m[k] = "\r" /\ m[k + 1] = "\n")
    <3>1. p # CRLF
      BY <1>1, <2>2, <2>4, Zenon
    <3> QED
      BY <2>4, <3>1 DEF p
  <2> QED
    BY <2>3, <2>4
<1> QED
  BY <1>3, <1>4, Zenon DEF At

\* Found lists where d stands, in order.
LEMMA FoundProperties ==
  ASSUME NEW m \in Texts, NEW d
  PROVE  LET f == Found(m, d)
         IN /\ f \in Seq(Nat) /\ Len(f) \in Nat
            /\ \A j \in 1..Len(f) : f[j] \in 1..Len(m) /\ At(m, d, f[j])
            /\ \A j, k \in 1..Len(f) : j < k => f[j] < f[k]
            /\ \A k \in 1..Len(m) : At(m, d, k) => \E j \in 1..Len(f) : f[j] = k
<1> DEFINE s == [k \in 1..Len(m) |-> k]
           K == {k \in 1..Len(m) : ~At(m, d, k)}
           upTo == CHOOSE g : g = [k \in 0..Len(m) |->
                     IF k = 0 THEN <<>>
                     ELSE IF At(m, d, k) THEN Append(g[k - 1], k) ELSE g[k - 1]]
           f == Found(m, d)
<1>0. Len(m) \in Nat
  BY LenProperties DEF Texts
<1>1. f = upTo[Len(m)]
  BY DEF Found
<1>2. s \in Seq(Nat) /\ Len(s) = Len(m) /\ \A k \in 1..Len(m) : s[k] = k
  BY <1>0
<1>3. PICK h : Keeps(s, K, h)
  BY <1>2, KeptExists
<1>4. \A k \in 0..Len(m) : k # 0 => (k \in K <=> ~At(m, d, k)) /\ s[k] = k
  BY <1>0
<1> HIDE DEF K, s
<1>5. ASSUME NEW g
      PROVE  Keeps(s, K, g) <=>
               g = [k \in 0..Len(m) |->
                      IF k = 0 THEN <<>>
                      ELSE IF At(m, d, k) THEN Append(g[k - 1], k) ELSE g[k - 1]]
  <2>1. \A k \in 0..Len(m) :
          (IF k = 0 THEN <<>>
           ELSE IF k \in K THEN g[k - 1] ELSE Append(g[k - 1], s[k]))
          = (IF k = 0 THEN <<>>
             ELSE IF At(m, d, k) THEN Append(g[k - 1], k) ELSE g[k - 1])
    BY <1>4
  <2> QED
    BY <1>2, <2>1 DEF Keeps
<1>6. Keeps(s, K, upTo)
  BY <1>3, <1>5
<1> HIDE DEF upTo, f
<1>7. f \in Seq(Nat) /\ \E at : Selects(s, K, f, at)
  BY <1>1, <1>2, <1>6, KeptProperties
<1>8. PICK at : Selects(s, K, f, at)
  BY <1>7
<1>9. Len(f) \in Nat
  BY <1>7, LenProperties
<1>10. \A j \in 1..Len(f) : at[j] \in 1..Len(m) /\ f[j] = at[j] /\ At(m, d, at[j])
  <2>1. \A j \in 1..Len(f) : at[j] \in 1..Len(m) /\ f[j] = s[at[j]] /\ at[j] \notin K
    BY <1>2, <1>8 DEF Selects
  <2> QED
    BY <1>2, <2>1 DEF K
<1>11. \A j, k \in 1..Len(f) : j < k => f[j] < f[k]
  BY <1>8, <1>10 DEF Selects
<1>12. ASSUME NEW k \in 1..Len(m), At(m, d, k) PROVE \E j \in 1..Len(f) : f[j] = k
  <2>1. k \notin K
    BY <1>12 DEF K
  <2>2. PICK j \in 1..Len(f) : at[j] = k
    BY <1>2, <1>8, <2>1 DEF Selects
  <2> QED
    BY <1>10, <2>2
<1> QED
  BY <1>7, <1>9, <1>10, <1>11, <1>12 DEF f

\* How often d stands in m, and where part k begins and ends.
NumberOf(m, d) == Len(Found(m, d))
From(m, d, k) == IF k = 1 THEN 1 ELSE Found(m, d)[k - 1] + Len(d)
To(m, d, k) == IF k = NumberOf(m, d) + 1 THEN Len(m) ELSE Found(m, d)[k] - 1
\* Two of them do not overlap.
Apart(m, d) ==
  \A j, k \in 1..Len(m) : At(m, d, j) /\ At(m, d, k) /\ j < k => j + Len(d) <= k

\* A stretch of a text is a text.
LEMMA Stretch ==
  ASSUME NEW m \in Texts, NEW a \in 1..Len(m) + 1, NEW b \in a - 1..Len(m)
  PROVE  /\ SubSeq(m, a, b) \in Texts /\ Len(SubSeq(m, a, b)) = b - a + 1
         /\ \A i \in 1..b - a + 1 : SubSeq(m, a, b)[i] = m[a + i - 1]
<1>1. Len(m) \in Nat /\ \A i \in 1..Len(m) : m[i] \in Chars
  BY LenProperties, ElementOfSeq DEF Texts
<1>2. a \in Int /\ b \in Int /\ \A i \in a..b : m[i] \in Chars
  BY <1>1
<1>3. /\ SubSeq(m, a, b) \in Seq(Chars)
      /\ Len(SubSeq(m, a, b)) = IF a <= b THEN b - a + 1 ELSE 0
      /\ \A i \in 1..b - a + 1 : SubSeq(m, a, b)[i] = m[a + i - 1]
  BY <1>2, SubSeqProperties
<1>4. (IF a <= b THEN b - a + 1 ELSE 0) = b - a + 1
  BY <1>1
<1> QED
  BY <1>3, <1>4 DEF Texts

\* Line ends do not overlap.
LEMMA EndsApart ==
  ASSUME NEW m \in Texts
  PROVE  Apart(m, CRLF)
<1> SUFFICES ASSUME NEW j \in 1..Len(m), NEW k \in 1..Len(m),
                    At(m, CRLF, j), At(m, CRLF, k), j < k
             PROVE  j + Len(CRLF) <= k
  BY Zenon DEF Apart
<1>1. m[j + 1] = "\n" /\ m[k] = "\r"
  BY AtMeans
<1>2. j + 1 # k
  BY <1>1
<1>3. Len(m) \in Nat /\ Len(CRLF) = 2
  BY LenProperties, TextOfEnd DEF Texts
<1> QED
  BY <1>2, <1>3

\* A single token stands where it is.
LEMMA AtOne ==
  ASSUME NEW m \in Texts, NEW t \in Chars, NEW k \in 1..Len(m)
  PROVE  At(m, <<t>>, k) <=> m[k] = t
<1>1. Len(m) \in Nat /\ m[k] \in Chars
  BY LenProperties, ElementOfSeq DEF Texts
<1>2. k + Len(<<t>>) - 1 = k /\ k <= Len(m)
  BY <1>1
<1>3. SubSeq(m, k, k) = <<m[k]>>
  <2> DEFINE q == SubSeq(m, k, k)
             o == <<m[k]>>
  <2>1. q \in Texts /\ Len(q) = k - k + 1 /\ \A i \in 1..k - k + 1 : q[i] = m[k + i - 1]
    <3>1. k \in 1..Len(m) + 1 /\ k \in k - 1..Len(m)
      BY <1>1
    <3> QED
      BY <3>1, Stretch
  <2>2. k - k + 1 = 1 /\ k + 1 - 1 = k
    BY <1>1
  <2>3. o \in Texts /\ Len(o) = 1 /\ o[1] = m[k]
    BY <1>1, Short
  <2> HIDE DEF q, o
  <2>4. q \in Texts /\ Len(q) = Len(o) /\ \A i \in 1..Len(q) : q[i] = o[i]
    BY <2>1, <2>2, <2>3
  <2>5. q = o
    BY <2>3, <2>4, SeqEqual DEF Texts
  <2> QED
    BY <2>5 DEF q, o
<1>4. At(m, <<t>>, k) <=> SubSeq(m, k, k) = <<t>>
  BY <1>2, Zenon DEF At
<1>5. <<m[k]>> = <<t>> <=> m[k] = t
  OBVIOUS
<1> QED
  BY <1>3, <1>4, <1>5, Zenon

\* Single tokens do not overlap.
LEMMA OnesApart ==
  ASSUME NEW m \in Texts, NEW t
  PROVE  Apart(m, <<t>>)
<1>1. Len(m) \in Nat /\ Len(<<t>>) = 1
  BY LenProperties DEF Texts
<1> QED
  BY <1>1 DEF Apart

\* What Parts cuts a text into.
LEMMA PartsProperties ==
  ASSUME NEW m \in Texts, NEW d \in Texts, d # <<>>, Apart(m, d)
  PROVE  LET p == Parts(m, d)
             n == NumberOf(m, d)
         IN /\ n \in Nat /\ p \in Seq(Texts) /\ Len(p) = n + 1
            /\ \A k \in 1..n + 1 : /\ From(m, d, k) \in 1..Len(m) + 1
                                   /\ To(m, d, k) \in From(m, d, k) - 1..Len(m)
                                   /\ p[k] = SubSeq(m, From(m, d, k), To(m, d, k))
<1> DEFINE p == Parts(m, d)
           n == NumberOf(m, d)
           f == Found(m, d)
<1>0. Len(m) \in Nat /\ n \in Nat /\ Len(d) \in Nat \ {0}
  BY LenProperties, EmptySeq, FoundProperties DEF Texts, NumberOf
<1>1. p = [k \in 1..n + 1 |-> SubSeq(m, From(m, d, k), To(m, d, k))]
  <2>2. p = [k \in 1..Len(f) + 1 |-> SubSeq(m, IF k = 1 THEN 1 ELSE f[k - 1] + Len(d),
                                            IF k = Len(f) + 1 THEN Len(m) ELSE f[k] - 1)]
    BY Zenon DEF Parts
  <2>3. n = Len(f)
    BY DEF NumberOf
  <2> HIDE DEF p, f
  <2>4. \A k \in 1..n + 1 : /\ (IF k = 1 THEN 1 ELSE f[k - 1] + Len(d)) = From(m, d, k)
                            /\ (IF k = Len(f) + 1 THEN Len(m) ELSE f[k] - 1) = To(m, d, k)
    BY DEF From, To, f, NumberOf
  <2> HIDE DEF n
  <2> QED
    BY <2>2, <2>3, <2>4
<1>2. ASSUME NEW k \in 1..n + 1
      PROVE  From(m, d, k) \in 1..Len(m) + 1 /\ To(m, d, k) \in From(m, d, k) - 1..Len(m)
  <2>1. \A j \in 1..n : f[j] \in 1..Len(m) /\ f[j] + Len(d) - 1 <= Len(m)
    <3>1. \A j \in 1..n : f[j] \in 1..Len(m) /\ At(m, d, f[j])
      BY FoundProperties DEF NumberOf
    <3> HIDE DEF f, n
    <3> QED
      BY <3>1 DEF At
  <2>2. \A i, j \in 1..n : i < j => f[i] + Len(d) <= f[j]
    <3>1. /\ \A j \in 1..n : f[j] \in 1..Len(m) /\ At(m, d, f[j])
          /\ \A i, j \in 1..n : i < j => f[i] < f[j]
      BY FoundProperties DEF NumberOf
    <3> HIDE DEF f, n
    <3> QED
      BY <3>1 DEF Apart
  <2>3. /\ From(m, d, k) = IF k = 1 THEN 1 ELSE f[k - 1] + Len(d)
        /\ To(m, d, k) = IF k = n + 1 THEN Len(m) ELSE f[k] - 1
    BY DEF From, To
  <2> HIDE DEF f, n
  <2>4. k # 1 => k - 1 \in 1..n /\ k - 1 < k
    BY <1>0
  <2>5. k # n + 1 => k \in 1..n
    BY <1>0
  <2> DEFINE x == f[k - 1]
             y == f[k]
  <2>6. /\ k # 1 => x \in 1..Len(m) /\ x + Len(d) - 1 <= Len(m)
        /\ k # n + 1 => y \in 1..Len(m)
        /\ k # 1 /\ k # n + 1 => x + Len(d) <= y
    BY <2>1, <2>2, <2>4, <2>5
  <2>7. /\ From(m, d, k) = IF k = 1 THEN 1 ELSE x + Len(d)
        /\ To(m, d, k) = IF k = n + 1 THEN Len(m) ELSE y - 1
    BY <2>3
  <2> HIDE DEF x, y
  <2> QED
    BY <1>0, <2>6, <2>7
<1>3. \A k \in 1..n + 1 : SubSeq(m, From(m, d, k), To(m, d, k)) \in Texts
  BY <1>2, Stretch
<1> HIDE DEF p, n
<1>4. p \in Seq(Texts) /\ Len(p) = n + 1
  BY <1>0, <1>1, <1>3
<1>5. \A k \in 1..n + 1 : p[k] = SubSeq(m, From(m, d, k), To(m, d, k))
  BY <1>1
<1> QED
  BY <1>0, <1>2, <1>4, <1>5 DEF p, n

\* At the line ends.
LEMMA EndParts ==
  ASSUME NEW m \in Texts
  PROVE  LET p == Parts(m, CRLF)
             n == NumberOf(m, CRLF)
         IN /\ n \in Nat /\ p \in Seq(Texts) /\ Len(p) = n + 1
            /\ \A k \in 1..n + 1 : /\ From(m, CRLF, k) \in 1..Len(m) + 1
                                   /\ To(m, CRLF, k) \in From(m, CRLF, k) - 1..Len(m)
                                   /\ p[k] = SubSeq(m, From(m, CRLF, k), To(m, CRLF, k))
<1>1. CRLF \in Texts /\ CRLF # <<>> /\ Apart(m, CRLF)
  BY TextOfEnd, EndsApart
<1> QED
  BY <1>1, PartsProperties

\* Text of a stretch and of the next one.
LEMMA TextAdjacent ==
  ASSUME NEW m \in Texts, NEW a \in 1..Len(m) + 1,
         NEW b \in a - 1..Len(m), NEW c \in b..Len(m)
  PROVE  Text(SubSeq(m, a, c)) = Text(SubSeq(m, a, b)) \o Text(SubSeq(m, b + 1, c))
<1>0. Len(m) \in Nat
  BY LenProperties DEF Texts
<1>1. SubSeq(m, a, b) \in Texts /\ SubSeq(m, b + 1, c) \in Texts
  <2>1. b + 1 \in 1..Len(m) + 1 /\ c \in b + 1 - 1..Len(m)
    BY <1>0
  <2> QED
    BY <2>1, Stretch
<1>2. SubSeq(m, a, c) = SubSeq(m, a, b) \o SubSeq(m, b + 1, c)
  BY ConcatAdjacentSubSeq DEF Texts
<1> DEFINE x == SubSeq(m, a, b)
           y == SubSeq(m, b + 1, c)
<1>3. x \in Texts /\ y \in Texts
  BY <1>1
<1> HIDE DEF x, y
<1>4. Text(x \o y) = Text(x) \o Text(y)
  BY <1>3, TextConcat, Zenon
<1> QED
  BY <1>2, <1>4, Zenon DEF x, y

\* No text is lost at the line ends.
LEMMA TextOfParts ==
  ASSUME NEW m \in Texts
  PROVE  Text(FlattenSeq(Parts(m, CRLF))) = Text(m)
<1> DEFINE p == Parts(m, CRLF)
           n == NumberOf(m, CRLF)
<1>0. Len(m) \in Nat
  BY LenProperties DEF Texts
<1>1. /\ n \in Nat /\ p \in Seq(Texts) /\ Len(p) = n + 1
      /\ \A k \in 1..n + 1 : /\ From(m, CRLF, k) \in 1..Len(m) + 1
                             /\ To(m, CRLF, k) \in From(m, CRLF, k) - 1..Len(m)
                             /\ p[k] = SubSeq(m, From(m, CRLF, k), To(m, CRLF, k))
  BY EndParts
<1> HIDE DEF p
<1>2. PICK f : Joins(p, f) /\ f[n + 1] = FlattenSeq(p)
  BY <1>1, FlattenJoins DEF Texts
<1>3. \A k \in 0..n + 1 : f[k] \in Texts
  BY <1>1, <1>2, JoinsType DEF Texts
<1>4. ASSUME NEW k \in 0..n, Text(f[k]) = Text(SubSeq(m, 1, From(m, CRLF, k + 1) - 1))
      PROVE  Text(f[k + 1]) = Text(SubSeq(m, 1, To(m, CRLF, k + 1)))
  <2> DEFINE j == k + 1
             a == From(m, CRLF, j)
             b == To(m, CRLF, j)
  <2>1. j \in 1..Len(p) /\ j \in 1..n + 1 /\ j - 1 = k /\ k \in 0..n + 1
    BY <1>1
  <2>2. Text(f[k]) = Text(SubSeq(m, 1, a - 1))
    BY <1>4
  <2> HIDE DEF j
  <2>3. a \in 1..Len(m) + 1 /\ b \in a - 1..Len(m) /\ p[j] = SubSeq(m, a, b)
    BY <1>1, <2>1
  <2> HIDE DEF a, b
  <2>4. f[j] = f[k] \o p[j]
    BY <1>2, <2>1, JoinsStep, Zenon
  <2>5. SubSeq(m, a, b) \in Texts
    BY <2>3, Stretch
  <2>6. Text(f[j]) = Text(f[k]) \o Text(SubSeq(m, a, b))
    <3>1. f[k] \in Texts
      BY <1>3, <2>1
    <3>2. Text(f[k] \o SubSeq(m, a, b)) = Text(f[k]) \o Text(SubSeq(m, a, b))
      BY <2>5, <3>1, TextConcat, Zenon
    <3> QED
      BY <2>3, <2>4, <3>2, Zenon
  <2>7. Text(SubSeq(m, 1, b)) = Text(SubSeq(m, 1, a - 1)) \o Text(SubSeq(m, a, b))
    <3> DEFINE c == a - 1
    <3>1. 1 \in 1..Len(m) + 1 /\ c \in 1 - 1..Len(m) /\ b \in c..Len(m) /\ c + 1 = a
      BY <1>0, <2>3
    <3> HIDE DEF c
    <3>2. Text(SubSeq(m, 1, b)) = Text(SubSeq(m, 1, c)) \o Text(SubSeq(m, c + 1, b))
      BY <3>1, TextAdjacent
    <3> QED
      BY <3>1, <3>2 DEF c
  <2> QED
    BY <2>2, <2>6, <2>7 DEF j, b
<1>5. ASSUME NEW k \in 1..n
      PROVE  Text(SubSeq(m, 1, To(m, CRLF, k))) = Text(SubSeq(m, 1, From(m, CRLF, k + 1) - 1))
  <2> DEFINE e == Found(m, CRLF)[k]
             b == e - 1
             c == e + 1
  <2>1. e \in 1..Len(m) /\ At(m, CRLF, e)
    BY FoundProperties DEF NumberOf
  <2>2. To(m, CRLF, k) = b
    BY <1>1 DEF To
  <2>3. From(m, CRLF, k + 1) - 1 = c
    <3>1. k + 1 # 1 /\ k + 1 - 1 = k
      BY <1>1
    <3>2. From(m, CRLF, k + 1) = e + 2
      BY <3>1, TextOfEnd DEF From
    <3> HIDE DEF e
    <3> QED
      BY <1>0, <2>1, <3>2
  <2> HIDE DEF e
  <2>4. e + 1 <= Len(m)
    BY <2>1, AtMeans
  <2>5. SubSeq(m, e, c) = CRLF
    <3>1. e + Len(CRLF) - 1 = c
      BY <2>1, TextOfEnd
    <3> QED
      BY <2>1, <3>1, Zenon DEF At
  <2>6. 1 \in 1..Len(m) + 1 /\ b \in 1 - 1..Len(m) /\ c \in b..Len(m) /\ b + 1 = e
    BY <1>0, <2>1, <2>4
  <2> HIDE DEF b, c
  <2>7. Text(SubSeq(m, 1, c)) = Text(SubSeq(m, 1, b)) \o Text(SubSeq(m, b + 1, c))
    BY <2>6, TextAdjacent
  <2>8. Text(SubSeq(m, b + 1, c)) = <<>>
    BY <2>5, <2>6, TextOfEnd
  <2>9. Text(SubSeq(m, 1, b)) \in Texts
    BY <2>6, Stretch, TextConcat
  <2>10. Text(SubSeq(m, 1, b)) \o <<>> = Text(SubSeq(m, 1, b))
    BY <2>9, ConcatEmptySeq DEF Texts
  <2> QED
    BY <2>2, <2>3, <2>7, <2>8, <2>10
<1> DEFINE T == {k \in 0..n : Text(f[k]) = Text(SubSeq(m, 1, From(m, CRLF, k + 1) - 1))}
<1>6. 0 \in T
  <2>1. From(m, CRLF, 0 + 1) - 1 = 0
    BY DEF From
  <2>2. SubSeq(m, 1, 0) = <<>>
    BY SubSeqEmpty
  <2>3. f[0] = <<>>
    BY <1>2 DEF Joins
  <2>4. Text(f[0]) = Text(SubSeq(m, 1, From(m, CRLF, 0 + 1) - 1))
    BY <2>1, <2>2, <2>3, Zenon
  <2> QED
    BY <1>1, <2>4
<1>7. ASSUME NEW k \in 0..n, k # n, k \in T PROVE k + 1 \in T
  <2>1. k + 1 \in 1..n /\ k + 1 \in 0..n
    BY <1>1, <1>7
  <2>2. Text(f[k + 1]) = Text(SubSeq(m, 1, To(m, CRLF, k + 1)))
    BY <1>4, <1>7
  <2> QED
    BY <1>5, <2>1, <2>2
<1> HIDE DEF T
<1>8. \A k \in 0..n : k \in T
  BY <1>1, <1>6, <1>7, CountUp
<1>9. Text(f[n]) = Text(SubSeq(m, 1, From(m, CRLF, n + 1) - 1))
  BY <1>1, <1>8 DEF T
<1>10. Text(f[n + 1]) = Text(SubSeq(m, 1, To(m, CRLF, n + 1)))
  BY <1>1, <1>4, <1>9
<1>11. To(m, CRLF, n + 1) = Len(m)
  BY DEF To
<1>12. SubSeq(m, 1, Len(m)) = m
  BY SubSeqFull DEF Texts
<1> QED
  BY <1>2, <1>10, <1>11, <1>12 DEF p

-----------------------------------------------------------------------------
(* Pieces of a segment without an empty line *)

\* A segment that does not begin with a line end, and has no empty line in it.
Quiet(m) ==
  /\ m # <<>> /\ ~At(m, CRLF, 1)
  /\ \A j, k \in 1..Len(m) : At(m, CRLF, j) /\ At(m, CRLF, k) => k # j + 2

\* Its parts are not empty, but perhaps the last one.
LEMMA QuietParts ==
  ASSUME NEW m \in Texts, Quiet(m), NEW k \in 1..NumberOf(m, CRLF)
  PROVE  Parts(m, CRLF)[k] # <<>>
<1> DEFINE f == Found(m, CRLF)
           n == NumberOf(m, CRLF)
           a == From(m, CRLF, k)
           b == To(m, CRLF, k)
<1>0. Len(m) \in Nat /\ n \in Nat
  BY LenProperties, EndParts DEF Texts
<1>1. /\ \A i \in 1..n : f[i] \in 1..Len(m) /\ At(m, CRLF, f[i])
      /\ \A i, j \in 1..n : i < j => f[i] < f[j]
  BY FoundProperties DEF NumberOf
<1>2. /\ a \in 1..Len(m) + 1 /\ b \in a - 1..Len(m)
      /\ Parts(m, CRLF)[k] = SubSeq(m, a, b)
  <2>1. \A h \in 1..n + 1 : /\ From(m, CRLF, h) \in 1..Len(m) + 1
                            /\ To(m, CRLF, h) \in From(m, CRLF, h) - 1..Len(m)
                            /\ Parts(m, CRLF)[h] = SubSeq(m, From(m, CRLF, h), To(m, CRLF, h))
    BY EndParts
  <2>2. k \in 1..n + 1
    BY <1>0
  <2> QED
    BY <2>1, <2>2, Zenon
<1>3. a = (IF k = 1 THEN 1 ELSE f[k - 1] + 2) /\ b = f[k] - 1
  BY <1>0, TextOfEnd DEF From, To
<1>4. a <= b
  <2> HIDE DEF a, b, f
  <2>1. CASE k = 1
    <3>1. f[k] # 1
      BY <1>1 DEF Quiet
    <3> QED
      BY <1>0, <1>1, <1>3, <2>1, <3>1
  <2>2. CASE k # 1
    <3>1. k - 1 \in 1..n /\ k - 1 < k
      BY <1>0, <2>2
    <3>2. f[k - 1] + 2 <= f[k]
      BY <1>1, <3>1, EndsApart, TextOfEnd DEF Apart
    <3>3. f[k] # f[k - 1] + 2
      BY <1>1, <3>1 DEF Quiet
    <3> QED
      BY <1>0, <1>1, <1>3, <2>2, <3>1, <3>2, <3>3
  <2> QED
    BY <2>1, <2>2
<1>5. Len(SubSeq(m, a, b)) = b - a + 1
  BY <1>2, Stretch
<1> HIDE DEF a, b
<1>6. Len(SubSeq(m, a, b)) # 0
  BY <1>0, <1>2, <1>4, <1>5
<1>7. Len(<<>>) = 0
  OBVIOUS
<1> QED
  BY <1>2, <1>6, <1>7, Zenon

\* The loop that stops at an empty piece stops at the end if there is none.
LEMMA NoneEmpty ==
  ASSUME NEW w \in Seq(Texts), \A k \in 1..Len(w) : w[k] # <<>>
  PROVE  SubSeq(w, 1, Min({k \in 1..Len(w) : w[k] = <<>>} \cup {Len(w) + 1}) - 1) = w
<1>1. Len(w) \in Nat
  BY LenProperties
<1>2. {k \in 1..Len(w) : w[k] = <<>>} \cup {Len(w) + 1} = {Len(w) + 1, Len(w) + 1}
  OBVIOUS
<1>3. Min({Len(w) + 1, Len(w) + 1}) = Len(w) + 1
  BY <1>1, MinOfTwo
<1> DEFINE x == Min({k \in 1..Len(w) : w[k] = <<>>} \cup {Len(w) + 1})
<1>4. x = Len(w) + 1
  BY <1>2, <1>3, Zenon
<1> HIDE DEF x
<1>5. x - 1 = Len(w)
  BY <1>1, <1>4
<1>6. SubSeq(w, 1, Len(w)) = w
  BY SubSeqFull
<1> QED
  BY <1>5, <1>6, Zenon DEF x

\* What such a segment is cut into: its parts, without the last one if that is empty; but
\* if that leaves one piece, this is all of the segment.
LEMMA PiecesShape ==
  ASSUME NEW m \in Texts, Quiet(m)
  PROVE  LET p == Parts(m, CRLF)
             n == NumberOf(m, CRLF)
         IN \/ Pieces(m) = <<m>> /\ (n = 0 \/ (n = 1 /\ p[2] = <<>>))
            \/ Pieces(m) = SubSeq(p, 1, n) /\ p[n + 1] = <<>>
            \/ Pieces(m) = p
<1> DEFINE p == Parts(m, CRLF)
           n == NumberOf(m, CRLF)
           w == Split(m, CRLF)
<1>1. n \in Nat /\ p \in Seq(Texts) /\ Len(p) = n + 1
  BY EndParts
<1>2. \A k \in 1..n : p[k] # <<>>
  BY QuietParts
<1>3. w = IF p[n + 1] = <<>> THEN SubSeq(p, 1, n) ELSE p
  <2>1. w = IF p[Len(p)] = <<>> THEN SubSeq(p, 1, Len(p) - 1) ELSE p
    BY Zenon DEF Split, Last, Front
  <2>2. Len(p) - 1 = n
    BY <1>1
  <2> QED
    BY <1>1, <2>1, <2>2, Zenon
<1>4. Pieces(m) = IF Len(w) = 1 THEN <<m>>
                  ELSE SubSeq(w, 1, Min({k \in 1..Len(w) : w[k] = <<>>} \cup {Len(w) + 1}) - 1)
  BY Zenon DEF Pieces
<1>5. n = 0 => p[1] # <<>>
  <2> SUFFICES ASSUME n = 0 PROVE p[1] = m
    BY DEF Quiet
  <2>1. p[1] = SubSeq(m, From(m, CRLF, 1), To(m, CRLF, 1))
    <3>1. \A k \in 1..n + 1 : p[k] = SubSeq(m, From(m, CRLF, k), To(m, CRLF, k))
      BY EndParts
    <3>2. 1 \in 1..n + 1
      BY <1>1
    <3> QED
      BY <3>1, <3>2, Zenon
  <2>2. From(m, CRLF, 1) = 1 /\ To(m, CRLF, 1) = Len(m)
    BY DEF From, To
  <2>3. SubSeq(m, 1, Len(m)) = m
    BY SubSeqFull DEF Texts
  <2> QED
    BY <2>1, <2>2, <2>3
<1> HIDE DEF p, n, w
<1>6. CASE p[n + 1] = <<>>
  <2>1. /\ SubSeq(p, 1, n) \in Seq(Texts) /\ Len(SubSeq(p, 1, n)) = n
        /\ \A k \in 1..n : SubSeq(p, 1, n)[k] = p[k]
    <3>1. n \in 0..Len(p)
      BY <1>1
    <3> QED
      BY <1>1, <3>1, Cut
  <2>2. w \in Seq(Texts) /\ Len(w) = n /\ \A k \in 1..Len(w) : w[k] # <<>>
    BY <1>2, <1>3, <1>6, <2>1
  <2>3. CASE n = 1
    BY <1>4, <1>6, <2>2, <2>3 DEF p, n
  <2>4. CASE n # 1
    <3>1. Pieces(m) = w
      BY <1>4, <2>2, <2>4, NoneEmpty
    <3> QED
      BY <1>3, <1>6, <3>1 DEF p, n
  <2> QED
    BY <2>3, <2>4
<1>7. CASE p[n + 1] # <<>>
  <2>1. w = p
    BY <1>3, <1>7
  <2>2. CASE n = 0
    BY <1>1, <1>4, <2>1, <2>2 DEF p, n
  <2>3. CASE n # 0
    <3>1. \A k \in 1..Len(p) : p[k] # <<>>
      BY <1>1, <1>2, <1>7
    <3>2. Pieces(m) = p
      BY <1>1, <1>4, <2>1, <2>3, <3>1, NoneEmpty
    <3> QED
      BY <3>2 DEF p
  <2> QED
    BY <2>2, <2>3
<1> QED
  BY <1>6, <1>7

\* Nothing is lost when a segment is cut up.
LEMMA PiecesText ==
  ASSUME NEW m \in Texts, Quiet(m)
  PROVE  Pieces(m) \in Seq(Texts) /\ Text(FlattenSeq(Pieces(m))) = Text(m)
<1> DEFINE p == Parts(m, CRLF)
           n == NumberOf(m, CRLF)
           q == SubSeq(p, 1, n)
<1>1. n \in Nat /\ p \in Seq(Texts) /\ Len(p) = n + 1 /\ Text(FlattenSeq(p)) = Text(m)
  BY EndParts, TextOfParts
<1>2. <<m>> \in Seq(Texts) /\ FlattenSeq(<<m>>) = m
  BY FlattenTexts, Zenon
<1>3. /\ q \in Seq(Texts)
      /\ p[n + 1] = <<>> => FlattenSeq(q) = FlattenSeq(p)
  <2> HIDE DEF p, n
  <2>1. q \in Seq(Texts) /\ SubSeq(p, n + 1, Len(p)) \in Seq(Texts)
    <3>1. n \in 0..Len(p)
      BY <1>1
    <3> QED
      BY <1>1, <3>1, Cut
  <2> HIDE DEF q
  <2> SUFFICES ASSUME p[n + 1] = <<>> PROVE FlattenSeq(q) = FlattenSeq(p)
    BY <2>1
  <2>2. p = q \o << <<>> >>
    <3>1. n + 1 \in 1..Len(p) /\ 1 \in 1..Len(p) /\ n + 1 \in 1..Len(p) /\ n + 1 - 1 = n
      BY <1>1
    <3>2. SubSeq(p, 1, n + 1) = SubSeq(p, 1, n + 1 - 1) \o << p[n + 1] >>
      BY <1>1, <3>1, SubSeqRecursiveSecond
    <3>3. SubSeq(p, 1, n + 1) = p
      BY <1>1, SubSeqFull
    <3> QED
      BY <3>1, <3>2, <3>3 DEF q
  <2> DEFINE e == << <<>> >>
  <2>3. e \in Seq(Texts) /\ FlattenSeq(e) = <<>>
    BY FlattenTexts, TextOfEnd, Zenon
  <2> HIDE DEF e
  <2>4. FlattenSeq(q \o e) = FlattenSeq(q) \o FlattenSeq(e)
    BY <2>1, <2>3, FlattenTexts, Zenon
  <2>5. FlattenSeq(q) \in Texts
    BY <2>1, FlattenTexts, Zenon
  <2>6. FlattenSeq(q) \o <<>> = FlattenSeq(q)
    BY <2>5, ConcatEmptySeq DEF Texts
  <2> QED
    BY <2>2, <2>3, <2>4, <2>6, Zenon DEF e
<1>4. \/ Pieces(m) = <<m>>
      \/ Pieces(m) = q /\ p[n + 1] = <<>>
      \/ Pieces(m) = p
  BY PiecesShape
<1> HIDE DEF p, n, q
<1> QED
  BY <1>1, <1>2, <1>3, <1>4, Zenon

\* A line of the segment is one of the pieces, or all of the segment.
LEMMA PiecesLine ==
  ASSUME NEW m \in Texts, Quiet(m), NEW i \in 1..Len(m), NEW j \in i..Len(m) - 2,
         At(m, CRLF, j + 1),
         i = 1 \/ (i > 2 /\ At(m, CRLF, i - 2)),
         \A k \in 1..Len(m) : At(m, CRLF, k) => k < i - 1 \/ k > j
  PROVE  \E k \in 1..Len(Pieces(m)) : Pieces(m)[k] \in {SubSeq(m, i, j), SubSeq(m, i, j + 2)}
<1> DEFINE p == Parts(m, CRLF)
           n == NumberOf(m, CRLF)
           f == Found(m, CRLF)
<1>0. Len(m) \in Nat
  BY LenProperties DEF Texts
<1>1. /\ n \in Nat /\ p \in Seq(Texts) /\ Len(p) = n + 1
      /\ \A k \in 1..n + 1 : p[k] = SubSeq(m, From(m, CRLF, k), To(m, CRLF, k))
  BY EndParts
<1>2. /\ \A k \in 1..n : f[k] \in 1..Len(m) /\ At(m, CRLF, f[k])
      /\ \A h, k \in 1..n : h < k => f[h] < f[k]
      /\ \A k \in 1..Len(m) : At(m, CRLF, k) => \E h \in 1..n : f[h] = k
  BY FoundProperties DEF NumberOf
<1>3. \A k \in 1..n + 1 : /\ From(m, CRLF, k) = IF k = 1 THEN 1 ELSE f[k - 1] + 2
                          /\ To(m, CRLF, k) = IF k = n + 1 THEN Len(m) ELSE f[k] - 1
  BY TextOfEnd DEF From, To
<1>4. \/ Pieces(m) = <<m>> /\ (n = 0 \/ (n = 1 /\ p[2] = <<>>))
      \/ Pieces(m) = SubSeq(p, 1, n)
      \/ Pieces(m) = p
  BY PiecesShape
<1> HIDE DEF p, n, f
<1>5. PICK q \in 1..n : f[q] = j + 1
  <2>1. j + 1 \in 1..Len(m)
    BY <1>0
  <2> QED
    BY <1>2, <2>1
<1>6. q = 1 <=> i = 1
  <2>1. CASE i = 1
    <3>1. 1 \in 1..n /\ (q = 1 \/ 1 < q)
      BY <1>1, <1>5
    <3>2. f[1] \in 1..Len(m) /\ (f[1] < i - 1 \/ f[1] > j)
      BY <1>2, <3>1
    <3>3. ~(1 < q)
      <4> SUFFICES ASSUME 1 < q PROVE FALSE
        OBVIOUS
      <4>1. f[1] < f[q]
        BY <1>2, <3>1
      <4> QED
        BY <1>0, <1>5, <2>1, <3>2, <4>1
    <3> QED
      BY <2>1, <3>1, <3>3
  <2>2. CASE i # 1
    <3>1. i - 2 \in 1..Len(m) /\ At(m, CRLF, i - 2)
      BY <1>0, <2>2
    <3>2. PICK h \in 1..n : f[h] = i - 2
      BY <1>2, <3>1
    <3>3. q # 1
      <4> SUFFICES ASSUME q = 1 PROVE FALSE
        OBVIOUS
      <4>1. h = q \/ q < h
        BY <1>1
      <4>2. f[h] = f[q] \/ f[q] < f[h]
        BY <1>2, <4>1
      <4> QED
        BY <1>0, <1>5, <3>2, <4>2
    <3> QED
      BY <2>2, <3>3
  <2> QED
    BY <2>1, <2>2
<1>7. q # 1 => f[q - 1] = i - 2
  <2> SUFFICES ASSUME q # 1 PROVE f[q - 1] = i - 2
    OBVIOUS
  <2>1. i - 2 \in 1..Len(m) /\ At(m, CRLF, i - 2)
    BY <1>0, <1>6
  <2>2. PICK h \in 1..n : f[h] = i - 2
    BY <1>2, <2>1
  <2>3. q - 1 \in 1..n /\ q - 1 < q
    BY <1>1
  <2>4. /\ f[q - 1] \in 1..Len(m) /\ f[q - 1] < f[q]
        /\ f[q - 1] < i - 1 \/ f[q - 1] > j
    BY <1>2, <2>3
  <2>5. f[q - 1] <= i - 2
    BY <1>0, <1>5, <2>4
  <2>6. h < q
    <3>1. h < q \/ h = q \/ q < h
      BY <1>1
    <3>2. h < q \/ f[h] = f[q] \/ f[q] < f[h]
      BY <1>2, <3>1
    <3> QED
      BY <1>0, <1>5, <2>2, <3>2
  <2>7. h = q - 1 \/ h < q - 1
    BY <1>1, <2>6
  <2>8. h = q - 1 \/ f[h] < f[q - 1]
    BY <1>2, <2>3, <2>7
  <2> QED
    BY <1>0, <2>2, <2>4, <2>5, <2>8
<1>8. p[q] = SubSeq(m, i, j)
  <2>1. From(m, CRLF, q) = (IF q = 1 THEN 1 ELSE f[q - 1] + 2) /\ To(m, CRLF, q) = f[q] - 1
    BY <1>1, <1>3
  <2>2. From(m, CRLF, q) = i /\ To(m, CRLF, q) = j
    BY <1>0, <1>5, <1>6, <1>7, <2>1
  <2>3. q \in 1..n + 1
    BY <1>1
  <2>4. p[q] = SubSeq(m, From(m, CRLF, q), To(m, CRLF, q))
    BY <1>1, <2>3, Zenon
  <2> QED
    BY <2>2, <2>4, Zenon
<1>9. CASE Pieces(m) = p
  <2>1. q \in 1..Len(p)
    BY <1>1
  <2> QED
    BY <1>8, <1>9, <2>1
<1>10. CASE Pieces(m) = SubSeq(p, 1, n)
  <2>1. Len(SubSeq(p, 1, n)) = n /\ SubSeq(p, 1, n)[q] = p[q]
    <3>1. n \in 0..Len(p)
      BY <1>1
    <3> QED
      BY <1>1, <3>1, Cut
  <2> QED
    BY <1>8, <1>10, <2>1
<1>11. CASE Pieces(m) = <<m>> /\ (n = 0 \/ (n = 1 /\ p[2] = <<>>))
  <2>1. n = 1 /\ q = 1 /\ i = 1 /\ p[2] = <<>>
    BY <1>1, <1>6, <1>11
  <2>2. j + 2 = Len(m)
    <3>1. p[2] = SubSeq(m, j + 3, Len(m))
      <4>1. 2 \in 1..n + 1 /\ 2 # 1 /\ 2 - 1 = 1 /\ 2 = n + 1
        BY <2>1
      <4>2. From(m, CRLF, 2) = f[1] + 2 /\ To(m, CRLF, 2) = Len(m)
        BY <1>3, <4>1
      <4>3. f[1] + 2 = j + 3
        BY <1>0, <1>5, <2>1
      <4> QED
        BY <1>1, <4>1, <4>2, <4>3
    <3>2. j + 3 \in 1..Len(m) + 1 /\ Len(m) \in j + 3 - 1..Len(m)
      BY <1>0
    <3>3. Len(SubSeq(m, j + 3, Len(m))) = Len(m) - (j + 3) + 1
      BY <3>2, Stretch
    <3>4. Len(SubSeq(m, j + 3, Len(m))) = 0
      BY <2>1, <3>1
    <3> QED
      BY <1>0, <3>3, <3>4
  <2>3. SubSeq(m, 1, Len(m)) = m
    BY SubSeqFull DEF Texts
  <2>4. Len(<<m>>) = 1 /\ <<m>>[1] = m
    OBVIOUS
  <2> QED
    BY <1>11, <2>1, <2>2, <2>3, <2>4
<1> QED
  BY <1>4, <1>9, <1>10, <1>11

-----------------------------------------------------------------------------
(* LinesKept *)

\* The parts of LinesKept.
Blank == 1 \in Ends \/ \E k \in Ends : k + 2 \in Ends \/ k - 1 \in cuts
All == log \o lines
IsLine(i, j) == /\ i = 1 \/ i - 2 \in Ends
                /\ j + 1 \in Ends
                /\ \A k \in Ends : k < i - 1 \/ k > j
Uncut(i, j) == \A k \in cuts : k < i - 2 \/ k = i - 1 \/ k > j + 1
Executed(i, j) == \E k \in 1..Len(All) : All[k] \in {SubSeq(input, i, j), SubSeq(input, i, j + 2)}
AllText == Text(FlattenSeq(All)) = Text(SubSeq(input, 1, read))
AllLines == \A i \in 1..read : \A j \in i..read - 2 : IsLine(i, j) /\ Uncut(i, j) => Executed(i, j)

\* These parts are all of it.
LEMMA LinesKeptIs == LinesKept <=> Blank \/ (AllText /\ AllLines)
BY Zenon DEF LinesKept, Blank, All, IsLine, Uncut, Executed, AllText, AllLines

\* What is kept from reading to reading: LinesKept, and that cuts holds the end of the last read.
TInv ==
  /\ input \in Texts /\ read \in 0..Len(input)
  /\ cuts \in SUBSET Nat /\ (read = 0 \/ read \in cuts)
  /\ Blank \/ (lines \in Seq(Texts) /\ log \in Seq(Texts) /\ AllText /\ AllLines)

\* Where a line end is in a segment, there is one in the input.
LEMMA SegmentAt ==
  ASSUME NEW s \in Texts, NEW r \in 0..Len(s), NEW e \in r..Len(s),
         NEW k \in 1..e - r
  PROVE  At(SubSeq(s, r + 1, e), CRLF, k) <=> k + 1 <= e - r /\ At(s, CRLF, r + k)
<1> DEFINE m == SubSeq(s, r + 1, e)
<1>0. Len(s) \in Nat
  BY LenProperties DEF Texts
<1>1. m \in Texts /\ Len(m) = e - r /\ \A i \in 1..e - r : m[i] = s[r + i]
  <2> DEFINE a == r + 1
  <2>1. a \in 1..Len(s) + 1 /\ e \in a - 1..Len(s) /\ e - a + 1 = e - r
    BY <1>0
  <2>2. \A i \in 1..e - r : a + i - 1 = r + i
    BY <1>0
  <2> HIDE DEF a
  <2>3. /\ SubSeq(s, a, e) \in Texts /\ Len(SubSeq(s, a, e)) = e - a + 1
        /\ \A i \in 1..e - a + 1 : SubSeq(s, a, e)[i] = s[a + i - 1]
    BY <2>1, Stretch
  <2> DEFINE q == SubSeq(s, a, e)
  <2>4. m = q
    BY DEF a
  <2> HIDE DEF m, q
  <2>5. q \in Texts /\ Len(q) = e - r /\ \A i \in 1..e - r : q[i] = s[a + i - 1]
    BY <2>1, <2>3 DEF q
  <2> QED
    BY <2>2, <2>4, <2>5
<1> HIDE DEF m
<1>2. At(m, CRLF, k) <=> k + 1 <= e - r /\ m[k] = "\r" /\ m[k + 1] = "\n"
  <2>1. k \in 1..Len(m)
    BY <1>1
  <2>2. At(m, CRLF, k) <=> k + 1 <= Len(m) /\ m[k] = "\r" /\ m[k + 1] = "\n"
    BY <1>1, <2>1, AtMeans
  <2> QED
    BY <1>1, <2>2, Zenon
<1>3. At(s, CRLF, r + k) <=> r + k + 1 <= Len(s) /\ s[r + k] = "\r" /\ s[r + k + 1] = "\n"
  <2>1. r + k \in 1..Len(s)
    BY <1>0
  <2> QED
    BY <2>1, AtMeans
<1>4. m[k] = s[r + k] /\ (k + 1 <= e - r => m[k + 1] = s[r + k + 1] /\ r + k + 1 <= Len(s))
  <2>1. k + 1 <= e - r => k + 1 \in 1..e - r /\ r + (k + 1) = r + k + 1
    BY <1>0
  <2>2. k + 1 <= e - r => m[k + 1] = s[r + (k + 1)]
    BY <1>1, <2>1
  <2>3. k + 1 <= e - r => r + k + 1 <= Len(s)
    BY <1>0
  <2> QED
    BY <1>1, <2>1, <2>2, <2>3
<1>5. At(m, CRLF, k) <=> k + 1 <= e - r /\ At(s, CRLF, r + k)
  BY <1>2, <1>3, <1>4
<1> QED
  BY <1>5 DEF m

\* Ends is where a line end stands.
LEMMA EndsAre ==
  ASSUME input \in Texts
  PROVE  \A k : k \in Ends <=> k \in 1..Len(input) /\ At(input, CRLF, k)
<1>1. Len(input) \in Nat
  BY LenProperties DEF Texts
<1>2. ASSUME NEW k \in 1..Len(input), At(input, CRLF, k) PROVE k \in 1..Len(input) - 1
  BY <1>1, <1>2, AtMeans
<1> QED
  BY <1>1, <1>2 DEF Ends

\* If there is no blank line, and no read ended before a line end, segments are quiet.
LEMMA SegmentQuiet ==
  ASSUME input \in Texts, NEW r \in 0..Len(input), NEW e \in r + 1..Len(input),
         r = 0 \/ r \in cuts, ~Blank
  PROVE  Quiet(SubSeq(input, r + 1, e))
<1> DEFINE m == SubSeq(input, r + 1, e)
<1>0. Len(input) \in Nat /\ e \in r..Len(input)
  BY LenProperties DEF Texts
<1>1. m \in Texts /\ Len(m) = e - r
  <2>1. r + 1 \in 1..Len(input) + 1 /\ e \in r + 1 - 1..Len(input) /\ e - (r + 1) + 1 = e - r
    BY <1>0
  <2> QED
    BY <2>1, Stretch
<1>2. \A k \in 1..e - r : At(m, CRLF, k) => r + k \in Ends
  <2> SUFFICES ASSUME NEW k \in 1..e - r, At(m, CRLF, k) PROVE r + k \in Ends
    OBVIOUS
  <2>1. At(input, CRLF, r + k)
    BY <1>0, SegmentAt
  <2>2. r + k \in 1..Len(input)
    BY <1>0
  <2> QED
    BY <2>1, <2>2, EndsAre
<1> HIDE DEF m
<1>3. m # <<>>
  <2>1. Len(m) # 0
    BY <1>0, <1>1
  <2>2. Len(<<>>) = 0
    OBVIOUS
  <2> QED
    BY <2>1, <2>2, Zenon
<1>4. ~At(m, CRLF, 1)
  <2> SUFFICES ASSUME At(m, CRLF, 1) PROVE FALSE
    OBVIOUS
  <2>1. r + 1 \in Ends /\ r + 1 - 1 = r
    BY <1>0, <1>2
  <2>2. r = 0 => 1 \in Ends
    BY <2>1
  <2>3. r \in cuts => \E k \in Ends : k - 1 \in cuts
    BY <2>1
  <2> QED
    BY <2>2, <2>3 DEF Blank
<1>5. ASSUME NEW j \in 1..Len(m), NEW k \in 1..Len(m), At(m, CRLF, j), At(m, CRLF, k)
      PROVE  k # j + 2
  <2> SUFFICES ASSUME k = j + 2 PROVE FALSE
    OBVIOUS
  <2>1. r + j \in Ends /\ r + k \in Ends
    BY <1>1, <1>2, <1>5
  <2>2. r + k = r + j + 2
    BY <1>0, <1>1
  <2> QED
    BY <2>1, <2>2 DEF Blank
<1>6. Quiet(m)
  BY <1>3, <1>4, <1>5 DEF Quiet
<1> QED
  BY <1>6 DEF m

\* A line all of which was read before the last read, and one of the last read.
LEMMA TextReadKeeps == ASSUME TInv, Read PROVE TInv'
<1>0. Len(input) \in Nat
  BY LenProperties DEF TInv, Texts
<1>1. PICK n \in 1..Min({BufferSize, Len(input) - read}) :
        /\ lines' = Pieces(SubSeq(input, read + 1, read + n))
        /\ read' = read + n
        /\ cuts' = cuts \cup {read + n}
  BY DEF Read
<1>2. n \in Nat \ {0} /\ read + n \in read + 1..Len(input)
  BY <1>0, MinOfTwo, TextConstants DEF TInv
<1>3. input' = input /\ log' = log /\ lines = <<>>
  BY DEF Read
<1>4. Ends' = Ends
  BY <1>3 DEF Ends
<1>5. /\ input' \in Texts /\ read' \in 0..Len(input') /\ cuts' \in SUBSET Nat /\ read' \in cuts'
      /\ cuts \subseteq cuts'
  BY <1>0, <1>1, <1>2, <1>3 DEF TInv
<1> SUFFICES ASSUME ~Blank'
             PROVE  lines' \in Seq(Texts) /\ log' \in Seq(Texts) /\ AllText' /\ AllLines'
  BY <1>5 DEF TInv
<1>6. ~Blank
  BY <1>4, <1>5 DEF Blank
<1>7. log \in Seq(Texts) /\ AllText /\ AllLines
  BY <1>6 DEF TInv
<1> DEFINE m == SubSeq(input, read + 1, read + n)
           P == Pieces(m)
<1>8. m \in Texts /\ Len(m) = n /\ Quiet(m)
  <2>2. Quiet(m)
    BY <1>2, <1>6, SegmentQuiet DEF TInv
  <2>3. input \in Texts /\ read \in Nat
    BY <1>0 DEF TInv
  <2> DEFINE a == read + 1
             b == read + n
  <2> HIDE DEF m, P
  <2>4. a \in 1..Len(input) + 1 /\ b \in a - 1..Len(input) /\ b - a + 1 = n
    BY <1>0, <1>2, <2>3
  <2>5. Quiet(SubSeq(input, a, b))
    BY <2>2, Zenon DEF m
  <2> HIDE DEF a, b
  <2>6. SubSeq(input, a, b) \in Texts /\ Len(SubSeq(input, a, b)) = n
    BY <2>3, <2>4, Stretch
  <2> QED
    BY <2>5, <2>6, Zenon DEF m, a, b
<1>9. P \in Seq(Texts) /\ Text(FlattenSeq(P)) = Text(m)
  BY <1>8, PiecesText
<1>10. All = log /\ All' = log \o P
  BY <1>1, <1>3, <1>7, ConcatEmptySeq DEF All
<1>11. AllText'
  <2>1. Text(FlattenSeq(log)) = Text(SubSeq(input, 1, read))
    BY <1>7, <1>10 DEF AllText
  <2>2. FlattenSeq(log) \in Texts /\ FlattenSeq(P) \in Texts
    BY <1>7, <1>9, FlattenTexts, Zenon
  <2>3. FlattenSeq(log \o P) = FlattenSeq(log) \o FlattenSeq(P)
    BY <1>7, <1>9, FlattenTexts, Zenon
  <2>4. Text(FlattenSeq(log \o P)) = Text(SubSeq(input, 1, read)) \o Text(m)
    BY <1>9, <2>1, <2>2, <2>3, TextConcat, Zenon
  <2>5. Text(SubSeq(input, 1, read + n)) = Text(SubSeq(input, 1, read)) \o Text(m)
    <3>1. 1 \in 1..Len(input) + 1 /\ read \in 1 - 1..Len(input) /\ read + n \in read..Len(input)
      BY <1>0, <1>2 DEF TInv
    <3> QED
      BY <3>1, TextAdjacent DEF TInv
  <2> QED
    BY <1>1, <1>3, <1>10, <2>4, <2>5 DEF AllText
<1>12. /\ Len(log) \in Nat /\ Len(P) \in Nat /\ Len(All') = Len(log) + Len(P)
       /\ \A k \in 1..Len(log) : All'[k] = log[k]
       /\ \A k \in 1..Len(P) : All'[Len(log) + k] = P[k]
  <2> HIDE DEF P
  <2>1. Len(log) \in Nat /\ Len(P) \in Nat
    BY <1>7, <1>9, LenProperties
  <2>2. /\ Len(log \o P) = Len(log) + Len(P)
        /\ \A k \in 1..Len(log) + Len(P) :
             (log \o P)[k] = IF k <= Len(log) THEN log[k] ELSE P[k - Len(log)]
    BY <1>7, <1>9, ConcatProperties
  <2>3. \A k \in 1..Len(log) : k \in 1..Len(log) + Len(P) /\ k <= Len(log)
    BY <2>1
  <2>4. \A k \in 1..Len(P) : /\ Len(log) + k \in 1..Len(log) + Len(P) /\ ~(Len(log) + k <= Len(log))
                             /\ Len(log) + k - Len(log) = k
    BY <2>1
  <2> QED
    BY <1>10, <2>1, <2>2, <2>3, <2>4
<1> HIDE DEF m, P
<1>13. ASSUME NEW i \in 1..read', NEW j \in i..read' - 2, IsLine(i, j)', Uncut(i, j)'
       PROVE  Executed(i, j)'
  <2>0. i \in Nat \ {0} /\ j \in Nat /\ i <= j /\ j + 2 <= read + n /\ read \in Nat
    BY <1>0, <1>1, <1>2, <1>13 DEF TInv
  <2>1. /\ i = 1 \/ i - 2 \in Ends
        /\ j + 1 \in Ends
        /\ \A k \in Ends : k < i - 1 \/ k > j
    BY <1>4, <1>13 DEF IsLine
  <2>2. \A k \in cuts : k < i - 2 \/ k = i - 1 \/ k > j + 1
    BY <1>5, <1>13 DEF Uncut
  <2>3. CASE j <= read - 2
    <3>1. i \in 1..read /\ j \in i..read - 2
      BY <2>0, <2>3
    <3>2. IsLine(i, j) /\ Uncut(i, j)
      BY <2>1, <2>2 DEF IsLine, Uncut
    <3>3. Executed(i, j)
      BY <1>7, <3>1, <3>2 DEF AllLines
    <3>4. PICK k \in 1..Len(log) : log[k] \in {SubSeq(input, i, j), SubSeq(input, i, j + 2)}
      BY <1>10, <3>3 DEF Executed
    <3>5. k \in 1..Len(All')
      BY <1>12
    <3> QED
      BY <1>3, <1>12, <3>4, <3>5 DEF Executed
  <2>4. CASE ~(j <= read - 2)
    <3> DEFINE a == i - read
               b == j - read
    <3>1. read = 0 \/ read < i - 2 \/ read = i - 1
      BY <2>0, <2>2, <2>4 DEF TInv
    <3>2. /\ a \in 1..Len(m) /\ b \in a..Len(m) - 2
          /\ read + a = i /\ read + b = j /\ read + (b + 1) = j + 1 /\ read + (a - 2) = i - 2
          /\ b + 1 \in 1..n /\ b + 1 + 1 <= n
      BY <1>2, <1>8, <2>0, <3>1
    <3>3. \A k \in 1..n : At(m, CRLF, k) <=> k + 1 <= n /\ At(input, CRLF, read + k)
      <4>1. read \in 0..Len(input) /\ read + n \in read..Len(input) /\ read + n - read = n
        BY <1>0, <1>2 DEF TInv
      <4> QED
        BY <4>1, SegmentAt DEF TInv, m
    <3>4. \A k \in Ends : k \in 1..Len(input) /\ At(input, CRLF, k)
      BY EndsAre DEF TInv
    <3>5. At(m, CRLF, b + 1)
      BY <2>1, <3>2, <3>3, <3>4
    <3>6. a = 1 \/ (a > 2 /\ At(m, CRLF, a - 2))
      <4> SUFFICES ASSUME a # 1 PROVE a > 2 /\ At(m, CRLF, a - 2)
        OBVIOUS
      <4>1. i # 1
        BY <2>0, <3>2
      <4>2. i - 2 \in Ends /\ i - 2 \in 1..Len(input) /\ At(input, CRLF, i - 2)
        BY <2>1, <3>4, <4>1
      <4>3. a > 2
        BY <2>0, <3>1, <4>2
      <4>4. a - 2 \in 1..n /\ a - 2 + 1 <= n
        BY <1>2, <1>8, <2>0, <3>2, <4>3
      <4> QED
        BY <3>2, <3>3, <4>2, <4>3, <4>4
    <3>7. ASSUME NEW k \in 1..Len(m), At(m, CRLF, k) PROVE k < a - 1 \/ k > b
      <4>1. At(input, CRLF, read + k) /\ read + k \in 1..Len(input)
        BY <1>0, <1>2, <1>8, <2>0, <3>3, <3>7
      <4>2. read + k \in Ends
        BY <4>1, EndsAre DEF TInv
      <4>3. read + k < i - 1 \/ read + k > j
        BY <2>1, <4>2
      <4> QED
        BY <1>8, <2>0, <4>3
    <3>8. PICK k \in 1..Len(P) : P[k] \in {SubSeq(m, a, b), SubSeq(m, a, b + 2)}
      <4> HIDE DEF a, b
      <4> QED
        BY <1>8, <3>2, <3>5, <3>6, <3>7, PiecesLine DEF P
    <3>9. SubSeq(m, a, b) = SubSeq(input, i, j) /\ SubSeq(m, a, b + 2) = SubSeq(input, i, j + 2)
      <4> DEFINE x == read + 1
                 y == read + n
      <4>1. /\ x \in 1..Len(input) /\ y \in 1..Len(input)
            /\ a \in 1..y - x + 1 /\ b \in 1..y - x + 1 /\ b + 2 \in 1..y - x + 1
            /\ x + a - 1 = i /\ x + b - 1 = j /\ x + (b + 2) - 1 = j + 2
        BY <1>0, <1>2, <1>8, <2>0, <3>2
      <4>2. m = SubSeq(input, x, y) /\ input \in Seq(Chars)
        BY DEF m, TInv, Texts
      <4> HIDE DEF a, b, x, y
      <4>3. \A u, v \in 1..y - x + 1 :
              SubSeq(SubSeq(input, x, y), u, v) = SubSeq(input, x + u - 1, x + v - 1)
        BY <4>1, <4>2, SubSeqOfSubSeq
      <4> QED
        BY <4>1, <4>2, <4>3
    <3>10. Len(log) + k \in 1..Len(All')
      BY <1>12
    <3>11. All'[Len(log) + k] \in {SubSeq(input, i, j), SubSeq(input, i, j + 2)}
      BY <1>12, <3>8, <3>9, Zenon
    <3> QED
      BY <1>3, <3>10, <3>11 DEF Executed
  <2> QED
    BY <2>3, <2>4
<1>14. AllLines'
  BY <1>13 DEF AllLines
<1> QED
  BY <1>1, <1>3, <1>7, <1>9, <1>11, <1>14 DEF m, P

\* No line is lost when nothing is read and nothing leaves the lists.
LEMMA LinesStay ==
  ASSUME input' = input, read' = read, cuts' = cuts, All' = All
  PROVE  AllLines' <=> AllLines
<1>1. Ends' = Ends
  BY DEF Ends
<1>2. ASSUME NEW i, NEW j PROVE IsLine(i, j)' <=> IsLine(i, j)
  BY <1>1, Zenon DEF IsLine
<1>3. ASSUME NEW i, NEW j PROVE Uncut(i, j)' <=> Uncut(i, j)
  BY Zenon DEF Uncut
<1>4. ASSUME NEW i, NEW j PROVE Executed(i, j)' <=> Executed(i, j)
  BY Zenon DEF Executed
<1> QED
  BY <1>2, <1>3, <1>4, Zenon DEF AllLines

\* A piece that is executed, or refused, stays where it is in the order.
LEMMA TextStepKeeps == ASSUME TInv, Refused \/ Execute PROVE TInv'
<1>1. /\ log' = Append(log, Head(lines)) /\ lines' = Tail(lines) /\ lines # <<>>
      /\ input' = input /\ read' = read /\ cuts' = cuts
  BY DEF Refused, Execute
<1>2. Blank' <=> Blank
  BY <1>1 DEF Blank, Ends
<1> SUFFICES ASSUME ~Blank
             PROVE  lines' \in Seq(Texts) /\ log' \in Seq(Texts) /\ AllText' /\ AllLines'
  BY <1>1, <1>2 DEF TInv
<1>3. lines \in Seq(Texts) /\ log \in Seq(Texts) /\ AllText /\ AllLines
  BY DEF TInv
<1>4. lines' \in Seq(Texts) /\ log' \in Seq(Texts) /\ All' = All
  BY <1>1, <1>3, MoveHead DEF All
<1>5. AllText'
  BY <1>1, <1>3, <1>4 DEF AllText
<1>6. AllLines'
  BY <1>1, <1>3, <1>4, LinesStay, Zenon
<1> QED
  BY <1>4, <1>5, <1>6, Zenon

\* A step of nobody.
LEMMA TextStutters == ASSUME TInv, UNCHANGED textVars PROVE TInv'
<1>1. /\ input' = input /\ read' = read /\ cuts' = cuts
      /\ lines' = lines /\ log' = log
  BY DEF textVars
<1>2. All' = All /\ (Blank' <=> Blank)
  BY <1>1 DEF All, Blank, Ends
<1>3. AllText' <=> AllText
  BY <1>1, <1>2, Zenon DEF AllText
<1>4. AllLines' <=> AllLines
  BY <1>1, <1>2, LinesStay, Zenon
<1>5. /\ input \in Texts /\ read \in 0..Len(input)
      /\ cuts \in SUBSET Nat /\ (read = 0 \/ read \in cuts)
      /\ Blank \/ (lines \in Seq(Texts) /\ log \in Seq(Texts) /\ AllText /\ AllLines)
  BY Zenon DEF TInv
<1> QED
  BY <1>1, <1>2, <1>3, <1>4, <1>5, Zenon DEF TInv

\* Nothing was read, nothing is lost.
LEMMA TextStarts == TextInit => TInv
<1> SUFFICES ASSUME TextInit PROVE TInv
  OBVIOUS
<1>1. PICK s \in Inputs : input = s[1]
  BY DEF TextInit
<1>2. input \in Seq(STRING)
  BY <1>1, TextConstants
<1>3. input \in Texts /\ Len(input) \in Nat
  BY <1>2, SeqMonotonic, LenProperties DEF Texts, Chars
<1>4. read = 0 /\ cuts = {} /\ lines = <<>> /\ log = <<>>
  BY DEF TextInit
<1>5. AllText
  <2>1. All = <<>>
    BY <1>4 DEF All
  <2>2. SubSeq(input, 1, read) = <<>>
    BY <1>4, SubSeqEmpty
  <2> QED
    BY <2>1, <2>2, FlattenTexts, Zenon DEF AllText
<1>6. AllLines
  BY <1>4 DEF AllLines
<1>7. lines \in Seq(Texts) /\ log \in Seq(Texts)
  BY <1>4
<1> QED
  BY <1>3, <1>4, <1>5, <1>6, <1>7 DEF TInv

\* LinesKept.
THEOREM NothingIsLost == TextSpec => []LinesKept
<1>1. TInv /\ [TextNext]_textVars => TInv'
  BY TextReadKeeps, TextStepKeeps, TextStutters DEF TextNext
<1>2. TInv => LinesKept
  BY LinesKeptIs DEF TInv
<1> QED
  BY <1>1, <1>2, TextStarts, PTL DEF TextSpec

-----------------------------------------------------------------------------
(* Words *)

\* t stands where Found says.
LEMMA FoundOne ==
  ASSUME NEW m \in Texts, NEW t \in Chars
  PROVE  LET f == Found(m, <<t>>)
             n == NumberOf(m, <<t>>)
         IN /\ n \in Nat
            /\ \A j \in 1..n : f[j] \in 1..Len(m) /\ m[f[j]] = t
            /\ \A j, k \in 1..n : j < k => f[j] < f[k]
            /\ \A k \in 1..Len(m) : m[k] = t => \E j \in 1..n : f[j] = k
<1> DEFINE d == <<t>>
           f == Found(m, d)
           n == NumberOf(m, d)
<1>2. \A k \in 1..Len(m) : At(m, d, k) <=> m[k] = t
  BY AtOne
<1> HIDE DEF d
<1>1. /\ n \in Nat
      /\ \A j \in 1..n : f[j] \in 1..Len(m) /\ At(m, d, f[j])
      /\ \A j, k \in 1..n : j < k => f[j] < f[k]
      /\ \A k \in 1..Len(m) : At(m, d, k) => \E j \in 1..n : f[j] = k
  BY FoundProperties DEF NumberOf
<1> HIDE DEF f, n
<1>3. \A j \in 1..n : f[j] \in 1..Len(m) /\ m[f[j]] = t
  BY <1>1, <1>2
<1>4. \A k \in 1..Len(m) : m[k] = t => \E j \in 1..n : f[j] = k
  BY <1>1, <1>2
<1> QED
  BY <1>1, <1>3, <1>4 DEF d, f, n

\* Count counts that.
LEMMA CountIs ==
  ASSUME NEW m \in Texts, NEW t \in Chars
  PROVE  Count(m, t) = NumberOf(m, <<t>>)
<1> DEFINE f == Found(m, <<t>>)
           n == NumberOf(m, <<t>>)
           S == {k \in 1..Len(m) : m[k] = t}
           g == [j \in 1..n |-> f[j]]
<1>1. /\ n \in Nat
      /\ \A j \in 1..n : f[j] \in 1..Len(m) /\ m[f[j]] = t
      /\ \A j, k \in 1..n : j < k => f[j] < f[k]
      /\ \A k \in 1..Len(m) : m[k] = t => \E j \in 1..n : f[j] = k
  BY FoundOne
<1> HIDE DEF f, n
<1>2. g \in Bijection(1..n, S)
  <2>1. g \in [1..n -> S]
    BY <1>1
  <2>2. \A j, k \in 1..n : g[j] = g[k] => j = k
    <3> SUFFICES ASSUME NEW j \in 1..n, NEW k \in 1..n, f[j] = f[k] PROVE j = k
      OBVIOUS
    <3>1. f[j] \in Nat /\ ~(f[j] < f[k]) /\ ~(f[k] < f[j])
      BY <1>1
    <3>2. ~(j < k) /\ ~(k < j)
      BY <1>1, <3>1
    <3> QED
      BY <1>1, <3>2
  <2>3. \A x \in S : \E j \in 1..n : g[j] = x
    BY <1>1
  <2> HIDE DEF g, S
  <2> QED
    BY <2>1, <2>2, <2>3 DEF Bijection, Injection, Surjection, IsInjective
<1>3. IsFiniteSet(1..n) /\ Cardinality(1..n) = n
  <2>1. 1 \in Int /\ n \in Int
    BY <1>1
  <2>2. IsFiniteSet(1..n) /\ Cardinality(1..n) = IF 1 > n THEN 0 ELSE n - 1 + 1
    BY <2>1, FS_Interval
  <2> QED
    BY <1>1, <2>2
<1> HIDE DEF g, S
<1>4. Cardinality(S) = n
  <2>1. ExistsBijection(1..n, S)
    BY <1>2 DEF ExistsBijection
  <2> QED
    BY <1>3, <2>1, FS_Bijection
<1> QED
  BY <1>4 DEF Count, S, n

\* What Split cuts off at t: all parts, but not an empty last one.
LEMMA SplitOne ==
  ASSUME NEW m \in Texts, NEW t \in Chars
  PROVE  LET d == <<t>>
             n == NumberOf(m, d)
             w == Split(m, d)
             l == IF From(m, d, n + 1) > Len(m) THEN n ELSE n + 1
         IN /\ n \in Nat /\ w \in Seq(Texts) /\ Len(w) = l
            /\ \A k \in 1..n + 1 : /\ From(m, d, k) \in 1..Len(m) + 1
                                   /\ To(m, d, k) \in From(m, d, k) - 1..Len(m)
            /\ \A k \in 1..Len(w) : w[k] = SubSeq(m, From(m, d, k), To(m, d, k))
<1> DEFINE d == <<t>>
           n == NumberOf(m, d)
           w == Split(m, d)
           p == Parts(m, d)
<1>0. d \in Texts /\ d # <<>> /\ Apart(m, d) /\ Len(m) \in Nat
  BY Short, OnesApart, LenProperties DEF Texts
<1> HIDE DEF d
<1>1. /\ n \in Nat /\ p \in Seq(Texts) /\ Len(p) = n + 1
      /\ \A k \in 1..n + 1 : /\ From(m, d, k) \in 1..Len(m) + 1
                             /\ To(m, d, k) \in From(m, d, k) - 1..Len(m)
                             /\ p[k] = SubSeq(m, From(m, d, k), To(m, d, k))
  BY <1>0, PartsProperties
<1>2. p[n + 1] = <<>> <=> From(m, d, n + 1) > Len(m)
  <2> DEFINE a == From(m, d, n + 1)
  <2>1. n + 1 \in 1..n + 1 /\ To(m, d, n + 1) = Len(m)
    BY <1>1 DEF To
  <2>2. a \in 1..Len(m) + 1 /\ Len(m) \in a - 1..Len(m) /\ p[n + 1] = SubSeq(m, a, Len(m))
    BY <1>1, <2>1
  <2> HIDE DEF a, p
  <2>3. p[n + 1] \in Texts /\ Len(p[n + 1]) = Len(m) - a + 1
    BY <2>2, Stretch
  <2>4. p[n + 1] = <<>> <=> Len(p[n + 1]) = 0
    BY <2>3, EmptySeq DEF Texts
  <2> QED
    BY <1>0, <2>2, <2>3, <2>4 DEF a
<1>3. w = IF p[n + 1] = <<>> THEN SubSeq(p, 1, n) ELSE p
  <2>1. w = IF p[Len(p)] = <<>> THEN SubSeq(p, 1, Len(p) - 1) ELSE p
    BY Zenon DEF Split, Last, Front
  <2>2. Len(p) - 1 = n
    BY <1>1
  <2> QED
    BY <1>1, <2>1, <2>2, Zenon
<1> HIDE DEF p, n, w
<1>4. /\ SubSeq(p, 1, n) \in Seq(Texts) /\ Len(SubSeq(p, 1, n)) = n
      /\ \A k \in 1..n : SubSeq(p, 1, n)[k] = p[k]
  <2>1. n \in 0..Len(p)
    BY <1>1
  <2> QED
    BY <1>1, <2>1, Cut
<1>5. /\ w \in Seq(Texts) /\ Len(w) = IF From(m, d, n + 1) > Len(m) THEN n ELSE n + 1
      /\ \A k \in 1..Len(w) : k \in 1..n + 1 /\ w[k] = p[k]
  <2>1. CASE p[n + 1] = <<>>
    <3>1. w = SubSeq(p, 1, n) /\ From(m, d, n + 1) > Len(m)
      BY <1>2, <1>3, <2>1
    <3>2. \A k \in 1..n : k \in 1..n + 1
      BY <1>1
    <3> QED
      BY <1>4, <3>1, <3>2
  <2>2. CASE p[n + 1] # <<>>
    <3>1. w = p /\ ~(From(m, d, n + 1) > Len(m))
      BY <1>2, <1>3, <2>2
    <3> QED
      BY <1>1, <3>1
  <2> QED
    BY <2>1, <2>2
<1>6. \A k \in 1..Len(w) : w[k] = SubSeq(m, From(m, d, k), To(m, d, k))
  BY <1>1, <1>5
<1> QED
  BY <1>1, <1>5, <1>6 DEF d, n, w

\* So many words there are.
LEMMA WordCountIs ==
  ASSUME NEW m \in Texts, m # <<>>, NEW t \in Chars
  PROVE  Len(Split(m, <<t>>)) = Count(m, t) + (IF Last(m) = t THEN 0 ELSE 1)
<1> DEFINE d == <<t>>
           f == Found(m, d)
           n == NumberOf(m, d)
           a == From(m, d, n + 1)
<1>0. Len(m) \in Nat \ {0}
  BY EmptySeq DEF Texts
<1>1. /\ n \in Nat
      /\ \A j \in 1..n : f[j] \in 1..Len(m) /\ m[f[j]] = t
      /\ \A j, k \in 1..n : j < k => f[j] < f[k]
      /\ \A k \in 1..Len(m) : m[k] = t => \E j \in 1..n : f[j] = k
  BY FoundOne
<1>2. Len(Split(m, d)) = IF a > Len(m) THEN n ELSE n + 1
  BY SplitOne
<1>3. a = IF n = 0 THEN 1 ELSE f[n] + 1
  <2>1. Len(d) = 1
    OBVIOUS
  <2> HIDE DEF n, d
  <2> DEFINE k == n + 1
  <2>2. k - 1 = n /\ (k = 1 <=> n = 0)
    BY <1>1
  <2> HIDE DEF k
  <2>3. From(m, d, k) = IF k = 1 THEN 1 ELSE f[k - 1] + Len(d)
    BY DEF From
  <2> HIDE DEF f
  <2>4. From(m, d, k) = IF n = 0 THEN 1 ELSE f[n] + 1
    BY <2>1, <2>2, <2>3, Zenon
  <2> QED
    BY <2>4 DEF k
<1> HIDE DEF f, n, a, d
<1>4. a > Len(m) <=> m[Len(m)] = t
  <2>1. CASE m[Len(m)] = t
    <3>1. PICK j \in 1..n : f[j] = Len(m)
      BY <1>0, <1>1, <2>1
    <3>2. n \in 1..n /\ (j = n \/ j < n)
      BY <1>1
    <3>3. f[n] = Len(m)
      BY <1>0, <1>1, <3>1, <3>2
    <3> QED
      BY <1>0, <1>1, <1>3, <2>1, <3>3
  <2>2. CASE m[Len(m)] # t
    <3>1. n # 0 => n \in 1..n
      BY <1>1
    <3>2. n # 0 => f[n] \in 1..Len(m) /\ f[n] # Len(m)
      BY <1>1, <2>2, <3>1
    <3> QED
      BY <1>0, <1>3, <2>2, <3>2
  <2> QED
    BY <2>1, <2>2
<1>5. Count(m, t) = n
  BY CountIs DEF n, d
<1> QED
  BY <1>1, <1>2, <1>4, <1>5 DEF Last, d

\* Something stands behind the first t if there is a second part.
LEMMA BehindIs ==
  ASSUME NEW m \in Texts, m # <<>>, NEW t \in Chars
  PROVE  Behind(m, t) <=> Len(Split(m, <<t>>)) >= 2
<1> DEFINE d == <<t>>
           f == Found(m, d)
           n == NumberOf(m, d)
<1>0. Len(m) \in Nat \ {0}
  BY EmptySeq DEF Texts
<1>1. /\ n \in Nat
      /\ \A j \in 1..n : f[j] \in 1..Len(m) /\ m[f[j]] = t
      /\ \A j, k \in 1..n : j < k => f[j] < f[k]
      /\ \A k \in 1..Len(m) : m[k] = t => \E j \in 1..n : f[j] = k
  BY FoundOne
<1>2. Len(Split(m, d)) = n + (IF m[Len(m)] = t THEN 0 ELSE 1)
  BY WordCountIs, CountIs DEF Last
<1> HIDE DEF f, n, d
<1>3. CASE m[Len(m)] = t
  <2>1. PICK h \in 1..n : f[h] = Len(m)
    BY <1>0, <1>1, <1>3
  <2>2. ASSUME n >= 2 PROVE \E k \in 1..Len(m) - 1 : m[k] = t
    <3>1. 1 \in 1..n /\ 2 \in 1..n /\ 1 < 2
      BY <1>1, <2>2
    <3>2. f[1] \in 1..Len(m) /\ f[2] \in 1..Len(m) /\ f[1] < f[2] /\ m[f[1]] = t
      BY <1>1, <3>1
    <3>3. f[1] \in 1..Len(m) - 1
      BY <1>0, <3>2
    <3> QED
      BY <3>2, <3>3
  <2>3. ASSUME NEW k \in 1..Len(m) - 1, m[k] = t PROVE n >= 2
    <3>1. k \in 1..Len(m)
      BY <1>0
    <3>2. PICK j \in 1..n : f[j] = k
      BY <1>1, <2>3, <3>1
    <3>3. j # h
      BY <1>0, <2>1, <3>2
    <3> QED
      BY <1>1, <3>3
  <2> QED
    BY <1>1, <1>2, <1>3, <2>2, <2>3 DEF Behind, d
<1>4. CASE m[Len(m)] # t
  <2>1. ASSUME n >= 1 PROVE \E k \in 1..Len(m) - 1 : m[k] = t
    <3>1. 1 \in 1..n
      BY <1>1, <2>1
    <3>2. f[1] \in 1..Len(m) /\ m[f[1]] = t
      BY <1>1, <3>1
    <3>3. f[1] \in 1..Len(m) - 1
      BY <1>0, <1>4, <3>2
    <3> QED
      BY <3>2, <3>3
  <2>2. ASSUME NEW k \in 1..Len(m) - 1, m[k] = t PROVE n >= 1
    <3>1. k \in 1..Len(m)
      BY <1>0
    <3>2. PICK j \in 1..n : f[j] = k
      BY <1>1, <2>2, <3>1
    <3> QED
      BY <1>1
  <2> QED
    BY <1>1, <1>2, <1>4, <2>1, <2>2 DEF Behind, d
<1> QED
  BY <1>3, <1>4

\* There is no t within a part.
LEMMA PartHasNone ==
  ASSUME NEW m \in Texts, NEW t \in Chars, NEW k \in 1..NumberOf(m, <<t>>) + 1,
         NEW i \in From(m, <<t>>, k)..To(m, <<t>>, k)
  PROVE  i \in 1..Len(m) /\ m[i] # t
<1> DEFINE d == <<t>>
           f == Found(m, d)
           n == NumberOf(m, d)
<1>0. Len(m) \in Nat
  BY LenProperties DEF Texts
<1>1. /\ n \in Nat
      /\ \A j \in 1..n : f[j] \in 1..Len(m) /\ m[f[j]] = t
      /\ \A g, j \in 1..n : g < j => f[g] < f[j]
      /\ \A h \in 1..Len(m) : m[h] = t => \E j \in 1..n : f[j] = h
  BY FoundOne
<1>2. \A h \in 1..n + 1 : /\ From(m, d, h) \in 1..Len(m) + 1
                          /\ To(m, d, h) \in From(m, d, h) - 1..Len(m)
  BY SplitOne
<1>3. /\ From(m, d, k) = IF k = 1 THEN 1 ELSE f[k - 1] + 1
      /\ To(m, d, k) = IF k = n + 1 THEN Len(m) ELSE f[k] - 1
  <2>1. Len(d) = 1
    OBVIOUS
  <2> QED
    BY <2>1 DEF From, To
<1>4. i \in 1..Len(m) /\ From(m, d, k) <= i /\ i <= To(m, d, k)
  <2>1. From(m, d, k) \in 1..Len(m) + 1 /\ To(m, d, k) \in From(m, d, k) - 1..Len(m)
    BY <1>2
  <2> QED
    BY <1>0, <2>1
<1> HIDE DEF d, f, n
<1> SUFFICES ASSUME m[i] = t PROVE FALSE
  BY <1>4
<1>5. PICK j \in 1..n : f[j] = i
  BY <1>1, <1>4
<1>6. k \in 1..n + 1
  BY DEF n, d
<1>7. j < k
  <2> SUFFICES ASSUME ~(j < k) PROVE FALSE
    OBVIOUS
  <2>1. k \in 1..n /\ (k = j \/ k < j)
    BY <1>1, <1>6
  <2>2. f[k] \in 1..Len(m) /\ f[k] <= f[j]
    BY <1>1, <2>1
  <2>3. k # n + 1
    BY <1>1, <2>1
  <2> QED
    BY <1>3, <1>4, <1>5, <2>2, <2>3
<1>8. k - 1 \in 1..n /\ k # 1 /\ (j = k - 1 \/ j < k - 1)
  BY <1>1, <1>6, <1>7
<1>9. f[k - 1] \in 1..Len(m) /\ f[j] <= f[k - 1]
  BY <1>1, <1>8
<1> QED
  BY <1>3, <1>4, <1>5, <1>8, <1>9

-----------------------------------------------------------------------------
(* Trim and Join *)

\* What trim leaves: nothing of a blank text, else what stands from the first to the last token
\* that is not blank.
LEMMA TrimShape ==
  ASSUME NEW s \in Texts
  PROVE  \/ Trim(s) = <<>> /\ \A k \in 1..Len(s) : s[k] \in White
         \/ \E a \in 1..Len(s) : \E b \in a..Len(s) :
              /\ Trim(s) = SubSeq(s, a, b)
              /\ s[a] \notin White /\ \A k \in 1..a - 1 : s[k] \in White
              /\ s[b] \notin White /\ \A k \in b + 1..Len(s) : s[k] \in White
<1> DEFINE black == {k \in 1..Len(s) : s[k] \notin White}
           a == Min(black)
           b == Max(black)
<1>0. Len(s) \in Nat
  BY LenProperties DEF Texts
<1>1. Trim(s) = IF black = {} THEN <<>> ELSE SubSeq(s, a, b)
  BY Zenon DEF Trim
<1>2. CASE black = {}
  BY <1>1, <1>2
<1>3. CASE black # {}
  <2>1. black \in SUBSET Nat /\ black \in SUBSET (0..Len(s))
    BY <1>0
  <2>2. a \in black /\ \A k \in black : a <= k
    <3> HIDE DEF black
    <3> QED
      BY <1>3, <2>1, MinProperties
  <2>3. b \in black /\ \A k \in black : b >= k
    <3> HIDE DEF black
    <3> QED
      BY <1>0, <1>3, <2>1, MaxProperties
  <2> HIDE DEF a, b
  <2>4. a \in 1..Len(s) /\ b \in a..Len(s) /\ s[a] \notin White /\ s[b] \notin White
    BY <1>0, <2>2, <2>3
  <2>5. \A k \in 1..a - 1 : s[k] \in White
    BY <1>0, <2>2, <2>4
  <2>6. \A k \in b + 1..Len(s) : s[k] \in White
    BY <1>0, <2>3, <2>4
  <2>7. Trim(s) = SubSeq(s, a, b)
    BY <1>1, <1>3
  <2> QED
    BY <2>4, <2>5, <2>6, <2>7
<1> QED
  BY <1>2, <1>3

\* What trim leaves is a text.
LEMMA TrimType == ASSUME NEW s \in Texts PROVE Trim(s) \in Texts
<1>1. Len(s) \in Nat
  BY LenProperties DEF Texts
<1>2. ASSUME NEW a \in 1..Len(s), NEW b \in a..Len(s) PROVE SubSeq(s, a, b) \in Texts
  <2>1. a \in 1..Len(s) + 1 /\ b \in a - 1..Len(s)
    BY <1>1
  <2> QED
    BY <2>1, Stretch
<1>3. Trim(s) = <<>> \/ \E a \in 1..Len(s) : \E b \in a..Len(s) : Trim(s) = SubSeq(s, a, b)
  BY TrimShape
<1>4. CASE Trim(s) = <<>>
  BY <1>4, Short, Zenon
<1>5. ASSUME NEW a \in 1..Len(s), NEW b \in a..Len(s), Trim(s) = SubSeq(s, a, b)
      PROVE  Trim(s) \in Texts
  <2>1. SubSeq(s, a, b) \in Texts
    BY <1>2
  <2> QED
    BY <1>5, <2>1, Zenon
<1> QED
  BY <1>3, <1>4, <1>5, Zenon

\* A text that begins with a token that is not blank still does.
LEMMA TrimFirst ==
  ASSUME NEW s \in Texts, s # <<>>, s[1] \notin White
  PROVE  \E b \in 1..Len(s) : /\ Trim(s) = SubSeq(s, 1, b) /\ Len(Trim(s)) = b
                              /\ s[b] \notin White
                              /\ \A k \in b + 1..Len(s) : s[k] \in White
                              /\ \A k \in 1..b : Trim(s)[k] = s[k]
<1>1. Len(s) \in Nat \ {0} /\ 1 \in 1..Len(s)
  BY EmptySeq DEF Texts
<1>2. PICK a \in 1..Len(s) : \E b \in a..Len(s) :
        /\ Trim(s) = SubSeq(s, a, b)
        /\ \A k \in 1..a - 1 : s[k] \in White
        /\ s[b] \notin White /\ \A k \in b + 1..Len(s) : s[k] \in White
  BY <1>1, TrimShape
<1>2b. PICK b \in a..Len(s) :
        /\ Trim(s) = SubSeq(s, a, b)
        /\ \A k \in 1..a - 1 : s[k] \in White
        /\ s[b] \notin White /\ \A k \in b + 1..Len(s) : s[k] \in White
  BY <1>2
<1>3. a = 1
  <2> SUFFICES ASSUME a # 1 PROVE FALSE
    OBVIOUS
  <2>1. 1 \in 1..a - 1
    BY <1>1
  <2> QED
    BY <1>2b, <2>1
<1>4. b \in 1..Len(s) /\ b \in 1 - 1..Len(s) /\ 1 \in 1..Len(s) + 1 /\ b - 1 + 1 = b
  BY <1>1, <1>3
<1>5. /\ Len(SubSeq(s, 1, b)) = b - 1 + 1
      /\ \A k \in 1..b - 1 + 1 : SubSeq(s, 1, b)[k] = s[1 + k - 1]
  BY <1>4, Stretch
<1>6. \A k \in 1..b : 1 + k - 1 = k
  BY <1>4
<1>7. Len(Trim(s)) = b /\ \A k \in 1..b : Trim(s)[k] = s[k]
  BY <1>2b, <1>3, <1>4, <1>5, <1>6
<1> QED
  BY <1>2b, <1>3, <1>4, <1>7

\* Two texts of which one is not empty.
LEMMA NoneWithPart ==
  ASSUME NEW a \in Texts, NEW b \in Texts, a # <<>> \/ b # <<>>
  PROVE  a \o b # <<>>
<1>1. Len(a) \in Nat /\ Len(b) \in Nat /\ Len(a \o b) = Len(a) + Len(b)
  BY LenProperties, ConcatProperties DEF Texts
<1>2. Len(a) # 0 \/ Len(b) # 0
  BY EmptySeq DEF Texts
<1>3. Len(a \o b) # 0
  BY <1>1, <1>2
<1>4. Len(<<>>) = 0
  OBVIOUS
<1> QED
  BY <1>3, <1>4, Zenon

\* What is joined begins as the first text does, and is empty only if all texts are.
LEMMA FlattenFirst ==
  ASSUME NEW q \in Seq(Texts), q # <<>>
  PROVE  \E r \in Texts : FlattenSeq(q) = q[1] \o r
<1>0. Len(q) \in Nat \ {0} /\ q[1] \in Texts
  BY EmptySeq, ElementOfSeq
<1> DEFINE x == SubSeq(q, 1, 1)
           y == SubSeq(q, 1 + 1, Len(q))
<1>1. x \in Seq(Texts) /\ y \in Seq(Texts) /\ Len(x) = 1 /\ x[1] = q[1]
  <2>1. 1 \in 0..Len(q) /\ 1 \in 1..1
    BY <1>0
  <2> QED
    BY <2>1, Cut
<1>2. x \o y = q
  <2>1. 1 \in 1..Len(q) + 1 /\ 1 \in 1 - 1..Len(q) /\ Len(q) \in 1..Len(q)
    BY <1>0
  <2>2. x \o y = SubSeq(q, 1, Len(q))
    BY <2>1, ConcatAdjacentSubSeq
  <2> QED
    BY <2>2, SubSeqFull
<1> HIDE DEF x, y
<1>3. x = <<q[1]>>
  <2> DEFINE z == <<q[1]>>
  <2>1. z \in Seq(Texts) /\ Len(z) = 1 /\ z[1] = q[1]
    BY <1>0
  <2> HIDE DEF z
  <2>2. x = z
    BY <1>1, <2>1, SeqEqual
  <2> QED
    BY <2>2 DEF z
<1>4. FlattenSeq(x) = q[1]
  BY <1>0, <1>3, FlattenTexts, Zenon
<1>5. FlattenSeq(x \o y) = FlattenSeq(x) \o FlattenSeq(y) /\ FlattenSeq(y) \in Texts
  BY <1>1, FlattenTexts, Zenon
<1> QED
  BY <1>2, <1>4, <1>5, Zenon

\* It is not empty if one of the texts is not.
LEMMA FlattenEmpty ==
  ASSUME NEW q \in Seq(Texts), NEW k \in 1..Len(q), q[k] # <<>>
  PROVE  FlattenSeq(q) # <<>>
<1>0. Len(q) \in Nat /\ q[k] \in Texts
  BY LenProperties, ElementOfSeq
<1> DEFINE j == k - 1
           x == SubSeq(q, 1, j)
           y == SubSeq(q, j + 1, Len(q))
<1>1. x \in Seq(Texts) /\ y \in Seq(Texts)
  <2>1. j \in 0..Len(q)
    BY <1>0
  <2> HIDE DEF j
  <2> QED
    BY <2>1, Cut
<1>2. x \o y = q
  <2>1. 1 \in 1..Len(q) + 1 /\ j \in 1 - 1..Len(q) /\ Len(q) \in j..Len(q)
    BY <1>0
  <2> HIDE DEF j
  <2>2. x \o y = SubSeq(q, 1, Len(q))
    BY <2>1, ConcatAdjacentSubSeq
  <2> QED
    BY <2>2, SubSeqFull
<1>3. y # <<>> /\ y[1] = q[k]
  <2>1. /\ j + 1 = k /\ k \in Int /\ Len(q) \in Int /\ k <= Len(q)
        /\ 1 \in 1..Len(q) - k + 1 /\ k + 1 - 1 = k
    BY <1>0
  <2>2. \A i \in k..Len(q) : q[i] \in Texts
    BY <1>0, ElementOfSeq
  <2>3. /\ Len(SubSeq(q, k, Len(q))) = Len(q) - k + 1
        /\ \A i \in 1..Len(q) - k + 1 : SubSeq(q, k, Len(q))[i] = q[k + i - 1]
    BY <2>1, <2>2, SubSeqProperties
  <2>4. y = SubSeq(q, k, Len(q))
    BY <2>1
  <2> HIDE DEF y
  <2>5. Len(y) # 0 /\ y[1] = q[k]
    BY <1>0, <2>1, <2>3, <2>4
  <2>6. Len(<<>>) = 0
    OBVIOUS
  <2> QED
    BY <2>5, <2>6, Zenon
<1> HIDE DEF x, y, j
<1>4. PICK r \in Texts : FlattenSeq(y) = q[k] \o r
  BY <1>1, <1>3, FlattenFirst
<1>5. /\ FlattenSeq(x \o y) = FlattenSeq(x) \o FlattenSeq(y)
      /\ FlattenSeq(x) \in Texts /\ FlattenSeq(y) \in Texts
  BY <1>1, FlattenTexts, Zenon
<1>6. FlattenSeq(y) # <<>>
  BY <1>0, <1>4, NoneWithPart
<1>7. FlattenSeq(x) \o FlattenSeq(y) # <<>>
  BY <1>5, <1>6, NoneWithPart
<1> QED
  BY <1>2, <1>5, <1>7, Zenon

\* What Join joins: nothing if there is no word k, else word k and the next ones with a space.
LEMMA JoinShape ==
  ASSUME NEW w \in Seq(Texts), NEW k \in Nat \ {0}
  PROVE  /\ k > Len(w) => Join(w, k) = <<>>
         /\ k <= Len(w) =>
              \E q \in Seq(Texts) :
                /\ Join(w, k) = FlattenSeq(q) /\ Len(q) = Len(w) - k + 1
                /\ q[1] = w[k]
                /\ \A i \in 2..Len(q) : q[i] = <<" ">> \o w[i + k - 1]
<1> DEFINE n == Len(w) - k + 1
           q == [i \in 1..n |-> (IF i = 1 THEN <<>> ELSE <<" ">>) \o w[i + k - 1]]
<1>0. Len(w) \in Nat /\ n \in Int /\ \A i \in 1..Len(w) : w[i] \in Texts
  BY LenProperties, ElementOfSeq
<1>1. Join(w, k) = FlattenSeq(q)
  BY Zenon DEF Join
<1>2. ASSUME k > Len(w) PROVE Join(w, k) = <<>>
  <2>1. 1..n = {}
    BY <1>0, <1>2
  <2>2. q = <<>>
    <3> HIDE DEF n
    <3>1. q = [i \in {} |-> (IF i = 1 THEN <<>> ELSE <<" ">>) \o w[i + k - 1]]
      BY <2>1, Zenon
    <3> HIDE DEF q
    <3> QED
      BY <3>1
  <2> HIDE DEF q
  <2> QED
    BY <1>1, <2>2, FlattenTexts, Zenon
<1>3. ASSUME k <= Len(w)
      PROVE  /\ q \in Seq(Texts) /\ Len(q) = n /\ q[1] = w[k]
             /\ \A i \in 2..n : q[i] = <<" ">> \o w[i + k - 1]
  <2>1. " " \in Chars
    BY DEF Chars
  <2>2. n \in Nat /\ 1 \in 1..n /\ \A i \in 1..n : w[i + k - 1] \in Texts
    BY <1>0, <1>3
  <2> HIDE DEF n
  <2>3. \A i \in 1..n : q[i] = (IF i = 1 THEN <<>> ELSE <<" ">>) \o w[i + k - 1]
    OBVIOUS
  <2>4. ASSUME NEW i \in 1..n
        PROVE  (IF i = 1 THEN <<>> ELSE <<" ">>) \o w[i + k - 1] \in Texts
    <3> DEFINE x == IF i = 1 THEN <<>> ELSE <<" ">>
               y == w[i + k - 1]
    <3>1. x \in Texts /\ y \in Texts
      BY <2>1, <2>2, Short
    <3> HIDE DEF x, y
    <3>2. x \o y \in Texts
      BY <3>1, ConcatProperties DEF Texts
    <3> QED
      BY <3>2 DEF x, y
  <2>5. q[1] = <<>> \o w[1 + k - 1] /\ 1 + k - 1 = k
    <3>1. 1 + k - 1 = k
      OBVIOUS
    <3> HIDE DEF q
    <3>2. q[1] = (IF 1 = 1 THEN <<>> ELSE <<" ">>) \o w[1 + k - 1]
      BY <2>2, <2>3, Zenon
    <3> QED
      BY <3>1, <3>2, Zenon
  <2>6. <<>> \o w[k] = w[k]
    <3>1. w[k] \in Texts
      BY <2>2, <2>5
    <3> QED
      BY <3>1, ConcatEmptySeq DEF Texts
  <2>7. \A i \in 2..n : i \in 1..n /\ i # 1
    BY <2>2
  <2>8. q \in Seq(Texts) /\ Len(q) = n
    <3> DEFINE e(i) == (IF i = 1 THEN <<>> ELSE <<" ">>) \o w[i + k - 1]
    <3>1. \A i \in 1..n : e(i) \in Texts
      BY <2>4, Zenon
    <3>2. q = [i \in 1..n |-> e(i)]
      BY Zenon
    <3> HIDE DEF e, q
    <3> QED
      BY <2>2, <3>1, <3>2
  <2> HIDE DEF q
  <2>9. q[1] = w[k]
    BY <2>5, <2>6, Zenon
  <2>10. ASSUME NEW i \in 2..n PROVE q[i] = <<" ">> \o w[i + k - 1]
    <3>1. i \in 1..n /\ i # 1
      BY <2>7, Zenon
    <3>2. q[i] = (IF i = 1 THEN <<>> ELSE <<" ">>) \o w[i + k - 1]
      BY <2>3, <3>1, Zenon
    <3> QED
      BY <3>1, <3>2, Zenon
  <2> QED
    BY <2>8, <2>9, <2>10
<1> HIDE DEF q
<1>4. ASSUME k <= Len(w)
      PROVE  \E z \in Seq(Texts) :
                /\ Join(w, k) = FlattenSeq(z) /\ Len(z) = Len(w) - k + 1
                /\ z[1] = w[k]
                /\ \A i \in 2..Len(z) : z[i] = <<" ">> \o w[i + k - 1]
  BY <1>1, <1>3, <1>4
<1> QED
  BY <1>2, <1>4

\* Words that are joined are there, but a single empty one.
LEMMA JoinEmpty ==
  ASSUME NEW w \in Seq(Texts), NEW k \in Nat \ {0}
  PROVE  Join(w, k) # <<>> <=> Len(w) > k \/ (Len(w) = k /\ w[k] # <<>>)
<1>0. Len(w) \in Nat /\ \A i \in 1..Len(w) : w[i] \in Texts
  BY LenProperties, ElementOfSeq
<1>1. CASE k > Len(w)
  <2>1. Join(w, k) = <<>>
    BY <1>1, JoinShape
  <2> QED
    BY <1>0, <1>1, <2>1
<1>2. CASE k <= Len(w)
  <2>1. PICK q \in Seq(Texts) : /\ Join(w, k) = FlattenSeq(q) /\ Len(q) = Len(w) - k + 1
                                /\ q[1] = w[k]
                                /\ \A i \in 2..Len(q) : q[i] = <<" ">> \o w[i + k - 1]
    BY <1>2, JoinShape
  <2>2. CASE Len(w) > k
    <3>1. 2 \in 1..Len(q) /\ 2 \in 2..Len(q) /\ 2 + k - 1 \in 1..Len(w)
      <4>1. Len(q) = Len(w) - k + 1
        BY <2>1
      <4> QED
        BY <1>0, <2>2, <4>1
    <3>2. q[2] = <<" ">> \o w[2 + k - 1]
      BY <2>1, <3>1
    <3>3. <<" ">> \in Texts /\ w[2 + k - 1] \in Texts /\ <<" ">> # <<>>
      BY <1>0, <3>1, Short DEF Chars
    <3>4. q[2] # <<>>
      BY <3>2, <3>3, NoneWithPart
    <3>5. FlattenSeq(q) # <<>>
      BY <3>1, <3>4, FlattenEmpty
    <3>6. Join(w, k) = FlattenSeq(q)
      BY <2>1
    <3> QED
      BY <2>2, <3>5, <3>6, Zenon
  <2>3. CASE Len(w) = k
    <3>1. Len(q) = 1 /\ w[k] \in Texts
      BY <1>0, <2>1, <2>3
    <3>2. FlattenSeq(q) = w[k]
      <4> DEFINE z == <<w[k]>>
      <4>1. z \in Seq(Texts) /\ Len(z) = 1 /\ z[1] = w[k]
        BY <3>1
      <4> HIDE DEF z
      <4>2. q = z
        <5>1. q[1] = w[k]
          BY <2>1
        <5>2. Len(q) = Len(z) /\ \A i \in 1..Len(q) : q[i] = z[i]
          BY <3>1, <4>1, <5>1
        <5> QED
          BY <4>1, <5>2, SeqEqual
      <4>3. FlattenSeq(<<w[k]>>) = w[k]
        BY <3>1, FlattenTexts, Zenon
      <4> QED
        BY <4>2, <4>3 DEF z
    <3>3. Join(w, k) = w[k]
      BY <2>1, <3>2, Zenon
    <3> QED
      BY <1>0, <2>3, <3>3
  <2> QED
    BY <1>0, <1>2, <2>2, <2>3
<1> QED
  BY <1>0, <1>1, <1>2

-----------------------------------------------------------------------------
(* What the commands look for, and TornExactly *)

\* The space has a name: the SMT solver is given no formula with the literal in it.
Sp == " "
Space == <<Sp>>

\* What precedes the first space.
LEMMA BeforeIs ==
  ASSUME NEW m \in Texts
  PROVE  LET n == NumberOf(m, Space)
             b == IF n = 0 THEN Len(m) ELSE Found(m, Space)[1] - 1
         IN /\ Len(m) \in Nat /\ n \in Nat /\ b \in 0..Len(m)
            /\ BeforeSpace(m) = SubSeq(m, 1, b)
            /\ n # 0 => b + 1 \in 1..Len(m) /\ m[b + 1] = Sp
            /\ \A k \in 1..b : m[k] # Sp
<1> DEFINE f == Found(m, Space)
           n == NumberOf(m, Space)
           b == To(m, Space, 1)
<1>a. Len(m) \in Nat
  BY LenProperties DEF Texts
<1>b. Sp \in Chars
  BY Zenon DEF Chars, Sp
<1>1. Space \in Texts /\ Space # <<>> /\ Apart(m, Space)
  BY <1>b, Short, OnesApart DEF Space
<1>2. From(m, Space, 1) = 1
  BY DEF From
<1>3. /\ n \in Nat
      /\ \A k \in 1..n + 1 : /\ To(m, Space, k) \in From(m, Space, k) - 1..Len(m)
                             /\ Parts(m, Space)[k] = SubSeq(m, From(m, Space, k), To(m, Space, k))
  BY <1>1, PartsProperties
<1>4. /\ \A j \in 1..n : f[j] \in 1..Len(m) /\ m[f[j]] = Sp
      /\ \A k \in 1..n + 1 : \A i \in From(m, Space, k)..To(m, Space, k) : m[i] # Sp
  BY <1>b, FoundOne, PartHasNone DEF Space
<1>5. b = IF n = 0 THEN Len(m) ELSE f[1] - 1
  <2> HIDE DEF n, f
  <2>1. n + 1 = 1 <=> n = 0
    BY <1>3
  <2> QED
    BY <2>1, Zenon DEF To, n, f
<1> HIDE DEF n, f
<1>6. 1 \in 1..n + 1 /\ (n # 0 => 1 \in 1..n) /\ 1 - 1 = 0
  BY <1>3
<1>7. To(m, Space, 1) \in 0..Len(m) /\ Parts(m, Space)[1] = SubSeq(m, 1, To(m, Space, 1))
  <2>1. /\ To(m, Space, 1) \in From(m, Space, 1) - 1..Len(m)
        /\ Parts(m, Space)[1] = SubSeq(m, From(m, Space, 1), To(m, Space, 1))
    BY <1>3, <1>6, Zenon
  <2> QED
    BY <1>2, <1>6, <2>1, Zenon
<1>8. \A i \in 1..To(m, Space, 1) : m[i] # Sp
  BY <1>2, <1>4, <1>6, Zenon
<1> HIDE DEF b
<1>9. b \in 0..Len(m) /\ \A i \in 1..b : m[i] # Sp
  BY <1>7, <1>8, Zenon DEF b
<1>10. BeforeSpace(m) = SubSeq(m, 1, b)
  BY <1>7, Zenon DEF BeforeSpace, Space, Sp, b
<1>11. ASSUME n # 0 PROVE b + 1 \in 1..Len(m) /\ m[b + 1] = Sp
  <2>1. f[1] \in 1..Len(m) /\ m[f[1]] = Sp
    BY <1>4, <1>6, <1>11, Zenon
  <2>2. b = f[1] - 1
    BY <1>5, <1>11, Zenon
  <2>3. b + 1 = f[1]
    BY <1>a, <2>1, <2>2
  <2> QED
    BY <2>1, <2>3, Zenon
<1> QED
  BY <1>a, <1>3, <1>5, <1>9, <1>10, <1>11 DEF n, f

\* A text whose command is c begins with it, and nothing but a space follows it.
LEMMA CommandFirst ==
  ASSUME NEW m \in Texts, NEW c, GetCommand(m) = <<c>>
  PROVE  m # <<>> /\ Len(m) \in Nat \ {0} /\ m[1] = c /\ (Len(m) = 1 \/ m[2] = Sp)
<1> DEFINE n == NumberOf(m, Space)
           b == IF n = 0 THEN Len(m) ELSE Found(m, Space)[1] - 1
<1>1. /\ Len(m) \in Nat /\ b \in 0..Len(m)
      /\ BeforeSpace(m) = SubSeq(m, 1, b)
      /\ n # 0 => b + 1 \in 1..Len(m) /\ m[b + 1] = Sp
  BY BeforeIs
<1>2. n = 0 => b = Len(m)
  OBVIOUS
<1> HIDE DEF n, b
<1>3. SubSeq(m, 1, b) = <<c>>
  BY <1>1 DEF GetCommand
<1>4. Len(SubSeq(m, 1, b)) = b /\ \A i \in 1..b : SubSeq(m, 1, b)[i] = m[i]
  BY <1>1, Cut DEF Texts
<1>5. Len(<<c>>) = 1 /\ <<c>>[1] = c
  OBVIOUS
<1>6. b = 1
  BY <1>3, <1>4, <1>5, Zenon
<1>7. m[1] = c
  <2>1. 1 \in 1..b
    BY <1>6
  <2>2. SubSeq(m, 1, b)[1] = m[1]
    BY <1>4, <2>1, Zenon
  <2> QED
    BY <1>3, <1>5, <2>2, Zenon
<1>8. Len(m) \in Nat \ {0}
  BY <1>1, <1>6
<1>9. Len(m) = 1 \/ m[2] = Sp
  <2>1. 1 + 1 = 2
    OBVIOUS
  <2> QED
    BY <1>1, <1>2, <1>6, <2>1, Zenon
<1>10. m # <<>>
  BY <1>8, EmptySeq DEF Texts
<1> QED
  BY <1>7, <1>8, <1>9, <1>10, Zenon

\* What MissingWord says of words and colons is so.
LEMMA WordsAre ==
  ASSUME NEW m \in Texts, m # <<>>
  PROVE  /\ Words(m) \in Seq(Texts) /\ Len(Words(m)) \in Nat
         /\ \A k \in 1..Len(Words(m)) : Words(m)[k] \in Texts
         /\ \A k \in Nat : WordCount(m, k) <=> Len(Words(m)) >= k
         /\ AfterColon(m) \in Seq(Texts) /\ Len(AfterColon(m)) \in Nat
         /\ Behind(m, ":") <=> Len(AfterColon(m)) >= 2
<1>1. " " \in Chars /\ ":" \in Chars
  BY DEF Chars
<1>2. Words(m) \in Seq(Texts) /\ AfterColon(m) \in Seq(Texts)
  <2>1. Split(m, <<" ">>) \in Seq(Texts)
    BY <1>1, SplitOne
  <2>2. Split(m, <<":">>) \in Seq(Texts)
    BY <1>1, SplitOne
  <2> QED
    BY <2>1, <2>2 DEF Words, AfterColon
<1>3. Len(Words(m)) = Count(m, " ") + (IF Last(m) = " " THEN 0 ELSE 1)
  BY <1>1, WordCountIs DEF Words
<1>4. \A k \in Nat : WordCount(m, k) <=> Len(Words(m)) >= k
  BY <1>3, Zenon DEF WordCount
<1>5. Behind(m, ":") <=> Len(AfterColon(m)) >= 2
  BY <1>1, BehindIs DEF AfterColon
<1>6. \A k \in 1..Len(Words(m)) : Words(m)[k] \in Texts
  BY <1>2, ElementOfSeq
<1> QED
  BY <1>2, <1>4, <1>5, <1>6, LenProperties

\* execQuit: the second time it finds no colon.
LEMMA QuitIs ==
  ASSUME NEW m \in Texts, m # <<>>, NEW n \in Nat
  PROVE  QuitTorn(m, n) <=> n > 1 \/ (n = 1 /\ ~Behind(m, ":"))
<1> DEFINE d == <<":">>
           w == AfterColon(m)
<1>0. Len(w) \in Nat /\ w \in Seq(Texts) /\ (Behind(m, ":") <=> Len(w) >= 2)
  BY WordsAre
<1>1. ":" \in Chars
  BY DEF Chars
<1>2. ASSUME Len(w) >= 2 PROVE Len(AfterColon(w[2])) < 2
  <2> DEFINE a == From(m, d, 2)
             b == To(m, d, 2)
             u == w[2]
  <2>1. /\ NumberOf(m, d) \in Nat /\ 2 \in 1..NumberOf(m, d) + 1
        /\ a \in 1..Len(m) + 1 /\ b \in a - 1..Len(m) /\ u = SubSeq(m, a, b)
    <3>1. /\ NumberOf(m, d) \in Nat
          /\ Len(w) \in {NumberOf(m, d), NumberOf(m, d) + 1}
          /\ \A k \in 1..NumberOf(m, d) + 1 : /\ From(m, d, k) \in 1..Len(m) + 1
                                              /\ To(m, d, k) \in From(m, d, k) - 1..Len(m)
          /\ \A k \in 1..Len(w) : w[k] = SubSeq(m, From(m, d, k), To(m, d, k))
      BY <1>1, SplitOne DEF AfterColon
    <3> HIDE DEF w, d
    <3>2. 2 \in 1..Len(w) /\ 2 \in 1..NumberOf(m, d) + 1
      BY <1>0, <1>2, <3>1
    <3> QED
      BY <3>1, <3>2
  <2>2. \A i \in a..b : m[i] # ":"
    BY <1>1, <2>1, PartHasNone
  <2> HIDE DEF a, b, u, w, d
  <2>3. u \in Texts /\ Len(u) = b - a + 1 /\ \A i \in 1..Len(u) : u[i] # ":"
    <3>1. SubSeq(m, a, b) \in Texts /\ Len(SubSeq(m, a, b)) = b - a + 1
          /\ \A i \in 1..b - a + 1 : SubSeq(m, a, b)[i] = m[a + i - 1]
      BY <2>1, Stretch
    <3>2. \A i \in 1..b - a + 1 : a + i - 1 \in a..b
      BY <2>1
    <3> QED
      BY <2>1, <2>2, <3>1, <3>2
  <2>4. Len(AfterColon(u)) < 2
    <3>1. CASE u = <<>>
      <4>1. NumberOf(u, <<":">>) = 0
        <5>1. NumberOf(u, <<":">>) = Count(u, ":")
          BY <1>1, <2>3, CountIs
        <5>2. {k \in 1..Len(u) : u[k] = ":"} = {}
          BY <2>3
        <5> QED
          BY <5>1, <5>2, FS_EmptySet DEF Count
      <4>2. Len(AfterColon(u)) \in {0, 0 + 1}
        BY <1>1, <2>3, <4>1, SplitOne DEF AfterColon
      <4>3. Len(AfterColon(u)) = 0 \/ Len(AfterColon(u)) = 1
        BY <4>2
      <4>4. 0 < 2 /\ 1 < 2
        OBVIOUS
      <4> QED
        BY <4>3, <4>4, Zenon
    <3>2. CASE u # <<>>
      <4>1. ~Behind(u, ":")
        <5>1. Len(u) \in Nat
          BY <2>3, LenProperties DEF Texts
        <5> QED
          BY <2>3, <5>1 DEF Behind
      <4> QED
        BY <2>3, <3>2, <4>1, WordsAre
    <3> QED
      BY <3>1, <3>2
  <2> QED
    BY <2>4 DEF u
<1>3. QuitTorn(m, n) <=> \/ n > 0 /\ Len(w) < 2
                         \/ n > 1 /\ Len(AfterColon(w[2])) < 2
  BY Zenon DEF QuitTorn
<1> HIDE DEF w
<1> QED
  BY <1>0, <1>2, <1>3

\* execTopic finds a topic if there are four words, or three and the third is not blank.
LEMMA TopicIs ==
  ASSUME NEW m \in Texts, m # <<>>
  PROVE  TopicTorn(m) <=>
           /\ ~Behind(m, ":")
           /\ WordCount(m, 4) \/ (WordCount(m, 3) /\ Trim(Words(m)[3]) # <<>>)
<1> DEFINE w == Words(m)
           v == [i \in 1..Len(w) |-> Trim(w[i])]
<1>0. /\ Len(w) \in Nat /\ \A k \in 1..Len(w) : w[k] \in Texts
      /\ Len(AfterColon(m)) \in Nat /\ (Behind(m, ":") <=> Len(AfterColon(m)) >= 2)
      /\ WordCount(m, 4) <=> Len(w) >= 4
      /\ WordCount(m, 3) <=> Len(w) >= 3
  BY WordsAre
<1>1. Parse(m).value = Join(v, 3)
  BY DEF Parse
<1> HIDE DEF w
<1>2. v \in Seq(Texts) /\ Len(v) = Len(w) /\ \A i \in 1..Len(w) : v[i] = Trim(w[i])
  <2>1. \A i \in 1..Len(w) : Trim(w[i]) \in Texts
    BY <1>0, TrimType
  <2> QED
    BY <1>0, <2>1
<1> HIDE DEF v
<1>3. Join(v, 3) # <<>> <=> Len(v) > 3 \/ (Len(v) = 3 /\ v[3] # <<>>)
  BY <1>2, JoinEmpty
<1>4. Len(w) = 3 => v[3] = Trim(w[3])
  BY <1>2
<1> QED
  BY <1>0, <1>1, <1>2, <1>3, <1>4 DEF TopicTorn, w

\* execBan finds no host if there is nothing, or nothing behind an @.
LEMMA HostIs ==
  ASSUME NEW s \in Texts
  PROVE  Len(AfterAt(s)) < 2 <=> s = <<>> \/ (Has(s, "@") /\ ~Behind(s, "@"))
<1> DEFINE z == <<"*!*", "@">>
           y == z \o s
<1>0. "@" \in Chars /\ "*!*" \in Chars /\ Len(s) \in Nat /\ (s = <<>> <=> Len(s) = 0)
  BY LenProperties, EmptySeq DEF Chars, Texts
<1>1. z \in Texts /\ Len(z) = 2 /\ z[2] = "@"
  BY <1>0, Short
<1> HIDE DEF z
<1>2. y \in Texts /\ Len(y) = 2 + Len(s) /\ y[2] = "@"
  <2>1. /\ y \in Texts /\ Len(y) = Len(z) + Len(s)
        /\ \A i \in 1..Len(z) + Len(s) : y[i] = IF i <= Len(z) THEN z[i] ELSE s[i - Len(z)]
    BY <1>1, ConcatProperties DEF Texts
  <2>2. 2 \in 1..Len(z) + Len(s) /\ 2 <= Len(z)
    BY <1>0, <1>1
  <2>3. y[2] = z[2]
    BY <2>1, <2>2, Zenon
  <2>4. Len(y) = 2 + Len(s)
    BY <1>1, <2>1, Zenon
  <2> QED
    BY <1>1, <2>1, <2>3, <2>4, Zenon
<1>3. y # <<>>
  BY <1>0, <1>2, EmptySeq DEF Texts
<1>4. CASE Has(s, "@")
  <2>1. AfterAt(s) = Split(s, <<"@">>)
    BY <1>4 DEF AfterAt
  <2>2. s # <<>>
    BY <1>0, <1>4 DEF Has
  <2>3. Split(s, <<"@">>) \in Seq(Texts) /\ (Behind(s, "@") <=> Len(Split(s, <<"@">>)) >= 2)
    BY <1>0, <2>2, SplitOne, BehindIs
  <2> QED
    BY <1>4, <2>1, <2>2, <2>3, LenProperties
<1>5. CASE ~Has(s, "@")
  <2>1. AfterAt(s) = Split(y, <<"@">>)
    BY <1>5, Zenon DEF AfterAt, z
  <2> HIDE DEF y
  <2>2. Split(y, <<"@">>) \in Seq(Texts) /\ (Behind(y, "@") <=> Len(Split(y, <<"@">>)) >= 2)
    BY <1>0, <1>2, <1>3, SplitOne, BehindIs
  <2>3. Behind(y, "@") <=> s # <<>>
    <3>1. CASE s = <<>>
      <4>1. \A k \in 1..Len(y) - 1 : k = 1
        BY <1>0, <1>2, <3>1
      <4>2. y[1] = "*!*"
        BY <1>1, <1>2, <3>1, ConcatProperties DEF y, z, Texts
      <4> QED
        BY <3>1, <4>1, <4>2 DEF Behind
    <3>2. CASE s # <<>>
      <4>1. 2 \in 1..Len(y) - 1
        BY <1>0, <1>2, <3>2
      <4> QED
        BY <1>2, <3>2, <4>1 DEF Behind
    <3> QED
      BY <3>1, <3>2
  <2> QED
    BY <1>5, <2>1, <2>2, <2>3, LenProperties
<1> QED
  BY <1>4, <1>5

\* What modeParse makes of the words behind the sign.
LEMMA ParametersType ==
  ASSUME NEW w \in Seq(Texts)
  PROVE  Parameters(w) \in Texts
<1>0. Len(w) \in Nat /\ \A k \in 1..Len(w) : w[k] \in Texts
  BY LenProperties, ElementOfSeq
<1>1. CASE Len(w) < 4
  BY <1>1, Short, Zenon DEF Parameters
<1>2. CASE ~(Len(w) < 4)
  <2> DEFINE x == Trim(w[4])
             y == IF Len(w) = 5 THEN Trim(w[5]) ELSE <<>>
  <2>1. x \in Texts
    <3>1. 4 \in 1..Len(w)
      BY <1>0, <1>2
    <3> QED
      BY <1>0, <3>1, TrimType
  <2>2. y \in Texts
    <3>1. CASE Len(w) = 5
      <4>1. 5 \in 1..Len(w)
        BY <3>1
      <4> QED
        BY <1>0, <3>1, <4>1, TrimType
    <3>2. CASE Len(w) # 5
      BY <3>2, Short
    <3> QED
      BY <3>1, <3>2
  <2>3. Parameters(w) = x \o y
    BY <1>2, Zenon DEF Parameters
  <2> HIDE DEF x, y
  <2>4. x \o y \in Texts
    BY <2>1, <2>2, ConcatProperties DEF Texts
  <2> QED
    BY <2>3, <2>4, Zenon
<1> QED
  BY <1>1, <1>2

\* execBan.
LEMMA BanIs ==
  ASSUME NEW m \in Texts, m # <<>>
  PROVE  BanTorn(m) <=>
           /\ WordCount(m, 3) /\ Words(m)[3] # <<>> /\ Words(m)[3][1] \in {"+b", "-b"}
           /\ LET given == Parameters(Words(m))
              IN IF given = <<>> THEN Words(m)[3][1] = "-b"
                 ELSE Has(given, "@") /\ ~Behind(given, "@")
<1> DEFINE w == Words(m)
           given == Parameters(w)
           x == w[3][1]
<1>1. /\ Len(w) \in Nat /\ w \in Seq(Texts)
      /\ WordCount(m, 3) <=> Len(w) >= 3
  BY WordsAre
<1>2. given \in Texts
  BY <1>1, ParametersType
<1>3. BanTorn(m) <=> /\ Len(w) >= 3 /\ w[3] # <<>> /\ x \in {"+b", "-b"}
                     /\ ~(x = "+b" /\ given = <<>>)
                     /\ Len(AfterAt(given)) < 2
  BY Zenon DEF BanTorn
<1> HIDE DEF w, given, x
<1>4. Len(AfterAt(given)) < 2 <=> given = <<>> \/ (Has(given, "@") /\ ~Behind(given, "@"))
  BY <1>2, HostIs
<1>5. "+b" # "-b"
  OBVIOUS
<1>6. BanTorn(m) <=> /\ WordCount(m, 3) /\ w[3] # <<>> /\ x \in {"+b", "-b"}
                     /\ IF given = <<>> THEN x = "-b" ELSE Has(given, "@") /\ ~Behind(given, "@")
  <2> DEFINE A == WordCount(m, 3)
             B == Len(w) >= 3
             C == Len(AfterAt(given)) < 2
             D == Has(given, "@") /\ ~Behind(given, "@")
  <2>1. (A <=> B) /\ (C <=> given = <<>> \/ D)
    BY <1>1, <1>4
  <2>2. BanTorn(m) <=> B /\ w[3] # <<>> /\ x \in {"+b", "-b"} /\ ~(x = "+b" /\ given = <<>>) /\ C
    BY <1>3, Zenon
  <2> HIDE DEF A, B, C, D
  <2>3. x \in {"+b", "-b"} <=> x = "+b" \/ x = "-b"
    OBVIOUS
  <2>4. BanTorn(m) <=> A /\ w[3] # <<>> /\ x \in {"+b", "-b"}
                         /\ IF given = <<>> THEN x = "-b" ELSE D
    BY <1>5, <2>1, <2>2, <2>3, Zenon
  <2> QED
    BY <2>4 DEF A, D
<1> QED
  BY <1>6, Zenon DEF w, given, x

\* What the commands take that is not there is what MissingWord says.
LEMMA MissingIs ==
  ASSUME NEW m \in Texts, others \in Nat, NEW c, GetCommand(m) = <<c>>
  PROVE  Torn(m, rank, others) <=> MissingWord(m)
<1> DEFINE w == Words(m)
           op == rank = "operator"
           in == rank # "guest"
<1>1. m # <<>> /\ m[1] = c /\ GetCommand(m)[1] = c
  <2>1. m # <<>> /\ m[1] = c
    BY CommandFirst
  <2>2. <<c>>[1] = c
    OBVIOUS
  <2> QED
    BY <2>1, <2>2, Zenon
<1>2. /\ Len(w) \in Nat /\ Len(AfterColon(m)) \in Nat
      /\ WordCount(m, 3) <=> Len(w) >= 3
      /\ WordCount(m, 5) <=> Len(w) >= 5
      /\ Behind(m, ":") <=> Len(AfterColon(m)) >= 2
  BY <1>1, WordsAre
<1>3. UserTorn(m) <=> ~WordCount(m, 5)
  BY <1>2 DEF UserTorn
<1>4. TalkTorn(m) <=> ~WordCount(m, 3)
  BY <1>2 DEF TalkTorn
<1>5. QuitTorn(m, others) <=> others > 1 \/ (others = 1 /\ ~Behind(m, ":"))
  BY <1>1, QuitIs
<1>6. KickTorn(m) <=> Has(m, ":") /\ ~Behind(m, ":")
  BY <1>2 DEF KickTorn
<1>7. ModeTorn(m) <=> WordCount(m, 3) /\ w[3] = <<>>
  BY <1>2 DEF ModeTorn
<1>8. TopicTorn(m) <=> /\ ~Behind(m, ":")
                       /\ WordCount(m, 4) \/ (WordCount(m, 3) /\ Trim(w[3]) # <<>>)
  BY <1>1, TopicIs
<1> DEFINE given == Parameters(w)
           host == IF given = <<>> THEN w[3][1] = "-b" ELSE Has(given, "@") /\ ~Behind(given, "@")
<1>9. BanTorn(m) <=> WordCount(m, 3) /\ w[3] # <<>> /\ w[3][1] \in {"+b", "-b"} /\ host
  BY <1>1, BanIs
<1>10. Torn(m, rank, others) <=>
         \/ c = "USER" /\ UserTorn(m)
         \/ c = "QUIT" /\ QuitTorn(m, others)
         \/ in /\ \/ c \in {"PRIVMSG", "NOTICE"} /\ TalkTorn(m)
                  \/ c = "KICK" /\ KickTorn(m)
                  \/ c = "MODE" /\ ModeTorn(m)
         \/ op /\ \/ c = "TOPIC" /\ TopicTorn(m)
                  \/ c = "MODE" /\ BanTorn(m)
  BY <1>1, Zenon DEF Torn
<1>11. MissingWord(m) <=>
         \/ c \in {"PRIVMSG", "NOTICE"} /\ in /\ ~WordCount(m, 3)
         \/ c = "USER" /\ ~WordCount(m, 5)
         \/ c = "QUIT" /\ (others > 1 \/ (others = 1 /\ ~Behind(m, ":")))
         \/ c = "KICK" /\ in /\ Has(m, ":") /\ ~Behind(m, ":")
         \/ /\ c = "TOPIC" /\ op /\ ~Behind(m, ":")
            /\ WordCount(m, 4) \/ (WordCount(m, 3) /\ Trim(w[3]) # <<>>)
         \/ c = "MODE" /\ in /\ WordCount(m, 3) /\ w[3] = <<>>
         \/ /\ c = "MODE" /\ op /\ WordCount(m, 3)
            /\ w[3] # <<>> /\ w[3][1] \in {"+b", "-b"}
            /\ host
  BY <1>1, Zenon DEF MissingWord
<1> HIDE DEF w, op, in, host
<1> QED
  BY <1>3, <1>4, <1>5, <1>6, <1>7, <1>8, <1>9, <1>10, <1>11, Zenon

\* Pieces are texts.
LEMMA PiecesType ==
  ASSUME NEW m \in Texts
  PROVE  Pieces(m) \in Seq(Texts)
<1> DEFINE w == Split(m, CRLF)
           p == Parts(m, CRLF)
           end == {k \in 1..Len(w) : w[k] = <<>>} \cup {Len(w) + 1}
<1>1. p \in Seq(Texts) /\ Len(p) \in Nat \ {0}
  <2>1. NumberOf(m, CRLF) \in Nat /\ p \in Seq(Texts) /\ Len(p) = NumberOf(m, CRLF) + 1
    BY EndParts
  <2> QED
    BY <2>1
<1>2. w \in Seq(Texts) /\ Len(w) \in Nat
  <2>1. w = IF p[Len(p)] = <<>> THEN SubSeq(p, 1, Len(p) - 1) ELSE p
    BY Zenon DEF Split, Last, Front
  <2>2. Len(p) - 1 \in 0..Len(p)
    BY <1>1
  <2> DEFINE n == Len(p) - 1
  <2> HIDE DEF p, w, n
  <2>3. SubSeq(p, 1, n) \in Seq(Texts)
    BY <1>1, <2>2, Cut DEF n
  <2>4. w \in Seq(Texts)
    BY <1>1, <2>1, <2>3, Zenon DEF n
  <2> QED
    BY <2>4, LenProperties
<1> HIDE DEF w
<1>3. Min(end) - 1 \in 0..Len(w)
  <2>1. end \in SUBSET (1..Len(w) + 1) /\ Len(w) + 1 \in end
    BY <1>2
  <2>2. end \in SUBSET Nat /\ end # {}
    BY <1>2, <2>1
  <2> HIDE DEF end
  <2>3. Min(end) \in end
    BY <2>2, MinProperties
  <2>4. Min(end) \in 1..Len(w) + 1
    BY <2>1, <2>3
  <2> DEFINE n == Min(end)
  <2> HIDE DEF n
  <2>5. n \in 1..Len(w) + 1
    BY <2>4 DEF n
  <2>6. n - 1 \in 0..Len(w)
    BY <1>2, <2>5
  <2> QED
    BY <2>6 DEF n
<1>4. SubSeq(w, 1, Min(end) - 1) \in Seq(Texts)
  <2> DEFINE n == Min(end) - 1
  <2> HIDE DEF n
  <2>1. n \in 0..Len(w)
    BY <1>3 DEF n
  <2>2. SubSeq(w, 1, n) \in Seq(Texts)
    BY <1>2, <2>1, Cut
  <2> QED
    BY <2>2 DEF n
<1>5. Pieces(m) = IF Len(w) = 1 THEN <<m>> ELSE SubSeq(w, 1, Min(end) - 1)
  BY Zenon DEF Pieces, w
<1>6. <<m>> \in Seq(Texts)
  BY FlattenTexts
<1> QED
  BY <1>4, <1>5, <1>6, Zenon

\* What is kept from step to step: the last line that was not refused passed the checks, and was
\* torn if Torn says so.
LastIs ==
  log # <<>> /\ fate # "refused" =>
    /\ Check(Last(log))
    /\ fate = "torn" <=> Torn(Last(log), rank, others)
LInv ==
  /\ input \in Texts /\ read \in 0..Len(input) /\ others \in Nat
  /\ lines \in Seq(Texts) /\ log \in Seq(Texts)
  /\ LastIs

\* Nothing was executed.
LEMMA LastStarts == TextInit => LInv
<1> SUFFICES ASSUME TextInit PROVE LInv
  OBVIOUS
<1>1. TInv
  BY TextStarts
<1>2. lines = <<>> /\ log = <<>>
  BY DEF TextInit
<1>3. others \in Nat
  <2>1. PICK w \in Worlds : others = w[2]
    BY DEF TextInit
  <2>2. w \in {"guest", "member", "operator"} \X Nat
    BY TextConstants
  <2> QED
    BY <2>1, <2>2
<1>4. lines \in Seq(Texts) /\ log \in Seq(Texts)
  BY <1>2
<1> QED
  BY <1>1, <1>2, <1>3, <1>4 DEF LInv, LastIs, TInv

\* Each step keeps it: Read does not touch the log, Execute decides by Torn.
LEMMA LastKept ==
  ASSUME LInv, [TextNext]_textVars
  PROVE  LInv'
<1>0. /\ input \in Texts /\ read \in 0..Len(input) /\ others \in Nat
      /\ lines \in Seq(Texts) /\ log \in Seq(Texts)
      /\ LastIs
  BY DEF LInv
<1>1. CASE Read
  <2>1. PICK n \in 1..Min({BufferSize, Len(input) - read}) :
          /\ lines' = Pieces(SubSeq(input, read + 1, read + n)) /\ read' = read + n
    BY <1>1 DEF Read
  <2>2. UNCHANGED <<input, log, rank, others, fate>>
    BY <1>1 DEF Read
  <2>3. Len(input) \in Nat /\ BufferSize \in Nat
    BY <1>0, LenProperties, TextConstants DEF Texts
  <2>4. n \in Nat /\ read + n \in 0..Len(input)
    <3>1. Min({BufferSize, Len(input) - read}) =
            IF BufferSize <= Len(input) - read THEN BufferSize ELSE Len(input) - read
      BY <1>0, <2>3, MinOfTwo
    <3> QED
      BY <1>0, <2>3, <3>1
  <2>5. SubSeq(input, read + 1, read + n) \in Texts
    <3> DEFINE a == read + 1
               b == read + n
    <3>1. a \in 1..Len(input) + 1 /\ b \in a - 1..Len(input)
      BY <1>0, <2>3, <2>4
    <3> HIDE DEF a, b
    <3>2. SubSeq(input, a, b) \in Texts
      BY <1>0, <3>1, Stretch
    <3> QED
      BY <3>2 DEF a, b
  <2>6. lines' \in Seq(Texts)
    BY <2>1, <2>5, PiecesType, Zenon
  <2>7. LastIs'
    BY <1>0, <2>2 DEF LastIs
  <2> QED
    BY <1>0, <2>1, <2>2, <2>4, <2>6, <2>7 DEF LInv
<1>2. CASE Refused \/ Execute
  <2> DEFINE h == Head(lines)
  <2>1. /\ log' = Append(log, h) /\ lines' = Tail(lines) /\ lines # <<>>
        /\ UNCHANGED <<input, read, rank, others>>
    BY <1>2 DEF Refused, Execute
  <2>2. h \in Texts /\ lines' \in Seq(Texts)
    BY <1>0, <2>1, HeadTailProperties
  <2> HIDE DEF h
  <2>3. log' \in Seq(Texts) /\ Last(log') = h
    <3>1. /\ Append(log, h) \in Seq(Texts) /\ Len(Append(log, h)) = Len(log) + 1
          /\ Append(log, h)[Len(log) + 1] = h
      BY <1>0, <2>2, AppendProperties
    <3> QED
      BY <2>1, <3>1, Zenon DEF Last
  <2>4. LastIs'
    <3>1. CASE Refused
      <4>1. fate' = "refused"
        BY <3>1 DEF Refused
      <4> QED
        BY <4>1 DEF LastIs
    <3>2. CASE Execute
      <4>1. Check(h) /\ fate' = IF Torn(h, rank, others) THEN "torn" ELSE "done"
        BY <3>2 DEF Execute, h
      <4>2. "torn" # "done" /\ rank' = rank /\ others' = others
        BY <2>1
      <4>3. fate' = "torn" <=> Torn(h, rank, others)
        BY <4>1, <4>2, Zenon
      <4> QED
        BY <2>3, <4>1, <4>2, <4>3, Zenon DEF LastIs
    <3> QED
      BY <1>2, <3>1, <3>2
  <2> QED
    BY <1>0, <2>1, <2>2, <2>3, <2>4 DEF LInv
<1>3. CASE UNCHANGED textVars
  BY <1>0, <1>3 DEF textVars, LInv, LastIs
<1> QED
  BY <1>1, <1>2, <1>3 DEF TextNext

\* TornExactly.
THEOREM MissingWordsOnly == TextSpec => []TornExactly
<1>1. LInv => TornExactly
  <2> SUFFICES ASSUME LInv, log # <<>>, fate # "refused"
               PROVE  fate = "torn" <=> MissingWord(Last(log))
    BY DEF TornExactly
  <2> DEFINE m == Last(log)
  <2>1. /\ log \in Seq(Texts) /\ others \in Nat
        /\ Check(m) /\ (fate = "torn" <=> Torn(m, rank, others))
    BY DEF LInv, LastIs
  <2>2. m \in Texts
    <3>1. Len(log) \in 1..Len(log)
      BY <2>1, EmptySeq, LenProperties
    <3> QED
      BY <2>1, <3>1, ElementOfSeq DEF Last
  <2> HIDE DEF m
  <2>3. PICK c \in Commands : GetCommand(m) = <<c>>
    BY <2>1, Zenon DEF Check
  <2>4. Torn(m, rank, others) <=> MissingWord(m)
    BY <2>1, <2>2, <2>3, MissingIs
  <2> QED
    BY <2>1, <2>4, Zenon DEF m
<1> QED
  BY <1>1, LastStarts, LastKept, PTL DEF TextSpec

-----------------------------------------------------------------------------
(* What the checks look at, and CheckedIsParsed *)

\* Where the first space of a text is, and the second.
LEMMA SpacesFound ==
  ASSUME NEW m \in Texts, NEW a \in 1..Len(m), m[a] = Sp, \A k \in 1..a - 1 : m[k] # Sp
  PROVE  /\ NumberOf(m, Space) \in Nat \ {0} /\ Found(m, Space)[1] = a
         /\ \A b \in a + 1..Len(m) :
              m[b] = Sp /\ (\A k \in a + 1..b - 1 : m[k] # Sp)
                => NumberOf(m, Space) >= 2 /\ Found(m, Space)[2] = b
<1> DEFINE f == Found(m, Space)
           n == NumberOf(m, Space)
<1>0. Len(m) \in Nat
  BY LenProperties DEF Texts
<1>1. /\ n \in Nat
      /\ \A j \in 1..n : f[j] \in 1..Len(m) /\ m[f[j]] = Sp
      /\ \A j, k \in 1..n : j < k => f[j] < f[k]
      /\ \A k \in 1..Len(m) : m[k] = Sp => \E j \in 1..n : f[j] = k
  <2>1. Sp \in Chars
    BY Zenon DEF Chars, Sp
  <2>2. n \in Nat /\ \A j \in 1..n : f[j] \in 1..Len(m) /\ m[f[j]] = Sp
    BY <2>1, FoundOne DEF Space
  <2>3. \A j, k \in 1..n : j < k => f[j] < f[k]
    BY <2>1, FoundOne DEF Space
  <2>4. \A k \in 1..Len(m) : m[k] = Sp => \E j \in 1..n : f[j] = k
    BY <2>1, FoundOne DEF Space
  <2> HIDE DEF f, n
  <2> QED
    BY <2>2, <2>3, <2>4
<1> HIDE DEF f, n
<1>2. PICK j \in 1..n : f[j] = a
  BY <1>1
<1>3. 1 \in 1..n
  BY <1>1, <1>2
<1>4. f[1] \in 1..Len(m) /\ f[1] <= a
  <2>1. j = 1 \/ 1 < j
    BY <1>1
  <2> QED
    BY <1>0, <1>1, <1>2, <1>3, <2>1
<1>5. f[1] = a
  <2>1. m[f[1]] = Sp
    BY <1>1, <1>3
  <2>2. ~(f[1] \in 1..a - 1)
    BY <2>1
  <2> QED
    BY <1>0, <1>4, <2>2
<1>6. ASSUME NEW b \in a + 1..Len(m), m[b] = Sp, \A k \in a + 1..b - 1 : m[k] # Sp
      PROVE  n >= 2 /\ f[2] = b
  <2>1. b \in 1..Len(m)
    BY <1>0
  <2>2. PICK h \in 1..n : f[h] = b
    BY <1>1, <1>6, <2>1
  <2>3. h # 1
    BY <1>0, <1>5, <2>2
  <2>4. n >= 2 /\ 2 \in 1..n /\ (h = 2 \/ 2 < h)
    BY <1>1, <2>3
  <2>5. f[2] \in 1..Len(m) /\ m[f[2]] = Sp
    BY <1>1, <2>4
  <2>6. f[1] < f[2]
    BY <1>1, <1>3, <2>4
  <2>7. f[2] <= b
    BY <1>0, <1>1, <2>2, <2>4, <2>5
  <2>8. ~(f[2] \in a + 1..b - 1)
    BY <1>6, <2>5
  <2> QED
    BY <1>0, <1>5, <2>4, <2>5, <2>6, <2>7, <2>8
<1>7. n \in Nat \ {0}
  BY <1>1, <1>3
<1> QED
  BY <1>5, <1>6, <1>7 DEF f, n

\* A word begins with what stands behind the space before it, if that is no space.
LEMMA WordBegins ==
  ASSUME NEW m \in Texts, NEW k \in 1..NumberOf(m, Space) + 1,
         From(m, Space, k) <= Len(m), m[From(m, Space, k)] # Sp
  PROVE  /\ k \in 1..Len(Words(m)) /\ Words(m)[k] \in Texts /\ Words(m)[k] # <<>>
         /\ Words(m)[k][1] = m[From(m, Space, k)]
<1> DEFINE f == Found(m, Space)
           n == NumberOf(m, Space)
           w == Words(m)
           a == From(m, Space, k)
           b == To(m, Space, k)
<1>a. Sp \in Chars
  BY Zenon DEF Chars, Sp
<1>0. Len(m) \in Nat
  BY LenProperties DEF Texts
<1>1. /\ n \in Nat /\ \A j \in 1..n : f[j] \in 1..Len(m) /\ m[f[j]] = Sp
  BY <1>a, FoundOne DEF Space
<1>2. /\ w \in Seq(Texts) /\ Len(w) = IF From(m, Space, n + 1) > Len(m) THEN n ELSE n + 1
      /\ a \in 1..Len(m) + 1 /\ b \in a - 1..Len(m)
      /\ \A j \in 1..Len(w) : w[j] = SubSeq(m, From(m, Space, j), To(m, Space, j))
  BY <1>a, SplitOne DEF Space, Words, Sp
<1>3. k \in 1..n + 1
  OBVIOUS
<1>4. b = IF k = n + 1 THEN Len(m) ELSE f[k] - 1
  BY DEF To
<1>5. a <= Len(m) /\ m[a] # Sp
  OBVIOUS
<1>6. k = n + 1 => From(m, Space, n + 1) = a
  BY Zenon
<1> HIDE DEF f, n, w, a, b
<1>7. a <= b
  <2>1. CASE k = n + 1
    BY <1>4, <1>5, <2>1
  <2>2. CASE k # n + 1
    <3>1. k \in 1..n
      BY <1>1, <1>3, <2>2
    <3>2. f[k] \in 1..Len(m) /\ m[f[k]] = Sp
      BY <1>1, <3>1
    <3>3. f[k] # a
      BY <1>5, <3>2, Zenon
    <3>4. b = f[k] - 1
      BY <1>4, <2>2, Zenon
    <3> QED
      BY <1>0, <1>2, <3>2, <3>3, <3>4
  <2> QED
    BY <2>1, <2>2
<1>8. k \in 1..Len(w)
  <2>1. CASE k = n + 1
    <3>1. Len(w) = n + 1
      BY <1>0, <1>2, <1>5, <1>6, <2>1
    <3> QED
      BY <1>1, <2>1, <3>1
  <2>2. CASE k # n + 1
    <3>1. k \in 1..n
      BY <1>1, <1>3, <2>2
    <3>2. Len(w) \in {n, n + 1}
      BY <1>2
    <3> QED
      BY <1>1, <3>1, <3>2
  <2> QED
    BY <2>1, <2>2
<1>9. w[k] = SubSeq(m, a, b)
  BY <1>2, <1>8 DEF a, b
<1>10. /\ SubSeq(m, a, b) \in Texts /\ Len(SubSeq(m, a, b)) = b - a + 1
       /\ \A i \in 1..b - a + 1 : SubSeq(m, a, b)[i] = m[a + i - 1]
  BY <1>2, Stretch
<1> DEFINE s == SubSeq(m, a, b)
<1> HIDE DEF s
<1>11. s[1] = m[a] /\ Len(s) # 0 /\ s \in Texts
  <2>1. 1 \in 1..b - a + 1 /\ a + 1 - 1 = a /\ b - a + 1 # 0
    BY <1>0, <1>2, <1>7
  <2> QED
    BY <1>10, <2>1 DEF s
<1>12. Len(<<>>) = 0
  OBVIOUS
<1>13. s # <<>>
  BY <1>11, <1>12, Zenon
<1> QED
  BY <1>8, <1>9, <1>11, <1>13, Zenon DEF s, w, a

\* What Parser takes for the second word begins as what follows the space, if that is not blank.
LEMMA FunctionBegins ==
  ASSUME NEW u \in Texts, Len(u) >= 3, u[1] # Sp, u[2] = Sp, u[3] \notin White
  PROVE  Parse(u).function # <<>> /\ Parse(u).function[1] = u[3]
<1> DEFINE w == Words(u)
<1>b. Sp \in White
  BY Zenon DEF White, Sp
<1>0. Len(u) \in Nat /\ u[3] # Sp
  BY <1>b, LenProperties DEF Texts
<1>1. NumberOf(u, Space) \in Nat \ {0} /\ Found(u, Space)[1] = 2
  <2>1. 2 \in 1..Len(u) /\ \A k \in 1..2 - 1 : u[k] # Sp
    BY <1>0
  <2> QED
    BY <2>1, SpacesFound
<1>2. From(u, Space, 2) = 3
  <2>1. Len(Space) = 1
    BY DEF Space
  <2>2. From(u, Space, 2) = Found(u, Space)[2 - 1] + Len(Space)
    BY DEF From
  <2> QED
    BY <1>1, <2>1, <2>2
<1>3. 2 \in 1..Len(w) /\ w[2] \in Texts /\ w[2] # <<>> /\ w[2][1] = u[3]
  <2>1. 2 \in 1..NumberOf(u, Space) + 1
    BY <1>1
  <2>2. From(u, Space, 2) <= Len(u) /\ u[From(u, Space, 2)] # Sp
    BY <1>0, <1>2
  <2> QED
    BY <1>2, <2>1, <2>2, WordBegins
<1>4. Len(w) > 1
  <2>1. w \in Seq(Texts)
    <3>1. Sp \in Chars
      BY Zenon DEF Chars, Sp
    <3> QED
      BY <3>1, SplitOne DEF Words, Sp
  <2>2. Len(w) \in Nat
    BY <2>1, LenProperties
  <2> QED
    BY <1>3, <2>2
<1>5. Parse(u).function = Trim(w[2])
  BY <1>4 DEF Parse
<1> HIDE DEF w
<1>6. PICK b \in 1..Len(w[2]) : Len(Trim(w[2])) = b /\ \A k \in 1..b : Trim(w[2])[k] = w[2][k]
  BY <1>3, TrimFirst
<1>7. Len(w[2]) \in Nat
  BY <1>3, LenProperties DEF Texts
<1>8. 1 \in 1..b /\ b # 0
  BY <1>7
<1>9. Trim(w[2])[1] = u[3]
  BY <1>3, <1>6, <1>8, Zenon
<1>10. Len(<<>>) = 0
  OBVIOUS
<1>11. Trim(w[2]) # <<>>
  BY <1>6, <1>8, <1>10, Zenon
<1> QED
  BY <1>5, <1>9, <1>11, Zenon

\* The words of a text that does not end in a space, with spaces between them, are the text.
LEMMA JoinWords ==
  ASSUME NEW m \in Texts, NEW k \in 1..NumberOf(m, Space) + 1,
         From(m, Space, NumberOf(m, Space) + 1) <= Len(m)
  PROVE  Join(Words(m), k) = SubSeq(m, From(m, Space, k), Len(m))
<1> DEFINE f == Found(m, Space)
           n == NumberOf(m, Space)
           w == Words(m)
           from(j) == From(m, Space, j)
           to(j) == To(m, Space, j)
<1>a. Sp \in Chars
  BY Zenon DEF Chars, Sp
<1>0. Len(m) \in Nat
  BY LenProperties DEF Texts
<1>1. /\ n \in Nat /\ \A j \in 1..n : f[j] \in 1..Len(m) /\ m[f[j]] = Sp
  BY <1>a, FoundOne DEF Space
<1>2. /\ w \in Seq(Texts) /\ Len(w) = IF from(n + 1) > Len(m) THEN n ELSE n + 1
      /\ \A j \in 1..n + 1 : from(j) \in 1..Len(m) + 1 /\ to(j) \in from(j) - 1..Len(m)
      /\ \A j \in 1..Len(w) : w[j] = SubSeq(m, from(j), to(j))
  BY <1>a, SplitOne DEF Space, Words, Sp
<1>3. k \in 1..n + 1 /\ from(n + 1) <= Len(m)
  OBVIOUS
<1>4. to(n + 1) = Len(m)
  BY DEF To
<1>5. \A j \in 1..n : to(j) = f[j] - 1 /\ from(j + 1) = f[j] + 1
  <2> SUFFICES ASSUME NEW j \in 1..n PROVE to(j) = f[j] - 1 /\ from(j + 1) = f[j] + 1
    OBVIOUS
  <2>1. Len(Space) = 1
    BY DEF Space
  <2>2. j # n + 1 /\ j + 1 # 1 /\ j + 1 - 1 = j
    BY <1>1
  <2> DEFINE i == j + 1
  <2>3. i # 1 /\ i - 1 = j
    BY <2>2
  <2> HIDE DEF n, i, f
  <2>4. to(j) = f[j] - 1
    BY <2>2, Zenon DEF To, n, f
  <2>5. from(i) = f[i - 1] + Len(Space)
    BY <2>3, Zenon DEF From, f
  <2>6. from(i) = f[j] + 1
    BY <2>1, <2>3, <2>5, Zenon
  <2> QED
    BY <2>4, <2>6 DEF i
<1> HIDE DEF f, n, w, from, to
<1>6. Len(w) = n + 1
  <2>1. from(n + 1) \in 1..Len(m) + 1
    <3>1. n + 1 \in 1..n + 1
      BY <1>1
    <3> QED
      BY <1>2, <3>1
  <2> QED
    BY <1>0, <1>2, <1>3, <2>1
<1>7. PICK q \in Seq(Texts) : /\ Join(w, k) = FlattenSeq(q) /\ Len(q) = n + 1 - k + 1
                              /\ q[1] = w[k]
                              /\ \A i \in 2..Len(q) : q[i] = Space \o w[i + k - 1]
  <2>1. k \in Nat \ {0} /\ k <= Len(w)
    BY <1>1, <1>3, <1>6
  <2>2. PICK q \in Seq(Texts) : /\ Join(w, k) = FlattenSeq(q) /\ Len(q) = Len(w) - k + 1
                                /\ q[1] = w[k]
                                /\ \A i \in 2..Len(q) : q[i] = <<" ">> \o w[i + k - 1]
    BY <1>2, <2>1, JoinShape
  <2>3. Space = <<" ">>
    BY Zenon DEF Space, Sp
  <2>4. \A i \in 2..Len(q) : q[i] = Space \o w[i + k - 1]
    BY <2>2, <2>3, Zenon
  <2>5. Len(q) = n + 1 - k + 1
    <3>1. Len(q) = Len(w) - k + 1
      BY <2>2, Zenon
    <3> QED
      BY <1>1, <1>3, <1>6, <3>1
  <2> QED
    BY <2>2, <2>4, <2>5, Zenon
<1> DEFINE g == [j \in 0..Len(q) |-> IF j = 0 THEN <<>> ELSE SubSeq(m, from(k), to(j + k - 1))]
<1>8. g[0] = <<>> /\ \A j \in 1..Len(q) : g[j] = SubSeq(m, from(k), to(j + k - 1))
  <2>1. Len(q) \in Nat
    BY LenProperties
  <2>2. 0 \in 0..Len(q) /\ \A j \in 1..Len(q) : j \in 0..Len(q) /\ j # 0
    BY <2>1
  <2>3. \A j \in 0..Len(q) : g[j] = IF j = 0 THEN <<>> ELSE SubSeq(m, from(k), to(j + k - 1))
    BY Zenon
  <2> HIDE DEF g
  <2> QED
    BY <2>2, <2>3, Zenon
<1> HIDE DEF g
<1>9. from(k) \in 1..Len(m) + 1
  BY <1>2, <1>3
<1>10. ASSUME NEW j \in 1..Len(q) PROVE g[j] = g[j - 1] \o q[j]
  <2>1. CASE j = 1
    <3>1. g[j - 1] = <<>>
      BY <1>8, <2>1
    <3>2. g[j] = SubSeq(m, from(k), to(k)) /\ k \in 1..Len(w)
      <4>1. 1 + k - 1 = k /\ k \in 1..Len(w)
        BY <1>1, <1>3, <1>6
      <4> QED
        BY <1>8, <2>1, <4>1
    <3>3. q[j] = SubSeq(m, from(k), to(k))
      BY <1>2, <1>7, <2>1, <3>2, Zenon
    <3>4. q[j] \in Texts
      BY ElementOfSeq
    <3>5. <<>> \o q[j] = q[j]
      BY <3>4, ConcatEmptySeq DEF Texts
    <3> QED
      BY <3>1, <3>2, <3>3, <3>5, Zenon
  <2>2. CASE j # 1
    <3> DEFINE x == j + k - 1
               y == j - 1 + k - 1
               s == f[y]
               e == to(x)
    <3>1. /\ j \in 2..Len(q) /\ j - 1 \in 1..Len(q) /\ x \in 1..n + 1 /\ y \in 1..n
          /\ y + 1 = x /\ k <= y
      <4>1. Len(q) = n + 1 - k + 1 /\ Len(q) \in Nat
        BY <1>7, LenProperties
      <4> QED
        BY <1>1, <1>3, <2>2, <4>1
    <3> HIDE DEF x, y
    <3>2. g[j - 1] = SubSeq(m, from(k), s - 1) /\ g[j] = SubSeq(m, from(k), e)
      <4>1. g[j] = SubSeq(m, from(k), to(x))
        BY <1>8 DEF x
      <4>2. g[j - 1] = SubSeq(m, from(k), to(y))
        BY <1>8, <3>1 DEF y
      <4>3. to(y) = f[y] - 1
        BY <1>5, <3>1
      <4> QED
        BY <4>1, <4>2, <4>3, Zenon
    <3>3. s \in 1..Len(m) /\ m[s] = Sp /\ from(x) = s + 1
      <4>1. from(y + 1) = f[y] + 1
        BY <1>5, <3>1
      <4> QED
        BY <1>1, <3>1, <4>1
    <3>4. e \in s..Len(m)
      <4>1. e \in from(x) - 1..Len(m)
        BY <1>2, <3>1
      <4> HIDE DEF e
      <4>2. s + 1 - 1 = s
        BY <1>0, <3>3
      <4> QED
        BY <3>3, <4>1, <4>2
    <3>5. q[j] = Space \o SubSeq(m, s + 1, e)
      <4>1. q[j] = Space \o w[x]
        BY <1>7, <3>1 DEF x
      <4>2. w[x] = SubSeq(m, from(x), to(x))
        BY <1>2, <1>6, <3>1
      <4> QED
        BY <3>3, <4>1, <4>2, Zenon
    <3> HIDE DEF s, e
    <3>6. SubSeq(m, s, s) = Space
      <4>1. s \in 1..Len(m) + 1 /\ s \in s - 1..Len(m) /\ s - s + 1 = 1 /\ s + 1 - 1 = s
        BY <1>0, <3>3
      <4>2. /\ SubSeq(m, s, s) \in Texts /\ Len(SubSeq(m, s, s)) = 1
            /\ \A i \in 1..1 : SubSeq(m, s, s)[i] = m[s + i - 1]
        BY <4>1, Stretch
      <4>3. Space \in Texts /\ Len(Space) = 1 /\ Space[1] = Sp
        BY <1>a, Short DEF Space
      <4>4. \A i \in 1..1 : SubSeq(m, s, s)[i] = Space[i]
        <5>1. \A i \in 1..1 : i = 1
          OBVIOUS
        <5>2. SubSeq(m, s, s)[1] = m[s]
          BY <4>1, <4>2
        <5> QED
          BY <3>3, <4>3, <5>1, <5>2, Zenon
      <4> QED
        BY <4>2, <4>3, <4>4, SeqEqual DEF Texts
    <3>7. SubSeq(m, s, s) \o SubSeq(m, s + 1, e) = SubSeq(m, s, e)
      <4>1. s \in 1..Len(m) + 1 /\ s \in s - 1..Len(m)
        BY <1>0, <3>3
      <4> QED
        BY <3>4, <4>1, ConcatAdjacentSubSeq DEF Texts
    <3>8. SubSeq(m, from(k), s - 1) \o SubSeq(m, s, e) = SubSeq(m, from(k), e)
      <4> DEFINE r == s - 1
      <4>1. from(k) <= s
        <5>1. k = y \/ k < y
          BY <3>1
        <5>2. CASE k = y
          <6>1. y \in 1..n + 1
            BY <1>1, <3>1
          <6>2. to(y) \in from(y) - 1..Len(m) /\ from(y) \in 1..Len(m) + 1 /\ to(y) = f[y] - 1
            BY <1>2, <1>5, <3>1, <6>1
          <6> QED
            BY <1>0, <3>3, <5>2, <6>2 DEF s
        <5>3. CASE k < y
          <6>1. k \in 1..n
            BY <1>1, <1>3, <3>1, <5>3
          <6>2. f[k] \in 1..Len(m) /\ f[k] < f[y] /\ from(k) \in 1..Len(m) + 1
            <7>1. \A h, i \in 1..n : h < i => f[h] < f[i]
              BY <1>a, FoundOne DEF f, n, Space
            <7> QED
              BY <1>1, <1>9, <3>1, <5>3, <6>1, <7>1
          <6>3. to(k) \in from(k) - 1..Len(m) /\ to(k) = f[k] - 1
            BY <1>2, <1>3, <1>5, <6>1
          <6> QED
            BY <1>0, <3>3, <6>2, <6>3 DEF s
        <5> QED
          BY <5>1, <5>2, <5>3
      <4>2. r \in from(k) - 1..Len(m) /\ e \in r..Len(m) /\ r + 1 = s
        BY <1>0, <1>9, <3>3, <3>4, <4>1
      <4> HIDE DEF r
      <4>3. SubSeq(m, from(k), r) \o SubSeq(m, r + 1, e) = SubSeq(m, from(k), e)
        BY <1>9, <4>2, ConcatAdjacentSubSeq DEF Texts
      <4> QED
        BY <4>2, <4>3 DEF r
    <3> QED
      BY <3>2, <3>5, <3>6, <3>7, <3>8, Zenon
  <2> QED
    BY <2>1, <2>2
<1>11. Joins(q, g)
  BY <1>8, <1>10 DEF Joins
<1>12. FlattenSeq(q) = g[Len(q)]
  BY <1>11, FlattenIs DEF Texts
<1>13. g[Len(q)] = SubSeq(m, from(k), Len(m))
  <2>1. Len(q) \in 1..Len(q) /\ Len(q) + k - 1 = n + 1
    BY <1>1, <1>3, <1>7
  <2> QED
    BY <1>4, <1>8, <2>1
<1> QED
  BY <1>7, <1>12, <1>13, Zenon DEF w, from

\* What the checks look at.
Format(m) == Trim(Join(Words(Trim(m)), 2))

\* No command is blank.
LEMMA CommandsAreBlack == \A c \in Commands : c \notin White /\ c # Sp /\ c # ":"
BY Zenon DEF Commands, White, Sp

\* It is what stands behind the command and a space, up to the last token that is not blank.
LEMMA FormatIs ==
  ASSUME NEW m \in Texts, NEW c \in Commands, GetCommand(m) = <<c>>, Has(Trim(m), Sp),
         m[3] \notin White
  PROVE  /\ m[1] = c /\ c # Sp /\ m[2] = Sp
         /\ \E e \in 3..Len(m) : /\ Format(m) \in Texts /\ Len(Format(m)) = e - 2
                                 /\ \A i \in 1..e - 2 : Format(m)[i] = m[i + 2]
<1> DEFINE t == Trim(m)
           n == NumberOf(t, Space)
<1>1. m # <<>> /\ m[1] = c /\ (Len(m) = 1 \/ m[2] = Sp) /\ Len(m) \in Nat
  BY CommandFirst
<1>2. c \notin White /\ c # Sp /\ Sp \in White
  <2>1. Sp \in White
    BY Zenon DEF Sp, White
  <2> QED
    BY <2>1, CommandsAreBlack
<1>3. PICK e \in 1..Len(m) : /\ t = SubSeq(m, 1, e) /\ Len(t) = e
                             /\ m[e] \notin White
                             /\ \A k \in e + 1..Len(m) : m[k] \in White
                             /\ \A k \in 1..e : t[k] = m[k]
  BY <1>1, <1>2, TrimFirst
<1>4. t \in Texts
  BY TrimType
<1>5. PICK k \in 1..Len(t) : t[k] = Sp
  BY DEF Has
<1> HIDE DEF t
<1>6. e \in 3..Len(m) /\ m[2] = Sp
  <2>1. k \in 1..e /\ m[k] = Sp
    BY <1>3, <1>5
  <2>2. k # 1 /\ k # e
    BY <1>1, <1>2, <1>3, <2>1, Zenon
  <2>3. e >= 3
    BY <2>1, <2>2
  <2>4. Len(m) # 1
    BY <1>1, <2>3
  <2> QED
    BY <1>1, <2>3, <2>4
<1>7. t[1] = c /\ t[2] = Sp /\ t[3] = m[3] /\ t[e] = m[e]
  <2>1. 1 \in 1..e /\ 2 \in 1..e /\ 3 \in 1..e /\ e \in 1..e
    BY <1>6
  <2> QED
    BY <1>1, <1>3, <1>6, <2>1
<1>8. n \in Nat \ {0} /\ Found(t, Space)[1] = 2
  <2>1. 2 \in 1..Len(t) /\ \A i \in 1..2 - 1 : t[i] # Sp
    BY <1>2, <1>3, <1>6, <1>7
  <2> QED
    BY <1>4, <1>7, <2>1, SpacesFound
<1>9. \A j \in 1..n : Found(t, Space)[j] \in 1..Len(t) /\ t[Found(t, Space)[j]] = Sp
  <2>1. Sp \in Chars
    BY Zenon DEF Chars, Sp
  <2> QED
    BY <1>4, <2>1, FoundOne DEF Space
<1> HIDE DEF n
<1>a. Len(Space) = 1
  BY DEF Space
<1>10. From(t, Space, 2) = 3 /\ 2 \in 1..n + 1
  <2>1. From(t, Space, 2) = Found(t, Space)[2 - 1] + Len(Space)
    BY DEF From
  <2> QED
    BY <1>8, <1>a, <2>1
<1>11. From(t, Space, n + 1) <= Len(t)
  <2> DEFINE x == n + 1
             f == Found(t, Space)
  <2>1. x # 1 /\ x - 1 = n /\ n \in 1..n
    BY <1>8
  <2> HIDE DEF x
  <2>2. From(t, Space, x) = f[x - 1] + Len(Space)
    BY <2>1 DEF From
  <2>3. f[n] \in 1..Len(t) /\ t[f[n]] = Sp
    BY <1>9, <2>1, Zenon
  <2> HIDE DEF f
  <2>4. From(t, Space, x) = f[n] + 1
    BY <1>a, <2>1, <2>2, Zenon
  <2>5. f[n] # e
    BY <1>2, <1>3, <1>7, <2>3, Zenon
  <2> QED
    BY <1>3, <1>6, <2>3, <2>4, <2>5 DEF x
<1> DEFINE s == SubSeq(t, 3, e)
<1>12. Join(Words(t), 2) = s
  <2>1. Join(Words(t), 2) = SubSeq(t, From(t, Space, 2), Len(t))
    BY <1>4, <1>10, <1>11, JoinWords DEF n
  <2> QED
    BY <1>3, <1>10, <2>1, Zenon
<1>13. s \in Texts /\ Len(s) = e - 2 /\ \A i \in 1..e - 2 : s[i] = t[i + 2]
  <2>1. 3 \in 1..Len(t) + 1 /\ e \in 3 - 1..Len(t) /\ e - 3 + 1 = e - 2 /\ e \in Int
    BY <1>3, <1>6
  <2>2. \A i \in 1..e - 2 : 3 + i - 1 = i + 2
    BY <2>1
  <2>3. s \in Texts /\ Len(s) = e - 3 + 1 /\ \A i \in 1..e - 3 + 1 : s[i] = t[3 + i - 1]
    BY <1>4, <2>1, Stretch
  <2> HIDE DEF s
  <2> QED
    BY <2>1, <2>2, <2>3
<1> HIDE DEF s
<1>14. /\ 1 \in 1..e - 2 /\ e - 2 \in 1..e - 2 /\ 1 + 2 = 3 /\ (e - 2) + 2 = e
       /\ \A i \in 1..e - 2 : i + 2 \in 1..e
  BY <1>6
<1>15. s[1] \notin White /\ s[e - 2] \notin White
  <2>1. s[1] = t[1 + 2] /\ s[e - 2] = t[e - 2 + 2]
    BY <1>13, <1>14, Zenon
  <2>2. s[1] = m[3] /\ s[e - 2] = m[e]
    BY <1>7, <1>14, <2>1, Zenon
  <2> QED
    BY <1>3, <2>2, Zenon
<1>16. s # <<>>
  BY <1>6, <1>13, EmptySeq DEF Texts
<1>17. PICK b \in 1..Len(s) : /\ Len(Trim(s)) = b
                              /\ \A i \in b + 1..Len(s) : s[i] \in White
                              /\ \A i \in 1..b : Trim(s)[i] = s[i]
  BY <1>13, <1>15, <1>16, TrimFirst
<1>18. b = e - 2
  <2> SUFFICES ASSUME b # e - 2 PROVE FALSE
    OBVIOUS
  <2>1. e - 2 \in b + 1..Len(s)
    BY <1>6, <1>13
  <2> QED
    BY <1>15, <1>17, <2>1, Zenon
<1>19. Format(m) = Trim(s)
  BY <1>12, Zenon DEF Format, t
<1>20. Format(m) \in Texts /\ Len(Format(m)) = e - 2
  BY <1>13, <1>17, <1>18, <1>19, TrimType
<1>21. \A i \in 1..e - 2 : Format(m)[i] = m[i + 2]
  <2> SUFFICES ASSUME NEW i \in 1..e - 2 PROVE Format(m)[i] = m[i + 2]
    OBVIOUS
  <2>1. Trim(s)[i] = s[i]
    BY <1>17, <1>18, Zenon
  <2>2. s[i] = t[i + 2]
    BY <1>13, Zenon
  <2>3. t[i + 2] = m[i + 2]
    BY <1>3, <1>14, Zenon
  <2> QED
    BY <1>19, <2>1, <2>2, <2>3, Zenon
<1> QED
  BY <1>1, <1>2, <1>6, <1>20, <1>21

\* What check asks of it.
LEMMA CheckAsks ==
  ASSUME NEW m, Check(m)
  PROVE  \E c \in Commands :
           /\ GetCommand(m) = <<c>> /\ Has(Trim(m), Sp)
           /\ c \in {"WHO", "MODE", "JOIN"} => IsChannel(Format(m))
           /\ c \in {"TOPIC", "KICK", "PART"} => IsChannel(BeforeSpace(Format(m)))
           /\ c \in {"NICK", "INVITE"} => ~IsChannel(Format(m))
           /\ c = "INVITE" => Has(Format(m), Sp) /\ IsChannel(AfterSpace(Format(m)))
<1>1. PICK c \in Commands : GetCommand(m) = <<c>>
  BY Zenon DEF Check
<1>2. Has(Trim(m), Sp)
  BY Zenon DEF Check, Sp
<1>3. /\ c = "WHO" => CheckOnlyChannel(Format(m))
      /\ c = "NICK" => CheckOnlyNickName(Format(m))
      /\ c = "INVITE" => CheckOnlyNickAndChannelName(Format(m))
      /\ c \in {"TOPIC", "KICK", "PART"} => CheckOnlyChannelAndMessage(Format(m))
      /\ c = "MODE" => CheckOnlyMode(Format(m))
      /\ c = "JOIN" => IsChannel(Format(m))
  BY <1>1, Zenon DEF Check, Format
<1> QED
  BY <1>1, <1>2, <1>3, Zenon DEF CheckOnlyChannel, CheckOnlyNickName, CheckOnlyNickAndChannelName,
     CheckOnlyChannelAndMessage, CheckOnlyMode, Sp

\* A text that precedes the first space of another begins as that one.
LEMMA BeforeBegins ==
  ASSUME NEW s \in Texts, IsChannel(BeforeSpace(s))
  PROVE  IsChannel(s)
<1> DEFINE n == NumberOf(s, Space)
           b == IF n = 0 THEN Len(s) ELSE Found(s, Space)[1] - 1
<1>1. Len(s) \in Nat /\ b \in 0..Len(s) /\ BeforeSpace(s) = SubSeq(s, 1, b)
  BY BeforeIs
<1> HIDE DEF b
<1>2. SubSeq(s, 1, b) # <<>> /\ SubSeq(s, 1, b)[1] = "#c"
  BY <1>1, Zenon DEF IsChannel, StartsWith
<1>3. /\ SubSeq(s, 1, b) \in Texts /\ Len(SubSeq(s, 1, b)) = b
      /\ \A i \in 1..b : SubSeq(s, 1, b)[i] = s[i]
  BY <1>1, Cut DEF Texts
<1>4. b # 0
  BY <1>2, <1>3, EmptySeq DEF Texts
<1>5. 1 \in 1..b /\ Len(s) # 0
  BY <1>1, <1>4
<1>6. s[1] = "#c"
  BY <1>2, <1>3, <1>5, Zenon
<1>7. s # <<>>
  BY <1>5, EmptySeq DEF Texts
<1> QED
  BY <1>6, <1>7, Zenon DEF IsChannel, StartsWith

\* A channel's name is neither blank nor a colon.
LEMMA ChannelsAreBlack == "#c" \notin White /\ "#c" # Sp /\ "#c" # ":"
BY Zenon DEF White, Sp

\* execInvite: what Parser takes for the third word is what stands behind the second space.
LEMMA ValueBegins ==
  ASSUME NEW m \in Texts, m[1] # Sp, m[2] = Sp,
         NEW s \in Texts, NEW e \in 3..Len(m), Len(s) = e - 2,
         \A i \in 1..e - 2 : s[i] = m[i + 2],
         Has(s, Sp), IsChannel(AfterSpace(s))
  PROVE  IsChannel(Parse(m).value)
<1> DEFINE h == NumberOf(s, Space)
           b == IF h = 0 THEN Len(s) ELSE Found(s, Space)[1] - 1
<1>0. Len(m) \in Nat /\ e \in Int
  BY LenProperties DEF Texts
<1>1. /\ Len(s) \in Nat /\ b \in 0..Len(s)
      /\ BeforeSpace(s) = SubSeq(s, 1, b)
      /\ h # 0 => b + 1 \in 1..Len(s) /\ s[b + 1] = Sp
      /\ \A k \in 1..b : s[k] # Sp
  BY BeforeIs
<1>2. h = 0 => b = Len(s)
  OBVIOUS
<1> HIDE DEF h, b
<1>3. b + 1 \in 1..Len(s) /\ s[b + 1] = Sp
  <2>1. PICK k \in 1..Len(s) : s[k] = Sp
    BY DEF Has
  <2>2. h # 0
    BY <1>1, <1>2, <2>1, Zenon
  <2> QED
    BY <1>1, <2>2
<1>4. b + 2 <= Len(s) /\ s[b + 2] = "#c"
  <2> DEFINE a == b + 2
             r == SubSeq(s, a, Len(s))
  <2>1. Len(BeforeSpace(s)) = b
    <3>1. Len(SubSeq(s, 1, b)) = b
      BY <1>1, Cut DEF Texts
    <3> QED
      BY <1>1, <3>1
  <2>2. AfterSpace(s) = r
    BY <2>1, Zenon DEF AfterSpace
  <2>3. a \in 1..Len(s) + 1 /\ Len(s) \in a - 1..Len(s) /\ a + 1 - 1 = a
    BY <1>1, <1>3
  <2>4. r # <<>> /\ r[1] = "#c"
    BY <2>2, Zenon DEF IsChannel, StartsWith
  <2> HIDE DEF a
  <2>5. /\ r \in Texts /\ Len(r) = Len(s) - a + 1
        /\ \A i \in 1..Len(s) - a + 1 : r[i] = s[a + i - 1]
    BY <2>3, Stretch
  <2> HIDE DEF r
  <2>6. Len(r) # 0
    BY <2>4, <2>5, EmptySeq DEF Texts
  <2>7. 1 \in 1..Len(s) - a + 1 /\ a <= Len(s)
    BY <1>1, <2>3, <2>5, <2>6
  <2>8. s[a] = "#c"
    BY <2>3, <2>4, <2>5, <2>7, Zenon
  <2> QED
    BY <2>7, <2>8 DEF a
<1> DEFINE d == b + 3
           n == NumberOf(m, Space)
           w == Words(m)
<1>5. d \in 3..Len(m) /\ d + 1 \in 1..Len(m) /\ m[d] = Sp /\ m[d + 1] = "#c"
  <2>1. b + 1 \in 1..e - 2 /\ b + 2 \in 1..e - 2 /\ b + 1 + 2 = d /\ b + 2 + 2 = d + 1
    BY <1>0, <1>1, <1>3, <1>4
  <2>2. s[b + 1] = m[b + 1 + 2] /\ s[b + 2] = m[b + 2 + 2]
    BY <2>1, Zenon
  <2>3. d \in 3..Len(m) /\ d + 1 \in 1..Len(m)
    BY <1>0, <1>1, <2>1
  <2> QED
    BY <1>3, <1>4, <2>1, <2>2, <2>3, Zenon
<1>6. \A k \in 2 + 1..d - 1 : m[k] # Sp
  <2> SUFFICES ASSUME NEW k \in 2 + 1..d - 1 PROVE m[k] # Sp
    OBVIOUS
  <2> DEFINE i == k - 2
  <2>1. i \in 1..b /\ i \in 1..e - 2 /\ i + 2 = k
    BY <1>0, <1>1, <1>3
  <2> HIDE DEF i
  <2> QED
    BY <1>1, <2>1, Zenon
<1> HIDE DEF d
<1>7. n >= 2 /\ n \in Nat /\ Found(m, Space)[2] = d
  <2>1. 2 \in 1..Len(m) /\ \A k \in 1..2 - 1 : m[k] # Sp
    BY <1>0
  <2>2. /\ n \in Nat \ {0}
        /\ \A x \in 2 + 1..Len(m) :
             m[x] = Sp /\ (\A k \in 2 + 1..x - 1 : m[k] # Sp)
               => n >= 2 /\ Found(m, Space)[2] = x
    BY <2>1, SpacesFound
  <2>3. d \in 2 + 1..Len(m)
    BY <1>5
  <2> HIDE DEF n
  <2>4. n >= 2 /\ Found(m, Space)[2] = d
    BY <1>5, <1>6, <2>2, <2>3, Zenon
  <2> QED
    BY <2>2, <2>4
<1>8. From(m, Space, 3) = d + 1 /\ 3 \in 1..n + 1
  <2>1. Len(Space) = 1
    BY DEF Space
  <2>2. From(m, Space, 3) = Found(m, Space)[3 - 1] + Len(Space)
    BY DEF From
  <2> HIDE DEF n
  <2> QED
    BY <1>5, <1>7, <2>1, <2>2
<1>9. 3 \in 1..Len(w) /\ w[3] \in Texts /\ w[3] # <<>> /\ w[3][1] = "#c"
  <2>1. From(m, Space, 3) <= Len(m) /\ m[From(m, Space, 3)] = "#c"
    BY <1>0, <1>5, <1>8
  <2>2. m[From(m, Space, 3)] # Sp
    BY <2>1, ChannelsAreBlack, Zenon
  <2> QED
    BY <1>8, <2>1, <2>2, WordBegins
<1> DEFINE v == [i \in 1..Len(w) |-> Trim(w[i])]
<1>10. Parse(m).value = Join(v, 3)
  BY DEF Parse
<1>11. w \in Seq(Texts) /\ Len(w) \in Nat /\ \A i \in 1..Len(w) : w[i] \in Texts
  <2>1. Sp \in Chars
    BY Zenon DEF Sp, Chars
  <2>2. w \in Seq(Texts)
    BY <2>1, SplitOne DEF Words, Sp
  <2> HIDE DEF w
  <2> QED
    BY <2>2, LenProperties, ElementOfSeq
<1> HIDE DEF w
<1>12. v \in Seq(Texts) /\ Len(v) = Len(w) /\ v[3] = Trim(w[3])
  <2>1. \A i \in 1..Len(w) : Trim(w[i]) \in Texts
    BY <1>11, TrimType
  <2> QED
    BY <1>9, <1>11, <2>1
<1>13. v[3] \in Texts /\ v[3] # <<>> /\ v[3][1] = "#c"
  <2>1. PICK x \in 1..Len(w[3]) : /\ Len(Trim(w[3])) = x
                                  /\ \A i \in 1..x : Trim(w[3])[i] = w[3][i]
    BY <1>9, ChannelsAreBlack, TrimFirst
  <2>2. 1 \in 1..x /\ x # 0
    <3>1. Len(w[3]) \in Nat
      BY <1>9, LenProperties DEF Texts
    <3> QED
      BY <3>1
  <2>3. Trim(w[3]) \in Texts
    BY <1>9, TrimType
  <2>4. Trim(w[3])[1] = "#c"
    BY <1>9, <2>1, <2>2, Zenon
  <2>5. Trim(w[3]) # <<>>
    BY <2>1, <2>2, <2>3, EmptySeq DEF Texts
  <2> QED
    BY <1>12, <2>3, <2>4, <2>5, Zenon
<1> HIDE DEF v
<1>14. PICK q \in Seq(Texts) : /\ Join(v, 3) = FlattenSeq(q) /\ Len(q) = Len(v) - 3 + 1
                               /\ q[1] = v[3]
  <2>1. 3 <= Len(v)
    BY <1>9, <1>11, <1>12
  <2>2. 3 \in Nat \ {0} /\ v \in Seq(Texts)
    BY <1>12
  <2>3. \E q \in Seq(Texts) :
          /\ Join(v, 3) = FlattenSeq(q) /\ Len(q) = Len(v) - 3 + 1
          /\ q[1] = v[3]
          /\ \A i \in 2..Len(q) : q[i] = <<" ">> \o v[i + 3 - 1]
    BY <2>1, <2>2, JoinShape, Zenon
  <2> QED
    BY <2>3, Zenon
<1>15. PICK r \in Texts : FlattenSeq(q) = q[1] \o r
  <2>1. Len(q) # 0
    BY <1>9, <1>11, <1>12, <1>14
  <2>2. q # <<>>
    BY <2>1, EmptySeq
  <2> QED
    BY <2>2, FlattenFirst
<1> DEFINE y == v[3] \o r
<1>16. y # <<>> /\ y[1] = "#c"
  <2>1. y # <<>>
    BY <1>13, NoneWithPart
  <2>2. 1 \in 1..Len(v[3]) + Len(r) /\ 1 <= Len(v[3])
    <3>1. Len(v[3]) \in Nat \ {0} /\ Len(r) \in Nat
      BY <1>13, EmptySeq, LenProperties DEF Texts
    <3> QED
      BY <3>1
  <2>3. \A i \in 1..Len(v[3]) + Len(r) : y[i] = IF i <= Len(v[3]) THEN v[3][i] ELSE r[i - Len(v[3])]
    BY <1>13, ConcatProperties DEF Texts
  <2>4. y[1] = v[3][1]
    BY <2>2, <2>3, Zenon
  <2> QED
    BY <1>13, <2>1, <2>4, Zenon
<1>17. Parse(m).value = y
  BY <1>10, <1>14, <1>15, Zenon
<1> QED
  BY <1>16, <1>17, Zenon DEF IsChannel, StartsWith

\* execKick: what precedes the colon has the same second word.
LEMMA KickBegins ==
  ASSUME NEW m \in Texts, Len(m) >= 3, m[1] \notin White, m[1] # Sp, m[1] # ":", m[2] = Sp,
         m[3] = "#c"
  PROVE  IsChannel(KickParse(m).function)
<1>0. Len(m) \in Nat /\ m[3] \notin White /\ m[3] # ":"
  BY LenProperties, ChannelsAreBlack DEF Texts
<1>1. CASE ~Has(m, ":")
  <2>1. KickParse(m) = Parse(m)
    BY <1>1 DEF KickParse
  <2>2. Parse(m).function # <<>> /\ Parse(m).function[1] = m[3]
    BY <1>0, FunctionBegins
  <2> QED
    BY <2>1, <2>2, Zenon DEF IsChannel, StartsWith
<1>2. CASE Has(m, ":")
  <2> DEFINE d == <<":">>
             n == NumberOf(m, d)
             f == Found(m, d)
             w == AfterColon(m)
             b == To(m, d, 1)
  <2>0. ":" \in Chars
    BY DEF Chars
  <2>1. PICK k \in 1..Len(m) : m[k] = ":"
    BY <1>2 DEF Has
  <2>2. /\ n \in Nat
        /\ \A j \in 1..n : f[j] \in 1..Len(m) /\ m[f[j]] = ":"
        /\ \A i \in 1..Len(m) : m[i] = ":" => \E j \in 1..n : f[j] = i
    BY <2>0, FoundOne
  <2>3. /\ Len(w) \in {n, n + 1}
        /\ \A i \in 1..n + 1 : To(m, d, i) \in From(m, d, i) - 1..Len(m)
        /\ \A i \in 1..Len(w) : w[i] = SubSeq(m, From(m, d, i), To(m, d, i))
    BY <2>0, SplitOne DEF AfterColon
  <2>4. n >= 1 /\ 1 \in 1..n /\ 1 \in 1..n + 1 /\ 1 \in 1..Len(w)
    <3> HIDE DEF n, f, w
    <3>1. PICK j \in 1..n : f[j] = k
      BY <2>1, <2>2
    <3> QED
      BY <2>2, <2>3, <3>1
  <2>5. b = f[1] - 1 /\ From(m, d, 1) = 1
    <3> HIDE DEF d, n, f
    <3>1. 1 # n + 1
      BY <2>2, <2>4
    <3> QED
      BY <3>1, Zenon DEF To, From, n, f
  <2> HIDE DEF d, n, f, w, b
  <2>6. f[1] \in 1..Len(m) /\ m[f[1]] = ":"
    BY <2>2, <2>4, Zenon
  <2>7. m[2] # ":"
    <3>1. Sp # ":"
      BY Zenon DEF Sp
    <3> QED
      BY <3>1
  <2>8. f[1] # 1 /\ f[1] # 2 /\ f[1] # 3
    BY <1>0, <2>6, <2>7, Zenon
  <2>9. b \in 3..Len(m)
    BY <1>0, <2>5, <2>6, <2>8
  <2>10. w[1] = SubSeq(m, 1, b)
    <3>1. w[1] = SubSeq(m, From(m, d, 1), To(m, d, 1))
      BY <2>3, <2>4, Zenon
    <3> QED
      BY <2>5, <3>1, Zenon DEF b
  <2> DEFINE s == SubSeq(m, 1, b)
             u == Trim(s)
  <2>11. s \in Texts /\ Len(s) = b /\ \A i \in 1..b : s[i] = m[i]
    <3>1. b \in 0..Len(m)
      BY <2>9
    <3> QED
      BY <3>1, Cut DEF Texts
  <2> HIDE DEF s
  <2>12. 1 \in 1..b /\ 2 \in 1..b /\ 3 \in 1..b
    BY <2>9
  <2>13. s[1] = m[1] /\ s[2] = m[2] /\ s[3] = m[3] /\ s # <<>>
    <3>1. s # <<>>
      BY <2>9, <2>11, EmptySeq DEF Texts
    <3> QED
      BY <2>11, <2>12, <3>1, Zenon
  <2>14. PICK x \in 1..Len(s) : /\ Len(u) = x
                                /\ \A i \in x + 1..Len(s) : s[i] \in White
                                /\ \A i \in 1..x : u[i] = s[i]
    BY <2>11, <2>13, TrimFirst
  <2>15. u \in Texts
    BY <2>11, TrimType
  <2> HIDE DEF u
  <2>16. x >= 3
    <3> SUFFICES ASSUME ~(x >= 3) PROVE FALSE
      OBVIOUS
    <3>1. 3 \in x + 1..Len(s)
      BY <2>9, <2>11
    <3>2. s[3] \in White
      BY <2>14, <3>1, Zenon
    <3> QED
      BY <1>0, <2>13, <3>2, Zenon
  <2>17. 1 \in 1..x /\ 2 \in 1..x /\ 3 \in 1..x
    BY <2>9, <2>11, <2>16
  <2>18. u[1] = m[1] /\ u[2] = m[2] /\ u[3] = m[3] /\ Len(u) >= 3
    BY <2>13, <2>14, <2>16, <2>17
  <2>19. Parse(u).function # <<>> /\ Parse(u).function[1] = u[3]
    BY <1>0, <2>15, <2>18, FunctionBegins
  <2>20. KickParse(m) = Parse(u)
    <3>1. KickParse(m) = Parse(Trim(w[1]))
      BY <1>2, Zenon DEF KickParse, w
    <3> QED
      BY <2>10, <3>1, Zenon DEF u, s
  <2> QED
    BY <2>18, <2>19, <2>20, Zenon DEF IsChannel, StartsWith
<1> QED
  BY <1>1, <1>2

\* What the checks looked at is what the commands are given.
LEMMA GivenIs ==
  ASSUME NEW m \in Texts, Check(m), m[3] \notin White
  PROVE  /\ m[1] \in {"WHO", "TOPIC", "PART", "MODE", "JOIN"} => IsChannel(Parse(m).function)
         /\ m[1] = "KICK" => IsChannel(KickParse(m).function)
         /\ m[1] \in {"NICK", "INVITE"} =>
              Parse(m).function # <<>> /\ ~IsChannel(Parse(m).function)
         /\ m[1] = "INVITE" => IsChannel(Parse(m).value)
<1> DEFINE s == Format(m)
           p == Parse(m).function
<1>1. PICK c \in Commands :
        /\ GetCommand(m) = <<c>> /\ Has(Trim(m), Sp)
        /\ c \in {"WHO", "MODE", "JOIN"} => IsChannel(s)
        /\ c \in {"TOPIC", "KICK", "PART"} => IsChannel(BeforeSpace(s))
        /\ c \in {"NICK", "INVITE"} => ~IsChannel(s)
        /\ c = "INVITE" => Has(s, Sp) /\ IsChannel(AfterSpace(s))
  BY CheckAsks
<1>2. m[1] = c /\ c # Sp /\ m[2] = Sp
  BY <1>1, FormatIs
<1>3. PICK e \in 3..Len(m) : s \in Texts /\ Len(s) = e - 2 /\ \A i \in 1..e - 2 : s[i] = m[i + 2]
  BY <1>1, FormatIs
<1>a. c \notin White /\ c # ":"
  BY CommandsAreBlack
<1> HIDE DEF s, p
<1>4. Len(m) \in Nat /\ Len(m) >= 3 /\ 1 \in 1..e - 2 /\ 1 + 2 = 3 /\ Len(s) # 0
  <2>1. Len(m) \in Nat
    BY LenProperties DEF Texts
  <2> QED
    BY <1>3, <2>1
<1>5. s # <<>> /\ s[1] = m[3]
  <2>1. s # <<>>
    BY <1>3, <1>4, EmptySeq DEF Texts
  <2> QED
    BY <1>3, <1>4, <2>1, Zenon
<1>6. p # <<>> /\ p[1] = m[3]
  BY <1>2, <1>4, FunctionBegins DEF p
<1>7. IsChannel(p) <=> IsChannel(s)
  BY <1>5, <1>6, Zenon DEF IsChannel, StartsWith
<1>8. c \in {"TOPIC", "KICK", "PART"} => IsChannel(s)
  BY <1>1, <1>3, BeforeBegins, Zenon
<1>9. c = "INVITE" => IsChannel(Parse(m).value)
  BY <1>1, <1>2, <1>3, ValueBegins, Zenon
<1>10. c = "KICK" => IsChannel(KickParse(m).function)
  <2> SUFFICES ASSUME c = "KICK" PROVE IsChannel(KickParse(m).function)
    OBVIOUS
  <2>1. IsChannel(s)
    BY <1>8
  <2>2. m[3] = "#c"
    BY <1>5, <2>1, Zenon DEF IsChannel, StartsWith
  <2> QED
    BY <1>2, <1>4, <1>a, <2>2, KickBegins
<1>11. c \in {"WHO", "TOPIC", "PART", "MODE", "JOIN"} => IsChannel(p)
  <2>1. c \in {"WHO", "TOPIC", "PART", "MODE", "JOIN"} =>
          c \in {"WHO", "MODE", "JOIN"} \/ c \in {"TOPIC", "KICK", "PART"}
    OBVIOUS
  <2> QED
    BY <1>1, <1>7, <1>8, <2>1, Zenon
<1>12. c \in {"NICK", "INVITE"} => ~IsChannel(p)
  BY <1>1, <1>7, Zenon
<1> QED
  BY <1>2, <1>6, <1>9, <1>10, <1>11, <1>12, Zenon DEF p

\* CheckedIsParsed.
THEOREM SpokenOfTheSame == TextSpec => []CheckedIsParsed
<1>1. LInv => CheckedIsParsed
  <2> SUFFICES ASSUME LInv, log # <<>>, fate # "refused", Last(log)[3] \notin White
               PROVE  CheckedIsParsed
    BY DEF CheckedIsParsed
  <2> DEFINE m == Last(log)
  <2>1. log \in Seq(Texts) /\ Check(m)
    BY DEF LInv, LastIs
  <2>2. m \in Texts
    <3>1. Len(log) \in 1..Len(log)
      BY <2>1, EmptySeq, LenProperties
    <3> QED
      BY <2>1, <3>1, ElementOfSeq DEF Last
  <2>3. m[3] \notin White
    OBVIOUS
  <2> HIDE DEF m
  <2>4. /\ m[1] \in {"WHO", "TOPIC", "PART", "MODE", "JOIN"} => IsChannel(Parse(m).function)
        /\ m[1] = "KICK" => IsChannel(KickParse(m).function)
        /\ m[1] \in {"NICK", "INVITE"} =>
             Parse(m).function # <<>> /\ ~IsChannel(Parse(m).function)
        /\ m[1] = "INVITE" => IsChannel(Parse(m).value)
    BY <2>1, <2>2, <2>3, GivenIs
  <2> QED
    BY <2>4, Zenon DEF CheckedIsParsed, m
<1> QED
  BY <1>1, LastStarts, LastKept, PTL DEF TextSpec
-----------------------------------------------------------------------------
(* FtSessions *)

USE FtSessionsConstants

\* What makes the properties inductive: the flag _alreadyRegistered is only
\* ever up for a client that was refused a nick.
SInv ==
  /\ TypeOK
  /\ UserIsLoggedIn
  /\ LoginPath
  /\ \A f \in Connected : sessions[f].already => f \in refused

\* A change of one session to s keeps SInv, if s does.
LEMMA SessionChanges ==
  ASSUME SInv, NEW f \in Connected, NEW s \in Session,
         sessions' = [sessions EXCEPT ![f] = s],
         batch' = batch,
         status' \in {"running", "crashed", "ended"},
         refused \subseteq refused', refused' \subseteq refused \cup {f},
         status = "running",
         status' = "running" => (s.user => s.login \/ s.already),
         s.login => s.user \/ f \in refused',
         s.already => f \in refused'
  PROVE  SInv'
<1>1. /\ Connected' = Connected
      /\ sessions'[f] = s
      /\ \A g \in Connected \ {f} : sessions'[g] = sessions[g]
  BY DEF Connected
<1>2. TypeOK'
  BY <1>1 DEF SInv, TypeOK
<1>3. UserIsLoggedIn'
  BY <1>1 DEF SInv, UserIsLoggedIn
<1>4. LoginPath'
  BY <1>1 DEF SInv, LoginPath
<1>5. \A g \in Connected' : sessions'[g].already => g \in refused'
  BY <1>1 DEF SInv
<1> QED
  BY <1>2, <1>3, <1>4, <1>5 DEF SInv

\* So does removing a client.
LEMMA SessionGoes ==
  ASSUME SInv, NEW f \in Connected, RemoveClient(f), Idle,
         batch' \in {NoFd, f}, status' \in {"running", "crashed"}
  PROVE  SInv'
<1>1. /\ Connected' = Connected \ {f}
      /\ \A g \in Connected' : sessions'[g] = sessions[g]
      /\ refused' = refused \ {f}
  BY DEF RemoveClient, Connected
<1>2. TypeOK'
  BY <1>1 DEF SInv, TypeOK, Idle
<1>3. UserIsLoggedIn' /\ LoginPath'
  BY <1>1 DEF SInv, UserIsLoggedIn, LoginPath, Idle
<1>4. \A g \in Connected' : sessions'[g].already => g \in refused'
  BY <1>1 DEF SInv
<1> QED
  BY <1>2, <1>3, <1>4 DEF SInv

LEMMA AcceptKeeps == ASSUME SInv, Accept PROVE SInv'
<1>1. PICK f \in Fds \ Connected :
        sessions' = [g \in Connected \cup {f} |->
                       IF g = f THEN New ELSE sessions[g]]
  BY DEF Accept
<1>2. /\ Connected' = Connected \cup {f}
      /\ sessions'[f] = New
      /\ \A g \in Connected : sessions'[g] = sessions[g]
  BY <1>1 DEF Connected
<1>3. New \in Session /\ ~New.user /\ ~New.login /\ ~New.already
  BY DEF New, Session
<1>4. batch' = NoFd /\ batch = NoFd /\ status' = status /\ refused' = refused
  BY DEF Accept, Idle
<1>5. TypeOK'
  BY <1>2, <1>3, <1>4 DEF SInv, TypeOK
<1>6. UserIsLoggedIn' /\ LoginPath'
  BY <1>2, <1>3, <1>4 DEF SInv, UserIsLoggedIn, LoginPath
<1>7. \A g \in Connected' : sessions'[g].already => g \in refused'
  BY <1>2, <1>3, <1>4 DEF SInv
<1> QED
  BY <1>5, <1>6, <1>7 DEF SInv

LEMMA LineKeeps == ASSUME SInv, NEW f \in Fds, Line(f) PROVE SInv'
<1> DEFINE s == sessions[f]
<1>0. HasLine(f) /\ f \in Connected /\ s \in Session /\ status = "running"
  BY DEF Line, Pass, NickAccepted, NickRefused, UserAccepted, UserRejected,
         Quit, HasLine, Idle, SInv, TypeOK
<1>1. ASSUME NEW right \in BOOLEAN, Pass(f, right) PROVE SInv'
  <2> DEFINE t == [s EXCEPT !.pass = right]
  <2>1. t \in Session /\ t.user = s.user /\ t.login = s.login /\ t.already = s.already
    BY <1>0, <1>1 DEF Session
  <2>2. sessions' = [sessions EXCEPT ![f] = t]
    BY <1>1 DEF Pass
  <2> HIDE DEF t
  <2> QED
    BY <1>0, <1>1, <2>1, <2>2, SessionChanges
       DEF Pass, SInv, UserIsLoggedIn, LoginPath
<1>2. ASSUME NEW n \in Nicks \cup {Star}, NickAccepted(f, n) PROVE SInv'
  <2> DEFINE t == [s EXCEPT !.nick = n, !.already = FALSE,
                            !.login = s.login \/ (s.already /\ s.pass)]
  <2>1. /\ t \in Session /\ t.user = s.user /\ ~t.already
        /\ t.login = (s.login \/ (s.already /\ s.pass))
    BY <1>0 DEF Session
  <2>2. sessions' = [sessions EXCEPT ![f] = t]
    BY <1>2 DEF NickAccepted
  <2>3. /\ status' = IF s.already /\ ~s.pass THEN "ended" ELSE "running"
        /\ batch' = batch /\ refused' = refused
    BY <1>2 DEF NickAccepted
  <2> HIDE DEF t
  <2>4. status' = "running" => (t.user => t.login \/ t.already)
    BY <1>0, <2>1, <2>3 DEF SInv, UserIsLoggedIn
  <2>5. t.login => t.user \/ f \in refused'
    BY <1>0, <2>1, <2>3 DEF SInv, LoginPath
  <2> QED
    BY <1>0, <2>1, <2>2, <2>3, <2>4, <2>5, SessionChanges
<1>3. ASSUME NEW n \in Nicks \cup {Star}, NickRefused(f, n) PROVE SInv'
  <2> DEFINE t == [s EXCEPT !.already = TRUE]
  <2>1. t \in Session /\ t.user = s.user /\ t.login = s.login /\ t.already
    BY <1>0 DEF Session
  <2>2. sessions' = [sessions EXCEPT ![f] = t]
    BY <1>3 DEF NickRefused
  <2> HIDE DEF t
  <2> QED
    BY <1>0, <1>3, <2>1, <2>2, SessionChanges DEF NickRefused
<1>4. ASSUME NEW whole \in BOOLEAN, UserAccepted(f, whole) PROVE SInv'
  <2> DEFINE t == [s EXCEPT !.user = TRUE, !.login = s.login \/ ~s.already]
  <2>1. /\ t \in Session /\ t.user /\ t.already = s.already
        /\ t.login = (s.login \/ ~s.already)
    BY <1>0 DEF Session
  <2>2. sessions' = [sessions EXCEPT ![f] = t]
    BY <1>4 DEF UserAccepted
  <2>3. status' \in {"running", "crashed"} /\ batch' = batch /\ refused' = refused
    BY <1>4 DEF UserAccepted
  <2> HIDE DEF t
  <2>4. s.already => f \in refused
    BY <1>0 DEF SInv
  <2> QED
    BY <1>0, <2>1, <2>2, <2>3, <2>4, SessionChanges
<1>5. ASSUME NEW whole \in BOOLEAN, UserRejected(f, whole) PROVE SInv'
  BY <1>0, <1>5, SessionGoes DEF UserRejected, HasLine
<1>6. CASE Quit(f)
  BY <1>0, <1>6, SessionGoes DEF Quit, HasLine
<1> QED
  BY <1>1, <1>2, <1>3, <1>4, <1>5, <1>6 DEF Line

LEMMA SNext == SInv /\ [Next]_vars => SInv'
<1> SUFFICES ASSUME SInv, [Next]_vars PROVE SInv'
  OBVIOUS
<1>1. CASE Accept
  BY <1>1, AcceptKeeps
<1>2. CASE LineOfNobody
  BY <1>2 DEF LineOfNobody, SInv, TypeOK, UserIsLoggedIn, LoginPath, Connected
<1>3. CASE EndOfSegment
  BY <1>3 DEF EndOfSegment, SInv, TypeOK, UserIsLoggedIn, LoginPath, Connected
<1>4. ASSUME NEW f \in Fds, Hangup(f) PROVE SInv'
  BY <1>4, SessionGoes DEF Hangup, Idle
<1>5. ASSUME NEW f \in Fds, Line(f) PROVE SInv'
  BY <1>5, LineKeeps
<1>6. CASE UNCHANGED vars
  BY <1>6 DEF vars, SInv, TypeOK, UserIsLoggedIn, LoginPath, Connected
<1> QED
  BY <1>1, <1>2, <1>3, <1>4, <1>5, <1>6 DEF Next

LEMMA SessionInvariant == Spec => []SInv
<1>1. Init => SInv
  BY DEF Init, SInv, TypeOK, UserIsLoggedIn, LoginPath, Connected
<1> QED
  BY <1>1, SNext, PTL DEF Spec

\* The variables keep to their types, and the lines left over in a segment
\* are those of a client that is gone.
THEOREM TypeCorrect == Spec => []TypeOK
<1>1. SInv => TypeOK
  BY DEF SInv
<1> QED
  BY <1>1, SessionInvariant, PTL

\* USER with the right password logs in, or leaves it to the next NICK.
THEOREM UsersLogIn == Spec => []UserIsLoggedIn
<1>1. SInv => UserIsLoggedIn
  BY DEF SInv
<1> QED
  BY <1>1, SessionInvariant, PTL

\* There is no way in but USER, or a nick that was refused before.
THEOREM NoOtherWayIn == Spec => []LoginPath
<1>1. SInv => LoginPath
  BY DEF SInv
<1> QED
  BY <1>1, SessionInvariant, PTL
-----------------------------------------------------------------------------
(* The nicks of the sessions implement NickRegistry. *)

\* The part of Holding that the other clients have a hand in.
Others(f) == {p \in Holding : p[1] # f}

\* A step that changes the nick of f alone gives up what f held and takes the
\* new nick, if it is one.
LEMMA HoldingChanges ==
  ASSUME NEW f \in Connected, Connected' = Connected,
         \A g \in Connected \ {f} : sessions'[g].nick = sessions[g].nick
  PROVE  /\ sessions'[f].nick = Star => Holding' = Others(f)
         /\ sessions'[f].nick # Star =>
              Holding' = Others(f) \cup {<<f, sessions'[f].nick>>}
BY DEF Holding, Others

LEMMA HoldingStutters ==
  ASSUME Connected' = Connected,
         \A g \in Connected : sessions'[g].nick = sessions[g].nick
  PROVE  Holding' = Holding
BY DEF Holding

LEMMA HoldingGoes ==
  ASSUME NEW f \in Fds, RemoveClient(f)
  PROVE  Registry!Release(f)
<1>1. /\ Connected' = Connected \ {f}
      /\ \A g \in Connected \ {f} : sessions'[g] = sessions[g]
  BY DEF RemoveClient, Connected
<1>2. Holding' = {p \in Holding : p[1] # f}
  BY <1>1 DEF Holding
<1> QED
  BY <1>2 DEF Registry!Release

LEMMA AcceptHoldsNothing == ASSUME SInv, Accept PROVE Holding' = Holding
<1>1. PICK f \in Fds \ Connected :
        sessions' = [g \in Connected \cup {f} |->
                       IF g = f THEN New ELSE sessions[g]]
  BY DEF Accept
<1>2. /\ Connected' = Connected \cup {f}
      /\ sessions'[f].nick = Star
      /\ \A g \in Connected : sessions'[g] = sessions[g]
  BY <1>1 DEF Connected, New
<1> QED
  BY <1>2 DEF Holding

LEMMA LineClaims ==
  ASSUME SInv, NEW f \in Fds, Line(f)
  PROVE  UNCHANGED Holding \/ Registry!Next
<1>0. f \in Connected /\ sessions[f] \in Session
  BY DEF Line, Pass, NickAccepted, NickRefused, UserAccepted, UserRejected,
         Quit, HasLine, SInv, TypeOK
<1>1. ASSUME NEW right \in BOOLEAN, Pass(f, right) PROVE UNCHANGED Holding
  <2>1. /\ Connected' = Connected
        /\ \A g \in Connected : sessions'[g].nick = sessions[g].nick
    BY <1>0, <1>1 DEF Pass, Connected, Session
  <2> QED
    BY <2>1, HoldingStutters
<1>2. ASSUME NEW n \in Nicks \cup {Star}, NickAccepted(f, n)
      PROVE  Registry!Release(f) \/ (n \in Nicks /\ Registry!Claim(f, n))
  <2> DEFINE t == [sessions[f] EXCEPT !.nick = n, !.already = FALSE,
                     !.login = @ \/ (sessions[f].already /\ sessions[f].pass)]
  <2>1. t.nick = n
    BY <1>0 DEF Session
  <2>2. sessions' = [sessions EXCEPT ![f] = t]
    BY <1>2 DEF NickAccepted
  <2>3. /\ Connected' = Connected
        /\ sessions'[f].nick = n
        /\ \A g \in Connected \ {f} : sessions'[g].nick = sessions[g].nick
    <3> HIDE DEF t
    <3> QED
      BY <1>0, <2>1, <2>2 DEF Connected
  <2>4. CASE n = Star
    BY <1>0, <2>3, <2>4, HoldingChanges DEF Others, Registry!Release
  <2>5. CASE n # Star
    <3>1. Holding' = Others(f) \cup {<<f, n>>}
      BY <1>0, <2>3, <2>5, HoldingChanges
    <3>2. \A p \in Holding : p[2] # n
      BY <1>2 DEF NickAccepted, GetClientByNickName, Holding
    <3> QED
      BY <2>5, <3>1, <3>2 DEF Others, Registry!Claim, Registry!Free
  <2> QED
    BY <2>4, <2>5
<1>3. ASSUME NEW n \in Nicks \cup {Star}, NickRefused(f, n) PROVE UNCHANGED Holding
  <2>1. /\ Connected' = Connected
        /\ \A g \in Connected : sessions'[g].nick = sessions[g].nick
    BY <1>0, <1>3 DEF NickRefused, Connected, Session
  <2> QED
    BY <2>1, HoldingStutters
<1>4. ASSUME NEW whole \in BOOLEAN, UserAccepted(f, whole) PROVE UNCHANGED Holding
  <2> DEFINE t == [sessions[f] EXCEPT !.user = TRUE,
                                      !.login = @ \/ ~sessions[f].already]
  <2>1. t.nick = sessions[f].nick
    BY <1>0 DEF Session
  <2>2. sessions' = [sessions EXCEPT ![f] = t]
    BY <1>4 DEF UserAccepted
  <2> HIDE DEF t
  <2>3. /\ Connected' = Connected
        /\ \A g \in Connected : sessions'[g].nick = sessions[g].nick
    BY <1>0, <2>1, <2>2 DEF Connected
  <2> QED
    BY <2>3, HoldingStutters
<1>5. ASSUME NEW whole \in BOOLEAN, UserRejected(f, whole) PROVE Registry!Release(f)
  BY <1>5, HoldingGoes DEF UserRejected
<1>6. CASE Quit(f)
  BY <1>6, HoldingGoes DEF Quit, Registry!Next
<1> QED
  BY <1>1, <1>2, <1>3, <1>4, <1>5, <1>6 DEF Line, Registry!Next

LEMMA RegistryStep == SInv /\ [Next]_vars => [Registry!Next]_Holding
<1> SUFFICES ASSUME SInv, [Next]_vars
             PROVE  UNCHANGED Holding \/ Registry!Next
  OBVIOUS
<1>1. CASE Accept
  BY <1>1, AcceptHoldsNothing
<1>2. CASE LineOfNobody \/ EndOfSegment
  BY <1>2 DEF LineOfNobody, EndOfSegment, Holding, Connected
<1>3. ASSUME NEW f \in Fds, Hangup(f) PROVE Registry!Next
  BY <1>3, HoldingGoes DEF Hangup, Registry!Next
<1>4. ASSUME NEW f \in Fds, Line(f)
      PROVE  UNCHANGED Holding \/ Registry!Next
  BY <1>4, LineClaims
<1>5. CASE UNCHANGED vars
  BY <1>5 DEF vars, Holding, Connected
<1> QED
  BY <1>1, <1>2, <1>3, <1>4, <1>5 DEF Next

\* FtSessions implements NickRegistry: no two clients have the same nick, and
\* one changes hands only after its holder gave it up.
THEOREM RegistryIsImplemented == Spec => ImplementsRegistry
<1>1. Init => Registry!Init
  BY DEF Init, Registry!Init, Holding, Connected
<1> QED
  BY <1>1, RegistryStep, SessionInvariant, PTL
     DEF Spec, ImplementsRegistry, Registry!Spec
=============================================================================
