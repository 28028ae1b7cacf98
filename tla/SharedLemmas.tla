----------------------------- MODULE SharedLemmas -----------------------------
(* What the other modules with proofs need of sequences and minima. *)
EXTENDS Integers, SequencesExt, SequenceTheorems, WellFoundedInduction, TLAPS

\* A set of natural numbers that is not empty has a least element, and Min is it.
LEMMA MinProperties ==
  ASSUME NEW S \in SUBSET Nat, S # {}
  PROVE  Min(S) \in S /\ \A x \in S : Min(S) <= x
<1> DEFINE R == {p \in Nat \X Nat : p[1] < p[2]}
<1>0. IsWellFoundedOn(R, Nat)
  BY NatLessThanWellFounded, Zenon DEF OpToRel
<1>1. \E x \in S : \A y \in S : ~(<<y, x>> \in R)
  <2> HIDE DEF R
  <2> QED
    BY <1>0, WFMin
<1>2. \A x, y \in Nat : <<y, x>> \in R <=> y < x
  OBVIOUS
<1> HIDE DEF R
<1>3. PICK x \in S : \A y \in S : ~(<<y, x>> \in R)
  BY <1>1
<1>4. ASSUME NEW y \in S PROVE x <= y
  <2>1. x \in Nat /\ y \in Nat /\ ~(<<y, x>> \in R)
    BY <1>3
  <2>2. ~(y < x)
    BY <1>2, <2>1
  <2> QED
    BY <2>1, <2>2
<1> QED
  BY <1>4 DEF Min

\* A bounded set that is not empty has a greatest element, and Max is it.
LEMMA MaxProperties ==
  ASSUME NEW N \in Nat, NEW S \in SUBSET (0..N), S # {}
  PROVE  Max(S) \in S /\ \A x \in S : Max(S) >= x
<1> DEFINE D == {N - x : x \in S}
<1>0. \A x \in S : x \in 0..N /\ N - x \in Nat
  OBVIOUS
<1>1. D \in SUBSET Nat /\ D # {}
  <2>1. \A y \in D : y \in Nat
    BY <1>0
  <2>2. PICK x : x \in S
    OBVIOUS
  <2>3. N - x \in D
    BY <2>2
  <2> QED
    BY <2>1, <2>3
<1>2. Min(D) \in D /\ \A y \in D : Min(D) <= y
  <2> HIDE DEF D
  <2> QED
    BY <1>1, MinProperties
<1>3. PICK x \in S : Min(D) = N - x
  BY <1>2
<1>4. ASSUME NEW y \in S PROVE x >= y
  <2>1. N - y \in D /\ N - y \in Nat /\ x \in 0..N /\ y \in 0..N
    BY <1>0
  <2>2. Min(D) <= N - y
    BY <1>2, <2>1
  <2> HIDE DEF D
  <2> QED
    BY <1>3, <2>1, <2>2
<1> HIDE DEF D
<1> QED
  BY <1>4 DEF Max

\* min(a, b), as recv() takes the smaller of what there is and what it is asked for.
LEMMA MinOfTwo ==
  ASSUME NEW a \in Int, NEW b \in Int
  PROVE  Min({a, b}) = IF a <= b THEN a ELSE b
<1> DEFINE m == IF a <= b THEN a ELSE b
<1>1. m \in {a, b} /\ \A y \in {a, b} : m <= y
  OBVIOUS
<1>2. \A x \in {a, b} : (\A y \in {a, b} : x <= y) => x = m
  OBVIOUS
<1> QED
  BY <1>1, <1>2 DEF Min

LEMMA MaxOfTwo ==
  ASSUME NEW a \in Int, NEW b \in Int
  PROVE  Max({a, b}) = IF a >= b THEN a ELSE b
<1> DEFINE m == IF a >= b THEN a ELSE b
<1>1. m \in {a, b} /\ \A y \in {a, b} : m >= y
  OBVIOUS
<1>2. \A x \in {a, b} : (\A y \in {a, b} : x >= y) => x = m
  OBVIOUS
<1> QED
  BY <1>1, <1>2 DEF Max

\* Taking a prefix off.
LEMMA Cut ==
  ASSUME NEW S, NEW s \in Seq(S), NEW n \in 0..Len(s)
  PROVE  /\ SubSeq(s, 1, n) \in Seq(S) /\ Len(SubSeq(s, 1, n)) = n
         /\ \A k \in 1..n : SubSeq(s, 1, n)[k] = s[k]
         /\ SubSeq(s, n + 1, Len(s)) \in Seq(S)
<1>1. Len(s) \in Nat /\ \A k \in 1..Len(s) : s[k] \in S
  BY LenProperties, ElementOfSeq
<1>2. /\ 1 \in Int /\ n \in Int /\ n + 1 \in Int /\ Len(s) \in Int
      /\ \A k \in 1..n : s[k] \in S
      /\ \A k \in n + 1..Len(s) : s[k] \in S
  BY <1>1
<1>3. /\ SubSeq(s, 1, n) \in Seq(S)
      /\ Len(SubSeq(s, 1, n)) = IF 1 <= n THEN n - 1 + 1 ELSE 0
      /\ \A k \in 1 .. n - 1 + 1 : SubSeq(s, 1, n)[k] = s[1 + k - 1]
  BY <1>2, SubSeqProperties
<1>4. SubSeq(s, n + 1, Len(s)) \in Seq(S)
  BY <1>2, SubSeqProperties
<1> QED
  BY <1>1, <1>3, <1>4

\* What is read first does not depend on what is appended.
LEMMA TailOfConcat ==
  ASSUME NEW S, NEW s \in Seq(S), NEW t \in Seq(S), s # <<>>
  PROVE  Tail(s \o t) = Tail(s) \o t /\ s \o t # <<>>
<1>1. /\ Len(s) \in Nat \ {0} /\ Len(t) \in Nat
      /\ Tail(s) \in Seq(S) /\ Len(Tail(s)) = Len(s) - 1
      /\ \A k \in 1..Len(s) - 1 : Tail(s)[k] = s[k + 1]
  BY LenProperties, EmptySeq, HeadTailProperties
<1>2. /\ s \o t \in Seq(S) /\ Len(s \o t) = Len(s) + Len(t)
      /\ \A k \in 1..Len(s) + Len(t) :
           (s \o t)[k] = IF k <= Len(s) THEN s[k] ELSE t[k - Len(s)]
  BY ConcatProperties
<1>3. s \o t # <<>>
  BY <1>1, <1>2, EmptySeq
<1>4. /\ Tail(s \o t) \in Seq(S) /\ Len(Tail(s \o t)) = Len(s) + Len(t) - 1
      /\ \A k \in 1..Len(s) + Len(t) - 1 : Tail(s \o t)[k] = (s \o t)[k + 1]
  BY <1>1, <1>2, <1>3, HeadTailProperties
<1>5. /\ Tail(s) \o t \in Seq(S) /\ Len(Tail(s) \o t) = Len(s) - 1 + Len(t)
      /\ \A k \in 1..Len(s) - 1 + Len(t) :
           (Tail(s) \o t)[k] = IF k <= Len(s) - 1 THEN Tail(s)[k] ELSE t[k - (Len(s) - 1)]
  BY <1>1, ConcatProperties
<1>6. \A k \in 1..Len(s) + Len(t) - 1 : Tail(s \o t)[k] = (Tail(s) \o t)[k]
  BY <1>1, <1>2, <1>4, <1>5
<1> QED
  BY <1>1, <1>3, <1>4, <1>5, <1>6, SeqEqual

\* A chunk, each byte with its sender.
LEMMA TaggedProperties ==
  ASSUME NEW C, NEW B, NEW c \in C, NEW s \in Seq(B)
  PROVE  [k \in 1..Len(s) |-> <<c, s[k]>>] \in Seq(C \X B)
<1>1. Len(s) \in Nat /\ \A k \in 1..Len(s) : s[k] \in B
  BY LenProperties, ElementOfSeq
<1>2. [k \in 1..Len(s) |-> <<c, s[k]>>] \in [1..Len(s) -> C \X B]
  BY <1>1
<1> QED
  BY <1>1, <1>2, SeqDef

\* Erasing one element: the others stay, and their order.
LEMMA RemoveAtProperties ==
  ASSUME NEW S, NEW s \in Seq(S), NEW k \in 1..Len(s)
  PROVE  /\ RemoveAt(s, k) \in Seq(S)
         /\ Len(RemoveAt(s, k)) = Len(s) - 1
         /\ \A i \in 1..Len(s) - 1 :
              RemoveAt(s, k)[i] = s[IF i < k THEN i ELSE i + 1]
<1> DEFINE front == SubSeq(s, 1, k - 1)
           back == SubSeq(s, k + 1, Len(s))
<1>0. Len(s) \in Nat /\ k \in Int /\ \A i \in 1..Len(s) : s[i] \in S
  BY LenProperties, ElementOfSeq
<1>1. /\ front \in Seq(S) /\ Len(front) = k - 1
      /\ \A i \in 1..k - 1 : front[i] = s[i]
  <2>1. \A i \in 1..k - 1 : s[i] \in S
    BY <1>0
  <2>2. 1 \in Int /\ k - 1 \in Int
    BY <1>0
  <2>3. /\ front \in Seq(S)
        /\ Len(front) = IF 1 <= k - 1 THEN k - 1 - 1 + 1 ELSE 0
        /\ \A i \in 1 .. k - 1 - 1 + 1 : front[i] = s[1 + i - 1]
    BY <2>1, <2>2, SubSeqProperties
  <2> QED
    BY <2>3, <1>0
<1>2. /\ back \in Seq(S) /\ Len(back) = Len(s) - k
      /\ \A i \in 1..Len(s) - k : back[i] = s[k + i]
  <2>1. \A i \in k + 1..Len(s) : s[i] \in S
    BY <1>0
  <2>2. k + 1 \in Int /\ Len(s) \in Int
    BY <1>0
  <2>3. /\ back \in Seq(S)
        /\ Len(back) = IF k + 1 <= Len(s) THEN Len(s) - (k + 1) + 1 ELSE 0
        /\ \A i \in 1 .. Len(s) - (k + 1) + 1 : back[i] = s[(k + 1) + i - 1]
    BY <2>1, <2>2, SubSeqProperties
  <2> QED
    BY <2>3, <1>0
<1>3. /\ front \o back \in Seq(S)
      /\ Len(front \o back) = Len(front) + Len(back)
      /\ \A i \in 1 .. Len(front) + Len(back) : (front \o back)[i] =
           IF i <= Len(front) THEN front[i] ELSE back[i - Len(front)]
  BY <1>1, <1>2, ConcatProperties
<1> HIDE DEF front, back
<1>4. \A i \in 1..Len(s) - 1 :
         (front \o back)[i] = s[IF i < k THEN i ELSE i + 1]
  BY <1>0, <1>1, <1>2, <1>3
<1>5. RemoveAt(s, k) = front \o back
  BY DEF RemoveAt, front, back
<1>6. Len(front \o back) = Len(s) - 1
  BY <1>0, <1>1, <1>2, <1>3
<1> QED
  BY <1>3, <1>4, <1>5, <1>6, Zenon

\* What is then in the list.
LEMMA RemoveAtSet ==
  ASSUME NEW S, NEW s \in Seq(S), NEW k \in 1..Len(s)
  PROVE  /\ ToSet(RemoveAt(s, k)) \subseteq ToSet(s)
         /\ ToSet(s) \ {s[k]} \subseteq ToSet(RemoveAt(s, k))
         /\ IsInjective(s) => /\ IsInjective(RemoveAt(s, k))
                              /\ s[k] \notin ToSet(RemoveAt(s, k))
<1> DEFINE t == RemoveAt(s, k)
           at(i) == IF i < k THEN i ELSE i + 1
<1>0. Len(s) \in Nat /\ DOMAIN s = 1..Len(s)
  BY LenProperties
<1>1. /\ t \in Seq(S) /\ Len(t) = Len(s) - 1
      /\ \A i \in 1..Len(s) - 1 : t[i] = s[at(i)]
  BY RemoveAtProperties
<1> HIDE DEF t
<1>2. DOMAIN t = 1..Len(s) - 1
  BY <1>1, LenProperties
<1>3. /\ \A i \in 1..Len(s) - 1 : at(i) \in DOMAIN s /\ at(i) # k
      /\ \A i, j \in 1..Len(s) - 1 : at(i) = at(j) => i = j
  BY <1>0
<1>4. ToSet(t) \subseteq ToSet(s)
  BY <1>1, <1>2, <1>3 DEF ToSet
<1>5. ASSUME NEW i \in DOMAIN s, s[i] # s[k] PROVE s[i] \in ToSet(t)
  <2> DEFINE j == IF i < k THEN i ELSE i - 1
  <2>1. j \in DOMAIN t /\ t[j] = s[i]
    BY <1>0, <1>1, <1>2, <1>5
  <2> HIDE DEF j
  <2> QED
    BY <2>1 DEF ToSet
<1>6. ASSUME IsInjective(s) PROVE IsInjective(t) /\ s[k] \notin ToSet(t)
  <2>1. ASSUME NEW i \in DOMAIN t, NEW j \in DOMAIN t, t[i] = t[j] PROVE i = j
    <3>1. at(i) \in DOMAIN s /\ at(j) \in DOMAIN s /\ s[at(i)] = s[at(j)]
      BY <1>1, <1>2, <1>3, <2>1
    <3>2. at(i) = at(j)
      BY <1>6, <3>1 DEF IsInjective
    <3> QED
      BY <1>2, <1>3, <3>2
  <2>2. ASSUME NEW i \in DOMAIN t PROVE t[i] # s[k]
    <3>1. at(i) \in DOMAIN s /\ at(i) # k /\ t[i] = s[at(i)] /\ k \in DOMAIN s
      BY <1>0, <1>1, <1>2, <1>3
    <3> HIDE DEF at
    <3> QED
      BY <1>6, <3>1 DEF IsInjective
  <2> QED
    BY <2>1, <2>2 DEF IsInjective, ToSet
<1> QED
  BY <1>4, <1>5, <1>6 DEF ToSet, t

\* Erasing the first of the elements that equal e, which may not be there.
LEMMA RemoveFirstSet ==
  ASSUME NEW S, NEW s \in Seq(S), NEW e
  PROVE  /\ RemoveFirst(s, e) \in Seq(S)
         /\ Len(RemoveFirst(s, e)) = IF e \in ToSet(s) THEN Len(s) - 1 ELSE Len(s)
         /\ ToSet(RemoveFirst(s, e)) \subseteq ToSet(s)
         /\ ToSet(s) \ {e} \subseteq ToSet(RemoveFirst(s, e))
         /\ IsInjective(s) => /\ IsInjective(RemoveFirst(s, e))
                              /\ e \notin ToSet(RemoveFirst(s, e))
<1> DEFINE I == {i \in 1..Len(s) : s[i] = e}
<1>0. Len(s) \in Nat /\ DOMAIN s = 1..Len(s)
  BY LenProperties
<1>1. CASE e \in ToSet(s)
  <2> DEFINE k == Min(I)
  <2>1. I # {} /\ I \in SUBSET Nat
    BY <1>0, <1>1 DEF ToSet
  <2>2. k \in I
    <3> HIDE DEF I
    <3> QED
      BY <2>1, MinProperties
  <2>3. RemoveFirst(s, e) = RemoveAt(s, k)
    BY <2>1 DEF RemoveFirst, SelectInSeq
  <2>4. k \in 1..Len(s) /\ s[k] = e
    BY <2>2
  <2> HIDE DEF k, I
  <2>5. RemoveAt(s, k) \in Seq(S) /\ Len(RemoveAt(s, k)) = Len(s) - 1
    BY <2>4, RemoveAtProperties
  <2>6. /\ ToSet(RemoveAt(s, k)) \subseteq ToSet(s)
        /\ ToSet(s) \ {e} \subseteq ToSet(RemoveAt(s, k))
        /\ IsInjective(s) => /\ IsInjective(RemoveAt(s, k))
                             /\ e \notin ToSet(RemoveAt(s, k))
    BY <2>4, RemoveAtSet
  <2> QED
    BY <1>1, <2>3, <2>5, <2>6
<1>2. CASE e \notin ToSet(s)
  <2>1. RemoveFirst(s, e) = s
    BY <1>0, <1>2 DEF RemoveFirst, ToSet
  <2> QED
    BY <1>2, <2>1
<1> QED
  BY <1>1, <1>2

\* The same in a list that holds none twice.
LEMMA RemoveFirstProperties ==
  ASSUME NEW S, NEW s \in Seq(S), IsInjective(s), NEW e \in ToSet(s)
  PROVE  /\ RemoveFirst(s, e) \in Seq(S)
         /\ Len(RemoveFirst(s, e)) = Len(s) - 1
         /\ IsInjective(RemoveFirst(s, e))
         /\ ToSet(RemoveFirst(s, e)) = ToSet(s) \ {e}
<1>1. /\ RemoveFirst(s, e) \in Seq(S)
      /\ Len(RemoveFirst(s, e)) = Len(s) - 1
      /\ ToSet(RemoveFirst(s, e)) \subseteq ToSet(s)
      /\ ToSet(s) \ {e} \subseteq ToSet(RemoveFirst(s, e))
      /\ IsInjective(RemoveFirst(s, e))
      /\ e \notin ToSet(RemoveFirst(s, e))
  BY RemoveFirstSet
<1> QED
  BY <1>1

\* Appending.
LEMMA AppendSet ==
  ASSUME NEW S, NEW s \in Seq(S), NEW e \in S
  PROVE  /\ Append(s, e) \in Seq(S) /\ Len(Append(s, e)) = Len(s) + 1
         /\ ToSet(Append(s, e)) = ToSet(s) \cup {e}
         /\ IsInjective(s) /\ e \notin ToSet(s) => IsInjective(Append(s, e))
<1> DEFINE t == Append(s, e)
<1>0. Len(s) \in Nat /\ DOMAIN s = 1..Len(s)
  BY LenProperties
<1>1. /\ t \in Seq(S) /\ Len(t) = Len(s) + 1
      /\ \A i \in 1..Len(s) : t[i] = s[i]
      /\ t[Len(s) + 1] = e
  BY AppendProperties
<1> HIDE DEF t
<1>2. DOMAIN t = 1..Len(s) + 1
  BY <1>1, LenProperties
<1>3. ToSet(t) = ToSet(s) \cup {e}
  BY <1>0, <1>1, <1>2 DEF ToSet
<1>4. ASSUME IsInjective(s), e \notin ToSet(s) PROVE IsInjective(t)
  <2> SUFFICES ASSUME NEW i \in 1..Len(s) + 1, NEW j \in 1..Len(s) + 1, t[i] = t[j]
               PROVE  i = j
    BY <1>2 DEF IsInjective
  <2>1. \A k \in 1..Len(s) : t[k] \in ToSet(s)
    BY <1>0, <1>1 DEF ToSet
  <2> QED
    BY <1>0, <1>1, <1>4, <2>1 DEF IsInjective
<1> QED
  BY <1>1, <1>3, <1>4 DEF t

\* Counting up to n.
LEMMA CountUp ==
  ASSUME NEW n \in Nat, NEW T, 0 \in T,
         \A k \in 0..n : k # n /\ k \in T => k + 1 \in T
  PROVE  \A k \in 0..n : k \in T
<1> DEFINE bad == {k \in 0..n : k \notin T}
<1> SUFFICES ASSUME bad # {} PROVE FALSE
  OBVIOUS
<1>1. bad \in SUBSET Nat
  OBVIOUS
<1>2. Min(bad) \in bad /\ \A x \in bad : Min(bad) <= x
  <2> HIDE DEF bad
  <2> QED
    BY <1>1, MinProperties
<1> DEFINE m == Min(bad)
<1> HIDE DEF m
<1>3. m \in 0..n /\ m \notin T /\ \A x \in 0..n : x \notin T => m <= x
  BY <1>2 DEF m
<1>4. m # 0 /\ m - 1 \in 0..n /\ m - 1 # n /\ m - 1 + 1 = m /\ ~(m <= m - 1)
  BY <1>3
<1> QED
  BY <1>3, <1>4

\* A loop over s that appends to a list what it meets at the positions
\* outside of K: g[j] is the list after j rounds.
Keeps(s, K, g) ==
  g = [j \in 0..Len(s) |-> IF j = 0 THEN <<>>
                           ELSE IF j \in K THEN g[j - 1]
                           ELSE Append(g[j - 1], s[j])]

\* t is what stands in s at the positions outside of K, in the same order;
\* at says where each of them stood.
Selects(s, K, t, at) ==
  /\ at \in [1..Len(t) -> 1..Len(s)]
  /\ \A j \in 1..Len(t) : t[j] = s[at[j]] /\ at[j] \notin K /\ at[j] >= j
  /\ \A j, k \in 1..Len(t) : j < k => at[j] < at[k]
  /\ \A m \in 1..Len(s) : m \notin K => \E j \in 1..Len(t) : at[j] = m

LEMMA KeptExists ==
  ASSUME NEW S, NEW s \in Seq(S), NEW K
  PROVE  \E g : Keeps(s, K, g)
<1> DEFINE step(g, j) == IF j = 0 THEN <<>>
                         ELSE IF j \in K THEN g[j - 1] ELSE Append(g[j - 1], s[j])
           upTo(g, n) == g = [j \in 0..n |-> step(g, j)]
           T == {n \in 0..Len(s) : \E g : upTo(g, n)}
<1>0. Len(s) \in Nat
  BY LenProperties
<1>1. 0 \in T
  <2>1. upTo([j \in 0..0 |-> <<>>], 0)
    OBVIOUS
  <2> HIDE DEF upTo
  <2> QED
    BY <1>0, <2>1
<1>2. ASSUME NEW k \in 0..Len(s), k # Len(s), k \in T PROVE k + 1 \in T
  <2>1. PICK g : upTo(g, k)
    BY <1>2
  <2> DEFINE h == [j \in 0..k + 1 |-> IF j <= k THEN g[j] ELSE step(g, j)]
  <2>2. ASSUME NEW j \in 0..k + 1 PROVE h[j] = step(h, j)
    <3>1. CASE j = 0
      BY <2>1, <3>1
    <3>2. CASE j # 0
      <4>1. j - 1 \in 0..k /\ j - 1 <= k /\ j - 1 \in 0..k + 1
        BY <3>2
      <4>2. h[j - 1] = g[j - 1]
        BY <4>1
      <4>3. step(h, j) = step(g, j)
        BY <4>2
      <4>4. CASE j <= k
        <5>1. g[j] = step(g, j)
          <6>1. j \in 0..k
            BY <4>4
          <6> HIDE DEF step
          <6> QED
            BY <2>1, <6>1
        <5>2. h[j] = g[j]
          BY <4>4
        <5> QED
          BY <4>3, <5>1, <5>2
      <4>5. CASE ~(j <= k)
        <5>1. h[j] = step(g, j)
          BY <4>5
        <5> QED
          BY <4>3, <5>1
      <4> QED
        BY <4>4, <4>5
    <3> QED
      BY <3>1, <3>2
  <2>3. upTo(h, k + 1)
    <3> HIDE DEF step
    <3>1. h = [j \in 0..k + 1 |-> h[j]]
      OBVIOUS
    <3> HIDE DEF h
    <3> QED
      BY <2>2, <3>1
  <2> HIDE DEF upTo
  <2>4. k + 1 \in 0..Len(s)
    BY <1>0, <1>2
  <2> QED
    BY <2>3, <2>4
<1> HIDE DEF T
<1>3. \A k \in 0..Len(s) : k \in T
  BY <1>0, <1>1, <1>2, CountUp
<1>4. Len(s) \in T
  BY <1>0, <1>3
<1> QED
  BY <1>4 DEF T, Keeps

\* What the loop has kept in the end.
LEMMA KeptProperties ==
  ASSUME NEW S, NEW s \in Seq(S), NEW K, NEW g, Keeps(s, K, g)
  PROVE  g[Len(s)] \in Seq(S) /\ \E at : Selects(s, K, g[Len(s)], at)
<1> DEFINE Picks(n, at) ==
             /\ g[n] \in Seq(S)
             /\ at \in [1..Len(g[n]) -> 1..n]
             /\ \A j \in 1..Len(g[n]) : g[n][j] = s[at[j]] /\ at[j] \notin K /\ at[j] >= j
             /\ \A j, k \in 1..Len(g[n]) : j < k => at[j] < at[k]
             /\ \A m \in 1..n : m \notin K => \E j \in 1..Len(g[n]) : at[j] = m
           T == {n \in 0..Len(s) : \E at : Picks(n, at)}
<1>0. Len(s) \in Nat /\ \A j \in 1..Len(s) : s[j] \in S
  BY LenProperties, ElementOfSeq
<1>1. \A j \in 0..Len(s) : g[j] = IF j = 0 THEN <<>>
                                  ELSE IF j \in K THEN g[j - 1]
                                  ELSE Append(g[j - 1], s[j])
  BY DEF Keeps
<1>2. 0 \in T
  <2>1. g[0] = <<>> /\ <<>> \in Seq(S) /\ Len(<<>>) = 0 /\ 1..0 = {}
    BY <1>0, <1>1, EmptySeq
  <2>2. Picks(0, [j \in 1..0 |-> 1])
    BY <2>1
  <2> HIDE DEF Picks
  <2> QED
    BY <1>0, <2>2
<1>3. ASSUME NEW n \in 0..Len(s), n # Len(s), n \in T PROVE n + 1 \in T
  <2>1. PICK at : Picks(n, at)
    BY <1>3
  <2>2. n + 1 \in 1..Len(s) /\ n + 1 \in 0..Len(s) /\ n + 1 - 1 = n /\ n + 1 # 0
    BY <1>0, <1>3
  <2>3. g[n + 1] = IF n + 1 \in K THEN g[n] ELSE Append(g[n], s[n + 1])
    BY <1>1, <2>2
  <2>4. Len(g[n]) \in Nat /\ g[n] \in Seq(S)
    BY <2>1, LenProperties
  <2>5. CASE n + 1 \in K
    <3>1. g[n + 1] = g[n]
      BY <2>3, <2>5
    <3>2. at \in [1..Len(g[n]) -> 1..n + 1]
      BY <2>1
    <3>3. ASSUME NEW m \in 1..n + 1, m \notin K PROVE \E j \in 1..Len(g[n]) : at[j] = m
      <4>1. m \in 1..n
        BY <2>5, <3>3
      <4> QED
        BY <2>1, <3>3, <4>1
    <3>4. Picks(n + 1, at)
      BY <2>1, <3>1, <3>2, <3>3
    <3> HIDE DEF Picks
    <3> QED
      BY <2>2, <3>4
  <2>6. CASE n + 1 \notin K
    <3> DEFINE l == Len(g[n])
               to == [j \in 1..l + 1 |-> IF j <= l THEN at[j] ELSE n + 1]
    <3>1. /\ g[n + 1] \in Seq(S) /\ Len(g[n + 1]) = l + 1
          /\ \A j \in 1..l : g[n + 1][j] = g[n][j]
          /\ g[n + 1][l + 1] = s[n + 1]
      <4>1. g[n + 1] = Append(g[n], s[n + 1]) /\ s[n + 1] \in S
        BY <1>0, <2>2, <2>3, <2>6
      <4> QED
        BY <2>4, <4>1, AppendProperties
    <3>2. \A j \in 1..l : at[j] \in 1..n /\ to[j] = at[j]
      <4>1. \A j \in 1..l : at[j] \in 1..n
        BY <2>1
      <4>2. \A j \in 1..l : j \in 1..l + 1 /\ j <= l
        BY <2>4
      <4> HIDE DEF l
      <4>3. \A j \in 1..l : to[j] = at[j]
        BY <4>2
      <4> QED
        BY <4>1, <4>3
    <3>3. to[l + 1] = n + 1 /\ l <= n
      <4>1. to[l + 1] = n + 1
        BY <2>4
      <4>2. CASE l = 0
        BY <4>2
      <4>3. CASE l # 0
        <5>1. l \in 1..l
          BY <2>4, <4>3
        <5>2. at[l] >= l /\ at[l] \in 1..n
          BY <2>1, <3>2, <5>1
        <5> QED
          BY <2>4, <4>1, <5>2
      <4> QED
        BY <4>1, <4>2, <4>3
    <3>4. to \in [1..l + 1 -> 1..n + 1]
      <4>0. n \in Nat /\ 1..n \subseteq 1..n + 1
        BY <1>0, <1>3
      <4>1. \A j \in 1..l : at[j] \in 1..n + 1
        BY <3>2, <4>0
      <4>2. \A j \in 1..l + 1 : ~(j <= l) \/ j \in 1..l
        BY <2>4
      <4>3. n + 1 \in 1..n + 1
        BY <1>0, <1>3
      <4> HIDE DEF l
      <4> QED
        BY <4>1, <4>2, <4>3
    <3> HIDE DEF to, l
    <3>5. l \in Nat
      BY <2>4 DEF l
    <3>6. ASSUME NEW j \in 1..l + 1
          PROVE  g[n + 1][j] = s[to[j]] /\ to[j] \notin K /\ to[j] >= j
      <4>1. CASE j \in 1..l
        BY <2>1, <3>1, <3>2, <4>1 DEF l
      <4>2. CASE j = l + 1
        BY <2>6, <3>1, <3>3, <3>5, <4>2
      <4>3. j \in 1..l \/ j = l + 1
        BY <3>5
      <4> QED
        BY <4>1, <4>2, <4>3
    <3>7. ASSUME NEW j \in 1..l + 1, NEW k \in 1..l + 1, j < k PROVE to[j] < to[k]
      <4>1. j \in 1..l
        BY <3>5, <3>7
      <4>2. CASE k \in 1..l
        BY <2>1, <3>2, <3>7, <4>1, <4>2 DEF l
      <4>3. CASE k = l + 1
        BY <3>2, <3>3, <4>1, <4>3
      <4> QED
        BY <3>5, <4>2, <4>3
    <3>8. ASSUME NEW m \in 1..n + 1, m \notin K PROVE \E j \in 1..l + 1 : to[j] = m
      <4>1. CASE m = n + 1
        BY <3>3, <3>5, <4>1
      <4>2. CASE m # n + 1
        <5>1. m \in 1..n
          BY <4>2
        <5>2. PICK j \in 1..l : at[j] = m
          BY <2>1, <3>8, <5>1 DEF l
        <5>3. j \in 1..l + 1 /\ to[j] = m
          BY <3>2, <3>5, <5>2
        <5> QED
          BY <5>3
      <4> QED
        BY <4>1, <4>2
    <3>9. Picks(n + 1, to)
      BY <3>1, <3>4, <3>6, <3>7, <3>8
    <3> HIDE DEF Picks
    <3> QED
      BY <2>2, <3>9
  <2> QED
    BY <2>5, <2>6
<1> HIDE DEF T
<1>4. \A k \in 0..Len(s) : k \in T
  BY <1>0, <1>2, <1>3, CountUp
<1>5. Len(s) \in T
  BY <1>0, <1>4
<1>6. PICK at : Picks(Len(s), at)
  BY <1>5 DEF T
<1>7. g[Len(s)] \in Seq(S) /\ Selects(s, K, g[Len(s)], at)
  BY <1>6 DEF Selects
<1> QED
  BY <1>7

\* f[j] is the first j elements of s, joined.
Joins(s, f) == f[0] = <<>> /\ \A j \in 1..Len(s) : f[j] = f[j - 1] \o s[j]

\* One of its steps.
LEMMA JoinsStep ==
  ASSUME NEW s, NEW f, Joins(s, f), NEW j \in 1..Len(s), NEW k, j - 1 = k
  PROVE  f[j] = f[k] \o s[j]
BY Zenon DEF Joins

\* The function that FlattenSeq defines exists.
LEMMA FlattenExists ==
  ASSUME NEW s, NEW n \in Nat \ {0}
  PROVE  \E g : g = [k \in 1..n |-> IF k = 1 THEN s[k] ELSE g[k - 1] \o s[k]]
<1> DEFINE step(g, k) == IF k = 1 THEN s[k] ELSE g[k - 1] \o s[k]
           upTo(g, k) == g = [j \in 1..k |-> step(g, j)]
           T == {k \in 0..n : k = 0 \/ \E g : upTo(g, k)}
<1>1. 0 \in T
  OBVIOUS
<1>2. ASSUME NEW k \in 0..n, k # n, k \in T PROVE k + 1 \in T
  <2> DEFINE next(g) == [j \in 1..k + 1 |-> IF j <= k THEN g[j] ELSE step(g, j)]
  <2>1. CASE k = 0
    <3>1. upTo([j \in 1..1 |-> s[j]], 1)
      OBVIOUS
    <3>2. 1 \in 0..n /\ k + 1 = 1
      BY <2>1
    <3> HIDE DEF upTo
    <3> QED
      BY <3>1, <3>2
  <2>2. CASE k # 0
    <3>1. PICK g : upTo(g, k)
      BY <1>2, <2>2
    <3> DEFINE h == next(g)
    <3>2. ASSUME NEW j \in 1..k + 1 PROVE h[j] = step(h, j)
      <4>1. CASE j = 1
        <5>1. j <= k /\ j \in 1..k
          BY <2>2, <4>1
        <5>2. g[j] = step(g, j)
          <6> HIDE DEF step
          <6> QED
            BY <3>1, <5>1
        <5> QED
          BY <4>1, <5>1, <5>2
      <4>2. CASE j # 1
        <5>1. j - 1 \in 1..k + 1 /\ j - 1 <= k
          BY <4>2
        <5>2. h[j - 1] = g[j - 1]
          BY <5>1
        <5>3. step(h, j) = step(g, j)
          BY <5>2
        <5>4. j <= k => g[j] = step(g, j)
          <6>1. j <= k => j \in 1..k
            OBVIOUS
          <6> HIDE DEF step
          <6> QED
            BY <3>1, <6>1
        <5>5. h[j] = step(g, j)
          <6> HIDE DEF step
          <6> QED
            BY <5>4
        <5> QED
          BY <5>3, <5>5
      <4> QED
        BY <4>1, <4>2
    <3>3. upTo(h, k + 1)
      <4>1. h = [j \in 1..k + 1 |-> h[j]]
        OBVIOUS
      <4> HIDE DEF h, step
      <4> QED
        BY <3>2, <4>1
    <3>4. k + 1 \in 0..n
      BY <1>2
    <3> HIDE DEF upTo
    <3> QED
      BY <3>3, <3>4
  <2> QED
    BY <2>1, <2>2
<1> HIDE DEF T
<1>3. \A k \in 0..n : k \in T
  BY <1>1, <1>2, CountUp
<1>4. n \in T
  BY <1>3
<1> QED
  BY <1>4 DEF T

\* A sequence of sequences.
LEMMA SeqOfSeqs ==
  ASSUME NEW S, NEW s \in Seq(Seq(S))
  PROVE  Len(s) \in Nat /\ \A j \in 1..Len(s) : s[j] \in Seq(S)
<1> DEFINE T == Seq(S)
<1>1. s \in Seq(T)
  OBVIOUS
<1> HIDE DEF T
<1>2. Len(s) \in Nat /\ \A j \in 1..Len(s) : s[j] \in T
  BY <1>1, LenProperties, ElementOfSeq
<1> QED
  BY <1>2 DEF T

\* What is joined is a sequence of elements.
LEMMA JoinsType ==
  ASSUME NEW S, NEW s \in Seq(Seq(S)), NEW f, Joins(s, f)
  PROVE  \A j \in 0..Len(s) : f[j] \in Seq(S)
<1> DEFINE T == {j \in 0..Len(s) : f[j] \in Seq(S)}
<1>0. Len(s) \in Nat /\ \A j \in 1..Len(s) : s[j] \in Seq(S)
  BY SeqOfSeqs
<1>1. 0 \in T
  <2>1. f[0] = <<>>
    BY DEF Joins
  <2>2. <<>> \in Seq(S)
    OBVIOUS
  <2>3. f[0] \in Seq(S)
    BY <2>1, <2>2, Zenon
  <2> QED
    BY <1>0, <2>3
<1>2. ASSUME NEW k \in 0..Len(s), k # Len(s), k \in T PROVE k + 1 \in T
  <2> DEFINE j == k + 1
  <2>1. j \in 1..Len(s) /\ j \in 0..Len(s) /\ j - 1 = k
    BY <1>0, <1>2
  <2> HIDE DEF j
  <2>2. f[j] = f[k] \o s[j]
    BY <2>1, JoinsStep, Zenon
  <2>3. f[k] \in Seq(S) /\ s[j] \in Seq(S)
    BY <1>0, <1>2, <2>1
  <2>4. f[k] \o s[j] \in Seq(S)
    BY <2>3, ConcatProperties
  <2>5. f[j] \in Seq(S)
    BY <2>2, <2>4, Zenon
  <2>6. j \in T
    BY <2>1, <2>5
  <2> QED
    BY <2>6 DEF j
<1> HIDE DEF T
<1>3. \A k \in 0..Len(s) : k \in T
  BY <1>0, <1>1, <1>2, CountUp
<1> QED
  BY <1>3 DEF T

\* There is one way only to join.
LEMMA JoinsOnce ==
  ASSUME NEW s, Len(s) \in Nat, NEW f, NEW g, Joins(s, f), Joins(s, g)
  PROVE  f[Len(s)] = g[Len(s)]
<1> DEFINE T == {j \in 0..Len(s) : f[j] = g[j]}
<1>1. 0 \in T
  BY DEF Joins
<1>2. ASSUME NEW k \in 0..Len(s), k # Len(s), k \in T PROVE k + 1 \in T
  <2> DEFINE j == k + 1
  <2>1. j \in 1..Len(s) /\ j \in 0..Len(s) /\ j - 1 = k
    BY <1>2
  <2> HIDE DEF j
  <2>2. f[j] = f[k] \o s[j]
    BY <2>1, JoinsStep, Zenon
  <2>3. g[j] = g[k] \o s[j]
    BY <2>1, JoinsStep, Zenon
  <2>4. f[j] = g[j]
    <3>1. f[k] = g[k]
      BY <1>2
    <3> QED
      BY <2>2, <2>3, <3>1, Zenon
  <2>5. j \in T
    BY <2>1, <2>4
  <2> QED
    BY <2>5 DEF j
<1> HIDE DEF T
<1>3. \A k \in 0..Len(s) : k \in T
  BY <1>1, <1>2, CountUp
<1>4. Len(s) \in T
  BY <1>3
<1> QED
  BY <1>4 DEF T

\* FlattenSeq joins.
LEMMA FlattenJoins ==
  ASSUME NEW S, NEW s \in Seq(Seq(S))
  PROVE  \E f : Joins(s, f) /\ f[Len(s)] = FlattenSeq(s)
<1>0. Len(s) \in Nat /\ \A j \in 1..Len(s) : s[j] \in Seq(S)
  BY SeqOfSeqs
<1>1. CASE Len(s) = 0
  <2>1. s = <<>>
    BY <1>1, EmptySeq
  <2>2. FlattenSeq(s) = <<>>
    BY <1>1, <2>1 DEF FlattenSeq
  <2>3. Joins(s, [j \in 0..0 |-> <<>>])
    BY <1>1 DEF Joins
  <2> QED
    BY <1>1, <2>2, <2>3
<1>2. CASE Len(s) # 0
  <2> DEFINE n == Len(s)
             flat == CHOOSE g : g = [k \in 1..n |-> IF k = 1 THEN s[k] ELSE g[k - 1] \o s[k]]
  <2>1. FlattenSeq(s) = flat[n]
    BY <1>2 DEF FlattenSeq
  <2>2. flat = [k \in 1..n |-> IF k = 1 THEN s[k] ELSE flat[k - 1] \o s[k]]
    <3>1. n \in Nat \ {0}
      BY <1>0, <1>2
    <3> HIDE DEF n
    <3>2. \E g : g = [k \in 1..n |-> IF k = 1 THEN s[k] ELSE g[k - 1] \o s[k]]
      BY <3>1, FlattenExists
    <3> QED
      BY <3>2
  <2> HIDE DEF flat
  <2> DEFINE f == [j \in 0..n |-> IF j = 0 THEN <<>> ELSE flat[j]]
  <2>3. ASSUME NEW j \in 1..n PROVE f[j] = f[j - 1] \o s[j]
    <3>0. n \in Nat
      BY <1>0
    <3> HIDE DEF n
    <3>1. flat[j] = IF j = 1 THEN s[j] ELSE flat[j - 1] \o s[j]
      BY <2>2
    <3>2. f[j] = flat[j]
      BY <3>0
    <3>3. CASE j = 1
      <4>1. f[j - 1] = <<>>
        BY <3>0, <3>3
      <4>2. <<>> \o s[j] = s[j]
        BY <1>0, ConcatEmptySeq DEF n
      <4> QED
        BY <3>1, <3>2, <3>3, <4>1, <4>2
    <3>4. CASE j # 1
      <4>1. j - 1 \in 0..n /\ j - 1 # 0
        BY <3>0, <3>4
      <4>2. f[j - 1] = flat[j - 1]
        BY <4>1
      <4> QED
        BY <3>1, <3>2, <3>4, <4>2
    <3> QED
      BY <3>3, <3>4
  <2>4. f[0] = <<>> /\ f[n] = flat[n]
    BY <1>0, <1>2
  <2> HIDE DEF f
  <2>5. Joins(s, f)
    BY <2>3, <2>4 DEF Joins
  <2> QED
    BY <2>1, <2>4, <2>5
<1> QED
  BY <1>1, <1>2

\* What FlattenSeq returns.
LEMMA FlattenIs ==
  ASSUME NEW S, NEW s \in Seq(Seq(S)), NEW f, Joins(s, f)
  PROVE  FlattenSeq(s) = f[Len(s)] /\ FlattenSeq(s) \in Seq(S)
<1>1. PICK g : Joins(s, g) /\ g[Len(s)] = FlattenSeq(s)
  BY FlattenJoins
<1>2. Len(s) \in Nat
  BY LenProperties
<1>3. f[Len(s)] = g[Len(s)]
  BY <1>1, <1>2, JoinsOnce
<1>4. Len(s) \in 0..Len(s)
  BY <1>2
<1>5. f[Len(s)] \in Seq(S)
  BY <1>4, JoinsType
<1> QED
  BY <1>1, <1>3, <1>5

LEMMA FlattenType ==
  ASSUME NEW S, NEW s \in Seq(Seq(S))
  PROVE  FlattenSeq(s) \in Seq(S)
BY FlattenJoins, FlattenIs

\* The elements of two sequences of sequences.
LEMMA FlattenConcat ==
  ASSUME NEW S, NEW a \in Seq(Seq(S)), NEW b \in Seq(Seq(S))
  PROVE  FlattenSeq(a \o b) = FlattenSeq(a) \o FlattenSeq(b)
<1>1. PICK f : Joins(a, f) /\ f[Len(a)] = FlattenSeq(a)
  BY FlattenJoins
<1>2. PICK g : Joins(b, g) /\ g[Len(b)] = FlattenSeq(b)
  BY FlattenJoins
<1> DEFINE n == Len(a)
           m == Len(b)
           x == FlattenSeq(a)
           c == a \o b
           h == [j \in 0..n + m |-> IF j <= n THEN f[j] ELSE x \o g[j - n]]
<1>3. n \in Nat /\ m \in Nat /\ x \in Seq(S) /\ c \in Seq(Seq(S)) /\ Len(c) = n + m
  <2>1. x \in Seq(S)
    BY FlattenType
  <2> DEFINE T == Seq(S)
  <2>2. a \in Seq(T) /\ b \in Seq(T)
    OBVIOUS
  <2> HIDE DEF T
  <2>3. n \in Nat /\ m \in Nat /\ c \in Seq(T) /\ Len(c) = n + m
    BY <2>2, LenProperties, ConcatProperties
  <2> QED
    BY <2>1, <2>3 DEF T
<1>4. /\ \A j \in 0..m : g[j] \in Seq(S)
      /\ \A j \in 1..m : b[j] \in Seq(S)
  BY <1>2, JoinsType, SeqOfSeqs
<1>5. \A j \in 1..n + m : c[j] = IF j <= n THEN a[j] ELSE b[j - n]
  <2> DEFINE T == Seq(S)
  <2>1. a \in Seq(T) /\ b \in Seq(T)
    OBVIOUS
  <2> HIDE DEF T
  <2> QED
    BY <2>1, ConcatProperties
<1> HIDE DEF x, c
<1>6. ASSUME NEW j \in 1..n + m PROVE h[j] = h[j - 1] \o c[j]
  <2>1. CASE j <= n
    <3>1. j \in 1..n /\ j \in 0..n + m /\ j - 1 \in 0..n + m /\ j - 1 <= n
      BY <1>3, <2>1
    <3>2. h[j] = f[j] /\ h[j - 1] = f[j - 1] /\ c[j] = a[j]
      BY <1>5, <2>1, <3>1
    <3>3. f[j] = f[j - 1] \o a[j]
      <4>1. j \in 1..Len(a)
        BY <3>1
      <4>2. \A i \in 1..Len(a) : f[i] = f[i - 1] \o a[i]
        BY <1>1, Zenon DEF Joins
      <4> QED
        BY <4>1, <4>2, Zenon
    <3> QED
      BY <3>2, <3>3
  <2>2. CASE ~(j <= n)
    <3> DEFINE i == j - n
    <3>1. /\ i \in 1..m /\ i - 1 \in 0..m /\ j \in 0..n + m /\ j - 1 \in 0..n + m
          /\ j - 1 - n = i - 1
          /\ j - 1 <= n => j - 1 = n /\ i - 1 = 0
      <4>1. n \in Nat /\ m \in Nat /\ j \in 1..n + m
        BY <1>3
      <4> HIDE DEF n, m
      <4> QED
        BY <2>2, <4>1
    <3> HIDE DEF i
    <3>2. c[j] = b[i]
      BY <1>5, <2>2 DEF i
    <3>3. h[j] = x \o g[i]
      BY <2>2, <3>1 DEF i
    <3>4. h[j - 1] = x \o g[i - 1]
      <4>1. CASE j - 1 <= n
        <5>1. h[j - 1] = x
          BY <1>1, <3>1, <4>1 DEF x
        <5>2. g[i - 1] = <<>>
          BY <1>2, <3>1, <4>1 DEF Joins
        <5> QED
          BY <1>3, <5>1, <5>2, ConcatEmptySeq
      <4>2. CASE ~(j - 1 <= n)
        BY <3>1, <4>2
      <4> QED
        BY <4>1, <4>2
    <3>5. g[i] = g[i - 1] \o b[i]
      <4>1. i \in 1..Len(b)
        BY <3>1
      <4>2. \A k \in 1..Len(b) : g[k] = g[k - 1] \o b[k]
        BY <1>2, Zenon DEF Joins
      <4> QED
        BY <4>1, <4>2, Zenon
    <3>6. (x \o g[i - 1]) \o b[i] = x \o (g[i - 1] \o b[i])
      <4> DEFINE p == g[i - 1]
                 q == b[i]
      <4>1. p \in Seq(S) /\ q \in Seq(S)
        BY <1>4, <3>1
      <4>2. x \in Seq(S)
        BY <1>3
      <4> HIDE DEF p, q, h, n, m
      <4>3. (x \o p) \o q = x \o (p \o q)
        BY <4>1, <4>2, ConcatAssociative
      <4> QED
        BY <4>3 DEF p, q
    <3> QED
      BY <3>2, <3>3, <3>4, <3>5, <3>6
  <2> QED
    BY <2>1, <2>2
<1>7. h[0] = <<>>
  BY <1>1, <1>3 DEF Joins
<1>8. h[n + m] = x \o g[m]
  <2>1. CASE m = 0
    <3>1. h[n + m] = f[n] /\ g[m] = <<>>
      BY <1>2, <1>3, <2>1 DEF Joins
    <3>2. x \o <<>> = x
      BY <1>3, ConcatEmptySeq
    <3> QED
      BY <1>1, <3>1, <3>2 DEF x
  <2>2. CASE m # 0
    <3>1. n \in Nat /\ m \in Nat
      BY <1>3
    <3> HIDE DEF n, m
    <3>2. n + m \in 0..n + m /\ ~(n + m <= n) /\ (n + m) - n = m
      BY <2>2, <3>1
    <3> QED
      BY <3>2
  <2> QED
    BY <2>1, <2>2
<1> HIDE DEF h, n, m
<1>9. Joins(c, h)
  BY <1>3, <1>6, <1>7 DEF Joins
<1>10. FlattenSeq(c) = h[n + m]
  BY <1>3, <1>9, FlattenIs
<1> QED
  BY <1>2, <1>8, <1>10 DEF c, x, n, m

\* One sequence.
LEMMA FlattenOne ==
  ASSUME NEW S, NEW s \in Seq(S)
  PROVE  <<s>> \in Seq(Seq(S)) /\ FlattenSeq(<<s>>) = s
<1> DEFINE f == [j \in 0..1 |-> IF j = 0 THEN <<>> ELSE s]
           T == Seq(S)
<1>1. <<s>> \in Seq(T) /\ Len(<<s>>) = 1 /\ <<s>>[1] = s
  <2>1. s \in T
    OBVIOUS
  <2> HIDE DEF T
  <2> QED
    BY <2>1
<1>2. <<>> \o s = s
  BY ConcatEmptySeq
<1>3. f[0] = <<>> /\ f[1] = s
  OBVIOUS
<1> HIDE DEF f
<1>4. Joins(<<s>>, f)
  <2> DEFINE q == <<s>>
  <2>1. f[1] = f[0] \o q[1]
    BY <1>1, <1>2, <1>3
  <2>2. \A j \in 1..Len(q) : j = 1 /\ j - 1 = 0
    BY <1>1
  <2> HIDE DEF q
  <2>3. \A j \in 1..Len(q) : f[j] = f[j - 1] \o q[j]
    BY <2>1, <2>2, Zenon
  <2>4. Joins(q, f)
    BY <1>3, <2>3, Zenon DEF Joins
  <2> QED
    BY <2>4 DEF q
<1> QED
  BY <1>1, <1>3, <1>4, FlattenIs

\* What is to be executed next moves from one list to the other.
LEMMA MoveHead ==
  ASSUME NEW S, NEW a \in Seq(S), NEW b \in Seq(S), b # <<>>
  PROVE  /\ Append(a, Head(b)) \in Seq(S) /\ Tail(b) \in Seq(S)
         /\ Append(a, Head(b)) \o Tail(b) = a \o b
<1>0. Len(a) \in Nat /\ Len(b) \in Nat \ {0}
  BY LenProperties, EmptySeq
<1> DEFINE x == Append(a, Head(b))
           y == Tail(b)
<1>1. /\ Head(b) = b[1] /\ Head(b) \in S
      /\ y \in Seq(S) /\ Len(y) = Len(b) - 1 /\ \A k \in 1..Len(b) - 1 : y[k] = b[k + 1]
  BY HeadTailProperties
<1>2. /\ x \in Seq(S) /\ Len(x) = Len(a) + 1
      /\ \A k \in 1..Len(a) : x[k] = a[k]
      /\ x[Len(a) + 1] = b[1]
  BY <1>1, AppendProperties
<1> HIDE DEF x, y
<1>3. /\ x \o y \in Seq(S) /\ Len(x \o y) = Len(x) + Len(y)
      /\ \A k \in 1..Len(x) + Len(y) : (x \o y)[k] = IF k <= Len(x) THEN x[k] ELSE y[k - Len(x)]
  BY <1>1, <1>2, ConcatProperties
<1>4. /\ a \o b \in Seq(S) /\ Len(a \o b) = Len(a) + Len(b)
      /\ \A k \in 1..Len(a) + Len(b) : (a \o b)[k] = IF k <= Len(a) THEN a[k] ELSE b[k - Len(a)]
  BY ConcatProperties
<1>5. Len(x) + Len(y) = Len(a) + Len(b)
  BY <1>0, <1>1, <1>2
<1>6. ASSUME NEW k \in 1..Len(a) + Len(b) PROVE (x \o y)[k] = (a \o b)[k]
  <2>1. CASE k <= Len(a)
    <3>1. k \in 1..Len(a) /\ k <= Len(x)
      BY <1>0, <1>2, <2>1
    <3> QED
      BY <1>2, <1>3, <1>4, <1>5, <2>1, <3>1
  <2>2. CASE k = Len(a) + 1
    <3>1. k <= Len(x) /\ ~(k <= Len(a)) /\ k - Len(a) = 1
      BY <1>0, <1>2, <2>2
    <3> QED
      BY <1>2, <1>3, <1>4, <1>5, <2>2, <3>1
  <2>3. CASE k > Len(a) + 1
    <3>1. /\ ~(k <= Len(x)) /\ ~(k <= Len(a)) /\ k - Len(x) \in 1..Len(b) - 1
          /\ k - Len(x) + 1 = k - Len(a)
      BY <1>0, <1>2, <2>3
    <3>2. (x \o y)[k] = y[k - Len(x)] /\ (a \o b)[k] = b[k - Len(a)]
      BY <1>3, <1>4, <1>5, <3>1
    <3> QED
      BY <1>1, <3>1, <3>2
  <2>4. k <= Len(a) \/ k = Len(a) + 1 \/ k > Len(a) + 1
    BY <1>0
  <2> QED
    BY <2>1, <2>2, <2>3, <2>4, Zenon
<1>7. x \o y = a \o b
  BY <1>3, <1>4, <1>5, <1>6, SeqEqual
<1> QED
  BY <1>1, <1>2, <1>7 DEF x, y
=============================================================================
