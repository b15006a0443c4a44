-------------------------- MODULE FlatteningProofs --------------------------
(***************************************************************************)
(* Induction over the natural numbers, and what FlattenSeq makes of a       *)
(* sequence of sequences that grows at its end or loses its first element.  *)
(***************************************************************************)
EXTENDS Integers, Sequences, SequencesExt, SequenceTheorems,
        WellFoundedInduction, TLAPS

LEMMA SmallestNumber ==
  ASSUME NEW T \in SUBSET Nat, T # {}
  PROVE  \E n \in T : \A m \in T : n <= m
<1> DEFINE less == OpToRel(<, Nat)
<1>1. ASSUME NEW m \in Nat, NEW n \in Nat, m < n PROVE <<m, n>> \in less
  <2>1. <<m, n>> \in {p \in Nat \X Nat : p[1] < p[2]}
    BY <1>1
  <2>2. <<m, n>> \in Nat \X Nat
    OBVIOUS
  <2> QED
    BY <1>1, <2>1, <2>2, Zenon DEF OpToRel
<1>2. IsWellFoundedOn(less, Nat)
  BY NatLessThanWellFounded
<1> HIDE DEF less
<1>3. PICK n \in T : \A m \in T : ~(<<m, n>> \in less)
  BY <1>2, WFMin
<1>4. \A m \in T : ~(m < n)
  BY <1>1, <1>3
<1> QED
  BY <1>3, <1>4

LEMMA Induction ==
  ASSUME NEW T \in SUBSET Nat, 0 \in T, \A n \in T : n + 1 \in T
  PROVE  T = Nat
<1> SUFFICES ASSUME Nat \ T # {} PROVE FALSE
  OBVIOUS
<1>1. PICK n \in Nat \ T : \A m \in Nat \ T : n <= m
  BY SmallestNumber
<1>2. n # 0 /\ n - 1 \in Nat
  BY <1>1
<1>3. n - 1 \in T
  BY <1>1, <1>2
<1>4. (n - 1) + 1 \in T
  BY <1>3
<1> QED
  BY <1>1, <1>2, <1>4

-----------------------------------------------------------------------------
(* The joined beginnings of a sequence, as FlattenSeq computes them.        *)
Beginnings(seqs) ==
  LET flatten[i \in 1..Len(seqs)] ==
        IF i = 1 THEN seqs[i] ELSE flatten[i-1] \o seqs[i]
  IN  flatten

Joins(g, seqs, n) ==
  g = [i \in 1..n |-> IF i = 1 THEN seqs[i] ELSE g[i-1] \o seqs[i]]

LEMMA JoinsExist ==
  ASSUME NEW S, NEW seqs \in Seq(Seq(S))
  PROVE  \E g \in [1..Len(seqs) -> Seq(S)] : Joins(g, seqs, Len(seqs))
<1> DEFINE P(n) == \E g \in [1..n -> Seq(S)] : Joins(g, seqs, n)
           T == {n \in Nat : n <= Len(seqs) => P(n)}
<1>1. P(0)
  <2> DEFINE none == [i \in 1..0 |-> <<>>]
  <2>1. none \in [1..0 -> Seq(S)] /\ Joins(none, seqs, 0)
    BY DEF Joins
  <2> QED
    BY <2>1
<1>2. ASSUME NEW n \in Nat, n + 1 <= Len(seqs), P(n) PROVE P(n + 1)
  <2>1. PICK g \in [1..n -> Seq(S)] : Joins(g, seqs, n)
    BY <1>2
  <2> DEFINE new == IF n + 1 = 1 THEN seqs[n + 1] ELSE g[n] \o seqs[n + 1]
             h == [i \in 1..(n + 1) |-> IF i = n + 1 THEN new ELSE g[i]]
  <2>2. new \in Seq(S)
    <3>1. seqs[n + 1] \in Seq(S)
      BY <1>2
    <3>2. CASE n = 0
      BY <3>1, <3>2
    <3>3. CASE n # 0
      <4>1. g[n] \in Seq(S)
        BY <3>3
      <4> QED
        BY <3>1, <3>3, <4>1
    <3> QED
      BY <3>2, <3>3
  <2>3. h \in [1..(n + 1) -> Seq(S)]
    BY <2>2
  <2>4. \A i \in 1..(n + 1) :
          h[i] = IF i = 1 THEN seqs[i] ELSE h[i-1] \o seqs[i]
    <3> SUFFICES ASSUME NEW i \in 1..(n + 1)
                 PROVE  h[i] = IF i = 1 THEN seqs[i] ELSE h[i-1] \o seqs[i]
      OBVIOUS
    <3>1. CASE i = n + 1
      BY <3>1
    <3>2. CASE i # n + 1
      <4>1. i \in 1..n /\ h[i] = g[i]
        BY <3>2
      <4>2. g[i] = IF i = 1 THEN seqs[i] ELSE g[i-1] \o seqs[i]
        BY <2>1, <4>1 DEF Joins
      <4>3. i # 1 => h[i-1] = g[i-1]
        BY <4>1
      <4> QED
        BY <4>1, <4>2, <4>3
    <3> QED
      BY <3>1, <3>2
  <2> HIDE DEF h
  <2>5. Joins(h, seqs, n + 1)
    BY <2>3, <2>4 DEF Joins
  <2> QED
    BY <2>3, <2>5
<1> HIDE DEF P
<1>3. 0 \in T
  BY <1>1
<1>4. \A n \in T : n + 1 \in T
  BY <1>2
<1> HIDE DEF T
<1>5. T = Nat
  <2>1. T \in SUBSET Nat
    BY DEF T
  <2> QED
    BY <1>3, <1>4, <2>1, Induction
<1>6. P(Len(seqs))
  BY <1>5 DEF T
<1> QED
  BY <1>6 DEF P

(* There is no other. *)
Alike(s, t, m) == \A i \in 1..m : s[i] = t[i]

LEMMA JoinsAgree ==
  ASSUME NEW s, NEW t, NEW k \in Nat, NEW l \in Nat,
         NEW m \in Nat, m <= k, m <= l, Alike(s, t, m),
         NEW g, Joins(g, s, k), NEW h, Joins(h, t, l)
  PROVE  Alike(g, h, m)
<1> DEFINE T == {n \in Nat : n \in 1..m => g[n] = h[n]}
<1>1. \A i \in 1..k : g[i] = IF i = 1 THEN s[i] ELSE g[i-1] \o s[i]
  BY DEF Joins
<1>2. \A i \in 1..l : h[i] = IF i = 1 THEN t[i] ELSE h[i-1] \o t[i]
  BY DEF Joins
<1>3. 0 \in T
  OBVIOUS
<1>4. ASSUME NEW n \in T PROVE n + 1 \in T
  <2> SUFFICES ASSUME n + 1 \in 1..m PROVE g[n + 1] = h[n + 1]
    OBVIOUS
  <2>1. n + 1 \in 1..k /\ n + 1 \in 1..l /\ s[n + 1] = t[n + 1]
    BY DEF Alike
  <2>2. g[n + 1] = IF n + 1 = 1 THEN s[n + 1] ELSE g[(n + 1) - 1] \o s[n + 1]
    BY <1>1, <2>1
  <2>3. h[n + 1] = IF n + 1 = 1 THEN t[n + 1] ELSE h[(n + 1) - 1] \o t[n + 1]
    BY <1>2, <2>1
  <2>4. CASE n = 0
    BY <2>1, <2>2, <2>3, <2>4
  <2>5. CASE n # 0
    <3>1. g[n] = h[n] /\ (n + 1) - 1 = n
      BY <2>5
    <3> QED
      BY <2>1, <2>2, <2>3, <2>5, <3>1
  <2> QED
    BY <2>4, <2>5
<1> HIDE DEF T
<1>5. T = Nat
  <2>1. T \in SUBSET Nat
    BY DEF T
  <2> QED
    BY <1>3, <1>4, <2>1, Induction
<1>6. ASSUME NEW i \in 1..m PROVE g[i] = h[i]
  <2>1. i \in T
    BY <1>5
  <2> QED
    BY <2>1 DEF T
<1> QED
  BY <1>6 DEF Alike

LEMMA BeginningsJoin ==
  ASSUME NEW S, NEW seqs \in Seq(Seq(S))
  PROVE  /\ Joins(Beginnings(seqs), seqs, Len(seqs))
         /\ Beginnings(seqs) \in [1..Len(seqs) -> Seq(S)]
<1>1. PICK g \in [1..Len(seqs) -> Seq(S)] : Joins(g, seqs, Len(seqs))
  BY JoinsExist
<1>2. Joins(Beginnings(seqs), seqs, Len(seqs))
  BY <1>1 DEF Joins, Beginnings
<1>3. \A i \in 1..Len(seqs) : Beginnings(seqs)[i] = g[i]
  <2> DEFINE n == Len(seqs)
  <2>1. n \in Nat /\ n <= n /\ Alike(seqs, seqs, n)
    BY DEF Alike
  <2>2. Alike(Beginnings(seqs), g, n)
    BY <1>1, <1>2, <2>1, JoinsAgree
  <2> QED
    BY <2>2 DEF Alike
<1>4. DOMAIN Beginnings(seqs) = 1..Len(seqs) /\ Beginnings(seqs) = [i \in 1..Len(seqs) |-> Beginnings(seqs)[i]]
  BY <1>2 DEF Joins
<1> QED
  BY <1>1, <1>2, <1>3, <1>4

LEMMA FlattenIsWholeBeginning ==
  ASSUME NEW S, NEW seqs \in Seq(Seq(S)), seqs # <<>>
  PROVE  FlattenSeq(seqs) = Beginnings(seqs)[Len(seqs)]
  BY DEF Beginnings, FlattenSeq

LEMMA FlattenEmpty == FlattenSeq(<<>>) = <<>>
  BY DEF FlattenSeq

(* Nothing but what is in the sequences is in the flattened one. *)
LEMMA FlattenType ==
  ASSUME NEW S, NEW seqs \in Seq(Seq(S))
  PROVE  FlattenSeq(seqs) \in Seq(S)
<1>1. CASE seqs = <<>>
  <2>1. <<>> \in Seq(S)
    OBVIOUS
  <2> QED
    BY <1>1, <2>1, FlattenEmpty, Zenon
<1>2. CASE seqs # <<>>
  <2>1. Len(seqs) \in 1..Len(seqs)
    BY <1>2
  <2>2. Beginnings(seqs) \in [1..Len(seqs) -> Seq(S)]
    BY BeginningsJoin
  <2>3. FlattenSeq(seqs) = Beginnings(seqs)[Len(seqs)]
    BY <1>2, FlattenIsWholeBeginning
  <2> QED
    BY <2>1, <2>2, <2>3, Zenon
<1> QED
  BY <1>1, <1>2

LEMMA FlattenAppend ==
  ASSUME NEW S, NEW seqs \in Seq(Seq(S)), NEW s \in Seq(S)
  PROVE  FlattenSeq(Append(seqs, s)) = FlattenSeq(seqs) \o s
<1> DEFINE all == Append(seqs, s)
           n == Len(seqs)
<1>1. /\ all \in Seq(Seq(S)) /\ all # <<>> /\ Len(all) = n + 1 /\ n \in Nat
      /\ all[n + 1] = s /\ \A i \in 1..n : all[i] = seqs[i]
  <2>1. seqs \in Seq(Seq(S)) /\ s \in Seq(S)
    OBVIOUS
  <2> DEFINE U == Seq(S)
  <2> HIDE DEF U
  <2>2. seqs \in Seq(U) /\ s \in U
    BY <2>1 DEF U
  <2>3. n \in Nat /\ all \in Seq(U) /\ Len(all) = n + 1 /\ all[n + 1] = s
        /\ \A i \in 1..n : all[i] = seqs[i]
    BY <2>2, AppendProperties
  <2>4. all # <<>>
    BY <2>2, AppendProperties
  <2> QED
    BY <2>3, <2>4 DEF U
<1> HIDE DEF all
<1>2. Joins(Beginnings(all), all, n + 1)
  BY <1>1, BeginningsJoin
<1>3. Beginnings(all)[n + 1] = IF n + 1 = 1 THEN all[n + 1]
                           ELSE Beginnings(all)[(n + 1) - 1] \o all[n + 1]
  <2>1. n + 1 \in 1..(n + 1)
    BY <1>1
  <2> QED
    BY <1>2, <2>1 DEF Joins
<1>4. FlattenSeq(all) = Beginnings(all)[n + 1]
  BY <1>1, FlattenIsWholeBeginning
<1>5. CASE n = 0
  <2>1. seqs = <<>>
    BY <1>5
  <2>2. FlattenSeq(seqs) \o s = s
    BY <2>1, FlattenEmpty
  <2> QED
    BY <1>1, <1>3, <1>4, <1>5, <2>2 DEF all
<1>6. CASE n # 0
  <2>1. Beginnings(all)[n] = Beginnings(seqs)[n]
    <3>1. Joins(Beginnings(seqs), seqs, Len(seqs)) /\ Joins(Beginnings(all), all, Len(all))
      BY <1>1, BeginningsJoin
    <3>2. n \in Nat /\ n <= Len(seqs) /\ n <= Len(all) /\ n \in 1..n
      BY <1>1, <1>6
    <3> DEFINE g == Beginnings(seqs)
               h == Beginnings(all)
    <3> HIDE DEF g, h
    <3>3. \A i \in 1..n : g[i] = h[i]
      <4>1. Joins(g, seqs, Len(seqs)) /\ Joins(h, all, Len(all))
        BY <3>1 DEF g, h
      <4>2. Alike(seqs, all, n)
        BY <1>1 DEF Alike
      <4>3. Len(seqs) \in Nat /\ Len(all) \in Nat
        BY <1>1
      <4> HIDE DEF n
      <4>4. Alike(g, h, n)
        BY <3>2, <4>1, <4>2, <4>3, JoinsAgree
      <4> QED
        BY <4>4 DEF Alike
    <3>4. \A i \in 1..n : Beginnings(seqs)[i] = Beginnings(all)[i]
      BY <3>3 DEF g, h
    <3> QED
      BY <3>2, <3>4
  <2>2. FlattenSeq(seqs) = Beginnings(seqs)[n]
    BY <1>6, FlattenIsWholeBeginning
  <2>3. (n + 1) - 1 = n /\ n + 1 # 1
    BY <1>1, <1>6
  <2> QED
    BY <1>1, <1>3, <1>4, <2>1, <2>2, <2>3 DEF all
<1> QED
  BY <1>5, <1>6

LEMMA FlattenConcat ==
  ASSUME NEW S, NEW s \in Seq(Seq(S)), NEW t \in Seq(Seq(S))
  PROVE  FlattenSeq(s \o t) = FlattenSeq(s) \o FlattenSeq(t)
<1> DEFINE begin(n) == SubSeq(t, 1, n)
           T == {n \in Nat : n <= Len(t) =>
                   FlattenSeq(s \o begin(n)) = FlattenSeq(s) \o FlattenSeq(begin(n))}
<1>0. \A x, y, z \in Seq(S) : (x \o y) \o z = x \o (y \o z)
  BY ConcatAssociative, SMTT(40)
<1>1. 0 \in T
  <2>1. begin(0) = <<>> /\ s \o <<>> = s
    OBVIOUS
  <2>2. FlattenSeq(s) \o <<>> = FlattenSeq(s)
    BY FlattenType
  <2> QED
    BY <2>1, <2>2, FlattenEmpty
<1>2. ASSUME NEW n \in T PROVE n + 1 \in T
  <2> SUFFICES ASSUME n + 1 <= Len(t)
               PROVE  FlattenSeq(s \o begin(n + 1)) =
                        FlattenSeq(s) \o FlattenSeq(begin(n + 1))
    OBVIOUS
  <2> DEFINE b == begin(n)
             e == t[n + 1]
  <2>1. b \in Seq(Seq(S)) /\ e \in Seq(S)
    OBVIOUS
  <2>2. begin(n + 1) = Append(b, e)
    OBVIOUS
  <2>3. FlattenSeq(s \o b) = FlattenSeq(s) \o FlattenSeq(b)
    OBVIOUS
  <2> HIDE DEF b, e
  <2>4. s \o Append(b, e) = Append(s \o b, e) /\ s \o b \in Seq(Seq(S))
    BY <2>1, SMTT(60)
  <2>5. FlattenSeq(Append(s \o b, e)) = FlattenSeq(s \o b) \o e
    BY <2>1, <2>4, FlattenAppend
  <2>6. FlattenSeq(Append(b, e)) = FlattenSeq(b) \o e
    BY <2>1, FlattenAppend
  <2>7. FlattenSeq(s) \in Seq(S) /\ FlattenSeq(b) \in Seq(S)
    BY <2>1, FlattenType
  <2>8. (FlattenSeq(s) \o FlattenSeq(b)) \o e = FlattenSeq(s) \o (FlattenSeq(b) \o e)
    <3> DEFINE x == FlattenSeq(s)
               y == FlattenSeq(b)
    <3> HIDE DEF x, y
    <3>1. x \in Seq(S) /\ y \in Seq(S) /\ e \in Seq(S)
      BY <2>1, <2>7 DEF x, y
    <3>2. (x \o y) \o e = x \o (y \o e)
      BY <1>0, <3>1
    <3> QED
      BY <3>2 DEF x, y
  <2> QED
    BY <2>2, <2>3, <2>4, <2>5, <2>6, <2>8
<1>3. begin(Len(t)) = t /\ Len(t) \in Nat
  OBVIOUS
<1>4. T \in SUBSET Nat
  OBVIOUS
<1> HIDE DEF T
<1>5. T = Nat
  BY <1>1, <1>2, <1>4, Induction
<1>6. Len(t) \in T
  BY <1>3, <1>5
<1>7. FlattenSeq(s \o begin(Len(t))) = FlattenSeq(s) \o FlattenSeq(begin(Len(t)))
  BY <1>3, <1>6 DEF T
<1> QED
  BY <1>3, <1>7

LEMMA FlattenOne ==
  ASSUME NEW S, NEW s \in Seq(S)
  PROVE  FlattenSeq(<<s>>) = s
<1>1. <<>> \in Seq(Seq(S)) /\ Append(<<>>, s) = <<s>> /\ <<>> \o s = s
  OBVIOUS
<1> QED
  BY <1>1, FlattenAppend, FlattenEmpty

LEMMA FlattenTail ==
  ASSUME NEW S, NEW seqs \in Seq(Seq(S)), seqs # <<>>
  PROVE  FlattenSeq(seqs) = Head(seqs) \o FlattenSeq(Tail(seqs))
<1>1. /\ Head(seqs) \in Seq(S) /\ <<Head(seqs)>> \in Seq(Seq(S))
      /\ Tail(seqs) \in Seq(Seq(S)) /\ seqs = <<Head(seqs)>> \o Tail(seqs)
  OBVIOUS
<1>2. FlattenSeq(<<Head(seqs)>> \o Tail(seqs)) =
        FlattenSeq(<<Head(seqs)>>) \o FlattenSeq(Tail(seqs))
  BY <1>1, FlattenConcat
<1>3. FlattenSeq(<<Head(seqs)>>) = Head(seqs)
  BY <1>1, FlattenOne
<1> QED
  BY <1>1, <1>2, <1>3

-----------------------------------------------------------------------------
(* A sequence each entry of which is replaced by what F makes of it.        *)
EachOf(F, s) == FlattenSeq([i \in DOMAIN s |-> F[s[i]]])

Makes(F, S, R) == F \in [S -> Seq(R)]

LEMMA EachEmpty ==
  ASSUME NEW F, NEW s, s = <<>>
  PROVE  EachOf(F, s) = <<>>
<1>1. [i \in DOMAIN s |-> F[s[i]]] = <<>>
  OBVIOUS
<1> QED
  BY <1>1, FlattenEmpty DEF EachOf

LEMMA EachPieces ==
  ASSUME NEW R, NEW S, NEW F, Makes(F, S, R), NEW s \in Seq(S)
  PROVE  /\ [i \in DOMAIN s |-> F[s[i]]] \in Seq(Seq(R))
         /\ EachOf(F, s) \in Seq(R)
<1> DEFINE U == Seq(R)
           pieces == [i \in DOMAIN s |-> F[s[i]]]
<1>1. pieces \in Seq(U)
  <2> HIDE DEF U
  <2>1. F \in [S -> U]
    BY DEF U, Makes
  <2> QED
    BY <2>1
<1> HIDE DEF pieces
<1>2. FlattenSeq(pieces) \in Seq(R)
  BY <1>1, FlattenType
<1> QED
  BY <1>1, <1>2 DEF EachOf, pieces

LEMMA EachConcat ==
  ASSUME NEW R, NEW S, NEW F, Makes(F, S, R), NEW s \in Seq(S), NEW t \in Seq(S)
  PROVE  EachOf(F, s \o t) = EachOf(F, s) \o EachOf(F, t)
<1> DEFINE U == Seq(R)
           a == [i \in DOMAIN s |-> F[s[i]]]
           b == [i \in DOMAIN t |-> F[t[i]]]
           c == [i \in DOMAIN (s \o t) |-> F[(s \o t)[i]]]
<1>1. a \in Seq(U) /\ b \in Seq(U)
  BY EachPieces
<1>2. c = a \o b
  <2> HIDE DEF U
  <2>1. F \in [S -> U]
    BY DEF U, Makes
  <2>2. /\ DOMAIN c = 1..(Len(s) + Len(t))
        /\ \A i \in 1..(Len(s) + Len(t)) : (s \o t)[i] \in S
    OBVIOUS
  <2>3. c \in Seq(U)
    BY <2>1, <2>2
  <2>4. a \o b \in Seq(U) /\ Len(a) = Len(s) /\ Len(b) = Len(t)
    BY <1>1
  <2>5. \A i \in 1..(Len(s) + Len(t)) : c[i] = (a \o b)[i]
    BY <1>1, <2>1
  <2>6. Len(c) = Len(s) + Len(t)
    BY <2>2
  <2> HIDE DEF a, b, c
  <2>7. Len(a \o b) = Len(s) + Len(t)
    BY <1>1, <2>4
  <2> QED
    BY <2>3, <2>4, <2>5, <2>6, <2>7, SeqEqual
<1> HIDE DEF a, b, c
<1>3. FlattenSeq(a \o b) = FlattenSeq(a) \o FlattenSeq(b)
  BY <1>1, FlattenConcat
<1> QED
  BY <1>2, <1>3 DEF EachOf, a, b, c

LEMMA EachOne ==
  ASSUME NEW R, NEW S, NEW F, Makes(F, S, R), NEW e \in S
  PROVE  EachOf(F, <<e>>) = F[e]
<1> DEFINE U == Seq(R)
           pieces == [i \in DOMAIN <<e>> |-> F[(<<e>>)[i]]]
<1>1. F[e] \in Seq(R)
  BY DEF Makes
<1>2. pieces = <<F[e]>>
  <2> HIDE DEF U
  <2>1. DOMAIN <<e>> = 1..1 /\ (<<e>>)[1] = e
    OBVIOUS
  <2> QED
    BY <2>1
<1>3. FlattenSeq(<<F[e]>>) = F[e]
  BY <1>1, FlattenOne
<1> QED
  BY <1>2, <1>3 DEF EachOf

LEMMA EachAppend ==
  ASSUME NEW R, NEW S, NEW F, Makes(F, S, R), NEW s \in Seq(S), NEW e \in S
  PROVE  EachOf(F, Append(s, e)) = EachOf(F, s) \o F[e]
<1> DEFINE one == <<e>>
<1>1. Append(s, e) = s \o one /\ one \in Seq(S)
  OBVIOUS
<1>2. EachOf(F, one) = F[e]
  BY EachOne
<1> HIDE DEF one
<1>3. EachOf(F, s \o one) = EachOf(F, s) \o EachOf(F, one)
  BY <1>1, EachConcat
<1> QED
  BY <1>1, <1>2, <1>3

(* A sequence is made of its entries. *)
LEMMA EachItself ==
  ASSUME NEW S, NEW s \in Seq(S), NEW F, Makes(F, S, S), \A e \in S : F[e] = <<e>>
  PROVE  EachOf(F, s) = s
<1> DEFINE begin(n) == SubSeq(s, 1, n)
           T == {n \in Nat : n <= Len(s) => EachOf(F, begin(n)) = begin(n)}
<1>0. ASSUME NEW b \in Seq(S), NEW x \in S, EachOf(F, b) = b
      PROVE  EachOf(F, Append(b, x)) = Append(b, x)
  <2>1. EachOf(F, Append(b, x)) = EachOf(F, b) \o F[x]
    BY EachAppend
  <2>2. b \o <<x>> = Append(b, x)
    OBVIOUS
  <2> QED
    BY <1>0, <2>1, <2>2
<1>1. 0 \in T
  <2>1. begin(0) = <<>>
    OBVIOUS
  <2> QED
    BY <2>1, EachEmpty
<1>2. ASSUME NEW n \in T PROVE n + 1 \in T
  <2> SUFFICES ASSUME n + 1 <= Len(s)
               PROVE  EachOf(F, begin(n + 1)) = begin(n + 1)
    OBVIOUS
  <2> DEFINE b == begin(n)
             last == s[n + 1]
  <2>1. b \in Seq(S) /\ last \in S /\ begin(n + 1) = Append(b, last) /\ EachOf(F, b) = b
    OBVIOUS
  <2> HIDE DEF b, last
  <2> QED
    BY <1>0, <2>1
<1>3. Len(s) \in Nat /\ begin(Len(s)) = s
  OBVIOUS
<1>4. T = Nat
  <2>1. T \in SUBSET Nat
    OBVIOUS
  <2> HIDE DEF T
  <2> QED
    BY <1>1, <1>2, <2>1, Induction
<1>5. Len(s) \in T
  BY <1>3, <1>4
<1>6. EachOf(F, begin(Len(s))) = begin(Len(s))
  BY <1>3, <1>5
<1> QED
  BY <1>3, <1>6

-----------------------------------------------------------------------------
(* What holds of the empty sequence, and of a longer one if of a shorter,   *)
(* holds of all.                                                           *)
LEMMA SequenceInduction ==
  ASSUME NEW S, NEW T \in SUBSET Seq(S), <<>> \in T,
         \A s \in T : \A e \in S : Append(s, e) \in T
  PROVE  T = Seq(S)
<1> SUFFICES ASSUME NEW s \in Seq(S) PROVE s \in T
  OBVIOUS
<1> DEFINE begin(n) == SubSeq(s, 1, n)
           U == {n \in Nat : n <= Len(s) => begin(n) \in T}
<1>1. 0 \in U
  <2>1. begin(0) = <<>>
    OBVIOUS
  <2> QED
    BY <2>1
<1>2. ASSUME NEW n \in U PROVE n + 1 \in U
  <2> SUFFICES ASSUME n + 1 <= Len(s) PROVE begin(n + 1) \in T
    OBVIOUS
  <2>0. n \in Nat /\ n + 1 \in 1..Len(s)
    OBVIOUS
  <2>1. SubSeq(s, 1, n + 1) = Append(SubSeq(s, 1, n), s[n + 1]) /\ s[n + 1] \in S
    <3> HIDE DEF U
    <3>1. s[n + 1] \in S /\ SubSeq(s, 1, n) \in Seq(S)
      <4>1. s[n + 1] \in S
        BY <2>0, ElementOfSeq
      <4>2. 1 \in Int /\ n \in Int /\ \A i \in 1..n : s[i] \in S
        BY <2>0, ElementOfSeq
      <4> QED
        BY <4>1, <4>2, SubSeqProperties
    <3>2. SubSeq(s, 1, n + 1) = SubSeq(s, 1, (n + 1) - 1) \o <<s[n + 1]>>
      <4>1. 1 \in 1..Len(s) /\ n + 1 \in 1..Len(s)
        BY <2>0
      <4> QED
        BY <4>1, SubSeqRecursiveSecond
    <3>3. (n + 1) - 1 = n
      BY <2>0
    <3>4. Append(SubSeq(s, 1, n), s[n + 1]) = SubSeq(s, 1, n) \o <<s[n + 1]>>
      BY <3>1, AppendIsConcat
    <3> QED
      BY <3>1, <3>2, <3>3, <3>4
  <2>2. begin(n) \in T
    OBVIOUS
  <2> QED
    BY <2>1, <2>2
<1>3. Len(s) \in Nat /\ begin(Len(s)) = s
  OBVIOUS
<1>4. U = Nat
  <2>1. U \in SUBSET Nat
    OBVIOUS
  <2> HIDE DEF U
  <2> QED
    BY <1>1, <1>2, <2>1, Induction
<1>5. Len(s) <= Len(s) => begin(Len(s)) \in T
  BY <1>3, <1>4
<1>6. begin(Len(s)) \in T
  BY <1>3, <1>5
<1> HIDE DEF begin
<1> QED
  BY <1>3, <1>6

LEMMA EachTail ==
  ASSUME NEW R, NEW S, NEW F, Makes(F, S, R), NEW s \in Seq(S), s # <<>>
  PROVE  EachOf(F, s) = F[Head(s)] \o EachOf(F, Tail(s))
<1> DEFINE one == <<Head(s)>>
           others == Tail(s)
<1>1. Head(s) \in S /\ one \in Seq(S) /\ others \in Seq(S) /\ s = one \o others
  OBVIOUS
<1>2. EachOf(F, one) = F[Head(s)]
  BY <1>1, EachOne
<1> HIDE DEF one, others
<1>3. EachOf(F, one \o others) = EachOf(F, one) \o EachOf(F, others)
  BY <1>1, EachConcat
<1> QED
  BY <1>1, <1>2, <1>3 DEF others

(* Only what it makes of the entries matters. *)
LEMMA EachAlike ==
  ASSUME NEW F, NEW G, NEW s, \A i \in DOMAIN s : F[s[i]] = G[s[i]]
  PROVE  EachOf(F, s) = EachOf(G, s)
<1>1. [i \in DOMAIN s |-> F[s[i]]] = [i \in DOMAIN s |-> G[s[i]]]
  OBVIOUS
<1> QED
  BY <1>1 DEF EachOf

(* Entries that are made into nothing come to nothing. *)
LEMMA EachNothing ==
  ASSUME NEW F, NEW S, NEW s \in Seq(S), \A i \in DOMAIN s : F[s[i]] = <<>>
  PROVE  EachOf(F, s) = <<>>
<1> DEFINE G == [e \in S |-> <<>>]
           T == {t \in Seq(S) : EachOf(G, t) = <<>>}
<1>1. Makes(G, S, S)
  <2>1. <<>> \in Seq(S)
    OBVIOUS
  <2> QED
    BY <2>1 DEF Makes
<1>2. <<>> \in T
  BY EachEmpty
<1>3. ASSUME NEW t \in T, NEW e \in S PROVE Append(t, e) \in T
  <2>0. t \in Seq(S)
    OBVIOUS
  <2>1. EachOf(G, Append(t, e)) = EachOf(G, t) \o G[e]
    <3> HIDE DEF G, T
    <3> QED
      BY <1>1, <2>0, EachAppend
  <2>2. G[e] = <<>> /\ <<>> \o <<>> = <<>> /\ EachOf(G, t) = <<>>
    OBVIOUS
  <2> HIDE DEF G
  <2> QED
    BY <2>1, <2>2
<1>4. T = Seq(S)
  <2> HIDE DEF T
  <2>1. T \in SUBSET Seq(S)
    BY DEF T
  <2> QED
    BY <1>2, <1>3, <2>1, SequenceInduction
<1>5. EachOf(G, s) = <<>>
  BY <1>4
<1>6. \A i \in DOMAIN s : F[s[i]] = G[s[i]]
  OBVIOUS
<1> QED
  BY <1>5, <1>6, EachAlike

(* Making something of each, and then something of each of that. *)
LEMMA EachOfEach ==
  ASSUME NEW S, NEW R, NEW Q, NEW F, Makes(F, S, R), NEW G, Makes(G, R, Q),
         NEW s \in Seq(S)
  PROVE  EachOf(G, EachOf(F, s)) = EachOf([e \in S |-> EachOf(G, F[e])], s)
<1> DEFINE H == [e \in S |-> EachOf(G, F[e])]
           T == {t \in Seq(S) : EachOf(G, EachOf(F, t)) = EachOf(H, t)}
<1>1. Makes(H, S, Q)
  <2>1. ASSUME NEW e \in S PROVE EachOf(G, F[e]) \in Seq(Q)
    <3>1. F[e] \in Seq(R)
      BY DEF Makes
    <3> QED
      BY <3>1, EachPieces
  <2> QED
    BY <2>1 DEF Makes
<1>2. <<>> \in T
  BY EachEmpty
<1>3. ASSUME NEW t \in T, NEW e \in S PROVE Append(t, e) \in T
  <2> DEFINE x == EachOf(F, t)
             y == F[e]
  <2>0. t \in Seq(S)
    OBVIOUS
  <2>1. EachOf(F, Append(t, e)) = x \o y
    BY <2>0, EachAppend
  <2>2. x \in Seq(R) /\ y \in Seq(R)
    BY <2>0, EachPieces DEF Makes
  <2>5. H[e] = EachOf(G, y) /\ EachOf(G, x) = EachOf(H, t)
    OBVIOUS
  <2> HIDE DEF H, T, x, y
  <2>3. EachOf(G, x \o y) = EachOf(G, x) \o EachOf(G, y)
    BY <2>2, EachConcat
  <2>4. EachOf(H, Append(t, e)) = EachOf(H, t) \o H[e]
    BY <1>1, <2>0, EachAppend
  <2>6. EachOf(G, EachOf(F, Append(t, e))) = EachOf(H, Append(t, e))
    BY <2>1, <2>3, <2>4, <2>5
  <2>7. Append(t, e) \in Seq(S)
    BY <2>0
  <2> QED
    BY <2>6, <2>7 DEF T
<1>4. T = Seq(S)
  <2> HIDE DEF T
  <2>1. T \in SUBSET Seq(S)
    BY DEF T
  <2> QED
    BY <1>2, <1>3, <2>1, SequenceInduction
<1> QED
  BY <1>4

-----------------------------------------------------------------------------
(* Sequences in which nothing is twice. *)
LEMMA InjectiveConcat ==
  ASSUME NEW S, NEW s \in Seq(S), NEW t \in Seq(S)
  PROVE  IsInjective(s \o t) <=>
           IsInjective(s) /\ IsInjective(t) /\ Range(s) \cap Range(t) = {}
<1>1. ASSUME IsInjective(s \o t)
      PROVE  IsInjective(s) /\ IsInjective(t) /\ Range(s) \cap Range(t) = {}
  <2>1. \A i \in DOMAIN s : i \in DOMAIN (s \o t) /\ (s \o t)[i] = s[i]
    OBVIOUS
  <2>2. \A i \in DOMAIN t : Len(s) + i \in DOMAIN (s \o t) /\ (s \o t)[Len(s) + i] = t[i]
    OBVIOUS
  <2>3. IsInjective(s)
    BY <1>1, <2>1 DEF IsInjective
  <2>4. IsInjective(t)
    <3> SUFFICES ASSUME NEW i \in DOMAIN t, NEW j \in DOMAIN t, t[i] = t[j] PROVE i = j
      BY DEF IsInjective
    <3>1. Len(s) + i = Len(s) + j
      BY <1>1, <2>2 DEF IsInjective
    <3> QED
      BY <3>1
  <2>5. ASSUME NEW i \in DOMAIN s, NEW j \in DOMAIN t, s[i] = t[j] PROVE FALSE
    <3>1. i = Len(s) + j
      BY <1>1, <2>1, <2>2, <2>5 DEF IsInjective
    <3> QED
      BY <3>1
  <2>6. Range(s) \cap Range(t) = {}
    BY <2>5 DEF Range
  <2> QED
    BY <2>3, <2>4, <2>6
<1>2. ASSUME IsInjective(s), IsInjective(t), Range(s) \cap Range(t) = {}
      PROVE  IsInjective(s \o t)
  <2> SUFFICES ASSUME NEW i \in DOMAIN (s \o t), NEW j \in DOMAIN (s \o t),
                      (s \o t)[i] = (s \o t)[j]
               PROVE  i = j
    BY DEF IsInjective
  <2>0. \A k \in DOMAIN (s \o t) :
          \/ k \in DOMAIN s /\ (s \o t)[k] = s[k]
          \/ k - Len(s) \in DOMAIN t /\ (s \o t)[k] = t[k - Len(s)] /\ k \in Int
    OBVIOUS
  <2>1. \A k \in DOMAIN s, l \in DOMAIN t : s[k] # t[l]
    BY <1>2 DEF Range
  <2>2. CASE i \in DOMAIN s /\ (s \o t)[i] = s[i] /\ j \in DOMAIN s /\ (s \o t)[j] = s[j]
    BY <1>2, <2>2 DEF IsInjective
  <2>3. CASE /\ i - Len(s) \in DOMAIN t /\ (s \o t)[i] = t[i - Len(s)] /\ i \in Int
             /\ j - Len(s) \in DOMAIN t /\ (s \o t)[j] = t[j - Len(s)] /\ j \in Int
    <3>1. i - Len(s) = j - Len(s)
      BY <1>2, <2>3 DEF IsInjective
    <3> QED
      BY <2>3, <3>1
  <2> QED
    BY <2>0, <2>1, <2>2, <2>3
<1> QED
  BY <1>1, <1>2

LEMMA InjectiveAppend ==
  ASSUME NEW S, NEW s \in Seq(S), NEW e \in S
  PROVE  /\ Range(Append(s, e)) = Range(s) \cup {e}
         /\ IsInjective(Append(s, e)) <=> IsInjective(s) /\ e \notin Range(s)
<1> DEFINE t == <<e>>
<1>1. t \in Seq(S) /\ Append(s, e) = s \o t
  OBVIOUS
<1>2. Range(t) = {e} /\ IsInjective(t)
  BY DEF Range, IsInjective
<1> HIDE DEF t
<1>3. Range(s \o t) = Range(s) \cup {e}
  BY <1>1, <1>2, RangeConcatenation
<1>4. IsInjective(s \o t) <=> IsInjective(s) /\ Range(s) \cap {e} = {}
  BY <1>1, <1>2, InjectiveConcat
<1> QED
  BY <1>1, <1>3, <1>4

(* Some of the entries, in their order. *)
Picks(F, S) == \A e \in S : F[e] = <<e>> \/ F[e] = <<>>

LEMMA PickedAreThere ==
  ASSUME NEW S, NEW F, Makes(F, S, S), Picks(F, S), NEW s \in Seq(S)
  PROVE  /\ Range(EachOf(F, s)) \subseteq Range(s)
         /\ IsInjective(s) => IsInjective(EachOf(F, s))
<1> DEFINE P(t) == /\ Range(EachOf(F, t)) \subseteq Range(t)
                   /\ IsInjective(t) => IsInjective(EachOf(F, t))
           T == {t \in Seq(S) : P(t)}
<1>1. <<>> \in T
  BY EachEmpty
<1>2. ASSUME NEW t \in T, NEW e \in S PROVE Append(t, e) \in T
  <2> DEFINE f == EachOf(F, t)
             u == Append(t, e)
  <2>0. t \in Seq(S) /\ u \in Seq(S) /\ P(t)
    OBVIOUS
  <2>1. EachOf(F, u) = f \o F[e]
    BY <2>0, EachAppend
  <2>2. f \in Seq(S) /\ t \in Seq(S) /\ u \in Seq(S)
    BY <2>0, EachPieces
  <2>3. f \o <<>> = f /\ f \o <<e>> = Append(f, e)
    BY <2>2
  <2>4. /\ Range(u) = Range(t) \cup {e}
        /\ IsInjective(u) <=> IsInjective(t) /\ e \notin Range(t)
    BY <2>2, InjectiveAppend
  <2>5. /\ Range(Append(f, e)) = Range(f) \cup {e}
        /\ IsInjective(Append(f, e)) <=> IsInjective(f) /\ e \notin Range(f)
    BY <2>2, InjectiveAppend
  <2>6. F[e] = <<e>> \/ F[e] = <<>>
    BY DEF Picks
  <2>7. Range(f) \subseteq Range(t) /\ (IsInjective(t) => IsInjective(f))
    BY <2>0
  <2> HIDE DEF f, u
  <2>8. P(u)
    BY <2>1, <2>3, <2>4, <2>5, <2>6, <2>7
  <2> HIDE DEF P
  <2> QED
    BY <2>2, <2>8 DEF u
<1>3. T = Seq(S)
  <2> HIDE DEF T
  <2>1. T \in SUBSET Seq(S)
    BY DEF T
  <2> QED
    BY <1>1, <1>2, <2>1, SequenceInduction
<1> QED
  BY <1>3

LEMMA TailOfInjective ==
  ASSUME NEW S, NEW s \in Seq(S), s # <<>>
  PROVE  /\ Range(s) = {Head(s)} \cup Range(Tail(s))
         /\ IsInjective(s) <=> IsInjective(Tail(s)) /\ Head(s) \notin Range(Tail(s))
<1> DEFINE t == <<Head(s)>>
           others == Tail(s)
<1>1. t \in Seq(S) /\ others \in Seq(S) /\ s = t \o others
  OBVIOUS
<1>2. Range(t) = {Head(s)} /\ IsInjective(t)
  BY DEF Range, IsInjective
<1> HIDE DEF t, others
<1>3. Range(t \o others) = {Head(s)} \cup Range(others)
  BY <1>1, <1>2, RangeConcatenation
<1>4. IsInjective(t \o others) <=> IsInjective(others) /\ {Head(s)} \cap Range(others) = {}
  BY <1>1, <1>2, InjectiveConcat
<1> QED
  BY <1>1, <1>3, <1>4 DEF others

(* A sequence is a prefix of what it is continued to. *)
LEMMA IsPrefixOfConcat ==
  ASSUME NEW S, NEW s \in Seq(S), NEW t \in Seq(S)
  PROVE  IsPrefix(s, s \o t)
<1>1. /\ s \o t \in Seq(S) /\ Len(s \o t) = Len(s) + Len(t)
      /\ Len(s) \in Nat /\ Len(t) \in Nat
      /\ \A i \in 1..(Len(s) + Len(t)) : (s \o t)[i] = IF i <= Len(s) THEN s[i] ELSE t[i - Len(s)]
  BY ConcatProperties
<1>2. SubSeq(s, 1, Len(s)) = SubSeq(s \o t, 1, Len(s))
  <2> DEFINE u == s \o t
             m == Len(s)
             a == SubSeq(s, 1, m)
             b == SubSeq(u, 1, m)
  <2>1. \A i \in 1..m : s[i] \in S /\ u[i] \in S /\ u[i] = s[i]
    BY <1>1
  <2>2. m \in Nat /\ u \in Seq(S)
    BY <1>1
  <2> HIDE DEF u, m
  <2>3. a \in Seq(S) /\ Len(a) = m /\ \A i \in 1..m : a[i] = s[i]
    BY <2>1, <2>2, SubSeqProperties
  <2>4. b \in Seq(S) /\ Len(b) = m /\ \A i \in 1..m : b[i] = u[i]
    BY <2>1, <2>2, SubSeqProperties
  <2> HIDE DEF a, b
  <2>5. a = b
    BY <2>1, <2>3, <2>4, SeqEqual
  <2> QED
    BY <2>5 DEF a, b, m, u
<1>3. Len(s) <= Len(s \o t)
  BY <1>1
<1> QED
  BY <1>2, <1>3 DEF IsPrefix

=============================================================================
