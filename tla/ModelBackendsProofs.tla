------------------------- MODULE ModelBackendsProofs -------------------------
(***************************************************************************)
(* Proofs about ModelBackends, for any finite set of requests, any number   *)
(* of places and any number of chunks.                                     *)
(***************************************************************************)
EXTENDS ModelBackends, FlatteningProofs, FiniteSetTheorems

Words == 1 .. MaxChunks

Jobs == [of : Requests, kind : Kinds]

-----------------------------------------------------------------------------
(* The text of a queue. *)

WordsOf(q) == FlattenSeq([i \in DOMAIN q |-> q[i].words])

WordsIn == [piece \in Pieces |-> piece.words]

LEMMA PieceWords ==
  ASSUME NEW piece \in Pieces
  PROVE  /\ piece.words \in Seq(Words)
         /\ piece.kind # "text" => piece.words = <<>>
<1>1. \A n \in Words : <<n>> \in Seq(Words)
  OBVIOUS
<1>2. <<>> \in Seq(Words)
  OBVIOUS
<1>3. CASE piece \in {Piece("text", <<n>>) : n \in 1 .. MaxChunks}
  <2>1. PICK n \in Words : piece = [kind |-> "text", words |-> <<n>>]
    BY <1>3 DEF Piece, Words
  <2>2. piece.words = <<n>> /\ piece.kind = "text"
    BY <2>1
  <2> QED
    BY <1>1, <2>2
<1>4. CASE piece \in {Piece(kind, <<>>) : kind \in {"text", "stop", "broken"}}
  <2>1. piece.words = <<>>
    BY <1>4 DEF Piece
  <2> QED
    BY <1>2, <2>1
<1> QED
  BY <1>3, <1>4 DEF Pieces

LEMMA WordsOfIs ==
  ASSUME NEW q \in Seq(Pieces)
  PROVE  /\ WordsOf(q) = EachOf(WordsIn, q)
         /\ WordsOf(q) \in Seq(Words)
<1>1. Makes(WordsIn, Pieces, Words)
  BY PieceWords DEF Makes, WordsIn
<1>2. \A i \in DOMAIN q : WordsIn[q[i]] = q[i].words
  BY DEF WordsIn
<1>3. [i \in DOMAIN q |-> WordsIn[q[i]]] = [i \in DOMAIN q |-> q[i].words]
  BY <1>2
<1>4. WordsOf(q) = EachOf(WordsIn, q)
  BY <1>3 DEF WordsOf, EachOf
<1>5. EachOf(WordsIn, q) \in Seq(Words)
  BY <1>1, EachPieces
<1> QED
  BY <1>4, <1>5

LEMMA WordsOfEmpty == WordsOf(<<>>) = <<>>
<1>1. [i \in DOMAIN <<>> |-> (<<>>)[i].words] = <<>>
  OBVIOUS
<1> QED
  BY <1>1, FlattenEmpty DEF WordsOf

LEMMA WordsOfAppend ==
  ASSUME NEW q \in Seq(Pieces), NEW piece \in Pieces
  PROVE  WordsOf(Append(q, piece)) = WordsOf(q) \o piece.words
<1> DEFINE all == Append(q, piece)
<1>1. all \in Seq(Pieces)
  OBVIOUS
<1>2. \A G : Makes(G, Pieces, Words) => EachOf(G, Append(q, piece)) = EachOf(G, q) \o G[piece]
  BY EachAppend
<1>3. Makes(WordsIn, Pieces, Words)
  BY PieceWords DEF Makes, WordsIn
<1>4. WordsIn[piece] = piece.words
  BY DEF WordsIn
<1>5. EachOf(WordsIn, Append(q, piece)) = EachOf(WordsIn, q) \o WordsIn[piece]
  BY <1>2, <1>3
<1> HIDE DEF all
<1>6. WordsOf(all) = EachOf(WordsIn, all) /\ WordsOf(q) = EachOf(WordsIn, q)
  BY <1>1, WordsOfIs
<1> QED
  BY <1>4, <1>5, <1>6 DEF all

LEMMA WordsOfTail ==
  ASSUME NEW q \in Seq(Pieces), q # <<>>
  PROVE  WordsOf(q) = Head(q).words \o WordsOf(Tail(q))
<1> DEFINE texts == [i \in DOMAIN q |-> q[i].words]
           U == Seq(Words)
<1>1. \A i \in DOMAIN q : q[i].words \in Seq(Words)
  BY PieceWords
<1>2. texts \in Seq(U) /\ texts # <<>>
  <2>1. \A i \in DOMAIN q : q[i].words \in U
    BY <1>1
  <2> HIDE DEF U
  <2> QED
    BY <2>1
<1>3. Head(texts) = Head(q).words
  OBVIOUS
<1>4. Tail(texts) = [i \in DOMAIN Tail(q) |-> Tail(q)[i].words]
  OBVIOUS
<1> HIDE DEF texts
<1>5. FlattenSeq(texts) = Head(texts) \o FlattenSeq(Tail(texts))
  BY <1>2, FlattenTail
<1> QED
  BY <1>3, <1>4, <1>5 DEF WordsOf, texts

-----------------------------------------------------------------------------
(* Beginnings of texts. *)

LEMMA PrefixIs ==
  ASSUME NEW S, NEW s \in Seq(S), NEW t \in Seq(S)
  PROVE  IsPrefix(s, t) <=> Len(s) <= Len(t) /\ \A i \in 1..Len(s) : s[i] = t[i]
<1>1. SubSeq(s, 1, Len(s)) = s
  OBVIOUS
<1>2. ASSUME Len(s) <= Len(t)
      PROVE  /\ SubSeq(t, 1, Len(s)) \in Seq(S) /\ Len(SubSeq(t, 1, Len(s))) = Len(s)
             /\ \A i \in 1..Len(s) : SubSeq(t, 1, Len(s))[i] = t[i]
  BY <1>2
<1>3. ASSUME Len(s) <= Len(t), \A i \in 1..Len(s) : s[i] = t[i]
      PROVE  s = SubSeq(t, 1, Len(s))
  <2> DEFINE b == SubSeq(t, 1, Len(s))
  <2>1. b \in Seq(S) /\ Len(s) = Len(b) /\ \A i \in 1..Len(s) : s[i] = b[i]
    BY <1>2, <1>3
  <2> HIDE DEF b
  <2>2. s = b
    BY <2>1, SeqEqual
  <2> QED
    BY <2>2 DEF b
<1> QED
  BY <1>1, <1>2, <1>3 DEF IsPrefix

LEMMA PrefixFacts ==
  ASSUME NEW S, NEW s \in Seq(S), NEW t \in Seq(S), NEW u \in Seq(S)
  PROVE  /\ IsPrefix(s, s \o u)
         /\ IsPrefix(s, s)
         /\ IsPrefix(s, t) => IsPrefix(s, t \o u)
<1> DEFINE su == s \o u
           tu == t \o u
<1>1. su \in Seq(S) /\ Len(s) <= Len(su) /\ \A i \in 1..Len(s) : s[i] = su[i]
  OBVIOUS
<1>2. /\ tu \in Seq(S) /\ Len(t) <= Len(tu) /\ \A i \in 1..Len(t) : t[i] = tu[i]
      /\ Len(s) \in Nat /\ Len(t) \in Nat
  OBVIOUS
<1> HIDE DEF su, tu
<1>3. IsPrefix(s, su)
  BY <1>1, PrefixIs
<1>4. IsPrefix(s, s)
  BY PrefixIs
<1>5. ASSUME IsPrefix(s, t) PROVE IsPrefix(s, tu)
  <2>1. Len(s) <= Len(t) /\ \A i \in 1..Len(s) : s[i] = t[i]
    BY <1>5, PrefixIs
  <2>2. Len(s) <= Len(tu) /\ \A i \in 1..Len(s) : s[i] = tu[i]
    BY <1>2, <2>1
  <2> QED
    BY <1>2, <2>2, PrefixIs
<1> QED
  BY <1>3, <1>4, <1>5 DEF su, tu

-----------------------------------------------------------------------------
(* The account of a request's text: until the caller has been told the end, *)
(* what it received and what is queued make up what was produced.          *)

TextFits(c, p, q, rec, prod) ==
  /\ IsPrefix(rec, FlattenSeq(prod))
  /\ p = "none" /\ c # "answered" => q = <<>> /\ rec = <<>> /\ prod = <<>>
  /\ c \in {"waiting", "yielded"} => rec \o WordsOf(q) = FlattenSeq(prod)
  /\ c \in {"closing", "answered"} => rec = FlattenSeq(prod)
  /\ \A i \in DOMAIN q :
       q[i].kind = "stop" => i = Len(q) /\ p \in {"finishing", "ended"}

LEMMA NothingYet ==
  ASSUME NEW c, c \notin {"answered"}, NEW p
  PROVE  TextFits(c, p, <<>>, <<>>, <<>>)
<1>1. IsPrefix(<<>>, <<>>)
  BY DEF IsPrefix
<1>2. <<>> \o <<>> = <<>>
  OBVIOUS
<1> QED
  BY <1>1, <1>2, FlattenEmpty, WordsOfEmpty DEF TextFits

(* The producer adds a piece, with text or without, while it runs.          *)
LEMMA PieceAdded ==
  ASSUME NEW c, c \notin {"closing", "answered"},
         NEW q \in Seq(Pieces), NEW rec \in Seq(Words), NEW prod \in Seq(Seq(Words)),
         TextFits(c, "running", q, rec, prod),
         NEW piece \in Pieces, piece.kind = "text"
  PROVE  TextFits(c, "running", Append(q, piece), rec, Append(prod, piece.words))
<1> DEFINE w == piece.words
           all == Append(q, piece)
           text == FlattenSeq(prod)
<1>1. w \in Seq(Words) /\ WordsOf(q) \in Seq(Words) /\ text \in Seq(Words)
  BY PieceWords, WordsOfIs, FlattenType
<1>2. FlattenSeq(Append(prod, w)) = text \o w
  BY <1>1, FlattenAppend
<1>3. WordsOf(all) = WordsOf(q) \o w
  BY WordsOfAppend
<1>4. IsPrefix(rec, text \o w)
  BY <1>1, PrefixFacts DEF TextFits
<1>5. ASSUME c \in {"waiting", "yielded"} PROVE rec \o WordsOf(all) = text \o w
  <2> DEFINE x == WordsOf(q)
  <2>1. rec \o x = text
    BY <1>5 DEF TextFits
  <2>2. \A a, b, d \in Seq(Words) : (a \o b) \o d = a \o (b \o d)
    BY ConcatAssociative
  <2>3. x \in Seq(Words) /\ w \in Seq(Words)
    BY <1>1
  <2> HIDE DEF x, w, text, all
  <2>4. (rec \o x) \o w = rec \o (x \o w)
    BY <2>2, <2>3
  <2> QED
    BY <1>3, <2>1, <2>4 DEF x
<1>6. \A i \in DOMAIN all : all[i].kind # "stop"
  BY DEF TextFits
<1> HIDE DEF w, all, text
<1> QED
  BY <1>2, <1>4, <1>5, <1>6 DEF TextFits, all, w

(* It ends, or dies, with a mark in the queue or without one.               *)
LEMMA EndAdded ==
  ASSUME NEW c, NEW q \in Seq(Pieces), NEW rec \in Seq(Words),
         NEW prod \in Seq(Seq(Words)), TextFits(c, "running", q, rec, prod),
         NEW piece \in Pieces, piece.kind # "text",
         NEW p, p # "none", piece.kind = "stop" => p \in {"finishing", "ended"}
  PROVE  TextFits(c, p, Append(q, piece), rec, prod)
<1> DEFINE all == Append(q, piece)
<1>1. WordsOf(q) \in Seq(Words) /\ piece.words = <<>>
  BY PieceWords, WordsOfIs
<1>2. WordsOf(all) = WordsOf(q) \o piece.words
  BY WordsOfAppend
<1>3. WordsOf(all) = WordsOf(q)
  BY <1>1, <1>2
<1>4. \A i \in DOMAIN all :
        all[i].kind = "stop" => i = Len(all) /\ p \in {"finishing", "ended"}
  BY DEF TextFits
<1> HIDE DEF all
<1> QED
  BY <1>3, <1>4 DEF TextFits, all

LEMMA ProducerMoves ==
  ASSUME NEW c, NEW p, NEW q, NEW rec, NEW prod, TextFits(c, p, q, rec, prod),
         NEW new, new # "none",
         \/ p = "running"
         \/ p = "none" /\ c # "answered"
         \/ p \in {"finishing", "ended"} /\ new \in {"finishing", "ended"}
  PROVE  TextFits(c, new, q, rec, prod)
  BY DEF TextFits

(* A piece is read by a caller that waits for it.                          *)
LEMMA PieceRead ==
  ASSUME NEW p, p # "none", NEW q \in Seq(Pieces), q # <<>>, NEW rec \in Seq(Words),
         NEW prod \in Seq(Seq(Words)), TextFits("waiting", p, q, rec, prod),
         NEW c \in {"waiting", "yielded"}
  PROVE  TextFits(c, p, Tail(q), rec \o Head(q).words, prod)
<1> DEFINE w == Head(q).words
           rest == Tail(q)
           text == FlattenSeq(prod)
<1>1. Head(q) \in Pieces /\ rest \in Seq(Pieces)
  OBVIOUS
<1>2. w \in Seq(Words) /\ WordsOf(rest) \in Seq(Words)
  BY <1>1, PieceWords, WordsOfIs
<1>3. WordsOf(q) = w \o WordsOf(rest)
  BY WordsOfTail
<1>4. rec \o WordsOf(q) = text
  BY DEF TextFits
<1>5. \A i \in DOMAIN rest :
        rest[i].kind = "stop" => i = Len(rest) /\ p \in {"finishing", "ended"}
  <2>1. Len(q) \in Nat /\ Len(rest) = Len(q) - 1 /\ DOMAIN rest = 1 .. Len(rest)
    OBVIOUS
  <2>2. \A i \in 1 .. Len(rest) : rest[i] = q[i + 1]
    OBVIOUS
  <2>3. \A i \in 1 .. Len(q) :
          q[i].kind = "stop" => i = Len(q) /\ p \in {"finishing", "ended"}
    BY DEF TextFits
  <2> HIDE DEF rest
  <2>4. ASSUME NEW i \in 1 .. Len(rest)
        PROVE  i + 1 \in 1 .. Len(q) /\ (i + 1 = Len(q) => i = Len(rest))
    BY <2>1
  <2> QED
    BY <2>1, <2>2, <2>3, <2>4
<1> DEFINE x == WordsOf(rest)
<1>6. \A a, b, d \in Seq(Words) : (a \o b) \o d = a \o (b \o d)
  BY ConcatAssociative
<1> HIDE DEF w, rest, text, x
<1>7. w \in Seq(Words) /\ x \in Seq(Words) /\ rec \o w \in Seq(Words)
  BY <1>2 DEF x
<1>8. (rec \o w) \o x = rec \o (w \o x)
  BY <1>6, <1>7
<1>9. (rec \o w) \o x = text
  BY <1>3, <1>4, <1>8 DEF x
<1>10. IsPrefix(rec \o w, text)
  <2>1. IsPrefix(rec \o w, (rec \o w) \o x)
    BY <1>7, PrefixFacts
  <2> QED
    BY <1>9, <2>1
<1> QED
  BY <1>5, <1>9, <1>10 DEF TextFits, x, text, rest, w

(* The end is read: nothing is left to read.                               *)
LEMMA EndRead ==
  ASSUME NEW p, p # "none", NEW q \in Seq(Pieces), q # <<>>, NEW rec \in Seq(Words),
         NEW prod \in Seq(Seq(Words)), TextFits("waiting", p, q, rec, prod),
         Head(q).kind = "stop", NEW c
  PROVE  /\ p \in {"finishing", "ended"}
         /\ TextFits(c, p, Tail(q), rec, prod)
<1>1. 1 \in DOMAIN q /\ q[1].kind = "stop" /\ Head(q) = q[1] /\ q[1] \in Pieces
  OBVIOUS
<1>2. Len(q) = 1 /\ p \in {"finishing", "ended"}
  BY <1>1 DEF TextFits
<1>3. Tail(q) = <<>>
  <2> DEFINE rest == Tail(q)
  <2>1. rest \in Seq(Pieces) /\ Len(rest) = 0
    BY <1>2
  <2> HIDE DEF rest
  <2>2. rest = <<>>
    BY <2>1, EmptySeq
  <2> QED
    BY <2>2 DEF rest
<1>4. WordsOf(q) = <<>>
  <2>1. WordsOf(q) = q[1].words \o WordsOf(<<>>)
    BY <1>1, <1>3, WordsOfTail
  <2>2. q[1].words = <<>>
    BY <1>1, PieceWords
  <2>3. <<>> \o <<>> = <<>>
    OBVIOUS
  <2> QED
    BY <2>1, <2>2, <2>3, WordsOfEmpty
<1>5. rec \o <<>> = rec
  OBVIOUS
<1>6. rec = FlattenSeq(prod)
  BY <1>4, <1>5 DEF TextFits
<1>7. \A i \in DOMAIN <<>> :
        (<<>>)[i].kind = "stop" => i = Len(<<>>) /\ p \in {"finishing", "ended"}
  OBVIOUS
<1>8. IsPrefix(rec, FlattenSeq(prod)) /\ rec \o WordsOf(<<>>) = rec
  BY <1>5, WordsOfEmpty DEF TextFits
<1>9. TextFits(c, p, <<>>, rec, prod)
  BY <1>6, <1>7, <1>8 DEF TextFits
<1> QED
  BY <1>2, <1>3, <1>9

(* A piece is lost on a caller that has gone.                              *)
LEMMA PieceLost ==
  ASSUME NEW c, c \in {"unwinding", "cancelled", "failed"}, NEW p, p # "none",
         NEW q \in Seq(Pieces), q # <<>>, NEW rec, NEW prod,
         TextFits(c, p, q, rec, prod)
  PROVE  TextFits(c, p, Tail(q), rec, prod)
<1>1. \A i \in DOMAIN Tail(q) :
        Tail(q)[i].kind = "stop" => i = Len(Tail(q)) /\ p \in {"finishing", "ended"}
  BY DEF TextFits
<1> QED
  BY <1>1 DEF TextFits

LEMMA CallerMoves ==
  ASSUME NEW c, NEW p, NEW q, NEW rec, NEW prod, TextFits(c, p, q, rec, prod),
         c # "answered", NEW new,
         \/ new \in {"unwinding", "cancelled", "failed"}
         \/ c \in {"waiting", "yielded"} /\ new \in {"waiting", "yielded"}
         \/ c = "closing" /\ new = "answered"
         \/ c = "idle" /\ p = "none" /\ new = "waiting"
  PROVE  TextFits(new, p, q, rec, prod)
<1>1. ASSUME p = "none" PROVE rec \o WordsOf(q) = FlattenSeq(prod)
  <2>1. rec = <<>> /\ q = <<>> /\ prod = <<>>
    BY <1>1 DEF TextFits
  <2>2. <<>> \o <<>> = <<>>
    OBVIOUS
  <2> QED
    BY <2>1, <2>2, FlattenEmpty, WordsOfEmpty
<1> QED
  BY <1>1 DEF TextFits

-----------------------------------------------------------------------------
(* The line, in which a request has at most one job, and the places.        *)

OneEach(l) == \A i, j \in DOMAIN l : l[i].of = l[j].of => i = j

InLine(l, r) == {kind \in Kinds : \E i \in DOMAIN l : l[i] = Job(r, kind)}

OnPlace(b, r) == {kind \in Kinds : Job(r, kind) \in b}

LEMMA JobFacts ==
  /\ \A r \in Requests, kind \in Kinds :
       Job(r, kind) \in Jobs /\ Job(r, kind).of = r /\ Job(r, kind).kind = kind
  /\ \A job \in Jobs :
       job.of \in Requests /\ job.kind \in Kinds /\ job = Job(job.of, job.kind)
BY DEF Job, Jobs

LEMMA NotInLine ==
  ASSUME NEW l \in Seq(Jobs), NEW r \in Requests
  PROVE  InLine(l, r) = {} <=> \A i \in DOMAIN l : l[i].of # r
<1>1. \A i \in DOMAIN l : l[i] \in Jobs
  OBVIOUS
<1> QED
  BY <1>1, JobFacts DEF InLine

LEMMA LineGrows ==
  ASSUME NEW l \in Seq(Jobs), OneEach(l), NEW r \in Requests, InLine(l, r) = {},
         NEW kind \in Kinds
  PROVE  /\ OneEach(Append(l, Job(r, kind)))
         /\ InLine(Append(l, Job(r, kind)), r) = {kind}
         /\ \A s \in Requests \ {r} :
              InLine(Append(l, Job(r, kind)), s) = InLine(l, s)
<1> DEFINE job == Job(r, kind)
           all == Append(l, job)
<1>1. job \in Jobs /\ job.of = r /\ job.kind = kind
  BY JobFacts
<1>2. \A i \in DOMAIN l : l[i].of # r
  BY NotInLine
<1>3. /\ Len(l) \in Nat /\ DOMAIN l = 1 .. Len(l) /\ DOMAIN all = 1 .. (Len(l) + 1)
      /\ \A i \in 1 .. Len(l) : all[i] = l[i]
      /\ all[Len(l) + 1] = job
  BY <1>1
<1> HIDE DEF all, job
<1>4. \A i \in DOMAIN all : \/ (i \in DOMAIN l /\ all[i] = l[i])
                            \/ (i = Len(l) + 1 /\ all[i] = job)
  BY <1>3
<1>5. OneEach(all)
  BY <1>1, <1>2, <1>4 DEF OneEach
<1>6. InLine(all, r) = {kind}
  <2>1. ASSUME NEW k \in Kinds, NEW i \in DOMAIN all, all[i] = Job(r, k) PROVE k = kind
    <3>1. Job(r, k).of = r /\ Job(r, k).kind = k
      BY JobFacts
    <3>2. all[i] = job
      BY <1>2, <1>4, <2>1, <3>1
    <3> QED
      BY <1>1, <2>1, <3>1, <3>2
  <2>2. Len(l) + 1 \in DOMAIN all /\ all[Len(l) + 1] = Job(r, kind)
    BY <1>3 DEF job
  <2> QED
    BY <2>1, <2>2 DEF InLine
<1>7. ASSUME NEW s \in Requests \ {r} PROVE InLine(all, s) = InLine(l, s)
  <2>1. ASSUME NEW k \in Kinds PROVE Job(s, k) # job
    BY <1>1, JobFacts
  <2>2. \A i \in DOMAIN l : i \in DOMAIN all /\ all[i] = l[i]
    BY <1>3
  <2> QED
    BY <1>4, <2>1, <2>2 DEF InLine
<1> QED
  BY <1>5, <1>6, <1>7 DEF all, job

(* What is left of a line without its element number n.                     *)
Misses(rest, l, n) ==
  /\ Len(rest) = Len(l) - 1
  /\ \A i \in 1 .. Len(rest) : rest[i] = IF i < n THEN l[i] ELSE l[i + 1]

(* A request's one job, of a kind, is no longer in the line.                *)
Left(rest, l, r, kind) ==
  /\ OneEach(rest)
  /\ InLine(l, r) = {kind}
  /\ InLine(rest, r) = {}
  /\ \A s \in Requests \ {r} : InLine(rest, s) = InLine(l, s)

LEMMA LineShrinks ==
  ASSUME NEW l \in Seq(Jobs), OneEach(l), NEW n, n \in DOMAIN l, NEW rest \in Seq(Jobs),
         Misses(rest, l, n)
  PROVE  Left(rest, l, l[n].of, l[n].kind)
<1>1. /\ Len(l) \in Nat /\ DOMAIN l = 1 .. Len(l) /\ n \in 1 .. Len(l)
      /\ Len(rest) \in Nat /\ DOMAIN rest = 1 .. Len(rest) /\ Len(rest) = Len(l) - 1
  BY DEF Misses
<1>2. \A i \in DOMAIN l : l[i] \in Jobs
  OBVIOUS
<1> DEFINE from(i) == IF i < n THEN i ELSE i + 1
<1>3. ASSUME NEW i \in DOMAIN rest
      PROVE  from(i) \in DOMAIN l /\ from(i) # n /\ rest[i] = l[from(i)]
  BY <1>1 DEF Misses
<1>4. ASSUME NEW i \in DOMAIN rest, NEW j \in DOMAIN rest, from(i) = from(j) PROVE i = j
  BY <1>1, <1>4
<1>5. ASSUME NEW i \in DOMAIN l, i # n PROVE \E j \in DOMAIN rest : from(j) = i
  <2>1. CASE i < n
    <3>1. i \in DOMAIN rest /\ from(i) = i
      BY <1>1, <2>1
    <3> QED
      BY <3>1
  <2>2. CASE ~(i < n)
    <3>1. i - 1 \in DOMAIN rest /\ from(i - 1) = i
      BY <1>1, <1>5, <2>2
    <3> QED
      BY <3>1
  <2> QED
    BY <2>1, <2>2
<1> HIDE DEF from
<1>6. OneEach(rest)
  BY <1>3, <1>4 DEF OneEach
<1>7. InLine(l, l[n].of) = {l[n].kind}
  <2>1. l[n] = Job(l[n].of, l[n].kind) /\ l[n].kind \in Kinds /\ l[n].of \in Requests
    BY <1>2, JobFacts
  <2>2. ASSUME NEW k \in Kinds, NEW i \in DOMAIN l, l[i] = Job(l[n].of, k)
        PROVE  k = l[n].kind
    <3>1. l[i].of = l[n].of /\ l[i].kind = k
      BY <2>1, <2>2, JobFacts
    <3> QED
      BY <3>1 DEF OneEach
  <2> QED
    BY <2>1, <2>2 DEF InLine
<1>8. InLine(rest, l[n].of) = {}
  <2>1. l[n].of \in Requests
    BY <1>2, JobFacts
  <2>2. \A i \in DOMAIN rest : rest[i].of # l[n].of
    BY <1>3 DEF OneEach
  <2> QED
    BY <2>1, <2>2, NotInLine
<1>9. ASSUME NEW s \in Requests \ {l[n].of} PROVE InLine(rest, s) = InLine(l, s)
  <2>1. ASSUME NEW k \in Kinds, NEW i \in DOMAIN l, l[i] = Job(s, k)
        PROVE  \E j \in DOMAIN rest : rest[j] = Job(s, k)
    <3>1. i # n
      BY <2>1, JobFacts
    <3> QED
      BY <1>3, <1>5, <2>1, <3>1
  <2>2. ASSUME NEW k \in Kinds, NEW i \in DOMAIN rest, rest[i] = Job(s, k)
        PROVE  \E j \in DOMAIN l : l[j] = Job(s, k)
    BY <1>3, <2>2
  <2> QED
    BY <2>1, <2>2 DEF InLine
<1> QED
  BY <1>6, <1>7, <1>8, <1>9 DEF Left

LEMMA TailMisses ==
  ASSUME NEW l \in Seq(Jobs), l # <<>>
  PROVE  /\ Tail(l) \in Seq(Jobs) /\ Misses(Tail(l), l, 1)
         /\ 1 \in DOMAIN l /\ Head(l) = l[1]
BY DEF Misses

LEMMA RemoveMisses ==
  ASSUME NEW l \in Seq(Jobs), NEW n \in 1 .. Len(l)
  PROVE  RemoveAt(l, n) \in Seq(Jobs) /\ Misses(RemoveAt(l, n), l, n)
<1> DEFINE a == SubSeq(l, 1, n - 1)
           b == SubSeq(l, n + 1, Len(l))
<1>1. Len(l) \in Nat /\ n \in Nat \ {0} /\ n <= Len(l)
  OBVIOUS
<1>2. a \in Seq(Jobs) /\ Len(a) = n - 1 /\ \A i \in 1 .. (n - 1) : a[i] = l[i]
  BY <1>1
<1>3. b \in Seq(Jobs) /\ Len(b) = Len(l) - n /\ \A i \in 1 .. (Len(l) - n) : b[i] = l[n + i]
  BY <1>1
<1> HIDE DEF a, b
<1> DEFINE rest == a \o b
<1>4. rest \in Seq(Jobs) /\ Len(rest) = Len(l) - 1
  <2>1. rest \in Seq(Jobs) /\ Len(rest) = Len(a) + Len(b)
    <3>1. a \in Seq(Jobs) /\ b \in Seq(Jobs)
      BY <1>2, <1>3
    <3> QED
      BY <3>1
  <2> HIDE DEF rest
  <2> QED
    BY <1>1, <1>2, <1>3, <2>1
<1>5. ASSUME NEW i \in 1 .. Len(rest) PROVE rest[i] = IF i < n THEN l[i] ELSE l[i + 1]
  <2>1. CASE i < n
    BY <1>1, <1>2, <1>3, <1>4, <2>1
  <2>2. CASE ~(i < n)
    <3>1. rest[i] = b[i - (n - 1)]
      BY <1>1, <1>2, <1>3, <1>4, <2>2
    <3>2. i - (n - 1) \in 1 .. (Len(l) - n) /\ n + (i - (n - 1)) = i + 1
      BY <1>1, <1>4, <2>2
    <3>3. b[i - (n - 1)] = l[n + (i - (n - 1))]
      BY <1>3, <3>2
    <3> QED
      BY <2>2, <3>1, <3>2, <3>3
  <2> QED
    BY <2>1, <2>2
<1>6. RemoveAt(l, n) = rest
  BY DEF RemoveAt, a, b
<1> HIDE DEF rest
<1> QED
  BY <1>4, <1>5, <1>6 DEF Misses

(* LineWithout leaves out the request's job, if there is one.               *)
LEMMA Withdrawn ==
  ASSUME line \in Seq(Jobs), NEW r \in Requests
  PROVE  /\ LineWithout(r) \in Seq(Jobs)
         /\ OneEach(line) =>
              /\ OneEach(LineWithout(r))
              /\ InLine(LineWithout(r), r) = {}
              /\ \A s \in Requests \ {r} : InLine(LineWithout(r), s) = InLine(line, s)
<1>1. Len(line) \in Nat /\ DOMAIN line = 1 .. Len(line)
  OBVIOUS
<1>2. CASE \A i \in 1 .. Len(line) : line[i].of # r
  <2>1. LineWithout(r) = line
    BY <1>2 DEF LineWithout, RemoveFirstMatch
  <2>2. InLine(line, r) = {}
    BY <1>1, <1>2, NotInLine
  <2> QED
    BY <2>1, <2>2
<1>3. CASE \E i \in 1 .. Len(line) : line[i].of = r
  <2> DEFINE places == {i \in 1 .. Len(line) : line[i].of = r}
             n == CHOOSE x \in places : \A y \in places : x =< y
  <2>1. \E x \in places : \A y \in places : x =< y
    <3>1. places \in SUBSET Nat /\ places # {}
      BY <1>1, <1>3
    <3> HIDE DEF places
    <3> QED
      BY <3>1, SmallestNumber
  <2>2. n \in places
    BY <2>1
  <2>3. LineWithout(r) = RemoveAt(line, n)
    BY <1>3 DEF LineWithout, RemoveFirstMatch, SelectInSeq, Min
  <2>4. n \in 1 .. Len(line) /\ line[n].of = r
    BY <2>2
  <2> HIDE DEF n
  <2>5. RemoveAt(line, n) \in Seq(Jobs) /\ Misses(RemoveAt(line, n), line, n)
    BY <2>4, RemoveMisses
  <2> DEFINE rest == RemoveAt(line, n)
  <2> HIDE DEF rest
  <2>6. rest \in Seq(Jobs) /\ Misses(rest, line, n) /\ LineWithout(r) = rest
    BY <2>3, <2>5 DEF rest
  <2>7. ASSUME OneEach(line)
        PROVE  /\ OneEach(rest)
               /\ InLine(rest, line[n].of) = {}
               /\ \A s \in Requests \ {line[n].of} : InLine(rest, s) = InLine(line, s)
    <3>1. \A l, x \in Seq(Jobs) : \A m :
            m \in DOMAIN l /\ OneEach(l) /\ Misses(x, l, m) => Left(x, l, l[m].of, l[m].kind)
      BY LineShrinks
    <3>2. n \in DOMAIN line
      BY <1>1, <2>4
    <3>3. Left(rest, line, line[n].of, line[n].kind)
      BY <2>6, <2>7, <3>1, <3>2, Zenon
    <3> QED
      BY <3>3 DEF Left
  <2> QED
    BY <2>4, <2>6, <2>7
<1> QED
  BY <1>2, <1>3

LEMMA PlaceTaken ==
  ASSUME NEW b, NEW r \in Requests, NEW kind \in Kinds
  PROVE  /\ OnPlace(b \cup {Job(r, kind)}, r) = OnPlace(b, r) \cup {kind}
         /\ \A s \in Requests \ {r} : OnPlace(b \cup {Job(r, kind)}, s) = OnPlace(b, s)
BY JobFacts DEF OnPlace

LEMMA PlaceGivenBack ==
  ASSUME NEW b, NEW r \in Requests, NEW kind \in Kinds
  PROVE  /\ OnPlace(b \ {Job(r, kind)}, r) = OnPlace(b, r) \ {kind}
         /\ \A s \in Requests \ {r} : OnPlace(b \ {Job(r, kind)}, s) = OnPlace(b, s)
BY JobFacts DEF OnPlace

LEMMA PlacesGivenBack ==
  ASSUME NEW b, NEW r \in Requests
  PROVE  /\ OnPlace({job \in b : job.of # r}, r) = {}
         /\ \A s \in Requests \ {r} : OnPlace({job \in b : job.of # r}, s) = OnPlace(b, s)
BY JobFacts DEF OnPlace

-----------------------------------------------------------------------------
(* Types.  The jobs that have a place are finitely many, which counting them *)
(* takes for granted.                                                      *)

CallersTyped ==
  /\ backend \in {"transformers", "http"}
  /\ consumer \in [Requests -> {"idle", "waiting", "yielded", "closing",
                                "unwinding"} \cup Ended]
  /\ producer \in [Requests -> {"none", "running", "finishing", "ended", "died"}]

TextsTyped ==
  /\ queue \in [Requests -> Seq(Pieces)]
  /\ received \in [Requests -> Seq(Words)]
  /\ produced \in [Requests -> Seq(Seq(Words))]
  /\ \A r \in Requests : Len(produced[r]) <= MaxChunks

PlacesTyped ==
  /\ capacity \in Capacities
  /\ busy \subseteq Jobs
  /\ Cardinality(busy) <= capacity
  /\ IsFiniteSet(busy)

LineTyped == line \in Seq(Jobs)

Typed == CallersTyped /\ TextsTyped /\ PlacesTyped /\ LineTyped

LEMMA TypedIsTypeOK == Typed => TypeOK
BY DEF Typed, CallersTyped, TextsTyped, PlacesTyped, LineTyped, TypeOK, Words, Jobs

LEMMA TextAt ==
  ASSUME TextsTyped, NEW r \in Requests
  PROVE  /\ queue[r] \in Seq(Pieces)
         /\ received[r] \in Seq(Words)
         /\ produced[r] \in Seq(Seq(Words))
         /\ Len(produced[r]) \in Nat /\ Len(produced[r]) <= MaxChunks
<1>1. /\ queue[r] \in Seq(Pieces)
      /\ received[r] \in Seq(Words)
      /\ produced[r] \in Seq(Seq(Words))
      /\ Len(produced[r]) <= MaxChunks
  BY DEF TextsTyped
<1> DEFINE all == produced[r]
           Texts == Seq(Words)
<1>2. all \in Seq(Texts)
  BY <1>1
<1> HIDE DEF all, Texts
<1>3. Len(all) \in Nat
  BY <1>2
<1> QED
  BY <1>1, <1>3 DEF all

LEMMA PlacesShrink ==
  ASSUME PlacesTyped, UNCHANGED capacity, busy' \subseteq busy
  PROVE  PlacesTyped'
<1>1. IsFiniteSet(busy') /\ Cardinality(busy') <= Cardinality(busy)
  BY FS_Subset DEF PlacesTyped
<1>2. Cardinality(busy) \in Nat /\ Cardinality(busy') \in Nat /\ capacity \in Nat
  BY <1>1, FS_CardinalityType, ModelBackendsAssumption DEF PlacesTyped
<1> QED
  BY <1>1, <1>2 DEF PlacesTyped

LEMMA SubmitTypes ==
  ASSUME LineTyped, NEW r \in Requests, NEW kind \in Kinds, Submit(r, kind)
  PROVE  LineTyped'
<1>1. Job(r, kind) \in Jobs
  BY JobFacts
<1> QED
  BY <1>1 DEF Submit, LineTyped

LEMMA BecomesTypes ==
  ASSUME CallersTyped, NEW r \in Requests, NEW state,
         state \in {"idle", "waiting", "yielded", "closing", "unwinding"} \cup Ended,
         Becomes(r, state), UNCHANGED <<backend, producer>>
  PROVE  CallersTyped'
BY DEF Becomes, CallersTyped

LEMMA BeginTypes == Typed /\ Begin => Typed'
<1> SUFFICES ASSUME Typed, Begin PROVE Typed'
  OBVIOUS
<1> DEFINE job == Head(line)
<1>1. job \in Jobs /\ Tail(line) \in Seq(Jobs)
  BY DEF Begin, Typed, LineTyped
<1>2. LineTyped'
  BY <1>1 DEF Begin, LineTyped
<1>3. TextsTyped'
  BY DEF Begin, Typed, TextsTyped
<1>4. job.of \in Requests
  BY <1>1, JobFacts
<1> HIDE DEF job
<1>5. CASE /\ busy' = busy \cup {job}
           /\ producer' = IF job.kind = "stream"
                          THEN [producer EXCEPT ![job.of] = "running"]
                          ELSE producer
           /\ UNCHANGED consumer
  <2>1. CallersTyped'
    BY <1>4, <1>5 DEF Begin, Typed, CallersTyped
  <2>2. PlacesTyped'
    <3>1. Cardinality(busy) < capacity /\ IsFiniteSet(busy) /\ capacity \in Nat
      BY ModelBackendsAssumption DEF Begin, Free, Typed, PlacesTyped
    <3>2. /\ IsFiniteSet(busy')
          /\ Cardinality(busy') = Cardinality(busy) \/ Cardinality(busy') = Cardinality(busy) + 1
          /\ Cardinality(busy) \in Nat
      BY <1>5, <3>1, FS_AddElement, FS_CardinalityType
    <3>3. Cardinality(busy') <= capacity
      BY <3>1, <3>2
    <3> QED
      BY <1>1, <1>5, <3>2, <3>3 DEF Begin, Typed, PlacesTyped
  <2> QED
    BY <1>2, <1>3, <2>1, <2>2 DEF Typed
<1>6. CASE Becomes(job.of, "failed") /\ UNCHANGED <<busy, producer>>
  <2>1. CallersTyped'
    BY <1>4, <1>6, BecomesTypes DEF Begin, Typed, Ended
  <2>2. PlacesTyped'
    BY <1>6 DEF Begin, Typed, PlacesTyped
  <2> QED
    BY <1>2, <1>3, <2>1, <2>2 DEF Typed
<1> QED
  BY <1>5, <1>6 DEF Begin, job

LEMMA PoolTimeoutTypes ==
  ASSUME Typed, NEW r \in Requests, PoolTimeout(r)
  PROVE  Typed'
<1>1. LineTyped'
  BY Withdrawn DEF PoolTimeout, Withdraw, Typed, LineTyped
<1>2. CallersTyped'
  BY BecomesTypes DEF PoolTimeout, Typed, Ended
<1>3. TextsTyped' /\ PlacesTyped'
  BY DEF PoolTimeout, Typed, TextsTyped, PlacesTyped
<1> QED
  BY <1>1, <1>2, <1>3 DEF Typed

LEMMA GenerateTypes ==
  ASSUME Typed, NEW r \in Requests, Generate(r)
  PROVE  Typed'
<1>1. LineTyped'
  BY SubmitTypes DEF Generate, Typed, Kinds
<1>2. CallersTyped'
  BY BecomesTypes DEF Generate, Typed
<1>3. TextsTyped' /\ PlacesTyped'
  BY DEF Generate, Typed, TextsTyped, PlacesTyped
<1> QED
  BY <1>1, <1>2, <1>3 DEF Typed

(* What generate receives: the whole text, as one word.                    *)
LEMMA OneText ==
  /\ <<1>> \in Seq(Words)
  /\ <<<<1>>>> \in Seq(Seq(Words)) /\ Len(<<<<1>>>>) = 1
  /\ FlattenSeq(<<<<1>>>>) = <<1>>
<1>1. 1 \in Words
  BY ModelBackendsAssumption DEF Words
<1>2. <<1>> \in Seq(Words)
  BY <1>1
<1> DEFINE one == <<1>>
<1> HIDE DEF one
<1>3. one \in Seq(Words)
  BY <1>2 DEF one
<1>4. <<one>> \in Seq(Seq(Words)) /\ Len(<<one>>) = 1
  BY <1>3
<1>5. FlattenSeq(<<one>>) = one
  BY <1>3, FlattenOne
<1> QED
  BY <1>2, <1>4, <1>5 DEF one

LEMMA GeneratedTypes ==
  ASSUME Typed, NEW r \in Requests, Generated(r)
  PROVE  Typed'
<1>1. LineTyped' /\ PlacesTyped'
  BY PlacesShrink DEF Generated, Typed, LineTyped
<1>2. CASE UNCHANGED <<produced, received>>
  <2>1. TextsTyped'
    BY <1>2 DEF Generated, Typed, TextsTyped
  <2>2. Becomes(r, "answered") \/ Becomes(r, "failed") \/ UNCHANGED consumer
    BY <1>2 DEF Generated
  <2>3. CallersTyped'
    BY <2>2 DEF Becomes, Generated, Typed, CallersTyped, Ended
  <2> QED
    BY <1>1, <2>1, <2>3 DEF Typed
<1>3. CASE /\ produced' = [produced EXCEPT ![r] = <<<<1>>>>]
           /\ received' = [received EXCEPT ![r] = <<1>>]
           /\ Becomes(r, "answered")
  <2>1. CallersTyped'
    BY <1>3, BecomesTypes DEF Generated, Typed, Ended
  <2> DEFINE one == <<1>>
             text == <<<<1>>>>
  <2>2. one \in Seq(Words) /\ text \in Seq(Seq(Words)) /\ Len(text) <= MaxChunks
    BY OneText, ModelBackendsAssumption
  <2>3. /\ produced' = [produced EXCEPT ![r] = text]
        /\ received' = [received EXCEPT ![r] = one]
        /\ UNCHANGED queue
    BY <1>3 DEF Generated
  <2> HIDE DEF one, text
  <2>4. TextsTyped'
    BY <2>2, <2>3 DEF Typed, TextsTyped
  <2> QED
    BY <1>1, <2>1, <2>4 DEF Typed
<1> QED
  BY <1>2, <1>3 DEF Generated

LEMMA StreamTypes ==
  ASSUME Typed, NEW r \in Requests, Stream(r)
  PROVE  Typed'
<1>1. LineTyped'
  <2>1. Submit(r, "next") \/ Submit(r, "stream") \/ UNCHANGED line
    BY DEF Stream
  <2> QED
    BY <2>1, SubmitTypes DEF Typed, Kinds, LineTyped
<1>2. CallersTyped'
  BY DEF Stream, Becomes, Typed, CallersTyped, Ended
<1>3. TextsTyped' /\ PlacesTyped'
  BY DEF Stream, Typed, TextsTyped, PlacesTyped
<1> QED
  BY <1>1, <1>2, <1>3 DEF Typed

(* A request for which nothing more may be generated has used all there is. *)
LEMMA RoomForOneMore ==
  ASSUME TextsTyped, NEW r \in Requests, Cardinality(AllChunks) < MaxChunks
  PROVE  Len(produced[r]) < MaxChunks
<1>1. MaxChunks \in Nat \ {0} /\ IsFiniteSet(Requests)
  BY ModelBackendsAssumption
<1>2. IsFiniteSet(1 .. MaxChunks) /\ Cardinality(1 .. MaxChunks) = MaxChunks
  BY <1>1, FS_Interval
<1>3. IsFiniteSet(Requests \X (1 .. MaxChunks))
  BY <1>1, <1>2, FS_Product
<1>4. IsFiniteSet(AllChunks)
  BY <1>3, FS_Subset DEF AllChunks
<1>5. ASSUME ~(Len(produced[r]) < MaxChunks) PROVE FALSE
  <2>1. Len(produced[r]) = MaxChunks
    BY <1>1, <1>5, TextAt
  <2> DEFINE own == {r} \X (1 .. MaxChunks)
  <2>2. own \subseteq AllChunks
    BY <1>1, <2>1 DEF AllChunks
  <2>3. Cardinality(own) = MaxChunks
    <3>1. IsFiniteSet({r}) /\ Cardinality({r}) = 1
      BY FS_Singleton
    <3>2. Cardinality(own) = 1 * MaxChunks
      BY <1>2, <3>1, FS_Product
    <3> QED
      BY <1>1, <3>2
  <2>4. Cardinality(own) <= Cardinality(AllChunks)
    BY <1>4, <2>2, FS_Subset
  <2>5. Cardinality(AllChunks) \in Nat
    BY <1>4, FS_CardinalityType
  <2> HIDE DEF own
  <2> QED
    BY <1>1, <2>3, <2>4, <2>5
<1> QED
  BY <1>5

(* What Produce adds to the queue.                                         *)
LEMMA ProducesPiece ==
  ASSUME TextsTyped, NEW r \in Requests, Produce(r)
  PROVE  \E piece \in Pieces :
           /\ piece.kind = "text"
           /\ queue' = [queue EXCEPT ![r] = Append(queue[r], piece)]
           /\ produced' = [produced EXCEPT ![r] = Append(produced[r], piece.words)]
           /\ Len(produced[r]) < MaxChunks
<1>1. PICK text \in BOOLEAN :
        LET words == IF text THEN <<Len(produced[r]) + 1>> ELSE <<>> IN
        /\ queue' = [queue EXCEPT ![r] = Append(@, Piece("text", words))]
        /\ produced' = [produced EXCEPT ![r] = Append(@, words)]
  BY DEF Produce
<1> DEFINE words == IF text THEN <<Len(produced[r]) + 1>> ELSE <<>>
           piece == Piece("text", words)
<1>2. Len(produced[r]) < MaxChunks
  BY RoomForOneMore DEF Produce
<1>3. piece \in Pieces
  <2>1. Len(produced[r]) + 1 \in 1 .. MaxChunks
    BY <1>2, TextAt, ModelBackendsAssumption
  <2> QED
    BY <2>1 DEF Pieces
<1>4. piece.kind = "text" /\ piece.words = words
  BY DEF Piece
<1> HIDE DEF words, piece
<1>5. /\ queue' = [queue EXCEPT ![r] = Append(queue[r], piece)]
      /\ produced' = [produced EXCEPT ![r] = Append(produced[r], piece.words)]
  BY <1>1, <1>4 DEF words, piece
<1> QED
  BY <1>2, <1>3, <1>4, <1>5

LEMMA ProduceTypes ==
  ASSUME Typed, NEW r \in Requests, Produce(r)
  PROVE  Typed'
<1>1. LineTyped' /\ PlacesTyped' /\ CallersTyped'
  BY DEF Produce, Typed, LineTyped, PlacesTyped, CallersTyped
<1>2. PICK piece \in Pieces :
        /\ queue' = [queue EXCEPT ![r] = Append(queue[r], piece)]
        /\ produced' = [produced EXCEPT ![r] = Append(produced[r], piece.words)]
        /\ Len(produced[r]) < MaxChunks
  BY ProducesPiece DEF Typed
<1> DEFINE q == Append(queue[r], piece)
           Texts == Seq(Words)
           prod == Append(produced[r], piece.words)
<1>3. q \in Seq(Pieces)
  BY TextAt DEF Typed
<1>4. prod \in Seq(Texts) /\ Len(prod) = Len(produced[r]) + 1
  <2>1. produced[r] \in Seq(Texts) /\ piece.words \in Texts
    BY TextAt, PieceWords DEF Typed
  <2> HIDE DEF Texts
  <2> QED
    BY <2>1
<1>5. Len(prod) <= MaxChunks
  BY <1>2, <1>4, TextAt, ModelBackendsAssumption DEF Typed
<1> HIDE DEF q, prod
<1>6. queue' = [queue EXCEPT ![r] = q] /\ produced' = [produced EXCEPT ![r] = prod]
  BY <1>2 DEF q, prod
<1>7. TextsTyped'
  BY <1>3, <1>4, <1>5, <1>6 DEF Produce, Typed, TextsTyped
<1> QED
  BY <1>1, <1>7 DEF Typed

LEMMA EndingPieces == Piece("stop", <<>>) \in Pieces /\ Piece("broken", <<>>) \in Pieces
BY DEF Pieces

LEMMA ConcludeTypes ==
  ASSUME Typed, NEW r \in Requests, Conclude(r)
  PROVE  Typed'
<1>1. LineTyped' /\ PlacesTyped'
  BY DEF Conclude, Typed, LineTyped, PlacesTyped
<1>2. CallersTyped'
  BY DEF Conclude, Typed, CallersTyped
<1> DEFINE q == Append(queue[r], Piece("stop", <<>>))
<1>3. q \in Seq(Pieces)
  BY EndingPieces, TextAt DEF Typed
<1> HIDE DEF q
<1>4. queue' = [queue EXCEPT ![r] = q] \/ UNCHANGED queue
  BY DEF Conclude, q
<1>5. TextsTyped'
  BY <1>3, <1>4 DEF Conclude, Typed, TextsTyped
<1> QED
  BY <1>1, <1>2, <1>5 DEF Typed

LEMMA DieTypes ==
  ASSUME Typed, NEW r \in Requests, Die(r)
  PROVE  Typed'
<1>1. LineTyped' /\ PlacesTyped'
  BY DEF Die, Typed, LineTyped, PlacesTyped
<1>2. CallersTyped'
  BY DEF Die, Typed, CallersTyped
<1> DEFINE q == Append(queue[r], Piece("broken", <<>>))
<1>3. q \in Seq(Pieces)
  BY EndingPieces, TextAt DEF Typed
<1> HIDE DEF q
<1>4. queue' = [queue EXCEPT ![r] = q] \/ UNCHANGED queue
  BY DEF Die, q
<1>5. TextsTyped'
  BY <1>3, <1>4 DEF Die, Typed, TextsTyped
<1> QED
  BY <1>1, <1>2, <1>5 DEF Typed

LEMMA HeadTypes ==
  ASSUME TextsTyped, NEW r \in Requests, queue[r] # <<>>
  PROVE  /\ Head(queue[r]) \in Pieces /\ Tail(queue[r]) \in Seq(Pieces)
         /\ Head(queue[r]).words \in Seq(Words)
         /\ received[r] \o Head(queue[r]).words \in Seq(Words)
<1>1. Head(queue[r]) \in Pieces /\ Tail(queue[r]) \in Seq(Pieces)
  BY TextAt
<1>2. Head(queue[r]).words \in Seq(Words)
  BY <1>1, PieceWords
<1>3. received[r] \o Head(queue[r]).words \in Seq(Words)
  BY <1>2, TextAt
<1> QED
  BY <1>1, <1>2, <1>3

LEMMA ReadQueueTypes ==
  ASSUME Typed, NEW r \in Requests, ReadQueue(r)
  PROVE  Typed'
<1>1. PlacesTyped'
  BY PlacesShrink DEF ReadQueue, Typed
<1>2. LineTyped'
  <2>1. Submit(r, "next") \/ Submit(r, "join") \/ UNCHANGED line
    BY DEF ReadQueue, AfterEnd
  <2> QED
    BY <2>1, SubmitTypes DEF Typed, Kinds, LineTyped
<1>3. CallersTyped'
  BY DEF ReadQueue, AfterEnd, Becomes, Typed, CallersTyped
<1>4. TextsTyped'
  BY HeadTypes DEF ReadQueue, Typed, TextsTyped
<1> QED
  BY <1>1, <1>2, <1>3, <1>4 DEF Typed

LEMMA ReadLineTypes ==
  ASSUME Typed, NEW r \in Requests, ReadLine(r)
  PROVE  Typed'
<1>1. PlacesTyped' /\ LineTyped'
  BY PlacesShrink DEF ReadLine, Release, Typed, LineTyped
<1>2. CallersTyped'
  BY DEF ReadLine, Becomes, Typed, CallersTyped, Ended
<1>3. TextsTyped'
  BY HeadTypes DEF ReadLine, Typed, TextsTyped
<1> QED
  BY <1>1, <1>2, <1>3 DEF Typed

LEMMA ResumeTypes ==
  ASSUME Typed, NEW r \in Requests, Resume(r)
  PROVE  Typed'
<1>1. TextsTyped' /\ PlacesTyped'
  BY DEF Resume, Typed, TextsTyped, PlacesTyped
<1>2. CallersTyped'
  BY BecomesTypes DEF Resume, Typed
<1>3. LineTyped'
  BY SubmitTypes DEF Resume, Typed, LineTyped, Kinds
<1> QED
  BY <1>1, <1>2, <1>3 DEF Typed

LEMMA JoinedTypes ==
  ASSUME Typed, NEW r \in Requests, Joined(r)
  PROVE  Typed'
<1>1. LineTyped' /\ PlacesTyped'
  BY PlacesShrink DEF Joined, Typed, LineTyped
<1>2. TextsTyped'
  BY DEF Joined, Typed, TextsTyped
<1>3. CallersTyped'
  BY DEF Joined, Typed, CallersTyped, Ended
<1> QED
  BY <1>1, <1>2, <1>3 DEF Typed

LEMMA CancelTypes ==
  ASSUME Typed, NEW r \in Requests, Cancel(r)
  PROVE  Typed'
<1>1. LineTyped'
  <2>1. LineWithout(r) \in Seq(Jobs) /\ Job(r, "join") \in Jobs
    BY Withdrawn, JobFacts DEF Typed, LineTyped, Kinds
  <2>2. line' = LineWithout(r) \/ line' = Append(LineWithout(r), Job(r, "join"))
    BY DEF Cancel, Withdraw
  <2> QED
    BY <2>1, <2>2 DEF LineTyped
<1>2. PlacesTyped'
  <2>1. busy' \subseteq busy
    BY DEF Cancel
  <2> QED
    BY <2>1, PlacesShrink DEF Cancel, Typed
<1>3. CallersTyped'
  BY DEF Cancel, Becomes, Typed, CallersTyped, Ended
<1>4. TextsTyped'
  BY DEF Cancel, Typed, TextsTyped
<1> QED
  BY <1>1, <1>2, <1>3, <1>4 DEF Typed

LEMMA InitTypes == Init => Typed
<1> SUFFICES ASSUME Init PROVE Typed
  OBVIOUS
<1>1. CallersTyped /\ LineTyped
  BY DEF Init, CallersTyped, LineTyped, Ended
<1>2. TextsTyped
  <2> DEFINE Texts == Seq(Words)
  <2>1. <<>> \in Seq(Pieces) /\ <<>> \in Seq(Words) /\ <<>> \in Seq(Texts) /\ Len(<<>>) = 0
    OBVIOUS
  <2> QED
    BY <2>1, ModelBackendsAssumption DEF Init, TextsTyped
<1>3. PlacesTyped
  BY FS_EmptySet, ModelBackendsAssumption DEF Init, PlacesTyped
<1> QED
  BY <1>1, <1>2, <1>3 DEF Typed

LEMMA StepTypes == Typed /\ [Next]_vars => Typed'
<1> SUFFICES ASSUME Typed, [Next]_vars PROVE Typed'
  OBVIOUS
<1>1. CASE UNCHANGED vars
  BY <1>1 DEF vars, Typed, CallersTyped, TextsTyped, PlacesTyped, LineTyped
<1>2. CASE Begin
  BY <1>2, BeginTypes
<1>3. CASE \E r \in Requests :
             \/ PoolTimeout(r) \/ Generate(r) \/ Generated(r) \/ Stream(r)
             \/ Produce(r) \/ Conclude(r) \/ Die(r)
             \/ ReadQueue(r) \/ ReadLine(r) \/ Resume(r) \/ Joined(r) \/ Cancel(r)
  BY <1>3, PoolTimeoutTypes, GenerateTypes, GeneratedTypes, StreamTypes, ProduceTypes,
     ConcludeTypes, DieTypes, ReadQueueTypes, ReadLineTypes, ResumeTypes, JoinedTypes,
     CancelTypes
<1> QED
  BY <1>1, <1>2, <1>3 DEF Next

LEMMA AlwaysTyped == Spec => []Typed
<1>1. Init => Typed
  BY InitTypes
<1>2. Typed /\ [Next]_vars => Typed'
  BY StepTypes
<1> QED
  BY <1>1, <1>2, PTL DEF Spec

(* Every variable keeps to its values, no more places are taken than there   *)
(* are, and the bound on what is generated holds request by request.         *)
THEOREM BackendTypesCorrect == Spec => []TypeOK
<1>1. Typed => TypeOK
  BY TypedIsTypeOK
<1> QED
  BY <1>1, AlwaysTyped, PTL

-----------------------------------------------------------------------------
(* The inductive invariant.  A request waits for one place at most, and which *)
(* jobs it has in the line (W) and on places (B) follows from where its      *)
(* caller (c) and its producer (p) are, in the backend b.                   *)

Either(W, B, kind) ==
  \/ W = {kind} /\ B = {}
  \/ W = {} /\ B = {kind}

JobsFit(b, c, p, W, B) ==
  /\ c = "idle" => p = "none" /\ W = {} /\ B = {}
  /\ c = "waiting" =>
       \/ p = "none" /\ Either(W, B, "generate")
       \/ b = "transformers" /\ p # "none" /\ Either(W, B, "next")
       \/ b = "http" /\ p = "none" /\ W = {"stream"} /\ B = {}
       \/ b = "http" /\ p # "none" /\ W = {} /\ B = {"stream"}
  /\ c = "yielded" =>
       p # "none" /\ W = {} /\ B = IF b = "http" THEN {"stream"} ELSE {}
  /\ c = "closing" =>
       b = "transformers" /\ p \in {"finishing", "ended"} /\ Either(W, B, "join")
  /\ c = "unwinding" =>
       /\ b = "transformers" /\ p # "none"
       /\ \/ W = {"join"} /\ B \subseteq {"next"}
          \/ W = {} /\ "join" \in B /\ B \subseteq {"join", "next"}
  /\ c = "answered" =>
       /\ W = {} /\ B = {} /\ p \in {"none", "finishing", "ended"}
       /\ b = "transformers" => p # "finishing"
  /\ c = "failed" => W = {} /\ B = {}
  /\ c = "cancelled" =>
       W = {} /\ B \subseteq IF b = "http" THEN {} ELSE {"generate", "next", "join"}

Placed(r) ==
  JobsFit(backend, consumer[r], producer[r], InLine(line, r), OnPlace(busy, r))

Told(r) == TextFits(consumer[r], producer[r], queue[r], received[r], produced[r])

IInv ==
  /\ Typed
  /\ OneEach(line)
  /\ \A r \in Requests : Placed(r) /\ Told(r)

(* A step of one request leaves every other as it was.                      *)

CallersStay(r) ==
  /\ UNCHANGED backend
  /\ \A s \in Requests \ {r} : consumer'[s] = consumer[s] /\ producer'[s] = producer[s]

TextsStay(r) ==
  \A s \in Requests \ {r} :
    queue'[s] = queue[s] /\ received'[s] = received[s] /\ produced'[s] = produced[s]

LineStays(r) ==
  /\ OneEach(line')
  /\ \A s \in Requests \ {r} : InLine(line', s) = InLine(line, s)

PlacesStay(r) ==
  \A s \in Requests \ {r} : OnPlace(busy', s) = OnPlace(busy, s)

LEMMA OneMoves ==
  ASSUME IInv, [Next]_vars, NEW r \in Requests,
         CallersStay(r), TextsStay(r), LineStays(r), PlacesStay(r), Placed(r)', Told(r)'
  PROVE  IInv'
<1>1. Typed'
  BY StepTypes DEF IInv
<1>2. ASSUME NEW s \in Requests \ {r} PROVE Placed(s)' /\ Told(s)'
  <2>1. Placed(s) /\ Told(s)
    BY DEF IInv
  <2> QED
    BY <2>1 DEF Placed, Told, CallersStay, TextsStay, LineStays, PlacesStay
<1>3. \A s \in Requests : Placed(s)' /\ Told(s)'
  BY <1>2
<1> QED
  BY <1>1, <1>3 DEF IInv, LineStays

LEMMA LineKept ==
  ASSUME IInv, UNCHANGED line, NEW r \in Requests
  PROVE  LineStays(r) /\ InLine(line', r) = InLine(line, r)
BY DEF LineStays, IInv

LEMMA Submitted ==
  ASSUME IInv, NEW r \in Requests, NEW kind \in Kinds, InLine(line, r) = {},
         Submit(r, kind)
  PROVE  LineStays(r) /\ InLine(line', r) = {kind}
<1>1. line \in Seq(Jobs) /\ OneEach(line)
  BY DEF IInv, Typed, LineTyped
<1> QED
  BY <1>1, LineGrows DEF LineStays, Submit

LEMMA LeftTheLine ==
  ASSUME IInv, NEW r \in Requests, Withdraw(r)
  PROVE  LineStays(r) /\ InLine(line', r) = {}
BY Withdrawn DEF IInv, Typed, LineTyped, LineStays, Withdraw

LEMMA MovedToJoin ==
  ASSUME IInv, NEW r \in Requests, line' = Append(LineWithout(r), Job(r, "join"))
  PROVE  LineStays(r) /\ InLine(line', r) = {"join"}
<1> DEFINE l == LineWithout(r)
<1>1. /\ l \in Seq(Jobs) /\ OneEach(l) /\ InLine(l, r) = {}
      /\ \A s \in Requests \ {r} : InLine(l, s) = InLine(line, s)
  BY Withdrawn DEF IInv, Typed, LineTyped
<1> HIDE DEF l
<1>2. "join" \in Kinds
  BY DEF Kinds
<1>3. /\ OneEach(Append(l, Job(r, "join")))
      /\ InLine(Append(l, Job(r, "join")), r) = {"join"}
      /\ \A s \in Requests \ {r} :
           InLine(Append(l, Job(r, "join")), s) = InLine(l, s)
  BY <1>1, <1>2, LineGrows
<1> QED
  BY <1>1, <1>3 DEF LineStays, l

LEMMA Finished ==
  ASSUME NEW r \in Requests, NEW kind \in Kinds, busy' = busy \ {Job(r, kind)}
  PROVE  PlacesStay(r) /\ OnPlace(busy', r) = OnPlace(busy, r) \ {kind}
BY PlaceGivenBack DEF PlacesStay

LEMMA Holds ==
  ASSUME NEW r \in Requests, NEW kind \in Kinds, Job(r, kind) \in busy
  PROVE  kind \in OnPlace(busy, r)
BY DEF OnPlace

LEMMA PlacesKept ==
  ASSUME UNCHANGED busy, NEW r \in Requests
  PROVE  PlacesStay(r) /\ OnPlace(busy', r) = OnPlace(busy, r)
BY DEF PlacesStay

LEMMA TextsKept ==
  ASSUME UNCHANGED <<queue, received, produced>>, NEW r \in Requests
  PROVE  /\ TextsStay(r)
         /\ queue'[r] = queue[r] /\ received'[r] = received[r] /\ produced'[r] = produced[r]
BY DEF TextsStay

LEMMA CallerBecomes ==
  ASSUME IInv, NEW r \in Requests, NEW state, Becomes(r, state),
         UNCHANGED <<backend, producer>>
  PROVE  CallersStay(r) /\ consumer'[r] = state /\ producer'[r] = producer[r]
BY DEF Becomes, CallersStay, IInv, Typed, CallersTyped

LEMMA CallersKept ==
  ASSUME NEW r \in Requests, UNCHANGED <<backend, consumer, producer>>
  PROVE  CallersStay(r) /\ consumer'[r] = consumer[r] /\ producer'[r] = producer[r]
BY DEF CallersStay

LEMMA InvariantAt ==
  ASSUME IInv, NEW r \in Requests
  PROVE  /\ Placed(r) /\ Told(r)
         /\ queue[r] \in Seq(Pieces)
         /\ received[r] \in Seq(Words)
         /\ produced[r] \in Seq(Seq(Words))
         /\ backend \in {"transformers", "http"}
         /\ consumer[r] \in {"idle", "waiting", "yielded", "closing", "unwinding"} \cup Ended
         /\ producer[r] \in {"none", "running", "finishing", "ended", "died"}
<1>1. TextsTyped /\ CallersTyped
  BY DEF IInv, Typed
<1> QED
  BY <1>1, TextAt DEF IInv, CallersTyped

LEMMA BeginFits == IInv /\ Begin => IInv'
<1> SUFFICES ASSUME IInv, Begin PROVE IInv'
  OBVIOUS
<1> DEFINE job == Head(line)
<1>1. [Next]_vars
  BY DEF Next
<1>2. line \in Seq(Jobs) /\ line # <<>> /\ OneEach(line)
  BY DEF IInv, Typed, LineTyped, Begin
<1>3. job \in Jobs
  BY <1>2
<1>4. PICK r \in Requests, kind \in Kinds : job = Job(r, kind) /\ job.of = r /\ job.kind = kind
  BY <1>3, JobFacts
<1>5. Left(Tail(line), line, r, kind)
  <2> DEFINE rest == Tail(line)
  <2>1. rest \in Seq(Jobs) /\ Misses(rest, line, 1) /\ 1 \in DOMAIN line /\ Head(line) = line[1]
    BY <1>2, TailMisses
  <2> HIDE DEF rest
  <2>2. Left(rest, line, line[1].of, line[1].kind)
    BY <1>2, <2>1, LineShrinks
  <2> QED
    BY <1>4, <2>1, <2>2 DEF rest
<1> HIDE DEF job
<1>6. line' = Tail(line)
  BY DEF Begin
<1>7. LineStays(r) /\ InLine(line, r) = {kind} /\ InLine(line', r) = {}
  BY <1>5, <1>6 DEF Left, LineStays
<1>8. TextsStay(r) /\ queue'[r] = queue[r] /\ received'[r] = received[r] /\ produced'[r] = produced[r]
  BY <1>4, TextsKept DEF Begin
<1>9. Placed(r) /\ Told(r)
  BY <1>4, InvariantAt
<1>10. JobsFit(backend, consumer[r], producer[r], {kind}, OnPlace(busy, r))
  BY <1>7, <1>9 DEF Placed
<1>11. CASE /\ busy' = busy \cup {job}
            /\ producer' = IF kind = "stream"
                           THEN [producer EXCEPT ![r] = "running"]
                           ELSE producer
            /\ UNCHANGED consumer
  <2> DEFINE p == IF kind = "stream" THEN "running" ELSE producer[r]
  <2>1. CallersStay(r) /\ consumer'[r] = consumer[r] /\ producer'[r] = p
    BY <1>4, <1>11 DEF CallersStay, Begin, IInv, Typed, CallersTyped
  <2>2. PlacesStay(r) /\ OnPlace(busy', r) = OnPlace(busy, r) \cup {kind}
    <3>1. busy' = busy \cup {Job(r, kind)}
      BY <1>4, <1>11
    <3> QED
      BY <3>1, PlaceTaken DEF PlacesStay
  <2>3. JobsFit(backend, consumer[r], p, {}, OnPlace(busy, r) \cup {kind})
    BY <1>4, <1>10, InvariantAt DEF JobsFit, Either, Ended
  <2>4. TextFits(consumer[r], p, queue[r], received[r], produced[r])
    <3>1. CASE kind = "stream"
      <4>1. producer[r] = "none" /\ consumer[r] # "answered"
        BY <1>4, <1>10, <3>1, InvariantAt DEF JobsFit, Either, Ended
      <4> QED
        BY <1>9, <3>1, <4>1, ProducerMoves DEF Told
    <3>2. CASE kind # "stream"
      BY <1>9, <3>2 DEF Told
    <3> QED
      BY <3>1, <3>2
  <2> HIDE DEF p
  <2>5. backend' = backend
    BY DEF Begin
  <2>6. Placed(r)' /\ Told(r)'
    BY <1>7, <1>8, <2>1, <2>2, <2>3, <2>4, <2>5 DEF Placed, Told
  <2> QED
    BY <1>1, <1>4, <1>7, <1>8, <2>1, <2>2, <2>6, OneMoves
<1>12. CASE kind = "stream" /\ Becomes(r, "failed") /\ UNCHANGED <<busy, producer>>
  <2>1. CallersStay(r) /\ consumer'[r] = "failed" /\ producer'[r] = producer[r]
    BY <1>4, <1>12, CallerBecomes DEF Begin
  <2>2. PlacesStay(r) /\ OnPlace(busy', r) = OnPlace(busy, r)
    BY <1>4, <1>12, PlacesKept
  <2>3. consumer[r] # "answered" /\ OnPlace(busy, r) = {}
    BY <1>4, <1>10, <1>12, InvariantAt DEF JobsFit, Either, Ended
  <2>4. JobsFit(backend', "failed", producer[r], {}, {})
    BY DEF JobsFit
  <2>5. TextFits("failed", producer[r], queue[r], received[r], produced[r])
    BY <1>9, <2>3, CallerMoves DEF Told
  <2>6. Placed(r)' /\ Told(r)'
    BY <1>7, <1>8, <2>1, <2>2, <2>3, <2>4, <2>5 DEF Placed, Told
  <2> QED
    BY <1>1, <1>4, <1>7, <1>8, <2>1, <2>2, <2>6, OneMoves
<1> QED
  BY <1>4, <1>11, <1>12 DEF Begin, job

LEMMA PoolTimeoutFits ==
  ASSUME IInv, NEW r \in Requests, PoolTimeout(r)
  PROVE  IInv'
<1> USE InvariantAt DEF Ended
<1>1. [Next]_vars
  BY DEF Next
<1> DEFINE W == InLine(line, r)
           B == OnPlace(busy, r)
<1>2. /\ JobsFit(backend, consumer[r], producer[r], W, B)
      /\ TextFits(consumer[r], producer[r], queue[r], received[r], produced[r])
  BY DEF Placed, Told
<1>3. backend = "http" /\ W # {}
  <2>1. \E i \in DOMAIN line : line[i].of = r
    BY DEF PoolTimeout
  <2> QED
    BY <2>1, NotInLine DEF PoolTimeout, IInv, Typed, LineTyped
<1> HIDE DEF W, B
<1>4. consumer[r] # "answered" /\ B = {}
  BY <1>2, <1>3 DEF JobsFit, Either
<1>5. CallersStay(r) /\ consumer'[r] = "failed" /\ producer'[r] = producer[r]
  BY CallerBecomes DEF PoolTimeout
<1>6. TextsStay(r) /\ queue'[r] = queue[r] /\ received'[r] = received[r] /\ produced'[r] = produced[r]
  BY TextsKept DEF PoolTimeout
<1>7. LineStays(r) /\ InLine(line', r) = {}
  BY LeftTheLine DEF PoolTimeout
<1>8. PlacesStay(r) /\ OnPlace(busy', r) = B
  BY PlacesKept DEF PoolTimeout, B
<1>9. JobsFit(backend', "failed", producer[r], {}, {})
  BY DEF JobsFit
<1>10. TextFits("failed", producer[r], queue[r], received[r], produced[r])
  BY <1>2, <1>4, CallerMoves
<1>11. Placed(r)' /\ Told(r)'
  BY <1>4, <1>5, <1>6, <1>7, <1>8, <1>9, <1>10 DEF Placed, Told
<1> QED
  BY <1>1, <1>5, <1>6, <1>7, <1>8, <1>11, OneMoves

LEMMA GenerateFits ==
  ASSUME IInv, NEW r \in Requests, Generate(r)
  PROVE  IInv'
<1> USE InvariantAt DEF Ended
<1>1. [Next]_vars
  BY DEF Next
<1> DEFINE W == InLine(line, r)
           B == OnPlace(busy, r)
<1>2. /\ JobsFit(backend, consumer[r], producer[r], W, B)
      /\ TextFits(consumer[r], producer[r], queue[r], received[r], produced[r])
  BY DEF Placed, Told
<1> HIDE DEF W, B
<1>3. consumer[r] = "idle" /\ producer[r] = "none" /\ W = {} /\ B = {}
  BY <1>2 DEF Generate, JobsFit
<1>4. CallersStay(r) /\ consumer'[r] = "waiting" /\ producer'[r] = producer[r]
  BY CallerBecomes DEF Generate
<1>5. TextsStay(r) /\ queue'[r] = queue[r] /\ received'[r] = received[r] /\ produced'[r] = produced[r]
  BY TextsKept DEF Generate
<1>6. LineStays(r) /\ InLine(line', r) = {"generate"}
  BY <1>3, Submitted DEF Generate, Kinds, W
<1>7. PlacesStay(r) /\ OnPlace(busy', r) = {}
  BY <1>3, PlacesKept DEF Generate, B
<1>8. JobsFit(backend', "waiting", "none", {"generate"}, {})
  BY DEF JobsFit, Either
<1>9. TextFits("waiting", "none", queue[r], received[r], produced[r])
  BY <1>2, <1>3, CallerMoves
<1>10. Placed(r)' /\ Told(r)'
  BY <1>3, <1>4, <1>5, <1>6, <1>7, <1>8, <1>9 DEF Placed, Told
<1> QED
  BY <1>1, <1>4, <1>5, <1>6, <1>7, <1>10, OneMoves

LEMMA GeneratedFits ==
  ASSUME IInv, NEW r \in Requests, Generated(r)
  PROVE  IInv'
<1> USE InvariantAt DEF Ended
<1>1. [Next]_vars
  BY DEF Next
<1> DEFINE W == InLine(line, r)
           B == OnPlace(busy, r)
<1>2. /\ JobsFit(backend, consumer[r], producer[r], W, B)
      /\ TextFits(consumer[r], producer[r], queue[r], received[r], produced[r])
  BY DEF Placed, Told
<1>3. "generate" \in B
  BY Holds DEF Generated, Kinds
<1>4. LineStays(r) /\ InLine(line', r) = W
  BY LineKept DEF Generated
<1>5. PlacesStay(r) /\ OnPlace(busy', r) = B \ {"generate"}
  BY Finished DEF Generated, Kinds
<1>6. backend' = backend /\ producer' = producer /\ queue' = queue
  BY DEF Generated
<1> HIDE DEF W, B
<1>7. CASE consumer[r] = "waiting" /\ consumer' = [consumer EXCEPT ![r] = "answered"]
           /\ produced' = [produced EXCEPT ![r] = <<<<1>>>>]
           /\ received' = [received EXCEPT ![r] = <<1>>]
  <2>1. producer[r] = "none" /\ W = {} /\ B \ {"generate"} = {}
    BY <1>2, <1>3, <1>7 DEF JobsFit, Either
  <2>2. queue[r] = <<>>
    BY <1>2, <1>7, <2>1 DEF TextFits
  <2>3. CallersStay(r) /\ consumer'[r] = "answered" /\ producer'[r] = "none"
    BY <1>6, <1>7, <2>1, CallerBecomes DEF Becomes
  <2> DEFINE one == <<1>>
             text == <<<<1>>>>
  <2>4. FlattenSeq(text) = one /\ one \in Seq(Words)
    BY OneText
  <2>5. produced' = [produced EXCEPT ![r] = text] /\ received' = [received EXCEPT ![r] = one]
    BY <1>7
  <2> HIDE DEF one, text
  <2>6. /\ TextsStay(r)
        /\ queue'[r] = <<>> /\ received'[r] = one /\ produced'[r] = text
    BY <1>6, <2>2, <2>5 DEF TextsStay, IInv, Typed, TextsTyped
  <2>7. JobsFit(backend', "answered", "none", {}, {})
    BY DEF JobsFit
  <2>8. TextFits("answered", "none", <<>>, one, text)
    BY <2>4, PrefixFacts DEF TextFits
  <2>9. Placed(r)' /\ Told(r)'
    BY <1>4, <1>5, <2>1, <2>3, <2>6, <2>7, <2>8 DEF Placed, Told
  <2> QED
    BY <1>1, <1>4, <1>5, <2>3, <2>6, <2>9, OneMoves
<1>8. CASE consumer[r] = "waiting" /\ Becomes(r, "failed") /\ UNCHANGED <<produced, received>>
  <2>1. W = {} /\ B \ {"generate"} = {}
    BY <1>2, <1>3, <1>8 DEF JobsFit, Either
  <2>2. CallersStay(r) /\ consumer'[r] = "failed" /\ producer'[r] = producer[r]
    BY <1>6, <1>8, CallerBecomes
  <2>3. TextsStay(r) /\ queue'[r] = queue[r] /\ received'[r] = received[r] /\ produced'[r] = produced[r]
    BY <1>6, <1>8, TextsKept
  <2>4. JobsFit(backend', "failed", producer[r], {}, {})
    BY DEF JobsFit
  <2>5. TextFits("failed", producer[r], queue[r], received[r], produced[r])
    BY <1>2, <1>8, CallerMoves
  <2>6. Placed(r)' /\ Told(r)'
    BY <1>4, <1>5, <2>1, <2>2, <2>3, <2>4, <2>5 DEF Placed, Told
  <2> QED
    BY <1>1, <1>4, <1>5, <2>2, <2>3, <2>6, OneMoves
<1>9. CASE consumer[r] # "waiting" /\ UNCHANGED <<consumer, produced, received>>
  <2>1. JobsFit(backend, consumer[r], producer[r], W, B \ {"generate"})
    BY <1>2, <1>3, <1>9 DEF JobsFit, Either
  <2>2. CallersStay(r) /\ consumer'[r] = consumer[r] /\ producer'[r] = producer[r]
    BY <1>6, <1>9, CallersKept
  <2>3. TextsStay(r) /\ queue'[r] = queue[r] /\ received'[r] = received[r] /\ produced'[r] = produced[r]
    BY <1>6, <1>9, TextsKept
  <2>4. Placed(r)' /\ Told(r)'
    BY <1>2, <1>4, <1>5, <1>6, <2>1, <2>2, <2>3 DEF Placed, Told
  <2> QED
    BY <1>1, <1>4, <1>5, <2>2, <2>3, <2>4, OneMoves
<1> QED
  BY <1>7, <1>8, <1>9 DEF Generated, Becomes

LEMMA StreamFits ==
  ASSUME IInv, NEW r \in Requests, Stream(r)
  PROVE  IInv'
<1> USE InvariantAt DEF Ended
<1>1. [Next]_vars
  BY DEF Next
<1> DEFINE W == InLine(line, r)
           B == OnPlace(busy, r)
<1>2. /\ JobsFit(backend, consumer[r], producer[r], W, B)
      /\ TextFits(consumer[r], producer[r], queue[r], received[r], produced[r])
  BY DEF Placed, Told
<1> HIDE DEF W, B
<1>3. consumer[r] = "idle" /\ producer[r] = "none" /\ W = {} /\ B = {}
  BY <1>2 DEF Stream, JobsFit
<1>4. TextsStay(r) /\ queue'[r] = queue[r] /\ received'[r] = received[r] /\ produced'[r] = produced[r]
  BY TextsKept DEF Stream
<1>5. PlacesStay(r) /\ OnPlace(busy', r) = {}
  BY <1>3, PlacesKept DEF Stream, B
<1>6. backend' = backend
  BY DEF Stream
<1>7. TextFits("waiting", "none", queue[r], received[r], produced[r])
  BY <1>2, <1>3, CallerMoves
<1>8. CASE /\ backend = "transformers"
           /\ producer' = [producer EXCEPT ![r] = "running"]
           /\ Submit(r, "next")
           /\ Becomes(r, "waiting")
  <2>1. CallersStay(r) /\ consumer'[r] = "waiting" /\ producer'[r] = "running"
    BY <1>6, <1>8 DEF Becomes, CallersStay, IInv, Typed, CallersTyped
  <2>2. LineStays(r) /\ InLine(line', r) = {"next"}
    BY <1>3, <1>8, Submitted DEF Kinds, W
  <2>3. JobsFit("transformers", "waiting", "running", {"next"}, {})
    BY DEF JobsFit, Either
  <2>4. TextFits("waiting", "running", queue[r], received[r], produced[r])
    BY <1>7, ProducerMoves
  <2>5. Placed(r)' /\ Told(r)'
    BY <1>4, <1>5, <1>6, <1>8, <2>1, <2>2, <2>3, <2>4 DEF Placed, Told
  <2> QED
    BY <1>1, <1>4, <1>5, <2>1, <2>2, <2>5, OneMoves
<1>9. CASE Becomes(r, "failed") /\ UNCHANGED <<producer, line>>
  <2>1. CallersStay(r) /\ consumer'[r] = "failed" /\ producer'[r] = "none"
    BY <1>3, <1>6, <1>9, CallerBecomes
  <2>2. LineStays(r) /\ InLine(line', r) = {}
    BY <1>3, <1>9, LineKept DEF W
  <2>3. JobsFit(backend, "failed", "none", {}, {})
    BY DEF JobsFit
  <2>4. TextFits("failed", "none", queue[r], received[r], produced[r])
    BY <1>7, CallerMoves
  <2>5. Placed(r)' /\ Told(r)'
    BY <1>4, <1>5, <1>6, <2>1, <2>2, <2>3, <2>4 DEF Placed, Told
  <2> QED
    BY <1>1, <1>4, <1>5, <2>1, <2>2, <2>5, OneMoves
<1>10. CASE /\ backend = "http"
            /\ Submit(r, "stream")
            /\ Becomes(r, "waiting")
            /\ UNCHANGED producer
  <2>1. CallersStay(r) /\ consumer'[r] = "waiting" /\ producer'[r] = "none"
    BY <1>3, <1>6, <1>10, CallerBecomes
  <2>2. LineStays(r) /\ InLine(line', r) = {"stream"}
    BY <1>3, <1>10, Submitted DEF Kinds, W
  <2>3. JobsFit("http", "waiting", "none", {"stream"}, {})
    BY DEF JobsFit, Either
  <2>4. Placed(r)' /\ Told(r)'
    BY <1>4, <1>5, <1>6, <1>7, <1>10, <2>1, <2>2, <2>3 DEF Placed, Told
  <2> QED
    BY <1>1, <1>4, <1>5, <2>1, <2>2, <2>4, OneMoves
<1> QED
  BY <1>8, <1>9, <1>10 DEF Stream

LEMMA ProduceFits ==
  ASSUME IInv, NEW r \in Requests, Produce(r)
  PROVE  IInv'
<1> USE InvariantAt DEF Ended
<1>1. [Next]_vars
  BY DEF Next
<1> DEFINE W == InLine(line, r)
           B == OnPlace(busy, r)
<1>2. /\ JobsFit(backend, consumer[r], producer[r], W, B)
      /\ TextFits(consumer[r], producer[r], queue[r], received[r], produced[r])
  BY DEF Placed, Told
<1>3. LineStays(r) /\ InLine(line', r) = W
  BY LineKept DEF Produce
<1>4. PlacesStay(r) /\ OnPlace(busy', r) = B
  BY PlacesKept DEF Produce
<1> HIDE DEF W, B
<1>5. CallersStay(r) /\ consumer'[r] = consumer[r] /\ producer'[r] = producer[r]
  BY CallersKept DEF Produce
<1>6. producer[r] = "running" /\ consumer[r] \notin {"closing", "answered"}
  BY <1>2 DEF Produce, JobsFit
<1>7. PICK piece \in Pieces :
        /\ piece.kind = "text"
        /\ queue' = [queue EXCEPT ![r] = Append(queue[r], piece)]
        /\ produced' = [produced EXCEPT ![r] = Append(produced[r], piece.words)]
  BY ProducesPiece DEF IInv, Typed
<1> DEFINE q == Append(queue[r], piece)
           prod == Append(produced[r], piece.words)
<1>8. TextFits(consumer[r], "running", q, received[r], prod)
  BY <1>2, <1>6, <1>7, PieceAdded
<1>9. queue' = [queue EXCEPT ![r] = q] /\ produced' = [produced EXCEPT ![r] = prod]
  BY <1>7
<1> HIDE DEF q, prod
<1>10. /\ TextsStay(r)
       /\ queue'[r] = q /\ received'[r] = received[r] /\ produced'[r] = prod
  BY <1>9 DEF Produce, TextsStay, IInv, Typed, TextsTyped
<1>11. backend' = backend
  BY DEF Produce
<1>12. Placed(r)' /\ Told(r)'
  BY <1>2, <1>3, <1>4, <1>5, <1>6, <1>8, <1>10, <1>11 DEF Placed, Told
<1> QED
  BY <1>1, <1>3, <1>4, <1>5, <1>10, <1>12, OneMoves

(* The producer goes on to another state, with or without a last piece.     *)
LEMMA ProducerFits ==
  ASSUME IInv, [Next]_vars, NEW r \in Requests,
         UNCHANGED <<backend, consumer, line, busy, received, produced>>,
         NEW p, producer' = [producer EXCEPT ![r] = p],
         NEW q, queue' = [queue EXCEPT ![r] = q],
         JobsFit(backend, consumer[r], p, InLine(line, r), OnPlace(busy, r)),
         TextFits(consumer[r], p, q, received[r], produced[r])
  PROVE  IInv'
<1>1. LineStays(r) /\ InLine(line', r) = InLine(line, r)
  BY LineKept
<1>2. PlacesStay(r) /\ OnPlace(busy', r) = OnPlace(busy, r)
  BY PlacesKept
<1>3. CallersStay(r) /\ consumer'[r] = consumer[r] /\ producer'[r] = p
  BY DEF CallersStay, IInv, Typed, CallersTyped
<1>4. TextsStay(r) /\ queue'[r] = q /\ received'[r] = received[r] /\ produced'[r] = produced[r]
  BY DEF TextsStay, IInv, Typed, TextsTyped
<1>5. Placed(r)' /\ Told(r)'
  BY <1>1, <1>2, <1>3, <1>4 DEF Placed, Told
<1> QED
  BY <1>1, <1>2, <1>3, <1>4, <1>5, OneMoves

LEMMA ConcludeFits ==
  ASSUME IInv, NEW r \in Requests, Conclude(r)
  PROVE  IInv'
<1> USE InvariantAt DEF Ended
<1>1. [Next]_vars
  BY DEF Next
<1> DEFINE W == InLine(line, r)
           B == OnPlace(busy, r)
<1>2. /\ JobsFit(backend, consumer[r], producer[r], W, B)
      /\ TextFits(consumer[r], producer[r], queue[r], received[r], produced[r])
  BY DEF Placed, Told
<1> HIDE DEF W, B
<1>3. /\ UNCHANGED <<backend, consumer, line, busy, received, produced>>
      /\ queue[r] \in Seq(Pieces)
  BY DEF Conclude
<1>4. CASE /\ producer[r] = "running"
           /\ queue' = [queue EXCEPT ![r] = Append(@, Piece("stop", <<>>))]
           /\ producer' = [producer EXCEPT ![r] =
                              IF backend = "http" THEN "ended" ELSE "finishing"]
  <2> DEFINE stop == Piece("stop", <<>>)
             q == Append(queue[r], stop)
             p == IF backend = "http" THEN "ended" ELSE "finishing"
  <2>1. stop \in Pieces /\ stop.kind = "stop"
    BY EndingPieces DEF Piece
  <2>2. queue' = [queue EXCEPT ![r] = q] /\ producer' = [producer EXCEPT ![r] = p]
    BY <1>4
  <2> HIDE DEF stop
  <2>3. TextFits(consumer[r], p, q, received[r], produced[r])
    BY <1>2, <1>4, <2>1, EndAdded
  <2>4. JobsFit(backend, consumer[r], p, W, B)
    BY <1>2, <1>4 DEF JobsFit
  <2> HIDE DEF p, q
  <2> QED
    BY <1>1, <1>3, <2>2, <2>3, <2>4, ProducerFits DEF W, B
<1>5. CASE /\ producer[r] = "finishing"
           /\ producer' = [producer EXCEPT ![r] = "ended"]
           /\ UNCHANGED queue
  <2>1. queue' = [queue EXCEPT ![r] = queue[r]]
    BY <1>5 DEF IInv, Typed, TextsTyped
  <2>2. TextFits(consumer[r], "ended", queue[r], received[r], produced[r])
    BY <1>2, <1>5, ProducerMoves
  <2>3. JobsFit(backend, consumer[r], "ended", W, B)
    BY <1>2, <1>5 DEF JobsFit
  <2> QED
    BY <1>1, <1>3, <1>5, <2>1, <2>2, <2>3, ProducerFits DEF W, B
<1> QED
  BY <1>4, <1>5 DEF Conclude

LEMMA DieFits ==
  ASSUME IInv, NEW r \in Requests, Die(r)
  PROVE  IInv'
<1> USE InvariantAt DEF Ended
<1>1. [Next]_vars
  BY DEF Next
<1> DEFINE W == InLine(line, r)
           B == OnPlace(busy, r)
<1>2. /\ JobsFit(backend, consumer[r], producer[r], W, B)
      /\ TextFits(consumer[r], producer[r], queue[r], received[r], produced[r])
  BY DEF Placed, Told
<1> HIDE DEF W, B
<1>3. /\ UNCHANGED <<backend, consumer, line, busy, received, produced>>
      /\ producer[r] = "running" /\ producer' = [producer EXCEPT ![r] = "died"]
  BY DEF Die
<1>4. JobsFit(backend, consumer[r], "died", W, B)
  BY <1>2, <1>3 DEF JobsFit
<1>5. CASE queue' = [queue EXCEPT ![r] = Append(@, Piece("broken", <<>>))]
  <2> DEFINE broken == Piece("broken", <<>>)
             q == Append(queue[r], broken)
  <2>1. broken \in Pieces /\ broken.kind = "broken"
    BY EndingPieces DEF Piece
  <2>2. queue' = [queue EXCEPT ![r] = q]
    BY <1>5
  <2> HIDE DEF broken
  <2>3. TextFits(consumer[r], "died", q, received[r], produced[r])
    BY <1>2, <1>3, <2>1, EndAdded
  <2> HIDE DEF q
  <2> QED
    BY <1>1, <1>3, <1>4, <2>2, <2>3, ProducerFits DEF W, B
<1>6. CASE queue' = queue
  <2>1. queue' = [queue EXCEPT ![r] = queue[r]]
    BY <1>6 DEF IInv, Typed, TextsTyped
  <2>2. TextFits(consumer[r], "died", queue[r], received[r], produced[r])
    BY <1>2, <1>3, ProducerMoves
  <2> QED
    BY <1>1, <1>3, <1>4, <2>1, <2>2, ProducerFits DEF W, B
<1> QED
  BY <1>5, <1>6 DEF Die

LEMMA NothingMore ==
  ASSUME NEW rec \in Seq(Words), NEW words, words = <<>>
  PROVE  rec \o words = rec
OBVIOUS

(* What reading a piece does to the text.                                   *)
LEMMA PieceTold ==
  ASSUME IInv, NEW r \in Requests, consumer[r] = "waiting", producer[r] # "none",
         queue[r] # <<>>
  PROVE  /\ IsEnd(Head(queue[r])) =>
              /\ producer[r] \in {"finishing", "ended"}
              /\ \A c : TextFits(c, producer[r], Tail(queue[r]), received[r], produced[r])
         /\ \A c \in {"waiting", "yielded"} :
              TextFits(c, producer[r], Tail(queue[r]),
                       received[r] \o Head(queue[r]).words, produced[r])
         /\ Head(queue[r]).words = <<>> =>
              TextFits("waiting", producer[r], Tail(queue[r]), received[r], produced[r])
         /\ TextFits("failed", producer[r], Tail(queue[r]), received[r], produced[r])
<1>1. TextFits("waiting", producer[r], queue[r], received[r], produced[r])
  BY InvariantAt DEF Told
<1>2. queue[r] \in Seq(Pieces) /\ received[r] \in Seq(Words) /\ produced[r] \in Seq(Seq(Words))
  BY InvariantAt
<1>3. ASSUME IsEnd(Head(queue[r]))
      PROVE  /\ producer[r] \in {"finishing", "ended"}
             /\ \A c : TextFits(c, producer[r], Tail(queue[r]), received[r], produced[r])
  BY <1>1, <1>2, <1>3, EndRead DEF IsEnd
<1>4. \A c \in {"waiting", "yielded"} :
        TextFits(c, producer[r], Tail(queue[r]),
                 received[r] \o Head(queue[r]).words, produced[r])
  BY <1>1, <1>2, PieceRead
<1>5. ASSUME Head(queue[r]).words = <<>>
      PROVE  TextFits("waiting", producer[r], Tail(queue[r]), received[r], produced[r])
  <2>1. received[r] \o Head(queue[r]).words = received[r]
    BY <1>2, <1>5, NothingMore
  <2>2. TextFits("waiting", producer[r], Tail(queue[r]),
                 received[r] \o Head(queue[r]).words, produced[r])
    BY <1>4
  <2> QED
    BY <2>1, <2>2
<1>6. TextFits("failed", producer[r], Tail(queue[r]), received[r], produced[r])
  <2>1. TextFits("failed", producer[r], queue[r], received[r], produced[r])
    BY <1>1, CallerMoves
  <2> QED
    BY <1>2, <2>1, PieceLost
<1> QED
  BY <1>3, <1>4, <1>5, <1>6

LEMMA QueueRead ==
  ASSUME IInv, NEW r \in Requests, queue' = [queue EXCEPT ![r] = Tail(@)],
         UNCHANGED produced, NEW rec, received' = [received EXCEPT ![r] = rec]
  PROVE  /\ TextsStay(r)
         /\ queue'[r] = Tail(queue[r]) /\ received'[r] = rec /\ produced'[r] = produced[r]
BY DEF TextsStay, IInv, Typed, TextsTyped

LEMMA QueueReadOnly ==
  ASSUME IInv, NEW r \in Requests, queue' = [queue EXCEPT ![r] = Tail(@)],
         UNCHANGED <<produced, received>>
  PROVE  /\ TextsStay(r)
         /\ queue'[r] = Tail(queue[r]) /\ received'[r] = received[r]
         /\ produced'[r] = produced[r]
BY DEF TextsStay, IInv, Typed, TextsTyped

LEMMA ReadQueueFits ==
  ASSUME IInv, NEW r \in Requests, ReadQueue(r)
  PROVE  IInv'
<1> USE InvariantAt DEF Ended
<1>1. [Next]_vars
  BY DEF Next
<1> DEFINE W == InLine(line, r)
           B == OnPlace(busy, r)
<1>2. /\ JobsFit(backend, consumer[r], producer[r], W, B)
      /\ TextFits(consumer[r], producer[r], queue[r], received[r], produced[r])
  BY DEF Placed, Told
<1> DEFINE piece == Head(queue[r])
           rest == Tail(queue[r])
           more == received[r] \o piece.words
<1>3. "next" \in B
  BY Holds DEF ReadQueue, Kinds
<1>4. PlacesStay(r) /\ OnPlace(busy', r) = B \ {"next"}
  BY Finished DEF ReadQueue, Kinds
<1>5. /\ backend' = backend /\ producer' = producer /\ produced' = produced
      /\ queue[r] # <<>> /\ queue' = [queue EXCEPT ![r] = Tail(@)]
  BY DEF ReadQueue
<1> HIDE DEF W, B
<1>6. ASSUME consumer[r] = "waiting"
      PROVE  backend = "transformers" /\ producer[r] # "none" /\ W = {} /\ B \ {"next"} = {}
  BY <1>2, <1>3, <1>6 DEF JobsFit, Either
<1>7. CASE consumer[r] # "waiting" /\ UNCHANGED <<consumer, line, received>>
  <2>1. JobsFit(backend, consumer[r], producer[r], W, B \ {"next"})
    BY <1>2, <1>3, <1>7 DEF JobsFit, Either
  <2>2. consumer[r] \in {"unwinding", "cancelled"}
    BY <1>2, <1>3, <1>7 DEF JobsFit, Either
  <2>3. producer[r] # "none"
    BY <1>2, <1>5, <2>2 DEF TextFits
  <2>4. TextFits(consumer[r], producer[r], rest, received[r], produced[r])
    BY <1>2, <1>5, <2>2, <2>3, PieceLost
  <2>5. CallersStay(r) /\ consumer'[r] = consumer[r] /\ producer'[r] = producer[r]
    BY <1>5, <1>7, CallersKept
  <2>6. LineStays(r) /\ InLine(line', r) = W
    BY <1>7, LineKept DEF W
  <2>7. TextsStay(r) /\ queue'[r] = rest /\ received'[r] = received[r] /\ produced'[r] = produced[r]
    BY <1>5, <1>7, QueueReadOnly
  <2> HIDE DEF rest
  <2>8. Placed(r)' /\ Told(r)'
    BY <1>4, <1>5, <2>1, <2>4, <2>5, <2>6, <2>7 DEF Placed, Told
  <2> QED
    BY <1>1, <1>4, <2>5, <2>6, <2>7, <2>8, OneMoves
<1>8. CASE consumer[r] = "waiting" /\ IsEnd(piece) /\ AfterEnd(r) /\ UNCHANGED received
  <2>1. /\ producer[r] \in {"finishing", "ended"}
        /\ TextFits("closing", producer[r], rest, received[r], produced[r])
    BY <1>5, <1>6, <1>8, PieceTold
  <2>2. CallersStay(r) /\ consumer'[r] = "closing" /\ producer'[r] = producer[r]
    BY <1>5, <1>8, CallerBecomes DEF AfterEnd
  <2>3. LineStays(r) /\ InLine(line', r) = {"join"}
    BY <1>6, <1>8, Submitted DEF AfterEnd, Kinds, W
  <2>4. TextsStay(r) /\ queue'[r] = rest /\ received'[r] = received[r] /\ produced'[r] = produced[r]
    BY <1>5, <1>8, QueueReadOnly
  <2>5. JobsFit(backend', "closing", producer[r], {"join"}, {})
    BY <1>5, <1>6, <1>8, <2>1 DEF JobsFit, Either
  <2> HIDE DEF rest
  <2>6. Placed(r)' /\ Told(r)'
    BY <1>4, <1>6, <1>8, <2>1, <2>2, <2>3, <2>4, <2>5 DEF Placed, Told
  <2> QED
    BY <1>1, <1>4, <2>2, <2>3, <2>4, <2>6, OneMoves
<1>9. CASE /\ consumer[r] = "waiting" /\ piece.words = <<>>
           /\ Submit(r, "next") /\ UNCHANGED <<consumer, received>>
  <2>1. TextFits("waiting", producer[r], rest, received[r], produced[r])
    BY <1>5, <1>6, <1>9, PieceTold
  <2>2. CallersStay(r) /\ consumer'[r] = "waiting" /\ producer'[r] = producer[r]
    BY <1>5, <1>9, CallersKept
  <2>3. LineStays(r) /\ InLine(line', r) = {"next"}
    BY <1>6, <1>9, Submitted DEF Kinds, W
  <2>4. TextsStay(r) /\ queue'[r] = rest /\ received'[r] = received[r] /\ produced'[r] = produced[r]
    BY <1>5, <1>9, QueueReadOnly
  <2>5. JobsFit(backend', "waiting", producer[r], {"next"}, {})
    BY <1>5, <1>6, <1>9 DEF JobsFit, Either
  <2> HIDE DEF rest
  <2>6. Placed(r)' /\ Told(r)'
    BY <1>4, <1>6, <1>9, <2>1, <2>2, <2>3, <2>4, <2>5 DEF Placed, Told
  <2> QED
    BY <1>1, <1>4, <2>2, <2>3, <2>4, <2>6, OneMoves
<1>10. CASE /\ consumer[r] = "waiting"
            /\ received' = [received EXCEPT ![r] = @ \o piece.words]
            /\ Becomes(r, "yielded") /\ UNCHANGED line
  <2>1. TextFits("yielded", producer[r], rest, more, produced[r])
    BY <1>5, <1>6, <1>10, PieceTold
  <2>2. CallersStay(r) /\ consumer'[r] = "yielded" /\ producer'[r] = producer[r]
    BY <1>5, <1>10, CallerBecomes
  <2>3. LineStays(r) /\ InLine(line', r) = {}
    BY <1>6, <1>10, LineKept DEF W
  <2>4. received' = [received EXCEPT ![r] = more]
    BY <1>10
  <2>5. JobsFit(backend', "yielded", producer[r], {}, {})
    BY <1>5, <1>6, <1>10 DEF JobsFit
  <2> HIDE DEF more
  <2>6. TextsStay(r) /\ queue'[r] = rest /\ received'[r] = more /\ produced'[r] = produced[r]
    BY <1>5, <2>4, QueueRead
  <2> HIDE DEF rest
  <2>7. Placed(r)' /\ Told(r)'
    BY <1>4, <1>6, <1>10, <2>1, <2>2, <2>3, <2>5, <2>6 DEF Placed, Told
  <2> QED
    BY <1>1, <1>4, <2>2, <2>3, <2>6, <2>7, OneMoves
<1> QED
  BY <1>7, <1>8, <1>9, <1>10 DEF ReadQueue

LEMMA ReadLineFits ==
  ASSUME IInv, NEW r \in Requests, ReadLine(r)
  PROVE  IInv'
<1> USE InvariantAt DEF Ended
<1>1. [Next]_vars
  BY DEF Next
<1> DEFINE W == InLine(line, r)
           B == OnPlace(busy, r)
<1>2. /\ JobsFit(backend, consumer[r], producer[r], W, B)
      /\ TextFits(consumer[r], producer[r], queue[r], received[r], produced[r])
  BY DEF Placed, Told
<1> DEFINE piece == Head(queue[r])
           rest == Tail(queue[r])
           more == received[r] \o piece.words
<1>3. "stream" \in B /\ consumer[r] = "waiting"
  BY Holds DEF ReadLine, Kinds
<1>4. LineStays(r) /\ InLine(line', r) = W
  BY LineKept DEF ReadLine
<1>5. /\ backend' = backend /\ producer' = producer /\ produced' = produced
      /\ queue[r] # <<>> /\ queue' = [queue EXCEPT ![r] = Tail(@)]
  BY DEF ReadLine
<1>6. Release(r) => PlacesStay(r) /\ OnPlace(busy', r) = B \ {"stream"}
  BY Finished DEF Release, Kinds
<1>7. busy' = busy => PlacesStay(r) /\ OnPlace(busy', r) = B
  BY PlacesKept
<1> HIDE DEF W, B
<1>8. backend = "http" /\ producer[r] # "none" /\ W = {} /\ B = {"stream"}
  BY <1>2, <1>3 DEF JobsFit, Either
<1>9. CASE IsEnd(piece) /\ Becomes(r, "answered") /\ Release(r) /\ UNCHANGED received
  <2>1. /\ producer[r] \in {"finishing", "ended"}
        /\ TextFits("answered", producer[r], rest, received[r], produced[r])
    BY <1>3, <1>5, <1>8, <1>9, PieceTold
  <2>2. CallersStay(r) /\ consumer'[r] = "answered" /\ producer'[r] = producer[r]
    BY <1>5, <1>9, CallerBecomes
  <2>3. PlacesStay(r) /\ OnPlace(busy', r) = {}
    BY <1>6, <1>8, <1>9
  <2>4. TextsStay(r) /\ queue'[r] = rest /\ received'[r] = received[r] /\ produced'[r] = produced[r]
    BY <1>5, <1>9, QueueReadOnly
  <2>5. JobsFit(backend', "answered", producer[r], {}, {})
    BY <1>5, <1>8, <2>1 DEF JobsFit
  <2> HIDE DEF rest
  <2>6. Placed(r)' /\ Told(r)'
    BY <1>4, <1>8, <2>1, <2>2, <2>3, <2>4, <2>5 DEF Placed, Told
  <2> QED
    BY <1>1, <1>4, <2>2, <2>3, <2>4, <2>6, OneMoves
<1>10. CASE Becomes(r, "failed") /\ Release(r) /\ UNCHANGED received
  <2>1. TextFits("failed", producer[r], rest, received[r], produced[r])
    BY <1>3, <1>5, <1>8, PieceTold
  <2>2. CallersStay(r) /\ consumer'[r] = "failed" /\ producer'[r] = producer[r]
    BY <1>5, <1>10, CallerBecomes
  <2>3. PlacesStay(r) /\ OnPlace(busy', r) = {}
    BY <1>6, <1>8, <1>10
  <2>4. TextsStay(r) /\ queue'[r] = rest /\ received'[r] = received[r] /\ produced'[r] = produced[r]
    BY <1>5, <1>10, QueueReadOnly
  <2>5. JobsFit(backend', "failed", producer[r], {}, {})
    BY DEF JobsFit
  <2> HIDE DEF rest
  <2>6. Placed(r)' /\ Told(r)'
    BY <1>4, <1>8, <2>1, <2>2, <2>3, <2>4, <2>5 DEF Placed, Told
  <2> QED
    BY <1>1, <1>4, <2>2, <2>3, <2>4, <2>6, OneMoves
<1>11. CASE piece.words = <<>> /\ UNCHANGED <<consumer, busy, received>>
  <2>1. TextFits("waiting", producer[r], rest, received[r], produced[r])
    BY <1>3, <1>5, <1>8, <1>11, PieceTold
  <2>2. CallersStay(r) /\ consumer'[r] = "waiting" /\ producer'[r] = producer[r]
    BY <1>3, <1>5, <1>11, CallersKept
  <2>3. PlacesStay(r) /\ OnPlace(busy', r) = B
    BY <1>7, <1>11
  <2>4. TextsStay(r) /\ queue'[r] = rest /\ received'[r] = received[r] /\ produced'[r] = produced[r]
    BY <1>5, <1>11, QueueReadOnly
  <2>5. JobsFit(backend', "waiting", producer[r], W, B)
    BY <1>2, <1>3, <1>5
  <2> HIDE DEF rest
  <2>6. Placed(r)' /\ Told(r)'
    BY <1>4, <2>1, <2>2, <2>3, <2>4, <2>5 DEF Placed, Told
  <2> QED
    BY <1>1, <1>4, <2>2, <2>3, <2>4, <2>6, OneMoves
<1>12. CASE /\ received' = [received EXCEPT ![r] = @ \o piece.words]
            /\ Becomes(r, "yielded") /\ UNCHANGED busy
  <2>1. TextFits("yielded", producer[r], rest, more, produced[r])
    BY <1>3, <1>5, <1>8, PieceTold
  <2>2. CallersStay(r) /\ consumer'[r] = "yielded" /\ producer'[r] = producer[r]
    BY <1>5, <1>12, CallerBecomes
  <2>3. PlacesStay(r) /\ OnPlace(busy', r) = B
    BY <1>7, <1>12
  <2>4. received' = [received EXCEPT ![r] = more]
    BY <1>12
  <2>5. JobsFit(backend', "yielded", producer[r], W, B)
    BY <1>5, <1>8 DEF JobsFit
  <2> HIDE DEF more
  <2>6. TextsStay(r) /\ queue'[r] = rest /\ received'[r] = more /\ produced'[r] = produced[r]
    BY <1>5, <2>4, QueueRead
  <2> HIDE DEF rest
  <2>7. Placed(r)' /\ Told(r)'
    BY <1>4, <2>1, <2>2, <2>3, <2>5, <2>6 DEF Placed, Told
  <2> QED
    BY <1>1, <1>4, <2>2, <2>3, <2>6, <2>7, OneMoves
<1> QED
  BY <1>9, <1>10, <1>11, <1>12 DEF ReadLine

LEMMA ResumeFits ==
  ASSUME IInv, NEW r \in Requests, Resume(r)
  PROVE  IInv'
<1> USE InvariantAt DEF Ended
<1>1. [Next]_vars
  BY DEF Next
<1> DEFINE W == InLine(line, r)
           B == OnPlace(busy, r)
<1>2. /\ JobsFit(backend, consumer[r], producer[r], W, B)
      /\ TextFits(consumer[r], producer[r], queue[r], received[r], produced[r])
  BY DEF Placed, Told
<1> HIDE DEF W, B
<1>3. TextsStay(r) /\ queue'[r] = queue[r] /\ received'[r] = received[r] /\ produced'[r] = produced[r]
  BY TextsKept DEF Resume
<1>4. PlacesStay(r) /\ OnPlace(busy', r) = B
  BY PlacesKept DEF Resume, B
<1>5. CallersStay(r) /\ consumer'[r] = "waiting" /\ producer'[r] = producer[r]
  BY CallerBecomes DEF Resume
<1>6. TextFits("waiting", producer[r], queue[r], received[r], produced[r])
  BY <1>2, CallerMoves DEF Resume
<1>7. /\ producer[r] # "none" /\ W = {} /\ backend' = backend
      /\ B = IF backend = "http" THEN {"stream"} ELSE {}
  BY <1>2 DEF Resume, JobsFit
<1>8. CASE backend = "transformers"
  <2>1. LineStays(r) /\ InLine(line', r) = {"next"}
    BY <1>7, <1>8, Submitted DEF Resume, Kinds, W
  <2>2. JobsFit(backend', "waiting", producer[r], {"next"}, B)
    BY <1>7, <1>8 DEF JobsFit, Either
  <2>3. Placed(r)' /\ Told(r)'
    BY <1>3, <1>4, <1>5, <1>6, <2>1, <2>2 DEF Placed, Told
  <2> QED
    BY <1>1, <1>3, <1>4, <1>5, <2>1, <2>3, OneMoves
<1>9. CASE backend = "http"
  <2>1. LineStays(r) /\ InLine(line', r) = W
    BY <1>9, LineKept DEF Resume, W
  <2>2. JobsFit(backend', "waiting", producer[r], W, B)
    BY <1>7, <1>9 DEF JobsFit, Either
  <2>3. Placed(r)' /\ Told(r)'
    BY <1>3, <1>4, <1>5, <1>6, <2>1, <2>2 DEF Placed, Told
  <2> QED
    BY <1>1, <1>3, <1>4, <1>5, <2>1, <2>3, OneMoves
<1> QED
  BY <1>8, <1>9

LEMMA JoinedFits ==
  ASSUME IInv, NEW r \in Requests, Joined(r)
  PROVE  IInv'
<1> USE InvariantAt DEF Ended
<1>1. [Next]_vars
  BY DEF Next
<1> DEFINE W == InLine(line, r)
           B == OnPlace(busy, r)
<1>2. /\ JobsFit(backend, consumer[r], producer[r], W, B)
      /\ TextFits(consumer[r], producer[r], queue[r], received[r], produced[r])
  BY DEF Placed, Told
<1>3. "join" \in B
  BY Holds DEF Joined, Kinds
<1>4. LineStays(r) /\ InLine(line', r) = W
  BY LineKept DEF Joined
<1>5. PlacesStay(r) /\ OnPlace(busy', r) = B \ {"join"}
  BY Finished DEF Joined, Kinds
<1>6. TextsStay(r) /\ queue'[r] = queue[r] /\ received'[r] = received[r] /\ produced'[r] = produced[r]
  BY TextsKept DEF Joined
<1>7. backend' = backend /\ producer' = producer /\ producer[r] \in {"ended", "died"}
  BY DEF Joined
<1> HIDE DEF W, B
<1> DEFINE c == IF consumer[r] = "closing" THEN "answered"
                ELSE IF consumer[r] = "unwinding" THEN "cancelled" ELSE consumer[r]
<1>8. CallersStay(r) /\ consumer'[r] = c /\ producer'[r] = producer[r]
  BY DEF Joined, CallersStay, IInv, Typed, CallersTyped
<1>9. JobsFit(backend, c, producer[r], W, B \ {"join"})
  <2>1. CASE consumer[r] = "closing"
    BY <1>2, <1>3, <1>7, <2>1 DEF JobsFit, Either
  <2>2. CASE consumer[r] = "unwinding"
    BY <1>2, <1>3, <1>7, <2>2 DEF JobsFit, Either
  <2>3. CASE consumer[r] \notin {"closing", "unwinding"}
    <3>1. consumer[r] = "cancelled"
      BY <1>2, <1>3, <2>3 DEF JobsFit, Either
    <3> QED
      BY <1>2, <3>1 DEF JobsFit
  <2> QED
    BY <2>1, <2>2, <2>3
<1>10. TextFits(c, producer[r], queue[r], received[r], produced[r])
  <2>1. CASE consumer[r] \in {"closing", "unwinding"}
    BY <1>2, <2>1, CallerMoves
  <2>2. CASE consumer[r] \notin {"closing", "unwinding"}
    BY <1>2, <2>2
  <2> QED
    BY <2>1, <2>2
<1> HIDE DEF c
<1>11. Placed(r)' /\ Told(r)'
  BY <1>4, <1>5, <1>6, <1>7, <1>8, <1>9, <1>10 DEF Placed, Told
<1> QED
  BY <1>1, <1>4, <1>5, <1>6, <1>8, <1>11, OneMoves

LEMMA CancelFits ==
  ASSUME IInv, NEW r \in Requests, Cancel(r)
  PROVE  IInv'
<1> USE InvariantAt DEF Ended
<1>1. [Next]_vars
  BY DEF Next
<1> DEFINE W == InLine(line, r)
           B == OnPlace(busy, r)
<1>2. /\ JobsFit(backend, consumer[r], producer[r], W, B)
      /\ TextFits(consumer[r], producer[r], queue[r], received[r], produced[r])
  BY DEF Placed, Told
<1>3. /\ UNCHANGED <<backend, producer>>
      /\ consumer[r] \in {"waiting", "yielded", "closing", "unwinding"}
  BY DEF Cancel
<1>4. TextsStay(r) /\ queue'[r] = queue[r] /\ received'[r] = received[r] /\ produced'[r] = produced[r]
  BY TextsKept DEF Cancel
<1>5. busy' = busy => PlacesStay(r) /\ OnPlace(busy', r) = B
  BY PlacesKept
<1>6. busy' = {job \in busy : job.of # r} => PlacesStay(r) /\ OnPlace(busy', r) = {}
  <2>1. /\ OnPlace({job \in busy : job.of # r}, r) = {}
        /\ \A s \in Requests \ {r} :
             OnPlace({job \in busy : job.of # r}, s) = OnPlace(busy, s)
    BY PlacesGivenBack
  <2> DEFINE left == {job \in busy : job.of # r}
  <2>2. OnPlace(left, r) = {} /\ \A s \in Requests \ {r} : OnPlace(left, s) = OnPlace(busy, s)
    BY <2>1
  <2> HIDE DEF left
  <2>3. busy' = left => PlacesStay(r) /\ OnPlace(busy', r) = {}
    BY <2>2 DEF PlacesStay
  <2> QED
    BY <2>3 DEF left
<1> HIDE DEF W, B
<1>7. \A c \in {"unwinding", "cancelled"} :
        TextFits(c, producer[r], queue[r], received[r], produced[r])
  BY <1>2, <1>3, CallerMoves
<1>8. CASE /\ producer[r] # "none" /\ backend = "transformers"
           /\ consumer[r] \in {"waiting", "yielded"}
           /\ Becomes(r, "unwinding") /\ UNCHANGED busy
           /\ line' = Append(LineWithout(r), Job(r, "join"))
  <2>1. CallersStay(r) /\ consumer'[r] = "unwinding" /\ producer'[r] = producer[r]
    BY <1>3, <1>8, CallerBecomes
  <2>2. LineStays(r) /\ InLine(line', r) = {"join"}
    BY <1>8, MovedToJoin
  <2>3. JobsFit(backend', "unwinding", producer[r], {"join"}, B)
    BY <1>2, <1>3, <1>8 DEF JobsFit, Either
  <2>4. Placed(r)' /\ Told(r)'
    BY <1>4, <1>5, <1>7, <1>8, <2>1, <2>2, <2>3 DEF Placed, Told
  <2> QED
    BY <1>1, <1>4, <1>5, <1>8, <2>1, <2>2, <2>4, OneMoves
<1>9. CASE /\ ~ (/\ producer[r] # "none" /\ backend = "transformers"
                 /\ consumer[r] \in {"waiting", "yielded"})
           /\ Becomes(r, "cancelled") /\ Withdraw(r)
           /\ busy' = IF backend = "http" THEN {job \in busy : job.of # r} ELSE busy
  <2>1. CallersStay(r) /\ consumer'[r] = "cancelled" /\ producer'[r] = producer[r]
    BY <1>3, <1>9, CallerBecomes
  <2>2. LineStays(r) /\ InLine(line', r) = {}
    BY <1>9, LeftTheLine
  <2>3. PlacesStay(r) /\ OnPlace(busy', r) = IF backend = "http" THEN {} ELSE B
    BY <1>5, <1>6, <1>9
  <2>4. JobsFit(backend', "cancelled", producer[r], {}, IF backend = "http" THEN {} ELSE B)
    BY <1>2, <1>3, <1>9 DEF JobsFit, Either
  <2>5. Placed(r)' /\ Told(r)'
    BY <1>4, <1>7, <2>1, <2>2, <2>3, <2>4 DEF Placed, Told
  <2> QED
    BY <1>1, <1>4, <2>1, <2>2, <2>3, <2>5, OneMoves
<1> QED
  BY <1>8, <1>9 DEF Cancel

LEMMA InitInvariant == Init => IInv
<1> SUFFICES ASSUME Init PROVE IInv
  OBVIOUS
<1>1. Typed
  BY InitTypes
<1>2. OneEach(line)
  BY DEF Init, OneEach
<1>3. ASSUME NEW r \in Requests PROVE Placed(r) /\ Told(r)
  <2>1. InLine(line, r) = {} /\ OnPlace(busy, r) = {}
    BY DEF Init, InLine, OnPlace
  <2>2. JobsFit(backend, "idle", "none", {}, {})
    BY DEF JobsFit
  <2>3. TextFits("idle", "none", <<>>, <<>>, <<>>)
    BY NothingYet
  <2> QED
    BY <2>1, <2>2, <2>3 DEF Init, Placed, Told
<1> QED
  BY <1>1, <1>2, <1>3 DEF IInv

LEMMA StepInvariant == IInv /\ [Next]_vars => IInv'
<1> SUFFICES ASSUME IInv, [Next]_vars PROVE IInv'
  OBVIOUS
<1>1. CASE UNCHANGED vars
  <2>1. Typed'
    BY StepTypes DEF IInv
  <2>2. ASSUME NEW r \in Requests PROVE Placed(r)' /\ Told(r)'
    BY <1>1 DEF vars, IInv, Placed, Told
  <2> QED
    BY <1>1, <2>1, <2>2 DEF vars, IInv
<1>2. CASE Begin
  BY <1>2, BeginFits
<1>3. CASE \E r \in Requests :
             \/ PoolTimeout(r) \/ Generate(r) \/ Generated(r) \/ Stream(r)
             \/ Produce(r) \/ Conclude(r) \/ Die(r)
             \/ ReadQueue(r) \/ ReadLine(r) \/ Resume(r) \/ Joined(r) \/ Cancel(r)
  BY <1>3, PoolTimeoutFits, GenerateFits, GeneratedFits, StreamFits, ProduceFits,
     ConcludeFits, DieFits, ReadQueueFits, ReadLineFits, ResumeFits, JoinedFits,
     CancelFits
<1> QED
  BY <1>1, <1>2, <1>3 DEF Next

LEMMA Invariance == Spec => []IInv
<1>1. Init => IInv
  BY InitInvariant
<1>2. IInv /\ [Next]_vars => IInv'
  BY StepInvariant
<1> QED
  BY <1>1, <1>2, PTL DEF Spec

(* However many requests share the places, and whichever of them are         *)
(* cancelled, time out or lose their producer: a caller has received a       *)
(* beginning of its own text, and all of it once it is answered.            *)
THEOREM AnswersAreWhole == Spec => []AnswerIsWhole
<1>1. IInv => AnswerIsWhole
  <2>1. ASSUME IInv, NEW r \in Requests
        PROVE  /\ IsPrefix(received[r], FlattenSeq(produced[r]))
               /\ consumer[r] = "answered" => received[r] = FlattenSeq(produced[r])
    BY <2>1 DEF IInv, Told, TextFits
  <2> QED
    BY <2>1 DEF AnswerIsWhole
<1> QED
  BY <1>1, Invariance, PTL

(* No finished request keeps a worker or a connection it no longer reads     *)
(* from, and no answered one a thread that still generates.                 *)
THEOREM NothingIsLeft == Spec => []NothingLeftBehind
<1>1. IInv => NothingLeftBehind
  <2> SUFFICES ASSUME IInv, NEW r \in Requests,
                      consumer[r] = "answered" \/ (backend = "http" /\ consumer[r] \in Ended)
               PROVE  /\ \A job \in busy : job.of # r
                      /\ backend = "transformers" => producer[r] \in {"none", "ended"}
    BY DEF NothingLeftBehind
  <2>1. JobsFit(backend, consumer[r], producer[r], InLine(line, r), OnPlace(busy, r))
    BY InvariantAt DEF Placed
  <2>2. OnPlace(busy, r) = {}
    BY <2>1 DEF JobsFit, Ended
  <2>3. backend = "transformers" => producer[r] \in {"none", "ended"}
    BY <2>1 DEF JobsFit, Ended
  <2>4. ASSUME NEW job \in busy, job.of = r PROVE FALSE
    <3>1. job \in Jobs
      BY DEF IInv, Typed, PlacesTyped
    <3>2. job.kind \in Kinds /\ job = Job(r, job.kind)
      BY <2>4, <3>1, JobFacts
    <3>3. job.kind \in OnPlace(busy, r)
      BY <3>2 DEF OnPlace
    <3> QED
      BY <2>2, <3>3
  <2> QED
    BY <2>3, <2>4
<1> QED
  BY <1>1, Invariance, PTL

=============================================================================
