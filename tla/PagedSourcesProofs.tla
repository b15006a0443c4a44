------------------------- MODULE PagedSourcesProofs -------------------------
(***************************************************************************)
(* Proofs about PagedSources, for whatever there is to read, however it     *)
(* nests, and for any bounds.                                              *)
(***************************************************************************)
EXTENDS PagedSources, FlatteningProofs

Node == DOMAIN remote.kind

LEMMA RemoteFacts ==
  ASSUME remote \in Remotes
  PROVE  /\ Makes(children, Node, Node) /\ children \in [Node -> Seq(Node)]
         /\ remote.roots \in Seq(Node) /\ remote.roots # <<>>
         /\ remote.service \in {"notion", "slack"}
         /\ \A n \in Node : Own(n) \in Seq(Node)
<1>1. /\ children \in [Node -> Seq(Node)]
      /\ remote.roots \in Seq(Node) /\ remote.roots # <<>>
      /\ remote.service \in {"notion", "slack"}
  BY RemotesAssumption DEF Node, children
<1>2. ASSUME NEW n \in Node PROVE Own(n) \in Seq(Node)
  BY DEF Own
<1> QED
  BY <1>1, <1>2 DEF Makes

-----------------------------------------------------------------------------
(* The outline is what its definition says, level by level. *)
LinesOver(levels, row) ==
  [n \in Node |->
    IF n \notin original THEN <<>>
    ELSE Own(n) \o (IF levels = 0 \/ remote.service = "slack" THEN <<>> ELSE row[n])]

Outlines(g, m) ==
  g = [levels \in 0..m |->
        [n \in Node |->
          FlattenSeq([i \in DOMAIN children[n] |->
            IF children[n][i] \notin original THEN <<>>
            ELSE Own(children[n][i]) \o
                   (IF levels = 0 \/ remote.service = "slack"
                      THEN <<>>
                      ELSE g[levels - 1][children[n][i]])])]]

LEMMA RowMakes ==
  ASSUME remote \in Remotes, NEW levels, NEW row \in [Node -> Seq(Node)]
  PROVE  Makes(LinesOver(levels, row), Node, Node)
<1> DEFINE U == Seq(Node)
<1>1. ASSUME NEW n \in Node PROVE LinesOver(levels, row)[n] \in Seq(Node)
  <2>1. Own(n) \in Seq(Node) /\ row[n] \in Seq(Node) /\ <<>> \in Seq(Node)
    BY RemoteFacts
  <2>2. LinesOver(levels, row)[n] \in {<<>>, Own(n) \o <<>>, Own(n) \o row[n]}
    BY DEF LinesOver
  <2>3. Own(n) \o <<>> \in Seq(Node) /\ Own(n) \o row[n] \in Seq(Node)
    BY <2>1
  <2> QED
    BY <2>1, <2>2, <2>3
<1> QED
  BY <1>1 DEF Makes, LinesOver

LEMMA RowIsEachOf ==
  ASSUME remote \in Remotes, NEW levels, NEW row, NEW n \in Node
  PROVE  FlattenSeq([i \in DOMAIN children[n] |->
            IF children[n][i] \notin original THEN <<>>
            ELSE Own(children[n][i]) \o
                   (IF levels = 0 \/ remote.service = "slack"
                      THEN <<>>
                      ELSE row[children[n][i]])])
           = EachOf(LinesOver(levels, row), children[n])
<1>1. children[n] \in Seq(Node)
  BY RemoteFacts
<1>2. \A i \in DOMAIN children[n] : children[n][i] \in Node
  BY <1>1
<1> QED
  BY <1>2 DEF EachOf, LinesOver

LEMMA OutlinesExist ==
  ASSUME remote \in Remotes
  PROVE  \A m \in Nat : \E g \in [0..m -> [Node -> Seq(Node)]] : Outlines(g, m)
<1> DEFINE T == {m \in Nat : \E g \in [0..m -> [Node -> Seq(Node)]] : Outlines(g, m)}
           none == [n \in Node |-> <<>>]
           next(levels, row) == [n \in Node |-> EachOf(LinesOver(levels, row), children[n])]
<1>0. none \in [Node -> Seq(Node)]
  <2>1. <<>> \in Seq(Node)
    OBVIOUS
  <2> QED
    BY <2>1
<1>1. ASSUME NEW levels, NEW row \in [Node -> Seq(Node)]
      PROVE  next(levels, row) \in [Node -> Seq(Node)]
  <2>1. ASSUME NEW n \in Node PROVE EachOf(LinesOver(levels, row), children[n]) \in Seq(Node)
    <3>1. children[n] \in Seq(Node)
      BY RemoteFacts
    <3>2. Makes(LinesOver(levels, row), Node, Node)
      BY <1>1, RowMakes
    <3> QED
      BY <3>1, <3>2, EachPieces
  <2> QED
    BY <2>1
<1>2. ASSUME NEW m \in Nat, NEW g \in [0..m -> [Node -> Seq(Node)]]
      PROVE  Outlines(g, m) <=>
               \A l \in 0..m : g[l] = next(l, IF l = 0 THEN none ELSE g[l - 1])
  <2> DEFINE body(l) ==
               [n \in Node |->
                 FlattenSeq([i \in DOMAIN children[n] |->
                   IF children[n][i] \notin original THEN <<>>
                   ELSE Own(children[n][i]) \o
                          (IF l = 0 \/ remote.service = "slack"
                             THEN <<>>
                             ELSE g[l - 1][children[n][i]])])]
  <2>1. Outlines(g, m) <=> g = [l \in 0..m |-> body(l)]
    BY DEF Outlines
  <2>2. ASSUME NEW l \in 0..m PROVE body(l) = next(l, IF l = 0 THEN none ELSE g[l - 1])
    <3>1. body(l) = next(l, g[l - 1])
      BY RowIsEachOf
    <3>2. CASE l = 0
      <4>1. LinesOver(0, g[l - 1]) = LinesOver(0, none)
        BY DEF LinesOver
      <4> QED
        BY <3>1, <3>2, <4>1
    <3> QED
      BY <3>1, <3>2
  <2> HIDE DEF body
  <2>3. g = [l \in 0..m |-> body(l)] <=> \A l \in 0..m : g[l] = body(l)
    OBVIOUS
  <2> QED
    BY <2>1, <2>2, <2>3
<1>3. 0 \in T
  <2> DEFINE g == [l \in 0..0 |-> next(0, none)]
  <2>1. g \in [0..0 -> [Node -> Seq(Node)]]
    BY <1>0, <1>1
  <2>2. \A l \in 0..0 : g[l] = next(l, IF l = 0 THEN none ELSE g[l - 1])
    OBVIOUS
  <2>3. 0 \in Nat
    OBVIOUS
  <2> HIDE DEF g, next, none
  <2>4. Outlines(g, 0)
    BY <1>2, <2>1, <2>2, <2>3
  <2> QED
    BY <2>1, <2>4
<1>4. ASSUME NEW m \in T PROVE m + 1 \in T
  <2>1. PICK g \in [0..m -> [Node -> Seq(Node)]] : Outlines(g, m)
    OBVIOUS
  <2>2. m \in Nat /\ m \in 0..m
    OBVIOUS
  <2> DEFINE new == next(m + 1, g[m])
             h == [l \in 0..(m + 1) |-> IF l = m + 1 THEN new ELSE g[l]]
  <2> HIDE DEF T, none
  <2>3. new \in [Node -> Seq(Node)]
    BY <1>1, <2>2
  <2>4. \A l \in 0..m : g[l] = next(l, IF l = 0 THEN none ELSE g[l - 1])
    BY <1>2, <2>1, <2>2
  <2> HIDE DEF next
  <2>5. h \in [0..(m + 1) -> [Node -> Seq(Node)]]
    <3> HIDE DEF new
    <3> QED
      BY <2>2, <2>3
  <2>6. \A l \in 0..(m + 1) : h[l] = next(l, IF l = 0 THEN none ELSE h[l - 1])
    <3> SUFFICES ASSUME NEW l \in 0..(m + 1)
                 PROVE  h[l] = next(l, IF l = 0 THEN none ELSE h[l - 1])
      OBVIOUS
    <3>1. CASE l = m + 1
      <4>1. l # 0 /\ h[l - 1] = g[m]
        BY <2>2, <3>1
      <4> QED
        BY <3>1, <4>1
    <3>2. CASE l # m + 1
      <4>1. l \in 0..m /\ h[l] = g[l] /\ (l # 0 => h[l - 1] = g[l - 1])
        BY <2>2, <3>2
      <4> QED
        BY <2>4, <4>1
    <3> QED
      BY <3>1, <3>2
  <2>7. m + 1 \in Nat
    BY <2>2
  <2> HIDE DEF h
  <2>8. Outlines(h, m + 1)
    BY <1>2, <2>5, <2>6, <2>7
  <2> QED
    BY <2>5, <2>7, <2>8 DEF T
<1>5. T = Nat
  <2>1. T \in SUBSET Nat
    OBVIOUS
  <2> HIDE DEF T
  <2> QED
    BY <1>3, <1>4, <2>1, Induction
<1> QED
  BY <1>5

LinesAt == [levels \in 0..MaxBlockDepth |-> LinesOver(levels, Below[levels - 1])]

LEMMA BelowIsOutline ==
  ASSUME remote \in Remotes
  PROVE  /\ Below \in [0..MaxBlockDepth -> [Node -> Seq(Node)]]
         /\ \A l \in 0..MaxBlockDepth, n \in Node :
              Below[l][n] = EachOf(LinesAt[l], children[n])
<1>1. PICK g \in [0..MaxBlockDepth -> [Node -> Seq(Node)]] : Outlines(g, MaxBlockDepth)
  BY OutlinesExist, PagedSourcesAssumption
<1>2. Outlines(Below, MaxBlockDepth)
  BY <1>1, ZenonT(40) DEF Below, Outlines, Node
<1>3. Below = [levels \in 0..MaxBlockDepth |->
        [n \in Node |->
          FlattenSeq([i \in DOMAIN children[n] |->
            IF children[n][i] \notin original THEN <<>>
            ELSE Own(children[n][i]) \o
                   (IF levels = 0 \/ remote.service = "slack"
                      THEN <<>>
                      ELSE Below[levels - 1][children[n][i]])])]]
  BY <1>2 DEF Outlines
<1>4. ASSUME NEW l \in 0..MaxBlockDepth
      PROVE  Below[l] = [n \in Node |-> EachOf(LinesOver(l, Below[l - 1]), children[n])]
  <2>1. ASSUME NEW n \in Node
        PROVE  FlattenSeq([i \in DOMAIN children[n] |->
                 IF children[n][i] \notin original THEN <<>>
                 ELSE Own(children[n][i]) \o
                        (IF l = 0 \/ remote.service = "slack"
                           THEN <<>>
                           ELSE Below[l - 1][children[n][i]])])
               = EachOf(LinesOver(l, Below[l - 1]), children[n])
    BY RowIsEachOf
  <2>2. Below[l] = [n \in Node |->
          FlattenSeq([i \in DOMAIN children[n] |->
            IF children[n][i] \notin original THEN <<>>
            ELSE Own(children[n][i]) \o
                   (IF l = 0 \/ remote.service = "slack"
                      THEN <<>>
                      ELSE Below[l - 1][children[n][i]])])]
    BY <1>3
  <2> QED
    BY <2>1, <2>2
<1> DEFINE none == [n \in Node |-> <<>>]
           T == {l \in Nat : l <= MaxBlockDepth => Below[l] \in [Node -> Seq(Node)]}
<1>5. ASSUME NEW l \in 0..MaxBlockDepth, l = 0 \/ Below[l - 1] \in [Node -> Seq(Node)]
      PROVE  Below[l] \in [Node -> Seq(Node)]
  <2> DEFINE row == IF l = 0 THEN none ELSE Below[l - 1]
  <2>1. none \in [Node -> Seq(Node)]
    <3>1. <<>> \in Seq(Node)
      OBVIOUS
    <3> QED
      BY <3>1
  <2>2. row \in [Node -> Seq(Node)]
    BY <1>5, <2>1
  <2>3. LinesOver(l, Below[l - 1]) = LinesOver(l, row)
    BY DEF LinesOver
  <2> HIDE DEF row
  <2>4. ASSUME NEW n \in Node PROVE EachOf(LinesOver(l, row), children[n]) \in Seq(Node)
    <3>1. children[n] \in Seq(Node)
      BY RemoteFacts
    <3>2. Makes(LinesOver(l, row), Node, Node)
      BY <2>2, RowMakes
    <3> QED
      BY <3>1, <3>2, EachPieces
  <2>5. Below[l] = [n \in Node |-> EachOf(LinesOver(l, row), children[n])]
    BY <1>4, <2>3
  <2> QED
    BY <2>4, <2>5
<1>6. 0 \in T
  BY <1>5, PagedSourcesAssumption
<1>7. ASSUME NEW l \in T PROVE l + 1 \in T
  <2> SUFFICES ASSUME l + 1 <= MaxBlockDepth PROVE Below[l + 1] \in [Node -> Seq(Node)]
    OBVIOUS
  <2>1. l \in Nat /\ l + 1 \in 0..MaxBlockDepth /\ (l + 1) - 1 = l /\ l <= MaxBlockDepth
    BY PagedSourcesAssumption
  <2>2. Below[l] \in [Node -> Seq(Node)]
    BY <2>1
  <2> HIDE DEF T
  <2> QED
    BY <1>5, <2>1, <2>2
<1>8. T = Nat
  <2>1. T \in SUBSET Nat
    OBVIOUS
  <2> HIDE DEF T
  <2> QED
    BY <1>6, <1>7, <2>1, Induction
<1>9. \A l \in 0..MaxBlockDepth : Below[l] \in [Node -> Seq(Node)]
  BY <1>8
<1>10. DOMAIN Below = 0..MaxBlockDepth /\ Below = [l \in 0..MaxBlockDepth |-> Below[l]]
  BY <1>3
<1>11. \A l \in 0..MaxBlockDepth, n \in Node : Below[l][n] = EachOf(LinesAt[l], children[n])
  BY <1>4 DEF LinesAt
<1> HIDE DEF T, none
<1> QED
  BY <1>9, <1>10, <1>11

LEMMA GivenStays ==
  ASSUME UNCHANGED given
  PROVE  /\ Node' = Node /\ children' = children
         /\ Below' = Below /\ LinesAt' = LinesAt
         /\ Expected' = Expected
<1>1. Node' = Node /\ children' = children
  BY DEF given, Node, children
<1>2. Below' = Below
  BY <1>1 DEF given, Node, children, Below, Own
<1>3. LinesAt' = LinesAt
  BY <1>1, <1>2 DEF given, LinesAt, LinesOver, Own
<1>4. Expected' = Expected
  BY <1>1, <1>2 DEF given, Expected, Promised, Outline, Own, Skipped, IsReply, Threaded, Tops
<1> QED
  BY <1>1, <1>2, <1>3, <1>4

-----------------------------------------------------------------------------
(* Listings c over nodes N: what is still to come of one that is read.      *)
Listed(N) == [node : N, nested : BOOLEAN]

Reading(c, N) ==
  {r \in [of : N, at : Nat, left : Seq(Listed(N)), more : BOOLEAN] : r.at <= Len(c[r.of])}

Nodes(left) == [i \in DOMAIN left |-> left[i].node]

After(c, r) == SubSeq(c[r.of], r.at + 1, Len(c[r.of]))

Coming(c, r) == Nodes(r.left) \o After(c, r)

Kept(S, N) == [n \in N |-> IF n \in S THEN <<n>> ELSE <<>>]

LEMMA KeptPicks ==
  ASSUME NEW S, NEW N
  PROVE  Makes(Kept(S, N), N, N) /\ Picks(Kept(S, N), N)
<1>1. ASSUME NEW n \in N PROVE Kept(S, N)[n] \in Seq(N)
  BY DEF Kept
<1> QED
  BY <1>1 DEF Makes, Picks, Kept

LEMMA NodesType ==
  ASSUME NEW N, NEW left \in Seq(Listed(N))
  PROVE  /\ Nodes(left) \in Seq(N) /\ Len(Nodes(left)) = Len(left)
         /\ DOMAIN Nodes(left) = DOMAIN left
         /\ \A i \in DOMAIN left : left[i].node \in N /\ Nodes(left)[i] = left[i].node
<1>1. \A i \in DOMAIN left : left[i] \in Listed(N)
  OBVIOUS
<1>2. \A i \in DOMAIN left : left[i].node \in N
  BY <1>1 DEF Listed
<1>3. DOMAIN left = 1..Len(left) /\ Len(left) \in Nat
  OBVIOUS
<1>4. Nodes(left) = [i \in 1..Len(left) |-> left[i].node]
  BY <1>3 DEF Nodes
<1>5. Nodes(left) \in Seq(N) /\ Len(Nodes(left)) = Len(left)
  BY <1>2, <1>3, <1>4
<1> QED
  BY <1>2, <1>3, <1>4, <1>5

LEMMA NodesConcat ==
  ASSUME NEW N, NEW s \in Seq(Listed(N)), NEW t \in Seq(Listed(N))
  PROVE  Nodes(s \o t) = Nodes(s) \o Nodes(t)
<1> DEFINE u == s \o t
           L == Listed(N)
<1>1. /\ u \in Seq(L) /\ Len(u) = Len(s) + Len(t)
      /\ \A i \in 1..(Len(s) + Len(t)) : u[i] = IF i <= Len(s) THEN s[i] ELSE t[i - Len(s)]
  <2> HIDE DEF L
  <2>1. s \in Seq(L) /\ t \in Seq(L)
    BY DEF L
  <2> QED
    BY <2>1, ConcatProperties
<1> HIDE DEF u
<1>2. Nodes(s) \in Seq(N) /\ Nodes(t) \in Seq(N) /\ Nodes(u) \in Seq(N)
      /\ Len(Nodes(s)) = Len(s) /\ Len(Nodes(t)) = Len(t) /\ Len(Nodes(u)) = Len(u)
  BY <1>1, NodesType
<1>3. DOMAIN s = 1..Len(s) /\ DOMAIN t = 1..Len(t) /\ DOMAIN u = 1..Len(u)
      /\ Len(s) \in Nat /\ Len(t) \in Nat
  BY <1>1
<1>4. /\ Nodes(s) \o Nodes(t) \in Seq(N)
      /\ Len(Nodes(s) \o Nodes(t)) = Len(s) + Len(t)
      /\ \A i \in 1..(Len(s) + Len(t)) :
           (Nodes(s) \o Nodes(t))[i] = IF i <= Len(s) THEN Nodes(s)[i] ELSE Nodes(t)[i - Len(s)]
  <2> DEFINE x == Nodes(s)
             y == Nodes(t)
  <2> HIDE DEF x, y
  <2>1. x \in Seq(N) /\ y \in Seq(N) /\ Len(x) = Len(s) /\ Len(y) = Len(t)
    BY <1>2 DEF x, y
  <2>2. /\ x \o y \in Seq(N) /\ Len(x \o y) = Len(x) + Len(y)
        /\ \A i \in 1..(Len(x) + Len(y)) :
             (x \o y)[i] = IF i <= Len(x) THEN x[i] ELSE y[i - Len(x)]
    BY <2>1, ConcatProperties
  <2> QED
    BY <2>1, <2>2 DEF x, y
<1>5. ASSUME NEW i \in 1..(Len(s) + Len(t)) PROVE Nodes(u)[i] = (Nodes(s) \o Nodes(t))[i]
  <2>1. CASE i <= Len(s)
    BY <1>1, <1>3, <1>4, <2>1 DEF Nodes
  <2>2. CASE ~(i <= Len(s))
    <3>1. i - Len(s) \in DOMAIN t
      BY <1>3, <2>2
    <3>2. Nodes(t)[i - Len(s)] = t[i - Len(s)].node
      BY <3>1 DEF Nodes
    <3>3. i \in DOMAIN u /\ u[i] = t[i - Len(s)]
      BY <1>1, <1>3, <2>2
    <3>4. Nodes(u)[i] = u[i].node
      BY <3>3 DEF Nodes
    <3> QED
      BY <1>4, <2>2, <3>2, <3>3, <3>4
  <2> QED
    BY <2>1, <2>2
<1> QED
  BY <1>1, <1>2, <1>4, <1>5, SeqEqual DEF u

LEMMA NodesOne ==
  ASSUME NEW N, NEW e \in Listed(N)
  PROVE  Nodes(<<e>>) = <<e.node>> /\ Nodes(<<>>) = <<>> /\ e.node \in N
<1>1. DOMAIN <<e>> = 1..1 /\ (<<e>>)[1] = e
  OBVIOUS
<1> QED
  BY <1>1 DEF Nodes, Listed

LEMMA NodesEmpty == Nodes(<<>>) = <<>>
  BY DEF Nodes

LEMMA ComingType ==
  ASSUME NEW N, NEW c, Makes(c, N, N), NEW r \in Reading(c, N)
  PROVE  /\ Nodes(r.left) \in Seq(N) /\ After(c, r) \in Seq(N) /\ Coming(c, r) \in Seq(N)
         /\ c[r.of] \in Seq(N) /\ r.of \in N /\ r.at \in Nat /\ r.at <= Len(c[r.of])
         /\ r.left \in Seq(Listed(N))
         /\ Range(After(c, r)) \subseteq Range(c[r.of])
<1>1. /\ r.of \in N /\ r.left \in Seq(Listed(N)) /\ r.at \in Nat /\ r.at <= Len(c[r.of])
  BY DEF Reading
<1>2. c[r.of] \in Seq(N)
  BY <1>1 DEF Makes
<1>3. Nodes(r.left) \in Seq(N)
  BY <1>1, NodesType
<1>4. After(c, r) \in Seq(N) /\ Range(After(c, r)) \subseteq Range(c[r.of])
  <2> DEFINE s == c[r.of]
             m == r.at + 1
             n == Len(s)
  <2>0. s \in Seq(N) /\ m \in Int /\ n \in Int /\ 1 <= m
    BY <1>1, <1>2
  <2>1. \A i \in m..n : s[i] \in N /\ i \in DOMAIN s
    BY <2>0
  <2> HIDE DEF s, m, n
  <2>2. SubSeq(s, m, n) \in Seq(N)
        /\ Len(SubSeq(s, m, n)) = (IF m <= n THEN n - m + 1 ELSE 0)
        /\ \A i \in 1 .. n - m + 1 : SubSeq(s, m, n)[i] = s[m + i - 1]
    BY <2>0, <2>1, SubSeqProperties
  <2>3. ASSUME NEW i \in DOMAIN SubSeq(s, m, n) PROVE SubSeq(s, m, n)[i] \in Range(s)
    <3>1. i \in 1 .. Len(SubSeq(s, m, n))
      BY <2>2
    <3>2. i \in 1 .. n - m + 1 /\ m + i - 1 \in m..n
      BY <2>0, <2>2, <3>1
    <3> QED
      BY <2>1, <2>2, <3>2 DEF Range
  <2>4. Range(SubSeq(s, m, n)) \subseteq Range(s)
    BY <2>3 DEF Range
  <2> QED
    BY <2>2, <2>4 DEF s, m, n, After
<1>5. Coming(c, r) \in Seq(N)
  BY <1>3, <1>4 DEF Coming
<1> QED
  BY <1>1, <1>2, <1>3, <1>4, <1>5

(* A listing that is opened has all of it to come. *)
LEMMA ComingOpened ==
  ASSUME NEW N, NEW c, Makes(c, N, N), NEW n \in N
  PROVE  /\ Listing(n) \in Reading(c, N)
         /\ Coming(c, Listing(n)) = c[n] /\ c[n] \in Seq(N)
         /\ Listing(n).of = n /\ Listing(n).at = 0 /\ Listing(n).left = <<>> /\ Listing(n).more
<1>1. /\ Listing(n).of = n /\ Listing(n).at = 0
      /\ Listing(n).left = <<>> /\ Listing(n).more = TRUE
  BY DEF Listing
<1>2. c[n] \in Seq(N)
  BY DEF Makes
<1>3. Listing(n) \in [of : N, at : Nat, left : Seq(Listed(N)), more : BOOLEAN]
  <2>1. <<>> \in Seq(Listed(N))
    OBVIOUS
  <2> QED
    BY <2>1 DEF Listing
<1>4. Listing(n) \in Reading(c, N)
  BY <1>1, <1>2, <1>3 DEF Reading
<1>5. After(c, Listing(n)) = c[n]
  <2>1. SubSeq(c[n], 1, Len(c[n])) = c[n]
    BY <1>2, SubSeqFull
  <2> QED
    BY <1>1, <2>1 DEF After
<1>6. Coming(c, Listing(n)) = <<>> \o c[n]
  BY <1>1, <1>5, NodesEmpty DEF Coming
<1> QED
  BY <1>1, <1>2, <1>4, <1>6

Consumes(r, q) == q = [r EXCEPT !.left = Tail(r.left)]

(* The next page is there: at, left, and whether there is more, are new.    *)
Turns(c, N, S, r, q) ==
  /\ r.left = <<>>
  /\ \E at \in r.at .. Len(c[r.of]), more \in BOOLEAN, left \in Seq(Listed(N)) :
       /\ Nodes(left) = EachOf(Kept(S, N), SubSeq(c[r.of], r.at + 1, at))
       /\ q = [r EXCEPT !.at = at, !.left = left, !.more = more]

(* Of what was to come of r, q has what is there, or all of it.             *)
Turned(c, N, S, r, q) ==
  \E part \in Seq(N), rest \in Seq(N) :
    /\ Coming(c, r) = part \o rest
    /\ Coming(c, q) = EachOf(Kept(S, N), part) \o rest

(* The first entry that is left is the first to come. *)
LEMMA ComingConsumed ==
  ASSUME NEW N, NEW c, Makes(c, N, N), NEW r \in Reading(c, N), r.left # <<>>,
         NEW q, Consumes(r, q)
  PROVE  /\ q \in Reading(c, N) /\ q.of = r.of /\ q.at = r.at /\ q.more = r.more
         /\ q.left = Tail(r.left)
         /\ Head(r.left) \in Listed(N) /\ Head(r.left).node \in N
         /\ Coming(c, q) \in Seq(N)
         /\ Coming(c, r) = <<Head(r.left).node>> \o Coming(c, q)
         /\ After(c, q) = After(c, r)
<1> DEFINE L == Listed(N)
           h == Head(r.left)
           t == Tail(r.left)
<1>1. r.left \in Seq(L) /\ r.left # <<>>
  BY ComingType
<1>2. h \in L /\ t \in Seq(L) /\ <<h>> \in Seq(L) /\ r.left = <<h>> \o t
  <2> HIDE DEF L
  <2> QED
    BY <1>1
<1>3. q.of = r.of /\ q.at = r.at /\ q.more = r.more /\ q.left = t
  BY DEF Reading, Consumes
<1>4. q \in Reading(c, N)
  BY <1>2 DEF Reading, Consumes
<1> HIDE DEF h, t
<1>5. Nodes(r.left) = <<h.node>> \o Nodes(t) /\ h.node \in N
  BY <1>2, NodesOne, NodesConcat, ZenonT(40)
<1>6. After(c, q) = After(c, r)
  BY <1>3 DEF After
<1>7. Coming(c, q) = Nodes(t) \o After(c, r) /\ Coming(c, q) \in Seq(N)
  BY <1>3, <1>4, <1>6, ComingType DEF Coming
<1>8. Coming(c, r) = (<<h.node>> \o Nodes(t)) \o After(c, r)
  BY <1>5 DEF Coming
<1>9. (<<h.node>> \o Nodes(t)) \o After(c, r) = <<h.node>> \o (Nodes(t) \o After(c, r))
  <2> DEFINE x == <<h.node>>
             y == Nodes(t)
             z == After(c, r)
  <2>1. x \in Seq(N) /\ y \in Seq(N) /\ z \in Seq(N)
    BY <1>2, <1>5, NodesType, ComingType
  <2> HIDE DEF x, y, z
  <2>2. (x \o y) \o z = x \o (y \o z)
    BY <2>1, ConcatAssociative
  <2> QED
    BY <2>2 DEF x, y, z
<1> QED
  BY <1>2, <1>3, <1>4, <1>5, <1>6, <1>7, <1>8, <1>9 DEF h, t

(* A page of a listing: some entries of it are left, the others not there.  *)
LEMMA ComingAnswered ==
  ASSUME NEW N, NEW c, Makes(c, N, N), NEW r \in Reading(c, N), NEW S,
         NEW q, Turns(c, N, S, r, q)
  PROVE  q \in Reading(c, N) /\ Turned(c, N, S, r, q)
<1>0. PICK at \in r.at .. Len(c[r.of]), more \in BOOLEAN, left \in Seq(Listed(N)) :
        /\ r.left = <<>>
        /\ Nodes(left) = EachOf(Kept(S, N), SubSeq(c[r.of], r.at + 1, at))
        /\ q = [r EXCEPT !.at = at, !.left = left, !.more = more]
  BY DEF Turns
<1> DEFINE s == c[r.of]
           part == SubSeq(s, r.at + 1, at)
           rest == SubSeq(s, at + 1, Len(s))
<1>1. /\ s \in Seq(N) /\ r.of \in N /\ r.at \in Nat /\ at \in Nat /\ r.at <= at /\ at <= Len(s)
  BY ComingType
<1>2. /\ q.of = r.of /\ q.at = at /\ q.left = left /\ q.more = more
      /\ q \in [of : N, at : Nat, left : Seq(Listed(N)), more : BOOLEAN]
  BY <1>0, <1>1 DEF Reading
<1>3. q \in Reading(c, N)
  BY <1>1, <1>2 DEF Reading
<1>4. After(c, q) = rest
  BY <1>2 DEF After
<1>5. rest \in Seq(N) /\ part \in Seq(N) /\ After(c, r) = part \o rest
  <2> HIDE DEF s
  <2>1. r.at + 1 \in 1 .. Len(s) + 1 /\ at \in (r.at + 1) - 1 .. Len(s) /\ Len(s) \in at .. Len(s)
    BY <1>1
  <2>2. SubSeq(s, r.at + 1, at) \o SubSeq(s, at + 1, Len(s)) = SubSeq(s, r.at + 1, Len(s))
    BY <1>1, <2>1, ConcatAdjacentSubSeq
  <2>3. \A i \in 1..Len(s) : s[i] \in N
    BY <1>1
  <2>4. part \in Seq(N)
    BY <1>1, <2>3, SubSeqProperties
  <2>5. rest \in Seq(N)
    BY <1>1, <2>3, SubSeqProperties, SMTT(40)
  <2> QED
    BY <2>2, <2>4, <2>5 DEF After, s
<1>6. Coming(c, r) = part \o rest
  <2>1. <<>> \o (part \o rest) = part \o rest
    <3> HIDE DEF part, rest
    <3>1. part \o rest \in Seq(N)
      BY <1>5
    <3> QED
      BY <3>1
  <2> QED
    BY <1>0, <1>5, <2>1, NodesEmpty DEF Coming
<1>7. Coming(c, q) = EachOf(Kept(S, N), part) \o rest
  BY <1>0, <1>2, <1>4 DEF Coming
<1> HIDE DEF part, rest
<1> QED
  BY <1>3, <1>5, <1>6, <1>7 DEF Turned

LEMMA AddsKept ==
  ASSUME NEW N, NEW Q, NEW F, Makes(F, N, Q), NEW S, \A n \in N \ S : F[n] = <<>>,
         NEW part \in Seq(N), NEW rest \in Seq(N)
  PROVE  EachOf(F, EachOf(Kept(S, N), part) \o rest) = EachOf(F, part \o rest)
<1> DEFINE K == Kept(S, N)
           H == [n \in N |-> EachOf(F, K[n])]
           kept == EachOf(K, part)
<1>1. Makes(K, N, N)
  BY KeptPicks
<1>2. kept \in Seq(N)
  BY <1>1, EachPieces
<1>3. EachOf(F, kept) = EachOf(H, part)
  <2> HIDE DEF K
  <2> QED
    BY <1>1, EachOfEach
<1>4. ASSUME NEW n \in N PROVE H[n] = F[n]
  <2>1. CASE n \in S
    BY <2>1, EachOne DEF Kept
  <2>2. CASE n \notin S
    BY <2>2, EachEmpty DEF Kept
  <2> QED
    BY <2>1, <2>2
<1> HIDE DEF H, K
<1>5. EachOf(H, part) = EachOf(F, part)
  <2>1. \A i \in DOMAIN part : part[i] \in N
    OBVIOUS
  <2> QED
    BY <1>4, <2>1, EachAlike
<1> HIDE DEF kept
<1>6. EachOf(F, kept \o rest) = EachOf(F, kept) \o EachOf(F, rest)
  BY <1>2, EachConcat
<1>7. EachOf(F, part \o rest) = EachOf(F, part) \o EachOf(F, rest)
  BY EachConcat
<1> QED
  BY <1>3, <1>5, <1>6, <1>7 DEF kept, K

LEMMA KeptAreThere ==
  ASSUME NEW N, NEW S, NEW s \in Seq(N)
  PROVE  Range(EachOf(Kept(S, N), s)) = Range(s) \cap S
<1> DEFINE K == Kept(S, N)
           T == {t \in Seq(N) : Range(EachOf(K, t)) = Range(t) \cap S}
<1>1. Makes(K, N, N)
  BY KeptPicks
<1>2. <<>> \in T
  <2>1. Range(<<>>) = {} /\ EachOf(K, <<>>) = <<>>
    BY EachEmpty DEF Range
  <2> QED
    BY <2>1
<1>3. ASSUME NEW t \in T, NEW n \in N PROVE Append(t, n) \in T
  <2> DEFINE x == EachOf(K, t)
             u == Append(t, n)
  <2>1. t \in Seq(N) /\ u \in Seq(N) /\ Range(x) = Range(t) \cap S
    OBVIOUS
  <2> HIDE DEF T
  <2>2. K[n] = IF n \in S THEN <<n>> ELSE <<>>
    BY DEF Kept
  <2> HIDE DEF K
  <2>3. EachOf(K, u) = x \o K[n]
    BY <1>1, <2>1, EachAppend
  <2>4. x \in Seq(N)
    BY <1>1, <2>1, EachPieces
  <2> HIDE DEF x
  <2>5. Range(u) = Range(t) \cup {n}
    BY <2>1, InjectiveAppend
  <2>6. x \o <<>> = x /\ x \o <<n>> = Append(x, n) /\ Range(Append(x, n)) = Range(x) \cup {n}
    BY <2>4, InjectiveAppend
  <2> HIDE DEF u
  <2>7. Range(EachOf(K, u)) = Range(u) \cap S
    <3>1. CASE n \in S
      BY <2>1, <2>2, <2>3, <2>5, <2>6, <3>1
    <3>2. CASE n \notin S
      BY <2>1, <2>2, <2>3, <2>5, <2>6, <3>2
    <3> QED
      BY <3>1, <3>2
  <2> QED
    BY <2>1, <2>7 DEF T, u
<1>4. T = Seq(N)
  <2> HIDE DEF T
  <2>1. T \in SUBSET Seq(N)
    BY DEF T
  <2> QED
    BY <1>2, <1>3, <2>1, SequenceInduction
<1> QED
  BY <1>4

(* What is on a page. *)
LEMMA BetweenIsKept ==
  ASSUME remote \in Remotes, present \in SUBSET Node, NEW n \in Node,
         NEW first \in Nat \ {0}, NEW last \in Nat, last <= Len(children[n])
  PROVE  /\ Between(n, first, last) \in Seq(Listed(Node))
         /\ Nodes(Between(n, first, last))
              = EachOf(Kept(present, Node), SubSeq(children[n], first, last))
         /\ \A j \in DOMAIN Between(n, first, last) :
              /\ Between(n, first, last)[j].node \in Range(children[n]) \cap present
              /\ Between(n, first, last)[j].nested = Nested(Between(n, first, last)[j].node)
<1> DEFINE part == SubSeq(children[n], first, last)
           there == Range(children[n])
           E == [m \in Node |-> IF m \in present THEN <<Entry(m)>> ELSE <<>>]
           G == [m \in there |-> IF m \in present THEN <<Entry(m)>> ELSE <<>>]
           R == {Entry(m) : m \in there \cap present}
           K == Kept(present, Node)
<1>1. children[n] \in Seq(Node)
  BY RemoteFacts
<1>2. part \in Seq(there) /\ there \subseteq Node
  <2>1. children[n] \in Seq(there)
    BY <1>1, SeqOfRange
  <2>2. \A i \in first..last : children[n][i] \in there
    BY <1>1 DEF Range
  <2> HIDE DEF there
  <2>3. part \in Seq(there)
    BY <2>2, SubSeqProperties
  <2>4. there \in SUBSET Node
    BY <1>1, RangeOfSeq DEF there
  <2> QED
    BY <2>3, <2>4
<1>3. part \in Seq(Node)
  <2> HIDE DEF part, there
  <2> QED
    BY <1>2, SeqMonotonic
<1>4. ASSUME NEW m PROVE Entry(m).node = m /\ Entry(m).nested = Nested(m) /\ Nested(m) \in BOOLEAN
  BY DEF Entry, Nested
<1>5. Between(n, first, last) = EachOf(E, part)
  <2> DEFINE a == [i \in DOMAIN part |-> IF part[i] \in present THEN <<Entry(part[i])>> ELSE <<>>]
             b == [i \in DOMAIN part |-> E[part[i]]]
  <2>1. a = b
    <3> HIDE DEF part
    <3>1. \A i \in DOMAIN part : part[i] \in Node
      BY <1>3
    <3> QED
      BY <3>1
  <2>2. Between(n, first, last) = FlattenSeq(a)
    BY DEF Between
  <2>3. EachOf(E, part) = FlattenSeq(b)
    BY DEF EachOf
  <2> QED
    BY <2>1, <2>2, <2>3
<1>6. EachOf(E, part) = EachOf(G, part) /\ EachOf(G, part) \in Seq(R)
  <2>1. Makes(G, there, R)
    <3>1. ASSUME NEW m \in there PROVE G[m] \in Seq(R)
      <4>1. CASE m \in present
        <5>1. Entry(m) \in R
          BY <4>1
        <5> HIDE DEF R
        <5> QED
          BY <4>1, <5>1
      <4>2. CASE m \notin present
        <5>1. G[m] = <<>>
          BY <4>2
        <5> QED
          BY <5>1
      <4> QED
        BY <4>1, <4>2
    <3> HIDE DEF R, there
    <3> QED
      BY <3>1 DEF Makes
  <2> HIDE DEF part, there
  <2>2. \A i \in DOMAIN part : part[i] \in there /\ part[i] \in Node
    BY <1>2, <1>3
  <2>3. \A i \in DOMAIN part : E[part[i]] = G[part[i]]
    BY <2>2
  <2> HIDE DEF E, G, R
  <2> QED
    BY <1>2, <2>1, <2>3, EachAlike, EachPieces
<1>7. R \subseteq Listed(Node)
  BY <1>2, <1>4 DEF Listed, Entry
<1>8. Makes(E, Node, Listed(Node)) /\ Makes(K, Node, Node)
  <2>1. ASSUME NEW m \in Node PROVE E[m] \in Seq(Listed(Node))
    <3>1. Entry(m) \in Listed(Node)
      BY <1>4 DEF Listed, Entry
    <3>2. <<Entry(m)>> \in Seq(Listed(Node)) /\ <<>> \in Seq(Listed(Node))
      BY <3>1
    <3> QED
      BY <3>2
  <2> QED
    BY <2>1, KeptPicks DEF Makes
<1>9. EachOf(E, part) \in Seq(Listed(Node))
  <2> HIDE DEF E, part
  <2> QED
    BY <1>3, <1>8, EachPieces
<1> DEFINE T == {t \in Seq(Node) : Nodes(EachOf(E, t)) = EachOf(K, t)}
<1>10. <<>> \in T
  BY EachEmpty, NodesEmpty
<1>11. ASSUME NEW t \in T, NEW m \in Node PROVE Append(t, m) \in T
  <2> DEFINE x == EachOf(E, t)
             y == E[m]
  <2>1. t \in Seq(Node) /\ Append(t, m) \in Seq(Node) /\ Nodes(x) = EachOf(K, t)
    OBVIOUS
  <2>2. Nodes(y) = K[m]
    <3>1. CASE m \in present
      <4>1. y = <<Entry(m)>> /\ K[m] = <<m>>
        BY <3>1 DEF Kept
      <4>2. Entry(m) \in Listed(Node)
        BY <1>4 DEF Listed, Entry
      <4>3. Nodes(<<Entry(m)>>) = <<Entry(m).node>>
        BY <4>2, NodesOne
      <4> QED
        BY <1>4, <4>1, <4>3
    <3>2. CASE m \notin present
      BY <3>2, NodesEmpty DEF Kept
    <3> QED
      BY <3>1, <3>2
  <2> HIDE DEF T, K, E
  <2>3. EachOf(E, Append(t, m)) = x \o y /\ EachOf(K, Append(t, m)) = EachOf(K, t) \o K[m]
    BY <1>8, <2>1, EachAppend
  <2>4. x \in Seq(Listed(Node)) /\ y \in Seq(Listed(Node))
    BY <1>8, <2>1, EachPieces DEF Makes
  <2> HIDE DEF x, y
  <2>5. Nodes(x \o y) = Nodes(x) \o Nodes(y)
    BY <2>4, NodesConcat
  <2> QED
    BY <2>1, <2>2, <2>3, <2>5 DEF T
<1>12. T = Seq(Node)
  <2> HIDE DEF T
  <2>1. T \in SUBSET Seq(Node)
    BY DEF T
  <2> QED
    BY <1>10, <1>11, <2>1, SequenceInduction
<1>13. Nodes(EachOf(E, part)) = EachOf(K, part)
  <2> HIDE DEF part, K, E
  <2> QED
    BY <1>3, <1>12
<1>14. ASSUME NEW j \in DOMAIN EachOf(E, part)
       PROVE  /\ EachOf(E, part)[j].node \in there \cap present
              /\ EachOf(E, part)[j].nested = Nested(EachOf(E, part)[j].node)
  <2>1. EachOf(E, part)[j] \in R
    <3> HIDE DEF R, E, G, part
    <3> QED
      BY <1>6
  <2>2. PICK m \in there \cap present : EachOf(E, part)[j] = Entry(m)
    BY <2>1
  <2> QED
    BY <1>4, <2>2
<1> HIDE DEF E, G, K
<1> QED
  BY <1>5, <1>9, <1>13, <1>14 DEF K

-----------------------------------------------------------------------------
(* A listing being read, when S is there now and o was there at first: what *)
(* is left was listed; what was listed as having nothing below it had       *)
(* nothing below it at first; and one that has ended leaves nothing of that *)
(* time out.                                                               *)
Proper(c, N, S, o, threads) ==
  {r \in Reading(c, N) :
    /\ r.of \in S
    /\ \A j \in DOMAIN r.left :
         /\ r.left[j].node \in Range(c[r.of]) \cap S
         /\ ~r.left[j].nested =>
              Range(c[r.left[j].node]) \cap o \subseteq (IF threads THEN {r.left[j].node} ELSE {})
    /\ ~r.more => Range(After(c, r)) \cap o = {}}

DocumentIn(N, S) == [of : N, lines : Seq(S)]

Yielded(N, S) == {d \in DocumentIn(N, S) : d.lines # <<>>}

Threads == remote.service = "slack"

Readings == Proper(children, Node, present, original, Threads)

Deepest == 2 + (IF remote.service = "notion" THEN MaxBlockDepth ELSE 0)

(* Nothing that was there at first is below what was written since.         *)
Typed ==
  /\ remote \in Remotes
  /\ original \in SUBSET present /\ present \in SUBSET Node
  /\ Range(remote.roots) \subseteq original
  /\ \A n \in present \ original : Range(children[n]) \cap original = {}
  /\ pc \in {"reading", "done", "failed"}
  /\ attempt \in 0..MaxRetries
  /\ attempt = MaxRetries => pc = "failed"
  /\ \E n \in 0..Len(remote.roots) : roots = SubSeq(remote.roots, n + 1, Len(remote.roots))
  /\ stack \in Seq(Readings) /\ Len(stack) <= Deepest
  /\ document \in DocumentIn(Node, present)
  /\ documents \in Seq(Yielded(Node, present))

LEMMA ProperGrows ==
  ASSUME NEW c, NEW N, NEW o, NEW threads, NEW S, NEW T, S \subseteq T
  PROVE  /\ Proper(c, N, S, o, threads) \subseteq Proper(c, N, T, o, threads)
         /\ Seq(Proper(c, N, S, o, threads)) \subseteq Seq(Proper(c, N, T, o, threads))
         /\ DocumentIn(N, S) \subseteq DocumentIn(N, T)
         /\ Seq(Yielded(N, S)) \subseteq Seq(Yielded(N, T))
<1>1. Proper(c, N, S, o, threads) \subseteq Proper(c, N, T, o, threads)
  BY DEF Proper
<1>2. Seq(Proper(c, N, S, o, threads)) \subseteq Seq(Proper(c, N, T, o, threads))
  BY <1>1, SeqMonotonic
<1>3. Seq(S) \subseteq Seq(T)
  BY SeqMonotonic
<1>4. DocumentIn(N, S) \subseteq DocumentIn(N, T)
  BY <1>3 DEF DocumentIn
<1>5. Yielded(N, S) \subseteq Yielded(N, T)
  BY <1>4 DEF Yielded
<1>6. Seq(Yielded(N, S)) \subseteq Seq(Yielded(N, T))
  BY <1>5, SeqMonotonic
<1> QED
  BY <1>1, <1>2, <1>4, <1>6

LEMMA RootsAreNodes ==
  ASSUME Typed
  PROVE  /\ roots \in Seq(Node) /\ Range(roots) \subseteq original /\ Makes(children, Node, Node)
         /\ roots # <<>> =>
              /\ Head(roots) \in original /\ Tail(roots) \in Seq(Node)
              /\ \E n \in 0..Len(remote.roots) :
                   Tail(roots) = SubSeq(remote.roots, n + 1, Len(remote.roots))
<1>1. PICK n \in 0..Len(remote.roots) : roots = SubSeq(remote.roots, n + 1, Len(remote.roots))
  BY DEF Typed
<1> DEFINE all == remote.roots
           there == Range(all)
           m == n + 1
           l == Len(all)
<1>2. all \in Seq(Node) /\ Makes(children, Node, Node) /\ there \subseteq original /\ original \subseteq Node
  BY RemoteFacts DEF Typed
<1>3. l \in Nat /\ m \in 1..(l + 1) /\ roots = SubSeq(all, m, l) /\ \A i \in m..l : all[i] \in there
  <2>1. l \in Nat /\ DOMAIN all = 1..l
    BY <1>2
  <2>2. m \in 1..(l + 1)
    BY <2>1
  <2>3. \A i \in m..l : i \in DOMAIN all
    BY <2>1, <2>2
  <2> HIDE DEF m, l
  <2> QED
    BY <1>1, <2>1, <2>2, <2>3 DEF Range, m, l
<1> HIDE DEF there, m, l
<1>4. roots \in Seq(there) /\ Len(roots) = (IF m <= l THEN l - m + 1 ELSE 0)
  BY <1>3, SubSeqProperties
<1>5. roots \in Seq(Node) /\ Range(roots) \subseteq original
  <2>1. roots \in Seq(Node)
    BY <1>2, <1>4, SeqMonotonic
  <2>2. Range(roots) \in SUBSET there
    BY <1>4, RangeOfSeq
  <2> QED
    BY <1>2, <2>1, <2>2
<1>6. ASSUME roots # <<>>
      PROVE  /\ Head(roots) \in original /\ Tail(roots) \in Seq(Node)
             /\ \E k \in 0..Len(remote.roots) :
                  Tail(roots) = SubSeq(remote.roots, k + 1, Len(remote.roots))
  <2>1. Head(roots) \in there /\ Tail(roots) \in Seq(Node)
    BY <1>4, <1>5, <1>6
  <2>2. m \in 1..l
    <3>1. Len(roots) # 0
      BY <1>5, <1>6
    <3> QED
      BY <1>3, <1>4, <3>1
  <2>3. Tail(roots) = SubSeq(all, m + 1, l)
    <3>1. l \in m..Len(all)
      BY <1>3, <2>2 DEF l
    <3>2. m \in 1..Len(all)
      BY <2>2 DEF l
    <3> QED
      BY <1>2, <1>3, <3>1, <3>2, HeadTailOfSubSeq
  <2>4. m \in 0..Len(all) /\ l = Len(all)
    BY <1>3, <2>2 DEF l
  <2> QED
    BY <1>2, <2>1, <2>3, <2>4
<1> QED
  BY <1>2, <1>5, <1>6

(* The listing on top of the others. *)
LEMMA TopOf ==
  ASSUME NEW T, NEW f \in Seq(T), NEW r \in T, stack = Append(f, r)
  PROVE  /\ Level = Len(f) + 1 /\ Top = r /\ Front(stack) = f /\ stack # <<>>
         /\ stack \in Seq(T) /\ Len(f) \in Nat
         /\ Level = 1 <=> f = <<>>
<1>1. /\ Len(Append(f, r)) = Len(f) + 1 /\ Append(f, r)[Len(f) + 1] = r
      /\ Append(f, r) # <<>> /\ Append(f, r) \in Seq(T) /\ Len(f) \in Nat
  BY AppendProperties
<1>2. Front(Append(f, r)) = f
  <2>1. SubSeq(Append(f, r), 1, (Len(f) + 1) - 1) = f
    OBVIOUS
  <2> QED
    BY <1>1, <2>1 DEF Front
<1>3. Len(f) = 0 <=> f = <<>>
  OBVIOUS
<1> QED
  BY <1>1, <1>2, <1>3 DEF Level, Top

LEMMA StackHasTop ==
  ASSUME Typed, stack # <<>>
  PROVE  \E f \in Seq(Readings), r \in Readings : stack = Append(f, r)
<1>1. stack \in Seq(Readings)
  BY DEF Typed
<1> QED
  BY <1>1, SequenceEmptyOrAppend

LEMMA ReplaceTop ==
  ASSUME NEW T, NEW f \in Seq(T), NEW r \in T, NEW q \in T
  PROVE  [Append(f, r) EXCEPT ![Len(f) + 1] = q] = Append(f, q)
<1> DEFINE s == Append(f, r)
           t == Append(f, q)
           k == Len(f) + 1
<1>1. /\ s \in Seq(T) /\ Len(s) = k /\ \A i \in 1..Len(f) : s[i] = f[i]
      /\ t \in Seq(T) /\ Len(t) = k /\ \A i \in 1..Len(f) : t[i] = f[i]
      /\ t[k] = q /\ Len(f) \in Nat
  BY AppendProperties
<1> HIDE DEF s, t
<1>2. k \in 1..Len(s)
  BY <1>1
<1>3. /\ [s EXCEPT ![k] = q] \in Seq(T) /\ Len([s EXCEPT ![k] = q]) = Len(s)
      /\ \A j \in 1..Len(s) : [s EXCEPT ![k] = q][j] = IF j = k THEN q ELSE s[j]
  BY <1>1, <1>2, ExceptSeq
<1> DEFINE u == [s EXCEPT ![k] = q]
<1> HIDE DEF u
<1>4. \A j \in 1..Len(t) : u[j] = t[j]
  BY <1>1, <1>3 DEF u
<1>5. u = t
  <2>1. u \in Seq(T) /\ Len(u) = Len(t)
    BY <1>1, <1>3 DEF u
  <2> QED
    BY <1>1, <1>4, <2>1, SeqEqual
<1> QED
  BY <1>5 DEF u, s, t

LEMMA ReadingConsumed ==
  ASSUME Makes(children, Node, Node)
  PROVE  \A r \in Reading(children, Node) : \A q :
           r.left # <<>> /\ Consumes(r, q) =>
             /\ q \in Reading(children, Node) /\ q.of = r.of /\ q.at = r.at /\ q.more = r.more
             /\ q.left = Tail(r.left)
             /\ Head(r.left) \in Listed(Node) /\ Head(r.left).node \in Node
             /\ Coming(children, q) \in Seq(Node)
             /\ Coming(children, r) = <<Head(r.left).node>> \o Coming(children, q)
             /\ After(children, q) = After(children, r)
<1> DEFINE N == Node
           c == children
<1> HIDE DEF N, c
<1>1. Makes(c, N, N)
  BY DEF N, c
<1>2. ASSUME NEW r \in Reading(c, N), NEW q, r.left # <<>>, Consumes(r, q)
      PROVE  /\ q \in Reading(c, N) /\ q.of = r.of /\ q.at = r.at /\ q.more = r.more
             /\ q.left = Tail(r.left)
             /\ Head(r.left) \in Listed(N) /\ Head(r.left).node \in N
             /\ Coming(c, q) \in Seq(N)
             /\ Coming(c, r) = <<Head(r.left).node>> \o Coming(c, q)
             /\ After(c, q) = After(c, r)
  BY <1>1, <1>2, ComingConsumed
<1> QED
  BY <1>2 DEF N, c

(* What an entry that is consumed leaves. *)
LEMMA ConsumedTop ==
  ASSUME Typed, Consuming, NEW f \in Seq(Readings), NEW r \in Readings, stack = Append(f, r)
  PROVE  LET q == [r EXCEPT !.left = Tail(r.left)]
         IN  /\ Consumed = Append(f, q) /\ q \in Readings /\ r.left # <<>>
             /\ entry = Head(r.left) /\ entry \in Listed(Node)
             /\ entry.node \in Range(children[r.of]) \cap present /\ entry.node \in Node
             /\ ~entry.nested => Range(children[entry.node]) \cap original
                                   \subseteq (IF Threads THEN {entry.node} ELSE {})
<1> DEFINE q == [r EXCEPT !.left = Tail(r.left)]
<1>1. Level = Len(f) + 1 /\ Top = r /\ Len(f) \in Nat
  BY TopOf
<1>2. r.left # <<>> /\ entry = Head(r.left)
  BY <1>1 DEF Consuming, entry
<1>3. r \in Reading(children, Node)
  BY DEF Readings, Proper
<1>4. Makes(children, Node, Node)
  BY RemoteFacts DEF Typed
<1>5. /\ q \in Reading(children, Node) /\ q.of = r.of /\ q.more = r.more /\ q.left = Tail(r.left)
      /\ Head(r.left) \in Listed(Node) /\ Head(r.left).node \in Node
      /\ After(children, q) = After(children, r)
  <2>1. Consumes(r, q)
    BY DEF Consumes
  <2> HIDE DEF q
  <2> QED
    BY <1>2, <1>3, <1>4, <2>1, ReadingConsumed
<1>6. r.left \in Seq(Listed(Node))
  BY <1>3 DEF Reading
<1>7. \A j \in DOMAIN Tail(r.left) : j + 1 \in DOMAIN r.left /\ Tail(r.left)[j] = r.left[j + 1]
  BY <1>2, <1>6
<1>8. 1 \in DOMAIN r.left /\ Head(r.left) = r.left[1]
  BY <1>2, <1>6
<1>9. q \in Readings
  BY <1>5, <1>7, ZenonT(40) DEF Readings, Proper
<1>10. Consumed = Append(f, q)
  <2>1. Consumed = [stack EXCEPT ![Len(f) + 1].left = Tail(@)]
    BY <1>1 DEF Consumed
  <2>2. [Append(f, r) EXCEPT ![Len(f) + 1].left = Tail(@)]
          = [Append(f, r) EXCEPT ![Len(f) + 1] = q]
    <3>1. Append(f, r)[Len(f) + 1] = r
      BY AppendProperties
    <3> QED
      BY <3>1
  <2>3. [Append(f, r) EXCEPT ![Len(f) + 1] = q] = Append(f, q)
    <3> HIDE DEF q
    <3> QED
      BY <1>9, ReplaceTop
  <2> QED
    BY <2>1, <2>2, <2>3
<1>11. /\ entry.node \in Range(children[r.of]) \cap present
       /\ ~entry.nested => Range(children[entry.node]) \cap original
                             \subseteq (IF Threads THEN {entry.node} ELSE {})
  BY <1>2, <1>8 DEF Readings, Proper
<1> QED
  BY <1>2, <1>5, <1>9, <1>10, <1>11

LEMMA ReadingAnswered ==
  ASSUME Makes(children, Node, Node)
  PROVE  \A r \in Reading(children, Node) : \A q :
           Turns(children, Node, present, r, q) =>
             /\ q \in Reading(children, Node)
             /\ Turned(children, Node, present, r, q)
<1> DEFINE N == Node
           c == children
           S == present
<1> HIDE DEF N, c, S
<1>1. Makes(c, N, N)
  BY DEF N, c
<1>2. ASSUME NEW r \in Reading(c, N), NEW q, Turns(c, N, S, r, q)
      PROVE  q \in Reading(c, N) /\ Turned(c, N, S, r, q)
  BY <1>1, <1>2, ComingAnswered
<1> QED
  BY <1>2 DEF N, c, S

(* What an answer leaves on top. *)
LEMMA AnsweredTop ==
  ASSUME Typed, Answered
  PROVE  \E f \in Seq(Readings), r \in Readings, q \in Readings :
           /\ stack = Append(f, r) /\ stack' = Append(f, q)
           /\ Turned(children, Node, present, r, q)
           /\ q.of = r.of
<1>1. stack # <<>> /\ Top.left = <<>> /\ Top.more
  BY DEF Answered, Requesting
<1>2. PICK f \in Seq(Readings), r \in Readings : stack = Append(f, r)
  BY <1>1, StackHasTop
<1>3. Level = Len(f) + 1 /\ Top = r /\ Len(f) \in Nat
  BY <1>2, TopOf
<1>4. PICK at \in r.at..Len(children[r.of]), more \in BOOLEAN :
        /\ more => at > r.at
        /\ ~more => Between(r.of, at + 1, Len(children[r.of])) = <<>>
        /\ stack' = [stack EXCEPT ![Len(f) + 1].at = at,
                                  ![Len(f) + 1].left = Between(r.of, r.at + 1, at),
                                  ![Len(f) + 1].more = more]
  BY <1>3 DEF Answered
<1> DEFINE left == Between(r.of, r.at + 1, at)
           q == [r EXCEPT !.at = at, !.left = left, !.more = more]
<1>5. Makes(children, Node, Node) /\ remote \in Remotes /\ remote.service \in {"notion", "slack"}
      /\ original \subseteq present /\ present \in SUBSET Node
  BY RemoteFacts DEF Typed
<1>6. r \in Reading(children, Node)
  BY DEF Readings, Proper
<1>7. /\ r.of \in Node /\ r.at \in Nat /\ children[r.of] \in Seq(Node)
      /\ at \in Nat /\ at <= Len(children[r.of]) /\ Len(children[r.of]) \in Nat
      /\ r.at + 1 \in Nat \ {0} /\ at + 1 \in Nat \ {0}
  <2>1. r.of \in Node /\ r.at \in Nat
    BY <1>6 DEF Reading
  <2>2. children[r.of] \in Seq(Node)
    BY <1>5, <2>1, RemoteFacts
  <2> QED
    BY <2>1, <2>2
<1>8. /\ left \in Seq(Listed(Node))
      /\ Nodes(left) = EachOf(Kept(present, Node), SubSeq(children[r.of], r.at + 1, at))
      /\ \A j \in DOMAIN left : /\ left[j].node \in Range(children[r.of]) \cap present
                               /\ left[j].nested = Nested(left[j].node)
  <2> DEFINE m == r.of
             a == r.at + 1
  <2> HIDE DEF m, a
  <2>1. m \in Node /\ a \in Nat \ {0} /\ at \in Nat /\ at <= Len(children[m])
    BY <1>7 DEF m, a
  <2>2. /\ Between(m, a, at) \in Seq(Listed(Node))
        /\ Nodes(Between(m, a, at)) = EachOf(Kept(present, Node), SubSeq(children[m], a, at))
        /\ \A j \in DOMAIN Between(m, a, at) :
             /\ Between(m, a, at)[j].node \in Range(children[m]) \cap present
             /\ Between(m, a, at)[j].nested = Nested(Between(m, a, at)[j].node)
    BY <1>5, <2>1, BetweenIsKept
  <2> QED
    BY <2>2 DEF m, a
<1>9. r.left = <<>>
  BY <1>1, <1>3
<1> HIDE DEF left
<1>10. Turns(children, Node, present, r, q)
  BY <1>8, <1>9 DEF Turns
<1>11. stack' = [Append(f, r) EXCEPT ![Len(f) + 1] = q]
  <2>1. Append(f, r)[Len(f) + 1] = r /\ Len(f) + 1 \in DOMAIN Append(f, r)
    <3>1. Append(f, r)[Len(f) + 1] = r /\ Append(f, r) \in Seq(Readings)
          /\ Len(Append(f, r)) = Len(f) + 1
      BY AppendProperties
    <3> QED
      BY <1>3, <3>1
  <2> DEFINE s == Append(f, r)
             k == Len(f) + 1
  <2> HIDE DEF s, k
  <2>2. stack' = [s EXCEPT ![k].at = at, ![k].left = left, ![k].more = more]
    BY <1>2, <1>4 DEF left, s, k
  <2>3. s[k] = r /\ k \in DOMAIN s
    BY <2>1 DEF s, k
  <2> QED
    BY <2>2, <2>3 DEF s, k
<1>12. /\ q.of = r.of /\ q.at = at /\ q.left = left /\ q.more = more
       /\ After(children, q) = SubSeq(children[r.of], at + 1, Len(children[r.of]))
  <2>1. q.of = r.of /\ q.at = at /\ q.left = left /\ q.more = more
    BY <1>6 DEF Reading
  <2> HIDE DEF q
  <2> QED
    BY <2>1 DEF After
<1> HIDE DEF q
<1>13. q \in Reading(children, Node) /\ Turned(children, Node, present, r, q)
  BY <1>5, <1>6, <1>10, ReadingAnswered
<1>14. ASSUME ~q.more PROVE Range(After(children, q)) \cap original = {}
  <2> DEFINE m == r.of
             a == at + 1
             l == Len(children[r.of])
             s == SubSeq(children[m], a, l)
  <2>1. Between(m, a, l) = <<>>
    BY <1>4, <1>12, <1>14
  <2>2. m \in Node /\ a \in Nat \ {0} /\ l \in Nat /\ l <= Len(children[m])
    BY <1>7
  <2>3. s \in Seq(Node)
    <3>1. \A i \in a..l : children[m][i] \in Node
      BY <1>7
    <3> HIDE DEF m, a, l
    <3> QED
      BY <2>2, <3>1, SubSeqProperties
  <2> HIDE DEF m, a, l
  <2>4. Nodes(Between(m, a, l)) = EachOf(Kept(present, Node), s)
    BY <1>5, <2>2, BetweenIsKept
  <2> HIDE DEF s
  <2>5. Range(EachOf(Kept(present, Node), s)) = Range(s) \cap present
    BY <2>3, KeptAreThere
  <2>6. Range(<<>>) = {}
    BY DEF Range
  <2>7. Range(s) \cap present = {}
    BY <2>1, <2>4, <2>5, <2>6, NodesEmpty
  <2> QED
    BY <1>5, <1>12, <2>7 DEF s, m, a, l
<1>15. ASSUME NEW j \in DOMAIN q.left, ~q.left[j].nested
       PROVE  Range(children[q.left[j].node]) \cap original
                \subseteq (IF Threads THEN {q.left[j].node} ELSE {})
  <2>1. ~Nested(q.left[j].node)
    BY <1>8, <1>12, <1>15
  <2> QED
    BY <1>5, <2>1 DEF Nested, Threads
<1>16. q \in Readings
  <2>1. q.of \in present
    BY <1>12 DEF Readings, Proper
  <2>2. \A j \in DOMAIN q.left : q.left[j].node \in Range(children[q.of]) \cap present
    BY <1>8, <1>12
  <2> QED
    BY <1>13, <1>14, <1>15, <2>1, <2>2 DEF Readings, Proper
<1>17. stack' = Append(f, q)
  BY <1>11, <1>16, ReplaceTop
<1> QED
  BY <1>2, <1>12, <1>13, <1>16, <1>17

(* An entry is taken from the innermost listing. *)
LEMMA Taking ==
  ASSUME Typed, Consuming
  PROVE  \E f \in Seq(Readings), r \in Readings, q \in Readings :
           /\ stack = Append(f, r) /\ Consumed = Append(f, q) /\ Consumes(r, q)
           /\ r.left # <<>> /\ entry = Head(r.left) /\ entry \in Listed(Node)
           /\ Level = Len(f) + 1 /\ Len(f) \in Nat /\ Level <= Deepest
           /\ (Level = 1 <=> f = <<>>)
           /\ entry.node \in Range(children[r.of]) \cap present /\ entry.node \in Node
           /\ ~entry.nested => Range(children[entry.node]) \cap original
                                 \subseteq (IF Threads THEN {entry.node} ELSE {})
<1>1. PICK f \in Seq(Readings), r \in Readings : stack = Append(f, r)
  BY StackHasTop DEF Consuming
<1> DEFINE q == [r EXCEPT !.left = Tail(r.left)]
<1>2. /\ Consumed = Append(f, q) /\ q \in Readings /\ r.left # <<>>
      /\ entry = Head(r.left) /\ entry \in Listed(Node)
      /\ entry.node \in Range(children[r.of]) \cap present /\ entry.node \in Node
      /\ ~entry.nested => Range(children[entry.node]) \cap original
                            \subseteq (IF Threads THEN {entry.node} ELSE {})
  BY <1>1, ConsumedTop
<1>3. Level = Len(f) + 1 /\ Len(f) \in Nat /\ (Level = 1 <=> f = <<>>)
  BY <1>1, TopOf
<1>4. Level <= Deepest
  BY DEF Typed, Level
<1>5. Consumes(r, q)
  BY DEF Consumes
<1> HIDE DEF q
<1> QED
  BY <1>1, <1>2, <1>3, <1>4, <1>5

LEMMA OpenedReading ==
  ASSUME Typed, NEW n \in present
  PROVE  Listing(n) \in Readings
<1>1. n \in Node /\ Makes(children, Node, Node)
  BY RemoteFacts DEF Typed
<1> DEFINE r == Listing(n)
<1>2. r \in Reading(children, Node) /\ r.of = n /\ r.left = <<>> /\ r.more
  <2> DEFINE N == Node
             c == children
  <2> HIDE DEF N, c
  <2>1. n \in N /\ Makes(c, N, N)
    BY <1>1 DEF N, c
  <2>2. Listing(n) \in Reading(c, N) /\ Listing(n).of = n /\ Listing(n).left = <<>> /\ Listing(n).more
    BY <2>1, ComingOpened
  <2> QED
    BY <2>2 DEF N, c
<1> HIDE DEF r
<1>3. DOMAIN r.left = {}
  BY <1>2
<1>4. r \in Readings
  BY <1>2, <1>3 DEF Readings, Proper
<1> QED
  BY <1>4 DEF r

LEMMA ReadingsStay ==
  ASSUME UNCHANGED <<given, present>>
  PROVE  /\ Readings' = Readings /\ Node' = Node /\ children' = children
         /\ Deepest' = Deepest /\ Threads' = Threads
<1>1. Node' = Node /\ children' = children /\ remote' = remote /\ original' = original
      /\ present' = present
  BY GivenStays DEF given
<1> QED
  BY <1>1 DEF Readings, Deepest, Threads

LEMMA TypedStays ==
  ASSUME Typed, UNCHANGED <<given, present>>,
         pc' \in {"reading", "done", "failed"},
         attempt' \in 0..MaxRetries, attempt' = MaxRetries => pc' = "failed",
         \E n \in 0..Len(remote.roots) : roots' = SubSeq(remote.roots, n + 1, Len(remote.roots)),
         stack' \in Seq(Readings), Len(stack') <= Deepest,
         document' \in DocumentIn(Node, present), documents' \in Seq(Yielded(Node, present))
  PROVE  Typed'
<1>1. /\ Readings' = Readings /\ Node' = Node /\ children' = children
      /\ Deepest' = Deepest /\ Threads' = Threads
      /\ remote' = remote /\ original' = original /\ present' = present
  BY ReadingsStay DEF given
<1> QED
  BY <1>1 DEF Typed

(* What Emit and a line more leave. *)
LEMMA LinesMore ==
  ASSUME Typed, NEW n \in present
  PROVE  /\ Own(n) \in Seq(present)
         /\ [of |-> n, lines |-> <<>>] \in DocumentIn(Node, present)
         /\ [of |-> n, lines |-> Own(n)] \in DocumentIn(Node, present)
         /\ [document EXCEPT !.lines = @ \o Own(n)] \in DocumentIn(Node, present)
<1>1. Own(n) \in Seq(present) /\ n \in Node /\ <<>> \in Seq(present)
  BY DEF Own, Typed
<1> DEFINE L == Seq(present)
           more == document.lines \o Own(n)
<1>2. document \in [of : Node, lines : L]
  BY DEF Typed, DocumentIn
<1>3. more \in L
  BY <1>1, <1>2
<1> HIDE DEF more, L
<1>4. [document EXCEPT !.lines = more] \in [of : Node, lines : L]
  BY <1>2, <1>3
<1> QED
  BY <1>1, <1>4 DEF DocumentIn, more, L

LEMMA EmitType ==
  ASSUME Typed, NEW d \in DocumentIn(Node, present)
  PROVE  Emit(d) \in Seq(Yielded(Node, present))
<1> DEFINE Y == Yielded(Node, present)
<1>1. documents \in Seq(Y)
  BY DEF Typed
<1>2. d.lines # <<>> => d \in Y
  BY DEF Yielded
<1> HIDE DEF Y
<1>3. d \in Y => Append(documents, d) \in Seq(Y)
  BY <1>1
<1> QED
  BY <1>1, <1>2, <1>3 DEF Emit, Y

LEMMA TypedInit == Init => Typed
<1> SUFFICES ASSUME Init PROVE Typed
  OBVIOUS
<1>1. remote \in Remotes /\ original = present /\ original \in SUBSET Node
      /\ Range(remote.roots) \subseteq original
  BY DEF Init, Settled, Node
<1>2. /\ remote.roots \in Seq(Node) /\ remote.roots # <<>>
  BY <1>1, RemoteFacts
<1>3. 0 \in 0..Len(remote.roots) /\ roots = SubSeq(remote.roots, 0 + 1, Len(remote.roots))
  <2>1. SubSeq(remote.roots, 1, Len(remote.roots)) = remote.roots
    BY <1>2, SubSeqFull
  <2> QED
    BY <1>2, <2>1 DEF Init
<1>4. stack \in Seq(Readings) /\ Len(stack) <= Deepest
  <2>1. Deepest >= 0
    BY PagedSourcesAssumption DEF Deepest
  <2> QED
    BY <2>1 DEF Init
<1>5. document \in DocumentIn(Node, present) /\ documents \in Seq(Yielded(Node, present))
  <2>1. Head(remote.roots) \in Node
    BY <1>2
  <2>2. <<>> \in Seq(present) /\ <<>> \in Seq(Yielded(Node, present))
    OBVIOUS
  <2> QED
    BY <2>1, <2>2 DEF Init, DocumentIn
<1>6. attempt \in 0..MaxRetries /\ attempt # MaxRetries /\ pc = "reading"
  BY PagedSourcesAssumption DEF Init
<1> QED
  BY <1>1, <1>3, <1>4, <1>5, <1>6 DEF Typed

LEMMA TypedWrite ==
  ASSUME Typed, NEW n \in Node, Write(n)
  PROVE  Typed'
<1>1. Node' = Node /\ children' = children /\ remote' = remote /\ original' = original
  BY GivenStays DEF Write, given
<1>2. present' \in SUBSET Node /\ original \in SUBSET present' /\ present \subseteq present'
  BY DEF Typed, Write
<1>3. \A m \in present' \ original : Range(children[m]) \cap original = {}
  BY DEF Typed, Write
<1>4. Deepest' = Deepest /\ Threads' = Threads
  BY <1>1 DEF Deepest, Threads
<1>5. Readings' = Proper(children, Node, present', original, Threads)
  BY <1>1, <1>4 DEF Readings
<1>6. stack' \in Seq(Readings') /\ stack' = stack
  <2>1. stack \in Seq(Proper(children, Node, present, original, Threads)) /\ stack' = stack
    BY DEF Typed, Readings, Write
  <2> DEFINE c == children
             N == Node
             S == present
             T == present'
             t == Threads
             o == original
  <2> HIDE DEF c, N, S, T, t, o
  <2>2. S \subseteq T
    BY <1>2 DEF S, T
  <2>3. Seq(Proper(c, N, S, o, t)) \subseteq Seq(Proper(c, N, T, o, t))
    BY <2>2, ProperGrows
  <2> QED
    BY <1>5, <2>1, <2>3 DEF c, N, S, T, t, o
<1>7. document' \in DocumentIn(Node, present') /\ documents' \in Seq(Yielded(Node, present'))
  <2> DEFINE N == Node
             S == present
             T == present'
  <2>1. document \in DocumentIn(N, S) /\ documents \in Seq(Yielded(N, S)) /\ S \subseteq T
    BY <1>2 DEF Typed
  <2> HIDE DEF N, S, T
  <2>2. document \in DocumentIn(N, T) /\ documents \in Seq(Yielded(N, T))
    BY <2>1, ProperGrows
  <2> QED
    BY <2>2 DEF N, T, Write
<1> QED
  BY <1>1, <1>2, <1>3, <1>4, <1>6, <1>7 DEF Typed, Write

LEMMA TypedFetch ==
  ASSUME Typed, Fetch
  PROVE  Typed'
<1> DEFINE Facts == /\ pc \in {"reading", "done", "failed"}
                    /\ attempt \in 0..MaxRetries
                    /\ attempt = MaxRetries => pc = "failed"
                    /\ \E n \in 0..Len(remote.roots) : roots = SubSeq(remote.roots, n + 1, Len(remote.roots))
                    /\ stack \in Seq(Readings) /\ Len(stack) <= Deepest
                    /\ document \in DocumentIn(Node, present)
                    /\ documents \in Seq(Yielded(Node, present))
                    /\ MaxRetries \in Nat \ {0} /\ MaxBlockDepth \in Nat
<1>0. Facts
  BY PagedSourcesAssumption DEF Typed
<1>1. CASE Throttled
  BY <1>0, <1>1, TypedStays DEF Throttled, Requesting
<1>2. CASE Refused
  BY <1>0, <1>2, TypedStays DEF Refused, Requesting
<1>3. CASE Answered
  <2>1. PICK f \in Seq(Readings), r \in Readings, q \in Readings :
          stack = Append(f, r) /\ stack' = Append(f, q)
    BY <1>3, AnsweredTop
  <2>2. stack' \in Seq(Readings) /\ Len(stack') = Len(stack)
    BY <2>1, AppendProperties
  <2>3. attempt' = 0 /\ UNCHANGED <<given, present, pc, roots, document, documents>>
    BY <1>3 DEF Answered
  <2> HIDE DEF Deepest, Readings
  <2> QED
    BY <1>0, <2>2, <2>3, TypedStays
<1>4. CASE OpenRoot
  <2>1. roots # <<>> /\ roots' = Tail(roots) /\ stack' = <<Listing(Head(roots))>>
    BY <1>4 DEF OpenRoot
  <2>2. Head(roots) \in present
        /\ \E n \in 0..Len(remote.roots) : roots' = SubSeq(remote.roots, n + 1, Len(remote.roots))
    BY <2>1, RootsAreNodes DEF Typed
  <2>3. stack' \in Seq(Readings) /\ Len(stack') = 1
    <3>1. Listing(Head(roots)) \in Readings
      BY <2>2, OpenedReading
    <3> HIDE DEF Readings
    <3> QED
      BY <2>1, <3>1
  <2>4. 1 <= Deepest
    BY <1>0 DEF Deepest
  <2> QED
    BY <1>0, <1>4, <2>2, <2>3, <2>4, TypedStays DEF OpenRoot
<1>5. CASE OpenPage \/ TakeBlock \/ TakeMessage \/ TakeReply
  <2>1. Consuming
    BY <1>5 DEF OpenPage, TakeBlock, TakeMessage, TakeReply
  <2>2. PICK f \in Seq(Readings), r \in Readings, q \in Readings :
           /\ stack = Append(f, r) /\ Consumed = Append(f, q)
           /\ Level = Len(f) + 1 /\ Len(f) \in Nat /\ Level <= Deepest
           /\ entry.node \in present
    BY <2>1, Taking
  <2> DEFINE n == entry.node
  <2>3. Listing(n) \in Readings
    BY <2>2, OpenedReading
  <2>4. Consumed \in Seq(Readings) /\ Len(Consumed) = Level
    BY <2>2, AppendProperties
  <2>5. Append(Consumed, Listing(n)) \in Seq(Readings)
        /\ Len(Append(Consumed, Listing(n))) = Level + 1
    BY <2>3, <2>4, AppendProperties
  <2> HIDE DEF Consumed, Readings
  <2>6. /\ [of |-> n, lines |-> <<>>] \in DocumentIn(Node, present)
        /\ [of |-> n, lines |-> Own(n)] \in DocumentIn(Node, present)
        /\ [document EXCEPT !.lines = @ \o Own(n)] \in DocumentIn(Node, present)
    BY <2>2, LinesMore
  <2>7. Emit([of |-> n, lines |-> Own(n)]) \in Seq(Yielded(Node, present))
    BY <2>6, EmitType
  <2>8. 2 <= Deepest
    BY <1>0 DEF Deepest
  <2>9. stack' \in Seq(Readings) /\ Len(stack') <= Deepest
    <3>1. CASE OpenPage
      BY <2>5, <2>8, <3>1 DEF OpenPage
    <3>2. CASE TakeBlock
      <4>1. Level - 1 <= MaxBlockDepth => Level + 1 <= Deepest
        BY <1>0, <2>2, <3>2 DEF TakeBlock, Deepest
      <4> QED
        BY <2>2, <2>4, <2>5, <3>2, <4>1 DEF TakeBlock
    <3>3. CASE TakeMessage
      BY <2>2, <2>4, <2>5, <2>8, <3>3 DEF TakeMessage
    <3>4. CASE TakeReply
      BY <2>2, <2>4, <3>4 DEF TakeReply
    <3> QED
      BY <1>5, <3>1, <3>2, <3>3, <3>4
  <2>10. document' \in DocumentIn(Node, present) /\ documents' \in Seq(Yielded(Node, present))
    <3> HIDE DEF Level
    <3> QED
      BY <1>0, <1>5, <2>6, <2>7 DEF OpenPage, TakeBlock, TakeMessage, TakeReply
  <2>11. UNCHANGED <<given, present, pc, roots, attempt>>
    BY <1>5 DEF OpenPage, TakeBlock, TakeMessage, TakeReply
  <2> QED
    BY <1>0, <2>9, <2>10, <2>11, TypedStays
<1>6. CASE Close
  <2>1. PICK f \in Seq(Readings), r \in Readings : stack = Append(f, r)
    BY <1>6, StackHasTop DEF Close
  <2>2. Front(stack) = f /\ Len(stack) = Len(f) + 1 /\ Len(f) \in Nat
    BY <2>1, TopOf, AppendProperties
  <2>3. Emit(document) \in Seq(Yielded(Node, present))
    BY EmitType DEF Typed
  <2>4. /\ stack' = f /\ UNCHANGED <<given, present, pc, roots, attempt, document>>
        /\ documents' \in {documents, Emit(document)}
    BY <1>6, <2>2 DEF Close
  <2>5. Len(stack') <= Deepest
    <3>1. Deepest \in Nat
      BY <1>0 DEF Deepest
    <3> QED
      BY <1>0, <2>2, <2>4, <3>1
  <2> QED
    BY <1>0, <2>3, <2>4, <2>5, TypedStays
<1>7. CASE Finish
  BY <1>0, <1>7, TypedStays DEF Finish
<1> QED
  BY <1>1, <1>2, <1>3, <1>4, <1>5, <1>6, <1>7 DEF Fetch

LEMMA TypedStep == Typed /\ [Next]_vars => Typed'
<1> SUFFICES ASSUME Typed, [Next]_vars PROVE Typed'
  OBVIOUS
<1>1. CASE Fetch
  BY <1>1, TypedFetch
<1>2. ASSUME NEW n \in Node, Write(n) PROVE Typed'
  BY <1>2, TypedWrite
<1>3. CASE UNCHANGED vars
  <2>1. /\ pc \in {"reading", "done", "failed"}
        /\ attempt \in 0..MaxRetries
        /\ attempt = MaxRetries => pc = "failed"
        /\ \E n \in 0..Len(remote.roots) : roots = SubSeq(remote.roots, n + 1, Len(remote.roots))
        /\ stack \in Seq(Readings) /\ Len(stack) <= Deepest
        /\ document \in DocumentIn(Node, present)
        /\ documents \in Seq(Yielded(Node, present))
    BY DEF Typed
  <2> QED
    BY <1>3, <2>1, TypedStays DEF vars
<1> QED
  BY <1>1, <1>2, <1>3 DEF Next, Node

LEMMA TypedImpliesTypeOK == Typed => TypeOK
<1> SUFFICES ASSUME Typed PROVE TypeOK
  OBVIOUS
<1>1. ASSUME NEW i \in DOMAIN stack
      PROVE  /\ stack[i].of \in present
             /\ stack[i].at \in 0..Len(children[stack[i].of])
             /\ \A j \in DOMAIN stack[i].left :
                  stack[i].left[j].node \in Range(children[stack[i].of]) \cap present
             /\ stack[i].more \in BOOLEAN
  <2>1. stack[i] \in Readings
    <3>1. stack \in Seq(Readings)
      BY DEF Typed
    <3> HIDE DEF Readings
    <3> QED
      BY <3>1
  <2> DEFINE r == stack[i]
  <2> HIDE DEF r
  <2>2. r \in Reading(children, Node) /\ r.of \in present
        /\ \A j \in DOMAIN r.left : r.left[j].node \in Range(children[r.of]) \cap present
    BY <2>1 DEF r, Readings, Proper
  <2>3. children[r.of] \in Seq(Node)
    BY <2>2, RemoteFacts DEF Typed
  <2>4. r.at \in 0..Len(children[r.of]) /\ r.more \in BOOLEAN
    BY <2>2, <2>3 DEF Reading
  <2> QED
    BY <2>2, <2>4 DEF r
<1>2. \A d \in {document} \cup Range(documents) : d \in DocumentIn(Node, present)
  <2>1. documents \in Seq(Yielded(Node, present)) /\ document \in DocumentIn(Node, present)
    BY DEF Typed
  <2>2. \A d \in Range(documents) : d \in Yielded(Node, present)
    BY <2>1 DEF Range
  <2> QED
    BY <2>1, <2>2 DEF Yielded
<1>3. \A d \in {document} \cup Range(documents) : Range(d.lines) \subseteq present
  <2> SUFFICES ASSUME NEW d \in {document} \cup Range(documents) PROVE Range(d.lines) \subseteq present
    OBVIOUS
  <2>1. d.lines \in Seq(present)
    BY <1>2 DEF DocumentIn
  <2> QED
    BY <2>1, RangeOfSeq
<1>4. \A d \in Range(documents) : d.lines # <<>>
  <2>1. documents \in Seq(Yielded(Node, present))
    BY DEF Typed
  <2>2. \A d \in Range(documents) : d \in Yielded(Node, present)
    BY <2>1 DEF Range
  <2> QED
    BY <2>2 DEF Yielded
<1>5. Level <= 2 + (IF remote.service = "notion" THEN MaxBlockDepth ELSE 0)
  BY DEF Typed, Level, Deepest
<1> QED
  BY <1>1, <1>3, <1>4, <1>5 DEF Typed, TypeOK, Node

LEMMA TypedHolds == Spec => []Typed
<1>1. Init => Typed
  BY TypedInit
<1>2. Typed /\ [Next]_vars => Typed'
  BY TypedStep
<1> QED
  BY <1>1, <1>2, PTL DEF Spec

(* A walk is never deeper than it may be, reads listings of what is there,  *)
(* and sends no request more often than MAX_RETRIES.                       *)
THEOREM WalksAreBounded == Spec => []TypeOK
<1>1. Spec => []Typed
  BY TypedHolds
<1>2. Typed => TypeOK
  BY TypedImpliesTypeOK
<1> QED
  BY <1>1, <1>2, PTL

-----------------------------------------------------------------------------
(* What is ahead, of the listing at the bottom and of the roots; and what   *)
(* the listings above it add to the document, the innermost first.         *)
FirstOf(c, st) == IF st = <<>> THEN <<>> ELSE Coming(c, st[1])

AheadOf(c, st, rs) == FirstOf(c, st) \o EachOf(c, rs)

Pieces(F, c, st) ==
  [k \in 1 .. (Len(st) - 1) |->
    EachOf(F[MaxBlockDepth + 1 + k - Len(st)], Coming(c, st[Len(st) + 1 - k]))]

RestOf(F, c, st) == FlattenSeq(Pieces(F, c, st))

LEMMA FirstAppend ==
  ASSUME NEW c, NEW T, NEW f \in Seq(T), NEW r \in T
  PROVE  FirstOf(c, Append(f, r)) = IF f = <<>> THEN Coming(c, r) ELSE FirstOf(c, f)
<1> DEFINE s == Append(f, r)
<1>1. /\ s # <<>> /\ Len(s) = Len(f) + 1 /\ Len(f) \in Nat
      /\ s[Len(f) + 1] = r /\ \A i \in 1..Len(f) : s[i] = f[i]
  BY AppendProperties
<1> HIDE DEF s
<1>2. CASE f = <<>>
  <2>1. s[1] = r
    BY <1>1, <1>2
  <2> QED
    BY <1>1, <1>2, <2>1 DEF FirstOf, s
<1>3. CASE f # <<>>
  <2>1. 1 \in 1..Len(f)
    <3>1. Len(f) # 0
      BY <1>3
    <3> QED
      BY <1>1, <3>1
  <2>2. s[1] = f[1]
    BY <1>1, <2>1
  <2> QED
    BY <1>1, <1>3, <2>2 DEF FirstOf, s
<1> QED
  BY <1>2, <1>3

LEMMA RestAppend ==
  ASSUME NEW N, NEW c, Makes(c, N, N),
         NEW F, \A l \in 0..MaxBlockDepth : Makes(F[l], N, N),
         NEW f \in Seq(Reading(c, N)), NEW r \in Reading(c, N), Len(f) <= MaxBlockDepth + 1
  PROVE  /\ RestOf(F, c, f) \in Seq(N) /\ RestOf(F, c, Append(f, r)) \in Seq(N)
         /\ RestOf(F, c, Append(f, r)) =
              IF f = <<>> THEN <<>>
              ELSE EachOf(F[MaxBlockDepth + 1 - Len(f)], Coming(c, r)) \o RestOf(F, c, f)
<1> DEFINE D == MaxBlockDepth
           R == Reading(c, N)
<1>0. D \in Nat
  BY PagedSourcesAssumption
<1>1. ASSUME NEW st \in Seq(R), Len(st) <= D + 2
      PROVE  Pieces(F, c, st) \in Seq(Seq(N)) /\ RestOf(F, c, st) \in Seq(N)
  <2>1. ASSUME NEW k \in 1 .. (Len(st) - 1)
        PROVE  EachOf(F[D + 1 + k - Len(st)], Coming(c, st[Len(st) + 1 - k])) \in Seq(N)
    <3> DEFINE l == D + 1 + k - Len(st)
               q == st[Len(st) + 1 - k]
    <3>1. l \in 0..D
      BY <1>0, <1>1
    <3>2. q \in R
      <4> HIDE DEF R
      <4> QED
        OBVIOUS
    <3> HIDE DEF l, q
    <3>3. Coming(c, q) \in Seq(N) /\ Makes(F[l], N, N)
      BY <3>1, <3>2, ComingType
    <3> DEFINE x == Coming(c, q)
               G == F[l]
    <3> HIDE DEF x, G
    <3>4. x \in Seq(N) /\ Makes(G, N, N)
      BY <3>3 DEF x, G
    <3>5. EachOf(G, x) \in Seq(N)
      BY <3>4, EachPieces
    <3> QED
      BY <3>5 DEF x, G, l, q
  <2>2. Len(st) \in Nat
    OBVIOUS
  <2>3. Pieces(F, c, st) \in Seq(Seq(N))
    <3> DEFINE U == Seq(N)
               n == IF Len(st) = 0 THEN 0 ELSE Len(st) - 1
               e(k) == EachOf(F[D + 1 + k - Len(st)], Coming(c, st[Len(st) + 1 - k]))
    <3>1. n \in Nat /\ 1 .. (Len(st) - 1) = 1..n
      BY <2>2
    <3>2. \A k \in 1..n : e(k) \in U
      BY <2>1, <3>1
    <3> HIDE DEF U, n, e
    <3>3. [k \in 1..n |-> e(k)] \in Seq(U)
      BY <3>1, <3>2
    <3>4. Pieces(F, c, st) = [k \in 1..n |-> e(k)]
      BY <3>1 DEF Pieces, e
    <3> QED
      BY <3>3, <3>4 DEF U
  <2> QED
    BY <2>3, FlattenType DEF RestOf
<1> DEFINE s == Append(f, r)
<1>2. /\ s \in Seq(R) /\ Len(s) = Len(f) + 1 /\ Len(f) \in Nat
      /\ s[Len(f) + 1] = r /\ \A i \in 1..Len(f) : s[i] = f[i]
  <2> HIDE DEF R
  <2>1. f \in Seq(R) /\ r \in R
    BY DEF R
  <2> QED
    BY <2>1, AppendProperties
<1> HIDE DEF s, R
<1>3. f \in Seq(R) /\ r \in R
  BY DEF R
<1>4. RestOf(F, c, f) \in Seq(N) /\ RestOf(F, c, s) \in Seq(N) /\ Pieces(F, c, s) \in Seq(Seq(N))
  BY <1>0, <1>1, <1>2, <1>3
<1>5. CASE f = <<>>
  <2>1. Len(s) - 1 = 0
    BY <1>2, <1>5
  <2>2. Pieces(F, c, s) = <<>>
    <3> DEFINE U == Seq(N)
               p == Pieces(F, c, s)
    <3>1. DOMAIN p = 1 .. (Len(s) - 1)
      BY DEF Pieces
    <3>2. p \in Seq(U)
      BY <1>4
    <3> HIDE DEF U, p
    <3>3. DOMAIN p = 1..0
      BY <2>1, <3>1
    <3>4. p = <<>>
      BY <3>2, <3>3
    <3> QED
      BY <3>4 DEF p
  <2> QED
    BY <1>4, <1>5, <2>2, FlattenEmpty DEF RestOf, s
<1>6. CASE f # <<>>
  <2> DEFINE p == Pieces(F, c, s)
             h == EachOf(F[D + 1 - Len(f)], Coming(c, r))
  <2>1. Len(f) \in Nat \ {0}
    <3>1. Len(f) # 0
      BY <1>6
    <3> QED
      BY <1>2, <3>1
  <2>2. DOMAIN p = 1..Len(f)
    BY <1>2, <2>1 DEF Pieces
  <2>3. p[1] = h
    <3>1. 1 \in 1 .. (Len(s) - 1) /\ Len(s) + 1 - 1 = Len(f) + 1 /\ D + 1 + 1 - Len(s) = D + 1 - Len(f)
      BY <1>0, <1>2, <2>1
    <3>2. p[1] = EachOf(F[D + 1 + 1 - Len(s)], Coming(c, s[Len(s) + 1 - 1]))
      BY <3>1 DEF Pieces
    <3> QED
      BY <1>2, <3>1, <3>2
  <2>4. ASSUME NEW k \in 1 .. (Len(f) - 1) PROVE p[k + 1] = Pieces(F, c, f)[k]
    <3>1. /\ k + 1 \in 1 .. (Len(s) - 1) /\ Len(s) + 1 - (k + 1) = Len(f) + 1 - k
          /\ D + 1 + (k + 1) - Len(s) = D + 1 + k - Len(f) /\ Len(f) + 1 - k \in 1..Len(f)
      BY <1>0, <1>2, <2>1, SMTT(40)
    <3>2. p[k + 1] = EachOf(F[D + 1 + (k + 1) - Len(s)], Coming(c, s[Len(s) + 1 - (k + 1)]))
      BY <3>1 DEF Pieces
    <3>3. Pieces(F, c, f)[k] = EachOf(F[D + 1 + k - Len(f)], Coming(c, f[Len(f) + 1 - k]))
      BY DEF Pieces
    <3> QED
      BY <1>2, <3>1, <3>2, <3>3
  <2>5. DOMAIN Pieces(F, c, f) = 1 .. (Len(f) - 1)
    BY DEF Pieces
  <2>6. Pieces(F, c, f) \in Seq(Seq(N))
    BY <1>0, <1>1, <1>2, <1>3
  <2>7. p \in Seq(Seq(N))
    BY <1>4
  <2> DEFINE b == Pieces(F, c, f)
  <2> HIDE DEF p, b, h
  <2>8. p # <<>> /\ Head(p) = h /\ Tail(p) = b
    <3> DEFINE U == Seq(N)
    <3> HIDE DEF U
    <3>1. p \in Seq(U) /\ b \in Seq(U)
      BY <2>6, <2>7 DEF U, b
    <3>2. Len(p) = Len(f) /\ p # <<>>
      BY <2>1, <2>2, <3>1
    <3>3. Len(b) = Len(f) - 1
      BY <2>1, <2>5, <3>1 DEF b
    <3>4. Tail(p) \in Seq(U) /\ Len(Tail(p)) = Len(f) - 1
      BY <3>1, <3>2
    <3>5. ASSUME NEW k \in 1 .. (Len(f) - 1) PROVE Tail(p)[k] = b[k]
      <4>1. Tail(p)[k] = p[k + 1]
        BY <2>1, <3>1, <3>2
      <4> QED
        BY <2>4, <4>1 DEF b
    <3>6. Tail(p) = b
      BY <3>1, <3>3, <3>4, <3>5, SeqEqual
    <3>7. Head(p) = h
      BY <2>3, <3>1, <3>2
    <3> QED
      BY <3>2, <3>6, <3>7
  <2>9. FlattenSeq(p) = Head(p) \o FlattenSeq(Tail(p))
    BY <2>7, <2>8, FlattenTail
  <2> QED
    BY <1>4, <1>6, <2>8, <2>9 DEF RestOf, p, b, h, s
<1> QED
  BY <1>5, <1>6

-----------------------------------------------------------------------------
(* A document, or none when there are no lines. *)
Whole(n, lines) == IF lines = <<>> THEN <<>> ELSE <<[of |-> n, lines |-> lines]>>

Written == DocumentIn(Node, Node)

Promises == [n \in Node |-> Promised(n)]

LEMMA WholeType ==
  ASSUME NEW n \in Node, NEW lines \in Seq(Node)
  PROVE  Whole(n, lines) \in Seq(Written)
<1>1. [of |-> n, lines |-> lines] \in Written
  BY DEF Written, DocumentIn
<1> DEFINE W == Written
           d == [of |-> n, lines |-> lines]
<1> HIDE DEF W, d
<1>2. <<d>> \in Seq(W) /\ <<>> \in Seq(W)
  BY <1>1 DEF W, d
<1> QED
  BY <1>2 DEF Whole, W, d

LEMMA LinesMake ==
  ASSUME Typed, NEW l \in 0..MaxBlockDepth
  PROVE  /\ Makes(LinesAt[l], Node, Node)
         /\ \A n \in Node :
              LinesAt[l][n] = IF n \notin original THEN <<>>
                              ELSE Own(n) \o (IF l = 0 \/ Threads THEN <<>> ELSE Below[l - 1][n])
<1>1. remote \in Remotes
  BY DEF Typed
<1>2. LinesAt[l] = LinesOver(l, Below[l - 1])
  BY DEF LinesAt
<1>3. ASSUME NEW n \in Node PROVE LinesAt[l][n] \in Seq(Node)
  <2>1. Own(n) \in Seq(Node) /\ <<>> \in Seq(Node)
    BY <1>1, RemoteFacts
  <2>2. l # 0 => Below[l - 1][n] \in Seq(Node)
    <3>1. l # 0 => l - 1 \in 0..MaxBlockDepth
      BY PagedSourcesAssumption
    <3> QED
      BY <1>1, <3>1, BelowIsOutline
  <2> DEFINE b == Below[l - 1][n]
             o == Own(n)
             U == Seq(Node)
  <2>3. LinesAt[l][n] \in {<<>>, o \o <<>>, o \o b}
        /\ (l = 0 => LinesAt[l][n] \in {<<>>, o \o <<>>})
    BY <1>2 DEF LinesOver
  <2> HIDE DEF b, o
  <2>4. o \o <<>> \in U /\ (l # 0 => o \o b \in U)
    BY <2>1, <2>2 DEF b, o
  <2> QED
    BY <2>1, <2>3, <2>4
<1>4. Makes(LinesAt[l], Node, Node)
  BY <1>2, <1>3 DEF Makes, LinesOver
<1> QED
  BY <1>2, <1>4 DEF LinesOver, Threads

(* The lines of the listing of n are what its entries add. *)
LEMMA NothingBelow ==
  ASSUME Typed, NEW l \in 0..MaxBlockDepth, NEW n \in Node
  PROVE  /\ Below[l][n] = EachOf(LinesAt[l], children[n]) /\ Below[l][n] \in Seq(Node)
         /\ Range(children[n]) \cap original = {} => Below[l][n] = <<>>
<1>1. remote \in Remotes
  BY DEF Typed
<1>2. Below[l][n] = EachOf(LinesAt[l], children[n]) /\ Below[l][n] \in Seq(Node)
  BY <1>1, BelowIsOutline
<1>3. children[n] \in Seq(Node)
  BY <1>1, RemoteFacts
<1>4. ASSUME Range(children[n]) \cap original = {} PROVE Below[l][n] = <<>>
  <2> DEFINE F == LinesAt[l]
             s == children[n]
  <2>1. \A i \in DOMAIN s : F[s[i]] = <<>>
    <3>1. \A i \in DOMAIN s : s[i] \in Node /\ s[i] \in Range(s)
      BY <1>3 DEF Range
    <3>2. \A m \in Node : m \notin original => F[m] = <<>>
      BY LinesMake
    <3> QED
      BY <1>4, <3>1, <3>2
  <2> HIDE DEF F, s
  <2>2. EachOf(F, s) = <<>>
    BY <1>3, <2>1, EachNothing DEF s
  <2> QED
    BY <1>2, <2>2 DEF F, s
<1> QED
  BY <1>2, <1>4

LEMMA AmongIsKept ==
  ASSUME NEW S
  PROVE  /\ \A s \in Seq(Node) : Among(s, S) = EachOf(Kept(S, Node), s) /\ Among(s, S) \in Seq(Node)
         /\ \A s \in Seq(Node), t \in Seq(Node) : Among(s \o t, S) = Among(s, S) \o Among(t, S)
         /\ Among(<<>>, S) = <<>>
         /\ \A n \in Node : Among(Own(n), S) = IF n \in S THEN Own(n) ELSE <<>>
<1> DEFINE K == Kept(S, Node)
<1>1. Makes(K, Node, Node)
  BY KeptPicks
<1>2. ASSUME NEW s \in Seq(Node)
      PROVE  Among(s, S) = EachOf(K, s) /\ Among(s, S) \in Seq(Node)
  <2> DEFINE a == [i \in DOMAIN s |-> IF s[i] \in S THEN <<s[i]>> ELSE <<>>]
             b == [i \in DOMAIN s |-> K[s[i]]]
  <2>1. a = b
    <3>1. \A i \in DOMAIN s : s[i] \in Node
      OBVIOUS
    <3>2. \A i \in DOMAIN s : K[s[i]] = IF s[i] \in S THEN <<s[i]>> ELSE <<>>
      BY <3>1 DEF Kept
    <3> HIDE DEF K
    <3> QED
      BY <3>2
  <2> HIDE DEF K
  <2>2. Among(s, S) = EachOf(K, s)
    BY <2>1 DEF Among, EachOf
  <2> QED
    BY <1>1, <2>2, EachPieces
<1>3. ASSUME NEW s \in Seq(Node), NEW t \in Seq(Node)
      PROVE  Among(s \o t, S) = Among(s, S) \o Among(t, S)
  <2> HIDE DEF K
  <2>1. s \o t \in Seq(Node)
    OBVIOUS
  <2>2. EachOf(K, s \o t) = EachOf(K, s) \o EachOf(K, t)
    BY <1>1, EachConcat
  <2> QED
    BY <1>2, <2>1, <2>2
<1>4. Among(<<>>, S) = <<>>
  <2> HIDE DEF K
  <2>1. <<>> \in Seq(Node)
    OBVIOUS
  <2> QED
    BY <1>2, <2>1, EachEmpty
<1>5. ASSUME NEW n \in Node PROVE Among(Own(n), S) = IF n \in S THEN Own(n) ELSE <<>>
  <2>1. CASE Own(n) = <<>>
    BY <1>4, <2>1
  <2>2. CASE Own(n) # <<>>
    <3>1. Own(n) = <<n>> /\ <<n>> \in Seq(Node)
      BY <2>2 DEF Own
    <3>2. EachOf(K, <<n>>) = K[n]
      <4> HIDE DEF K
      <4> QED
        BY <1>1, EachOne
    <3> QED
      BY <1>2, <3>1, <3>2 DEF Kept
  <2> QED
    BY <2>1, <2>2
<1> QED
  BY <1>2, <1>3, <1>4, <1>5

LEMMA PromisesMake ==
  ASSUME Typed
  PROVE  /\ Makes(Promises, Node, Written)
         /\ \A n \in Node : n \notin original => Promises[n] = <<>>
         /\ \A n \in Node : Outline(n) \in Seq(Node)
         /\ \A n \in original : Promises[n] =
              IF Threads /\ Skipped(n) THEN <<>> ELSE Whole(n, Outline(n))
         /\ Expected = EachOf(Promises, Tops(remote)) /\ Tops(remote) \in Seq(Node)
         /\ Tops(remote) = EachOf(children, remote.roots)
<1>1. remote \in Remotes /\ original \subseteq Node
  BY DEF Typed
<1>2. ASSUME NEW n \in Node PROVE Outline(n) \in Seq(Node)
  <2>1. Own(n) \in Seq(Node) /\ <<>> \in Seq(Node)
    BY <1>1, RemoteFacts
  <2>2. MaxBlockDepth \in 0..MaxBlockDepth
    BY PagedSourcesAssumption
  <2>3. Below[MaxBlockDepth][n] \in Seq(Node)
    BY <2>2, NothingBelow
  <2> DEFINE b == Below[MaxBlockDepth][n]
             o == Own(n)
  <2>4. Outline(n) \in {o \o b, <<>> \o b}
    BY DEF Outline
  <2> HIDE DEF b, o
  <2>5. o \o b \in Seq(Node) /\ <<>> \o b \in Seq(Node)
    BY <2>1, <2>3 DEF b, o
  <2> QED
    BY <2>4, <2>5
<1>3. ASSUME NEW n \in Node
      PROVE  Promises[n] = IF n \notin original \/ (Threads /\ Skipped(n)) THEN <<>> ELSE Whole(n, Outline(n))
  BY DEF Promises, Promised, Threads, Whole
<1>4. ASSUME NEW n \in Node PROVE Promises[n] \in Seq(Written)
  <2>1. <<>> \in Seq(Written)
    OBVIOUS
  <2> QED
    BY <1>2, <1>3, <2>1, WholeType
<1>5. Makes(Promises, Node, Written)
  BY <1>4 DEF Makes, Promises
<1>6. Tops(remote) = EachOf(children, remote.roots)
  BY DEF Tops, EachOf, children
<1>7. Tops(remote) \in Seq(Node)
  <2> DEFINE c == children
             s == remote.roots
  <2>1. Makes(c, Node, Node) /\ s \in Seq(Node)
    BY <1>1, RemoteFacts
  <2> HIDE DEF c, s
  <2>2. EachOf(c, s) \in Seq(Node)
    BY <2>1, EachPieces
  <2> QED
    BY <1>6, <2>2 DEF c, s
<1>8. Expected = EachOf(Promises, Tops(remote))
  <2> DEFINE s == Tops(remote)
  <2>1. Expected = FlattenSeq([i \in DOMAIN s |-> Promised(s[i])])
    BY DEF Expected
  <2> HIDE DEF s
  <2>2. \A i \in DOMAIN s : s[i] \in Node
    BY <1>7 DEF s
  <2>3. [i \in DOMAIN s |-> Promised(s[i])] = [i \in DOMAIN s |-> Promises[s[i]]]
    BY <2>2 DEF Promises
  <2> QED
    BY <2>1, <2>3 DEF EachOf, s
<1> QED
  BY <1>1, <1>2, <1>3, <1>5, <1>6, <1>7, <1>8

-----------------------------------------------------------------------------
(* Sequences put together another way. *)
LEMMA Regroup ==
  ASSUME NEW S, NEW x \in Seq(S), NEW y \in Seq(S), NEW z \in Seq(S)
  PROVE  /\ (x \o <<>>) \o (y \o z) = (x \o y) \o z
         /\ ((x \o y) \o <<>>) \o z = (x \o y) \o z
         /\ x \o (y \o z) = (x \o y) \o z
         /\ x \o y \in Seq(S) /\ <<>> \o x = x /\ x \o <<>> = x
<1>1. x \o y \in Seq(S) /\ <<>> \o x = x /\ x \o <<>> = x
  OBVIOUS
<1>2. (x \o y) \o <<>> = x \o y
  BY <1>1
<1>3. x \o (y \o z) = (x \o y) \o z
  BY ConcatAssociative, SMTT(40)
<1> QED
  BY <1>1, <1>2, <1>3

LEMMA SameAdds ==
  ASSUME NEW N, NEW c, NEW S, NEW r, NEW q, Turned(c, N, S, r, q),
         NEW Q, NEW F, Makes(F, N, Q), \A n \in N \ S : F[n] = <<>>
  PROVE  EachOf(F, Coming(c, q)) = EachOf(F, Coming(c, r))
<1>1. PICK part \in Seq(N), rest \in Seq(N) :
        /\ Coming(c, r) = part \o rest
        /\ Coming(c, q) = EachOf(Kept(S, N), part) \o rest
  BY DEF Turned
<1>2. EachOf(F, EachOf(Kept(S, N), part) \o rest) = EachOf(F, part \o rest)
  BY AddsKept
<1> QED
  BY <1>1, <1>2

(* What a stack with another listing on top has ahead. *)
LEMMA AheadOn ==
  ASSUME Typed
  PROVE  /\ \A f \in Seq(Readings), r \in Readings, rs \in Seq(Node) :
              /\ AheadOf(children, Append(f, r), rs)
                   = (IF f = <<>> THEN Coming(children, r) ELSE FirstOf(children, f))
                       \o EachOf(children, rs)
              /\ AheadOf(children, Append(f, r), rs) \in Seq(Node)
              /\ Coming(children, r) \in Seq(Node) /\ EachOf(children, rs) \in Seq(Node)
         /\ \A f \in Seq(Readings) : FirstOf(children, f) \in Seq(Node)
<1> DEFINE c == children
           N == Node
           T == Readings
<1>1. Makes(c, N, N) /\ T \subseteq Reading(c, N)
  BY RemoteFacts DEF Typed, Readings, Proper
<1> HIDE DEF c, N, T
<1>2. ASSUME NEW r \in T PROVE Coming(c, r) \in Seq(N)
  BY <1>1, ComingType
<1>3. ASSUME NEW f \in Seq(T) PROVE FirstOf(c, f) \in Seq(N)
  <2>1. CASE f = <<>>
    BY <2>1 DEF FirstOf
  <2>2. CASE f # <<>>
    <3>1. f[1] \in T
      BY <2>2
    <3> QED
      BY <1>2, <2>2, <3>1 DEF FirstOf
  <2> QED
    BY <2>1, <2>2
<1>4. ASSUME NEW rs \in Seq(N) PROVE EachOf(c, rs) \in Seq(N)
  BY <1>1, EachPieces
<1>5. ASSUME NEW f \in Seq(T), NEW r \in T, NEW rs \in Seq(N)
      PROVE  /\ AheadOf(c, Append(f, r), rs)
                  = (IF f = <<>> THEN Coming(c, r) ELSE FirstOf(c, f)) \o EachOf(c, rs)
             /\ AheadOf(c, Append(f, r), rs) \in Seq(N)
  <2>1. FirstOf(c, Append(f, r)) = IF f = <<>> THEN Coming(c, r) ELSE FirstOf(c, f)
    BY FirstAppend
  <2>2. FirstOf(c, Append(f, r)) \in Seq(N)
    BY <1>2, <1>3, <2>1
  <2> DEFINE x == FirstOf(c, Append(f, r))
             y == EachOf(c, rs)
  <2> HIDE DEF x, y
  <2>3. x \o y \in Seq(N)
    BY <1>4, <2>2 DEF x, y
  <2> QED
    BY <2>1, <2>3 DEF AheadOf, x, y
<1> QED
  BY <1>2, <1>3, <1>4, <1>5 DEF c, N, T

(* What it adds to the document. *)
LEMMA RestOn ==
  ASSUME Typed
  PROVE  \A f \in Seq(Readings), r \in Readings :
           Len(f) + 1 <= Deepest =>
             /\ RestOf(LinesAt, children, f) \in Seq(Node)
             /\ RestOf(LinesAt, children, Append(f, r)) \in Seq(Node)
             /\ RestOf(LinesAt, children, Append(f, r)) =
                  IF f = <<>> THEN <<>>
                  ELSE EachOf(LinesAt[MaxBlockDepth + 1 - Len(f)], Coming(children, r))
                         \o RestOf(LinesAt, children, f)
             /\ f # <<>> =>
                  /\ MaxBlockDepth + 1 - Len(f) \in 0..MaxBlockDepth
                  /\ EachOf(LinesAt[MaxBlockDepth + 1 - Len(f)], Coming(children, r)) \in Seq(Node)
<1> DEFINE c == children
           N == Node
           T == Readings
           F == LinesAt
           D == MaxBlockDepth
<1>1. Makes(c, N, N) /\ T \subseteq Reading(c, N)
  BY RemoteFacts DEF Typed, Readings, Proper
<1>2. \A l \in 0..MaxBlockDepth : Makes(F[l], N, N)
  BY LinesMake
<1>3. Deepest \in Nat /\ Deepest <= D + 2 /\ D \in Nat
  BY PagedSourcesAssumption DEF Deepest
<1> HIDE DEF c, N, T, F
<1> SUFFICES ASSUME NEW f \in Seq(T), NEW r \in T, Len(f) + 1 <= Deepest
             PROVE  /\ RestOf(F, c, f) \in Seq(N) /\ RestOf(F, c, Append(f, r)) \in Seq(N)
                    /\ RestOf(F, c, Append(f, r)) =
                         IF f = <<>> THEN <<>>
                         ELSE EachOf(F[D + 1 - Len(f)], Coming(c, r)) \o RestOf(F, c, f)
                    /\ f # <<>> =>
                         /\ D + 1 - Len(f) \in 0..D
                         /\ EachOf(F[D + 1 - Len(f)], Coming(c, r)) \in Seq(N)
  BY DEF c, N, T, F
<1>4. f \in Seq(Reading(c, N)) /\ r \in Reading(c, N) /\ Len(f) \in Nat
  BY <1>1, SeqMonotonic
<1>5. Len(f) <= MaxBlockDepth + 1
  BY <1>3, <1>4
<1>6. /\ RestOf(F, c, f) \in Seq(N) /\ RestOf(F, c, Append(f, r)) \in Seq(N)
      /\ RestOf(F, c, Append(f, r)) =
           IF f = <<>> THEN <<>>
           ELSE EachOf(F[MaxBlockDepth + 1 - Len(f)], Coming(c, r)) \o RestOf(F, c, f)
  BY <1>1, <1>2, <1>4, <1>5, RestAppend, SMTT(40)
<1>7. ASSUME f # <<>>
      PROVE  D + 1 - Len(f) \in 0..D /\ EachOf(F[D + 1 - Len(f)], Coming(c, r)) \in Seq(N)
  <2>1. Len(f) # 0
    BY <1>7
  <2>2. D + 1 - Len(f) \in 0..D
    BY <1>3, <1>4, <1>5, <2>1
  <2> DEFINE G == F[D + 1 - Len(f)]
             x == Coming(c, r)
  <2>3. x \in Seq(N) /\ Makes(G, N, N)
    BY <1>1, <1>2, <1>4, <2>2, ComingType
  <2> HIDE DEF G, x
  <2>4. EachOf(G, x) \in Seq(N)
    BY <2>3, EachPieces
  <2> QED
    BY <2>2, <2>4 DEF G, x
<1> QED
  BY <1>6, <1>7

-----------------------------------------------------------------------------
(* What is left of a sequence without repetition repeats nothing.           *)
Thins(s, t) == Range(t) \subseteq Range(s) /\ (IsInjective(s) => IsInjective(t))

LEMMA ThinsConcat ==
  ASSUME NEW S, NEW s \in Seq(S), NEW t \in Seq(S), NEW x \in Seq(S), Thins(s, t)
  PROVE  Thins(s \o x, t \o x) /\ Thins(x \o s, x \o t) /\ Thins(s \o x, x)
<1>1. /\ Range(s \o x) = Range(s) \cup Range(x) /\ Range(t \o x) = Range(t) \cup Range(x)
      /\ Range(x \o s) = Range(x) \cup Range(s) /\ Range(x \o t) = Range(x) \cup Range(t)
  BY RangeConcatenation
<1>2. /\ IsInjective(s \o x) <=> IsInjective(s) /\ IsInjective(x) /\ Range(s) \cap Range(x) = {}
      /\ IsInjective(t \o x) <=> IsInjective(t) /\ IsInjective(x) /\ Range(t) \cap Range(x) = {}
      /\ IsInjective(x \o s) <=> IsInjective(x) /\ IsInjective(s) /\ Range(x) \cap Range(s) = {}
      /\ IsInjective(x \o t) <=> IsInjective(x) /\ IsInjective(t) /\ Range(x) \cap Range(t) = {}
  BY InjectiveConcat
<1> QED
  BY <1>1, <1>2 DEF Thins

LEMMA TurnedThins ==
  ASSUME NEW N, NEW c, NEW S, NEW r, NEW q, Turned(c, N, S, r, q)
  PROVE  Thins(Coming(c, r), Coming(c, q))
<1>1. PICK part \in Seq(N), rest \in Seq(N) :
        /\ Coming(c, r) = part \o rest
        /\ Coming(c, q) = EachOf(Kept(S, N), part) \o rest
  BY DEF Turned
<1> DEFINE K == Kept(S, N)
           kept == EachOf(K, part)
<1>2. Makes(K, N, N) /\ Picks(K, N)
  BY KeptPicks
<1> HIDE DEF K
<1>3. kept \in Seq(N) /\ Thins(part, kept)
  BY <1>2, EachPieces, PickedAreThere DEF Thins
<1> HIDE DEF kept
<1>4. Thins(part \o rest, kept \o rest)
  BY <1>3, ThinsConcat
<1> QED
  BY <1>1, <1>4 DEF kept, K

-----------------------------------------------------------------------------
(* Whose documents were yielded, what is in the threads of S, and what the  *)
(* documents say.                                                          *)
Owners(docs) == {docs[i].of : i \in DOMAIN docs}

Members(S) == UNION {Range(children[n]) : n \in S}

AllLines(docs) == FlattenSeq([i \in DOMAIN docs |-> docs[i].lines])

(* What is ahead comes once, has no document yet, and what is in documents  *)
(* is there once, out of the threads of their messages.                    *)
InTurn(ahead, docs) ==
  /\ IsInjective(ahead) /\ Range(ahead) \subseteq Range(Tops(remote))
  /\ Owners(docs) \subseteq Range(Tops(remote)) \ Range(ahead)
  /\ IsInjective(AllLines(docs))
  /\ Range(AllLines(docs)) \subseteq Members(Owners(docs))

(* The message whose thread is read has no document yet, and no reply of it *)
(* that is still to come is in the one being put together.                 *)
Fresh(ahead, docs, doc, of, coming) ==
  /\ doc.of = of /\ of \in Range(Tops(remote)) /\ of \notin Range(ahead) \cup Owners(docs)
  /\ IsInjective(doc.lines \o coming)
  /\ Range(doc.lines) \subseteq Range(children[of])

Apart(docs, doc, st, rs) ==
  Threads =>
    LET ahead == AheadOf(children, st, rs)
    IN  /\ InTurn(ahead, docs)
        /\ Len(st) = 2 => Fresh(ahead, docs, doc, st[2].of, Coming(children, st[2]))

ThreadsAreApart == Apart(documents, document, stack, roots)

LEMMA ThreadFacts ==
  ASSUME Typed, Threads
  PROVE  /\ IsInjective(Tops(remote))
         /\ \A n \in Range(Tops(remote)) :
              /\ IsInjective(children[n])
              /\ \A m \in Range(Tops(remote)) :
                   m # n => Range(children[n]) \cap Range(children[m]) = {}
              /\ ~IsReply(n) => children[n] # <<>> /\ Head(children[n]) = n
<1>1. remote \in {q \in Remotes : q.service = "slack"}
  BY DEF Typed, Threads
<1> QED
  BY <1>1, ThreadsAssumption DEF children, IsReply

LEMMA LinesGrow ==
  ASSUME Typed, NEW d \in DocumentIn(Node, present), d.lines # <<>>
  PROVE  /\ Emit(d) = Append(documents, d)
         /\ AllLines(documents) \in Seq(Node) /\ d.lines \in Seq(Node)
         /\ AllLines(Append(documents, d)) = AllLines(documents) \o d.lines
         /\ Owners(Append(documents, d)) = Owners(documents) \cup {d.of}
<1> DEFINE P == DocumentIn(Node, present)
           G == [e \in P |-> e.lines]
<1>1. documents \in Seq(P)
  <2>1. documents \in Seq(Yielded(Node, present)) /\ Yielded(Node, present) \subseteq P
    BY DEF Typed, Yielded
  <2> HIDE DEF P
  <2> QED
    BY <2>1, SeqMonotonic
<1>2. \A e \in P : e.lines \in Seq(Node)
  <2>1. \A e \in P : e.lines \in Seq(present)
    BY DEF DocumentIn
  <2>2. present \subseteq Node
    BY DEF Typed
  <2> QED
    BY <2>1, <2>2, SeqMonotonic
<1>3. Makes(G, P, Node)
  <2> DEFINE U == Seq(Node)
  <2> HIDE DEF U, P
  <2>1. \A e \in P : e.lines \in U
    BY <1>2 DEF U
  <2> QED
    BY <2>1 DEF Makes, U
<1>4. ASSUME NEW docs \in Seq(P) PROVE AllLines(docs) = EachOf(G, docs)
  <2> DEFINE a == [i \in DOMAIN docs |-> docs[i].lines]
             b == [i \in DOMAIN docs |-> G[docs[i]]]
  <2>1. a = b
    <3> HIDE DEF P
    <3>1. \A i \in DOMAIN docs : docs[i] \in P
      OBVIOUS
    <3> QED
      BY <3>1
  <2> HIDE DEF G
  <2> QED
    BY <2>1 DEF AllLines, EachOf
<1> HIDE DEF P, G
<1>5. d \in P
  BY DEF P
<1>6. Append(documents, d) \in Seq(P)
  BY <1>1, <1>5
<1>7. EachOf(G, Append(documents, d)) = EachOf(G, documents) \o G[d] /\ EachOf(G, documents) \in Seq(Node)
  <2> DEFINE s == documents
  <2> HIDE DEF s
  <2>1. s \in Seq(P)
    BY <1>1 DEF s
  <2>2. EachOf(G, Append(s, d)) = EachOf(G, s) \o G[d]
    BY <1>3, <1>5, <2>1, EachAppend
  <2>3. EachOf(G, s) \in Seq(Node)
    BY <1>3, <2>1, EachPieces
  <2> QED
    BY <2>2, <2>3 DEF s
<1>8. G[d] = d.lines
  BY <1>5 DEF G
<1>9. AllLines(Append(documents, d)) = AllLines(documents) \o d.lines /\ AllLines(documents) \in Seq(Node)
  BY <1>1, <1>4, <1>6, <1>7, <1>8
<1>10. Owners(Append(documents, d)) = Owners(documents) \cup {d.of}
  <2> DEFINE s == Append(documents, d)
  <2>1. /\ DOMAIN s = 1..(Len(documents) + 1) /\ DOMAIN documents = 1..Len(documents)
        /\ Len(documents) \in Nat
        /\ s[Len(documents) + 1] = d /\ \A i \in 1..Len(documents) : s[i] = documents[i]
    BY <1>1, <1>5, AppendProperties
  <2> HIDE DEF s
  <2>2. Owners(s) \subseteq Owners(documents) \cup {d.of}
    <3>1. ASSUME NEW i \in DOMAIN s PROVE s[i].of \in Owners(documents) \cup {d.of}
      <4>1. CASE i = Len(documents) + 1
        BY <2>1, <4>1
      <4>2. CASE i # Len(documents) + 1
        <5>1. i \in DOMAIN documents /\ s[i] = documents[i]
          BY <2>1, <4>2
        <5> QED
          BY <5>1 DEF Owners
      <4> QED
        BY <4>1, <4>2
    <3> QED
      BY <3>1 DEF Owners
  <2>3. d.of \in Owners(s)
    <3>1. Len(documents) + 1 \in DOMAIN s /\ s[Len(documents) + 1].of = d.of
      BY <2>1
    <3> QED
      BY <3>1 DEF Owners
  <2>4. Owners(documents) \subseteq Owners(s)
    <3>1. ASSUME NEW i \in DOMAIN documents PROVE documents[i].of \in Owners(s)
      <4>1. i \in DOMAIN s /\ s[i] = documents[i]
        BY <2>1
      <4> QED
        BY <4>1 DEF Owners
    <3> QED
      BY <3>1 DEF Owners
  <2> QED
    BY <2>2, <2>3, <2>4 DEF s
<1> QED
  BY <1>2, <1>5, <1>9, <1>10 DEF Emit, P

(* A document that is yielded is of a message that had none. *)
LEMMA EmitInTurn ==
  ASSUME Typed, Threads, NEW ahead, InTurn(ahead, documents),
         NEW d \in DocumentIn(Node, present),
         d.of \in Range(Tops(remote)), d.of \notin Range(ahead), d.of \notin Owners(documents),
         IsInjective(d.lines), Range(d.lines) \subseteq Range(children[d.of])
  PROVE  InTurn(ahead, Emit(d))
<1>1. CASE d.lines = <<>>
  BY <1>1 DEF Emit
<1>2. CASE d.lines # <<>>
  <2> DEFINE x == AllLines(documents)
             y == d.lines
             os == Owners(documents)
             tops == Range(Tops(remote))
  <2>1. /\ Emit(d) = Append(documents, d) /\ x \in Seq(Node) /\ y \in Seq(Node)
        /\ AllLines(Emit(d)) = x \o y /\ Owners(Emit(d)) = os \cup {d.of}
    BY <1>2, LinesGrow
  <2>2. /\ IsInjective(ahead) /\ Range(ahead) \subseteq tops
        /\ os \subseteq tops \ Range(ahead)
        /\ IsInjective(x) /\ Range(x) \subseteq Members(os)
    BY DEF InTurn
  <2>3. Range(x) \cap Range(y) = {}
    <3>1. ASSUME NEW n \in os PROVE Range(children[n]) \cap Range(children[d.of]) = {}
      BY <2>2, ThreadFacts
    <3> QED
      BY <2>2, <3>1 DEF Members
  <2> HIDE DEF x, y, os
  <2>4. IsInjective(x \o y) /\ Range(x \o y) = Range(x) \cup Range(y)
    <3>1. IsInjective(y)
      BY DEF y
    <3> QED
      BY <2>1, <2>2, <2>3, <3>1, InjectiveConcat, RangeConcatenation
  <2>5. Range(y) \subseteq Members(os \cup {d.of}) /\ Members(os) \subseteq Members(os \cup {d.of})
    BY DEF Members, y
  <2> QED
    BY <2>1, <2>2, <2>4, <2>5 DEF InTurn
<1> QED
  BY <1>1, <1>2

-----------------------------------------------------------------------------
(* What a step does to what is ahead. *)
LEMMA RootOpened ==
  ASSUME Typed, OpenRoot
  PROVE  /\ AheadOf(children, stack', roots') = AheadOf(children, stack, roots)
         /\ Listing(Head(roots)) \in Readings /\ stack' = Append(<<>>, Listing(Head(roots)))
         /\ roots' \in Seq(Node)
<1> DEFINE h == Head(roots)
           t == Tail(roots)
           c == children
<1>1. stack = <<>> /\ roots # <<>> /\ stack' = <<Listing(h)>> /\ roots' = t
  BY DEF OpenRoot
<1>2. /\ roots \in Seq(Node) /\ t \in Seq(Node) /\ h \in original /\ Makes(c, Node, Node)
      /\ h \in present /\ h \in Node
  BY <1>1, RootsAreNodes DEF Typed
<1>3. Listing(h) \in Readings
  BY <1>2, OpenedReading
<1>4. EachOf(c, roots) = c[h] \o EachOf(c, t)
  <2> HIDE DEF c
  <2> QED
    BY <1>1, <1>2, EachTail
<1>5. Coming(c, Listing(h)) = c[h] /\ c[h] \in Seq(Node)
  <2> HIDE DEF c, h
  <2> QED
    BY <1>2, ComingOpened
<1> DEFINE g == Listing(h)
<1> HIDE DEF g, t, c
<1>6. AheadOf(c, stack', roots') = Coming(c, g) \o EachOf(c, t)
  BY <1>1 DEF AheadOf, FirstOf, g
<1>7. AheadOf(c, stack, roots) = <<>> \o EachOf(c, roots)
  BY <1>1 DEF AheadOf, FirstOf
<1>8. EachOf(c, roots) \in Seq(Node)
  BY <1>2, EachPieces
<1>9. <<>> \o EachOf(c, roots) = EachOf(c, roots)
  BY <1>8, Regroup
<1>10. stack' = Append(<<>>, g)
  BY <1>1 DEF g
<1> QED
  BY <1>1, <1>2, <1>3, <1>4, <1>5, <1>6, <1>7, <1>9, <1>10 DEF g, t, c

LEMMA Taken ==
  ASSUME Typed, Consuming
  PROVE  \E f \in Seq(Readings), r \in Readings, q \in Readings :
           /\ stack = Append(f, r) /\ Consumed = Append(f, q) /\ q.of = r.of
           /\ Level = Len(f) + 1 /\ Len(f) \in Nat /\ Level <= Deepest
           /\ (Level = 1 <=> f = <<>>)
           /\ entry.node \in Range(children[r.of]) \cap present /\ entry.node \in Node
           /\ ~entry.nested => Range(children[entry.node]) \cap original
                                 \subseteq (IF Threads THEN {entry.node} ELSE {})
           /\ Coming(children, r) = <<entry.node>> \o Coming(children, q)
           /\ Coming(children, r) \in Seq(Node) /\ Coming(children, q) \in Seq(Node)
           /\ Listing(entry.node) \in Readings /\ Listing(entry.node).of = entry.node
           /\ Coming(children, Listing(entry.node)) = children[entry.node]
           /\ AheadOf(children, Consumed, roots) \in Seq(Node)
           /\ AheadOf(children, stack, roots)
                = IF f = <<>> THEN <<entry.node>> \o AheadOf(children, Consumed, roots)
                  ELSE AheadOf(children, Consumed, roots)
           /\ AheadOf(children, Append(Consumed, Listing(entry.node)), roots)
                = AheadOf(children, Consumed, roots)
<1>1. PICK f \in Seq(Readings), r \in Readings, q \in Readings :
           /\ stack = Append(f, r) /\ Consumed = Append(f, q) /\ Consumes(r, q)
           /\ r.left # <<>> /\ entry = Head(r.left) /\ entry \in Listed(Node)
           /\ Level = Len(f) + 1 /\ Len(f) \in Nat /\ Level <= Deepest
           /\ (Level = 1 <=> f = <<>>)
           /\ entry.node \in Range(children[r.of]) \cap present /\ entry.node \in Node
           /\ ~entry.nested => Range(children[entry.node]) \cap original
                                 \subseteq (IF Threads THEN {entry.node} ELSE {})
  BY Taking
<1> DEFINE n == entry.node
           c == children
           a == AheadOf(c, Consumed, roots)
<1>2. /\ q.of = r.of /\ Coming(c, q) \in Seq(Node) /\ Coming(c, r) = <<n>> \o Coming(c, q)
      /\ Makes(c, Node, Node) /\ roots \in Seq(Node)
  <2>1. Makes(children, Node, Node) /\ r \in Reading(children, Node) /\ roots \in Seq(Node)
    BY RootsAreNodes DEF Readings, Proper
  <2> QED
    BY <1>1, <2>1, ReadingConsumed
<1>3. Listing(n) \in Readings /\ Listing(n).of = n /\ Coming(c, Listing(n)) = c[n]
  <2>1. Listing(n) \in Readings
    BY <1>1, OpenedReading
  <2>2. n \in Node /\ Makes(c, Node, Node)
    BY <1>1, <1>2
  <2> HIDE DEF n, c
  <2> QED
    BY <2>1, <2>2, ComingOpened
<1> DEFINE x == FirstOf(c, f)
           y == EachOf(c, roots)
           z == Coming(c, q)
<1>4. /\ Coming(c, r) \in Seq(Node) /\ x \in Seq(Node) /\ y \in Seq(Node) /\ z \in Seq(Node)
      /\ a \in Seq(Node) /\ a = (IF f = <<>> THEN z ELSE x) \o y
      /\ AheadOf(c, stack, roots) = (IF f = <<>> THEN Coming(c, r) ELSE x) \o y
  BY <1>1, <1>2, AheadOn
<1>5. AheadOf(c, stack, roots) = IF f = <<>> THEN <<n>> \o a ELSE a
  <2>1. (<<n>> \o z) \o y = <<n>> \o (z \o y)
    <3>1. <<n>> \in Seq(Node) /\ y \in Seq(Node) /\ z \in Seq(Node)
      BY <1>1, <1>4
    <3> DEFINE w == <<n>>
    <3> HIDE DEF w, y, z
    <3>2. w \in Seq(Node) /\ y \in Seq(Node) /\ z \in Seq(Node)
      BY <3>1 DEF w
    <3>3. w \o (z \o y) = (w \o z) \o y
      BY <3>2, Regroup, SMTT(40)
    <3> QED
      BY <3>3 DEF w
  <2> HIDE DEF x, y, z, a
  <2>2. Coming(c, r) = <<n>> \o z
    BY <1>2 DEF z
  <2>3. CASE f = <<>>
    BY <1>4, <2>1, <2>2, <2>3
  <2>4. CASE f # <<>>
    BY <1>4, <2>4
  <2> QED
    BY <2>3, <2>4
<1>6. AheadOf(c, Append(Consumed, Listing(n)), roots) = a
  <2> DEFINE g == Listing(n)
             s == Consumed
  <2>1. s \in Seq(Readings) /\ s # <<>> /\ g \in Readings
    BY <1>1, <1>3, AppendProperties
  <2> HIDE DEF g, s
  <2>2. AheadOf(children, Append(s, g), roots) = FirstOf(children, s) \o EachOf(children, roots)
    BY <1>2, <2>1, AheadOn
  <2> QED
    BY <2>2 DEF AheadOf, g, s
<1> HIDE DEF a, x, y, z
<1>7. /\ AheadOf(children, Consumed, roots) \in Seq(Node)
      /\ AheadOf(children, stack, roots)
           = IF f = <<>> THEN <<entry.node>> \o AheadOf(children, Consumed, roots)
             ELSE AheadOf(children, Consumed, roots)
      /\ AheadOf(children, Append(Consumed, Listing(entry.node)), roots)
           = AheadOf(children, Consumed, roots)
  BY <1>4, <1>5, <1>6 DEF a
<1>8. /\ q.of = r.of /\ Coming(children, r) = <<entry.node>> \o Coming(children, q)
      /\ Coming(children, r) \in Seq(Node) /\ Coming(children, q) \in Seq(Node)
      /\ Listing(entry.node) \in Readings /\ Listing(entry.node).of = entry.node
      /\ Coming(children, Listing(entry.node)) = children[entry.node]
  BY <1>2, <1>3, <1>4 DEF z
<1> HIDE DEF c, n, Level, entry, Consumed
<1> QED
  BY <1>1, <1>7, <1>8

(* A listing that has ended has nothing of the beginning to come. *)
LEMMA EndedAddsNothing ==
  ASSUME Typed, Close
  PROVE  \E f \in Seq(Readings), r \in Readings :
           /\ stack = Append(f, r) /\ stack' = f /\ Level = Len(f) + 1 /\ Len(f) \in Nat
           /\ (Level = 1 <=> f = <<>>) /\ Level <= Deepest
           /\ Coming(children, r) \in Seq(Node)
           /\ \A F : (\A n \in Node : n \notin original => F[n] = <<>>) =>
                       EachOf(F, Coming(children, r)) = <<>>
<1>1. stack # <<>> /\ Top.left = <<>> /\ ~Top.more /\ stack' = Front(stack)
  BY DEF Close
<1>2. PICK f \in Seq(Readings), r \in Readings : stack = Append(f, r)
  BY <1>1, StackHasTop
<1>3. /\ stack' = f /\ Level = Len(f) + 1 /\ Len(f) \in Nat /\ (Level = 1 <=> f = <<>>)
      /\ r.left = <<>> /\ ~r.more /\ Level <= Deepest
  BY <1>1, <1>2, TopOf, SMTT(40) DEF Typed, Level
<1> DEFINE s == Coming(children, r)
<1>4. s \in Seq(Node) /\ Range(s) \cap original = {}
  <2>1. r \in Reading(children, Node) /\ Makes(children, Node, Node)
        /\ Range(After(children, r)) \cap original = {}
    BY <1>3, RemoteFacts DEF Typed, Readings, Proper
  <2> DEFINE N == Node
             c == children
             a == After(c, r)
  <2> HIDE DEF N, c
  <2>2. a \in Seq(N)
    BY <2>1, ComingType DEF N, c
  <2>3. Coming(c, r) = <<>> \o a
    BY <1>3, NodesEmpty DEF Coming
  <2> HIDE DEF a
  <2>4. <<>> \o a = a
    BY <2>2, Regroup
  <2> QED
    BY <2>1, <2>2, <2>3, <2>4 DEF N, c, a
<1>5. ASSUME NEW F, \A n \in Node : n \notin original => F[n] = <<>>
      PROVE  EachOf(F, s) = <<>>
  <2> HIDE DEF s
  <2>1. \A i \in DOMAIN s : F[s[i]] = <<>>
    <3>1. \A i \in DOMAIN s : s[i] \in Node /\ s[i] \in Range(s)
      BY <1>4 DEF Range
    <3> QED
      BY <1>4, <1>5, <3>1
  <2> QED
    BY <1>4, <2>1, EachNothing
<1> QED
  BY <1>2, <1>3, <1>4, <1>5

-----------------------------------------------------------------------------
LEMMA ApartOn ==
  ASSUME Typed
  PROVE  \A f \in Seq(Readings), r \in Readings : \A rs, docs, doc :
           Apart(docs, doc, Append(f, r), rs) <=>
             (Threads =>
               /\ InTurn(AheadOf(children, Append(f, r), rs), docs)
               /\ Len(f) = 1 => Fresh(AheadOf(children, Append(f, r), rs), docs, doc,
                                      r.of, Coming(children, r)))
<1> SUFFICES ASSUME NEW f \in Seq(Readings), NEW r \in Readings, NEW rs, NEW docs, NEW doc
             PROVE  Apart(docs, doc, Append(f, r), rs) <=>
                     (Threads =>
                       /\ InTurn(AheadOf(children, Append(f, r), rs), docs)
                       /\ Len(f) = 1 => Fresh(AheadOf(children, Append(f, r), rs), docs, doc,
                                              r.of, Coming(children, r)))
  OBVIOUS
<1> DEFINE s == Append(f, r)
           m == Len(f)
<1>1. Len(s) = m + 1 /\ s[m + 1] = r /\ m \in Nat
  BY AppendProperties
<1> HIDE DEF s, m
<1>2. (Len(s) = 2 <=> m = 1) /\ (m = 1 => s[2] = r)
  BY <1>1
<1> QED
  BY <1>2 DEF Apart, s, m

LEMMA ApartNext ==
  ASSUME UNCHANGED given, Apart(documents', document', stack', roots')
  PROVE  ThreadsAreApart'
<1>1. children' = children /\ remote' = remote /\ Threads' = Threads
  BY GivenStays DEF given, Threads
<1> QED
  BY <1>1 DEF ThreadsAreApart, Apart, InTurn, Fresh, Members

LEMMA InTurnThins ==
  ASSUME NEW a, NEW b, Thins(a, b), NEW docs, InTurn(a, docs)
  PROVE  InTurn(b, docs)
BY DEF InTurn, Thins

LEMMA ApartInit == Init => ThreadsAreApart
<1> SUFFICES ASSUME Init, Threads PROVE ThreadsAreApart
  BY DEF ThreadsAreApart, Apart
<1>1. Typed /\ stack = <<>> /\ documents = <<>> /\ roots = remote.roots
  BY TypedInit DEF Init
<1>2. AheadOf(children, stack, roots) = Tops(remote)
  <2>1. EachOf(children, roots) = Tops(remote) /\ Tops(remote) \in Seq(Node)
    BY <1>1, PromisesMake
  <2> DEFINE x == EachOf(children, roots)
  <2> HIDE DEF x
  <2>2. <<>> \o x = x
    BY <2>1, Regroup DEF x
  <2> QED
    BY <1>1, <2>1, <2>2 DEF AheadOf, FirstOf, x
<1>3. AllLines(documents) = <<>>
  <2>1. [i \in DOMAIN documents |-> documents[i].lines] = <<>>
    BY <1>1
  <2> QED
    BY <2>1, FlattenEmpty DEF AllLines
<1>4. Owners(documents) = {} /\ Range(<<>>) = {} /\ IsInjective(<<>>)
  BY <1>1 DEF Owners, Range, IsInjective
<1>5. Len(stack) = 0
  BY <1>1
<1> QED
  BY <1>1, <1>2, <1>3, <1>4, <1>5, ThreadFacts DEF ThreadsAreApart, Apart, InTurn

LEMMA ApartAnswered ==
  ASSUME Typed, ThreadsAreApart, Threads, Answered
  PROVE  ThreadsAreApart'
<1>1. PICK f \in Seq(Readings), r \in Readings, q \in Readings :
        /\ stack = Append(f, r) /\ stack' = Append(f, q)
        /\ Turned(children, Node, present, r, q)
        /\ q.of = r.of
  BY AnsweredTop
<1>2. UNCHANGED <<given, roots, document, documents>> /\ roots \in Seq(Node)
  BY RootsAreNodes DEF Answered
<1> DEFINE c == children
           x == Coming(c, r)
           y == Coming(c, q)
           z == EachOf(c, roots)
           a == AheadOf(c, stack, roots)
           b == AheadOf(c, Append(f, q), roots)
<1>3. Thins(x, y)
  BY <1>1, TurnedThins
<1>4. /\ x \in Seq(Node) /\ y \in Seq(Node) /\ z \in Seq(Node)
      /\ a = (IF f = <<>> THEN x ELSE FirstOf(c, f)) \o z
      /\ b = (IF f = <<>> THEN y ELSE FirstOf(c, f)) \o z
  BY <1>1, <1>2, AheadOn
<1>5. /\ InTurn(a, documents)
      /\ Len(f) = 1 => Fresh(a, documents, document, r.of, x)
  BY <1>1, ApartOn DEF ThreadsAreApart
<1> HIDE DEF x, y, z, a, b
<1>6. f = <<>> => Thins(a, b)
  BY <1>3, <1>4, ThinsConcat
<1>7. f # <<>> => a = b
  BY <1>4
<1>8. InTurn(b, documents)
  BY <1>5, <1>6, <1>7, InTurnThins
<1>9. ASSUME Len(f) = 1 PROVE Fresh(b, documents, document, q.of, y)
  <2>1. f # <<>> /\ Fresh(a, documents, document, r.of, x)
    BY <1>5, <1>9
  <2>2. document.lines \in Seq(Node)
    <3>1. document.lines \in Seq(present) /\ present \subseteq Node
      BY DEF Typed, DocumentIn
    <3> QED
      BY <3>1, SeqMonotonic
  <2> DEFINE l == document.lines
  <2> HIDE DEF l
  <2>3. Thins(l \o x, l \o y)
    BY <1>3, <1>4, <2>2, ThinsConcat DEF l
  <2>4. IsInjective(l \o y)
    BY <2>1, <2>3 DEF Fresh, Thins, l
  <2> QED
    BY <1>1, <1>7, <2>1, <2>4 DEF Fresh, l
<1>10. Apart(documents, document, Append(f, q), roots)
  BY <1>8, <1>9, ApartOn DEF b, y
<1> QED
  BY <1>1, <1>2, <1>10, ApartNext

LEMMA ApartOpened ==
  ASSUME Typed, ThreadsAreApart, Threads, OpenRoot
  PROVE  ThreadsAreApart'
<1> DEFINE g == Listing(Head(roots))
           a == AheadOf(children, stack, roots)
<1>1. /\ AheadOf(children, Append(<<>>, g), roots') = a /\ stack' = Append(<<>>, g)
      /\ g \in Readings /\ UNCHANGED <<given, document, documents>>
  BY RootOpened DEF OpenRoot
<1>2. InTurn(a, documents)
  BY DEF ThreadsAreApart, Apart
<1>3. <<>> \in Seq(Readings) /\ Len(<<>>) # 1
  OBVIOUS
<1> HIDE DEF g, a
<1>4. Apart(documents, document, Append(<<>>, g), roots')
  <2> DEFINE f == <<>>
             b == AheadOf(children, Append(f, g), roots')
  <2>1. f \in Seq(Readings) /\ Len(f) # 1 /\ b = a
    BY <1>1, <1>3
  <2> HIDE DEF f
  <2>2. InTurn(b, documents)
    BY <1>2, <2>1
  <2>3. Apart(documents, document, Append(f, g), roots')
    BY <1>1, <2>1, <2>2, ApartOn
  <2> QED
    BY <2>3 DEF f
<1> QED
  BY <1>1, <1>4, ApartNext

LEMMA ApartMessage ==
  ASSUME Typed, ThreadsAreApart, Threads, TakeMessage
  PROVE  ThreadsAreApart'
<1> DEFINE n == entry.node
           a == AheadOf(children, Consumed, roots)
           g == Listing(n)
           d == [of |-> n, lines |-> Own(n)]
           e == [of |-> n, lines |-> <<>>]
<1>1. Consuming /\ Level = 1
  BY DEF TakeMessage
<1>2. PICK f \in Seq(Readings), r \in Readings, q \in Readings :
         /\ stack = Append(f, r) /\ Consumed = Append(f, q)
         /\ (Level = 1 <=> f = <<>>)
         /\ n \in present /\ n \in Node
         /\ g \in Readings /\ g.of = n /\ Coming(children, g) = children[n]
         /\ a \in Seq(Node)
         /\ AheadOf(children, stack, roots) = IF f = <<>> THEN <<n>> \o a ELSE a
         /\ AheadOf(children, Append(Consumed, g), roots) = a
  BY <1>1, Taken
<1>3. f = <<>> /\ AheadOf(children, stack, roots) = <<n>> \o a /\ a = AheadOf(children, Append(f, q), roots)
  BY <1>1, <1>2
<1> DEFINE tops == Range(Tops(remote))
<1>4. InTurn(<<n>> \o a, documents)
  BY <1>3 DEF ThreadsAreApart, Apart
<1>5. InTurn(a, documents) /\ n \in tops /\ n \notin Range(a) /\ n \notin Owners(documents)
  <2> DEFINE w == <<n>>
  <2>1. w \in Seq(Node) /\ Range(w) = {n}
    BY <1>2 DEF Range
  <2> HIDE DEF a, w
  <2>2. Thins(a, a)
    BY DEF Thins
  <2>3. Thins(w \o a, a)
    <3>1. Range(w \o a) = Range(w) \cup Range(a)
      BY <1>2, <2>1, RangeConcatenation
    <3>2. IsInjective(w \o a) => IsInjective(a)
      BY <1>2, <2>1, InjectiveConcat
    <3> QED
      BY <3>1, <3>2 DEF Thins
  <2>4. InTurn(w \o a, documents)
    BY <1>4 DEF w
  <2>5. InTurn(a, documents)
    BY <2>3, <2>4, InTurnThins
  <2>6. Range(w \o a) = {n} \cup Range(a)
    BY <1>2, <2>1, RangeConcatenation
  <2>7. n \notin Range(a)
    BY <1>2, <2>1, <2>4, InjectiveConcat DEF InTurn
  <2> QED
    BY <2>4, <2>5, <2>6, <2>7 DEF InTurn
<1>6. UNCHANGED <<given, roots>>
  BY DEF TakeMessage
<1>7. CASE stack' = Consumed
  <2>1. InTurn(a, documents')
    <3>1. CASE documents' = documents
      BY <1>5, <3>1
    <3>2. CASE documents' # documents
      <4>1. ~IsReply(n) /\ documents' = Emit(d)
        BY <3>2 DEF TakeMessage, Skipped
      <4>2. n \in Range(children[n])
        <5>1. children[n] # <<>> /\ Head(children[n]) = n
          BY <1>5, <4>1, ThreadFacts
        <5>2. children[n] \in Seq(Node)
          BY <1>2, RemoteFacts DEF Typed
        <5>3. 1 \in DOMAIN children[n] /\ children[n][1] = n
          BY <5>1, <5>2
        <5> QED
          BY <5>3 DEF Range
      <4>3. IsInjective(Own(n)) /\ Range(Own(n)) \subseteq Range(children[n])
        <5>1. Own(n) = <<>> \/ Own(n) = <<n>>
          BY DEF Own
        <5>2. /\ IsInjective(<<>>) /\ Range(<<>>) = {}
              /\ IsInjective(<<n>>) /\ Range(<<n>>) = {n}
          BY DEF IsInjective, Range
        <5> QED
          BY <4>2, <5>1, <5>2
      <4>4. d \in DocumentIn(Node, present) /\ d.of = n /\ d.lines = Own(n)
        BY <1>2, LinesMore
      <4> HIDE DEF d, a, n
      <4>5. InTurn(a, Emit(d))
        BY <1>5, <4>3, <4>4, EmitInTurn
      <4> QED
        BY <4>1, <4>5
    <3> QED
      BY <3>1, <3>2
  <2> DEFINE b == AheadOf(children, Append(f, q), roots)
  <2>2. InTurn(b, documents') /\ Len(f) # 1
    <3>1. Len(<<>>) # 1
      OBVIOUS
    <3> QED
      BY <1>3, <2>1, <3>1
  <2> HIDE DEF a
  <2>3. Apart(documents', document', Append(f, q), roots)
    BY <2>2, ApartOn
  <2> QED
    BY <1>2, <1>6, <1>7, <2>3, ApartNext
<1>8. CASE stack' # Consumed
  <2>1. /\ ~IsReply(n) /\ stack' = Append(Consumed, g) /\ document' = e /\ documents' = documents
    BY <1>8 DEF TakeMessage, Skipped
  <2> DEFINE s == Append(f, q)
             b == AheadOf(children, Append(s, g), roots)
  <2>2. s \in Seq(Readings) /\ Len(s) = 1 /\ b = a
    <3>1. s \in Seq(Readings) /\ Len(s) = Len(f) + 1
      BY AppendProperties
    <3>2. Len(<<>>) = 0
      OBVIOUS
    <3> QED
      BY <1>2, <1>3, <3>1, <3>2
  <2>3. Fresh(b, documents, e, g.of, Coming(children, g))
    <3>1. <<>> \o children[n] = children[n] /\ IsInjective(children[n]) /\ Range(<<>>) = {}
      <4>1. children[n] \in Seq(Node)
        BY <1>2, RemoteFacts DEF Typed
      <4> QED
        BY <1>5, <4>1, ThreadFacts DEF Range
    <3>2. e.of = n /\ e.lines = <<>>
      OBVIOUS
    <3> HIDE DEF e, g, n, a, b
    <3> QED
      BY <1>2, <1>5, <2>2, <3>1, <3>2 DEF Fresh
  <2> HIDE DEF s, e, g, a
  <2>4. Apart(documents, e, Append(s, g), roots)
    BY <1>2, <1>5, <2>2, <2>3, ApartOn
  <2> QED
    BY <1>2, <1>6, <2>1, <2>4, ApartNext DEF s
<1> QED
  BY <1>7, <1>8

LEMMA ApartReply ==
  ASSUME Typed, ThreadsAreApart, Threads, TakeReply
  PROVE  ThreadsAreApart'
<1> DEFINE n == entry.node
           a == AheadOf(children, Consumed, roots)
           e == [document EXCEPT !.lines = @ \o Own(n)]
<1>1. Consuming /\ Level > 1
  BY DEF TakeReply
<1>2. PICK f \in Seq(Readings), r \in Readings, q \in Readings :
         /\ stack = Append(f, r) /\ Consumed = Append(f, q) /\ q.of = r.of
         /\ Level = Len(f) + 1 /\ Len(f) \in Nat /\ Level <= Deepest
         /\ (Level = 1 <=> f = <<>>)
         /\ n \in Range(children[r.of]) /\ n \in Node /\ n \in present
         /\ Coming(children, r) = <<n>> \o Coming(children, q)
         /\ Coming(children, r) \in Seq(Node) /\ Coming(children, q) \in Seq(Node)
         /\ AheadOf(children, stack, roots)
              = IF f = <<>> THEN <<n>> \o AheadOf(children, Consumed, roots)
                ELSE AheadOf(children, Consumed, roots)
  BY <1>1, Taken
<1>3. Len(f) = 1 /\ AheadOf(children, stack, roots) = a /\ a = AheadOf(children, Append(f, q), roots)
  <2>1. Deepest = 2
    BY DEF Deepest, Threads
  <2>2. Len(f) = 1 /\ f # <<>>
    <3> HIDE DEF Level
    <3> QED
      BY <1>1, <1>2, <2>1
  <2> QED
    BY <1>2, <2>2
<1> DEFINE x == document.lines
           y == Coming(children, q)
           w == <<n>>
<1>4. InTurn(a, documents) /\ Fresh(a, documents, document, r.of, w \o y)
  <2>1. Fresh(AheadOf(children, Append(f, r), roots), documents, document,
              r.of, Coming(children, r))
        /\ InTurn(AheadOf(children, Append(f, r), roots), documents)
    BY <1>2, <1>3, ApartOn DEF ThreadsAreApart
  <2> QED
    BY <1>2, <1>3, <2>1
<1>5. x \in Seq(Node) /\ w \in Seq(Node) /\ y \in Seq(Node) /\ Own(n) \in {<<>>, w}
  <2>1. x \in Seq(present) /\ present \subseteq Node
    BY DEF Typed, DocumentIn
  <2>2. x \in Seq(Node)
    BY <2>1, SeqMonotonic
  <2> QED
    BY <1>2, <2>2 DEF Own
<1>6. e.of = document.of /\ e.lines = x \o Own(n)
  BY DEF Typed, DocumentIn
<1>7. Fresh(a, documents, e, q.of, y)
  <2>1. Range(w) \subseteq Range(children[q.of])
    <3>1. Range(w) = {n}
      BY DEF Range
    <3> QED
      BY <1>2, <3>1
  <2> HIDE DEF x, y, w, a, e
  <2>2. /\ e.of = q.of /\ q.of \in Range(Tops(remote)) /\ q.of \notin Range(a) \cup Owners(documents)
        /\ IsInjective(x \o (w \o y)) /\ Range(x) \subseteq Range(children[q.of])
    BY <1>2, <1>4, <1>6 DEF Fresh, x
  <2>3. x \o (w \o y) = (x \o w) \o y /\ x \o <<>> = x /\ x \o w \in Seq(Node)
        /\ w \o y \in Seq(Node)
    BY <1>5, Regroup
  <2>4. Thins(w \o y, y)
    <3>1. Range(w \o y) = Range(w) \cup Range(y)
      BY <1>5, RangeConcatenation
    <3>2. IsInjective(w \o y) => IsInjective(y)
      BY <1>5, InjectiveConcat
    <3> QED
      BY <3>1, <3>2 DEF Thins
  <2>5. Thins(x \o (w \o y), x \o y)
    BY <1>5, <2>3, <2>4, ThinsConcat
  <2>6. IsInjective(x \o y) /\ IsInjective((x \o w) \o y)
    BY <2>2, <2>3, <2>5 DEF Thins
  <2>7. Range(x \o w) = Range(x) \cup Range(w)
    BY <1>5, RangeConcatenation
  <2>8. IsInjective(e.lines \o y) /\ Range(e.lines) \subseteq Range(children[q.of])
    <3>1. CASE Own(n) = <<>>
      BY <1>6, <2>2, <2>3, <2>6, <3>1
    <3>2. CASE Own(n) = w
      BY <1>6, <2>1, <2>2, <2>6, <2>7, <3>2
    <3> QED
      BY <1>5, <3>1, <3>2
  <2> QED
    BY <2>2, <2>8 DEF Fresh
<1>8. stack' = Append(f, q) /\ document' = e /\ UNCHANGED <<given, roots, documents>>
  BY <1>2 DEF TakeReply
<1> DEFINE b == AheadOf(children, Append(f, q), roots)
<1>9. InTurn(b, documents) /\ Fresh(b, documents, e, q.of, Coming(children, q))
  BY <1>3, <1>4, <1>7
<1> HIDE DEF a, e, b
<1>10. Apart(documents, e, Append(f, q), roots)
  BY <1>9, ApartOn DEF b
<1> QED
  BY <1>8, <1>10, ApartNext

LEMMA ApartClosed ==
  ASSUME Typed, ThreadsAreApart, Threads, Close
  PROVE  ThreadsAreApart'
<1>1. PICK f \in Seq(Readings), r \in Readings :
           /\ stack = Append(f, r) /\ stack' = f /\ Level = Len(f) + 1 /\ Len(f) \in Nat
           /\ (Level = 1 <=> f = <<>>) /\ Level <= Deepest
           /\ Coming(children, r) \in Seq(Node)
  BY EndedAddsNothing
<1>2. /\ UNCHANGED <<given, roots, document>> /\ roots \in Seq(Node)
      /\ documents' = IF Level = 2 THEN Emit(document) ELSE documents
  BY RootsAreNodes DEF Close
<1>3. Len(f) \in {0, 1} /\ (Level = 2 <=> Len(f) = 1) /\ (f = <<>> <=> Len(f) = 0)
  <2>1. Deepest = 2
    BY DEF Deepest, Threads
  <2> DEFINE m == Len(f)
             l == Level
  <2>2. l = m + 1 /\ m \in Nat /\ (l = 1 <=> f = <<>>) /\ l <= 2
    BY <1>1, <2>1
  <2> HIDE DEF m, l
  <2>3. m \in {0, 1} /\ (l = 2 <=> m = 1) /\ (f = <<>> <=> m = 0)
    BY <2>2
  <2> QED
    BY <2>3 DEF m, l
<1> DEFINE c == children
           z == EachOf(c, roots)
           x == Coming(c, r)
           a == AheadOf(c, stack, roots)
           b == AheadOf(c, f, roots)
<1>4. /\ x \in Seq(Node) /\ z \in Seq(Node) /\ FirstOf(c, f) \in Seq(Node)
      /\ a = (IF f = <<>> THEN x ELSE FirstOf(c, f)) \o z
  BY <1>1, <1>2, AheadOn
<1>5. b = FirstOf(c, f) \o z /\ (f = <<>> => FirstOf(c, f) = <<>>)
  BY DEF AheadOf, FirstOf
<1>6. InTurn(a, documents) /\ (Len(f) = 1 => Fresh(a, documents, document, r.of, x))
  BY <1>1, ApartOn DEF ThreadsAreApart
<1> HIDE DEF c, z, x, a, b, Level
<1>7. CASE Len(f) = 0
  <2>1. a = x \o z /\ b = z
    <3>1. <<>> \o z = z
      BY <1>4, Regroup
    <3> QED
      BY <1>3, <1>4, <1>5, <1>7, <3>1
  <2>2. Thins(z, z)
    BY DEF Thins
  <2>3. Thins(a, b)
    <3>1. Range(x \o z) = Range(x) \cup Range(z)
      BY <1>4, RangeConcatenation
    <3>2. IsInjective(x \o z) => IsInjective(z)
      BY <1>4, InjectiveConcat
    <3> QED
      BY <2>1, <3>1, <3>2 DEF Thins
  <2>4. InTurn(b, documents)
    BY <1>6, <2>3, InTurnThins
  <2>5. documents' = documents
    BY <1>2, <1>3, <1>7
  <2>6. Apart(documents, document, f, roots)
    BY <1>7, <2>4 DEF Apart, b, c
  <2> QED
    BY <1>1, <1>2, <2>5, <2>6, ApartNext
<1>8. CASE Len(f) = 1
  <2>1. a = b /\ documents' = Emit(document) /\ Fresh(a, documents, document, r.of, x)
    BY <1>2, <1>3, <1>4, <1>5, <1>6, <1>8
  <2>2. document \in DocumentIn(Node, present) /\ document.lines \in Seq(Node)
    <3>1. document \in DocumentIn(Node, present) /\ document.lines \in Seq(present)
          /\ present \subseteq Node
      BY DEF Typed, DocumentIn
    <3> QED
      BY <3>1, SeqMonotonic
  <2>3. IsInjective(document.lines)
    BY <1>4, <2>1, <2>2, InjectiveConcat DEF Fresh
  <2>4. InTurn(b, Emit(document))
    BY <1>6, <2>1, <2>2, <2>3, EmitInTurn DEF Fresh
  <2>5. Apart(documents', document, f, roots)
    BY <1>8, <2>1, <2>4 DEF Apart, b, c
  <2> QED
    BY <1>1, <1>2, <2>5, ApartNext
<1> QED
  BY <1>3, <1>7, <1>8

LEMMA ApartStep == Typed /\ ThreadsAreApart /\ [Next]_vars => ThreadsAreApart'
<1> SUFFICES ASSUME Typed, ThreadsAreApart, [Next]_vars PROVE ThreadsAreApart'
  OBVIOUS
<1>1. CASE Threads /\ Fetch /\ UNCHANGED <<given, roots, stack, document, documents>>
  <2>1. Apart(documents', document', stack', roots')
    BY <1>1 DEF ThreadsAreApart
  <2> QED
    BY <1>1, <2>1, ApartNext
<1>2. CASE Threads /\ Fetch /\ ~UNCHANGED <<given, roots, stack, document, documents>>
  <2>1. ~Throttled /\ ~Refused /\ ~Finish /\ ~OpenPage /\ ~TakeBlock
    BY <1>2 DEF Throttled, Refused, Finish, OpenPage, TakeBlock, Threads
  <2> QED
    BY <1>2, <2>1, ApartAnswered, ApartOpened, ApartMessage, ApartReply, ApartClosed DEF Fetch
<1>3. ASSUME Threads, UNCHANGED <<given, roots, stack, document, documents>> PROVE ThreadsAreApart'
  <2>1. Apart(documents', document', stack', roots')
    BY <1>3 DEF ThreadsAreApart
  <2> QED
    BY <1>3, <2>1, ApartNext
<1>4. CASE ~Threads
  <2>1. UNCHANGED given
    BY DEF Next, Fetch, vars, Throttled, Refused, Answered, OpenRoot, OpenPage, TakeBlock,
           TakeMessage, TakeReply, Close, Finish, Write
  <2>2. Apart(documents', document', stack', roots')
    BY <1>4 DEF Apart
  <2> QED
    BY <2>1, <2>2, ApartNext
<1>5. Fetch \/ UNCHANGED <<given, roots, stack, document, documents>>
  BY DEF Next, Write, vars
<1> QED
  BY <1>1, <1>2, <1>3, <1>4, <1>5

LEMMA ApartHolds == Spec => [](Typed /\ ThreadsAreApart)
<1>1. Init => Typed /\ ThreadsAreApart
  BY TypedInit, ApartInit
<1>2. Typed /\ ThreadsAreApart /\ [Next]_vars => (Typed /\ ThreadsAreApart)'
  BY TypedStep, ApartStep
<1> QED
  BY <1>1, <1>2, PTL DEF Spec

(* However a channel is cut into pages, and whatever is written while it is *)
(* read, no message of Slack is in two documents or twice in one.          *)
THEOREM NoMessageIsTwice == Spec => []NoMessageTwice
<1>1. Spec => [](Typed /\ ThreadsAreApart)
  BY ApartHolds
<1>2. Typed /\ ThreadsAreApart => NoMessageTwice
  BY DEF NoMessageTwice, ThreadsAreApart, Apart, Threads, InTurn, AllLines
<1> QED
  BY <1>1, <1>2, PTL

-----------------------------------------------------------------------------
(* What the document in hand will say, if the walk goes on. *)
Seen(docs) == FlattenSeq([i \in DOMAIN docs |-> Remaining(docs[i])])

HandOf(doc, st) ==
  IF Len(st) >= 2
    THEN Whole(doc.of, Among(doc.lines, original) \o RestOf(LinesAt, children, st))
    ELSE <<>>

Balance(docs, doc, st, rs) ==
  Expected = (Seen(docs) \o HandOf(doc, st)) \o EachOf(Promises, AheadOf(children, st, rs))

(* What was promised is what was yielded, is in hand, or is ahead. *)
PromiseHolds == Balance(documents, document, stack, roots)

LEMMA BalanceNext ==
  ASSUME UNCHANGED given, Balance(documents', document', stack', roots')
  PROVE  PromiseHolds'
<1>1. /\ children' = children /\ remote' = remote /\ original' = original
      /\ Expected' = Expected /\ LinesAt' = LinesAt /\ Node' = Node /\ Below' = Below
  BY GivenStays DEF given
<1>2. Promises' = Promises
  BY <1>1 DEF Promises, Promised, Outline, Own, Skipped, IsReply, Threaded
<1>3. HandOf(document, stack)' = HandOf(document', stack')
  BY <1>1 DEF HandOf, Whole, Among, RestOf, Pieces, Coming, After, Nodes
<1>4. Seen(documents)' = Seen(documents')
  BY <1>1 DEF Seen, Remaining, Among
<1>5. AheadOf(children, stack, roots)' = AheadOf(children, stack', roots')
  BY <1>1
<1> QED
  BY <1>1, <1>2, <1>3, <1>4, <1>5 DEF PromiseHolds, Balance

LEMMA SeenGrows ==
  ASSUME Typed
  PROVE  /\ Seen(documents) \in Seq(Written)
         /\ \A d \in DocumentIn(Node, present) :
              /\ d.of \in Node /\ d.lines \in Seq(Node)
              /\ Remaining(d) = Whole(d.of, Among(d.lines, original))
              /\ Remaining(d) \in Seq(Written)
              /\ Seen(Emit(d)) = Seen(documents) \o Remaining(d)
<1> DEFINE P == DocumentIn(Node, present)
           G == [e \in P |-> Remaining(e)]
<1>1. documents \in Seq(P)
  <2>1. documents \in Seq(Yielded(Node, present)) /\ Yielded(Node, present) \subseteq P
    BY DEF Typed, Yielded
  <2> HIDE DEF P
  <2> QED
    BY <2>1, SeqMonotonic
<1>2. ASSUME NEW d \in P
      PROVE  /\ d.of \in Node /\ d.lines \in Seq(Node)
             /\ Remaining(d) = Whole(d.of, Among(d.lines, original))
             /\ Remaining(d) \in Seq(Written)
  <2>1. d.lines \in Seq(present) /\ present \subseteq Node /\ d.of \in Node
    BY DEF DocumentIn, Typed
  <2>2. d.lines \in Seq(Node)
    BY <2>1, SeqMonotonic
  <2>3. Remaining(d) = Whole(d.of, Among(d.lines, original))
    BY DEF Remaining, Whole
  <2>4. Among(d.lines, original) \in Seq(Node)
    BY <2>2, AmongIsKept
  <2> QED
    BY <2>1, <2>2, <2>3, <2>4, WholeType
<1>3. Makes(G, P, Written)
  <2> DEFINE U == Seq(Written)
  <2> HIDE DEF U, P
  <2>1. \A e \in P : Remaining(e) \in U
    BY <1>2 DEF U
  <2> QED
    BY <2>1 DEF Makes, U
<1>4. ASSUME NEW docs \in Seq(P) PROVE Seen(docs) = EachOf(G, docs)
  <2> DEFINE a == [i \in DOMAIN docs |-> Remaining(docs[i])]
             b == [i \in DOMAIN docs |-> G[docs[i]]]
  <2>1. a = b
    <3> HIDE DEF P
    <3>1. \A i \in DOMAIN docs : docs[i] \in P
      OBVIOUS
    <3> QED
      BY <3>1
  <2> HIDE DEF G
  <2> QED
    BY <2>1 DEF Seen, EachOf
<1>5. \A e \in P : G[e] = Remaining(e)
  OBVIOUS
<1> HIDE DEF P, G
<1>6. Seen(documents) \in Seq(Written)
  BY <1>1, <1>3, <1>4, EachPieces
<1>7. ASSUME NEW d \in P PROVE Seen(Emit(d)) = Seen(documents) \o Remaining(d)
  <2>1. CASE d.lines = <<>>
    <3>1. Remaining(d) = <<>>
      <4>1. Among(d.lines, original) = <<>>
        BY <2>1, AmongIsKept
      <4> QED
        BY <1>2, <4>1 DEF Whole
    <3> DEFINE x == Seen(documents)
    <3> HIDE DEF x
    <3>2. x \o <<>> = x
      BY <1>6, Regroup DEF x
    <3> QED
      BY <2>1, <3>1, <3>2 DEF Emit, x
  <2>2. CASE d.lines # <<>>
    <3> DEFINE s == documents
    <3>1. s \in Seq(P) /\ Append(s, d) \in Seq(P)
      BY <1>1
    <3> HIDE DEF s
    <3>2. EachOf(G, Append(s, d)) = EachOf(G, s) \o G[d]
      BY <1>3, <3>1, EachAppend
    <3> QED
      BY <1>4, <1>5, <2>2, <3>1, <3>2 DEF Emit, s
  <2> QED
    BY <2>1, <2>2
<1> QED
  BY <1>2, <1>6, <1>7 DEF P

LEMMA HandOn ==
  ASSUME Typed
  PROVE  \A f \in Seq(Readings), r \in Readings : \A doc \in DocumentIn(Node, present) :
           Len(f) + 1 <= Deepest =>
             /\ HandOf(doc, Append(f, r)) =
                  IF f = <<>> THEN <<>>
                  ELSE Whole(doc.of, Among(doc.lines, original)
                                       \o RestOf(LinesAt, children, Append(f, r)))
             /\ HandOf(doc, Append(f, r)) \in Seq(Written)
<1> SUFFICES ASSUME NEW f \in Seq(Readings), NEW r \in Readings,
                    NEW doc \in DocumentIn(Node, present), Len(f) + 1 <= Deepest
             PROVE  /\ HandOf(doc, Append(f, r)) =
                         IF f = <<>> THEN <<>>
                         ELSE Whole(doc.of, Among(doc.lines, original)
                                              \o RestOf(LinesAt, children, Append(f, r)))
                    /\ HandOf(doc, Append(f, r)) \in Seq(Written)
  OBVIOUS
<1> DEFINE s == Append(f, r)
           m == Len(f)
           x == Among(doc.lines, original)
           y == RestOf(LinesAt, children, s)
<1>1. Len(s) = m + 1 /\ m \in Nat
  BY AppendProperties
<1>2. f = <<>> <=> m = 0
  OBVIOUS
<1>3. doc.of \in Node /\ x \in Seq(Node) /\ y \in Seq(Node)
  <2>1. doc.of \in Node /\ doc.lines \in Seq(Node)
    BY SeenGrows
  <2>2. x \in Seq(Node)
    BY <2>1, AmongIsKept
  <2>3. y \in Seq(Node)
    BY RestOn
  <2> QED
    BY <2>1, <2>2, <2>3
<1> HIDE DEF s, m, x, y
<1>4. x \o y \in Seq(Node)
  BY <1>3, Regroup
<1>5. Whole(doc.of, x \o y) \in Seq(Written)
  BY <1>3, <1>4, WholeType
<1>6. HandOf(doc, s) = IF f = <<>> THEN <<>> ELSE Whole(doc.of, x \o y)
  BY <1>1, <1>2 DEF HandOf, x, y
<1>7. <<>> \in Seq(Written)
  OBVIOUS
<1> QED
  BY <1>5, <1>6, <1>7 DEF s, x, y

(* The document that the page or message n is to have, as it will be read.  *)
LEMMA PromiseOf ==
  ASSUME Typed, NEW n \in present
  PROVE  /\ ~Threads => Promises[n] = Whole(n, Among(Own(n), original) \o Below[MaxBlockDepth][n])
         /\ Threads /\ ~Skipped(n) => Promises[n] = Whole(n, Below[MaxBlockDepth][n])
         /\ Threads /\ Skipped(n) => Promises[n] = <<>>
         /\ Promises[n] \in Seq(Written)
         /\ Below[MaxBlockDepth][n] \in Seq(Node)
         /\ Below[MaxBlockDepth][n] = EachOf(LinesAt[MaxBlockDepth], children[n])
<1> DEFINE D == MaxBlockDepth
           b == Below[D][n]
<1>1. n \in Node /\ D \in 0..D /\ original \subseteq Node
  BY PagedSourcesAssumption DEF Typed
<1>2. b \in Seq(Node) /\ b = EachOf(LinesAt[D], children[n])
      /\ (Range(children[n]) \cap original = {} => b = <<>>)
  BY <1>1, NothingBelow
<1>3. Promises[n] \in Seq(Written)
  BY <1>1, PromisesMake DEF Makes
<1> HIDE DEF b
<1>4. <<>> \o b = b /\ <<>> \o <<>> = <<>>
  <2>1. <<>> \o b = b
    BY <1>2, Regroup
  <2>2. <<>> \o <<>> = <<>>
    OBVIOUS
  <2> QED
    BY <2>1, <2>2
<1>5. CASE n \in original
  <2>1. Promises[n] = IF Threads /\ Skipped(n) THEN <<>> ELSE Whole(n, Outline(n))
    BY <1>5, PromisesMake
  <2>2. Outline(n) = IF Threads THEN b ELSE Own(n) \o b
    <3>1. remote.service \in {"notion", "slack"}
      BY RemoteFacts DEF Typed
    <3> QED
      BY <1>4, <3>1 DEF Outline, Threads, b
  <2>3. Among(Own(n), original) = Own(n)
    BY <1>1, <1>5, AmongIsKept
  <2> QED
    BY <1>2, <1>3, <2>1, <2>2, <2>3 DEF b
<1>6. CASE n \notin original
  <2>1. Promises[n] = <<>>
    BY <1>1, <1>6, PromisesMake
  <2>2. b = <<>>
    BY <1>2, <1>6 DEF Typed
  <2>3. Among(Own(n), original) = <<>>
    BY <1>1, <1>6, AmongIsKept
  <2>4. Whole(n, <<>>) = <<>>
    BY DEF Whole
  <2> QED
    BY <1>2, <1>3, <1>4, <2>1, <2>2, <2>3, <2>4 DEF b
<1> QED
  BY <1>5, <1>6

(* A message that no reply was listed to is a document of one line. *)
LEMMA MessageAlone ==
  ASSUME Typed, Threads, NEW n \in present, n \in Range(Tops(remote)), ~Skipped(n),
         Range(children[n]) \cap original \subseteq {n}
  PROVE  Promises[n] = Whole(n, Among(Own(n), original))
<1> DEFINE D == MaxBlockDepth
           F == LinesAt[D]
           s == children[n]
           t == Tail(s)
<1>1. n \in Node /\ D \in 0..D
  BY PagedSourcesAssumption DEF Typed
<1>2. Promises[n] = Whole(n, EachOf(F, s))
  BY PromiseOf
<1>3. s \in Seq(Node) /\ s # <<>> /\ Head(s) = n /\ IsInjective(s)
  <2>1. s \in Seq(Node)
    BY <1>1, RemoteFacts DEF Typed
  <2> QED
    BY <2>1, ThreadFacts DEF Skipped
<1>4. /\ Makes(F, Node, Node)
      /\ \A m \in Node : m \notin original => F[m] = <<>>
      /\ F[n] = IF n \notin original THEN <<>> ELSE Own(n) \o <<>>
  BY <1>1, LinesMake
<1> HIDE DEF F, s
<1>5. EachOf(F, s) = F[n] \o EachOf(F, t)
  <2>1. s \in Seq(Node) /\ s # <<>> /\ Makes(F, Node, Node)
    BY <1>3, <1>4
  <2>2. EachOf(F, s) = F[Head(s)] \o EachOf(F, Tail(s))
    BY <2>1, EachTail
  <2> QED
    BY <1>3, <2>2
<1>6. t \in Seq(Node) /\ Range(s) = {n} \cup Range(t) /\ n \notin Range(t)
  <2>1. t \in Seq(Node)
    BY <1>3
  <2> QED
    BY <1>3, <2>1, TailOfInjective
<1> HIDE DEF t
<1>7. EachOf(F, t) = <<>>
  <2>1. \A i \in DOMAIN t : t[i] \in Range(t) /\ t[i] \in Node
    BY <1>6 DEF Range
  <2>2. Range(t) \cap original = {}
    BY <1>6 DEF s
  <2>3. \A i \in DOMAIN t : F[t[i]] = <<>>
    BY <1>4, <2>1, <2>2
  <2> QED
    BY <1>6, <2>3, EachNothing
<1>8. F[n] \o <<>> = F[n] /\ Own(n) \o <<>> = Own(n)
  <2>1. F[n] \in Seq(Node) /\ Own(n) \in Seq(Node)
    BY <1>1, <1>4, RemoteFacts DEF Makes, Typed
  <2> DEFINE x == F[n]
             y == Own(n)
  <2> HIDE DEF x, y
  <2>2. x \o <<>> = x /\ y \o <<>> = y
    BY <2>1, Regroup DEF x, y
  <2> QED
    BY <2>2 DEF x, y
<1>9. Among(Own(n), original) = IF n \in original THEN Own(n) ELSE <<>>
  BY <1>1, AmongIsKept
<1>10. EachOf(F, s) = F[n]
  BY <1>5, <1>7, <1>8
<1>11. F[n] = Among(Own(n), original)
  BY <1>4, <1>8, <1>9
<1> QED
  BY <1>2, <1>10, <1>11

-----------------------------------------------------------------------------
LEMMA PromiseInit == Init => PromiseHolds
<1> SUFFICES ASSUME Init PROVE PromiseHolds
  OBVIOUS
<1>1. Typed /\ stack = <<>> /\ documents = <<>> /\ roots = remote.roots
  BY TypedInit DEF Init
<1>2. /\ Expected = EachOf(Promises, Tops(remote)) /\ Tops(remote) \in Seq(Node)
      /\ Tops(remote) = EachOf(children, roots) /\ Makes(Promises, Node, Written)
  BY <1>1, PromisesMake
<1>3. Seen(documents) = <<>>
  <2>1. [i \in DOMAIN documents |-> Remaining(documents[i])] = <<>>
    BY <1>1
  <2> QED
    BY <2>1, FlattenEmpty DEF Seen
<1>4. HandOf(document, stack) = <<>>
  <2>1. Len(stack) = 0
    BY <1>1
  <2> QED
    BY <2>1 DEF HandOf
<1> DEFINE x == Tops(remote)
           y == EachOf(Promises, x)
<1>5. x \in Seq(Node) /\ AheadOf(children, stack, roots) = <<>> \o x
  BY <1>1, <1>2 DEF AheadOf, FirstOf
<1> HIDE DEF x
<1>6. y \in Seq(Written)
  BY <1>2, <1>5, EachPieces
<1>7. Expected = y
  BY <1>2 DEF x
<1>8. AheadOf(children, stack, roots) = x
  BY <1>5, Regroup
<1>9. EachOf(Promises, AheadOf(children, stack, roots)) = y
  BY <1>8
<1> HIDE DEF y
<1>10. (<<>> \o <<>>) \o y = y
  <2>1. <<>> \o <<>> = <<>>
    OBVIOUS
  <2> QED
    BY <1>6, <2>1, Regroup
<1> QED
  BY <1>3, <1>4, <1>7, <1>9, <1>10 DEF PromiseHolds, Balance

LEMMA PromiseAnswered ==
  ASSUME Typed, PromiseHolds, Answered
  PROVE  PromiseHolds'
<1>1. PICK f \in Seq(Readings), r \in Readings, q \in Readings :
        /\ stack = Append(f, r) /\ stack' = Append(f, q)
        /\ Turned(children, Node, present, r, q)
        /\ q.of = r.of
  BY AnsweredTop
<1>2. UNCHANGED <<given, roots, document, documents>> /\ roots \in Seq(Node)
  BY RootsAreNodes DEF Answered
<1>3. Len(f) + 1 <= Deepest /\ document \in DocumentIn(Node, present) /\ original \subseteq present
  <2>1. Len(stack) = Len(f) + 1
    BY <1>1, AppendProperties
  <2> QED
    BY <2>1 DEF Typed
<1> DEFINE c == children
           x == Coming(c, r)
           y == Coming(c, q)
           z == EachOf(c, roots)
           P == Promises
<1>4. /\ x \in Seq(Node) /\ y \in Seq(Node) /\ z \in Seq(Node)
      /\ AheadOf(c, Append(f, r), roots) = (IF f = <<>> THEN x ELSE FirstOf(c, f)) \o z
      /\ AheadOf(c, Append(f, q), roots) = (IF f = <<>> THEN y ELSE FirstOf(c, f)) \o z
  BY <1>2, AheadOn
<1>5. Makes(P, Node, Written) /\ \A n \in Node \ present : P[n] = <<>>
  BY <1>3, PromisesMake
<1>6. EachOf(P, AheadOf(c, Append(f, q), roots)) = EachOf(P, AheadOf(c, Append(f, r), roots))
  <2>1. EachOf(P, y) = EachOf(P, x)
    <3> HIDE DEF P
    <3> QED
      BY <1>1, <1>5, SameAdds
  <2> HIDE DEF x, y, z, P, c
  <2>2. EachOf(P, y \o z) = EachOf(P, y) \o EachOf(P, z)
    BY <1>4, <1>5, EachConcat
  <2>3. EachOf(P, x \o z) = EachOf(P, x) \o EachOf(P, z)
    BY <1>4, <1>5, EachConcat
  <2> QED
    BY <1>4, <2>1, <2>2, <2>3
<1>7. HandOf(document, Append(f, q)) = HandOf(document, Append(f, r))
  <2>1. CASE f = <<>>
    BY <1>3, <2>1, HandOn
  <2>2. CASE f # <<>>
    <3> DEFINE F == LinesAt[MaxBlockDepth + 1 - Len(f)]
    <3>1. MaxBlockDepth + 1 - Len(f) \in 0..MaxBlockDepth
      BY <1>3, <2>2, RestOn
    <3>2. Makes(F, Node, Node) /\ \A n \in Node \ present : F[n] = <<>>
      BY <1>3, <3>1, LinesMake
    <3> HIDE DEF F
    <3>3. EachOf(F, y) = EachOf(F, x)
      BY <1>1, <3>2, SameAdds
    <3>4. /\ RestOf(LinesAt, c, Append(f, q)) = EachOf(F, y) \o RestOf(LinesAt, c, f)
          /\ RestOf(LinesAt, c, Append(f, r)) = EachOf(F, x) \o RestOf(LinesAt, c, f)
      BY <1>3, <2>2, RestOn DEF F
    <3>5. RestOf(LinesAt, c, Append(f, q)) = RestOf(LinesAt, c, Append(f, r))
      BY <3>3, <3>4
    <3> QED
      BY <1>3, <2>2, <3>5, HandOn
  <2> QED
    BY <2>1, <2>2
<1> HIDE DEF x, y, z
<1>8. Balance(documents, document, Append(f, r), roots)
  BY <1>1 DEF PromiseHolds
<1>9. Balance(documents, document, Append(f, q), roots)
  BY <1>6, <1>7, <1>8 DEF Balance
<1> QED
  BY <1>1, <1>2, <1>9, BalanceNext

LEMMA PromiseOpened ==
  ASSUME Typed, PromiseHolds, OpenRoot
  PROVE  PromiseHolds'
<1>1. /\ AheadOf(children, stack', roots') = AheadOf(children, stack, roots)
      /\ stack' = Append(<<>>, Listing(Head(roots))) /\ stack = <<>>
      /\ UNCHANGED <<given, document, documents>>
  BY RootOpened DEF OpenRoot
<1>2. HandOf(document, stack') = HandOf(document, stack)
  <2>1. Len(stack') = 1 /\ Len(stack) = 0
    BY <1>1
  <2> QED
    BY <2>1 DEF HandOf
<1>3. Balance(documents, document, stack', roots')
  BY <1>1, <1>2 DEF PromiseHolds, Balance
<1> QED
  BY <1>1, <1>3, BalanceNext

(* What is ahead of a page or a message that is taken. *)
LEMMA PromiseTaken ==
  ASSUME Typed, PromiseHolds, Consuming, Level = 1,
         NEW st, AheadOf(children, st, roots) = AheadOf(children, Consumed, roots)
  PROVE  /\ \A doc : HandOf(doc, st) = Promises[entry.node] => Balance(documents, doc, st, roots)
         /\ \A docs, doc : /\ HandOf(doc, st) = <<>>
                           /\ Seen(docs) = Seen(documents) \o Promises[entry.node]
                           => Balance(docs, doc, st, roots)
<1> DEFINE n == entry.node
           a == AheadOf(children, Consumed, roots)
           P == Promises
           s == Seen(documents)
           p == P[n]
           z == EachOf(P, a)
           w == <<n>>
<1>1. PICK f \in Seq(Readings), r \in Readings :
         /\ stack = Append(f, r) /\ Level <= Deepest /\ Level = Len(f) + 1
         /\ (Level = 1 <=> f = <<>>)
         /\ n \in Node /\ a \in Seq(Node)
         /\ AheadOf(children, stack, roots) = IF f = <<>> THEN w \o a ELSE a
  BY Taken
<1>2. f = <<>> /\ AheadOf(children, stack, roots) = w \o a
  BY <1>1
<1>3. Makes(P, Node, Written)
  BY PromisesMake
<1>4. s \in Seq(Written) /\ p \in Seq(Written)
  BY <1>1, <1>3, SeenGrows DEF Makes
<1> HIDE DEF P, a
<1>5. z \in Seq(Written) /\ EachOf(P, w) = p /\ w \in Seq(Node)
  <2>1. n \in Node
    BY <1>1
  <2> HIDE DEF n
  <2>2. EachOf(P, <<n>>) = P[n]
    BY <1>3, <2>1, EachOne
  <2>3. EachOf(P, a) \in Seq(Written)
    BY <1>1, <1>3, EachPieces
  <2> QED
    BY <2>1, <2>2, <2>3
<1> HIDE DEF w
<1>6. EachOf(P, w \o a) = p \o z
  <2>1. a \in Seq(Node) /\ w \in Seq(Node)
    BY <1>1, <1>5
  <2>2. EachOf(P, w \o a) = EachOf(P, w) \o EachOf(P, a)
    BY <1>3, <2>1, EachConcat
  <2> QED
    BY <1>5, <2>2
<1>7. HandOf(document, stack) = <<>>
  <2>1. document \in DocumentIn(Node, present)
    BY DEF Typed
  <2> HIDE DEF Level
  <2> QED
    BY <1>1, <1>2, <2>1, HandOn
<1> HIDE DEF s, p, z, n
<1>8. Expected = (s \o <<>>) \o (p \o z)
  BY <1>2, <1>6, <1>7 DEF PromiseHolds, Balance, s, P
<1>9. Expected = (s \o p) \o z /\ Expected = ((s \o p) \o <<>>) \o z
  <2>1. s \in Seq(Written) /\ p \in Seq(Written) /\ z \in Seq(Written)
    BY <1>4, <1>5
  <2>2. /\ (s \o <<>>) \o (p \o z) = (s \o p) \o z
        /\ ((s \o p) \o <<>>) \o z = (s \o p) \o z
    BY <2>1, Regroup, SMTT(40)
  <2> QED
    BY <1>8, <2>2
<1>10. EachOf(P, AheadOf(children, st, roots)) = z
  BY DEF a, z
<1> QED
  BY <1>9, <1>10 DEF Balance, s, p, P, n

(* A listing on top of the first one: a page, or a thread. *)
LEMMA SecondOpened ==
  ASSUME Typed, Consuming, Level = 1, NEW doc \in DocumentIn(Node, present)
  PROVE  HandOf(doc, Append(Consumed, Listing(entry.node)))
           = Whole(doc.of, Among(doc.lines, original) \o Below[MaxBlockDepth][entry.node])
<1> DEFINE n == entry.node
           g == Listing(n)
           D == MaxBlockDepth
           b == Below[D][n]
<1>1. PICK f \in Seq(Readings), q \in Readings :
         /\ Consumed = Append(f, q) /\ (Level = 1 <=> f = <<>>)
         /\ n \in present /\ g \in Readings /\ Coming(children, g) = children[n]
  BY Taken
<1>2. f = <<>>
  BY <1>1
<1> DEFINE s == Append(f, q)
<1>3. s \in Seq(Readings) /\ Len(s) = 1 /\ s # <<>> /\ Len(f) = 0
  <2> DEFINE m == Len(f)
  <2>1. m = 0
    BY <1>2
  <2>2. s \in Seq(Readings) /\ Len(s) = m + 1 /\ s # <<>>
    BY AppendProperties
  <2> HIDE DEF m, s
  <2>3. Len(s) = 1
    BY <2>1, <2>2
  <2> QED
    BY <2>1, <2>2, <2>3 DEF m
<1>4. Deepest \in Nat /\ 2 <= Deepest /\ D + 1 - 1 = D
  BY PagedSourcesAssumption DEF Deepest
<1>5. RestOf(LinesAt, children, s) = <<>>
  <2>1. Len(f) + 1 <= Deepest
    BY <1>3, <1>4
  <2> QED
    BY <1>2, <2>1, RestOn
<1>6. b \in Seq(Node) /\ b = EachOf(LinesAt[D], children[n])
  BY <1>1, PromiseOf
<1> HIDE DEF s, g, b, n
<1>7. Len(s) + 1 <= Deepest
  BY <1>3, <1>4
<1>8. RestOf(LinesAt, children, Append(s, g))
        = EachOf(LinesAt[D + 1 - Len(s)], Coming(children, g)) \o RestOf(LinesAt, children, s)
  BY <1>1, <1>3, <1>7, RestOn
<1>9. RestOf(LinesAt, children, Append(s, g)) = b \o <<>>
  BY <1>1, <1>3, <1>4, <1>5, <1>6, <1>8 DEF n
<1>10. b \o <<>> = b
  BY <1>6, Regroup
<1>11. HandOf(doc, Append(s, g))
         = Whole(doc.of, Among(doc.lines, original) \o RestOf(LinesAt, children, Append(s, g)))
  BY <1>1, <1>3, <1>7, HandOn
<1>12. HandOf(doc, Append(s, g)) = Whole(doc.of, Among(doc.lines, original) \o b)
  BY <1>9, <1>10, <1>11
<1> QED
  BY <1>1, <1>12 DEF s, g, b, n

LEMMA PromisePage ==
  ASSUME Typed, PromiseHolds, OpenPage
  PROVE  PromiseHolds'
<1> DEFINE n == entry.node
           d == [of |-> n, lines |-> Own(n)]
           st == Append(Consumed, Listing(n))
<1>1. /\ Consuming /\ Level = 1 /\ ~Threads
      /\ stack' = st /\ document' = d /\ UNCHANGED <<given, roots, documents>>
  BY DEF OpenPage, Threads
<1>2. n \in present /\ AheadOf(children, st, roots) = AheadOf(children, Consumed, roots)
  BY <1>1, Taken
<1>3. d \in DocumentIn(Node, present) /\ d.of = n /\ d.lines = Own(n)
  BY <1>2, LinesMore
<1> HIDE DEF d
<1>4. HandOf(d, st) = Whole(n, Among(Own(n), original) \o Below[MaxBlockDepth][n])
  BY <1>1, <1>3, SecondOpened
<1>5. HandOf(d, st) = Promises[n]
  BY <1>1, <1>2, <1>4, PromiseOf
<1> HIDE DEF st
<1>6. Balance(documents, d, st, roots)
  BY <1>1, <1>2, <1>5, PromiseTaken
<1> QED
  BY <1>1, <1>6, BalanceNext

LEMMA PromiseMessage ==
  ASSUME Typed, PromiseHolds, ThreadsAreApart, TakeMessage
  PROVE  PromiseHolds'
<1> DEFINE n == entry.node
           d == [of |-> n, lines |-> Own(n)]
           e == [of |-> n, lines |-> <<>>]
           top == Append(Consumed, Listing(n))
<1>1. /\ Consuming /\ Level = 1 /\ Threads /\ UNCHANGED <<given, roots>>
  BY DEF TakeMessage, Threads
<1>2. PICK f \in Seq(Readings), r \in Readings, q \in Readings :
         /\ stack = Append(f, r) /\ Consumed = Append(f, q) /\ Level <= Deepest
         /\ (Level = 1 <=> f = <<>>) /\ Level = Len(f) + 1
         /\ n \in present /\ n \in Node
         /\ AheadOf(children, Consumed, roots) \in Seq(Node)
         /\ AheadOf(children, stack, roots)
              = IF f = <<>> THEN <<n>> \o AheadOf(children, Consumed, roots)
                ELSE AheadOf(children, Consumed, roots)
         /\ AheadOf(children, top, roots) = AheadOf(children, Consumed, roots)
         /\ ~entry.nested => Range(children[n]) \cap original
                               \subseteq (IF Threads THEN {n} ELSE {})
  BY <1>1, Taken
<1>3. f = <<>> /\ AheadOf(children, stack, roots) = <<n>> \o AheadOf(children, Consumed, roots)
  BY <1>1, <1>2
<1>4. n \in Range(Tops(remote))
  <2>1. Range(AheadOf(children, stack, roots)) \subseteq Range(Tops(remote))
    BY <1>1 DEF ThreadsAreApart, Apart, InTurn
  <2> DEFINE w == <<n>>
             a == AheadOf(children, Consumed, roots)
  <2>2. w \in Seq(Node) /\ Range(w) = {n} /\ a \in Seq(Node)
    BY <1>2 DEF Range
  <2> HIDE DEF w, a
  <2>3. Range(w \o a) = Range(w) \cup Range(a)
    BY <2>2, RangeConcatenation
  <2> QED
    BY <1>3, <2>1, <2>2, <2>3 DEF w, a
<1>5. \A doc \in DocumentIn(Node, present) : HandOf(doc, Consumed) = <<>>
  <2> HIDE DEF Level
  <2> QED
    BY <1>2, <1>3, HandOn
<1>6. /\ d \in DocumentIn(Node, present) /\ d.of = n /\ d.lines = Own(n)
      /\ e \in DocumentIn(Node, present) /\ e.of = n /\ e.lines = <<>>
      /\ document \in DocumentIn(Node, present)
  BY <1>2, LinesMore DEF Typed
<1>7. Seen(documents) \in Seq(Written) /\ Seen(documents) \o <<>> = Seen(documents)
  <2>1. Seen(documents) \in Seq(Written)
    BY SeenGrows
  <2> DEFINE x == Seen(documents)
  <2> HIDE DEF x
  <2>2. x \o <<>> = x
    BY <2>1, Regroup DEF x
  <2> QED
    BY <2>1, <2>2 DEF x
<1> HIDE DEF d, e, top
<1>8. CASE Skipped(n)
  <2>1. stack' = Consumed /\ document' = document /\ documents' = documents
    BY <1>8 DEF TakeMessage
  <2>2. Promises[n] = <<>>
    BY <1>1, <1>2, <1>8, PromiseOf
  <2>3. Balance(documents, document, Consumed, roots)
    BY <1>1, <1>5, <1>6, <2>2, PromiseTaken
  <2> QED
    BY <1>1, <2>1, <2>3, BalanceNext
<1>9. CASE ~Skipped(n) /\ entry.nested
  <2>1. stack' = top /\ document' = e /\ documents' = documents
    BY <1>9 DEF TakeMessage, top, e
  <2>2. HandOf(e, top) = Promises[n]
    <3>1. HandOf(e, top) = Whole(n, <<>> \o Below[MaxBlockDepth][n])
      <4>1. Among(<<>>, original) = <<>>
        BY AmongIsKept
      <4> QED
        BY <1>1, <1>6, <4>1, SecondOpened DEF top
    <3> DEFINE b == Below[MaxBlockDepth][n]
    <3>2. b \in Seq(Node) /\ Promises[n] = Whole(n, b)
      BY <1>1, <1>2, <1>9, PromiseOf
    <3> HIDE DEF b
    <3>3. <<>> \o b = b
      BY <3>2, Regroup
    <3> QED
      BY <3>1, <3>2, <3>3 DEF b
  <2>3. Balance(documents, e, top, roots)
    BY <1>1, <1>2, <2>2, PromiseTaken
  <2> QED
    BY <1>1, <2>1, <2>3, BalanceNext
<1>10. CASE ~Skipped(n) /\ ~entry.nested
  <2>1. stack' = Consumed /\ document' = document /\ documents' = Emit(d)
    BY <1>10 DEF TakeMessage, d
  <2>2. Promises[n] = Whole(n, Among(Own(n), original))
    BY <1>1, <1>2, <1>4, <1>10, MessageAlone
  <2>3. Seen(Emit(d)) = Seen(documents) \o Promises[n]
    BY <1>6, <2>2, SeenGrows
  <2>4. Balance(Emit(d), document, Consumed, roots)
    BY <1>1, <1>5, <1>6, <2>3, PromiseTaken
  <2> QED
    BY <1>1, <2>1, <2>4, BalanceNext
<1> QED
  BY <1>8, <1>9, <1>10

(* A line that is taken goes from the listings into the document.  What is  *)
(* below it is there still if it is opened, and nothing if it is not.      *)
LEMMA PromiseLine ==
  ASSUME Typed, PromiseHolds, Consuming, Level > 1,
         NEW st, st = Consumed \/ st = Append(Consumed, Listing(entry.node)),
         st # Consumed => ~Threads /\ Level - 1 <= MaxBlockDepth,
         ~Threads /\ entry.nested /\ Level - 1 <= MaxBlockDepth => st # Consumed
  PROVE  Balance(documents, [document EXCEPT !.lines = @ \o Own(entry.node)], st, roots)
<1> DEFINE n == entry.node
           g == Listing(n)
           D == MaxBlockDepth
           e == [document EXCEPT !.lines = @ \o Own(n)]
           c == children
           Rest(s) == RestOf(LinesAt, c, s)
<1>1. PICK f \in Seq(Readings), r \in Readings, q \in Readings :
         /\ stack = Append(f, r) /\ Consumed = Append(f, q) /\ Level <= Deepest
         /\ Level = Len(f) + 1 /\ Len(f) \in Nat
         /\ (Level = 1 <=> f = <<>>)
         /\ n \in present /\ n \in Node
         /\ ~entry.nested => Range(c[n]) \cap original
                               \subseteq (IF Threads THEN {n} ELSE {})
         /\ Coming(c, r) = <<n>> \o Coming(c, q) /\ Coming(c, q) \in Seq(Node)
         /\ g \in Readings /\ Coming(c, g) = c[n]
         /\ AheadOf(c, stack, roots)
              = IF f = <<>> THEN <<n>> \o AheadOf(c, Consumed, roots)
                ELSE AheadOf(c, Consumed, roots)
         /\ AheadOf(c, Append(Consumed, g), roots) = AheadOf(c, Consumed, roots)
  BY Taken
<1> DEFINE m == Len(f)
           l == D + 1 - m
           F == LinesAt[l]
           y == Coming(c, q)
           s == Append(f, q)
<1>2. f # <<>> /\ m + 1 <= Deepest /\ m \in Nat /\ (Level - 1 <= D <=> m <= D)
  <2> DEFINE k == Level
  <2>1. k > 1 /\ k = m + 1 /\ m \in Nat /\ k <= Deepest /\ (k = 1 <=> f = <<>>) /\ D \in Nat
    BY <1>1, PagedSourcesAssumption
  <2> HIDE DEF k, m
  <2> QED
    BY <2>1 DEF k
<1>3. AheadOf(c, st, roots) = AheadOf(c, stack, roots)
  BY <1>1, <1>2
<1>4. /\ l \in 0..D /\ Rest(f) \in Seq(Node)
      /\ Rest(Append(f, r)) = EachOf(F, Coming(c, r)) \o Rest(f)
      /\ Rest(s) = EachOf(F, y) \o Rest(f) /\ EachOf(F, y) \in Seq(Node) /\ Rest(s) \in Seq(Node)
  BY <1>2, RestOn
<1>5. /\ Makes(F, Node, Node)
      /\ F[n] = IF n \notin original THEN <<>>
                ELSE Own(n) \o (IF l = 0 \/ Threads THEN <<>> ELSE Below[l - 1][n])
  BY <1>1, <1>4, LinesMake
<1>6. F[n] \in Seq(Node) /\ Rest(Append(f, r)) = F[n] \o Rest(s)
  <2> DEFINE w == <<n>>
  <2>1. w \in Seq(Node) /\ y \in Seq(Node) /\ Coming(c, r) = w \o y /\ n \in Node
    BY <1>1
  <2>2. EachOf(F, w) = F[n]
    <3>1. Makes(F, Node, Node) /\ n \in Node
      BY <1>5, <2>1
    <3> HIDE DEF F, n
    <3> QED
      BY <3>1, EachOne
  <2>3. F[n] \in Seq(Node)
    BY <1>5, <2>1 DEF Makes
  <2> HIDE DEF w, y, F, Rest
  <2>4. Makes(F, Node, Node)
    BY <1>5
  <2>5. EachOf(F, w \o y) = EachOf(F, w) \o EachOf(F, y)
    BY <2>1, <2>4, EachConcat
  <2> DEFINE u == F[n]
             v == EachOf(F, y)
             t == Rest(f)
  <2>6. u \in Seq(Node) /\ v \in Seq(Node) /\ t \in Seq(Node)
    BY <1>4, <2>3
  <2> HIDE DEF u, v, t
  <2>7. u \o (v \o t) = (u \o v) \o t
    BY <2>6, Regroup, SMTT(40)
  <2> QED
    BY <1>4, <2>1, <2>2, <2>3, <2>5, <2>7 DEF u, v, t
<1> DEFINE below == IF st = Consumed THEN <<>> ELSE Below[l - 1][n]
           own == Among(Own(n), original)
           x == Among(document.lines, original)
<1>7. st # Consumed => /\ st = Append(s, g) /\ l - 1 \in 0..D /\ ~Threads /\ l # 0
                       /\ Rest(st) = below \o Rest(s)
  <2> SUFFICES ASSUME st # Consumed
               PROVE  /\ st = Append(s, g) /\ l - 1 \in 0..D /\ ~Threads /\ l # 0
                      /\ Rest(st) = below \o Rest(s)
    OBVIOUS
  <2>1. m <= D /\ ~Threads /\ st = Append(s, g)
    BY <1>1, <1>2
  <2>2. D \in Nat /\ m \in Nat /\ m # 0
    <3>1. m # 0
      BY <1>2
    <3> QED
      BY <1>2, <3>1, PagedSourcesAssumption
  <2>3. l - 1 \in 0..D /\ l # 0
    <3> HIDE DEF m
    <3> QED
      BY <2>1, <2>2
  <2>4. s \in Seq(Readings) /\ Len(s) = m + 1 /\ s # <<>>
    BY AppendProperties
  <2>5. m + 2 <= Deepest /\ D + 1 - (m + 1) = l - 1
    <3>1. Deepest = D + 2
      <4>1. remote.service \in {"notion", "slack"}
        BY RemoteFacts DEF Typed
      <4> QED
        BY <2>1, <2>2, <4>1 DEF Deepest, Threads
    <3> HIDE DEF m
    <3> QED
      BY <2>1, <2>2, <3>1
  <2> HIDE DEF s, g, c, m
  <2>6. Len(s) + 1 <= Deepest
    BY <2>2, <2>4, <2>5
  <2>7. RestOf(LinesAt, children, Append(s, g))
          = EachOf(LinesAt[D + 1 - Len(s)], Coming(children, g)) \o RestOf(LinesAt, children, s)
    BY <1>1, <2>4, <2>6, RestOn
  <2>8. EachOf(LinesAt[l - 1], children[n]) = Below[l - 1][n]
    BY <1>1, <2>3, NothingBelow
  <2> QED
    BY <1>1, <2>1, <2>3, <2>4, <2>5, <2>7, <2>8 DEF c
<1>8. own \o below = F[n] /\ below \in Seq(Node) /\ own \in Seq(Node) /\ x \in Seq(Node)
  <2>1. Own(n) \in Seq(Node) /\ <<>> \in Seq(Node) /\ document.lines \in Seq(Node)
    <3>1. document \in DocumentIn(Node, present) /\ remote \in Remotes
      BY DEF Typed
    <3>2. Own(n) \in Seq(Node)
      BY <1>1, <3>1, RemoteFacts
    <3>3. document.lines \in Seq(Node)
      BY <3>1, SeenGrows
    <3>4. <<>> \in Seq(Node)
      OBVIOUS
    <3> QED
      BY <3>2, <3>3, <3>4
  <2>2. own \in Seq(Node) /\ x \in Seq(Node) /\ own = (IF n \in original THEN Own(n) ELSE <<>>)
    BY <1>1, <2>1, AmongIsKept
  <2>3. l # 0 => /\ Below[l - 1][n] \in Seq(Node) /\ l - 1 \in 0..D
                 /\ Range(c[n]) \cap original = {} => Below[l - 1][n] = <<>>
    <3>1. l # 0 => l - 1 \in 0..D
      <4>1. l \in 0..D /\ D \in Nat
        BY <1>4, PagedSourcesAssumption
      <4> HIDE DEF l
      <4> QED
        BY <4>1
    <3> QED
      BY <1>1, <3>1, NothingBelow
  <2>4. n \notin original => Range(c[n]) \cap original = {}
    BY <1>1 DEF Typed
  <2>5. l = 0 <=> ~(Level - 1 <= D)
    <3>1. l = 0 <=> ~(m <= D)
      <4>1. l = D + 1 - m /\ l \in 0..D /\ m \in Nat /\ D \in Nat
        BY <1>2, <1>4, PagedSourcesAssumption
      <4> HIDE DEF m, l
      <4> QED
        BY <4>1
    <3> QED
      BY <1>2, <3>1
  <2>6. below \in Seq(Node)
    BY <1>7, <2>1, <2>3
  <2> DEFINE o == Own(n)
  <2>7. o \in Seq(Node)
    BY <2>1
  <2> HIDE DEF o, l, F, own, x
  <2>8. <<>> \o <<>> = <<>> /\ o \o <<>> = o
    BY <2>7
  <2>9. own \o below = F[n]
    <3>1. CASE n \notin original
      <4>1. below = <<>>
        BY <1>7, <2>3, <2>4, <3>1
      <4> QED
        BY <1>5, <2>2, <2>8, <3>1, <4>1
    <3>2. CASE n \in original /\ st # Consumed
      BY <1>5, <1>7, <2>2, <3>2
    <3>3. CASE n \in original /\ st = Consumed
      <4>1. l = 0 \/ Threads \/ Below[l - 1][n] = <<>>
        BY <1>1, <2>3, <2>5, <3>3
      <4>2. F[n] = o \o <<>>
        BY <1>5, <3>3, <4>1 DEF o
      <4> QED
        BY <2>2, <2>8, <3>3, <4>2 DEF o
    <3> QED
      BY <3>1, <3>2, <3>3
  <2> QED
    BY <2>2, <2>6, <2>9
<1>9. /\ e \in DocumentIn(Node, present) /\ e.of = document.of
      /\ document \in DocumentIn(Node, present)
      /\ Among(e.lines, original) = x \o own
  <2>1. e \in DocumentIn(Node, present) /\ document \in DocumentIn(Node, present)
    BY <1>1, LinesMore DEF Typed
  <2>2. e.of = document.of /\ e.lines = document.lines \o Own(n)
    BY DEF Typed, DocumentIn
  <2>3. Own(n) \in Seq(Node) /\ document.lines \in Seq(Node)
    BY <1>1, <2>1, RemoteFacts, SeenGrows DEF Typed
  <2>4. Among(document.lines \o Own(n), original) = x \o own
    BY <2>3, AmongIsKept
  <2> QED
    BY <2>1, <2>2, <2>4
<1>10. HandOf(e, st) = Whole(e.of, Among(e.lines, original) \o Rest(st))
  <2>1. CASE st = Consumed
    BY <1>1, <1>2, <1>9, <2>1, HandOn
  <2>2. CASE st # Consumed
    <3>1. s \in Seq(Readings) /\ Len(s) = m + 1 /\ s # <<>>
      BY AppendProperties
    <3>2. m + 2 <= Deepest
      <4>1. remote.service \in {"notion", "slack"} /\ m <= D /\ ~Threads /\ D \in Nat
        BY <1>2, <2>2, RemoteFacts, PagedSourcesAssumption DEF Typed
      <4>2. Deepest = D + 2
        BY <4>1 DEF Deepest, Threads
      <4> HIDE DEF m
      <4> QED
        BY <1>2, <4>1, <4>2
    <3> HIDE DEF s, e, g, m
    <3>3. Len(s) + 1 <= Deepest
      BY <1>2, <3>1, <3>2
    <3>4. HandOf(e, Append(s, g))
            = Whole(e.of, Among(e.lines, original) \o RestOf(LinesAt, children, Append(s, g)))
      BY <1>1, <1>9, <3>1, <3>3, HandOn
    <3> QED
      BY <1>7, <2>2, <3>4
  <2> QED
    BY <2>1, <2>2
<1>11. HandOf(document, Append(f, r))
         = Whole(document.of, Among(document.lines, original) \o Rest(Append(f, r)))
  BY <1>2, <1>9, HandOn
<1>12. (x \o own) \o Rest(st) = x \o Rest(Append(f, r))
  <2> DEFINE z == Rest(s)
             ob == own \o below
  <2>1. z \in Seq(Node) /\ Rest(st) = below \o z
    <3>1. CASE st = Consumed
      <4>1. z \in Seq(Node) /\ Rest(st) = z /\ below = <<>>
        BY <1>1, <1>4, <3>1, SMTT(40)
      <4> HIDE DEF z, below, Rest
      <4>2. <<>> \o z = z
        BY <4>1, Regroup
      <4> QED
        BY <4>1, <4>2
    <3>2. CASE st # Consumed
      BY <1>4, <1>7, <3>2
    <3> QED
      BY <3>1, <3>2
  <2>2. Rest(Append(f, r)) = ob \o z
    BY <1>6, <1>8
  <2> HIDE DEF z, x, own, below, Rest
  <2>6. /\ own \in Seq(Node) /\ below \in Seq(Node) /\ x \in Seq(Node)
        /\ z \in Seq(Node)
    BY <1>8, <2>1
  <2>3. ob \in Seq(Node) /\ ob \o z = own \o (below \o z)
    BY <2>6, Regroup, SMTT(40)
  <2>4. below \o z \in Seq(Node)
    BY <2>6, Regroup
  <2> DEFINE bz == below \o z
  <2> HIDE DEF bz
  <2>7. bz \in Seq(Node)
    BY <2>4 DEF bz
  <2>5. (x \o own) \o bz = x \o (own \o bz)
    BY <2>6, <2>7, Regroup, SMTT(40)
  <2> QED
    BY <2>1, <2>2, <2>3, <2>5 DEF bz
<1>13. HandOf(e, st) = HandOf(document, stack)
  BY <1>1, <1>9, <1>10, <1>11, <1>12
<1> HIDE DEF e
<1>14. Balance(documents, e, st, roots)
  BY <1>3, <1>13 DEF PromiseHolds, Balance
<1> QED
  BY <1>14 DEF e

LEMMA PromiseBlock ==
  ASSUME Typed, PromiseHolds, TakeBlock \/ TakeReply
  PROVE  PromiseHolds'
<1> DEFINE e == [document EXCEPT !.lines = @ \o Own(entry.node)]
           top == Append(Consumed, Listing(entry.node))
<1>1. /\ Consuming /\ Level > 1 /\ document' = e /\ UNCHANGED <<given, roots, documents>>
      /\ stack' = Consumed \/ stack' = top
      /\ stack' # Consumed => ~Threads /\ Level - 1 <= MaxBlockDepth
  BY DEF TakeBlock, TakeReply, Threads
<1>2. ~Threads /\ entry.nested /\ Level - 1 <= MaxBlockDepth => stack' # Consumed
  <2> SUFFICES ASSUME ~Threads, entry.nested, Level - 1 <= MaxBlockDepth
               PROVE  stack' # Consumed
    OBVIOUS
  <2>1. stack' = top
    BY DEF TakeBlock, TakeReply, Threads
  <2>2. PICK f \in Seq(Readings), q \in Readings :
          Consumed = Append(f, q) /\ Listing(entry.node) \in Readings
    BY <1>1, Taken
  <2> DEFINE s == Append(f, q)
             g == Listing(entry.node)
  <2>3. s \in Seq(Readings) /\ g \in Readings
    BY <2>2, AppendProperties
  <2> HIDE DEF s, g
  <2>4. Len(Append(s, g)) = Len(s) + 1 /\ Len(s) \in Nat
    BY <2>3, AppendProperties
  <2>5. Append(s, g) # s
    BY <2>4
  <2> QED
    BY <2>1, <2>2, <2>5 DEF s, g
<1>3. Balance(documents, e, stack', roots)
  <2> DEFINE st == stack'
  <2>1. /\ st = Consumed \/ st = Append(Consumed, Listing(entry.node))
        /\ st # Consumed => ~Threads /\ Level - 1 <= MaxBlockDepth
        /\ ~Threads /\ entry.nested /\ Level - 1 <= MaxBlockDepth => st # Consumed
    BY <1>1, <1>2
  <2> HIDE DEF st
  <2>2. Balance(documents, e, st, roots)
    BY <1>1, <2>1, PromiseLine
  <2> QED
    BY <2>2 DEF st
<1> HIDE DEF e
<1> QED
  BY <1>1, <1>3, BalanceNext

LEMMA PromiseClosed ==
  ASSUME Typed, PromiseHolds, Close
  PROVE  PromiseHolds'
<1> DEFINE c == children
           P == Promises
           z == EachOf(c, roots)
           s == Seen(documents)
<1>1. PICK f \in Seq(Readings), r \in Readings :
           /\ stack = Append(f, r) /\ stack' = f /\ Level = Len(f) + 1 /\ Len(f) \in Nat
           /\ (Level = 1 <=> f = <<>>) /\ Level <= Deepest
           /\ Coming(c, r) \in Seq(Node)
           /\ \A F : (\A n \in Node : n \notin original => F[n] = <<>>) =>
                       EachOf(F, Coming(c, r)) = <<>>
  BY EndedAddsNothing
<1> DEFINE m == Len(f)
           x == Coming(c, r)
           d == document
<1>2. /\ UNCHANGED <<given, roots, document>> /\ roots \in Seq(Node)
      /\ documents' = IF Level = 2 THEN Emit(d) ELSE documents
      /\ d \in DocumentIn(Node, present)
  BY RootsAreNodes DEF Close, Typed
<1>3. m \in Nat /\ (Level = 2 <=> m = 1) /\ (f = <<>> <=> m = 0) /\ m + 1 <= Deepest
  <2> DEFINE l == Level
  <2>1. l = m + 1 /\ m \in Nat /\ (l = 1 <=> f = <<>>) /\ l <= Deepest
    BY <1>1
  <2> HIDE DEF m, l
  <2> QED
    BY <2>1 DEF l
<1>4. /\ x \in Seq(Node) /\ z \in Seq(Node) /\ FirstOf(c, f) \in Seq(Node)
      /\ AheadOf(c, Append(f, r), roots) = (IF f = <<>> THEN x ELSE FirstOf(c, f)) \o z
  BY <1>2, AheadOn
<1>5. AheadOf(c, f, roots) = FirstOf(c, f) \o z /\ (f = <<>> => FirstOf(c, f) = <<>>)
  BY DEF AheadOf, FirstOf
<1>6. Makes(P, Node, Written) /\ EachOf(P, x) = <<>>
  <2>1. /\ Makes(P, Node, Written)
        /\ \A n \in Node : n \notin original => P[n] = <<>>
    BY PromisesMake
  <2> HIDE DEF P
  <2> QED
    BY <1>1, <2>1
<1>7. EachOf(P, AheadOf(c, f, roots)) = EachOf(P, AheadOf(c, Append(f, r), roots))
  <2>1. CASE f = <<>>
    <3> HIDE DEF x, z, P
    <3>0. x \in Seq(Node) /\ z \in Seq(Node) /\ Makes(P, Node, Written)
      BY <1>4, <1>6
    <3>1. EachOf(P, x \o z) = EachOf(P, x) \o EachOf(P, z)
      BY <3>0, EachConcat
    <3>4. <<>> \o z = z
      BY <3>0, Regroup
    <3>2. EachOf(P, z) \in Seq(Written)
      BY <1>4, <1>6, EachPieces
    <3> DEFINE y == EachOf(P, z)
    <3> HIDE DEF y
    <3>3. <<>> \o y = y
      BY <3>2, Regroup DEF y
    <3> QED
      BY <1>4, <1>5, <1>6, <2>1, <3>1, <3>3, <3>4 DEF y
  <2>2. CASE f # <<>>
    BY <1>4, <1>5, <2>2
  <2> QED
    BY <2>1, <2>2
<1>8. Seen(documents') \o HandOf(d, f) = s \o HandOf(d, Append(f, r))
  <2>1. CASE m = 0
    <3>1. HandOf(d, f) = <<>> /\ documents' = documents
      BY <1>2, <1>3, <2>1 DEF HandOf
    <3>2. HandOf(d, Append(f, r)) = <<>>
      BY <1>2, <1>3, <2>1, HandOn
    <3> QED
      BY <3>1, <3>2
  <2>2. CASE m # 0
    <3> DEFINE D == MaxBlockDepth
               F == LinesAt[D + 1 - m]
               a == Among(d.lines, original)
               R(t) == RestOf(LinesAt, c, t)
    <3>1. f # <<>> /\ D + 1 - m \in 0..D /\ R(f) \in Seq(Node)
          /\ R(Append(f, r)) = EachOf(F, x) \o R(f)
      BY <1>3, <2>2, RestOn
    <3>2. EachOf(F, x) = <<>>
      <4>1. \A n \in Node : n \notin original => F[n] = <<>>
        BY <3>1, LinesMake
      <4> HIDE DEF F
      <4> QED
        BY <1>1, <4>1
    <3>3. R(Append(f, r)) = R(f)
      <4> DEFINE t == R(f)
      <4>1. t \in Seq(Node)
        BY <3>1
      <4> HIDE DEF t
      <4>2. <<>> \o t = t
        BY <4>1, Regroup
      <4> QED
        BY <3>1, <3>2, <4>2 DEF t
    <3>4. HandOf(d, Append(f, r)) = Whole(d.of, a \o R(f))
      BY <1>2, <1>3, <3>1, <3>3, HandOn
    <3>5. CASE m = 1
      <4>1. HandOf(d, f) = <<>> /\ documents' = Emit(d)
        BY <1>2, <1>3, <3>5 DEF HandOf
      <4>2. R(f) = <<>>
        <5>1. Pieces(LinesAt, c, f) = <<>>
          <6>1. 1 .. (Len(f) - 1) = 1..0
            BY <3>5
          <6>2. Pieces(LinesAt, c, f) = [k \in 1..0 |->
                  EachOf(LinesAt[MaxBlockDepth + 1 + k - Len(f)], Coming(c, f[Len(f) + 1 - k]))]
            BY <6>1 DEF Pieces
          <6> QED
            BY <6>2
        <5> QED
          BY <5>1, FlattenEmpty DEF RestOf
      <4>3. a \in Seq(Node) /\ Remaining(d) = Whole(d.of, a) /\ Remaining(d) \in Seq(Written)
            /\ Seen(Emit(d)) = s \o Remaining(d) /\ s \in Seq(Written)
        BY <1>2, SeenGrows, AmongIsKept
      <4> HIDE DEF a, s, R, d
      <4>4. a \o <<>> = a
        BY <4>3, Regroup
      <4> DEFINE w == Remaining(d)
      <4> HIDE DEF w
      <4>5. s \o w \in Seq(Written) /\ (s \o w) \o <<>> = s \o w
        <5>1. s \o w \in Seq(Written)
          BY <4>3, Regroup DEF w
        <5> DEFINE sw == s \o w
        <5> HIDE DEF sw
        <5>2. sw \o <<>> = sw
          BY <5>1, Regroup DEF sw
        <5> QED
          BY <5>1, <5>2 DEF sw
      <4> QED
        BY <3>4, <4>1, <4>2, <4>3, <4>4, <4>5 DEF w
    <3>6. CASE m # 1
      <4>1. documents' = documents
        BY <1>2, <1>3, <3>6
      <4>2. m >= 2
        <5> HIDE DEF m
        <5> QED
          BY <1>3, <2>2, <3>6
      <4>3. HandOf(d, f) = Whole(d.of, a \o R(f))
        BY <4>2 DEF HandOf
      <4> QED
        BY <3>4, <4>1, <4>3
    <3> QED
      BY <3>5, <3>6
  <2> QED
    BY <2>1, <2>2
<1>9. Balance(documents', d, f, roots)
  BY <1>1, <1>7, <1>8 DEF PromiseHolds, Balance
<1> QED
  BY <1>1, <1>2, <1>9, BalanceNext

(* A walk is only done when there is nothing more to read. *)
DoneAtTheEnd == pc = "done" => stack = <<>> /\ roots = <<>>

LEMMA PromiseStep ==
  Typed /\ ThreadsAreApart /\ PromiseHolds /\ [Next]_vars => PromiseHolds'
<1> SUFFICES ASSUME Typed, ThreadsAreApart, PromiseHolds, [Next]_vars PROVE PromiseHolds'
  OBVIOUS
<1>1. ASSUME UNCHANGED <<given, roots, stack, document, documents>> PROVE PromiseHolds'
  <2>1. Balance(documents', document', stack', roots')
    BY <1>1 DEF PromiseHolds
  <2> QED
    BY <1>1, <2>1, BalanceNext
<1>2. CASE Fetch
  <2>1. CASE Throttled \/ Refused \/ Finish
    BY <1>1, <2>1 DEF Throttled, Refused, Finish
  <2>2. CASE Answered
    BY <2>2, PromiseAnswered
  <2>3. CASE OpenRoot
    BY <2>3, PromiseOpened
  <2>4. CASE OpenPage
    BY <2>4, PromisePage
  <2>5. CASE TakeBlock \/ TakeReply
    BY <2>5, PromiseBlock
  <2>6. CASE TakeMessage
    BY <2>6, PromiseMessage
  <2>7. CASE Close
    BY <2>7, PromiseClosed
  <2> QED
    BY <1>2, <2>1, <2>2, <2>3, <2>4, <2>5, <2>6, <2>7 DEF Fetch
<1>3. Fetch \/ UNCHANGED <<given, roots, stack, document, documents>>
  BY SMTT(40) DEF Next, Write, vars
<1> QED
  BY <1>1, <1>2, <1>3

LEMMA DoneStep == DoneAtTheEnd /\ [Next]_vars => DoneAtTheEnd'
BY DEF DoneAtTheEnd, vars, Next, Fetch, Throttled, Refused, Answered, Requesting, OpenRoot,
       OpenPage, TakeBlock, TakeMessage, TakeReply, Consuming, Close, Finish, Write

LEMMA PromiseHoldsImpliesReads ==
  Typed /\ PromiseHolds /\ DoneAtTheEnd => ReadsWhatWasThere
<1> SUFFICES ASSUME Typed, PromiseHolds, DoneAtTheEnd PROVE ReadsWhatWasThere
  OBVIOUS
<1> DEFINE x == Seen(documents)
           y == HandOf(document, stack)
           a == AheadOf(children, stack, roots)
           z == EachOf(Promises, a)
<1>1. Observed = x /\ Expected = (x \o y) \o z
  BY DEF Observed, Seen, PromiseHolds, Balance
<1>2. x \in Seq(Written) /\ document \in DocumentIn(Node, present)
      /\ Makes(Promises, Node, Written) /\ roots \in Seq(Node) /\ Makes(children, Node, Node)
  BY SeenGrows, PromisesMake, RootsAreNodes DEF Typed
<1>3. CASE stack = <<>>
  <2>1. y = <<>>
    <3>1. Len(stack) = 0
      BY <1>3
    <3> QED
      BY <3>1 DEF HandOf
  <2>2. a \in Seq(Node) /\ (roots = <<>> => a = <<>>)
    <3> DEFINE c == children
               u == EachOf(c, roots)
    <3>1. a = <<>> \o u /\ Makes(c, Node, Node)
      BY <1>2, <1>3 DEF AheadOf, FirstOf
    <3> HIDE DEF c
    <3>2. u \in Seq(Node) /\ (roots = <<>> => u = <<>>)
      BY <1>2, <3>1, EachPieces, EachEmpty
    <3> HIDE DEF u
    <3>3. <<>> \o u = u
      BY <3>2, Regroup
    <3> QED
      BY <3>1, <3>2, <3>3
  <2> HIDE DEF a
  <2>3. z \in Seq(Written) /\ (roots = <<>> => z = <<>>)
    BY <1>2, <2>2, EachPieces, EachEmpty
  <2> HIDE DEF x, y, z
  <2>4. x \o y = x /\ Expected = x \o z /\ (roots = <<>> => Expected = x)
    <3>1. x \o <<>> = x
      BY <1>2, Regroup DEF x
    <3> QED
      BY <1>1, <2>1, <2>3, <3>1
  <2>5. x \in Seq(Written) /\ x \o z \in Seq(Written)
    BY <1>2, <2>3, Regroup DEF x
  <2>6. IsPrefix(x, x \o z)
    BY <2>3, <2>5, IsPrefixOfConcat
  <2> QED
    BY <1>1, <2>4, <2>6 DEF ReadsWhatWasThere, DoneAtTheEnd
<1>4. CASE stack # <<>>
  <2>1. PICK f \in Seq(Readings), r \in Readings : stack = Append(f, r)
    BY <1>4, StackHasTop
  <2>2. Len(f) + 1 <= Deepest
    <3>1. Len(stack) = Len(f) + 1
      BY <2>1, AppendProperties
    <3> QED
      BY <3>1 DEF Typed
  <2>3. y \in Seq(Written)
    BY <1>2, <2>1, <2>2, HandOn
  <2>4. a \in Seq(Node)
    BY <1>2, <2>1, AheadOn
  <2> HIDE DEF a
  <2>5. z \in Seq(Written)
    BY <1>2, <2>4, EachPieces
  <2> HIDE DEF x, y, z
  <2>6. x \in Seq(Written)
    BY <1>2 DEF x
  <2>7. Expected = x \o (y \o z) /\ y \o z \in Seq(Written)
    BY <1>1, <2>3, <2>5, <2>6, Regroup, SMTT(40)
  <2> DEFINE w == y \o z
  <2> HIDE DEF w
  <2>8. IsPrefix(x, x \o w)
    BY <2>6, <2>7, IsPrefixOfConcat DEF w
  <2> QED
    BY <1>1, <1>4, <2>7, <2>8 DEF ReadsWhatWasThere, DoneAtTheEnd, w
<1> QED
  BY <1>3, <1>4

(* However the listings are cut into pages, whatever is throttled and       *)
(* whatever is written meanwhile, what was there when the walk began is     *)
(* what it yields, in order, and nothing of it twice.                      *)
THEOREM WhatWasThereIsRead == Spec => []ReadsWhatWasThere
<1>1. Spec => [](Typed /\ ThreadsAreApart)
  BY ApartHolds
<1>2. Init => PromiseHolds /\ DoneAtTheEnd
  BY PromiseInit DEF Init, DoneAtTheEnd
<1>3. Typed /\ ThreadsAreApart /\ PromiseHolds /\ DoneAtTheEnd /\ [Next]_vars
        => (PromiseHolds /\ DoneAtTheEnd)'
  BY PromiseStep, DoneStep
<1>4. Typed /\ PromiseHolds /\ DoneAtTheEnd => ReadsWhatWasThere
  BY PromiseHoldsImpliesReads
<1> QED
  BY <1>1, <1>2, <1>3, <1>4, PTL DEF Spec
=============================================================================
