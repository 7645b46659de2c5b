---------------------------- MODULE FetchProofs -------------------------------
(***************************************************************************)
(* What a client fetches: files (Files), a block's logs (Completeness),    *)
(* and the answers to routed queries (Routing). What uploads leave behind  *)
(* and what a download returns, for every content and chunk size; what a   *)
(* completeness check that was made says, for every set of logs; how old   *)
(* a cached list gets and whom a query asked before it gives up, for       *)
(* every number of queries and indexers. Files and Completeness compare    *)
(* the hash of a join, so: joining the chunks of a content gives it back,  *)
(* and the Merkle root of so many chunks, like the bytes of a set of       *)
(* logs, is theirs alone.                                                  *)
(***************************************************************************)
EXTENDS Files, Completeness, Routing, FiniteSetTheorems, WellFoundedInduction, TLAPS

\* A set of naturals that is not empty has a least.
LEMMA LeastNat ==
  ASSUME NEW S, S \subseteq Nat, S # {}
  PROVE  \E b \in S : \A m \in S : b =< m
<1>1. IsWellFoundedOn(OpToRel(<, Nat), Nat)
  BY NatLessThanWellFounded
<1>2. \E b \in S : \A m \in S : ~(<<m, b>> \in OpToRel(<, Nat))
  BY <1>1, WFMin
<1>3. PICK b \in S : \A m \in S : ~(m < b)
  BY <1>2 DEF OpToRel
<1>4. \A m \in S : b =< m
  BY <1>3
<1> QED
  BY <1>4

\* The place before one that is not the first.
LEMMA PlaceBefore ==
  ASSUME NEW n \in Nat, NEW b \in 1..n, b # 1
  PROVE  b - 1 \in 1..n /\ ~(b =< b - 1) /\ b > 1
OBVIOUS

\* Two sequences with the same elements at the same places.
LEMMA SeqsEqual ==
  ASSUME NEW S, NEW p \in Seq(S), NEW q \in Seq(S), Len(p) = Len(q),
         \A j \in 1..Len(p) : p[j] = q[j]
  PROVE  p = q
<1>1. p = [j \in 1..Len(p) |-> p[j]] /\ q = [j \in 1..Len(p) |-> q[j]]
  OBVIOUS
<1> QED
  BY <1>1

-----------------------------------------------------------------------------
\* The start of chunk i and the byte before it.
Upto(data, i) == IF i * ChunkSize < Len(data) THEN i * ChunkSize ELSE Len(data)
CountOf(data) == (Len(data) + ChunkSize - 1) \div ChunkSize

\* As many chunks as cover the content, none of them empty.
LEMMA CountFacts ==
  ASSUME NEW data \in Seq(Nat)
  PROVE  /\ CountOf(data) \in Nat
         /\ (CountOf(data) - 1) * ChunkSize < Len(data)
         /\ Len(data) =< CountOf(data) * ChunkSize
         /\ CountOf(data) = 0 <=> data = << >>
<1> DEFINE n == Len(data) c == ChunkSize k == CountOf(data)
<1>1. n \in Nat /\ c \in Nat \ {0}
  BY FilesAssumption
<1> QED
  BY <1>1 DEF CountOf

\* Two stretches of the same content joined.
LEMMA SubSeqJoin ==
  ASSUME NEW data \in Seq(Nat), NEW a \in Nat, NEW b \in Nat, a =< b, b =< Len(data)
  PROVE  SubSeq(data, 1, a) \o SubSeq(data, a + 1, b) = SubSeq(data, 1, b)
OBVIOUS

\* Chunks before the last are whole.
LEMMA ChunkFacts ==
  ASSUME NEW data \in Seq(Nat), NEW i \in 1..CountOf(data)
  PROVE  /\ i - 1 > 0 => Upto(data, i - 1) = (i - 1) * ChunkSize
         /\ (i - 1) * ChunkSize =< Upto(data, i) /\ Upto(data, i) =< Len(data)
         /\ (i - 1) * ChunkSize \in Nat /\ Upto(data, i) \in Nat
         /\ i = CountOf(data) => Upto(data, i) = Len(data)
<1> DEFINE n == Len(data) c == ChunkSize k == CountOf(data)
<1>1. n \in Nat /\ c \in Nat \ {0} /\ k \in Nat /\ i \in Nat /\ i >= 1 /\ i =< k
      /\ (k - 1) * c < n /\ n =< k * c
  BY FilesAssumption, CountFacts
<1> HIDE DEF n, c, k
<1>2. (i - 1) * c =< (k - 1) * c /\ (i - 1) * c \in Nat /\ i * c \in Nat
  BY <1>1
<1>3. i * c = (i - 1) * c + c
  BY <1>1
<1>4. Upto(data, i) = (IF i * c < n THEN i * c ELSE n)
      /\ Upto(data, i - 1) = (IF (i - 1) * c < n THEN (i - 1) * c ELSE n)
  BY DEF Upto, n, c
<1>5. (i - 1) * c < n
  BY <1>1, <1>2
<1>6. i = k => Upto(data, i) = n
  BY <1>1, <1>2, <1>4
<1>7. /\ (i - 1) * c =< Upto(data, i) /\ Upto(data, i) =< n /\ Upto(data, i) \in Nat
      /\ Upto(data, i - 1) = (i - 1) * c
  BY <1>1, <1>2, <1>3, <1>4, <1>5
<1> QED
  BY <1>2, <1>6, <1>7 DEF n, c, k

\* The chunks of a content.
LEMMA ChunksFacts ==
  ASSUME NEW data \in Seq(Nat)
  PROVE  /\ Len(Chunks(data)) = CountOf(data)
         /\ Chunks(data) \in Seq(Seq(Nat))
         /\ \A i \in 1..CountOf(data) :
              Chunks(data)[i] = SubSeq(data, (i - 1) * ChunkSize + 1, Upto(data, i))
<1> DEFINE piece(i) == SubSeq(data, (i - 1) * ChunkSize + 1, Upto(data, i))
<1>1. Chunks(data) = [i \in 1..CountOf(data) |-> piece(i)]
  BY DEF Chunks, CountOf, Upto
<1>2. CountOf(data) \in Nat
  BY CountFacts
<1>3. ASSUME NEW i \in 1..CountOf(data) PROVE piece(i) \in Seq(Nat)
  <2>1. (i - 1) * ChunkSize + 1 \in Nat \ {0} /\ Upto(data, i) \in Nat /\ Upto(data, i) =< Len(data)
    BY ChunkFacts
  <2> QED
    BY <2>1
<1> HIDE DEF piece
<1>4. Chunks(data) \in Seq(Seq(Nat)) /\ Len(Chunks(data)) = CountOf(data)
  BY <1>1, <1>2, <1>3
<1> QED
  BY <1>1, <1>4 DEF piece

\* Two functions that satisfy the recursion of a join are the same one; so the
\* join is the last value of any that does.
LEMMA FlattenIs ==
  ASSUME NEW seqs, Len(seqs) \in Nat \ {0},
         NEW f, f = [i \in 1..Len(seqs) |-> IF i = 1 THEN seqs[i] ELSE f[i - 1] \o seqs[i]]
  PROVE  FlattenSeq(seqs) = f[Len(seqs)]
<1> DEFINE n == Len(seqs)
           step(g) == [i \in 1..n |-> IF i = 1 THEN seqs[i] ELSE g[i - 1] \o seqs[i]]
           g == CHOOSE g : g = step(g)
<1>1. g = step(g)
  <2>1. f = step(f)
    OBVIOUS
  <2> HIDE DEF step
  <2> QED
    BY <2>1
<1>2. FlattenSeq(seqs) = g[n]
  BY DEF FlattenSeq
<1> HIDE DEF g
<1> DEFINE Differ == {i \in 1..n : g[i] # f[i]}
<1>3. Differ = {}
  <2> SUFFICES ASSUME Differ # {} PROVE FALSE
    OBVIOUS
  <2>1. PICK b \in Differ : \A m \in Differ : b =< m
    <3>1. Differ \subseteq Nat
      OBVIOUS
    <3> HIDE DEF Differ
    <3> QED
      BY <3>1, LeastNat
  <2>2. b \in 1..n /\ g[b] # f[b]
    BY <2>1
  <2>3. g[b] = (IF b = 1 THEN seqs[b] ELSE g[b - 1] \o seqs[b])
    BY <1>1, <2>2
  <2>4. f[b] = (IF b = 1 THEN seqs[b] ELSE f[b - 1] \o seqs[b])
    BY <2>2
  <2>5. b # 1 => b - 1 \in 1..n /\ b - 1 \notin Differ
    BY <2>1, <2>2
  <2> QED
    BY <2>2, <2>3, <2>4, <2>5
<1>4. n \in 1..n
  OBVIOUS
<1>5. g[n] = f[n]
  BY <1>3, <1>4
<1> QED
  BY <1>2, <1>5

\* Joining the chunks of a content gives it back.
LEMMA FlattenChunks ==
  ASSUME NEW data \in Seq(Nat)
  PROVE  FlattenSeq(Chunks(data)) = data
<1> DEFINE k == CountOf(data)
           f == [i \in 1..k |-> SubSeq(data, 1, Upto(data, i))]
<1>1. /\ Len(Chunks(data)) = k /\ k \in Nat
      /\ k = 0 <=> data = << >>
      /\ \A i \in 1..k : Chunks(data)[i] = SubSeq(data, (i - 1) * ChunkSize + 1, Upto(data, i))
  BY ChunksFacts, CountFacts
<1>2. CASE k = 0
  <2>1. Chunks(data) = << >> /\ data = << >>
    BY <1>1, <1>2, ChunksFacts
  <2> QED
    BY <2>1 DEF FlattenSeq
<1>3. CASE k # 0
  <2>1. ASSUME NEW i \in 1..k
        PROVE  f[i] = IF i = 1 THEN Chunks(data)[i] ELSE f[i - 1] \o Chunks(data)[i]
    <3>1. /\ i - 1 > 0 => Upto(data, i - 1) = (i - 1) * ChunkSize
          /\ (i - 1) * ChunkSize =< Upto(data, i) /\ Upto(data, i) =< Len(data)
          /\ (i - 1) * ChunkSize \in Nat /\ Upto(data, i) \in Nat
      BY ChunkFacts
    <3>2. f[i] = SubSeq(data, 1, Upto(data, i))
          /\ Chunks(data)[i] = SubSeq(data, (i - 1) * ChunkSize + 1, Upto(data, i))
      BY <1>1
    <3>3. CASE i = 1
      <4> DEFINE a == (i - 1) * ChunkSize
      <4>1. a = 0
        BY <3>3, FilesAssumption
      <4>2. Chunks(data)[i] = SubSeq(data, a + 1, Upto(data, i))
        BY <3>2
      <4>3. a + 1 = 1
        BY <4>1
      <4> HIDE DEF a, f
      <4> QED
        BY <3>2, <3>3, <4>2, <4>3
    <3>4. CASE i # 1
      <4>1. i - 1 \in 1..k /\ f[i - 1] = SubSeq(data, 1, (i - 1) * ChunkSize)
        <5>1. i - 1 \in 1..k /\ i - 1 > 0
          BY <1>1, <3>4
        <5>2. f[i - 1] = SubSeq(data, 1, Upto(data, i - 1))
          BY <5>1
        <5> QED
          BY <3>1, <5>1, <5>2
      <4> DEFINE a == (i - 1) * ChunkSize b == Upto(data, i)
      <4>2. a \in Nat /\ b \in Nat /\ a =< b /\ b =< Len(data)
        BY <3>1
      <4> HIDE DEF a, b
      <4>3. SubSeq(data, 1, a) \o SubSeq(data, a + 1, b) = SubSeq(data, 1, b)
        BY <4>2, SubSeqJoin
      <4> QED
        BY <3>2, <3>4, <4>1, <4>3 DEF a, b
    <3> QED
      BY <3>3, <3>4
  <2>2. f = [i \in 1..k |-> IF i = 1 THEN Chunks(data)[i] ELSE f[i - 1] \o Chunks(data)[i]]
    <3> DOMAIN f = 1..k /\ f = [i \in 1..k |-> f[i]]
      OBVIOUS
    <3> HIDE DEF f
    <3> QED
      BY <2>1
  <2>3. FlattenSeq(Chunks(data)) = f[k]
    <3> HIDE DEF f
    <3> QED
      BY <1>1, <1>3, <2>2, FlattenIs
  <2>4. f[k] = SubSeq(data, 1, Len(data))
    BY <1>1, <1>3, ChunkFacts
  <2>5. SubSeq(data, 1, Len(data)) = data
    OBVIOUS
  <2> QED
    BY <2>3, <2>4, <2>5
<1> QED
  BY <1>2, <1>3

-----------------------------------------------------------------------------
\* The rounds of the Merkle root: what one round does, and the recursion.
Leaves(chunks) == [i \in DOMAIN chunks |-> <<"leaf", chunks[i]>>]
Round(n, x) == IF n > 1 /\ Len(x) = 1 THEN x ELSE NextLevel(x)
RoundsOf(chunks, upto, f) ==
  f = [n \in 0..upto |-> IF n = 0 THEN Leaves(chunks) ELSE Round(n, f[n - 1])]

\* There is a function that satisfies the recursion.
LEMMA RoundsExist ==
  ASSUME NEW chunks, NEW l \in Nat
  PROVE  \E f : RoundsOf(chunks, l, f)
<1> DEFINE Bad == {k \in Nat : ~\E f : RoundsOf(chunks, k, f)}
<1> SUFFICES ASSUME Bad # {} PROVE FALSE
  OBVIOUS
<1>1. PICK b \in Bad : \A m \in Bad : b =< m
  <2>1. Bad \subseteq Nat
    OBVIOUS
  <2> HIDE DEF Bad
  <2> QED
    BY <2>1, LeastNat
<1>2. b \in Nat /\ ~\E f : RoundsOf(chunks, b, f)
  OBVIOUS
<1>3. CASE b = 0
  <2> DEFINE f == [n \in 0..0 |-> Leaves(chunks)]
  <2>1. RoundsOf(chunks, 0, f)
    BY DEF RoundsOf
  <2> QED
    BY <1>2, <1>3, <2>1
<1>4. CASE b # 0
  <2>1. b - 1 \in Nat /\ b - 1 \notin Bad
    BY <1>1, <1>2, <1>4
  <2>2. PICK f : RoundsOf(chunks, b - 1, f)
    BY <2>1
  <2> DEFINE g == [n \in 0..b |-> IF n < b THEN f[n] ELSE Round(b, f[b - 1])]
  <2>3. ASSUME NEW n \in 0..b
        PROVE  g[n] = IF n = 0 THEN Leaves(chunks) ELSE Round(n, g[n - 1])
    <3>1. CASE n < b
      <4>1. n \in 0..(b - 1) /\ (n # 0 => n - 1 \in 0..b /\ n - 1 < b) /\ g[n] = f[n]
        BY <1>2, <3>1
      <4>2. f[n] = IF n = 0 THEN Leaves(chunks) ELSE Round(n, f[n - 1])
        BY <2>2, <4>1 DEF RoundsOf
      <4> QED
        BY <4>1, <4>2
    <3>2. CASE n = b
      <4>1. n # 0 /\ n - 1 \in 0..b /\ n - 1 < b
        BY <1>2, <1>4, <3>2
      <4>2. g[n - 1] = f[b - 1]
        BY <3>2, <4>1
      <4>3. g[n] = Round(b, f[b - 1])
        BY <3>2
      <4> QED
        BY <3>2, <4>1, <4>2, <4>3
    <3> QED
      BY <1>2, <3>1, <3>2
  <2>4. g = [n \in 0..b |-> g[n]]
    OBVIOUS
  <2> HIDE DEF g
  <2>5. RoundsOf(chunks, b, g)
    BY <2>3, <2>4 DEF RoundsOf
  <2> QED
    BY <1>2, <2>5
<1> QED
  BY <1>3, <1>4

\* Levels is the recursion it is written as, from the leaves up.
LEMMA LevelsFacts ==
  ASSUME NEW chunks, Len(chunks) \in Nat
  PROVE  /\ Levels(chunks)[0] = Leaves(chunks)
         /\ \A n \in 1..Len(chunks) : Levels(chunks)[n] = Round(n, Levels(chunks)[n - 1])
<1>1. PICK f : RoundsOf(chunks, Len(chunks), f)
  BY RoundsExist
<1>2. RoundsOf(chunks, Len(chunks), CHOOSE g : RoundsOf(chunks, Len(chunks), g))
  BY <1>1
<1>3. Levels(chunks) = CHOOSE g : RoundsOf(chunks, Len(chunks), g)
  BY DEF Levels, RoundsOf, Leaves, Round
<1>4. RoundsOf(chunks, Len(chunks), Levels(chunks))
  BY <1>2, <1>3
<1> QED
  BY <1>4 DEF RoundsOf

\* A list of n hashes.
List(x, n) == DOMAIN x = 1..n /\ Len(x) = n /\ x = [i \in 1..n |-> x[i]]

\* A level is half as long as the one below, rounded up.
LEMMA NextLevelFacts ==
  ASSUME NEW n \in Nat \ {0}, NEW x, List(x, n)
  PROVE  \E m \in 1..n : m = (n + 1) \div 2 /\ (n > 1 => m < n) /\ List(NextLevel(x), m)
<1> DEFINE m == (n + 1) \div 2
<1>1. m \in 1..n /\ (n > 1 => m < n)
  OBVIOUS
<1>2. List(NextLevel(x), m)
  BY <1>1 DEF NextLevel, List
<1> QED
  BY <1>1, <1>2

\* No two lists of so many hashes have the same next level.
LEMMA NextLevelInjective ==
  ASSUME NEW n \in Nat \ {0}, NEW x, NEW y, List(x, n), List(y, n), NextLevel(x) = NextLevel(y)
  PROVE  x = y
<1>1. ASSUME NEW j \in 1..n PROVE x[j] = y[j]
  <2>1. PICK i \in 1..((n + 1) \div 2) : j = 2 * i - 1 \/ (j = 2 * i /\ ~(2 * i > n))
    <3>1. CASE \E i \in Nat : j = 2 * i
      <4> PICK i \in Nat : j = 2 * i
        BY <3>1
      <4> i \in 1..((n + 1) \div 2) /\ ~(2 * i > n)
        OBVIOUS
      <4> QED
        OBVIOUS
    <3>2. CASE \E i \in Nat : j = 2 * i - 1
      <4> PICK i \in Nat : j = 2 * i - 1
        BY <3>2
      <4> i \in 1..((n + 1) \div 2)
        OBVIOUS
      <4> QED
        OBVIOUS
    <3>3. j = 2 * (j \div 2) \/ j = 2 * ((j + 1) \div 2) - 1
      OBVIOUS
    <3>4. j \div 2 \in Nat /\ (j + 1) \div 2 \in Nat
      OBVIOUS
    <3> QED
      BY <3>1, <3>2, <3>3, <3>4
  <2> DEFINE at(h) == <<"node", h[2 * i - 1], h[IF 2 * i > n THEN 2 * i - 1 ELSE 2 * i]>>
  <2>2. NextLevel(x)[i] = at(x) /\ NextLevel(y)[i] = at(y)
    BY DEF NextLevel, List
  <2>3. at(x)[2] = at(y)[2] /\ at(x)[3] = at(y)[3]
    <3> HIDE DEF at
    <3> QED
      BY <2>2
  <2> QED
    BY <2>1, <2>3
<1> QED
  BY <1>1 DEF List

\* One round keeps two lists of the same length so, and shortens them until
\* one hash is left.
LEMMA RoundFacts ==
  ASSUME NEW n \in Nat \ {0}, NEW m \in Nat \ {0}, NEW x, NEW y, List(x, m), List(y, m)
  PROVE  /\ \E k \in 1..m : /\ List(Round(n, x), k) /\ List(Round(n, y), k)
                            /\ m > 1 => k < m
         /\ Round(n, x) = Round(n, y) => x = y
<1>1. Len(x) = m /\ Len(y) = m
  BY DEF List
<1>2. CASE n > 1 /\ m = 1
  BY <1>1, <1>2 DEF Round
<1>3. CASE ~(n > 1 /\ m = 1)
  <2>1. Round(n, x) = NextLevel(x) /\ Round(n, y) = NextLevel(y)
    BY <1>1, <1>3 DEF Round
  <2>2. \E k \in 1..m : k = (m + 1) \div 2 /\ (m > 1 => k < m) /\ List(NextLevel(x), k)
    BY NextLevelFacts
  <2>3. \E k \in 1..m : k = (m + 1) \div 2 /\ (m > 1 => k < m) /\ List(NextLevel(y), k)
    BY NextLevelFacts
  <2>4. NextLevel(x) = NextLevel(y) => x = y
    BY NextLevelInjective
  <2> QED
    BY <2>1, <2>2, <2>3, <2>4
<1> QED
  BY <1>2, <1>3

\* The Merkle root of so many chunks is theirs alone.
LEMMA MerkleRootBinds ==
  ASSUME NEW l \in Nat, NEW a, NEW b, List(a, l), List(b, l), MerkleRoot(a) = MerkleRoot(b)
  PROVE  a = b
<1>1. CASE l = 0
  BY <1>1 DEF List
<1>2. CASE l # 0
  <2> DEFINE la(n) == Levels(a)[n]
             lb(n) == Levels(b)[n]
             Size(n, m) == /\ List(la(n), m) /\ List(lb(n), m)
                           /\ m =< IF n < l THEN l - n ELSE 1
  <2>1. /\ la(0) = Leaves(a) /\ lb(0) = Leaves(b)
        /\ \A n \in 1..l : la(n) = Round(n, la(n - 1)) /\ lb(n) = Round(n, lb(n - 1))
    BY LevelsFacts DEF List
  <2> HIDE DEF la, lb
  <2>2. Size(0, l)
    BY <1>2, <2>1 DEF List, Leaves
  <2>3. ASSUME NEW n \in 1..l, NEW m \in Nat \ {0}, Size(n - 1, m)
        PROVE  /\ \E k \in Nat \ {0} : Size(n, k)
               /\ la(n) = lb(n) => la(n - 1) = lb(n - 1)
    <3>1. /\ \E k \in 1..m : /\ List(Round(n, la(n - 1)), k) /\ List(Round(n, lb(n - 1)), k)
                             /\ m > 1 => k < m
          /\ Round(n, la(n - 1)) = Round(n, lb(n - 1)) => la(n - 1) = lb(n - 1)
      <4>1. List(la(n - 1), m) /\ List(lb(n - 1), m) /\ n \in Nat \ {0}
        BY <2>3
      <4> DEFINE x == la(n - 1) y == lb(n - 1)
      <4>2. List(x, m) /\ List(y, m)
        BY <4>1
      <4> HIDE DEF x, y
      <4>3. /\ \E k \in 1..m : List(Round(n, x), k) /\ List(Round(n, y), k) /\ (m > 1 => k < m)
            /\ Round(n, x) = Round(n, y) => x = y
        BY <4>1, <4>2, RoundFacts
      <4> QED
        BY <4>3 DEF x, y
    <3>2. PICK k \in 1..m : List(la(n), k) /\ List(lb(n), k) /\ (m > 1 => k < m)
      BY <2>1, <3>1
    <3>3. m =< l - (n - 1)
      BY <2>3
    <3>4. k =< IF n < l THEN l - n ELSE 1
      BY <3>2, <3>3
    <3> QED
      BY <2>1, <3>1, <3>2, <3>4
  <2> DEFINE Unsized == {n \in 0..l : ~\E m \in Nat \ {0} : Size(n, m)}
  <2>4. Unsized = {}
    <3> HIDE DEF Size
    <3> SUFFICES ASSUME Unsized # {} PROVE FALSE
      OBVIOUS
    <3>1. PICK n \in Unsized : \A k \in Unsized : n =< k
      <4>1. Unsized \subseteq Nat
        OBVIOUS
      <4> HIDE DEF Unsized
      <4> QED
        BY <4>1, LeastNat
    <3>2. n # 0
      BY <1>2, <2>2
    <3>3. n \in 1..l /\ n - 1 \in 0..l /\ n - 1 \notin Unsized
      BY <3>1, <3>2
    <3>4. PICK m \in Nat \ {0} : Size(n - 1, m)
      BY <3>3
    <3>5. \E k \in Nat \ {0} : Size(n, k)
      BY <2>3, <3>3, <3>4
    <3> QED
      BY <3>5
  <2>5. ASSUME NEW n \in 0..l PROVE \E m \in Nat \ {0} : Size(n, m)
    BY <2>4
  <2>6. la(l) = lb(l)
    <3>1. PICK m \in Nat \ {0} : Size(l, m)
      BY <2>5
    <3>2. List(la(l), 1) /\ List(lb(l), 1)
      BY <3>1
    <3>3. a # << >> /\ b # << >>
      BY <1>2 DEF List
    <3>4. Head(la(l)) = Head(lb(l))
      BY <3>3 DEF MerkleRoot, List, la, lb
    <3>5. Head(la(l)) = la(l)[1] /\ Head(lb(l)) = lb(l)[1]
      BY <3>2 DEF List
    <3> QED
      BY <3>2, <3>4, <3>5 DEF List
  <2> DEFINE Apart == {k \in 0..l : la(l - k) # lb(l - k)}
  <2>7. Apart = {}
    <3> HIDE DEF Size
    <3> SUFFICES ASSUME Apart # {} PROVE FALSE
      OBVIOUS
    <3>1. PICK k \in Apart : \A j \in Apart : k =< j
      <4>1. Apart \subseteq Nat
        OBVIOUS
      <4> HIDE DEF Apart
      <4> QED
        BY <4>1, LeastNat
    <3>2. k # 0
      BY <2>6
    <3>3. k - 1 \in 0..l /\ k - 1 \notin Apart /\ l - (k - 1) \in 1..l
      BY <3>1, <3>2
    <3> DEFINE n == l - (k - 1)
    <3>4. la(n) = lb(n) /\ n \in 1..l /\ n - 1 = l - k /\ n - 1 \in 0..l
      BY <3>3
    <3> HIDE DEF n
    <3>5. PICK m \in Nat \ {0} : Size(n - 1, m)
      BY <2>5, <3>4
    <3>6. la(n - 1) = lb(n - 1)
      BY <2>3, <3>4, <3>5
    <3> QED
      BY <3>4, <3>6
  <2>8. Leaves(a) = Leaves(b)
    <3>1. l \in 0..l /\ l \notin Apart /\ l - l = 0
      BY <2>7
    <3> QED
      BY <2>1, <3>1
  <2>9. ASSUME NEW i \in 1..l PROVE a[i] = b[i]
    <3>1. Leaves(a)[i] = <<"leaf", a[i]>> /\ Leaves(b)[i] = <<"leaf", b[i]>>
      BY DEF Leaves, List
    <3> QED
      BY <2>8, <3>1
  <2> QED
    BY <2>9 DEF List
<1> QED
  BY <1>1, <1>2

-----------------------------------------------------------------------------
\* Types, and where the manifests and chunks about come from: the transactions
\* are of contents or deletes, the chain's manifest landed, the node holds
\* chunks of contents.
OfContent(m) == \E data \in Seq(Nat) : m = Manifest(data)
Chunked(t) ==
  \E data \in Seq(Nat) : \E i \in 1..Len(Chunks(data)) :
    t = [content_hash |-> data, index |-> i, bytes |-> Chunks(data)[i]]

UploadStates == {"called", "unsubmitted", "chunks", "sleeping", "failed", "returned"}
UploadType == [at : UploadStates, data : Seq(Nat), next : Nat \ {0}, late : BOOLEAN]

TypeOK ==
  /\ up \in [Uploads -> UploadType]
  /\ \A t \in mempool : t.manifest = NoManifest \/ OfContent(t.manifest)
  /\ manifest = NoManifest \/ manifest \in landed
  /\ \A m \in landed : OfContent(m)
  /\ \A t \in taken : Chunked(t)

\* What the download has: a manifest that landed, chunks of contents, at their
\* places when the node is honest, and a verdict on as many as it counts.
Verdicts == {"root mismatch", "content mismatch", "returned"}

OwnChunks(m, got) ==
  \A i \in 1..Len(got) : got[i] = Chunks(m.content_hash)[i]

DownloadInv ==
  /\ down = [at |-> down.at, manifest |-> down.manifest, got |-> down.got]
  /\ down.at \in {"idle", "chunks", "unread"} \cup Verdicts
  /\ down.at # "idle" => down.manifest \in landed
  /\ down.got \in Seq(Seq(Nat))
  /\ ~tampered => OwnChunks(down.manifest, down.got)
  /\ down.at \in Verdicts =>
       Len(down.got) = down.manifest.chunk_count /\ down.at = Verdict(down.manifest, down.got)

\* What the storage node took is a chunk of the content it is named by.
LEMMA ChunkedFacts ==
  ASSUME NEW t, Chunked(t)
  PROVE  t.bytes = Chunks(t.content_hash)[t.index] /\ t.bytes \in Seq(Nat)
<1> PICK data \in Seq(Nat) :
      \E i \in 1..Len(Chunks(data)) :
        t = [content_hash |-> data, index |-> i, bytes |-> Chunks(data)[i]]
  BY DEF Chunked
<1> PICK i \in 1..Len(Chunks(data)) :
      t = [content_hash |-> data, index |-> i, bytes |-> Chunks(data)[i]]
  OBVIOUS
<1>1. t.bytes = Chunks(data)[i] /\ t.content_hash = data /\ t.index = i
  OBVIOUS
<1>2. Chunks(data) \in Seq(Seq(Nat))
  BY ChunksFacts
<1>3. Chunks(data)[i] \in Seq(Nat)
  BY <1>2
<1> QED
  BY <1>1, <1>3

\* Before the first upload nothing was sent.
LEMMA TypeInit == Init => TypeOK /\ ProgressIsTaken
<1> SUFFICES ASSUME Init PROVE TypeOK /\ ProgressIsTaken
  OBVIOUS
<1>1. PICK data \in Calls : up = [u \in Uploads |-> Upload("called", data[u], 1, FALSE)]
  BY DEF Init
<1>2. data \in [Uploads -> Seq(Nat)]
  BY FilesAssumption
<1>3. up \in [Uploads -> UploadType]
  <2>1. ASSUME NEW u \in Uploads PROVE Upload("called", data[u], 1, FALSE) \in UploadType
    <3>1. data[u] \in Seq(Nat) /\ 1 \in Nat \ {0}
      BY <1>2
    <3>3. "called" \in UploadStates
      BY DEF UploadStates
    <3>2. FALSE \in BOOLEAN
      OBVIOUS
    <3> QED
      BY <3>1, <3>2, <3>3 DEF Upload, UploadType
  <2> QED
    BY <1>1, <2>1
<1>4. \A u \in Uploads : up[u].next = 1
  BY <1>1 DEF Upload
<1>5. ProgressIsTaken
  <2>1. ASSUME NEW u \in Uploads PROVE 1..(up[u].next - 1) = {}
    BY <1>4
  <2> QED
    BY <2>1 DEF ProgressIsTaken
<1>6. mempool = {} /\ manifest = NoManifest /\ landed = {} /\ taken = {}
  BY DEF Init
<1> QED
  BY <1>3, <1>5, <1>6 DEF TypeOK

\* The uploads change one at a time; only a chunk taken moves one on.
LEMMA UploadMoves ==
  ASSUME TypeOK, NEW u \in Uploads, NEW x \in UploadType, up' = [up EXCEPT ![u] = x]
  PROVE  /\ up' \in [Uploads -> UploadType]
         /\ \A v \in Uploads : up'[v] = IF v = u THEN x ELSE up[v]
BY DEF TypeOK

\* An upload's step keeps the record of what was taken, if it counts only what it saw taken.
LEMMA ProgressKeeps ==
  ASSUME TypeOK, ProgressIsTaken, NEW u \in Uploads, NEW x \in UploadType,
         up' = [up EXCEPT ![u] = x], x.data = up[u].data, taken \subseteq taken',
         \/ x.next = up[u].next
         \/ /\ x.next = up[u].next + 1
            /\ [content_hash |-> up[u].data, index |-> up[u].next, bytes |-> Chunk(u)] \in taken'
  PROVE  ProgressIsTaken'
<1>1. ASSUME NEW v \in Uploads, NEW i \in 1..(up'[v].next - 1)
      PROVE  [content_hash |-> up'[v].data, index |-> i, bytes |-> Chunks(up'[v].data)[i]] \in taken'
  <2>1. up'[v] = IF v = u THEN x ELSE up[v]
    BY UploadMoves
  <2>2. up'[v].data = up[v].data /\ up[v].next \in Nat
    BY <2>1 DEF TypeOK, UploadType
  <2>3. CASE i \in 1..(up[v].next - 1)
    BY <2>2, <2>3 DEF ProgressIsTaken
  <2>4. CASE i \notin 1..(up[v].next - 1)
    <3>1. v = u /\ x.next = up[u].next + 1 /\ i = up[u].next
      BY <2>1, <2>2, <2>4
    <3> QED
      BY <2>2, <3>1 DEF Chunk
  <2> QED
    BY <2>3, <2>4
<1>2. ASSUME NEW d PROVE Chunks(d)' = Chunks(d)
  BY DEF Chunks
<1> QED
  BY <1>1, <1>2 DEF ProgressIsTaken

\* A step of an upload that is not a chunk taken.
Moves(u) ==
  \E x \in UploadType : up' = [up EXCEPT ![u] = x] /\ x.data = up[u].data /\ x.next = up[u].next

\* An upload that moves on in its own call, its content and place unchanged.
LEMMA MovesFacts ==
  ASSUME TypeOK, NEW u \in Uploads, NEW at \in UploadStates, NEW late \in BOOLEAN,
         up' = [up EXCEPT ![u] = [at |-> at, data |-> up[u].data, next |-> up[u].next, late |-> late]]
  PROVE  Moves(u)
<1> DEFINE x == [at |-> at, data |-> up[u].data, next |-> up[u].next, late |-> late]
<1>1. up[u].data \in Seq(Nat) /\ up[u].next \in Nat \ {0}
  BY DEF TypeOK, UploadType
<1>2. x \in UploadType
  BY <1>1 DEF UploadType
<1>3. x.data = up[u].data /\ x.next = up[u].next
  OBVIOUS
<1> QED
  BY <1>2, <1>3 DEF Moves

\* The same of the steps that change nothing but the state.
LEMMA ToFacts ==
  ASSUME TypeOK, NEW u \in Uploads, NEW at \in UploadStates, To(u, at)
  PROVE  Moves(u)
<1>1. up[u] = [at |-> up[u].at, data |-> up[u].data, next |-> up[u].next, late |-> up[u].late]
  BY DEF TypeOK, UploadType
<1>2. up' = [up EXCEPT ![u] = [up[u] EXCEPT !.at = at]]
  BY DEF To
<1>3. [up[u] EXCEPT !.at = at] = [at |-> at, data |-> up[u].data, next |-> up[u].next, late |-> up[u].late]
  BY <1>1
<1>4. up[u].late \in BOOLEAN
  BY DEF TypeOK, UploadType
<1> QED
  BY <1>2, <1>3, <1>4, MovesFacts

\* What each step does to what the invariants are about.
Sends ==
  \E u \in Uploads :
    /\ UNCHANGED <<down, tampered>>
    /\ \/ Moves(u) /\ UNCHANGED <<manifest, landed, taken>>
          /\ mempool' \in {mempool, mempool \cup {Store(up[u].data)}}
       \/ \E t : /\ UNCHANGED <<mempool, manifest, landed>>
               /\ t = [content_hash |-> up[u].data, index |-> up[u].next, bytes |-> Chunk(u)]
               /\ up[u].next =< Len(Chunks(up[u].data))
               /\ \/ Moves(u) /\ taken' \in {taken, taken \cup {t}}
                  \/ \E x \in UploadType :
                       /\ up' = [up EXCEPT ![u] = x] /\ x.data = up[u].data
                       /\ x.next = up[u].next + 1 /\ taken' = taken \cup {t}

\* A request is a step of one upload in which the place moves only past a chunk taken.
LEMMA PostFacts ==
  ASSUME TypeOK, NEW u \in Uploads, Post(u)
  PROVE  Sends
<1> DEFINE t == [content_hash |-> up[u].data, index |-> up[u].next, bytes |-> Chunk(u)]
<1>1. PICK status \in Statuses(u) :
       /\ taken' \in
            (IF status # 200 THEN {taken} ELSE {})
            \cup (IF status = 200 \/ (status = 0 /\ 200 \in Statuses(u)) THEN {taken \cup {t}} ELSE {})
       /\ IF Took(status) THEN up' = [up EXCEPT ![u].next = @ + 1]
          ELSE To(u, IF Retries(status, up[u].late) THEN "sleeping" ELSE "failed")
  BY DEF Post
<1>2. status \in {200, 403, 503, 413, 0}
  BY DEF Statuses
<1>3. Took(status) <=> status = 200
  BY <1>2 DEF Took
<1>4. UNCHANGED <<down, mempool, manifest, landed, tampered>>
  BY DEF Post
<1>5. up[u].next =< Len(Chunks(up[u].data))
  <2>1. up[u].next \in Nat /\ Len(Chunks(up[u].data)) \in Nat /\ ~AllSent(u)
    BY ChunksFacts, CountFacts DEF TypeOK, UploadType, Post
  <2> QED
    BY <2>1 DEF AllSent
<1>6. up[u] = [at |-> up[u].at, data |-> up[u].data, next |-> up[u].next, late |-> up[u].late]
  BY DEF TypeOK, UploadType
<1>7. up[u].at \in UploadStates /\ up[u].data \in Seq(Nat) /\ up[u].next \in Nat \ {0} /\ up[u].late \in BOOLEAN
  BY DEF TypeOK, UploadType
<1> HIDE DEF t
<1>8. CASE status = 200
  <2> DEFINE x == [at |-> up[u].at, data |-> up[u].data, next |-> up[u].next + 1, late |-> up[u].late]
  <2>1. taken' = taken \cup {t}
    BY <1>1, <1>8
  <2>2. up' = [up EXCEPT ![u] = [up[u] EXCEPT !.next = up[u].next + 1]]
    BY <1>1, <1>3, <1>8
  <2>3. [up[u] EXCEPT !.next = up[u].next + 1] = x
    BY <1>6
  <2>4. x \in UploadType
    <3> up[u].next + 1 \in Nat \ {0}
      BY <1>7
    <3> QED
      BY <1>7 DEF UploadType
  <2>5. x.data = up[u].data /\ x.next = up[u].next + 1
    OBVIOUS
  <2>6. up' = [up EXCEPT ![u] = x]
    BY <2>2, <2>3
  <2> HIDE DEF x
  <2> QED
    BY <1>4, <1>5, <2>1, <2>4, <2>5, <2>6 DEF Sends, t
<1>9. CASE status # 200
  <2>1. taken' \in {taken, taken \cup {t}}
    BY <1>1, <1>9
  <2>2. To(u, IF Retries(status, up[u].late) THEN "sleeping" ELSE "failed")
    BY <1>1, <1>3, <1>9
  <2>3. Moves(u)
    <3>1. CASE Retries(status, up[u].late)
      BY <2>2, <3>1, ToFacts DEF UploadStates
    <3>2. CASE ~Retries(status, up[u].late)
      BY <2>2, <3>2, ToFacts DEF UploadStates
    <3> QED
      BY <3>1, <3>2
  <2> QED
    BY <1>4, <1>5, <2>1, <2>3 DEF Sends, t
<1> QED
  BY <1>8, <1>9

\* So is every step of an upload.
LEMMA UploadFacts ==
  ASSUME TypeOK, NEW u \in Uploads, UploadStep(u) \/ DeadlinePasses(u)
  PROVE  Sends
<1>1. CASE Submit(u)
  <2>1. PICK answer \in {"accepted", "refused", "lost"} :
          /\ To(u, IF answer = "accepted" THEN "chunks" ELSE "unsubmitted")
          /\ mempool' \in
               (IF answer = "refused" THEN {} ELSE {mempool \cup {Store(up[u].data)}})
               \cup (IF answer = "accepted" THEN {} ELSE {mempool})
    BY <1>1 DEF Submit
  <2>2. UNCHANGED <<down, manifest, taken, landed, tampered>>
    BY <1>1 DEF Submit
  <2>3. mempool' \in {mempool, mempool \cup {Store(up[u].data)}}
    BY <2>1
  <2>4. To(u, "chunks") \/ To(u, "unsubmitted")
    BY <2>1
  <2>5. Moves(u)
    BY <2>4, ToFacts DEF UploadStates
  <2> QED
    BY <2>2, <2>3, <2>5 DEF Sends
<1>2. CASE Post(u)
  BY <1>2, PostFacts
<1>3. CASE Wake(u) \/ Return(u)
  <2>1. Moves(u)
    BY <1>3, ToFacts DEF Wake, Return, UploadStates
  <2>2. UNCHANGED <<down, mempool, manifest, taken, landed, tampered>>
    BY <1>3 DEF Wake, Return, node
  <2> QED
    BY <2>1, <2>2 DEF Sends
<1>4. CASE DeadlinePasses(u)
  <2>1. PICK late \in BOOLEAN : up' = [up EXCEPT ![u] = [up[u] EXCEPT !.late = late]]
    BY <1>4, TRUE \in BOOLEAN, Zenon DEF DeadlinePasses
  <2>2. up[u] = [at |-> up[u].at, data |-> up[u].data, next |-> up[u].next, late |-> up[u].late]
        /\ up[u].at \in UploadStates
    BY DEF TypeOK, UploadType
  <2>3. [up[u] EXCEPT !.late = late]
         = [at |-> up[u].at, data |-> up[u].data, next |-> up[u].next, late |-> late]
    BY <2>2
  <2>4. up' = [up EXCEPT ![u] = [at |-> up[u].at, data |-> up[u].data, next |-> up[u].next, late |-> late]]
    BY <2>1, <2>3
  <2>5. Moves(u)
    BY <2>2, <2>4, MovesFacts
  <2>6. UNCHANGED <<down, mempool, manifest, taken, landed, tampered>>
    BY <1>4 DEF DeadlinePasses, node
  <2> QED
    BY <2>5, <2>6 DEF Sends
<1> QED
  BY <1>1, <1>2, <1>3, <1>4 DEF UploadStep

Downloads == ReadManifest \/ GetChunk \/ Check

\* Every step is an upload's, a delete's, the chain's, or the download's.
LEMMA StepFacts ==
  ASSUME TypeOK, [Next]_vars
  PROVE  Sends \/ SubmitDelete \/ Land \/ Downloads \/ UNCHANGED vars
BY UploadFacts DEF Next, Downloads

\* Steps of uploads keep the invariant.
LEMMA SendsKeep ==
  ASSUME TypeOK, ProgressIsTaken, Sends
  PROVE  TypeOK' /\ ProgressIsTaken'
<1>1. PICK u \in Uploads :
        \/ Moves(u) /\ UNCHANGED <<manifest, landed, taken>>
           /\ mempool' \in {mempool, mempool \cup {Store(up[u].data)}}
        \/ \E t : /\ UNCHANGED <<mempool, manifest, landed>>
                  /\ t = [content_hash |-> up[u].data, index |-> up[u].next, bytes |-> Chunk(u)]
                  /\ up[u].next =< Len(Chunks(up[u].data))
                  /\ \/ Moves(u) /\ taken' \in {taken, taken \cup {t}}
                     \/ \E x \in UploadType :
                          /\ up' = [up EXCEPT ![u] = x] /\ x.data = up[u].data
                          /\ x.next = up[u].next + 1 /\ taken' = taken \cup {t}
  BY DEF Sends
<1>2. up[u].data \in Seq(Nat) /\ up[u].next \in Nat \ {0} /\ Len(Chunks(up[u].data)) \in Nat
  BY ChunksFacts, CountFacts DEF TypeOK, UploadType
<1>3. CASE Moves(u) /\ UNCHANGED <<manifest, landed, taken>>
           /\ mempool' \in {mempool, mempool \cup {Store(up[u].data)}}
  <2>1. PICK x \in UploadType : up' = [up EXCEPT ![u] = x] /\ x.data = up[u].data /\ x.next = up[u].next
    BY <1>3 DEF Moves
  <2>2. ProgressIsTaken'
    BY <1>3, <2>1, ProgressKeeps
  <2>3. up' \in [Uploads -> UploadType]
    BY <2>1, UploadMoves
  <2>4. OfContent(Store(up[u].data).manifest)
    BY <1>2 DEF Store, OfContent
  <2>5. (\A t \in mempool : t.manifest = NoManifest \/ OfContent(t.manifest))'
    BY <1>3, <2>4 DEF TypeOK
  <2> QED
    BY <1>3, <2>2, <2>3, <2>5 DEF TypeOK
<1>4. ASSUME NEW t, UNCHANGED <<mempool, manifest, landed>>,
             t = [content_hash |-> up[u].data, index |-> up[u].next, bytes |-> Chunk(u)],
             up[u].next =< Len(Chunks(up[u].data)),
             \/ Moves(u) /\ taken' \in {taken, taken \cup {t}}
             \/ \E x \in UploadType :
                  /\ up' = [up EXCEPT ![u] = x] /\ x.data = up[u].data
                  /\ x.next = up[u].next + 1 /\ taken' = taken \cup {t}
      PROVE  TypeOK' /\ ProgressIsTaken'
  <2>1. Chunked(t)
    <3>1. up[u].next \in 1..Len(Chunks(up[u].data))
      BY <1>2, <1>4
    <3> QED
      BY <1>2, <1>4, <3>1 DEF Chunked, Chunk
  <2>2. taken \subseteq taken' /\ \A y \in taken' : Chunked(y)
    BY <1>4, <2>1 DEF TypeOK
  <2>3. PICK x \in UploadType :
          /\ up' = [up EXCEPT ![u] = x] /\ x.data = up[u].data
          /\ x.next = up[u].next \/ (x.next = up[u].next + 1 /\ t \in taken')
    BY <1>4 DEF Moves
  <2>4. ProgressIsTaken'
    BY <1>4, <2>2, <2>3, ProgressKeeps
  <2>5. up' \in [Uploads -> UploadType]
    BY <2>3, UploadMoves
  <2> QED
    BY <1>4, <2>2, <2>4, <2>5 DEF TypeOK
<1> QED
  BY <1>1, <1>3, <1>4

\* So does every step.
LEMMA TypeStep == TypeOK /\ ProgressIsTaken /\ [Next]_vars => TypeOK' /\ ProgressIsTaken'
<1> SUFFICES ASSUME TypeOK, ProgressIsTaken, [Next]_vars PROVE TypeOK' /\ ProgressIsTaken'
  OBVIOUS
<1>1. ASSUME UNCHANGED <<up, taken>> PROVE ProgressIsTaken'
  <2>1. ASSUME NEW d PROVE Chunks(d)' = Chunks(d)
    BY DEF Chunks
  <2> QED
    BY <1>1, <2>1 DEF ProgressIsTaken
<1>2. CASE SubmitDelete
  <2>1. UNCHANGED <<up, manifest, taken, landed>> /\ mempool' = mempool \cup {Delete}
    BY <1>2 DEF SubmitDelete
  <2>2. Delete.manifest = NoManifest
    BY DEF Delete
  <2> QED
    BY <1>1, <2>1, <2>2 DEF TypeOK
<1>3. CASE Land
  <2>1. PICK t \in mempool :
          /\ mempool' = mempool \ {t}
          /\ \/ UNCHANGED <<manifest, landed>>
             \/ manifest' = t.manifest /\ landed' = landed \cup ({t.manifest} \ {NoManifest})
    BY <1>3 DEF Land
  <2>2. UNCHANGED <<up, taken>>
    BY <1>3 DEF Land
  <2>3. t.manifest = NoManifest \/ OfContent(t.manifest)
    BY DEF TypeOK
  <2>4. (manifest = NoManifest \/ manifest \in landed)'
    BY <2>1 DEF TypeOK
  <2>5. (\A m \in landed : OfContent(m))'
    BY <2>1, <2>3 DEF TypeOK
  <2>6. (\A s \in mempool : s.manifest = NoManifest \/ OfContent(s.manifest))'
    BY <2>1 DEF TypeOK
  <2> QED
    BY <1>1, <2>2, <2>4, <2>5, <2>6 DEF TypeOK
<1>4. CASE Downloads \/ UNCHANGED vars
  <2>1. UNCHANGED <<up, mempool, manifest, taken, landed>>
    BY <1>4 DEF Downloads, ReadManifest, GetChunk, Check, vars, node
  <2> QED
    BY <1>1, <2>1 DEF TypeOK
<1> QED
  BY <1>2, <1>3, <1>4, SendsKeep, StepFacts

\* Types, and that the progress of an upload is what the node took.
THEOREM TypeInvariant == Spec => [](TypeOK /\ ProgressIsTaken)
BY TypeInit, TypeStep, PTL DEF Spec

\* The progress an upload reports when it fails is the truth: every chunk before the
\* place it names is with the storage node (chunk_index of the error).
THEOREM ProgressesAreTaken == Spec => []ProgressIsTaken
BY TypeInvariant, PTL

-----------------------------------------------------------------------------
\* No download yet.
LEMMA DownloadInit == Init => DownloadInv
BY DEF Init, DownloadInv, Download, OwnChunks, Verdicts

\* A chunk read extends the chunks collected by the one asked for.
LEMMA GetChunkKeeps ==
  ASSUME TypeOK, DownloadInv, GetChunk PROVE DownloadInv'
<1>1. /\ down.at = "chunks" /\ UNCHANGED landed
      /\ down.got \in Seq(Seq(Nat)) /\ Len(down.got) \in Nat
  BY DEF GetChunk, node, DownloadInv
<1>2. CASE down' = [down EXCEPT !.at = "unread"] /\ UNCHANGED tampered
  <2>1. down' = [at |-> "unread", manifest |-> down.manifest, got |-> down.got]
    BY <1>2 DEF DownloadInv
  <2> QED
    BY <1>1, <1>2, <2>1 DEF DownloadInv, Verdicts
<1>3. ASSUME NEW t \in taken, down' = [down EXCEPT !.got = Append(@, t.bytes)],
             \/ UNCHANGED tampered /\ t.bytes \in Held(down.manifest, Len(down.got) + 1)
             \/ tampered' = TRUE
      PROVE  DownloadInv'
  <2> DEFINE got == Append(down.got, t.bytes)
  <2>1. down' = [at |-> "chunks", manifest |-> down.manifest, got |-> got]
    BY <1>1, <1>3 DEF DownloadInv
  <2>2. t.bytes \in Seq(Nat)
    BY ChunkedFacts DEF TypeOK
  <2>3. /\ got \in Seq(Seq(Nat)) /\ Len(got) = Len(down.got) + 1
        /\ \A i \in 1..Len(down.got) : got[i] = down.got[i]
        /\ got[Len(down.got) + 1] = t.bytes
    BY <1>1, <2>2
  <2> HIDE DEF got
  <2>4. ~tampered' => OwnChunks(down.manifest, got)
    <3> SUFFICES ASSUME ~tampered', NEW i \in 1..Len(got)
                 PROVE  got[i] = Chunks(down.manifest.content_hash)[i]
      BY DEF OwnChunks
    <3>1. UNCHANGED tampered /\ t.bytes \in Held(down.manifest, Len(down.got) + 1)
      BY <1>3
    <3>2. CASE i \in 1..Len(down.got)
      BY <2>3, <3>1, <3>2 DEF DownloadInv, OwnChunks
    <3>3. CASE i = Len(down.got) + 1
      <4>1. PICK y \in taken : /\ y.bytes = t.bytes /\ y.index = i
                               /\ y.content_hash = down.manifest.content_hash
        BY <3>1, <3>3 DEF Held
      <4>2. y.bytes = Chunks(y.content_hash)[y.index]
        BY ChunkedFacts DEF TypeOK
      <4> QED
        BY <2>3, <3>3, <4>1, <4>2
    <3> QED
      BY <1>1, <2>3, <3>2, <3>3
  <2>5. down'.at = "chunks" /\ down'.manifest = down.manifest /\ down'.got = got
    BY <2>1
  <2>6. (~tampered => OwnChunks(down.manifest, down.got))'
    BY <2>4, <2>5 DEF OwnChunks, Chunks
  <2>7. "chunks" \notin Verdicts
    BY DEF Verdicts
  <2> QED
    BY <1>1, <2>1, <2>3, <2>5, <2>6, <2>7 DEF DownloadInv
<1>4. ASSUME NEW c \in Held(down.manifest, Len(down.got) + 1) PROVE \E t \in taken : c = t.bytes
  BY DEF Held
<1> QED
  BY <1>2, <1>3, <1>4 DEF GetChunk

\* The download's invariant is kept, whatever lands or is taken meanwhile.
LEMMA DownloadStep == TypeOK /\ DownloadInv /\ [Next]_vars => DownloadInv'
<1> SUFFICES ASSUME TypeOK, DownloadInv, [Next]_vars PROVE DownloadInv'
  OBVIOUS
<1>1. ASSUME UNCHANGED <<down, tampered>>, landed \subseteq landed' PROVE DownloadInv'
  <2>1. (~tampered => OwnChunks(down.manifest, down.got))'
    BY <1>1 DEF DownloadInv, OwnChunks, Chunks
  <2>2. (down.at \in Verdicts => Len(down.got) = down.manifest.chunk_count
                                 /\ down.at = Verdict(down.manifest, down.got))'
    BY <1>1 DEF DownloadInv
  <2> QED
    BY <1>1, <2>1, <2>2 DEF DownloadInv
<1>2. CASE Sends
  BY <1>1, <1>2 DEF Sends
<1>3. CASE SubmitDelete \/ Land \/ UNCHANGED vars
  BY <1>1, <1>3 DEF SubmitDelete, Land, vars
<1>4. CASE ReadManifest
  <2>1. down' = [at |-> "chunks", manifest |-> manifest, got |-> << >>] /\ UNCHANGED <<landed, tampered>>
        /\ manifest \in landed
    BY <1>4 DEF ReadManifest, Download, node, TypeOK
  <2>2. down'.at = "chunks" /\ down'.manifest = manifest /\ down'.got = << >>
    BY <2>1
  <2>3. down'.got \in Seq(Seq(Nat)) /\ Len(down'.got) = 0
    BY <2>2
  <2>4. OwnChunks(down.manifest, down.got)'
    BY <2>3 DEF OwnChunks
  <2>5. "chunks" \notin Verdicts
    BY DEF Verdicts
  <2> QED
    BY <2>1, <2>2, <2>3, <2>4, <2>5 DEF DownloadInv
<1>5. CASE GetChunk
  BY <1>5, GetChunkKeeps
<1>6. CASE Check
  <2> DEFINE at == Verdict(down.manifest, down.got)
  <2>1. /\ down.at = "chunks" /\ Len(down.got) = down.manifest.chunk_count
        /\ down' = [at |-> at, manifest |-> down.manifest, got |-> down.got]
        /\ UNCHANGED <<landed, tampered>>
    BY <1>6 DEF Check, DownloadInv, node
  <2>2. at \in Verdicts
    BY DEF Verdict, Verdicts
  <2>3. (~tampered => OwnChunks(down.manifest, down.got))'
    BY <2>1 DEF DownloadInv, OwnChunks, Chunks
  <2>4. down'.at = at /\ down'.manifest = down.manifest /\ down'.got = down.got
    BY <2>1
  <2>5. down'.at = Verdict(down'.manifest, down'.got)
    BY <2>4
  <2> HIDE DEF at
  <2> QED
    BY <2>1, <2>2, <2>3, <2>4, <2>5 DEF DownloadInv
<1> QED
  BY <1>2, <1>3, <1>4, <1>5, <1>6, StepFacts DEF Downloads

\* What a download has and what it says of it.
THEOREM DownloadInvariant == Spec => []DownloadInv
BY TypeInvariant, DownloadInit, DownloadStep, PTL DEF Spec

\* The manifest a download follows is of a content, and is what that content's
\* chunks are counted and hashed to.
LEMMA FollowsFacts ==
  ASSUME TypeOK, DownloadInv, down.at # "idle"
  PROVE  LET data == down.manifest.content_hash
         IN  /\ data \in Seq(Nat) /\ down.manifest = Manifest(data)
             /\ down.manifest.chunk_count = Len(Chunks(data))
             /\ down.manifest.root = MerkleRoot(Chunks(data))
             /\ FlattenSeq(Chunks(data)) = data
             /\ Chunks(data) \in Seq(Seq(Nat))
<1>1. PICK data \in Seq(Nat) : down.manifest = Manifest(data)
  BY DEF TypeOK, DownloadInv, OfContent
<1>2. /\ down.manifest.content_hash = data
      /\ down.manifest.chunk_count = Len(Chunks(data))
      /\ down.manifest.root = MerkleRoot(Chunks(data))
  BY <1>1 DEF Manifest
<1> QED
  BY <1>1, <1>2, FlattenChunks, ChunksFacts

\* Any chunks with the count and the root of a content are its own.
LEMMA SameChunks ==
  ASSUME NEW a \in Seq(Seq(Nat)), NEW b \in Seq(Seq(Nat)), Len(a) = Len(b)
  PROVE  /\ MerkleRoot(a) = MerkleRoot(b) => a = b
         /\ (\A i \in 1..Len(a) : a[i] = b[i]) => a = b
<1>1. List(a, Len(a)) /\ List(b, Len(a)) /\ Len(a) \in Nat
  BY DEF List
<1>2. MerkleRoot(a) = MerkleRoot(b) => a = b
  BY <1>1, MerkleRootBinds
<1>3. (\A i \in 1..Len(a) : a[i] = b[i]) => a = b
  BY <1>1 DEF List
<1> QED
  BY <1>2, <1>3

\* What the invariant says of a download's verdict.
LEMMA DownloadConclusions ==
  ASSUME TypeOK, DownloadInv
  PROVE  DownloadIsOneFile /\ HonestNeverMismatches /\ RootBindsContent
<1> DEFINE data == down.manifest.content_hash
           got == down.got
<1>1. ASSUME down.at \in Verdicts
      PROVE  /\ data \in Seq(Nat) /\ down.manifest = Manifest(data)
             /\ down.manifest \in landed
             /\ down.manifest.root = MerkleRoot(Chunks(data))
             /\ FlattenSeq(Chunks(data)) = data
             /\ Chunks(data) \in Seq(Seq(Nat)) /\ got \in Seq(Seq(Nat))
             /\ Len(got) = Len(Chunks(data))
             /\ down.at = Verdict(down.manifest, got)
  BY <1>1, FollowsFacts DEF DownloadInv, Verdicts
<1> HIDE DEF data, got
<1>2. DownloadIsOneFile
  <2> SUFFICES ASSUME down.at = "returned" PROVE Manifest(FlattenSeq(got)) \in landed
    BY DEF DownloadIsOneFile, got
  <2>1. down.at \in Verdicts
    BY DEF Verdicts
  <2>2. Verdict(down.manifest, got) = "returned"
    BY <1>1, <2>1
  <2>3. FlattenSeq(got) = data
    BY <2>2 DEF Verdict, data
  <2> QED
    BY <1>1, <2>1, <2>3
<1>3. HonestNeverMismatches
  <2> SUFFICES ASSUME ~tampered, down.at \in Verdicts PROVE down.at = "returned"
    BY DEF HonestNeverMismatches, Verdicts
  <2>1. \A i \in 1..Len(got) : got[i] = Chunks(data)[i]
    BY DEF DownloadInv, OwnChunks, got, data
  <2>2. got = Chunks(data)
    BY <1>1, <2>1, SameChunks
  <2>3. MerkleRoot(got) = down.manifest.root /\ FlattenSeq(got) = data
    BY <1>1, <2>2
  <2>4. Verdict(down.manifest, got) = "returned"
    BY <2>3 DEF Verdict, data
  <2> QED
    BY <1>1, <2>4
<1>4. RootBindsContent
  <2> SUFFICES ASSUME down.at = "content mismatch" PROVE FALSE
    BY DEF RootBindsContent
  <2>1. down.at \in Verdicts
    BY DEF Verdicts
  <2>2. Verdict(down.manifest, got) = "content mismatch"
    BY <1>1, <2>1
  <2>3. MerkleRoot(got) = MerkleRoot(Chunks(data)) /\ FlattenSeq(got) # data
    BY <1>1, <2>1, <2>2 DEF Verdict, data
  <2>4. got = Chunks(data)
    BY <1>1, <2>1, <2>3, SameChunks
  <2> QED
    BY <1>1, <2>1, <2>3, <2>4
<1> QED
  BY <1>2, <1>3, <1>4

\* What a download returns is one file whose manifest landed.
THEOREM DownloadsAreOneFile == Spec => []DownloadIsOneFile
BY TypeInvariant, DownloadInvariant, DownloadConclusions, PTL

\* An honest node's chunks never fail the checks, whatever was replaced.
THEOREM HonestNodesNeverMismatch == Spec => []HonestNeverMismatches
BY TypeInvariant, DownloadInvariant, DownloadConclusions, PTL

\* The count and the Merkle root leave no second content to be mistaken for.
THEOREM RootsBindContents == Spec => []RootBindsContent
BY TypeInvariant, DownloadInvariant, DownloadConclusions, PTL

-----------------------------------------------------------------------------
\* The recursion of a join, as far as upto.
Joins(seqs, upto, f) ==
  f = [i \in 1..upto |-> IF i = 1 THEN seqs[i] ELSE f[i - 1] \o seqs[i]]

\* There is a function that satisfies it.
LEMMA JoinsExist ==
  ASSUME NEW seqs, NEW l \in Nat
  PROVE  \E f : Joins(seqs, l, f)
<1> DEFINE Bad == {k \in Nat : ~\E f : Joins(seqs, k, f)}
<1> SUFFICES ASSUME Bad # {} PROVE FALSE
  OBVIOUS
<1>1. PICK b \in Bad : \A m \in Bad : b =< m
  <2>1. Bad \subseteq Nat
    OBVIOUS
  <2> HIDE DEF Bad
  <2> QED
    BY <2>1, LeastNat
<1>2. b \in Nat /\ ~\E f : Joins(seqs, b, f)
  OBVIOUS
<1>3. CASE b = 0
  <2> DEFINE f == [i \in 1..0 |-> seqs[i]]
  <2>1. Joins(seqs, 0, f)
    BY DEF Joins
  <2> QED
    BY <1>2, <1>3, <2>1
<1>4. CASE b # 0
  <2>1. b - 1 \in Nat /\ b - 1 \notin Bad
    BY <1>1, <1>2, <1>4
  <2>2. PICK f : Joins(seqs, b - 1, f)
    BY <2>1
  <2> DEFINE g == [i \in 1..b |-> IF i < b THEN f[i]
                                  ELSE IF b = 1 THEN seqs[b] ELSE f[b - 1] \o seqs[b]]
  <2>3. ASSUME NEW i \in 1..b
        PROVE  g[i] = IF i = 1 THEN seqs[i] ELSE g[i - 1] \o seqs[i]
    <3>1. CASE i < b
      <4>1. i \in 1..(b - 1) /\ (i # 1 => i - 1 \in 1..b /\ i - 1 < b) /\ g[i] = f[i]
        BY <1>2, <3>1
      <4>2. f[i] = IF i = 1 THEN seqs[i] ELSE f[i - 1] \o seqs[i]
        BY <2>2, <4>1 DEF Joins
      <4>3. i # 1 => g[i - 1] = f[i - 1]
        BY <4>1
      <4> HIDE DEF g
      <4> QED
        BY <4>1, <4>2, <4>3
    <3>2. CASE i = b
      <4>1. i # 1 => i - 1 \in 1..b /\ i - 1 < b
        BY <1>2, <1>4, <3>2
      <4>2. i # 1 => g[i - 1] = f[b - 1]
        BY <3>2, <4>1
      <4>3. g[i] = IF b = 1 THEN seqs[b] ELSE f[b - 1] \o seqs[b]
        BY <3>2
      <4> HIDE DEF g
      <4> QED
        BY <3>2, <4>2, <4>3
    <3> QED
      BY <1>2, <3>1, <3>2
  <2>4. g = [i \in 1..b |-> g[i]]
    OBVIOUS
  <2> HIDE DEF g
  <2>5. Joins(seqs, b, g)
    BY <2>3, <2>4 DEF Joins
  <2> QED
    BY <1>2, <2>5
<1> QED
  BY <1>3, <1>4

\* Two sequences joined.
LEMMA ConcatFacts ==
  ASSUME NEW x \in Seq(Nat), NEW z \in Seq(Nat)
  PROVE  /\ x \o z \in Seq(Nat) /\ Len(x) \in Nat /\ Len(z) \in Nat
         /\ Len(x \o z) = Len(x) + Len(z)
         /\ \A j \in 1..Len(x) : (x \o z)[j] = x[j]
         /\ \A j \in 1..Len(z) : (x \o z)[Len(x) + j] = z[j]
OBVIOUS

\* Where each of the sequences starts in their join.
Starts(seqs, at) ==
  /\ at \in [1..Len(seqs) -> Nat]
  /\ Len(seqs) > 0 => /\ at[1] = 0
                      /\ at[Len(seqs)] + Len(seqs[Len(seqs)]) = Len(FlattenSeq(seqs))
  /\ \A i \in 1..Len(seqs) : i > 1 => at[i] = at[i - 1] + Len(seqs[i - 1])
  /\ \A i \in 1..Len(seqs) :
       /\ at[i] + Len(seqs[i]) =< Len(FlattenSeq(seqs))
       /\ \A j \in 1..Len(seqs[i]) : FlattenSeq(seqs)[at[i] + j] = seqs[i][j]

\* In a join every part is found where the parts before it end.
LEMMA FlattenStarts ==
  ASSUME NEW seqs \in Seq(Seq(Nat))
  PROVE  FlattenSeq(seqs) \in Seq(Nat) /\ \E at : Starts(seqs, at)
<1> DEFINE n == Len(seqs)
<1>0. n \in Nat /\ \A i \in 1..n : seqs[i] \in Seq(Nat) /\ Len(seqs[i]) \in Nat
  OBVIOUS
<1>1. CASE n = 0
  <2>1. seqs = << >> /\ FlattenSeq(seqs) = << >>
    BY <1>1 DEF FlattenSeq
  <2> DEFINE at == [i \in 1..n |-> 0]
  <2>2. Starts(seqs, at)
    BY <1>1 DEF Starts
  <2>3. FlattenSeq(seqs) \in Seq(Nat)
    <3>1. \A t : t = << >> => t \in Seq(Nat)
      OBVIOUS
    <3> QED
      BY <2>1, <3>1
  <2> HIDE DEF at
  <2> QED
    BY <2>2, <2>3
<1>2. CASE n # 0
  <2>1. PICK f : Joins(seqs, n, f)
    BY <1>0, JoinsExist
  <2>2. FlattenSeq(seqs) = f[n]
    BY <1>0, <1>2, <2>1, FlattenIs DEF Joins
  <2>3. ASSUME NEW i \in 1..n
        PROVE  f[i] = IF i = 1 THEN seqs[i] ELSE f[i - 1] \o seqs[i]
    BY <2>1 DEF Joins
  <2> HIDE DEF n
  <2> DEFINE Good(m) ==
        /\ f[m] \in Seq(Nat)
        /\ \A i \in 1..m : /\ Len(f[i]) \in Nat /\ Len(f[i]) =< Len(f[m])
                           /\ \A j \in 1..Len(f[i]) : f[m][j] = f[i][j]
             Bad == {m \in 1..n : ~Good(m)}
  <2>4. Bad = {}
    <3> SUFFICES ASSUME Bad # {} PROVE FALSE
      OBVIOUS
    <3>1. PICK b \in Bad : \A m \in Bad : b =< m
      <4>1. Bad \subseteq Nat
        OBVIOUS
      <4> HIDE DEF Bad
      <4> QED
        BY <4>1, LeastNat
    <3>2. b \in 1..n /\ ~Good(b)
      BY <3>1
    <3>3. CASE b = 1
      <4>1. f[1] = seqs[1] /\ seqs[1] \in Seq(Nat)
        BY <1>0, <2>3, <3>2, <3>3
      <4>2. Good(1)
        BY <4>1
      <4> QED
        BY <3>2, <3>3, <4>2
    <3>4. CASE b # 1
      <4>1. b - 1 \in 1..n /\ b - 1 \notin Bad
        BY <1>0, <3>1, <3>2, <3>4
      <4>2. Good(b - 1)
        BY <4>1
      <4>3. f[b] = f[b - 1] \o seqs[b] /\ seqs[b] \in Seq(Nat) /\ f[b - 1] \in Seq(Nat)
        BY <1>0, <2>3, <3>2, <3>4, <4>2
      <4> DEFINE x == f[b - 1] y == f[b]
      <4>a. y = x \o seqs[b] /\ x \in Seq(Nat) /\ seqs[b] \in Seq(Nat)
        BY <4>3
      <4>b. /\ x \o seqs[b] \in Seq(Nat) /\ Len(x) \in Nat /\ Len(seqs[b]) \in Nat
            /\ Len(x \o seqs[b]) = Len(x) + Len(seqs[b])
            /\ \A j \in 1..Len(x) : (x \o seqs[b])[j] = x[j]
        <5> HIDE DEF x
        <5> QED
          BY <4>a, ConcatFacts
      <4>4. /\ y \in Seq(Nat) /\ Len(x) \in Nat /\ Len(y) \in Nat /\ Len(x) =< Len(y)
            /\ \A j \in 1..Len(x) : y[j] = x[j]
        <5> HIDE DEF x, y
        <5> QED
          BY <4>a, <4>b
      <4>5. \A i \in 1..(b - 1) : /\ Len(f[i]) \in Nat /\ Len(f[i]) =< Len(x)
                                  /\ \A j \in 1..Len(f[i]) : x[j] = f[i][j]
        BY <4>2
      <4> HIDE DEF x
      <4>6. ASSUME NEW i \in 1..b
            PROVE  /\ Len(f[i]) \in Nat /\ Len(f[i]) =< Len(y)
                   /\ \A j \in 1..Len(f[i]) : y[j] = f[i][j]
        <5>1. CASE i = b
          BY <4>4, <5>1
        <5>2. CASE i # b
          <6>1. i \in 1..(b - 1)
            BY <1>0, <3>2, <5>2
          <6>2. Len(f[i]) \in Nat /\ Len(f[i]) =< Len(x)
                /\ \A j \in 1..Len(f[i]) : x[j] = f[i][j]
            BY <4>5, <6>1
          <6> HIDE DEF y
          <6> QED
            BY <4>4, <6>2
        <5> QED
          BY <5>1, <5>2
      <4>7. Good(b)
        BY <4>4, <4>6
      <4> QED
        BY <3>2, <4>7
    <3> QED
      BY <3>3, <3>4
  <2>5. ASSUME NEW m \in 1..n PROVE Good(m)
    BY <2>4
  <2> DEFINE at == [i \in 1..n |-> IF i = 1 THEN 0 ELSE Len(f[i - 1])]
  <2>6. n \in 1..n /\ f[n] \in Seq(Nat) /\ Len(f[n]) \in Nat
    BY <1>0, <1>2, <2>5
  <2>7. ASSUME NEW i \in 1..n
        PROVE  /\ at[i] \in Nat /\ f[i] \in Seq(Nat)
               /\ Len(f[i]) = at[i] + Len(seqs[i])
               /\ \A j \in 1..Len(seqs[i]) : f[i][at[i] + j] = seqs[i][j]
               /\ i > 1 => at[i] = Len(f[i - 1])
    <3>1. f[i] \in Seq(Nat) /\ seqs[i] \in Seq(Nat)
      BY <1>0, <2>5
    <3>2. CASE i = 1
      <4>1. f[1] = seqs[1] /\ at[1] = 0
        BY <2>3, <3>2
      <4> HIDE DEF at
      <4> QED
        BY <3>1, <3>2, <4>1
    <3>3. CASE i # 1
      <4>1. i - 1 \in 1..n /\ i > 1
        BY <1>0, <3>3
      <4>2. f[i - 1] \in Seq(Nat) /\ f[i] = f[i - 1] \o seqs[i] /\ at[i] = Len(f[i - 1])
        BY <2>3, <2>5, <3>3, <4>1
      <4> DEFINE x == f[i - 1]
      <4>3. x \in Seq(Nat) /\ f[i] = x \o seqs[i] /\ at[i] = Len(x)
        BY <4>2
      <4> HIDE DEF at, x
      <4>4. /\ x \o seqs[i] \in Seq(Nat) /\ Len(x) \in Nat
            /\ Len(x \o seqs[i]) = Len(x) + Len(seqs[i])
            /\ \A j \in 1..Len(seqs[i]) : (x \o seqs[i])[Len(x) + j] = seqs[i][j]
        BY <3>1, <4>3, ConcatFacts
      <4> QED
        BY <3>1, <4>1, <4>2, <4>3, <4>4
    <3> QED
      BY <3>2, <3>3
  <2>8. /\ n \in Nat /\ at \in [1..n -> Nat] /\ at[1] = 0
    BY <1>0, <2>6, <2>7
  <2> HIDE DEF at
  <2>9. ASSUME NEW i \in 1..n
        PROVE  /\ at[i] + Len(seqs[i]) =< Len(f[n])
               /\ \A j \in 1..Len(seqs[i]) : f[n][at[i] + j] = seqs[i][j]
    <3>1. /\ at[i] \in Nat /\ Len(f[i]) = at[i] + Len(seqs[i])
          /\ \A j \in 1..Len(seqs[i]) : f[i][at[i] + j] = seqs[i][j]
      BY <2>7
    <3>2. Len(f[i]) =< Len(f[n]) /\ \A j \in 1..Len(f[i]) : f[n][j] = f[i][j]
      <4>1. Good(n) /\ i \in 1..n
        BY <2>5, <2>6
      <4> QED
        BY <4>1
    <3>3. ASSUME NEW j \in 1..Len(seqs[i]) PROVE f[n][at[i] + j] = seqs[i][j]
      <4>1. at[i] + j \in 1..Len(f[i])
        BY <1>0, <3>1
      <4> QED
        BY <3>1, <3>2, <4>1
    <3> QED
      BY <3>1, <3>2, <3>3
  <2>10. ASSUME NEW i \in 1..n, i > 1 PROVE at[i] = at[i - 1] + Len(seqs[i - 1])
    <3>1. i - 1 \in 1..n
      BY <1>0, <2>10
    <3> QED
      BY <2>7, <2>10, <3>1
  <2>11. at[n] + Len(seqs[n]) = Len(f[n])
    BY <2>6, <2>7
  <2>12. Starts(seqs, at)
    BY <2>2, <2>8, <2>9, <2>10, <2>11 DEF Starts, n
  <2> QED
    BY <2>2, <2>6, <2>12
<1> QED
  BY <1>1, <1>2

\* A join of as many sequences, each no prefix of what the other join has in
\* its place unless it is the same, is the join of no others.
LEMMA FlattenInjective ==
  ASSUME NEW A \in Seq(Seq(Nat)), NEW B \in Seq(Seq(Nat)),
         Len(A) = Len(B), FlattenSeq(A) = FlattenSeq(B),
         \A i \in 1..Len(A) :
           (\A j \in 1..Len(A[i]) : j \in 1..Len(B[i]) => A[i][j] = B[i][j]) => A[i] = B[i]
  PROVE  A = B
<1>1. PICK at : Starts(A, at)
  BY FlattenStarts
<1>2. PICK bt : Starts(B, bt)
  BY FlattenStarts
<1>0. /\ Len(A) \in Nat
      /\ \A i \in 1..Len(A) : /\ A[i] \in Seq(Nat) /\ B[i] \in Seq(Nat)
                              /\ Len(A[i]) \in Nat /\ Len(B[i]) \in Nat
  OBVIOUS
<1> DEFINE Same(i) == at[i] = bt[i] /\ A[i] = B[i]
           Bad == {i \in 1..Len(A) : ~Same(i)}
<1>3. Bad = {}
  <2> SUFFICES ASSUME Bad # {} PROVE FALSE
    OBVIOUS
  <2>1. PICK b \in Bad : \A m \in Bad : b =< m
    <3>1. Bad \subseteq Nat
      OBVIOUS
    <3> HIDE DEF Bad
    <3> QED
      BY <3>1, LeastNat
  <2>2. b \in 1..Len(A) /\ ~Same(b)
    BY <2>1
  <2>3. at[b] = bt[b]
    <3>1. CASE b = 1
      <4>1. at[1] = 0 /\ bt[1] = 0
        BY <1>0, <1>1, <1>2, <2>2 DEF Starts
      <4> QED
        BY <3>1, <4>1
    <3>2. CASE b # 1
      <4>0. Len(A) \in Nat /\ b \in 1..Len(A)
        BY <1>0, <2>2
      <4>1. b - 1 \in 1..Len(A) /\ ~(b =< b - 1)
        BY <3>2, <4>0, PlaceBefore
      <4>2. Same(b - 1)
        <5>1. b - 1 \notin Bad
          <6> HIDE DEF Bad
          <6> QED
            BY <2>1, <4>1
        <5> HIDE DEF Same
        <5> QED
          BY <4>1, <5>1
      <4>3. at[b] = at[b - 1] + Len(A[b - 1]) /\ bt[b] = bt[b - 1] + Len(B[b - 1])
        <5>1. b > 1 /\ b \in 1..Len(B)
          BY <1>0, <3>2, <4>0
        <5>2. at[b] = at[b - 1] + Len(A[b - 1])
          BY <1>1, <4>0, <5>1, Zenon DEF Starts
        <5>3. bt[b] = bt[b - 1] + Len(B[b - 1])
          BY <1>2, <5>1, Zenon DEF Starts
        <5> QED
          BY <5>2, <5>3
      <4> QED
        BY <4>2, <4>3
    <3> QED
      BY <3>1, <3>2
  <2>4. ASSUME NEW j \in 1..Len(A[b]), j \in 1..Len(B[b]) PROVE A[b][j] = B[b][j]
    <3>1. FlattenSeq(A)[at[b] + j] = A[b][j]
      BY <1>1, <2>2 DEF Starts
    <3>2. FlattenSeq(B)[bt[b] + j] = B[b][j]
      BY <1>2, <2>2, <2>4 DEF Starts
    <3> QED
      BY <2>3, <3>1, <3>2
  <2>5. A[b] = B[b]
    BY <2>2, <2>4
  <2> QED
    BY <2>2, <2>3, <2>5
<1>4. \A i \in 1..Len(A) : A[i] = B[i]
  BY <1>3
<1>5. A = [i \in 1..Len(A) |-> A[i]] /\ B = [i \in 1..Len(A) |-> B[i]]
  OBVIOUS
<1> QED
  BY <1>4, <1>5

\* Joins of as many sequences of the same lengths are of the same length.
LEMMA FlattenLength ==
  ASSUME NEW A \in Seq(Seq(Nat)), NEW B \in Seq(Seq(Nat)),
         Len(A) = Len(B), \A i \in 1..Len(A) : Len(A[i]) = Len(B[i])
  PROVE  Len(FlattenSeq(A)) = Len(FlattenSeq(B))
<1>1. PICK at : Starts(A, at)
  BY FlattenStarts
<1>2. PICK bt : Starts(B, bt)
  BY FlattenStarts
<1>0. Len(A) \in Nat
  OBVIOUS
<1> DEFINE Bad == {i \in 1..Len(A) : at[i] # bt[i]}
<1>3. Bad = {}
  <2> SUFFICES ASSUME Bad # {} PROVE FALSE
    OBVIOUS
  <2>1. PICK b \in Bad : \A m \in Bad : b =< m
    <3>1. Bad \subseteq Nat
      OBVIOUS
    <3> HIDE DEF Bad
    <3> QED
      BY <3>1, LeastNat
  <2>2. b \in 1..Len(A) /\ at[b] # bt[b]
    BY <2>1
  <2>3. CASE b = 1
    <3>1. at[1] = 0 /\ bt[1] = 0
      BY <1>0, <1>1, <1>2, <2>2 DEF Starts
    <3> QED
      BY <2>2, <2>3, <3>1
  <2>4. CASE b # 1
    <3>1. b - 1 \in 1..Len(A) /\ b - 1 \notin Bad
      BY <1>0, <2>1, <2>2, <2>4
    <3>2. at[b - 1] = bt[b - 1] /\ Len(A[b - 1]) = Len(B[b - 1])
      BY <3>1
    <3>3. at[b] = at[b - 1] + Len(A[b - 1]) /\ bt[b] = bt[b - 1] + Len(B[b - 1])
      BY <1>0, <1>1, <1>2, <2>2, <2>4 DEF Starts
    <3> QED
      BY <2>2, <3>2, <3>3
  <2> QED
    BY <2>3, <2>4
<1>4. CASE Len(A) = 0
  <2>1. \A t \in Seq(Seq(Nat)) : Len(t) = 0 => t = << >>
    OBVIOUS
  <2>2. A = << >> /\ B = << >>
    BY <1>4, <2>1
  <2> QED
    BY <2>2
<1>5. CASE Len(A) # 0
  <2>1. Len(A) \in 1..Len(A) /\ Len(A) > 0
    BY <1>0, <1>5
  <2>2. at[Len(A)] = bt[Len(A)] /\ Len(A[Len(A)]) = Len(B[Len(A)])
    BY <1>3, <2>1
  <2>3. /\ at[Len(A)] + Len(A[Len(A)]) = Len(FlattenSeq(A))
        /\ bt[Len(A)] + Len(B[Len(A)]) = Len(FlattenSeq(B))
    BY <1>1, <1>2, <2>1 DEF Starts
  <2> QED
    BY <2>2, <2>3
<1> QED
  BY <1>4, <1>5

\* Three sequences joined with a number between them.
Joined(a, c, t, d, z) == a \o <<c>> \o t \o <<d>> \o z

\* What is where in it.
Layout(x, a, c, t, d, z) ==
  /\ x \in Seq(Nat)
  /\ Len(x) = Len(a) + Len(t) + Len(z) + 2
  /\ \A j \in 1..Len(a) : x[j] = a[j]
  /\ x[Len(a) + 1] = c
  /\ \A j \in 1..Len(t) : x[Len(a) + 1 + j] = t[j]
  /\ x[Len(a) + 1 + Len(t) + 1] = d
  /\ \A j \in 1..Len(z) : x[Len(a) + Len(t) + 2 + j] = z[j]

\* What stands where in the bytes of a log.
LEMMA JoinedFacts ==
  ASSUME NEW a \in Seq(Nat), NEW c \in Nat, NEW t \in Seq(Nat), NEW d \in Nat, NEW z \in Seq(Nat)
  PROVE  Layout(Joined(a, c, t, d, z), a, c, t, d, z)
<1> DEFINE x == Joined(a, c, t, d, z)
           p == a \o <<c>>
           q == p \o t
           r == q \o <<d>>
<1>0. Len(a) \in Nat /\ Len(t) \in Nat /\ Len(z) \in Nat
  OBVIOUS
<1>1. \A v \in Nat : <<v>> \in Seq(Nat) /\ Len(<<v>>) = 1 /\ <<v>>[1] = v
  OBVIOUS
<1>2. /\ p \in Seq(Nat) /\ Len(p) = Len(a) + 1
      /\ \A j \in 1..Len(a) : p[j] = a[j]
      /\ p[Len(a) + 1] = c
  BY <1>1, ConcatFacts
<1> HIDE DEF p
<1>3. /\ q \in Seq(Nat) /\ Len(q) = Len(p) + Len(t)
      /\ \A j \in 1..Len(p) : q[j] = p[j]
      /\ \A j \in 1..Len(t) : q[Len(p) + j] = t[j]
  BY <1>2, ConcatFacts
<1> HIDE DEF q
<1>4. /\ r \in Seq(Nat) /\ Len(r) = Len(q) + 1
      /\ \A j \in 1..Len(q) : r[j] = q[j]
      /\ r[Len(q) + 1] = d
  <2> DEFINE e == <<d>>
  <2>1. e \in Seq(Nat) /\ Len(e) = 1 /\ e[1] = d /\ 1 \in 1..Len(e) /\ r = q \o e
    BY <1>1
  <2> HIDE DEF e, r
  <2>2. /\ q \o e \in Seq(Nat) /\ Len(q \o e) = Len(q) + Len(e)
        /\ \A j \in 1..Len(q) : (q \o e)[j] = q[j]
        /\ \A j \in 1..Len(e) : (q \o e)[Len(q) + j] = e[j]
    BY <1>3, <2>1, ConcatFacts
  <2> QED
    BY <2>1, <2>2
<1>5. x = r \o z
  BY DEF Joined, p, q, r, x
<1> HIDE DEF r, x
<1>a. /\ r \o z \in Seq(Nat) /\ Len(r \o z) = Len(r) + Len(z)
      /\ \A j \in 1..Len(r) : (r \o z)[j] = r[j]
      /\ \A j \in 1..Len(z) : (r \o z)[Len(r) + j] = z[j]
  BY <1>4, ConcatFacts
<1>6. /\ x \in Seq(Nat) /\ Len(x) = Len(r) + Len(z)
      /\ \A j \in 1..Len(r) : x[j] = r[j]
      /\ \A j \in 1..Len(z) : x[Len(r) + j] = z[j]
  BY <1>5, <1>a
<1>b. /\ Len(p) = Len(a) + 1 /\ Len(q) = Len(a) + 1 + Len(t)
      /\ Len(r) = Len(a) + 2 + Len(t)
  BY <1>0, <1>2, <1>3, <1>4
<1>7. ASSUME NEW j \in 1..Len(a) PROVE x[j] = a[j]
  <2>1. j \in 1..Len(p) /\ j \in 1..Len(q) /\ j \in 1..Len(r)
    BY <1>0, <1>2, <1>3, <1>4
  <2> QED
    BY <1>2, <1>3, <1>4, <1>6, <2>1
<1>8. x[Len(a) + 1] = c
  <2> DEFINE j == Len(a) + 1
  <2>1. j \in 1..Len(p) /\ j \in 1..Len(q) /\ j \in 1..Len(r)
    BY <1>0, <1>b
  <2>2. x[j] = r[j] /\ r[j] = q[j] /\ q[j] = p[j]
    BY <1>3, <1>4, <1>6, <2>1
  <2> QED
    BY <1>2, <2>2
<1>9. ASSUME NEW j \in 1..Len(t) PROVE x[Len(a) + 1 + j] = t[j]
  <2> DEFINE k == Len(p) + j
  <2>1. k \in 1..Len(q) /\ k \in 1..Len(r) /\ k = Len(a) + 1 + j
    BY <1>0, <1>2, <1>3, <1>4
  <2>2. x[k] = r[k] /\ r[k] = q[k]
    BY <1>4, <1>6, <2>1
  <2>3. q[k] = t[j]
    BY <1>3
  <2> HIDE DEF k
  <2> QED
    BY <2>1, <2>2, <2>3
<1>10. x[Len(a) + 1 + Len(t) + 1] = d
  <2>1. /\ Len(q) + 1 \in 1..Len(r)
        /\ Len(a) + 1 + Len(t) + 1 = Len(q) + 1
    BY <1>0, <1>2, <1>3, <1>4
  <2>2. x[Len(q) + 1] = r[Len(q) + 1]
    BY <1>6, <2>1
  <2> QED
    BY <1>4, <2>1, <2>2
<1>11. ASSUME NEW j \in 1..Len(z) PROVE x[Len(a) + Len(t) + 2 + j] = z[j]
  <2>1. Len(a) + Len(t) + 2 + j = Len(r) + j
    BY <1>0, <1>2, <1>3, <1>4
  <2> QED
    BY <1>6, <2>1
<1>12. Len(x) = Len(a) + Len(t) + Len(z) + 2
  BY <1>0, <1>2, <1>3, <1>4, <1>6
<1>13. Layout(x, a, c, t, d, z)
  BY <1>6, <1>7, <1>8, <1>9, <1>10, <1>11, <1>12 DEF Layout
<1> QED
  BY <1>13 DEF x

-----------------------------------------------------------------------------
\* What the block's logs, and the logs that pass the first check, are.
GoodLogs == {log \in Logs : WellFormed(log)}

\* The parts of a log.
LEMMA LogFacts ==
  ASSUME NEW log \in GoodLogs
  PROVE  /\ log \in Logs /\ WellFormed(log)
         /\ log.address \in Seq(Nat) /\ Len(log.address) = AddressLen
         /\ log.topics \in Seq(Seq(Nat)) /\ Len(log.topics) \in Nat
         /\ FlattenSeq(log.topics) \in Seq(Nat) /\ Len(FlattenSeq(log.topics)) \in Nat
         /\ \A i \in 1..Len(log.topics) : Len(log.topics[i]) = TopicLen
         /\ log.data \in Seq(Nat) /\ Len(log.data) \in Nat
         /\ log = [address |-> log.address, topics |-> log.topics, data |-> log.data]
<1>1. log \in Logs /\ WellFormed(log)
  BY DEF GoodLogs
<1>2. /\ log.address \in Seq(Nat) /\ log.topics \in Seq(Seq(Nat)) /\ log.data \in Seq(Nat)
      /\ log = [address |-> log.address, topics |-> log.topics, data |-> log.data]
  BY <1>1 DEF Logs
<1>3. Len(log.address) = AddressLen /\ \A i \in DOMAIN log.topics : Len(log.topics[i]) = TopicLen
  BY <1>1 DEF WellFormed
<1>4. DOMAIN log.topics = 1..Len(log.topics) /\ Len(log.topics) \in Nat /\ Len(log.data) \in Nat
  BY <1>2
<1>5. \A s \in Seq(Nat) : Len(s) \in Nat
  OBVIOUS
<1>6. FlattenSeq(log.topics) \in Seq(Nat)
  BY <1>2, FlattenStarts
<1> QED
  BY <1>1, <1>2, <1>3, <1>4, <1>5, <1>6

\* The bytes of a log are sequences of numbers.
LEMMA CanonicalIs ==
  ASSUME NEW log \in GoodLogs
  PROVE  LET x == CanonicalBytes(log)
             a == AddressLen
             t == FlattenSeq(log.topics)
         IN /\ x \in Seq(Nat)
            /\ Len(x) = a + Len(t) + Len(log.data) + 2
            /\ \A j \in 1..a : x[j] = log.address[j]
            /\ x[a + 1] = Len(log.topics)
            /\ \A j \in 1..Len(t) : x[a + 1 + j] = t[j]
            /\ x[a + 1 + Len(t) + 1] = Len(log.data)
            /\ \A j \in 1..Len(log.data) : x[a + Len(t) + 2 + j] = log.data[j]
<1> DEFINE x == CanonicalBytes(log)
           e == log.address
           c == Len(log.topics)
           t == FlattenSeq(log.topics)
           d == Len(log.data)
           z == log.data
<1>1. x = Joined(e, c, t, d, z)
  BY DEF CanonicalBytes, Joined
<1>2. e \in Seq(Nat) /\ c \in Nat /\ t \in Seq(Nat) /\ d \in Nat /\ z \in Seq(Nat)
      /\ Len(e) = AddressLen /\ Len(z) = d
  BY LogFacts
<1> HIDE DEF x, e, c, t, d, z
<1>3. Layout(x, e, c, t, d, z)
  BY <1>1, <1>2, JoinedFacts
<1>4. /\ x \in Seq(Nat)
      /\ Len(x) = AddressLen + Len(t) + d + 2
      /\ \A j \in 1..AddressLen : x[j] = e[j]
      /\ x[AddressLen + 1] = c
      /\ \A j \in 1..Len(t) : x[AddressLen + 1 + j] = t[j]
      /\ x[AddressLen + 1 + Len(t) + 1] = d
      /\ \A j \in 1..d : x[AddressLen + Len(t) + 2 + j] = z[j]
  BY <1>2, <1>3 DEF Layout
<1> QED
  BY <1>4 DEF x, e, c, t, d, z

\* The bytes of a log are no beginning of another log's, nor are they another's.
LEMMA CanonicalPrefix ==
  ASSUME NEW k \in GoodLogs, NEW m \in GoodLogs,
         \A j \in 1..Len(CanonicalBytes(k)) :
           j \in 1..Len(CanonicalBytes(m)) => CanonicalBytes(k)[j] = CanonicalBytes(m)[j]
  PROVE  k = m
<1> DEFINE x == CanonicalBytes(k)
           y == CanonicalBytes(m)
           a == AddressLen
           t == FlattenSeq(k.topics)
           u == FlattenSeq(m.topics)
           v == k.data
           w == m.data
<1>0. AddressLen \in Nat
  BY CompletenessAssumption
<1>1. /\ Len(x) = a + Len(t) + Len(v) + 2
      /\ \A j \in 1..a : x[j] = k.address[j]
      /\ x[a + 1] = Len(k.topics)
      /\ \A j \in 1..Len(t) : x[a + 1 + j] = t[j]
      /\ x[a + 1 + Len(t) + 1] = Len(v)
      /\ \A j \in 1..Len(v) : x[a + Len(t) + 2 + j] = v[j]
  BY CanonicalIs
<1>2. /\ Len(y) = a + Len(u) + Len(w) + 2
      /\ \A j \in 1..a : y[j] = m.address[j]
      /\ y[a + 1] = Len(m.topics)
      /\ \A j \in 1..Len(u) : y[a + 1 + j] = u[j]
      /\ y[a + 1 + Len(u) + 1] = Len(w)
      /\ \A j \in 1..Len(w) : y[a + Len(u) + 2 + j] = w[j]
  BY CanonicalIs
<1>3. /\ k.address \in Seq(Nat) /\ Len(k.address) = a /\ k.topics \in Seq(Seq(Nat))
      /\ Len(k.topics) \in Nat /\ t \in Seq(Nat) /\ Len(t) \in Nat
      /\ \A i \in 1..Len(k.topics) : Len(k.topics[i]) = TopicLen
      /\ v \in Seq(Nat) /\ Len(v) \in Nat
      /\ k = [address |-> k.address, topics |-> k.topics, data |-> v]
  BY LogFacts
<1>4. /\ m.address \in Seq(Nat) /\ Len(m.address) = a /\ m.topics \in Seq(Seq(Nat))
      /\ Len(m.topics) \in Nat /\ u \in Seq(Nat) /\ Len(u) \in Nat
      /\ \A i \in 1..Len(m.topics) : Len(m.topics[i]) = TopicLen
      /\ w \in Seq(Nat) /\ Len(w) \in Nat
      /\ m = [address |-> m.address, topics |-> m.topics, data |-> w]
  BY LogFacts
<1>5. \A j \in 1..Len(x) : j \in 1..Len(y) => x[j] = y[j]
  OBVIOUS
<1>6. \A p, q \in Seq(Nat) : Len(p) = Len(q) /\ (\A j \in 1..Len(p) : p[j] = q[j]) => p = q
  BY SeqsEqual
<1> HIDE DEF x, y, a, t, u, v, w
<1>7. a \in Nat
  BY <1>0 DEF a
<1>a. Len(t) \in Nat /\ Len(u) \in Nat /\ Len(v) \in Nat /\ Len(w) \in Nat
  BY <1>3, <1>4
<1>b. Len(x) = a + Len(t) + Len(v) + 2 /\ Len(y) = a + Len(u) + Len(w) + 2
  BY <1>1, <1>2
<1>c. Len(x) \in Nat /\ Len(y) \in Nat
  BY <1>7, <1>a, <1>b
<1>8. k.address = m.address
  <2>1. \A j \in 1..a : j \in 1..Len(x) /\ j \in 1..Len(y)
    BY <1>7, <1>a, <1>b, <1>c
  <2>2. \A j \in 1..a : k.address[j] = m.address[j]
    BY <1>1, <1>2, <1>5, <2>1
  <2> QED
    BY <1>3, <1>4, <1>6, <2>2
<1>9. Len(k.topics) = Len(m.topics)
  <2>1. a + 1 \in 1..Len(x) /\ a + 1 \in 1..Len(y)
    BY <1>7, <1>a, <1>b, <1>c
  <2> QED
    BY <1>1, <1>2, <1>5, <2>1
<1>10. Len(t) = Len(u)
  BY <1>3, <1>4, <1>9, FlattenLength DEF t, u
<1>11. t = u
  <2>1. \A j \in 1..Len(t) : a + 1 + j \in 1..Len(x) /\ a + 1 + j \in 1..Len(y) /\ j \in 1..Len(u)
    BY <1>7, <1>a, <1>b, <1>c, <1>10
  <2>2. \A j \in 1..Len(t) : t[j] = u[j]
    BY <1>1, <1>2, <1>5, <2>1
  <2> QED
    BY <1>3, <1>4, <1>6, <1>10, <2>2
<1>12. k.topics = m.topics
  <2>1. ASSUME NEW i \in 1..Len(k.topics),
               \A j \in 1..Len(k.topics[i]) :
                 j \in 1..Len(m.topics[i]) => k.topics[i][j] = m.topics[i][j]
        PROVE  k.topics[i] = m.topics[i]
    <3>1. /\ k.topics[i] \in Seq(Nat) /\ m.topics[i] \in Seq(Nat)
          /\ Len(k.topics[i]) = TopicLen /\ Len(m.topics[i]) = TopicLen
      BY <1>3, <1>4, <1>9
    <3> QED
      BY <1>6, <2>1, <3>1
  <2> QED
    BY <1>3, <1>4, <1>9, <1>11, <2>1, FlattenInjective DEF t, u
<1>13. Len(v) = Len(w)
  <2> DEFINE j == a + 1 + Len(t) + 1
  <2>1. j \in 1..Len(x) /\ j \in 1..Len(y)
    BY <1>7, <1>a, <1>b, <1>c, <1>10
  <2>2. x[j] = y[j]
    BY <1>5, <2>1
  <2>3. x[j] = Len(v) /\ y[j] = Len(w)
    BY <1>1, <1>2, <1>10
  <2> HIDE DEF j
  <2> QED
    BY <2>2, <2>3
<1>14. v = w
  <2>1. \A j \in 1..Len(v) : /\ a + Len(t) + 2 + j \in 1..Len(x)
                                  /\ a + Len(t) + 2 + j \in 1..Len(y)
    BY <1>7, <1>a, <1>b, <1>c, <1>10, <1>13
  <2>2. \A j \in 1..Len(v) : v[j] = w[j]
    BY <1>1, <1>2, <1>5, <1>10, <1>13, <2>1
  <2> QED
    BY <1>3, <1>4, <1>6, <1>13, <2>2
<1> QED
  BY <1>3, <1>4, <1>8, <1>12, <1>14

\* No two sequences of logs have one hash.
LEMMA EventSetHashBinds ==
  ASSUME NEW K \in Seq(GoodLogs), NEW M \in Seq(GoodLogs), EventSetHash(K) = EventSetHash(M)
  PROVE  K = M
<1> DEFINE A == [i \in DOMAIN K |-> CanonicalBytes(K[i])]
           B == [i \in DOMAIN M |-> CanonicalBytes(M[i])]
<1>1. Len(K) = Len(M) /\ FlattenSeq(A) = FlattenSeq(B)
  BY DEF EventSetHash
<1>2. /\ DOMAIN K = 1..Len(K) /\ DOMAIN M = 1..Len(K) /\ Len(K) \in Nat
      /\ \A i \in 1..Len(K) : K[i] \in GoodLogs /\ M[i] \in GoodLogs
  BY <1>1
<1>3. \A log \in GoodLogs : CanonicalBytes(log) \in Seq(Nat)
  BY CanonicalIs
<1>4. /\ A = [i \in 1..Len(K) |-> CanonicalBytes(K[i])]
      /\ B = [i \in 1..Len(K) |-> CanonicalBytes(M[i])]
  BY <1>2
<1>5. \A i \in 1..Len(K) : A[i] = CanonicalBytes(K[i]) /\ B[i] = CanonicalBytes(M[i])
  BY <1>4
<1>6. A \in Seq(Seq(Nat)) /\ B \in Seq(Seq(Nat)) /\ Len(A) = Len(K) /\ Len(B) = Len(K)
  BY <1>2, <1>3, <1>4
<1> HIDE DEF A, B
<1>7. ASSUME NEW i \in 1..Len(K),
             \A j \in 1..Len(A[i]) : j \in 1..Len(B[i]) => A[i][j] = B[i][j]
      PROVE  K[i] = M[i]
  BY <1>2, <1>5, <1>7, CanonicalPrefix
<1>8. \A i \in 1..Len(A) :
        (\A j \in 1..Len(A[i]) : j \in 1..Len(B[i]) => A[i][j] = B[i][j]) => A[i] = B[i]
  BY <1>5, <1>6, <1>7
<1>9. A = B
  BY <1>1, <1>6, <1>8, FlattenInjective
<1>10. \A i \in 1..Len(K) : K[i] = M[i]
  BY <1>7, <1>9
<1>11. K = [i \in 1..Len(K) |-> K[i]] /\ M = [i \in 1..Len(K) |-> M[i]]
  BY <1>1
<1> QED
  BY <1>10, <1>11

\* The logs the indexer sent, as they are hashed.
Sent(entries) == [i \in DOMAIN entries |-> Decoded(entries[i])]

\* What a check has read is the block's own commitment, and what it says is
\* how that compares with the hash of what it was sent.
DoneInv ==
  /\ matched \in Seq(GoodLogs)
  /\ doneAt \in {"anchored", "complete", "tampered"} =>
       committed = TRUE /\ anchor = EventSetHash(matched)
  /\ doneAt = "complete" => Sent(served) \in Seq(GoodLogs) /\ EventSetHash(Sent(served)) = anchor
  /\ doneAt = "tampered" => EventSetHash(Sent(served)) # anchor

\* A field that may be missing, decoded.
LEMMA OrEmptyFacts ==
  ASSUME NEW S, NEW field \in Seq(Seq(S))
  PROVE  OrEmpty(field) \in Seq(S)
<1>1. CASE field = << >>
  BY <1>1 DEF OrEmpty
<1>2. CASE field # << >>
  BY <1>2 DEF OrEmpty
<1> QED
  BY <1>1, <1>2

\* Logs that pass the first check are ones whose hash is their own.
LEMMA SentIsGood ==
  ASSUME NEW entries \in Seq(Entries),
         \A i \in DOMAIN Sent(entries) : WellFormed(Sent(entries)[i])
  PROVE  Sent(entries) \in Seq(GoodLogs)
<1>1. DOMAIN entries = 1..Len(entries) /\ Len(entries) \in Nat
  OBVIOUS
<1>2. Sent(entries) = [i \in 1..Len(entries) |-> Decoded(entries[i])]
  BY <1>1 DEF Sent
<1>3. ASSUME NEW i \in 1..Len(entries) PROVE Decoded(entries[i]) \in GoodLogs
  <2>1. entries[i] \in Entries
    OBVIOUS
  <2>2. /\ entries[i].address \in Seq(Nat)
        /\ entries[i].topics \in Seq(Seq(Seq(Nat))) /\ entries[i].data \in Seq(Seq(Nat))
    BY <2>1 DEF Entries
  <2>3. OrEmpty(entries[i].topics) \in Seq(Seq(Nat)) /\ OrEmpty(entries[i].data) \in Seq(Nat)
    BY <2>2, OrEmptyFacts
  <2>4. Decoded(entries[i]) \in Logs
    BY <2>2, <2>3 DEF Decoded, Logs
  <2>5. WellFormed(Decoded(entries[i]))
    BY <1>2
  <2> QED
    BY <2>4, <2>5 DEF GoodLogs
<1> QED
  BY <1>1, <1>2, <1>3

\* No step of a completeness check loses the invariant.
LEMMA DoneStep == DoneInv /\ [DoneNext]_doneVars => DoneInv'
<1> SUFFICES ASSUME DoneInv, [DoneNext]_doneVars PROVE DoneInv'
  OBVIOUS
<1>1. CASE Commit
  BY <1>1 DEF Commit, DoneInv
<1>2. ASSUME NEW outcome \in {"error", "invalid"}, End(outcome) PROVE DoneInv'
  BY <1>2 DEF End, DoneInv
<1>3. CASE FetchAnchor
  <2>1. CASE "consensus_rpc_url" \in urls /\ committed
    <3>1. /\ doneAt' = "anchored" /\ anchor' = EventSetHash(matched) /\ committed
          /\ UNCHANGED <<urls, matched, committed, served>>
      BY <1>3, <2>1 DEF FetchAnchor
    <3>2. doneAt' # "complete" /\ doneAt' # "tampered"
      BY <3>1
    <3>3. matched' \in Seq(GoodLogs) /\ anchor' = EventSetHash(matched')
      BY <3>1 DEF DoneInv, EventSetHash
    <3> QED
      BY <3>1, <3>2, <3>3 DEF DoneInv
  <2>2. CASE ~("consensus_rpc_url" \in urls /\ committed)
    BY <1>2, <1>3, <2>2 DEF FetchAnchor
  <2> QED
    BY <2>1, <2>2
<1>4. CASE AnchorFails
  BY <1>2, <1>4 DEF AnchorFails
<1>5. CASE Compare
  <2>1. PICK entries \in ServedLogs :
          /\ served' = entries
          /\ doneAt' = IF \E i \in DOMAIN Sent(entries) : ~WellFormed(Sent(entries)[i]) THEN "invalid"
                       ELSE IF EventSetHash(Sent(entries)) = anchor THEN "complete" ELSE "tampered"
    BY <1>5 DEF Compare, Sent
  <2>2. doneAt = "anchored" /\ UNCHANGED <<urls, matched, committed, anchor>>
    BY <1>5 DEF Compare
  <2>3. entries \in Seq(Entries)
    BY CompletenessAssumption
  <2>4. committed' /\ matched' \in Seq(GoodLogs) /\ anchor' = EventSetHash(matched')
    BY <2>2 DEF DoneInv
  <2>5. CASE \E i \in DOMAIN Sent(entries) : ~WellFormed(Sent(entries)[i])
    BY <2>1, <2>4, <2>5 DEF DoneInv
  <2>6. CASE ~\E i \in DOMAIN Sent(entries) : ~WellFormed(Sent(entries)[i])
    <3>1. Sent(served') \in Seq(GoodLogs)
      BY <2>1, <2>3, <2>6, SentIsGood
    <3>2. /\ EventSetHash(Sent(served')) = anchor' => doneAt' = "complete"
          /\ EventSetHash(Sent(served')) # anchor' => doneAt' = "tampered"
      BY <2>1, <2>2, <2>6
    <3> QED
      BY <2>4, <3>1, <3>2 DEF DoneInv
  <2> QED
    BY <2>5, <2>6
<1>6. CASE LogsFail
  BY <1>2, <1>6 DEF LogsFail
<1>7. CASE UNCHANGED doneVars
  BY <1>7 DEF doneVars, DoneInv
<1> QED
  BY <1>1, <1>3, <1>4, <1>5, <1>6, <1>7 DEF DoneNext

\* A completeness check reads the block's own commitment and reports how it
\* compares with the hash of what it was sent.
THEOREM DoneInvariant == DoneSpec => []DoneInv
<1>1. DoneInit => DoneInv
  BY CompletenessAssumption DEF DoneInit, DoneInv, GoodLogs
<1> QED
  BY <1>1, DoneStep, PTL DEF DoneSpec

\* Logs are called complete exactly when they are the block's, for every set
\* of logs and everything an indexer may send.
THEOREM CompleteLogsAreTheChains == DoneSpec => []CompleteIsChains
<1>1. DoneInv => CompleteIsChains
  <2> SUFFICES ASSUME DoneInv PROVE CompleteIsChains
    OBVIOUS
  <2>1. doneAt = "complete" => Sent(served) = matched
    BY EventSetHashBinds DEF DoneInv
  <2>2. doneAt = "tampered" => Sent(served) # matched
    BY DEF DoneInv
  <2>3. doneAt \in {"complete", "tampered"} => committed
    BY DEF DoneInv
  <2> QED
    BY <2>1, <2>2, <2>3 DEF CompleteIsChains, Sent
<1> QED
  BY <1>1, DoneInvariant, PTL

-----------------------------------------------------------------------------
\* The cached list, and the list of a validator's answer, are sequences.
IsList(data) == \E n \in Nat : DOMAIN data = 1..n
IsCache(c) == c = [data |-> c.data, at |-> c.at] /\ IsList(c.data) /\ c.at \in Int
Replies == {NoReply} \cup [list : Listings, at : Nat]
Places == {"idle", "listing", "indexer", "validator", "done"}

\* An eviction leaves a list of the same age.
LEMMA EvictedFacts ==
  ASSUME NEW c, IsCache(c), NEW did
  PROVE  IsCache(Evicted(c, did)) /\ Evicted(c, did).at = c.at
<1> DEFINE S == {i \in DOMAIN c.data : c.data[i].did # did}
<1>1. PICK n \in Nat : DOMAIN c.data = 1..n
  BY DEF IsCache, IsList
<1>2. Cardinality(S) \in Nat
  <2>1. S \subseteq 1..n /\ IsFiniteSet(1..n)
    BY <1>1, FS_Interval
  <2> HIDE DEF S
  <2>2. IsFiniteSet(S)
    BY <2>1, FS_Subset
  <2> QED
    BY <2>2, FS_CardinalityType
<1>3. Evicted(c, did) = [c EXCEPT !.data = Evicted(c, did).data]
      /\ DOMAIN Evicted(c, did).data = 1..Cardinality(S)
  BY DEF Evicted, InOrder, IsCache
<1> HIDE DEF S
<1>4. IsList(Evicted(c, did).data)
  BY <1>2, <1>3 DEF IsList
<1>5. /\ Evicted(c, did) = [data |-> Evicted(c, did).data, at |-> c.at]
      /\ Evicted(c, did).at = c.at
  BY <1>3 DEF IsCache
<1> QED
  BY <1>4, <1>5 DEF IsCache

\* A lookup returns a sequence.
LEMMA CandidatesFacts ==
  ASSUME NEW data, IsList(data)
  PROVE  \E T : Candidates(data) \in Seq(T)
<1> DEFINE S == {i \in DOMAIN data : data[i].serves}
           T == {Candidates(data)[r] : r \in 1..Cardinality(S)}
<1>1. PICK n \in Nat : DOMAIN data = 1..n
  BY DEF IsList
<1>2. Cardinality(S) \in Nat
  <2>1. S \subseteq 1..n /\ IsFiniteSet(1..n)
    BY <1>1, FS_Interval
  <2> HIDE DEF S
  <2>2. IsFiniteSet(S)
    BY <2>1, FS_Subset
  <2> QED
    BY <2>2, FS_CardinalityType
<1>3. /\ Candidates(data) = [r \in 1..Cardinality(S) |-> Candidates(data)[r]]
  BY DEF Candidates, InOrder
<1>4. Candidates(data) \in [1..Cardinality(S) -> T]
  BY <1>3
<1> HIDE DEF S, T
<1>5. Candidates(data) \in Seq(T)
  BY <1>2, <1>4
<1> QED
  BY <1>5

\* So is what the validator makes.
LEMMA ListingIsList == \A l \in Listings : IsList(l)
<1> SUFFICES ASSUME NEW l \in Listings PROVE IsList(l)
  OBVIOUS
<1>1. l \in Seq([did : Indexers, serves : BOOLEAN, score : Nat])
  BY ListingsAssumption
<1>2. Len(l) \in Nat /\ DOMAIN l = 1..Len(l)
  BY <1>1
<1> QED
  BY <1>2 DEF IsList

\* What makes a list young: the age of the cache counts from before the
\* validator made what is cached.
YoungInv ==
  /\ now \in Nat
  /\ pc \in [Queries -> Places] /\ asked \in [Queries -> Nat] /\ reply \in [Queries -> Replies]
  /\ madeAt \in Int /\ IsCache(cache)
  /\ cache.at = -Ttl \/ cache.at =< madeAt
  /\ \A q \in Queries :
       /\ asked[q] =< now
       /\ pc[q] = "idle" => reply[q] = NoReply
       /\ reply[q] # NoReply => asked[q] =< reply[q].at

\* Each query gave up the candidates before the one it is at, in their order.
Prefix(T, off, tr) ==
  /\ off \in Seq(T) /\ tr \in Seq(T) /\ Len(tr) =< Len(off)
  /\ \A i \in 1..Len(tr) : tr[i] = off[i]
AtIndexer(off, tr, l) ==
  /\ Len(tr) >= 1 /\ Len(l) >= 1 /\ Len(tr) + Len(l) - 1 = Len(off)
  /\ \A i \in 1..Len(l) : l[i] = off[Len(tr) - 1 + i]
RouteOf(p, res, fb, off, tr, l) ==
  /\ \E T : Prefix(T, off, tr) /\ (p = "indexer" => l \in Seq(T) /\ AtIndexer(off, tr, l))
  /\ p \in {"idle", "listing"} => off = << >> /\ tr = << >>
  /\ p = "validator" \/ res \in {"validator", "nodata", "noindexers"} => tr = off
  /\ p # "done" => res = "none"
  /\ res = "validator" => (fb <=> tr # << >>)
RouteInv ==
  /\ pc \in [Queries -> Places] /\ result \in [Queries -> Results]
  /\ fallback \in [Queries -> BOOLEAN]
  /\ left = [q \in Queries |-> left[q]] /\ offered = [q \in Queries |-> offered[q]]
  /\ tried = [q \in Queries |-> tried[q]]
  /\ \A q \in Queries :
       RouteOf(pc[q], result[q], fallback[q], offered[q], tried[q], left[q])

\* An empty cache is young.
LEMMA YoungInit == RouteInit => YoungInv
<1> SUFFICES ASSUME RouteInit PROVE YoungInv
  OBVIOUS
<1>1. IsList(<< >>)
  <2>1. DOMAIN << >> = 1..0
    OBVIOUS
  <2> QED
    BY <2>1 DEF IsList
<1>2. IsCache(cache) /\ cache.at = -Ttl /\ -Ttl \in Int
  BY <1>1, TtlAssumption DEF RouteInit, NoCache, IsCache
<1> QED
  BY <1>2 DEF RouteInit, YoungInv, Places, Replies

\* A lookup, an answer and a failure move a query from one place to another.
LEMMA TryRestPlaces ==
  ASSUME NEW q \in Queries, NEW s, NEW rest, pc \in [Queries -> Places], TryRest(q, s, rest)
  PROVE  pc' \in [Queries -> Places] /\ pc'[q] # "idle" /\ \A o \in Queries \ {q} : pc'[o] = pc[o]
BY DEF TryRest, Finish, Places

\* Every step of a routed query keeps what makes a list young.
LEMMA YoungStep == YoungInv /\ [RouteNext]_routeVars => YoungInv'
<1> SUFFICES ASSUME YoungInv, [RouteNext]_routeVars PROVE YoungInv'
  OBVIOUS
<1>0. /\ now \in Nat /\ madeAt \in Int /\ IsCache(cache) /\ Ttl \in Nat
      /\ pc \in [Queries -> Places] /\ asked \in [Queries -> Nat] /\ reply \in [Queries -> Replies]
      /\ cache.at = -Ttl \/ cache.at =< madeAt
      /\ \A q \in Queries :
           /\ asked[q] =< now
           /\ pc[q] = "idle" => reply[q] = NoReply
           /\ reply[q] # NoReply => asked[q] =< reply[q].at
  BY TtlAssumption DEF YoungInv
<1>1. ASSUME NEW q \in Queries, NEW s \in QuerySource, Call(q, s)
      PROVE  YoungInv'
  <2>1. pc[q] = "idle" /\ UNCHANGED <<override, cache, now, reply, fallback, madeAt>>
    BY <1>1 DEF Call
  <2>2. pc' \in [Queries -> Places] /\ pc'[q] # "idle" /\ \A o \in Queries \ {q} : pc'[o] = pc[o]
    BY <1>0, <1>1, TryRestPlaces DEF Call, LookedUp, Places
  <2>3. asked' = asked \/ asked' = [asked EXCEPT ![q] = now]
    BY <1>1 DEF Call
  <2>4. asked' \in [Queries -> Nat] /\ \A o \in Queries : asked'[o] =< now'
    BY <1>0, <2>1, <2>3
  <2>5. reply[q] = NoReply /\ \A o \in Queries \ {q} : asked'[o] = asked[o]
    BY <1>0, <2>1, <2>3
  <2> QED
    BY <1>0, <2>1, <2>2, <2>4, <2>5 DEF YoungInv
<1>2. ASSUME NEW q \in Queries, MakeList(q) PROVE YoungInv'
  <2>1. PICK l \in Listings : reply' = [reply EXCEPT ![q] = [list |-> l, at |-> now]]
    BY <1>2 DEF MakeList
  <2>2. pc[q] = "listing" /\ UNCHANGED <<cache, now, pc, asked, madeAt>>
    BY <1>2 DEF MakeList
  <2>3. /\ reply' \in [Queries -> Replies] /\ reply'[q].at = now
        /\ \A o \in Queries \ {q} : reply'[o] = reply[o]
    BY <1>0, <2>1 DEF Replies
  <2> QED
    BY <1>0, <2>2, <2>3 DEF YoungInv
<1>3. ASSUME NEW q \in Queries, Listed(q) PROVE YoungInv'
  <2>1. /\ pc[q] = "listing" /\ reply[q] # NoReply
        /\ cache' = Fetched(reply[q].list, asked[q]) /\ madeAt' = reply[q].at
        /\ UNCHANGED <<override, now, routed, lookup, fallback>>
    BY <1>3 DEF Listed
  <2>2. pc' \in [Queries -> Places] /\ pc'[q] # "idle" /\ \A o \in Queries \ {q} : pc'[o] = pc[o]
    BY <1>0, <1>3, TryRestPlaces DEF Listed, LookedUp
  <2>3. reply[q].list \in Listings /\ reply[q].at \in Nat
    BY <1>0, <2>1 DEF Replies
  <2>4. IsList(reply[q].list)
    BY <2>3, ListingIsList
  <2>5. IsCache(cache') /\ cache'.at = asked[q]
    BY <1>0, <2>1, <2>4 DEF IsCache, Fetched
  <2> QED
    BY <1>0, <2>1, <2>2, <2>3, <2>5 DEF YoungInv, lookup
<1>4. ASSUME NEW q \in Queries, NEW r, Finish(q, r),
             UNCHANGED <<override, cache, now, routed, lookup, left, offered, tried, madeAt>>
      PROVE  YoungInv'
  <2>1. pc' \in [Queries -> Places] /\ pc'[q] # "idle" /\ \A o \in Queries \ {q} : pc'[o] = pc[o]
    BY <1>0, <1>4 DEF Finish, Places
  <2> QED
    BY <1>0, <1>4, <2>1 DEF YoungInv, lookup
<1>5. ASSUME NEW q \in Queries, NotListed(q) \/ IndexerAnswers(q) \/ ValidatorAnswers(q) \/ ValidatorFails(q)
      PROVE  YoungInv'
  BY <1>4, <1>5 DEF NotListed, IndexerAnswers, ValidatorAnswers, ValidatorFails
<1>6. ASSUME NEW c, c \in {cache, NoCache} \/ \E i : c = Evicted(cache, i)
      PROVE  IsCache(c) /\ (c.at = -Ttl \/ c.at =< madeAt)
  <2>1. CASE c = cache
    BY <1>0, <2>1
  <2>2. CASE c = NoCache
    <3>1. DOMAIN << >> = 1..0
      OBVIOUS
    <3>2. IsList(<< >>)
      BY <3>1 DEF IsList
    <3> QED
      BY <1>0, <2>2, <3>2 DEF NoCache, IsCache
  <2>3. ASSUME NEW i, c = Evicted(cache, i) PROVE IsCache(c) /\ c.at = cache.at
    BY <1>0, <2>3, EvictedFacts
  <2> QED
    BY <1>0, <1>6, <2>1, <2>2, <2>3
<1>7. ASSUME NEW q \in Queries, IndexerFails(q) PROVE YoungInv'
  <2>1. IsCache(cache') /\ (cache'.at = -Ttl \/ cache'.at =< madeAt)
    BY <1>6, <1>7 DEF IndexerFails
  <2>2. pc' \in [Queries -> Places] /\ pc'[q] # "idle" /\ \A o \in Queries \ {q} : pc'[o] = pc[o]
    BY <1>0, <1>7, TryRestPlaces DEF IndexerFails
  <2>3. UNCHANGED <<now, lookup, madeAt>>
    BY <1>7 DEF IndexerFails
  <2> QED
    BY <1>0, <2>1, <2>2, <2>3 DEF YoungInv, lookup
<1>8. CASE Forget
  <2>1. IsCache(cache') /\ (cache'.at = -Ttl \/ cache'.at =< madeAt)
    BY <1>6, <1>8 DEF Forget
  <2>2. UNCHANGED <<now, pc, lookup, madeAt>>
    BY <1>8 DEF Forget
  <2> QED
    BY <1>0, <2>1, <2>2 DEF YoungInv, lookup
<1>9. CASE Tick
  BY <1>0, <1>9 DEF Tick, YoungInv, lookup
<1>10. CASE UNCHANGED routeVars
  BY <1>0, <1>10 DEF routeVars, YoungInv, lookup
<1>11. RouteNext => \/ \E q \in Queries : \E s \in QuerySource : Call(q, s)
                    \/ \E q \in Queries : Advance(q)
                    \/ Forget \/ Tick
  BY DEF RouteNext
<1> QED
  BY <1>1, <1>2, <1>3, <1>5, <1>7, <1>8, <1>9, <1>10, <1>11 DEF Advance

\* What one query's step leaves of the others.
Others(q) ==
  \A o \in Queries \ {q} :
    /\ pc'[o] = pc[o] /\ result'[o] = result[o] /\ fallback'[o] = fallback[o]
    /\ left'[o] = left[o] /\ offered'[o] = offered[o] /\ tried'[o] = tried[o]
Shape ==
  /\ pc \in [Queries -> Places] /\ result \in [Queries -> Results]
  /\ fallback \in [Queries -> BOOLEAN]
  /\ left = [q \in Queries |-> left[q]] /\ offered = [q \in Queries |-> offered[q]]
  /\ tried = [q \in Queries |-> tried[q]]

\* A step of one query disturbs no other.
LEMMA RouteFrame ==
  ASSUME RouteInv, NEW q \in Queries, Shape', Others(q),
         RouteOf(pc'[q], result'[q], fallback'[q], offered'[q], tried'[q], left'[q])
  PROVE  RouteInv'
<1>1. ASSUME NEW o \in Queries
      PROVE  RouteOf(pc'[o], result'[o], fallback'[o], offered'[o], tried'[o], left'[o])
  <2>1. CASE o = q
    BY <2>1
  <2>2. CASE o # q
    <3>1. /\ pc'[o] = pc[o] /\ result'[o] = result[o] /\ fallback'[o] = fallback[o]
          /\ left'[o] = left[o] /\ offered'[o] = offered[o] /\ tried'[o] = tried[o]
      BY <2>2 DEF Others
    <3>2. RouteOf(pc[o], result[o], fallback[o], offered[o], tried[o], left[o])
      BY DEF RouteInv
    <3> QED
      BY <3>1, <3>2
  <2> QED
    BY <2>1, <2>2
<1> QED
  BY <1>1 DEF RouteInv, Shape

\* Queries that have not begun.
LEMMA RouteInitial == RouteInit => RouteInv
<1> SUFFICES ASSUME RouteInit PROVE RouteInv
  OBVIOUS
<1>1. Shape
  BY DEF RouteInit, Shape, Places, Results
<1>2. << >> \in Seq({}) /\ Len(<< >>) = 0
  OBVIOUS
<1>3. ASSUME NEW q \in Queries
      PROVE  RouteOf(pc[q], result[q], fallback[q], offered[q], tried[q], left[q])
  <2>1. /\ pc[q] = "idle" /\ result[q] = "none" /\ offered[q] = << >> /\ tried[q] = << >>
    BY DEF RouteInit
  <2>2. Prefix({}, offered[q], tried[q])
    BY <1>2, <2>1 DEF Prefix
  <2>3. \E T : Prefix(T, offered[q], tried[q])
                /\ (pc[q] = "indexer" => left[q] \in Seq(T) /\ AtIndexer(offered[q], tried[q], left[q]))
    BY <2>1, <2>2
  <2> QED
    BY <2>1, <2>3 DEF RouteOf
<1> QED
  BY <1>1, <1>3 DEF RouteInv, Shape

\* Equal sequences of one set are prefixes.
LEMMA PrefixOfItself ==
  ASSUME NEW T, NEW off \in Seq(T)
  PROVE  Prefix(T, off, off)
BY DEF Prefix

\* A lookup's first candidate is sent the query, or there is none.
LEMMA LookedUpKeeps ==
  ASSUME RouteInv, NEW q \in Queries, NEW s, NEW c, \E T : c \in Seq(T),
         pc[q] \in {"idle", "listing"}, LookedUp(q, s, c), fallback' = fallback
  PROVE  RouteInv'
<1>1. PICK T : c \in Seq(T)
  OBVIOUS
<1>2. Shape /\ tried[q] = << >> /\ offered[q] = << >> /\ result[q] = "none"
  <2>1. RouteOf(pc[q], result[q], fallback[q], offered[q], tried[q], left[q])
    BY DEF RouteInv
  <2>2. pc[q] # "done"
    OBVIOUS
  <2> QED
    BY <2>1, <2>2 DEF RouteInv, Shape, RouteOf
<1>3. /\ left' = [left EXCEPT ![q] = c] /\ offered' = [offered EXCEPT ![q] = c]
      /\ fallback' = fallback
  BY DEF LookedUp, TryRest
<1>4. CASE c # << >>
  <2>1. /\ pc' = [pc EXCEPT ![q] = "indexer"] /\ result' = result
        /\ tried' = [tried EXCEPT ![q] = Append(tried[q], Head(c))]
    BY <1>4 DEF LookedUp, TryRest
  <2>2. Shape' /\ Others(q)
    BY <1>2, <1>3, <2>1 DEF Shape, Others, Places
  <2>3. /\ pc'[q] = "indexer" /\ result'[q] = "none" /\ left'[q] = c /\ offered'[q] = c
        /\ tried'[q] = Append(<< >>, Head(c))
    BY <1>2, <1>3, <2>1 DEF Shape
  <2> DEFINE tr == Append(<< >>, Head(c))
  <2>4. /\ tr \in Seq(T) /\ Len(tr) = 1 /\ tr[1] = c[1] /\ Len(c) \in Nat /\ Len(c) >= 1
    BY <1>1, <1>4
  <2> HIDE DEF tr
  <2>5. Prefix(T, c, tr)
    BY <1>1, <2>4 DEF Prefix
  <2>6. AtIndexer(c, tr, c)
    BY <2>4 DEF AtIndexer
  <2>7. RouteOf("indexer", "none", fallback'[q], c, tr, c)
    <3>1. \E U : Prefix(U, c, tr) /\ ("indexer" = "indexer" => c \in Seq(U) /\ AtIndexer(c, tr, c))
      BY <1>1, <2>5, <2>6
    <3> QED
      BY <3>1 DEF RouteOf
  <2>8. RouteOf(pc'[q], result'[q], fallback'[q], offered'[q], tried'[q], left'[q])
    BY <2>3, <2>7 DEF tr
  <2> QED
    BY <2>2, <2>8, RouteFrame
<1>5. CASE c = << >>
  <2>1. /\ tried' = tried
        /\ \/ pc' = [pc EXCEPT ![q] = "validator"] /\ result' = result
           \/ /\ pc' = [pc EXCEPT ![q] = "done"]
              /\ result' = [result EXCEPT ![q] = "noindexers"]
    BY <1>5 DEF LookedUp, TryRest, Finish
  <2>2. Shape' /\ Others(q)
    <3>1. CASE pc' = [pc EXCEPT ![q] = "validator"] /\ result' = result
      BY <1>2, <1>3, <2>1, <3>1 DEF Shape, Others, Places
    <3>2. CASE /\ pc' = [pc EXCEPT ![q] = "done"]
               /\ result' = [result EXCEPT ![q] = "noindexers"]
      BY <1>2, <1>3, <2>1, <3>2 DEF Shape, Others, Places, Results
    <3> QED
      BY <2>1, <3>1, <3>2
  <2>3. /\ offered'[q] = << >> /\ tried'[q] = << >>
        /\ \/ pc'[q] = "validator" /\ result'[q] = "none"
           \/ pc'[q] = "done" /\ result'[q] = "noindexers"
    BY <1>2, <1>3, <1>5, <2>1 DEF Shape
  <2>4. Prefix(T, offered'[q], tried'[q])
    BY <1>1, <1>5, <2>3, PrefixOfItself
  <2>5. \E U : /\ Prefix(U, offered'[q], tried'[q])
               /\ pc'[q] = "indexer" => left'[q] \in Seq(U) /\ AtIndexer(offered'[q], tried'[q], left'[q])
    BY <2>3, <2>4
  <2>6. RouteOf(pc'[q], result'[q], fallback'[q], offered'[q], tried'[q], left'[q])
    BY <2>3, <2>5 DEF RouteOf
  <2> QED
    BY <2>2, <2>6, RouteFrame
<1> QED
  BY <1>4, <1>5

\* The next candidate is sent the query, or all were.
LEMMA FailsKeeps ==
  ASSUME RouteInv, NEW q \in Queries, IndexerFails(q)
  PROVE  RouteInv'
<1> DEFINE off == offered[q]
           tr == tried[q]
           l == left[q]
           rest == Tail(left[q])
<1>1. /\ pc[q] = "indexer" /\ UNCHANGED <<fallback, offered>>
      /\ TryRest(q, routed[q], rest)
  BY DEF IndexerFails
<1>2. Shape /\ RouteOf(pc[q], result[q], fallback[q], off, tr, l)
  BY DEF RouteInv, Shape
<1>3. PICK T : Prefix(T, off, tr) /\ l \in Seq(T) /\ AtIndexer(off, tr, l)
  BY <1>1, <1>2 DEF RouteOf
<1>4. result[q] = "none"
  BY <1>1, <1>2 DEF RouteOf
<1>5. /\ off \in Seq(T) /\ tr \in Seq(T) /\ l \in Seq(T)
      /\ Len(off) \in Nat /\ Len(tr) \in Nat /\ Len(l) \in Nat
      /\ Len(tr) =< Len(off) /\ Len(tr) >= 1 /\ Len(l) >= 1 /\ Len(tr) + Len(l) - 1 = Len(off)
      /\ \A i \in 1..Len(tr) : tr[i] = off[i]
      /\ \A i \in 1..Len(l) : l[i] = off[Len(tr) - 1 + i]
  <2> HIDE DEF off, tr, l
  <2> QED
    BY <1>3 DEF Prefix, AtIndexer
<1>6. left' = [left EXCEPT ![q] = rest]
  BY <1>1 DEF TryRest
<1>7. /\ rest \in Seq(T) /\ Len(rest) = Len(l) - 1
      /\ \A i \in 1..Len(rest) : rest[i] = l[i + 1]
  <2>1. rest = Tail(l) /\ l # << >>
    BY <1>5
  <2> HIDE DEF rest, l
  <2> QED
    BY <1>5, <2>1
<1>a. /\ Len(off) \in Nat /\ Len(tr) \in Nat /\ Len(l) \in Nat /\ Len(tr) >= 1
      /\ Len(tr) + Len(l) - 1 = Len(off) /\ Len(rest) = Len(l) - 1
  <2> HIDE DEF off, tr, l, rest
  <2> QED
    BY <1>5, <1>7
<1>8. CASE rest # << >>
  <2>1. /\ pc' = [pc EXCEPT ![q] = "indexer"] /\ result' = result
        /\ tried' = [tried EXCEPT ![q] = Append(tried[q], Head(rest))]
    BY <1>1, <1>8 DEF TryRest
  <2>2. Shape' /\ Others(q)
    BY <1>1, <1>2, <1>6, <2>1 DEF Shape, Others, Places
  <2> DEFINE nt == Append(tr, Head(rest))
  <2>3. /\ pc'[q] = "indexer" /\ result'[q] = "none" /\ left'[q] = rest /\ offered'[q] = off
        /\ tried'[q] = nt
    BY <1>1, <1>2, <1>4, <1>6, <2>1 DEF Shape
  <2> HIDE DEF off, tr, l, rest
  <2>4. Len(rest) >= 1 /\ Head(rest) = rest[1] /\ Head(rest) \in T
    BY <1>7, <1>8
  <2>5. /\ nt \in Seq(T) /\ Len(nt) = Len(tr) + 1 /\ nt[Len(tr) + 1] = rest[1]
        /\ \A i \in 1..Len(tr) : nt[i] = tr[i]
    BY <1>5, <2>4
  <2> HIDE DEF nt
  <2>6. rest[1] = off[Len(tr) + 1]
    <3>1. rest[1] = l[2] /\ 2 \in 1..Len(l)
      BY <1>5, <1>7, <2>4
    <3>2. Len(tr) - 1 + 2 = Len(tr) + 1
      BY <1>5
    <3> QED
      BY <1>5, <3>1, <3>2
  <2>7. Prefix(T, off, nt)
    <3>1. Len(nt) =< Len(off)
      BY <1>5, <1>7, <2>4, <2>5
    <3>2. ASSUME NEW i \in 1..Len(nt) PROVE nt[i] = off[i]
      <4>1. i \in 1..Len(tr) \/ i = Len(tr) + 1
        BY <1>5, <2>5
      <4> QED
        BY <1>5, <2>5, <2>6, <4>1
    <3> QED
      BY <1>5, <2>5, <3>1, <3>2 DEF Prefix
  <2>8. AtIndexer(off, nt, rest)
    <3>1. Len(nt) >= 1 /\ Len(nt) + Len(rest) - 1 = Len(off)
      <4>1. Len(nt) = Len(tr) + 1
        BY <2>5
      <4> QED
        BY <1>a, <4>1
    <3>2. ASSUME NEW i \in 1..Len(rest) PROVE rest[i] = off[Len(nt) - 1 + i]
      <4>1. i + 1 \in 1..Len(l) /\ Len(tr) - 1 + (i + 1) = Len(nt) - 1 + i
        BY <1>5, <1>7, <2>5
      <4> QED
        BY <1>5, <1>7, <4>1
    <3> QED
      BY <2>4, <3>1, <3>2 DEF AtIndexer
  <2>9. RouteOf("indexer", "none", fallback'[q], off, nt, rest)
    <3>1. \E U : Prefix(U, off, nt) /\ ("indexer" = "indexer" => rest \in Seq(U) /\ AtIndexer(off, nt, rest))
      BY <1>7, <2>7, <2>8
    <3> QED
      BY <3>1 DEF RouteOf
  <2>10. RouteOf(pc'[q], result'[q], fallback'[q], offered'[q], tried'[q], left'[q])
    BY <2>3, <2>9
  <2> QED
    BY <2>2, <2>10, RouteFrame
<1>9. CASE rest = << >>
  <2>1. /\ tried' = tried
        /\ \/ pc' = [pc EXCEPT ![q] = "validator"] /\ result' = result
           \/ /\ pc' = [pc EXCEPT ![q] = "done"]
              /\ result' = [result EXCEPT ![q] = "noindexers"]
    BY <1>1, <1>9 DEF TryRest, Finish
  <2>2. Shape' /\ Others(q)
    <3>1. CASE pc' = [pc EXCEPT ![q] = "validator"] /\ result' = result
      BY <1>1, <1>2, <1>6, <2>1, <3>1 DEF Shape, Others, Places
    <3>2. CASE /\ pc' = [pc EXCEPT ![q] = "done"]
               /\ result' = [result EXCEPT ![q] = "noindexers"]
      BY <1>1, <1>2, <1>6, <2>1, <3>2 DEF Shape, Others, Places, Results
    <3> QED
      BY <2>1, <3>1, <3>2
  <2>3. /\ offered'[q] = off /\ tried'[q] = tr
        /\ \/ pc'[q] = "validator" /\ result'[q] = "none"
           \/ pc'[q] = "done" /\ result'[q] = "noindexers"
    BY <1>1, <1>2, <1>4, <2>1 DEF Shape
  <2> HIDE DEF off, tr, l, rest
  <2>4. tr = off
    <3>1. Len(tr) = Len(off)
      <4>1. Len(rest) = 0
        BY <1>9
      <4>2. Len(l) = 1
        BY <1>a, <4>1
      <4> QED
        BY <1>a, <4>2
    <3>2. tr = [i \in 1..Len(tr) |-> tr[i]] /\ off = [i \in 1..Len(off) |-> off[i]]
      BY <1>5
    <3> QED
      BY <1>5, <3>1, <3>2
  <2>5. \E U : /\ Prefix(U, offered'[q], tried'[q])
               /\ pc'[q] = "indexer" => left'[q] \in Seq(U) /\ AtIndexer(offered'[q], tried'[q], left'[q])
    BY <1>3, <2>3
  <2>6. RouteOf(pc'[q], result'[q], fallback'[q], offered'[q], tried'[q], left'[q])
    BY <2>3, <2>4, <2>5 DEF RouteOf
  <2> QED
    BY <2>2, <2>6, RouteFrame
<1> QED
  BY <1>8, <1>9

\* A query ends at its indexer, or where it was told there is nothing.
LEMMA FinishKeeps ==
  ASSUME RouteInv, NEW q \in Queries, NEW r \in Results, Finish(q, r),
         UNCHANGED <<left, offered, tried>>,
         fallback' = fallback \/ fallback' = [fallback EXCEPT ![q] = offered[q] # << >>],
         r \in {"nodata", "validator"} => pc[q] = "validator",
         r # "noindexers",
         r = "validator" => fallback' = [fallback EXCEPT ![q] = offered[q] # << >>]
  PROVE  RouteInv'
<1>1. Shape /\ RouteOf(pc[q], result[q], fallback[q], offered[q], tried[q], left[q])
  BY DEF RouteInv, Shape
<1>2. pc' = [pc EXCEPT ![q] = "done"] /\ result' = [result EXCEPT ![q] = r]
  BY DEF Finish
<1>3. fallback' \in [Queries -> BOOLEAN] /\ \A o \in Queries \ {q} : fallback'[o] = fallback[o]
  BY <1>1 DEF Shape
<1>4. Shape' /\ Others(q)
  BY <1>1, <1>2, <1>3 DEF Shape, Others, Places
<1>5. /\ pc'[q] = "done" /\ result'[q] = r
      /\ left'[q] = left[q] /\ offered'[q] = offered[q] /\ tried'[q] = tried[q]
  BY <1>1, <1>2 DEF Shape
<1>6. PICK T : Prefix(T, offered[q], tried[q])
  BY <1>1 DEF RouteOf
<1>7. r \in {"validator", "nodata", "noindexers"} => tried[q] = offered[q]
  BY <1>1 DEF RouteOf
<1>8. r = "validator" => (fallback'[q] <=> tried[q] # << >>)
  <2> SUFFICES ASSUME r = "validator" PROVE fallback'[q] <=> tried[q] # << >>
    OBVIOUS
  <2>1. fallback'[q] = (offered[q] # << >>)
    BY <1>1 DEF Shape
  <2> QED
    BY <1>7, <2>1
<1>9. \E U : /\ Prefix(U, offered'[q], tried'[q])
             /\ pc'[q] = "indexer" => left'[q] \in Seq(U) /\ AtIndexer(offered'[q], tried'[q], left'[q])
  BY <1>5, <1>6
<1>10. /\ pc'[q] \in {"idle", "listing"} => offered'[q] = << >> /\ tried'[q] = << >>
       /\ pc'[q] = "validator" \/ result'[q] \in {"validator", "nodata", "noindexers"} =>
            tried'[q] = offered'[q]
       /\ pc'[q] # "done" => result'[q] = "none"
       /\ result'[q] = "validator" => (fallback'[q] <=> tried'[q] # << >>)
  BY <1>5, <1>7, <1>8
<1>11. RouteOf(pc'[q], result'[q], fallback'[q], offered'[q], tried'[q], left'[q])
  BY <1>9, <1>10 DEF RouteOf
<1> QED
  BY <1>4, <1>11, RouteFrame

\* Every step of a routed query keeps the order its candidates are tried in.
LEMMA RouteStep == YoungInv /\ RouteInv /\ [RouteNext]_routeVars => RouteInv'
<1> SUFFICES ASSUME YoungInv, RouteInv, [RouteNext]_routeVars PROVE RouteInv'
  OBVIOUS
<1>1. ASSUME NEW q \in Queries, NEW s \in QuerySource, Call(q, s) PROVE RouteInv'
  <2>1. pc[q] = "idle" /\ fallback' = fallback
    BY <1>1 DEF Call
  <2>2. ASSUME NEW c, \E T : c \in Seq(T), LookedUp(q, s, c) PROVE RouteInv'
    BY <2>1, <2>2, LookedUpKeeps
  <2>3. \E T : <<"explicit-override">> \in Seq(T)
    <3>1. <<"explicit-override">> \in Seq({"explicit-override"})
      OBVIOUS
    <3> QED
      BY <3>1
  <2>4. \E T : Candidates(cache.data) \in Seq(T)
    BY CandidatesFacts DEF YoungInv, IsCache
  <2>5. ASSUME NEW p \in {"validator", "listing"}, pc' = [pc EXCEPT ![q] = p],
               UNCHANGED <<left, result, offered, tried>>
        PROVE  RouteInv'
    <3>1. Shape /\ RouteOf("idle", result[q], fallback[q], offered[q], tried[q], left[q])
      BY <2>1 DEF RouteInv, Shape
    <3>2. Shape' /\ Others(q) /\ pc'[q] = p
      BY <2>1, <2>5, <3>1 DEF Shape, Others, Places
    <3>3. offered[q] = << >> /\ tried[q] = << >> /\ result[q] = "none"
      BY <3>1 DEF RouteOf
    <3>4. PICK T : Prefix(T, offered[q], tried[q])
      BY <3>1 DEF RouteOf
    <3>5. \E U : /\ Prefix(U, offered[q], tried[q])
                 /\ p = "indexer" => left[q] \in Seq(U) /\ AtIndexer(offered[q], tried[q], left[q])
      BY <3>4
    <3>6. RouteOf(p, result[q], fallback[q], offered[q], tried[q], left[q])
      BY <3>3, <3>5 DEF RouteOf
    <3>7. RouteOf(pc'[q], result'[q], fallback'[q], offered'[q], tried'[q], left'[q])
      BY <2>1, <2>5, <3>2, <3>6
    <3> QED
      BY <3>2, <3>7, RouteFrame
  <2> QED
    BY <1>1, <2>2, <2>3, <2>4, <2>5 DEF Call
<1>2. ASSUME NEW q \in Queries, Listed(q) PROVE RouteInv'
  <2>1. /\ pc[q] = "listing" /\ reply[q] # NoReply /\ fallback' = fallback
        /\ LookedUp(q, routed[q], Candidates(reply[q].list))
    BY <1>2 DEF Listed
  <2>2. reply[q].list \in Listings
    BY <2>1 DEF YoungInv, Replies
  <2>3. \E T : Candidates(reply[q].list) \in Seq(T)
    BY <2>2, ListingIsList, CandidatesFacts
  <2> QED
    BY <2>1, <2>3, LookedUpKeeps
<1>3. ASSUME NEW q \in Queries, NotListed(q) PROVE RouteInv'
  BY <1>3, FinishKeeps DEF NotListed, Results
<1>4. ASSUME NEW q \in Queries, IndexerAnswers(q) PROVE RouteInv'
  BY <1>4, FinishKeeps DEF IndexerAnswers, Results
<1>5. ASSUME NEW q \in Queries, ValidatorAnswers(q) PROVE RouteInv'
  BY <1>5, FinishKeeps DEF ValidatorAnswers, Results
<1>6. ASSUME NEW q \in Queries, ValidatorFails(q) PROVE RouteInv'
  <2>1. PICK r \in {"nodata", "error"} : Finish(q, r)
    BY <1>6 DEF ValidatorFails
  <2>2. pc[q] = "validator" /\ UNCHANGED <<left, offered, tried>> /\ fallback' = fallback
    BY <1>6 DEF ValidatorFails
  <2> QED
    BY <2>1, <2>2, FinishKeeps DEF Results
<1>7. CASE UNCHANGED <<pc, result, fallback, left, offered, tried>>
  BY <1>7 DEF RouteInv
<1>8. ASSUME NEW q \in Queries, MakeList(q) PROVE RouteInv'
  BY <1>7, <1>8 DEF MakeList
<1>9. CASE Forget \/ Tick \/ UNCHANGED routeVars
  BY <1>7, <1>9 DEF Forget, Tick, routeVars
<1>10. RouteNext => \/ \E q \in Queries : \E s \in QuerySource : Call(q, s)
                    \/ \E q \in Queries : Advance(q)
                    \/ Forget \/ Tick
  BY DEF RouteNext
<1> QED
  BY <1>1, <1>2, <1>3, <1>4, <1>5, <1>6, <1>8, <1>9, <1>10, FailsKeeps DEF Advance

\* What routed queries share and where each of them is.
THEOREM RouteInvariant == RouteSpec => [](YoungInv /\ RouteInv)
<1>1. RouteInit => YoungInv /\ RouteInv
  BY YoungInit, RouteInitial
<1>2. YoungInv /\ RouteInv /\ [RouteNext]_routeVars => YoungInv' /\ RouteInv'
  BY YoungStep, RouteStep
<1> QED
  BY <1>1, <1>2, PTL DEF RouteSpec

\* A cached list that is used was made less than a time to live ago, however
\* many lookups overlap and however long their answers travel.
THEOREM CachedListsAreYoung == RouteSpec => []CachedListIsYoung
<1>1. YoungInv => CachedListIsYoung
  <2> SUFFICES ASSUME YoungInv, Fresh(cache, now) PROVE now - madeAt < Ttl
    BY DEF CachedListIsYoung
  <2>1. now \in Nat /\ madeAt \in Int /\ cache.at \in Int /\ Ttl \in Nat
    BY TtlAssumption DEF YoungInv, IsCache
  <2>2. now - cache.at < Ttl /\ (cache.at = -Ttl \/ cache.at =< madeAt)
    BY DEF Fresh, YoungInv
  <2> QED
    BY <2>1, <2>2
<1> QED
  BY <1>1, RouteInvariant, PTL

\* A query gives up only after each candidate was tried, in their order, for
\* any number of queries, candidates and evictions.
THEOREM QueriesTryAll == RouteSpec => []GivesUpAfterAll
<1>1. RouteInv => GivesUpAfterAll
  <2> SUFFICES ASSUME RouteInv, NEW q \in Queries
               PROVE  /\ tried[q] = SubSeq(offered[q], 1, Len(tried[q]))
                      /\ pc[q] = "validator" \/ result[q] \in {"validator", "nodata", "noindexers"} =>
                           tried[q] = offered[q]
                      /\ result[q] = "validator" => fallback[q] = (tried[q] # << >>)
    BY DEF GivesUpAfterAll
  <2>1. RouteOf(pc[q], result[q], fallback[q], offered[q], tried[q], left[q])
    BY DEF RouteInv
  <2> DEFINE off == offered[q]
             tr == tried[q]
  <2>2. PICK T : Prefix(T, off, tr)
    BY <2>1 DEF RouteOf
  <2>3. tr = SubSeq(off, 1, Len(tr))
    <3> HIDE DEF off, tr
    <3>1. /\ off \in Seq(T) /\ tr \in Seq(T) /\ Len(tr) =< Len(off)
          /\ \A i \in 1..Len(tr) : tr[i] = off[i]
      BY <2>2 DEF Prefix
    <3>2. tr = [i \in 1..Len(tr) |-> tr[i]]
      BY <3>1
    <3>3. SubSeq(off, 1, Len(tr)) = [i \in 1..Len(tr) |-> off[i]]
      BY <3>1
    <3> QED
      BY <3>1, <3>2, <3>3
  <2>4. fallback[q] \in BOOLEAN
    BY DEF RouteInv
  <2>5. result[q] = "validator" => (fallback[q] <=> tr # << >>)
    BY <2>1 DEF RouteOf
  <2>6. result[q] = "validator" => fallback[q] = (tr # << >>)
    BY <2>4, <2>5
  <2> QED
    BY <2>1, <2>3, <2>6 DEF RouteOf
<1> QED
  BY <1>1, RouteInvariant, PTL
=============================================================================
