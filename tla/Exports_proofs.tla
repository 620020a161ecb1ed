---------------------------- MODULE Exports_proofs ----------------------------
(* Theorems of Exports, for any objects, chunk size and labels, any number *)
(* of edits, crashes, failures and cancels.                                *)
EXTENDS Exports, FiniteSetTheorems, WellFoundedInduction, TLAPS

-------------------------------------------------------------------------------
(* Ranks and chunks.  A chunk holds a range of the ranks of a slice.       *)

Rank(S, o) == Cardinality({v \in S : v < o})

LEMMA FiniteDir == ASSUME NEW S \in Dirs PROVE IsFiniteSet(S) /\ S \subseteq Nat
BY ExportsAssumption, FS_Subset DEF Dirs

LEMMA RankIsNat == ASSUME NEW S \in Dirs, NEW o PROVE Rank(S, o) \in Nat
<1>1. IsFiniteSet({v \in S : v < o}) BY FiniteDir, FS_Subset
<1> QED BY <1>1, FS_CardinalityType DEF Rank

\* Fewer objects, lower ranks.
LEMMA RankShrinks ==
  ASSUME NEW S \in Dirs, NEW T \in SUBSET S, NEW o
  PROVE  Rank(T, o) <= Rank(S, o)
<1>1. IsFiniteSet({v \in S : v < o}) BY FiniteDir, FS_Subset
<1>2. {v \in T : v < o} \subseteq {v \in S : v < o} OBVIOUS
<1> QED BY <1>1, <1>2, FS_Subset DEF Rank

\* A set of objects has a first one and a last one.
LEMMA Least ==
  ASSUME NEW S \in SUBSET Nat, S # {}
  PROVE  \E u \in S : \A v \in S : u <= v
<1>1. PICK u \in S : \A v \in S : ~(<<v, u>> \in OpToRel(<, Nat))
  BY NatLessThanWellFounded, WFMin
<1>2. \A v \in S : ~(v < u) BY <1>1 DEF OpToRel
<1>3. \A v \in S : u <= v BY <1>2
<1> QED BY <1>3

LEMMA Last ==
  ASSUME NEW S \in Dirs, S # {}
  PROVE  \E u \in S : \A v \in S : v <= u
<1> DEFINE Above(u) == {v \in S : u < v}
           Counts == {Cardinality(Above(u)) : u \in S}
<1>1. \A u \in S : IsFiniteSet(Above(u)) /\ Cardinality(Above(u)) \in Nat
  BY FiniteDir, FS_Subset, FS_CardinalityType
<1>2. Counts \in SUBSET Nat /\ Counts # {} BY <1>1
<1>3. PICK n \in Counts : \A m \in Counts : n <= m
  <2> HIDE DEF Counts
  <2> QED BY <1>2, Least
<1>4. PICK u \in S : n = Cardinality(Above(u)) BY <1>3
<1>5. ASSUME NEW v \in S, ~(v <= u) PROVE FALSE
  <2>1. v \in Above(u) /\ v \notin Above(v) BY <1>5, FiniteDir
  <2>2. Above(v) \subseteq Above(u) BY <1>5, FiniteDir
  <2>3. Above(v) # Above(u) BY <2>1
  <2>4. /\ Cardinality(Above(v)) <= Cardinality(Above(u))
        /\ Cardinality(Above(v)) # Cardinality(Above(u))
    <3> HIDE DEF Above
    <3> QED BY <1>1, <2>2, <2>3, FS_Subset
  <2>5. Cardinality(Above(u)) <= Cardinality(Above(v)) BY <1>3, <1>4
  <2> QED BY <1>1, <2>4, <2>5
<1> QED BY <1>5

\* The chunk that a rank falls in, without the division.
LEMMA ChunkOfRank ==
  ASSUME NEW n \in Nat, NEW i \in Nat
  PROVE  n \div Size = i <=> Size * i <= n /\ n < Size * i + Size
<1>1. Size \in Nat /\ Size > 0 BY ExportsAssumption
<1> DEFINE q == n \div Size
<1>2. q \in Nat /\ Size * q <= n /\ n < Size * q + Size BY <1>1
<1>3. ASSUME NEW a \in Nat, NEW b \in Nat, a < b PROVE Size * a + Size <= Size * b
  <2>1. PICK c \in Nat : b = a + 1 + c BY <1>3
  <2>2. Size * b = Size * a + Size + Size * c BY <1>1, <2>1
  <2>3. Size * c \in Nat /\ Size * a \in Nat BY <1>1
  <2> QED BY <1>1, <2>2, <2>3
<1>4. Size * i \in Nat /\ Size * q \in Nat BY <1>1, <1>2
<1> HIDE DEF q
<1>5. CASE q < i
  <2>1. Size * q + Size <= Size * i BY <1>2, <1>3, <1>5
  <2> QED BY <1>1, <1>2, <1>4, <1>5, <2>1 DEF q
<1>6. CASE i < q
  <2>1. Size * i + Size <= Size * q BY <1>2, <1>3, <1>6
  <2> QED BY <1>1, <1>2, <1>4, <1>6, <2>1 DEF q
<1>7. CASE q = i BY <1>2, <1>7 DEF q
<1> QED BY <1>2, <1>5, <1>6, <1>7

\* At most n objects have a rank below n.
LEMMA FewBelow ==
  ASSUME NEW S \in Dirs, NEW n \in Nat
  PROVE  LET A == {x \in S : Rank(S, x) < n} IN
         IsFiniteSet(A) /\ Cardinality(A) \in Nat /\ Cardinality(A) <= n
<1> DEFINE A == {x \in S : Rank(S, x) < n}
<1>1. A \in Dirs /\ A \subseteq S BY DEF Dirs
<1>2. IsFiniteSet(A) /\ Cardinality(A) \in Nat BY <1>1, FiniteDir, FS_CardinalityType
<1>3. CASE A = {} BY <1>2, <1>3, FS_EmptySet
<1>4. CASE A # {}
  <2>1. PICK m \in A : \A v \in A : v <= m
    <3> HIDE DEF A
    <3> QED BY <1>1, <1>4, Last
  <2> DEFINE B == {v \in S : v < m}
  <2>2. A \ {m} \subseteq B BY <2>1, FiniteDir
  <2>3. IsFiniteSet(B) BY FiniteDir, FS_Subset
  <2>4. Cardinality(A \ {m}) <= Cardinality(B) /\ IsFiniteSet(A \ {m})
    <3> HIDE DEF B, A
    <3> QED BY <2>2, <2>3, FS_Subset
  <2>5. Cardinality(A) = Cardinality(A \ {m}) + 1
    <3>1. A = (A \ {m}) \cup {m} BY <2>1
    <3> HIDE DEF A
    <3>2. Cardinality((A \ {m}) \cup {m}) = Cardinality(A \ {m}) + 1 BY <2>4, FS_AddElement
    <3> QED BY <3>1, <3>2
  <2>6. Cardinality(B) < n BY <2>1 DEF Rank
  <2>7. Cardinality(A \ {m}) \in Nat /\ Cardinality(B) \in Nat BY <2>3, <2>4, FS_CardinalityType
  <2> HIDE DEF A, B
  <2> QED BY <1>2, <2>4, <2>5, <2>6, <2>7 DEF A
<1> QED BY <1>3, <1>4

LEMMA ChunkIsRange ==
  ASSUME NEW S \in Dirs, NEW i \in Nat, NEW o
  PROVE  o \in ChunkIds(S, i) <=> o \in S /\ Size * i <= Rank(S, o) /\ Rank(S, o) < Size * i + Size
BY RankIsNat, ChunkOfRank DEF ChunkIds, Rank

\* A chunk has no more than Size objects.
LEMMA ChunkIsSmall ==
  ASSUME NEW S \in Dirs, NEW i \in Nat
  PROVE  /\ IsFiniteSet(ChunkIds(S, i)) /\ Cardinality(ChunkIds(S, i)) \in Nat
         /\ Cardinality(ChunkIds(S, i)) <= Size
<1> DEFINE C == ChunkIds(S, i)
           lo == Size * i
<1>0. lo \in Nat /\ Size \in Nat /\ Size > 0 BY ExportsAssumption
<1>1. C \in Dirs /\ C \subseteq S BY DEF ChunkIds, Dirs
<1>2. IsFiniteSet(C) /\ Cardinality(C) \in Nat /\ C \in SUBSET Nat
  <2> HIDE DEF C
  <2> QED BY <1>1, FiniteDir, FS_CardinalityType
<1>3. CASE C = {} BY <1>0, <1>2, <1>3, FS_EmptySet
<1>4. CASE C # {}
  <2>1. PICK first \in C : \A v \in C : first <= v
    <3> HIDE DEF C
    <3> QED BY <1>2, <1>4, Least
  <2>2. PICK last \in C : \A v \in C : v <= last
    <3> HIDE DEF C
    <3> QED BY <1>1, <1>4, Last
  <2> DEFINE B == {v \in S : v < first}
             D == C \ {last}
             E == {v \in S : v < last}
  <2>3. lo <= Rank(S, first) /\ Rank(S, last) < lo + Size
    <3> HIDE DEF lo
    <3> QED BY <2>1, <2>2, ChunkIsRange DEF lo
  <2>4. B \cap D = {} /\ B \cup D \subseteq E
    <3>1. S \subseteq Nat /\ first \in Nat /\ last \in Nat BY <1>1, <2>1, <2>2, FiniteDir
    <3>2. ASSUME NEW v \in C PROVE v \in S /\ v \in Nat /\ first <= v /\ v <= last
      BY <1>1, <2>1, <2>2, <3>1
    <3> HIDE DEF C
    <3>3. \A v \in D : v \notin B /\ v \in E BY <3>1, <3>2
    <3>4. first <= last BY <2>1, <2>2
    <3>5. \A v \in B : v \in E BY <3>1, <3>4
    <3> QED BY <3>3, <3>5
  <2>5. IsFiniteSet(B) /\ IsFiniteSet(E) /\ IsFiniteSet(D)
    <3> HIDE DEF C
    <3> QED BY <1>2, FiniteDir, FS_Subset
  <2>6. /\ Cardinality(B) \in Nat /\ Cardinality(D) \in Nat /\ Cardinality(E) \in Nat
    BY <2>5, FS_CardinalityType
  <2>7. Cardinality(B \cup D) = Cardinality(B) + Cardinality(D)
    <3> HIDE DEF B, D
    <3>1. Cardinality(B \cap D) = 0 BY <2>4, FS_EmptySet
    <3>2. Cardinality(B \cup D) = Cardinality(B) + Cardinality(D) - Cardinality(B \cap D)
      BY <2>5, FS_Union
    <3> QED BY <2>6, <3>1, <3>2
  <2>8. Cardinality(B \cup D) <= Cardinality(E)
    <3> HIDE DEF B, D, E
    <3> QED BY <2>4, <2>5, FS_Subset
  <2>9. Cardinality(C) = Cardinality(D) + 1
    <3>1. C = D \cup {last} BY <2>2
    <3>2. last \notin D OBVIOUS
    <3> HIDE DEF C, D
    <3>3. Cardinality(D \cup {last}) = Cardinality(D) + 1 BY <2>5, <3>2, FS_AddElement
    <3> QED BY <3>1, <3>3
  <2>10. lo <= Cardinality(B) /\ Cardinality(E) < lo + Size BY <2>3 DEF Rank
  <2> HIDE DEF B, C, D, E, lo
  <2> QED BY <1>0, <1>2, <2>6, <2>7, <2>8, <2>9, <2>10 DEF C
<1> QED BY <1>3, <1>4

\* A chunk that later ones follow is full.
LEMMA ChunkIsFull ==
  ASSUME NEW S \in Dirs, NEW i \in Nat, NEW o \in S, Size * i + Size <= Rank(S, o)
  PROVE  Size <= Cardinality(ChunkIds(S, i))
<1> DEFINE C == ChunkIds(S, i)
           lo == Size * i
           T == {v \in S : lo + Size <= Rank(S, v)}
<1>0. lo \in Nat /\ Size \in Nat /\ Size > 0 BY ExportsAssumption
<1>1. T \in SUBSET Nat /\ T # {} BY FiniteDir
<1>2. PICK w \in T : \A v \in T : w <= v
  <2> HIDE DEF T
  <2> QED BY <1>1, Least
<1> DEFINE B == {x \in S : x < w}
           A == {x \in S : Rank(S, x) < lo}
<1>3. w \in S /\ lo + Size <= Cardinality(B) BY <1>2 DEF Rank
<1>4. B \subseteq A \cup C
  <2>1. ASSUME NEW x \in B, x \notin A PROVE x \in C
    <3>1. x \in S /\ Rank(S, x) \in Nat /\ ~(Rank(S, x) < lo) BY <2>1, RankIsNat
    <3>2. ~(w <= x) BY <1>3, <2>1, FiniteDir
    <3>3. ~(lo + Size <= Rank(S, x)) BY <1>2, <3>1, <3>2
    <3>4. lo <= Rank(S, x) /\ Rank(S, x) < lo + Size BY <1>0, <3>1, <3>3
    <3> QED BY <3>1, <3>4, ChunkIsRange
  <2> QED BY <2>1
<1>5. /\ IsFiniteSet(A) /\ Cardinality(A) \in Nat /\ Cardinality(A) <= lo
  <2> HIDE DEF lo
  <2> QED BY <1>0, FewBelow
<1>6. IsFiniteSet(C) /\ Cardinality(C) \in Nat BY ChunkIsSmall
<1>7. /\ IsFiniteSet(A \cup C) /\ IsFiniteSet(A \cap C)
      /\ Cardinality(A \cup C) = Cardinality(A) + Cardinality(C) - Cardinality(A \cap C)
  <2> HIDE DEF A, C
  <2>1. A \cap C \subseteq A OBVIOUS
  <2> QED BY <1>5, <1>6, <2>1, FS_Union, FS_Subset
<1>8. Cardinality(B) <= Cardinality(A \cup C) /\ IsFiniteSet(B)
  <2> HIDE DEF A, B, C
  <2> QED BY <1>4, <1>7, FS_Subset
<1>9. Cardinality(A \cap C) \in Nat /\ Cardinality(A \cup C) \in Nat /\ Cardinality(B) \in Nat
  BY <1>7, <1>8, FS_CardinalityType
<1> HIDE DEF A, B, C, lo
<1> QED BY <1>0, <1>3, <1>5, <1>6, <1>7, <1>8, <1>9 DEF C

\* If a slice and one that it shrank to have the same chunk, so has every slice in between.
LEMMA Between ==
  ASSUME NEW S \in Dirs, NEW M \in SUBSET S, NEW X \in SUBSET M, NEW i \in Nat,
         ChunkIds(S, i) = ChunkIds(X, i)
  PROVE  ChunkIds(M, i) = ChunkIds(X, i)
<1> DEFINE C == ChunkIds(X, i)
           lo == Size * i
<1>0. lo \in Nat /\ Size \in Nat BY ExportsAssumption
<1>1. M \in Dirs /\ X \in Dirs BY DEF Dirs
<1>2. ASSUME NEW o \in C PROVE o \in ChunkIds(M, i)
  <2>1. o \in X /\ lo <= Rank(X, o) BY <1>1, <1>2, ChunkIsRange
  <2>2. Rank(S, o) < lo + Size BY <1>2, ChunkIsRange
  <2>3. Rank(X, o) <= Rank(M, o) /\ Rank(M, o) <= Rank(S, o) BY <1>1, RankShrinks
  <2>4. Rank(X, o) \in Nat /\ Rank(M, o) \in Nat /\ Rank(S, o) \in Nat BY <1>1, RankIsNat
  <2>5. lo <= Rank(M, o) /\ Rank(M, o) < lo + Size
    <3> HIDE DEF lo
    <3> QED BY <1>0, <2>1, <2>2, <2>3, <2>4
  <2> QED BY <1>1, <2>1, <2>5, ChunkIsRange
<1>3. ASSUME NEW o \in ChunkIds(M, i), o \notin C PROVE FALSE
  <2>1. o \in M /\ lo <= Rank(M, o) BY <1>1, <1>3, ChunkIsRange
  <2>2. Rank(M, o) <= Rank(S, o) /\ Rank(M, o) \in Nat /\ Rank(S, o) \in Nat
    BY <1>1, RankShrinks, RankIsNat
  <2>3. o \in S /\ ~(lo <= Rank(S, o) /\ Rank(S, o) < lo + Size)
    BY <1>3, <2>1, ChunkIsRange
  <2>4. lo + Size <= Rank(S, o)
    <3> HIDE DEF lo
    <3> QED BY <1>0, <2>1, <2>2, <2>3
  <2>5. Size <= Cardinality(C) BY <2>3, <2>4, ChunkIsFull
  <2>6. IsFiniteSet(C) /\ Cardinality(C) \in Nat BY <1>1, ChunkIsSmall
  <2>7. Cardinality(C \cup {o}) = Cardinality(C) + 1
    <3> HIDE DEF C
    <3> QED BY <1>3, <2>6, FS_AddElement
  <2>8. C \cup {o} \subseteq ChunkIds(M, i) BY <1>2, <1>3
  <2>9. /\ IsFiniteSet(ChunkIds(M, i)) /\ Cardinality(ChunkIds(M, i)) \in Nat
        /\ Cardinality(ChunkIds(M, i)) <= Size
    BY <1>1, ChunkIsSmall
  <2>10. Cardinality(C \cup {o}) <= Cardinality(ChunkIds(M, i))
    <3> HIDE DEF C
    <3> QED BY <2>8, <2>9, FS_Subset
  <2> HIDE DEF C
  <2> QED BY <1>0, <2>5, <2>6, <2>7, <2>9, <2>10
<1> QED BY <1>2, <1>3

-------------------------------------------------------------------------------
(* Type correctness. *)

Partial(A, B) == UNION {[S -> B] : S \in SUBSET A}

LEMMA PartialFacts ==
  ASSUME NEW A, NEW B, NEW f \in Partial(A, B)
  PROVE  DOMAIN f \subseteq A /\ \A x \in DOMAIN f : f[x] \in B
BY DEF Partial

LEMMA NothingIsPartial ==
  ASSUME NEW A, NEW B PROVE <<>> \in Partial(A, B) /\ DOMAIN <<>> = {}
<1>1. <<>> \in [{} -> B] /\ DOMAIN <<>> = {} OBVIOUS
<1>2. {} \in SUBSET A OBVIOUS
<1> QED BY <1>1, <1>2 DEF Partial

LEMMA PutFacts ==
  ASSUME NEW A, NEW B, NEW f \in Partial(A, B), NEW k \in A, NEW e \in B
  PROVE  /\ Put(f, k, e) \in Partial(A, B) /\ DOMAIN Put(f, k, e) = DOMAIN f \cup {k}
         /\ Put(f, k, e)[k] = e
         /\ \A x \in DOMAIN f : x # k => Put(f, k, e)[x] = f[x]
<1>1. DOMAIN f \cup {k} \in SUBSET A /\ \A x \in DOMAIN f : f[x] \in B BY PartialFacts
<1>2. Put(f, k, e) \in [DOMAIN f \cup {k} -> B] BY <1>1 DEF Put
<1> QED BY <1>1, <1>2 DEF Put, Partial

Points == [done : SUBSET Index, digest : Partial(Index, Dirs), dir : Dirs \cup {NoDir}]
JobType == [status : Status, cp : Points, commit : Dirs \cup {NoDir}]
RunnerType == [pc : {"off", "fetch", "chunk", "record", "assemble", "seal", "upload", "done", "note"},
               cp : Points, slice : Content, verified : SUBSET Index, files : Content,
               chunked : BOOLEAN]
DiskType == Partial(Dirs \X Index, Content)

\* The chunks a runner has left, and the one it is at.
Left(k) == Chunks(DOMAIN k.slice) \ k.cp.done
At1(k) == CHOOSE i \in Left(k) : \A j \in Left(k) : i <= j

\* A checkpoint says of each of its chunks which records it holds.
Recorded(cp) == cp.done \subseteq DOMAIN cp.digest

\* What a runner holds while it writes chunks.
Holds(k) == /\ Recorded(k.cp)
            /\ k.pc \in {"chunk", "record"} => k.cp.dir \in Dirs
            /\ k.pc = "record" => Left(k) # {}

TypeInv ==
  /\ label \in [Objects -> Label \cup {Out}]
  /\ job \in JobType /\ Recorded(job.cp)
  /\ disk \in DiskType
  /\ \A d \in DOMAIN sealed : d \in Dirs /\ DOMAIN sealed[d] = d
  /\ \A d \in DOMAIN store : DOMAIN store[d].files = d /\ DOMAIN store[d].shards \subseteq Index
  /\ runner \in [Runner -> RunnerType] /\ \A r \in Runner : Holds(runner[r])

Cur == DOMAIN Slice

LEMMA IndexIsNat == Index \subseteq Nat BY DEF Index

LEMMA NoDirIsNone == NoDir \notin Dirs
BY ExportsAssumption DEF NoDir, Dirs

LEMMA ContentFacts ==
  /\ <<>> \in Content /\ DOMAIN <<>> = {}
  /\ \A f \in Content : DOMAIN f \in Dirs /\ f \in [DOMAIN f -> Label]
BY DEF Content, Dirs

LEMMA SliceFacts == ASSUME TypeInv PROVE Slice \in Content /\ Cur \in Dirs
<1> DEFINE S == {x \in Objects : label[x] # Out}
<1>1. S \in Dirs /\ DOMAIN Slice = S BY DEF Dirs, Slice
<1>2. \A o \in S : label[o] \in Label BY DEF TypeInv
<1>3. Slice \in [S -> Label] BY <1>2 DEF Slice
<1> QED BY <1>1, <1>3 DEF Content, Cur

LEMMA PartFacts ==
  ASSUME NEW f \in Content, NEW S \in SUBSET DOMAIN f
  PROVE  Part(f, S) \in Content /\ DOMAIN Part(f, S) = S
<1>1. S \in Dirs /\ f \in [DOMAIN f -> Label] BY ContentFacts DEF Dirs
<1>2. Part(f, S) \in [S -> Label] BY <1>1 DEF Part
<1> QED BY <1>1, <1>2 DEF Content

LEMMA ChunkFacts ==
  ASSUME NEW S \in Dirs
  PROVE  /\ Chunks(S) \subseteq Index
         /\ \A i : ChunkIds(S, i) \subseteq S /\ ChunkIds(S, i) \in Dirs
BY DEF Chunks, ChunkIds, Dirs

\* The chunk a runner is at is one that it has left.
LEMMA AtLeft ==
  ASSUME NEW k, DOMAIN k.slice \in Dirs, Left(k) # {}
  PROVE  At1(k) \in Left(k) /\ At1(k) \in Index
<1>1. Left(k) \subseteq Index BY ChunkFacts DEF Left
<1>2. \E u \in Left(k) : \A v \in Left(k) : u <= v BY <1>1, IndexIsNat, Least
<1> QED BY <1>1, <1>2 DEF At1

LEMMA PointFacts ==
  /\ NoPoint \in Points /\ Recorded(NoPoint) /\ NoPoint.done = {} /\ NoPoint.dir = NoDir
  /\ \A cp \in Points : cp.done \subseteq Index /\ DOMAIN cp.digest \subseteq Index
                        /\ \A i \in DOMAIN cp.digest : cp.digest[i] \in Dirs
<1>1. <<>> \in Partial(Index, Dirs) BY NothingIsPartial
<1>2. NoPoint \in Points /\ NoPoint.done = {} /\ NoPoint.dir = NoDir
  BY <1>1 DEF NoPoint, Points
<1>3. Recorded(NoPoint) BY <1>2 DEF Recorded
<1>4. ASSUME NEW cp \in Points
      PROVE  cp.done \subseteq Index /\ DOMAIN cp.digest \subseteq Index
             /\ \A i \in DOMAIN cp.digest : cp.digest[i] \in Dirs
  <2>1. cp.done \subseteq Index /\ cp.digest \in Partial(Index, Dirs) BY <1>4 DEF Points
  <2> QED BY <2>1, PartialFacts
<1> QED BY <1>2, <1>3, <1>4

LEMMA OffFacts == Off \in RunnerType /\ Off.pc = "off" /\ Holds(Off) /\ ~Off.chunked
<1>1. Off \in RunnerType /\ Off.pc = "off" /\ Off.cp = NoPoint /\ ~Off.chunked
  <2>1. NoPoint \in Points /\ <<>> \in Content BY PointFacts, ContentFacts
  <2> HIDE DEF NoPoint
  <2> QED BY <2>1 DEF Off, RunnerType
<1> HIDE DEF Off
<1> QED BY <1>1, PointFacts DEF Holds

PC == {"off", "fetch", "chunk", "record", "assemble", "seal", "upload", "done", "note"}
RunnersOK == runner \in [Runner -> RunnerType] /\ \A r \in Runner : Holds(runner[r])
JobOK == job \in JobType /\ Recorded(job.cp)

\* The parts of a state that its type names.
LEMMA TypeFacts ==
  ASSUME TypeInv
  PROVE  /\ RunnersOK /\ JobOK /\ disk \in DiskType /\ job.cp \in Points
         /\ \A r \in Runner : /\ runner[r] \in RunnerType /\ Holds(runner[r])
                              /\ runner[r].cp \in Points /\ runner[r].slice \in Content
                              /\ runner[r].files \in Content /\ runner[r].verified \in SUBSET Index
                              /\ DOMAIN runner[r].slice \in Dirs /\ DOMAIN runner[r].files \in Dirs
<1>1. \A r \in Runner : runner[r] \in RunnerType BY DEF TypeInv
<1>2. \A r \in Runner : /\ runner[r].cp \in Points /\ runner[r].slice \in Content
                        /\ runner[r].files \in Content /\ runner[r].verified \in SUBSET Index
  BY <1>1 DEF RunnerType
<1>3. job.cp \in Points BY DEF TypeInv, JobType
<1> QED BY <1>1, <1>2, <1>3, ContentFacts DEF TypeInv, RunnersOK, JobOK

\* One runner changes.
Alone(r) == \A q \in Runner : q # r => runner'[q] = runner[q]

LEMMA RunnerChanges ==
  ASSUME RunnersOK, NEW r \in Runner, NEW new \in RunnerType, Holds(new),
         runner' = [runner EXCEPT ![r] = new]
  PROVE  RunnersOK' /\ runner'[r] = new /\ Alone(r)
<1>1. runner' \in [Runner -> RunnerType] /\ runner'[r] = new /\ Alone(r) BY DEF RunnersOK, Alone
<1> QED BY <1>1 DEF RunnersOK, Alone

LEMMA StopFacts ==
  ASSUME TypeInv, NEW r \in Runner, Stop(r)
  PROVE  RunnersOK' /\ runner'[r] = Off /\ Alone(r)
<1> HIDE DEF Off
<1> QED BY TypeFacts, OffFacts, RunnerChanges DEF Stop

\* What a runner keeps when it only moves on.
Same(k, l) == /\ l.cp = k.cp /\ l.slice = k.slice /\ l.verified = k.verified
              /\ l.files = k.files /\ l.chunked = k.chunked

LEMMA GotoFacts ==
  ASSUME TypeInv, NEW r \in Runner, NEW pc \in PC, Goto(r, pc),
         pc \in {"chunk", "record"} => runner[r].cp.dir \in Dirs,
         pc = "record" => Left(runner[r]) # {}
  PROVE  RunnersOK' /\ runner'[r].pc = pc /\ Same(runner[r], runner'[r]) /\ Alone(r)
<1> DEFINE k == runner[r]
           new == [k EXCEPT !.pc = pc]
<1>1. k \in RunnerType /\ Holds(k) /\ RunnersOK BY TypeFacts
<1>2. new \in RunnerType /\ new.pc = pc /\ Same(k, new) BY <1>1 DEF RunnerType, PC, Same
<1>3. runner' = [runner EXCEPT ![r] = new] BY DEF Goto
<1> HIDE DEF new
<1>4. Holds(new) BY <1>1, <1>2 DEF Holds, Same, Left
<1>5. RunnersOK' /\ runner'[r] = new /\ Alone(r) BY <1>1, <1>2, <1>3, <1>4, RunnerChanges
<1> QED BY <1>2, <1>5

\* The row of the job.
LEMMA JobFacts ==
  ASSUME TypeInv, NEW s \in Status, NEW cp \in Points, Recorded(cp), NEW c \in Dirs \cup {NoDir},
         job' = [job EXCEPT !.status = s, !.cp = cp, !.commit = c]
  PROVE  JobOK' /\ job'.status = s /\ job'.cp = cp
<1>1. job' \in JobType /\ job'.status = s /\ job'.cp = cp BY DEF TypeInv, JobType
<1> QED BY <1>1 DEF JobOK

LEMMA StatusFacts ==
  ASSUME TypeInv, NEW s \in Status, job' = [job EXCEPT !.status = s]
  PROVE  JobOK' /\ job'.status = s /\ job'.cp = job.cp
<1>1. job' \in JobType /\ job'.status = s /\ job'.cp = job.cp BY DEF TypeInv, JobType
<1> QED BY <1>1 DEF JobOK, TypeInv

LEMMA RunPlainFacts ==
  ASSUME TypeInv, NEW r \in Runner, RunPlain(r)
  PROVE  /\ RunnersOK' /\ runner'[r].pc = "assemble" /\ Same(runner[r], runner'[r]) /\ Alone(r)
         /\ JobOK' /\ job'.status = "running" /\ job'.cp = job.cp
         /\ runner[r].pc = "off" /\ job.status = "pending"
<1>1. Goto(r, "assemble") /\ "assemble" \in PC BY DEF RunPlain, PC
<1>2. RunnersOK' /\ runner'[r].pc = "assemble" /\ Same(runner[r], runner'[r]) /\ Alone(r)
  BY <1>1, GotoFacts
<1>3. "running" \in Status BY DEF Status
<1> QED BY <1>2, <1>3, StatusFacts DEF RunPlain, At

LEMMA ResumeFacts ==
  ASSUME TypeInv, NEW r \in Runner, Resume(r)
  PROVE  /\ RunnersOK' /\ runner'[r].pc = "fetch" /\ runner'[r].cp = job.cp /\ runner'[r].chunked
         /\ Alone(r)
         /\ JobOK' /\ job'.status = "running" /\ job'.cp = job.cp
         /\ runner[r].pc = "off"
<1> DEFINE cp == job.cp
           new == [Off EXCEPT !.pc = "fetch", !.cp = cp, !.chunked = TRUE]
<1>1. cp \in Points /\ Recorded(cp) /\ RunnersOK BY TypeFacts DEF JobOK
<1>2. new \in RunnerType /\ new.pc = "fetch" /\ new.cp = cp /\ new.chunked
  <2> HIDE DEF Off, cp
  <2> QED BY <1>1, OffFacts DEF RunnerType
<1>3. runner' = [runner EXCEPT ![r] = new] BY DEF Resume
<1> HIDE DEF new
<1>4. Holds(new) BY <1>1, <1>2 DEF Holds
<1>5. RunnersOK' /\ runner'[r] = new /\ Alone(r) BY <1>1, <1>2, <1>3, <1>4, RunnerChanges
<1>6. "running" \in Status BY DEF Status
<1> QED BY <1>2, <1>5, <1>6, StatusFacts DEF Resume, At

\* A resumed run that finds an empty slice is done at once; another begins its chunks.
LEMMA FetchFacts ==
  ASSUME TypeInv, NEW r \in Runner, Fetch(r)
  PROVE  /\ RunnersOK' /\ JobOK' /\ Alone(r) /\ runner[r].pc = "fetch" /\ job'.cp = job.cp
         /\ job'.status \in {job.status, "done"}
         /\ \/ runner'[r] = Off
            \/ /\ runner'[r].pc = "chunk" /\ runner'[r].slice = Slice
               /\ runner'[r].verified = Verified(runner[r].cp, Cur)
               /\ runner'[r].cp.done = Verified(runner[r].cp, Cur)
               /\ runner'[r].cp.dir = OutDir(runner[r].cp, Cur)
               /\ runner'[r].cp.digest = runner[r].cp.digest
               /\ runner'[r].chunked = runner[r].chunked /\ job' = job
<1> DEFINE k == runner[r]
<1>0. /\ k \in RunnerType /\ Holds(k) /\ RunnersOK /\ JobOK /\ k.cp \in Points /\ job.cp \in Points
      /\ Slice \in Content /\ Cur \in Dirs
  BY TypeFacts, SliceFacts
<1>1. CASE Cur = {}
  <2>1. Stop(r) /\ job' = [job EXCEPT !.status = "done"] BY <1>1 DEF Fetch, Cur
  <2>2. RunnersOK' /\ runner'[r] = Off /\ Alone(r) BY <2>1, StopFacts
  <2>3. "done" \in Status BY DEF Status
  <2>4. JobOK' /\ job'.status = "done" /\ job'.cp = job.cp BY <2>1, <2>3, StatusFacts
  <2> QED BY <2>2, <2>4 DEF Fetch, At
<1>2. CASE Cur # {}
  <2> DEFINE verified == Verified(k.cp, Cur)
             dir == OutDir(k.cp, Cur)
             slice == Slice
             cp == [k.cp EXCEPT !.done = verified, !.dir = dir]
             new == [k EXCEPT !.pc = "chunk", !.slice = slice, !.verified = verified,
                              !.cp.done = verified, !.cp.dir = dir]
  <2>1. runner' = [runner EXCEPT ![r] = new] /\ job' = job BY <1>2 DEF Fetch, Cur
  <2>2. verified \in SUBSET Index /\ dir \in Dirs /\ slice \in Content /\ verified \subseteq k.cp.done
    <3>1. k.cp.done \subseteq Index /\ k.cp.dir \in Dirs \cup {NoDir} BY <1>0 DEF Points
    <3> QED BY <1>0, <3>1 DEF Verified, OutDir
  <2> HIDE DEF verified, dir, slice
  <2>3. cp \in Points /\ cp.done = verified /\ cp.dir = dir /\ cp.digest = k.cp.digest
    <3> HIDE DEF k
    <3> QED BY <1>0, <2>2 DEF Points
  <2>4. /\ new \in RunnerType /\ new.pc = "chunk" /\ new.slice = slice /\ new.verified = verified
        /\ new.cp = cp /\ new.chunked = k.chunked
    <3>1. new = [k EXCEPT !.pc = "chunk", !.slice = slice, !.verified = verified, !.cp = cp]
      BY <1>0 DEF RunnerType
    <3> HIDE DEF k, cp, new
    <3> QED BY <1>0, <2>2, <2>3, <3>1 DEF RunnerType
  <2> HIDE DEF cp, new
  <2>5. Holds(new) BY <1>0, <2>2, <2>3, <2>4 DEF Holds, Recorded
  <2>6. RunnersOK' /\ runner'[r] = new /\ Alone(r) BY <1>0, <2>1, <2>4, <2>5, RunnerChanges
  <2>7. JobOK' BY <1>0, <2>1 DEF JobOK
  <2>8. k.pc = "fetch" BY DEF Fetch, At
  <2> QED BY <2>1, <2>3, <2>4, <2>6, <2>7, <2>8 DEF verified, dir, slice
<1> QED BY <1>1, <1>2

\* A shard is written where the runner is.
LEMMA ShardFacts ==
  ASSUME TypeInv, NEW r \in Runner, runner[r].pc = "chunk", Left(runner[r]) # {},
         NEW content \in Content, Shard(r, At1(runner[r]), content)
  PROVE  /\ disk' = Put(disk, <<runner[r].cp.dir, At1(runner[r])>>, content)
         /\ disk' \in DiskType /\ At1(runner[r]) \in Left(runner[r]) /\ At1(runner[r]) \in Index
         /\ runner[r].cp.dir \in Dirs
<1>1. At1(runner[r]) \in Left(runner[r]) /\ At1(runner[r]) \in Index BY TypeFacts, AtLeft
<1>2. runner[r].cp.dir \in Dirs /\ disk \in DiskType BY TypeFacts DEF Holds
<1>3. disk' = Put(disk, <<runner[r].cp.dir, At1(runner[r])>>, content) BY DEF Shard
<1> QED BY <1>1, <1>2, <1>3, PutFacts DEF DiskType

LEMMA TodoIsLeft == \A r \in Runner : Todo(r) = Left(runner[r]) /\ Current(r) = At1(runner[r])
BY DEF Todo, Left, Current, At1

LEMMA WriteFacts ==
  ASSUME TypeInv, NEW r \in Runner, WriteChunk(r)
  PROVE  /\ RunnersOK' /\ runner'[r].pc = "record" /\ Same(runner[r], runner'[r]) /\ Alone(r)
         /\ runner[r].pc = "chunk" /\ Left(runner[r]) # {}
         /\ disk' \in DiskType
         /\ \E content \in Content :
              /\ DOMAIN content = ChunkIds(DOMAIN runner[r].slice, At1(runner[r]))
              /\ disk' = Put(disk, <<runner[r].cp.dir, At1(runner[r])>>, content)
<1> DEFINE S == DOMAIN runner[r].slice
           content == Part(runner[r].slice, ChunkIds(S, At1(runner[r])))
<1>1. /\ runner[r].pc = "chunk" /\ Left(runner[r]) # {} /\ Shard(r, At1(runner[r]), content)
      /\ Goto(r, "record")
  BY TodoIsLeft DEF WriteChunk, At
<1>2. content \in Content /\ DOMAIN content = ChunkIds(S, At1(runner[r]))
  <2>1. runner[r].slice \in Content /\ S \in Dirs BY TypeFacts
  <2>2. ChunkIds(S, At1(runner[r])) \in SUBSET S BY <2>1, ChunkFacts
  <2> HIDE DEF S
  <2> QED BY <2>1, <2>2, PartFacts DEF S
<1> HIDE DEF content
<1>3. /\ disk' = Put(disk, <<runner[r].cp.dir, At1(runner[r])>>, content)
      /\ disk' \in DiskType /\ runner[r].cp.dir \in Dirs
  BY <1>1, <1>2, ShardFacts
<1>4. "record" \in PC BY DEF PC
<1>5. RunnersOK' /\ runner'[r].pc = "record" /\ Same(runner[r], runner'[r]) /\ Alone(r)
  BY <1>1, <1>3, <1>4, GotoFacts
<1> QED BY <1>1, <1>2, <1>3, <1>5

\* A chunk joins the checkpoint with the digest of its records.
LEMMA RecordFacts ==
  ASSUME TypeInv, NEW r \in Runner, RecordChunk(r)
  PROVE  /\ RunnersOK' /\ JobOK' /\ Alone(r) /\ runner[r].pc = "record" /\ Left(runner[r]) # {}
         /\ At1(runner[r]) \in Index
         /\ job'.status = job.status /\ job'.cp = runner'[r].cp
         /\ runner'[r].pc = "chunk" /\ runner'[r].slice = runner[r].slice
         /\ runner'[r].verified = runner[r].verified /\ runner'[r].chunked = runner[r].chunked
         /\ runner'[r].cp.done = runner[r].cp.done \cup {At1(runner[r])}
         /\ runner'[r].cp.dir = runner[r].cp.dir
         /\ runner'[r].cp.digest[At1(runner[r])] = ChunkIds(DOMAIN runner[r].slice, At1(runner[r]))
         /\ \A i \in runner[r].cp.done : i # At1(runner[r]) =>
              runner'[r].cp.digest[i] = runner[r].cp.digest[i]
<1> DEFINE k == runner[r]
           i == At1(k)
           ids == ChunkIds(DOMAIN k.slice, i)
           done == k.cp.done \cup {i}
           digest == Put(k.cp.digest, i, ids)
           cp == [k.cp EXCEPT !.done = done, !.digest = digest]
           new == [k EXCEPT !.cp = cp, !.pc = "chunk"]
<1>0. /\ k \in RunnerType /\ Holds(k) /\ RunnersOK /\ JobOK /\ k.cp \in Points /\ job.cp \in Points
      /\ DOMAIN k.slice \in Dirs
  BY TypeFacts
<1>1. k.pc = "record" /\ Left(k) # {} /\ k.cp.dir \in Dirs /\ Recorded(k.cp)
  BY <1>0 DEF RecordChunk, At, Holds
<1>2. i \in Index /\ ids \in Dirs
  <2> HIDE DEF k
  <2> QED BY <1>0, <1>1, AtLeft, ChunkFacts
<1>3. /\ k.cp.digest \in Partial(Index, Dirs) /\ k.cp.done \subseteq Index BY <1>0 DEF Points
<1> HIDE DEF i, ids
<1>4. /\ digest \in Partial(Index, Dirs) /\ DOMAIN digest = DOMAIN k.cp.digest \cup {i}
      /\ digest[i] = ids /\ \A j \in DOMAIN k.cp.digest : j # i => digest[j] = k.cp.digest[j]
  <2> DEFINE f == k.cp.digest
  <2>1. f \in Partial(Index, Dirs) BY <1>3
  <2> HIDE DEF f
  <2>2. /\ Put(f, i, ids) \in Partial(Index, Dirs) /\ DOMAIN Put(f, i, ids) = DOMAIN f \cup {i}
        /\ Put(f, i, ids)[i] = ids
        /\ \A j \in DOMAIN f : j # i => Put(f, i, ids)[j] = f[j]
    BY <1>2, <2>1, PutFacts
  <2> QED BY <2>2 DEF f
<1>5. done \in SUBSET Index BY <1>2, <1>3
<1>6. /\ cp \in Points /\ cp.done = done /\ cp.digest = digest /\ cp.dir = k.cp.dir
  <2> HIDE DEF k, done, digest
  <2> QED BY <1>0, <1>4, <1>5 DEF Points
<1>7. job' = [job EXCEPT !.cp = cp] /\ runner' = [runner EXCEPT ![r] = new]
  BY TodoIsLeft DEF RecordChunk, i, ids
<1> HIDE DEF cp, digest
<1>8. Recorded(cp) BY <1>1, <1>4, <1>6 DEF Recorded
<1>9. job' \in JobType /\ job'.status = job.status /\ job'.cp = cp
  BY <1>6, <1>7 DEF TypeInv, JobType
<1>10. JobOK' BY <1>8, <1>9 DEF JobOK
<1>11. /\ new \in RunnerType /\ new.pc = "chunk" /\ new.cp = cp /\ new.slice = k.slice
       /\ new.verified = k.verified /\ new.chunked = k.chunked
  <2> HIDE DEF k
  <2> QED BY <1>0, <1>6 DEF RunnerType
<1> HIDE DEF new
<1>12. Holds(new) BY <1>1, <1>6, <1>8, <1>11 DEF Holds
<1>13. RunnersOK' /\ runner'[r] = new /\ Alone(r) BY <1>0, <1>7, <1>11, <1>12, RunnerChanges
<1>14. \A j \in k.cp.done : j \in DOMAIN k.cp.digest BY <1>1 DEF Recorded
<1> QED BY <1>1, <1>2, <1>4, <1>6, <1>9, <1>10, <1>11, <1>13, <1>14 DEF i, ids

\* A chunk that fails may leave a torn shard, and takes its checkpoint to the row.
Torn(r) == \/ disk' = disk
           \/ disk' = Put(disk, <<runner[r].cp.dir, At1(runner[r])>>, <<>>)

LEMMA TornFacts ==
  ASSUME TypeInv, NEW r \in Runner, runner[r].pc = "chunk", Left(runner[r]) # {},
         Shard(r, Current(r), <<>>) \/ UNCHANGED disk
  PROVE  Torn(r) /\ disk' \in DiskType
<1>1. CASE UNCHANGED disk BY <1>1, TypeFacts DEF Torn
<1>2. CASE Shard(r, Current(r), <<>>)
  <2>1. Shard(r, At1(runner[r]), <<>>) BY <1>2, TodoIsLeft
  <2> QED BY <2>1, ContentFacts, ShardFacts DEF Torn
<1> QED BY <1>1, <1>2

LEMMA ChunkFailsFacts ==
  ASSUME TypeInv, NEW r \in Runner, ChunkFails(r)
  PROVE  /\ RunnersOK' /\ JobOK' /\ Alone(r) /\ runner'[r] = Off
         /\ runner[r].pc = "chunk" /\ Left(runner[r]) # {} /\ Torn(r) /\ disk' \in DiskType
         /\ job'.cp = runner[r].cp /\ job'.status = "error"
<1> DEFINE cp == runner[r].cp
<1>1. /\ runner[r].pc = "chunk" /\ Left(runner[r]) # {}
      /\ Shard(r, Current(r), <<>>) \/ UNCHANGED disk
      /\ Stop(r) /\ job' = [job EXCEPT !.cp = cp, !.status = "error"]
  BY TodoIsLeft DEF ChunkFails, At
<1>2. Torn(r) /\ disk' \in DiskType BY <1>1, TornFacts
<1>3. RunnersOK' /\ runner'[r] = Off /\ Alone(r) BY <1>1, StopFacts
<1>4. cp \in Points /\ Recorded(cp) BY TypeFacts DEF Holds
<1>5. "error" \in Status BY DEF Status
<1>6. job' \in JobType /\ job'.cp = cp /\ job'.status = "error"
  <2> HIDE DEF cp
  <2> QED BY <1>1, <1>4, <1>5 DEF TypeInv, JobType
<1>7. JobOK' BY <1>4, <1>6 DEF JobOK
<1> QED BY <1>1, <1>2, <1>3, <1>6, <1>7

\* The archive is assembled from a slice of its own.
LEMMA AssembleFacts ==
  ASSUME TypeInv, NEW r \in Runner, Assemble(r)
  PROVE  /\ RunnersOK' /\ Alone(r)
         /\ runner[r].pc = "assemble" \/ (runner[r].pc = "chunk" /\ Left(runner[r]) = {})
         /\ runner'[r].pc = "seal" /\ runner'[r].files = Slice /\ runner'[r].cp = runner[r].cp
         /\ runner'[r].chunked = runner[r].chunked
<1> DEFINE k == runner[r]
           files == Slice
           new == [k EXCEPT !.pc = "seal", !.files = files]
<1>1. k \in RunnerType /\ Holds(k) /\ RunnersOK /\ files \in Content BY TypeFacts, SliceFacts
<1>2. runner' = [runner EXCEPT ![r] = new] BY DEF Assemble
<1>3. /\ new \in RunnerType /\ new.pc = "seal" /\ new.files = files /\ new.cp = k.cp
      /\ new.chunked = k.chunked
  <2> HIDE DEF files, k
  <2> QED BY <1>1 DEF RunnerType
<1> HIDE DEF new
<1>4. Holds(new) BY <1>1, <1>3 DEF Holds
<1>5. RunnersOK' /\ runner'[r] = new /\ Alone(r) BY <1>1, <1>2, <1>3, <1>4, RunnerChanges
<1>6. runner[r].pc = "assemble" \/ (runner[r].pc = "chunk" /\ Left(runner[r]) = {})
  BY TodoIsLeft DEF Assemble, At
<1> QED BY <1>3, <1>5, <1>6

LEMMA AssembleFailsFacts ==
  ASSUME TypeInv, NEW r \in Runner, AssembleFails(r)
  PROVE  /\ RunnersOK' /\ Alone(r) /\ runner'[r] = Off /\ runner[r].pc # "off"
         /\ JobOK' /\ job'.cp = job.cp /\ job'.status \in {job.status, "error"}
<1>1. Stop(r) /\ runner[r].pc # "off" BY DEF AssembleFails, At
<1>2. RunnersOK' /\ runner'[r] = Off /\ Alone(r) BY <1>1, StopFacts
<1>3. "error" \in Status BY DEF Status
<1>4. job' = job \/ job' = [job EXCEPT !.status = "error"] BY DEF AssembleFails
<1>5. CASE job' = job BY <1>1, <1>2, <1>5, TypeFacts DEF JobOK
<1>6. CASE job' = [job EXCEPT !.status = "error"] BY <1>1, <1>2, <1>3, <1>6, StatusFacts
<1> QED BY <1>4, <1>5, <1>6

LEMMA SealFacts ==
  ASSUME TypeInv, NEW r \in Runner, Seal(r)
  PROVE  /\ RunnersOK' /\ Alone(r) /\ runner[r].pc = "seal" /\ runner'[r].pc = "upload"
         /\ Same(runner[r], runner'[r])
         /\ \A d \in DOMAIN sealed' : d \in Dirs /\ DOMAIN sealed'[d] = d
<1> DEFINE files == runner[r].files
           d == DOMAIN files
<1>1. Goto(r, "upload") /\ "upload" \in PC /\ runner[r].pc = "seal" BY DEF Seal, PC, At
<1>2. RunnersOK' /\ runner'[r].pc = "upload" /\ Same(runner[r], runner'[r]) /\ Alone(r)
  BY <1>1, GotoFacts
<1>3. d \in Dirs BY TypeFacts
<1>4. \A e \in DOMAIN sealed : e \in Dirs /\ DOMAIN sealed[e] = e BY DEF TypeInv
<1>5. sealed' = sealed \/ sealed' = Put(sealed, d, files) BY DEF Seal
<1>6. \A e \in DOMAIN sealed' : e \in Dirs /\ DOMAIN sealed'[e] = e
  <2>1. CASE sealed' = sealed BY <1>4, <2>1
  <2>2. CASE sealed' = Put(sealed, d, files)
    <3>1. DOMAIN files = d OBVIOUS
    <3> HIDE DEF d, files
    <3>2. /\ DOMAIN Put(sealed, d, files) = DOMAIN sealed \cup {d} /\ Put(sealed, d, files)[d] = files
          /\ \A x \in DOMAIN sealed : x # d => Put(sealed, d, files)[x] = sealed[x]
      BY DEF Put
    <3> QED BY <1>3, <1>4, <2>2, <3>1, <3>2
  <2> QED BY <1>5, <2>1, <2>2
<1> QED BY <1>1, <1>2, <1>6

LEMMA UploadFacts ==
  ASSUME TypeInv, NEW r \in Runner, Upload(r)
  PROVE  /\ RunnersOK' /\ Alone(r) /\ runner[r].pc = "upload" /\ runner'[r].pc = "done"
         /\ Same(runner[r], runner'[r])
         /\ DOMAIN store' = DOMAIN store \cup {DOMAIN runner[r].files}
         /\ \A d \in DOMAIN store : d # DOMAIN runner[r].files => store'[d] = store[d]
         /\ store'[DOMAIN runner[r].files] =
              [files |-> runner[r].files, shards |-> ShardsIn(DOMAIN runner[r].files)]
         /\ \A d \in DOMAIN store' : DOMAIN store'[d].files = d /\ DOMAIN store'[d].shards \subseteq Index
<1> DEFINE files == runner[r].files
           d == DOMAIN files
           shards == ShardsIn(d)
           entry == [files |-> files, shards |-> shards]
<1>1. Goto(r, "done") /\ "done" \in PC /\ runner[r].pc = "upload" BY DEF Upload, PC, At
<1>2. RunnersOK' /\ runner'[r].pc = "done" /\ Same(runner[r], runner'[r]) /\ Alone(r)
  BY <1>1, GotoFacts
<1>3. store' = Put(store, d, entry) BY DEF Upload
<1>4. /\ DOMAIN store' = DOMAIN store \cup {d} /\ store'[d] = entry
      /\ \A e \in DOMAIN store : e # d => store'[e] = store[e]
  <2> HIDE DEF d, entry
  <2>1. /\ DOMAIN Put(store, d, entry) = DOMAIN store \cup {d} /\ Put(store, d, entry)[d] = entry
        /\ \A x \in DOMAIN store : x # d => Put(store, d, entry)[x] = store[x]
    BY DEF Put
  <2> QED BY <1>3, <2>1
<1>5. \A e \in DOMAIN store : DOMAIN store[e].files = e /\ DOMAIN store[e].shards \subseteq Index
  BY DEF TypeInv
<1>6. DOMAIN shards \subseteq Index BY DEF ShardsIn
<1>7. entry.files = files /\ entry.shards = shards
  <2> HIDE DEF files, shards
  <2> QED OBVIOUS
<1>8. \A e \in DOMAIN store' : DOMAIN store'[e].files = e /\ DOMAIN store'[e].shards \subseteq Index
  <2>1. DOMAIN files = d OBVIOUS
  <2> HIDE DEF d, files, shards, entry
  <2> QED BY <1>4, <1>5, <1>6, <1>7, <2>1
<1> QED BY <1>1, <1>2, <1>4, <1>8

LEMMA DoneFacts ==
  ASSUME TypeInv, NEW r \in Runner, Done(r)
  PROVE  /\ RunnersOK' /\ JobOK' /\ Alone(r) /\ runner[r].pc = "done"
         /\ runner'[r] = Off \/ runner'[r].pc = "note"
         /\ job'.status = "done"
         /\ job'.cp = (IF runner[r].chunked THEN runner[r].cp ELSE job.cp)
<1> DEFINE cp == IF runner[r].chunked THEN runner[r].cp ELSE job.cp
           commit == IF runner[r].chunked THEN job.commit ELSE DOMAIN runner[r].files
<1>1. cp \in Points /\ Recorded(cp) BY TypeFacts DEF Holds, JobOK
<1>2. commit \in Dirs \cup {NoDir} BY TypeFacts DEF TypeInv, JobType
<1>3. job' = [job EXCEPT !.status = "done", !.cp = cp, !.commit = commit] BY DEF Done
<1>4. "done" \in Status BY DEF Status
<1>5. JobOK' /\ job'.status = "done" /\ job'.cp = cp
  <2> HIDE DEF cp, commit
  <2> QED BY <1>1, <1>2, <1>3, <1>4, JobFacts
<1>6. Goto(r, "note") \/ Stop(r) BY DEF Done
<1>7. "note" \in PC BY DEF PC
<1>8. RunnersOK' /\ Alone(r) /\ (runner'[r] = Off \/ runner'[r].pc = "note")
  BY <1>6, <1>7, GotoFacts, StopFacts
<1> QED BY <1>5, <1>8 DEF Done, At

LEMMA NoteFacts ==
  ASSUME TypeInv, NEW r \in Runner, Note(r)
  PROVE  /\ RunnersOK' /\ JobOK' /\ Alone(r) /\ runner'[r] = Off
         /\ job'.status = job.status /\ job'.cp = job.cp /\ runner[r].pc = "note"
<1> DEFINE commit == DOMAIN runner[r].files
<1>1. commit \in Dirs BY TypeFacts
<1>2. job' = [job EXCEPT !.commit = commit] /\ Stop(r) BY DEF Note
<1>3. job' \in JobType /\ job'.status = job.status /\ job'.cp = job.cp
  <2> HIDE DEF commit
  <2> QED BY <1>1, <1>2 DEF TypeInv, JobType
<1>4. JobOK' BY <1>3 DEF JobOK, TypeInv
<1> QED BY <1>2, <1>3, <1>4, StopFacts DEF Note, At

LEMMA CrashFacts ==
  ASSUME TypeInv, Crash
  PROVE  /\ RunnersOK' /\ \A r \in Runner : runner'[r] = Off
         /\ disk' \in DiskType /\ (\E r \in Runner : runner[r].pc # "off")
         /\ disk' = disk \/ \E r \in Runner : runner[r].pc = "chunk" /\ Left(runner[r]) # {} /\ Torn(r)
<1>1. runner' = [r \in Runner |-> Off] BY DEF Crash
<1>2. RunnersOK' /\ \A r \in Runner : runner'[r] = Off
  <2> HIDE DEF Off
  <2> QED BY <1>1, OffFacts DEF RunnersOK
<1>3. \E r \in Runner : runner[r].pc # "off" BY DEF Crash, At
<1>4. CASE UNCHANGED disk BY <1>2, <1>3, <1>4, TypeFacts
<1>5. CASE \E r \in Runner : At(r, "chunk") /\ Todo(r) # {} /\ Shard(r, Current(r), <<>>)
  <2>1. PICK r \in Runner : runner[r].pc = "chunk" /\ Left(runner[r]) # {} /\ Shard(r, Current(r), <<>>)
    BY <1>5, TodoIsLeft DEF At
  <2>2. Torn(r) /\ disk' \in DiskType BY <2>1, TornFacts
  <2> QED BY <1>2, <1>3, <2>1, <2>2
<1> QED BY <1>4, <1>5 DEF Crash

\* What the corpus and the sweep do.
LEMMA EnvFacts ==
  ASSUME TypeInv, Edit \/ Reap \/ Cancel
  PROVE  /\ JobOK' /\ job'.cp = job.cp /\ (job'.status = "pending" => job.status = "pending")
         /\ label' \in [Objects -> Label \cup {Out}] /\ (~Edit => label' = label)
         /\ UNCHANGED <<disk, sealed, store, runner>>
<1>1. CASE Edit
  <2>1. PICK o \in Objects, l \in Label \cup {Out} : label' = [label EXCEPT ![o] = l]
    BY <1>1 DEF Edit
  <2>2. label' \in [Objects -> Label \cup {Out}] BY <2>1 DEF TypeInv
  <2> QED BY <1>1, <2>2, TypeFacts DEF Edit, JobOK
<1>2. CASE Reap
  <2>1. Reaped \in Status /\ Reaped # "pending" BY DEF Reaped, Status
  <2>2. job' = [job EXCEPT !.status = Reaped] BY <1>2 DEF Reap
  <2>3. JobOK' /\ job'.status = Reaped /\ job'.cp = job.cp BY <2>1, <2>2, StatusFacts
  <2> QED BY <1>2, <2>1, <2>3 DEF Reap, TypeInv
<1>3. CASE Cancel
  <2>1. "canceled" \in Status BY DEF Status
  <2>2. job' = [job EXCEPT !.status = "canceled"] BY <1>3 DEF Cancel
  <2>3. JobOK' /\ job'.status = "canceled" /\ job'.cp = job.cp BY <2>1, <2>2, StatusFacts
  <2> QED BY <1>3, <2>3 DEF Cancel, TypeInv
<1> QED BY <1>1, <1>2, <1>3

LEMMA TypeStep == TypeInv /\ [Next]_vars => TypeInv'
<1> SUFFICES ASSUME TypeInv, [Next]_vars PROVE TypeInv' OBVIOUS
<1>0. /\ label \in [Objects -> Label \cup {Out}] /\ JobOK /\ disk \in DiskType /\ RunnersOK
      /\ \A d \in DOMAIN sealed : d \in Dirs /\ DOMAIN sealed[d] = d
      /\ \A d \in DOMAIN store : DOMAIN store[d].files = d /\ DOMAIN store[d].shards \subseteq Index
  BY DEF TypeInv, JobOK, RunnersOK
<1>1. CASE UNCHANGED vars BY <1>0, <1>1 DEF vars, TypeInv, JobOK, RunnersOK
<1>2. CASE Edit \/ Reap \/ Cancel
  <2>1. /\ JobOK' /\ label' \in [Objects -> Label \cup {Out}]
        /\ UNCHANGED <<disk, sealed, store, runner>>
    BY <1>2, EnvFacts
  <2> QED BY <1>0, <2>1 DEF TypeInv, JobOK, RunnersOK
<1>3. CASE Crash
  <2>1. RunnersOK' /\ disk' \in DiskType BY <1>3, CrashFacts
  <2>2. UNCHANGED <<label, job, sealed, store>> BY <1>3 DEF Crash
  <2> QED BY <1>0, <2>1, <2>2 DEF TypeInv, JobOK, RunnersOK
<1>4. ASSUME NEW r \in Runner, RunPlain(r) \/ Resume(r) \/ Step(r) \/ ChunkFails(r) \/ AssembleFails(r)
      PROVE  TypeInv'
  <2>1. CASE RunPlain(r)
    <3>1. RunnersOK' /\ JobOK' BY <2>1, RunPlainFacts
    <3> QED BY <1>0, <2>1, <3>1 DEF RunPlain, TypeInv, JobOK, RunnersOK
  <2>2. CASE Resume(r)
    <3>1. RunnersOK' /\ JobOK' BY <2>2, ResumeFacts
    <3> QED BY <1>0, <2>2, <3>1 DEF Resume, TypeInv, JobOK, RunnersOK
  <2>3. CASE Fetch(r)
    <3>1. RunnersOK' /\ JobOK' BY <2>3, FetchFacts
    <3> QED BY <1>0, <2>3, <3>1 DEF Fetch, TypeInv, JobOK, RunnersOK
  <2>4. CASE WriteChunk(r)
    <3>1. RunnersOK' /\ disk' \in DiskType BY <2>4, WriteFacts
    <3> QED BY <1>0, <2>4, <3>1 DEF WriteChunk, TypeInv, JobOK, RunnersOK
  <2>5. CASE RecordChunk(r)
    <3>1. RunnersOK' /\ JobOK' BY <2>5, RecordFacts
    <3>2. UNCHANGED <<label, disk, sealed, store>> BY <2>5 DEF RecordChunk
    <3> QED BY <1>0, <3>1, <3>2 DEF TypeInv, JobOK, RunnersOK
  <2>6. CASE ChunkFails(r)
    <3>1. RunnersOK' /\ JobOK' /\ disk' \in DiskType BY <2>6, ChunkFailsFacts
    <3> QED BY <1>0, <2>6, <3>1 DEF ChunkFails, TypeInv, JobOK, RunnersOK
  <2>7. CASE Assemble(r)
    <3>1. RunnersOK' BY <2>7, AssembleFacts
    <3> QED BY <1>0, <2>7, <3>1 DEF Assemble, TypeInv, JobOK, RunnersOK
  <2>8. CASE AssembleFails(r)
    <3>1. RunnersOK' /\ JobOK' BY <2>8, AssembleFailsFacts
    <3> QED BY <1>0, <2>8, <3>1 DEF AssembleFails, TypeInv, JobOK, RunnersOK
  <2>9. CASE Seal(r)
    <3>1. RunnersOK' /\ \A d \in DOMAIN sealed' : d \in Dirs /\ DOMAIN sealed'[d] = d
      BY <2>9, SealFacts
    <3>2. UNCHANGED <<label, job, disk, store>> BY <2>9 DEF Seal
    <3> QED BY <1>0, <3>1, <3>2 DEF TypeInv, JobOK, RunnersOK
  <2>10. CASE Upload(r)
    <3>1. RunnersOK' /\ \A d \in DOMAIN store' : DOMAIN store'[d].files = d
                                                 /\ DOMAIN store'[d].shards \subseteq Index
      BY <2>10, UploadFacts
    <3>2. UNCHANGED <<label, job, disk, sealed>> BY <2>10 DEF Upload
    <3> QED BY <1>0, <3>1, <3>2 DEF TypeInv, JobOK, RunnersOK
  <2>11. CASE Done(r)
    <3>1. RunnersOK' /\ JobOK' BY <2>11, DoneFacts
    <3> QED BY <1>0, <2>11, <3>1 DEF Done, TypeInv, JobOK, RunnersOK
  <2>12. CASE Note(r)
    <3>1. RunnersOK' /\ JobOK' BY <2>12, NoteFacts
    <3> QED BY <1>0, <2>12, <3>1 DEF Note, TypeInv, JobOK, RunnersOK
  <2> QED BY <1>4, <2>1, <2>2, <2>3, <2>4, <2>5, <2>6, <2>7, <2>8, <2>9, <2>10, <2>11, <2>12 DEF Step
<1> QED BY <1>1, <1>2, <1>3, <1>4 DEF Next

LEMMA TypeInit == Init => TypeInv
<1> SUFFICES ASSUME Init PROVE TypeInv OBVIOUS
<1> DEFINE first == CHOOSE l \in Label : TRUE
<1>1. first \in Label BY ExportsAssumption
<1>2. label \in [Objects -> Label \cup {Out}]
  <2>1. label = [o \in Objects |-> first] BY DEF Init
  <2> HIDE DEF first
  <2> QED BY <1>1, <2>1
<1>3. JobOK /\ job.cp = NoPoint
  <2>1. job = [status |-> "pending", cp |-> NoPoint, commit |-> NoDir] BY DEF Init
  <2> HIDE DEF NoPoint
  <2>2. job \in JobType /\ job.cp = NoPoint BY <2>1, PointFacts DEF JobType, Status
  <2> QED BY <2>2, PointFacts DEF JobOK
<1>4. disk \in DiskType /\ DOMAIN sealed = {} /\ DOMAIN store = {}
  BY NothingIsPartial DEF Init, DiskType
<1>5. RunnersOK
  <2>1. runner = [r \in Runner |-> Off] BY DEF Init
  <2> HIDE DEF Off
  <2> QED BY <2>1, OffFacts DEF RunnersOK
<1> QED BY <1>2, <1>3, <1>4, <1>5 DEF TypeInv, JobOK, RunnersOK

LEMMA TypeInvOK == TypeInv => TypeOK
<1> SUFFICES ASSUME TypeInv PROVE TypeOK OBVIOUS
<1>1. ASSUME NEW cp \in Points, Recorded(cp) PROVE Checkpoint(cp)
  <2>1. cp.dir \in Dirs \cup {NoDir} BY DEF Points
  <2> QED BY <1>1, <2>1, PointFacts DEF Checkpoint, Recorded
<1>2. job.status \in Status /\ Checkpoint(job.cp) /\ (job.commit \in Dirs \/ job.commit = NoDir)
  BY <1>1, TypeFacts DEF JobOK, JobType
<1>3. DOMAIN disk \subseteq Dirs \X Index /\ \A k \in DOMAIN disk : disk[k] \in Content
  BY TypeFacts, PartialFacts DEF DiskType
<1>4. \A r \in Runner :
        /\ runner[r].pc \in {"off", "fetch", "chunk", "record", "assemble", "seal", "upload", "done", "note"}
        /\ Checkpoint(runner[r].cp) /\ runner[r].slice \in Content /\ runner[r].files \in Content
  <2>1. \A r \in Runner : runner[r] \in RunnerType /\ runner[r].cp \in Points /\ Recorded(runner[r].cp)
    BY TypeFacts DEF Holds
  <2>2. \A r \in Runner : Checkpoint(runner[r].cp) BY <1>1, <2>1
  <2> QED BY <2>1, <2>2 DEF RunnerType
<1> QED BY <1>2, <1>3, <1>4 DEF TypeOK, TypeInv

(* The row of an export, its checkpoint, the shards, the sealed commits    *)
(* and the uploads stay of their types, for any number of runs of the job  *)
(* at once: a checkpoint lists no chunk it has no digest of, a shard is in *)
(* the directory of some slice, a commit seals and uploads its own files.  *)
THEOREM TypeCorrect == Spec => []TypeOK
<1>1. Init => TypeInv BY TypeInit
<1>2. TypeInv /\ [Next]_vars => TypeInv' BY TypeStep
<1>3. TypeInv => TypeOK BY TypeInvOK
<1> QED BY <1>1, <1>2, <1>3, PTL DEF Spec

-------------------------------------------------------------------------------
(* Checkpoints that tell the truth, for one run of the job at a time and a *)
(* slice that objects leave or change label in, but do not join.           *)
(*                                                                         *)
(* These speak of a checkpoint cp, the slice of now cur, the disk f and    *)
(* the record k of a runner at its chunks.                                 *)

\* The shard of chunk i in the directory of commit d holds that chunk of slice S.
Written(f, d, i, S) == <<d, i>> \in DOMAIN f /\ DOMAIN f[<<d, i>>] = ChunkIds(S, i)

\* What a resume may rely on.  Directories only shrink, so a digest that fits any later slice
\* fits every slice since it was taken.
GoodPoint(cp, cur, f) ==
  /\ cp.dir = NoDir => cp.done = {}
  /\ cp.dir # NoDir => cur \subseteq cp.dir /\ \A x \in DOMAIN f : cp.dir \subseteq x[1]
  /\ \A i \in cp.done : \E O \in Dirs : cur \subseteq O /\ cp.digest[i] = ChunkIds(O, i)
  /\ \A X \in SUBSET cur : \A i \in cp.done \cap Chunks(X) :
       cp.digest[i] = ChunkIds(X, i) => Written(f, cp.dir, i, X)

\* A directory is that of a slice the corpus has been through since, with chunks of that slice only.
GoodDirs(cur, f) ==
  \A x \in DOMAIN f : cur \subseteq x[1] /\ (x[1] \subseteq cur => x[2] \in Chunks(x[1]))

\* A runner at its chunks has verified what it skips and knows every chunk that still fits.
GoodWork(k, cp, cur, f) ==
  LET ids == DOMAIN k.slice IN
  /\ cur \subseteq ids /\ ids \subseteq k.cp.dir
  /\ cp.dir \in {NoDir, k.cp.dir}
  /\ \A i \in cp.done : \E O \in Dirs : ids \subseteq O /\ cp.digest[i] = ChunkIds(O, i)
  /\ \A i \in cp.done \cap Chunks(ids) : cp.digest[i] = ChunkIds(ids, i) => i \in k.cp.done
  /\ \A i \in k.cp.done : /\ i \in Chunks(ids) /\ k.cp.digest[i] = ChunkIds(ids, i)
                          /\ Written(f, k.cp.dir, i, ids)
  /\ \A x \in DOMAIN f : k.cp.dir \subseteq x[1] /\ (x[1] = ids => x[2] \in Chunks(ids))
  /\ k.verified \subseteq k.cp.done

\* While the corpus shrinks.
LEMMA PointShrinks ==
  ASSUME NEW cp, NEW cur, NEW f, NEW now \in SUBSET cur, GoodPoint(cp, cur, f)
  PROVE  GoodPoint(cp, now, f)
BY DEF GoodPoint

LEMMA DirsShrink ==
  ASSUME NEW cur, NEW f, NEW now \in SUBSET cur, GoodDirs(cur, f)
  PROVE  GoodDirs(now, f)
BY DEF GoodDirs

LEMMA WorkShrinks ==
  ASSUME NEW k, NEW cp, NEW cur, NEW f, NEW now \in SUBSET cur, GoodWork(k, cp, cur, f)
  PROVE  GoodWork(k, cp, now, f)
BY DEF GoodWork

\* A runner at its chunks could be resumed from its own checkpoint.
LEMMA WorkIsGoodPoint ==
  ASSUME NEW k, NEW cp, NEW cur, NEW f, GoodWork(k, cp, cur, f),
         DOMAIN k.slice \in Dirs, k.cp.dir \in Dirs
  PROVE  GoodPoint(k.cp, cur, f)
<1> DEFINE ids == DOMAIN k.slice
<1>1. k.cp.dir # NoDir BY NoDirIsNone
<1>2. cur \subseteq k.cp.dir /\ \A x \in DOMAIN f : k.cp.dir \subseteq x[1] BY DEF GoodWork
<1>3. \A i \in k.cp.done : \E O \in Dirs : cur \subseteq O /\ k.cp.digest[i] = ChunkIds(O, i)
  BY DEF GoodWork
<1>4. ASSUME NEW X \in SUBSET cur, NEW i \in k.cp.done \cap Chunks(X), k.cp.digest[i] = ChunkIds(X, i)
      PROVE  Written(f, k.cp.dir, i, X)
  <2>1. k.cp.digest[i] = ChunkIds(ids, i) /\ Written(f, k.cp.dir, i, ids) BY <1>4 DEF GoodWork
  <2> QED BY <1>4, <2>1 DEF Written
<1> QED BY <1>1, <1>2, <1>3, <1>4 DEF GoodPoint

\* Whatever a runner leaves where it is, a whole shard or a torn one, breaks no promise: no digest
\* of the row that still fits speaks of that chunk.
LEMMA WriteIsGood ==
  ASSUME NEW k, NEW cp, NEW cur, NEW f, NEW content, NEW g,
         GoodWork(k, cp, cur, f), GoodPoint(cp, cur, f), GoodDirs(cur, f),
         DOMAIN k.slice \in Dirs, k.cp.dir \in Dirs, Left(k) # {},
         g = Put(f, <<k.cp.dir, At1(k)>>, content)
  PROVE  /\ GoodWork(k, cp, cur, g) /\ GoodPoint(cp, cur, g) /\ GoodDirs(cur, g)
         /\ DOMAIN content = ChunkIds(DOMAIN k.slice, At1(k)) =>
              Written(g, k.cp.dir, At1(k), DOMAIN k.slice)
<1> DEFINE ids == DOMAIN k.slice
           dir == k.cp.dir
           n == At1(k)
           x == <<dir, n>>
<1>1. n \in Chunks(ids) /\ n \notin k.cp.done /\ n \in Index /\ n \in Nat
  BY AtLeft, IndexIsNat DEF Left
<1>2. /\ DOMAIN g = DOMAIN f \cup {x} /\ g[x] = content
      /\ \A y \in DOMAIN f : y # x => g[y] = f[y]
  <2> HIDE DEF x
  <2> QED BY DEF Put, x
<1> HIDE DEF n
<1>3. x[1] = dir /\ x[2] = n OBVIOUS
<1>4. ASSUME NEW e, NEW i, NEW X, Written(f, e, i, X), e # dir \/ i # n PROVE Written(g, e, i, X)
  <2>1. <<e, i>> # x BY <1>4
  <2> HIDE DEF x
  <2> QED BY <1>2, <1>4, <2>1 DEF Written
<1>5. cur \subseteq ids /\ ids \subseteq dir /\ dir # NoDir /\ cp.dir \in {NoDir, dir}
  BY NoDirIsNone DEF GoodWork
<1> HIDE DEF x
<1>6. GoodDirs(cur, g)
  <2>1. dir \subseteq cur => n \in Chunks(dir)
    <3>1. dir \subseteq cur => dir = ids BY <1>5
    <3> QED BY <1>1, <3>1
  <2>2. cur \subseteq dir BY <1>5
  <2> QED BY <1>2, <1>3, <2>1, <2>2 DEF GoodDirs
<1>7. GoodPoint(cp, cur, g)
  <2>1. cp.dir = NoDir => cp.done = {} BY DEF GoodPoint
  <2>2. ASSUME cp.dir # NoDir PROVE cur \subseteq cp.dir /\ \A y \in DOMAIN g : cp.dir \subseteq y[1]
    <3>1. cp.dir = dir BY <1>5, <2>2
    <3>2. cur \subseteq cp.dir /\ \A y \in DOMAIN f : cp.dir \subseteq y[1] BY <2>2 DEF GoodPoint
    <3> QED BY <1>2, <1>3, <3>1, <3>2
  <2>3. \A i \in cp.done : \E O \in Dirs : cur \subseteq O /\ cp.digest[i] = ChunkIds(O, i)
    BY DEF GoodPoint
  <2>4. ASSUME NEW X \in SUBSET cur, NEW i \in cp.done \cap Chunks(X), cp.digest[i] = ChunkIds(X, i)
        PROVE  Written(g, cp.dir, i, X)
    <3>1. Written(f, cp.dir, i, X) BY <2>4 DEF GoodPoint
    <3>2. i # n
      <4> SUFFICES ASSUME i = n PROVE FALSE OBVIOUS
      <4>1. PICK O \in Dirs : ids \subseteq O /\ cp.digest[n] = ChunkIds(O, n)
        BY <2>4 DEF GoodWork
      <4>2. X \in SUBSET ids /\ ids \in SUBSET O BY <1>5, <4>1
      <4>3. ChunkIds(ids, n) = ChunkIds(X, n) BY <1>1, <2>4, <4>1, <4>2, Between
      <4>4. cp.digest[n] = ChunkIds(ids, n) BY <2>4, <4>3
      <4> QED BY <1>1, <2>4, <4>4 DEF GoodWork
    <3> QED BY <1>4, <3>1, <3>2
  <2> QED BY <2>1, <2>2, <2>3, <2>4 DEF GoodPoint
<1>8. GoodWork(k, cp, cur, g)
  <2>1. ASSUME NEW i \in k.cp.done
        PROVE  /\ i \in Chunks(ids) /\ k.cp.digest[i] = ChunkIds(ids, i) /\ Written(g, dir, i, ids)
    <3>1. i # n BY <1>1, <2>1
    <3>2. i \in Chunks(ids) /\ k.cp.digest[i] = ChunkIds(ids, i) /\ Written(f, dir, i, ids)
      BY <2>1 DEF GoodWork
    <3> QED BY <1>4, <3>1, <3>2
  <2>2. \A y \in DOMAIN f : dir \subseteq y[1] /\ (y[1] = ids => y[2] \in Chunks(ids))
    BY DEF GoodWork
  <2>3. \A y \in DOMAIN g : dir \subseteq y[1] /\ (y[1] = ids => y[2] \in Chunks(ids))
    BY <1>1, <1>2, <1>3, <2>2
  <2> QED BY <2>1, <2>3 DEF GoodWork
<1>9. DOMAIN content = ChunkIds(ids, n) => Written(g, dir, n, ids)
  BY <1>2 DEF Written, x
<1> QED BY <1>6, <1>7, <1>8, <1>9 DEF n

\* A resume: what is verified is written.
LEMMA FetchIsGood ==
  ASSUME NEW k, NEW cp, NEW cur \in Dirs, NEW f, GoodPoint(cp, cur, f), GoodDirs(cur, f),
         DOMAIN k.slice = cur, k.verified = Verified(cp, cur), k.cp.done = Verified(cp, cur),
         k.cp.dir = OutDir(cp, cur), k.cp.digest = cp.digest
  PROVE  GoodWork(k, cp, cur, f)
<1>1. cp.dir = NoDir => cp.done = {} /\ k.cp.dir = cur BY DEF GoodPoint, OutDir
<1>2. cp.dir # NoDir => k.cp.dir = cp.dir /\ cur \subseteq cp.dir
                        /\ \A x \in DOMAIN f : cp.dir \subseteq x[1]
  BY DEF GoodPoint, OutDir
<1>3. cur \subseteq k.cp.dir /\ cp.dir \in {NoDir, k.cp.dir} BY <1>1, <1>2
<1>4. \A i \in cp.done : \E O \in Dirs : cur \subseteq O /\ cp.digest[i] = ChunkIds(O, i)
  BY DEF GoodPoint
<1>5. \A i \in cp.done \cap Chunks(cur) : cp.digest[i] = ChunkIds(cur, i) => i \in k.cp.done
  BY DEF Verified
<1>6. ASSUME NEW i \in k.cp.done
      PROVE  i \in Chunks(cur) /\ k.cp.digest[i] = ChunkIds(cur, i) /\ Written(f, k.cp.dir, i, cur)
  <2>1. i \in cp.done /\ i \in Chunks(cur) /\ cp.digest[i] = ChunkIds(cur, i) BY <1>6 DEF Verified
  <2>2. cp.dir # NoDir BY <1>1, <2>1
  <2>3. cur \in SUBSET cur OBVIOUS
  <2>4. Written(f, cp.dir, i, cur) BY <2>1, <2>3 DEF GoodPoint
  <2> QED BY <1>2, <2>1, <2>2, <2>4
<1>7. \A x \in DOMAIN f : k.cp.dir \subseteq x[1] /\ (x[1] = cur => x[2] \in Chunks(cur))
  BY <1>1, <1>2 DEF GoodDirs
<1> QED BY <1>3, <1>4, <1>5, <1>6, <1>7 DEF GoodWork

\* A chunk recorded: the row's checkpoint is the runner's.
LEMMA RecordIsGood ==
  ASSUME NEW k, NEW l, NEW cp, NEW cur, NEW f, NEW n, GoodWork(k, cp, cur, f),
         DOMAIN k.slice \in Dirs, n \in Chunks(DOMAIN k.slice), Written(f, k.cp.dir, n, DOMAIN k.slice),
         l.slice = k.slice, l.verified = k.verified, l.cp.dir = k.cp.dir,
         l.cp.done = k.cp.done \cup {n}, l.cp.digest[n] = ChunkIds(DOMAIN k.slice, n),
         \A i \in k.cp.done : i # n => l.cp.digest[i] = k.cp.digest[i]
  PROVE  GoodWork(l, l.cp, cur, f)
<1> DEFINE ids == DOMAIN k.slice
<1>1. cur \subseteq ids /\ ids \subseteq l.cp.dir /\ l.verified \subseteq l.cp.done BY DEF GoodWork
<1>2. ASSUME NEW i \in l.cp.done
      PROVE  /\ i \in Chunks(ids) /\ l.cp.digest[i] = ChunkIds(ids, i)
             /\ Written(f, l.cp.dir, i, ids)
  <2>1. CASE i = n BY <2>1
  <2>2. CASE i # n
    <3>1. i \in k.cp.done BY <1>2, <2>2
    <3> QED BY <2>2, <3>1 DEF GoodWork
  <2> QED BY <2>1, <2>2
<1>3. \A x \in DOMAIN f : l.cp.dir \subseteq x[1] /\ (x[1] = ids => x[2] \in Chunks(ids))
  BY DEF GoodWork
<1>4. \A i \in l.cp.done : \E O \in Dirs : ids \subseteq O /\ l.cp.digest[i] = ChunkIds(O, i)
  BY <1>2
<1> QED BY <1>1, <1>2, <1>3, <1>4 DEF GoodWork

OneRun == \A r, q \in Runner : r = q
NoneJoins == "join" \notin Moves

PromiseInv ==
  /\ GoodPoint(job.cp, Cur, disk)
  /\ GoodDirs(Cur, disk)
  /\ \A r \in Runner :
       /\ runner[r].pc = "off" => ~runner[r].chunked
       /\ runner[r].pc = "fetch" => runner[r].cp = job.cp
       /\ runner[r].pc \in {"chunk", "record"} => GoodWork(runner[r], job.cp, Cur, disk)
       /\ runner[r].pc = "record" =>
            Written(disk, runner[r].cp.dir, At1(runner[r]), DOMAIN runner[r].slice)
       /\ runner[r].pc = "assemble" => ~runner[r].chunked
       /\ runner[r].pc \in {"seal", "upload", "done"} /\ runner[r].chunked =>
            GoodPoint(runner[r].cp, Cur, disk)

LEMMA CurShrinks ==
  ASSUME NoneJoins, TypeInv, [Next]_vars
  PROVE  Cur' \subseteq Cur /\ (~Edit => Cur' = Cur)
<1>1. CASE Edit
  <2>1. PICK o \in Objects, l \in Label \cup {Out} :
          /\ label[o] # l
          /\ (CASE l = Out -> "leave" [] label[o] = Out -> "join" [] OTHER -> "relabel") \in Moves
          /\ label' = [label EXCEPT ![o] = l]
    BY <1>1 DEF Edit
  <2>2. l # Out => label[o] # Out BY <2>1 DEF NoneJoins
  <2>3. \A x \in Objects : label'[x] # Out => label[x] # Out BY <2>1, <2>2 DEF TypeInv
  <2> QED BY <1>1, <2>3 DEF Cur, Slice
<1>2. CASE ~Edit
  <2>1. label' = label
    BY <1>2 DEF Next, vars, Crash, Reap, Cancel, RunPlain, Resume, Step, Fetch, WriteChunk,
                RecordChunk, ChunkFails, Assemble, AssembleFails, Seal, Upload, Done, Note
  <2> QED BY <2>1 DEF Cur, Slice
<1> QED BY <1>1, <1>2

\* A runner's record speaks through its slice, its checkpoint and what it verified.
LEMMA WorkIsSame ==
  ASSUME NEW k, NEW l, NEW cp, NEW cur, NEW f, Same(k, l), GoodWork(k, cp, cur, f)
  PROVE  GoodWork(l, cp, cur, f) /\ At1(l) = At1(k)
BY DEF GoodWork, Same, At1, Left

LEMMA PromiseStep ==
  ASSUME OneRun, NoneJoins, TypeInv, TypeInv', PromiseInv, [Next]_vars
  PROVE  PromiseInv'
<1>0. /\ GoodPoint(job.cp, Cur, disk) /\ GoodDirs(Cur, disk)
      /\ Cur \in Dirs /\ Cur' \in SUBSET Cur /\ (~Edit => Cur' = Cur)
  BY SliceFacts, CurShrinks DEF PromiseInv
\* A step that leaves the shards alone and keeps the row's checkpoint.
<1>1. ASSUME job'.cp = job.cp, disk' = disk,
             \A r \in Runner : \/ runner'[r] = runner[r]
                               \/ runner'[r] = Off
                               \/ runner'[r].pc = "note"
                               \/ runner'[r].pc = "fetch" /\ runner'[r].cp = job.cp
                               \/ runner'[r].pc = "assemble" /\ ~runner'[r].chunked
                               \/ /\ runner'[r].pc \in {"seal", "upload", "done"}
                                  /\ runner'[r].chunked => GoodPoint(runner'[r].cp, Cur, disk)
                               \/ /\ runner'[r].pc = "chunk"
                                  /\ GoodWork(runner'[r], job.cp, Cur, disk)
      PROVE  PromiseInv'
  <2>1. GoodPoint(job'.cp, Cur', disk') /\ GoodDirs(Cur', disk')
    BY <1>0, <1>1, PointShrinks, DirsShrink
  <2>2. ASSUME NEW r \in Runner
        PROVE  /\ runner'[r].pc = "off" => ~runner'[r].chunked
               /\ runner'[r].pc = "fetch" => runner'[r].cp = job'.cp
               /\ runner'[r].pc \in {"chunk", "record"} => GoodWork(runner'[r], job'.cp, Cur', disk')
               /\ runner'[r].pc = "record" =>
                    Written(disk', runner'[r].cp.dir, At1(runner'[r]), DOMAIN runner'[r].slice)
               /\ runner'[r].pc = "assemble" => ~runner'[r].chunked
               /\ runner'[r].pc \in {"seal", "upload", "done"} /\ runner'[r].chunked =>
                    GoodPoint(runner'[r].cp, Cur', disk')
    <3>1. CASE runner'[r] = runner[r]
      <4>1. runner[r].pc \in {"chunk", "record"} => GoodWork(runner[r], job.cp, Cur', disk)
        BY <1>0, WorkShrinks DEF PromiseInv
      <4>2. runner[r].pc \in {"seal", "upload", "done"} /\ runner[r].chunked =>
              GoodPoint(runner[r].cp, Cur', disk)
        BY <1>0, PointShrinks DEF PromiseInv
      <4> QED BY <1>1, <3>1, <4>1, <4>2 DEF PromiseInv
    <3>2. CASE /\ runner'[r].pc \in {"seal", "upload", "done"}
               /\ runner'[r].chunked => GoodPoint(runner'[r].cp, Cur, disk)
      <4>1. runner'[r].chunked => GoodPoint(runner'[r].cp, Cur', disk')
        BY <1>0, <1>1, <3>2, PointShrinks
      <4> QED BY <3>2, <4>1
    <3>3. CASE runner'[r].pc = "chunk" /\ GoodWork(runner'[r], job.cp, Cur, disk)
      <4>1. GoodWork(runner'[r], job'.cp, Cur', disk') BY <1>0, <1>1, <3>3, WorkShrinks
      <4> QED BY <3>3, <4>1
    <3> QED BY <1>1, <3>1, <3>2, <3>3, OffFacts
  <2> QED BY <2>1, <2>2 DEF PromiseInv
<1>2. CASE UNCHANGED vars BY <1>1, <1>2 DEF vars
<1>3. CASE Edit \/ Reap \/ Cancel BY <1>1, <1>3, EnvFacts
\* What is left to show of a step that writes: the runner alone matters.
<1>4. ASSUME NEW r \in Runner, GoodPoint(job'.cp, Cur', disk'), GoodDirs(Cur', disk'),
             \/ runner'[r] = Off
             \/ /\ runner'[r].pc \in {"chunk", "record"} /\ GoodWork(runner'[r], job'.cp, Cur', disk')
                /\ runner'[r].pc = "record" =>
                     Written(disk', runner'[r].cp.dir, At1(runner'[r]), DOMAIN runner'[r].slice)
      PROVE  PromiseInv'
  <2>1. \A q \in Runner : q = r BY DEF OneRun
  <2> QED BY <1>4, <2>1, OffFacts DEF PromiseInv
\* A runner at its chunks.
<1>5. ASSUME NEW r \in Runner, runner[r].pc \in {"chunk", "record"}
      PROVE  /\ GoodWork(runner[r], job.cp, Cur, disk)
             /\ DOMAIN runner[r].slice \in Dirs /\ runner[r].cp.dir \in Dirs
  BY <1>5, TypeFacts DEF PromiseInv, Holds
<1>6. ASSUME NEW r \in Runner, runner[r].pc = "chunk", Left(runner[r]) # {}, Torn(r)
      PROVE  /\ GoodWork(runner[r], job.cp, Cur, disk')
             /\ GoodPoint(job.cp, Cur, disk') /\ GoodDirs(Cur, disk')
  <2>1. CASE disk' = disk BY <1>0, <1>5, <1>6, <2>1
  <2>2. CASE disk' = Put(disk, <<runner[r].cp.dir, At1(runner[r])>>, <<>>)
    <3>1. /\ GoodWork(runner[r], job.cp, Cur, disk)
          /\ DOMAIN runner[r].slice \in Dirs /\ runner[r].cp.dir \in Dirs
      BY <1>5, <1>6
    <3> DEFINE content == <<>>
    <3> HIDE DEF content
    <3>2. disk' = Put(disk, <<runner[r].cp.dir, At1(runner[r])>>, content) BY <2>2 DEF content
    <3>3. /\ GoodWork(runner[r], job.cp, Cur, disk') /\ GoodPoint(job.cp, Cur, disk')
          /\ GoodDirs(Cur, disk')
          /\ DOMAIN content = ChunkIds(DOMAIN runner[r].slice, At1(runner[r])) =>
               Written(disk', runner[r].cp.dir, At1(runner[r]), DOMAIN runner[r].slice)
      BY <1>0, <1>6, <3>1, <3>2, WriteIsGood
    <3> QED BY <3>3
  <2> QED BY <1>6, <2>1, <2>2 DEF Torn
<1>7. CASE Crash
  <2>1. /\ \A r \in Runner : runner'[r] = Off
        /\ disk' = disk \/ \E r \in Runner : runner[r].pc = "chunk" /\ Left(runner[r]) # {} /\ Torn(r)
        /\ \E r \in Runner : runner[r].pc # "off"
    BY <1>7, CrashFacts
  <2>2. GoodPoint(job.cp, Cur, disk') /\ GoodDirs(Cur, disk') BY <1>0, <1>6, <2>1
  <2>3. job' = job /\ Cur' = Cur
    <3>1. label' = label /\ job' = job BY <1>7 DEF Crash
    <3> QED BY <3>1 DEF Cur, Slice
  <2> QED BY <1>4, <2>1, <2>2, <2>3
<1>8. ASSUME NEW r \in Runner, RunPlain(r) \/ Resume(r) \/ Step(r) \/ ChunkFails(r) \/ AssembleFails(r)
      PROVE  PromiseInv'
  <2>0. \A q \in Runner : q = r BY DEF OneRun
  <2>00. Cur' = Cur
    <3>1. label' = label
      BY <1>8 DEF RunPlain, Resume, Step, Fetch, WriteChunk, RecordChunk, ChunkFails, Assemble,
                  AssembleFails, Seal, Upload, Done, Note
    <3> QED BY <3>1 DEF Cur, Slice
  <2>1. CASE RunPlain(r)
    <3>1. disk' = disk BY <2>1 DEF RunPlain
    <3>2. ~runner'[r].chunked
      BY <2>1, RunPlainFacts DEF Same, PromiseInv
    <3> QED BY <1>1, <2>0, <2>1, <3>1, <3>2, RunPlainFacts
  <2>2. CASE Resume(r)
    <3>1. disk' = disk BY <2>2 DEF Resume
    <3> QED BY <1>1, <2>0, <2>2, <3>1, ResumeFacts
  <2>3. CASE Fetch(r)
    <3>1. disk' = disk BY <2>3 DEF Fetch
    <3>2. runner[r].pc = "fetch" /\ runner[r].cp = job.cp /\ job'.cp = job.cp
      BY <2>3, FetchFacts DEF PromiseInv
    <3>3. CASE runner'[r] = Off BY <1>1, <2>0, <3>1, <3>2, <3>3, OffFacts
    <3>4. CASE /\ runner'[r].pc = "chunk" /\ runner'[r].slice = Slice
               /\ runner'[r].verified = Verified(runner[r].cp, Cur)
               /\ runner'[r].cp.done = Verified(runner[r].cp, Cur)
               /\ runner'[r].cp.dir = OutDir(runner[r].cp, Cur)
               /\ runner'[r].cp.digest = runner[r].cp.digest
      <4>1. DOMAIN runner'[r].slice = Cur BY <3>4 DEF Cur
      <4>2. GoodWork(runner'[r], job.cp, Cur, disk) BY <1>0, <3>2, <3>4, <4>1, FetchIsGood
      <4> QED BY <1>1, <2>0, <3>1, <3>2, <3>4, <4>2
    <3> QED BY <2>3, <3>3, <3>4, FetchFacts
  <2>4. CASE WriteChunk(r)
    <3>1. PICK content \in Content :
            /\ DOMAIN content = ChunkIds(DOMAIN runner[r].slice, At1(runner[r]))
            /\ disk' = Put(disk, <<runner[r].cp.dir, At1(runner[r])>>, content)
      BY <2>4, WriteFacts
    <3>2. /\ runner'[r].pc = "record" /\ Same(runner[r], runner'[r])
          /\ runner[r].pc = "chunk" /\ Left(runner[r]) # {}
      BY <2>4, WriteFacts
    <3>3. /\ GoodWork(runner[r], job.cp, Cur, disk') /\ GoodPoint(job.cp, Cur, disk')
          /\ GoodDirs(Cur, disk')
          /\ Written(disk', runner[r].cp.dir, At1(runner[r]), DOMAIN runner[r].slice)
      BY <1>0, <1>5, <3>1, <3>2, WriteIsGood
    <3>4. GoodWork(runner'[r], job.cp, Cur, disk') /\ At1(runner'[r]) = At1(runner[r])
      BY <3>2, <3>3, WorkIsSame
    <3>5. job' = job BY <2>4 DEF WriteChunk
    <3>6. runner'[r].cp = runner[r].cp /\ runner'[r].slice = runner[r].slice BY <3>2 DEF Same
    <3> QED BY <1>4, <2>00, <3>2, <3>3, <3>4, <3>5, <3>6
  <2>5. CASE RecordChunk(r)
    <3> DEFINE n == At1(runner[r])
    <3>1. /\ runner[r].pc = "record" /\ Left(runner[r]) # {}
          /\ job'.cp = runner'[r].cp
          /\ runner'[r].pc = "chunk" /\ runner'[r].slice = runner[r].slice
          /\ runner'[r].verified = runner[r].verified
          /\ runner'[r].cp.done = runner[r].cp.done \cup {n}
          /\ runner'[r].cp.dir = runner[r].cp.dir
          /\ runner'[r].cp.digest[n] = ChunkIds(DOMAIN runner[r].slice, n)
          /\ \A i \in runner[r].cp.done : i # n => runner'[r].cp.digest[i] = runner[r].cp.digest[i]
      BY <2>5, RecordFacts
    <3>2. n \in Chunks(DOMAIN runner[r].slice) BY <1>5, <3>1, AtLeft DEF Left
    <3>3. Written(disk, runner[r].cp.dir, n, DOMAIN runner[r].slice) BY <3>1 DEF PromiseInv
    <3> HIDE DEF n
    <3>4. GoodWork(runner'[r], runner'[r].cp, Cur, disk) BY <1>5, <3>1, <3>2, <3>3, RecordIsGood
    <3>5. disk' = disk BY <2>5 DEF RecordChunk
    <3>6. GoodPoint(runner'[r].cp, Cur, disk) BY <1>5, <3>1, <3>4, WorkIsGoodPoint
    <3> QED BY <1>0, <1>4, <2>00, <3>1, <3>4, <3>5, <3>6
  <2>6. CASE ChunkFails(r)
    <3>1. /\ runner'[r] = Off /\ runner[r].pc = "chunk" /\ Left(runner[r]) # {} /\ Torn(r)
          /\ job'.cp = runner[r].cp
      BY <2>6, ChunkFailsFacts
    <3>2. GoodWork(runner[r], job.cp, Cur, disk') /\ GoodDirs(Cur, disk') BY <1>6, <3>1
    <3>3. GoodPoint(runner[r].cp, Cur, disk') BY <1>5, <3>1, <3>2, WorkIsGoodPoint
    <3> QED BY <1>4, <2>00, <3>1, <3>2, <3>3
  <2>7. CASE Assemble(r)
    <3>1. /\ runner[r].pc = "assemble" \/ runner[r].pc = "chunk"
          /\ runner'[r].pc = "seal" /\ runner'[r].cp = runner[r].cp
          /\ runner'[r].chunked = runner[r].chunked
      BY <2>7, AssembleFacts
    <3>2. runner[r].chunked => GoodPoint(runner[r].cp, Cur, disk)
      <4>1. CASE runner[r].pc = "assemble" BY <4>1 DEF PromiseInv
      <4>2. CASE runner[r].pc = "chunk" BY <1>5, <4>2, WorkIsGoodPoint
      <4> QED BY <3>1, <4>1, <4>2
    <3>3. disk' = disk /\ job' = job BY <2>7 DEF Assemble
    <3> QED BY <1>1, <2>0, <3>1, <3>2, <3>3
  <2>8. CASE AssembleFails(r)
    <3>1. disk' = disk BY <2>8 DEF AssembleFails
    <3> QED BY <1>1, <2>0, <2>8, <3>1, AssembleFailsFacts, OffFacts
  <2>9. CASE Seal(r)
    <3>1. disk' = disk /\ job' = job BY <2>9 DEF Seal
    <3>2. runner[r].pc = "seal" /\ runner'[r].pc = "upload" /\ Same(runner[r], runner'[r])
      BY <2>9, SealFacts
    <3>3. runner'[r].chunked => GoodPoint(runner'[r].cp, Cur, disk) BY <3>2 DEF Same, PromiseInv
    <3> QED BY <1>1, <2>0, <3>1, <3>2, <3>3
  <2>10. CASE Upload(r)
    <3>1. disk' = disk /\ job' = job BY <2>10 DEF Upload
    <3>2. runner[r].pc = "upload" /\ runner'[r].pc = "done" /\ Same(runner[r], runner'[r])
      BY <2>10, UploadFacts
    <3>3. runner'[r].chunked => GoodPoint(runner'[r].cp, Cur, disk) BY <3>2 DEF Same, PromiseInv
    <3> QED BY <1>1, <2>0, <3>1, <3>2, <3>3
  <2>11. CASE Done(r)
    <3>1. disk' = disk BY <2>11 DEF Done
    <3>2. /\ runner[r].pc = "done" /\ (runner'[r] = Off \/ runner'[r].pc = "note")
          /\ job'.cp = (IF runner[r].chunked THEN runner[r].cp ELSE job.cp)
      BY <2>11, DoneFacts
    <3>3. GoodPoint(job'.cp, Cur, disk) BY <1>0, <3>2 DEF PromiseInv
    <3> QED BY <1>0, <2>0, <2>00, <3>1, <3>2, <3>3, OffFacts DEF PromiseInv
  <2>12. CASE Note(r)
    <3>1. disk' = disk BY <2>12 DEF Note
    <3> QED BY <1>1, <2>0, <2>12, <3>1, NoteFacts, OffFacts
  <2> QED BY <1>8, <2>1, <2>2, <2>3, <2>4, <2>5, <2>6, <2>7, <2>8, <2>9, <2>10, <2>11, <2>12 DEF Step
<1> QED BY <1>2, <1>3, <1>7, <1>8 DEF Next

LEMMA PromiseInit == Init => PromiseInv
<1> SUFFICES ASSUME Init PROVE PromiseInv OBVIOUS
<1>1. disk = <<>> /\ DOMAIN disk = {} BY NothingIsPartial DEF Init
<1>2. job.cp = NoPoint
  <2> HIDE DEF NoPoint
  <2> QED BY DEF Init
<1>3. \A r \in Runner : runner[r] = Off
  <2> HIDE DEF Off
  <2> QED BY DEF Init
<1>4. NoPoint.dir = NoDir /\ NoPoint.done = {} BY DEF NoPoint
<1>5. GoodPoint(job.cp, Cur, disk) BY <1>2, <1>4 DEF GoodPoint
<1>6. GoodDirs(Cur, disk) BY <1>1 DEF GoodDirs
<1> QED BY <1>3, <1>5, <1>6, OffFacts DEF PromiseInv

LEMMA PromiseInvOK == TypeInv /\ PromiseInv => SkippedIsWritten
<1> SUFFICES ASSUME TypeInv, PromiseInv, NEW r \in Runner, At(r, "chunk"),
                    NEW i \in runner[r].verified
             PROVE  Written(disk, runner[r].cp.dir, i, DOMAIN runner[r].slice)
  BY DEF SkippedIsWritten, Written
<1>1. GoodWork(runner[r], job.cp, Cur, disk) BY DEF PromiseInv, At
<1> QED BY <1>1 DEF GoodWork

(* What a resumed run skips is on the disk, in the directory it writes to, *)
(* with the records of its own slice: for one run of the job at a time, an *)
(* unbounded number of crashes, failures and resumes, shards torn at any   *)
(* of them, and a slice that loses objects and changes labels in between.  *)
THEOREM SkippedIsWrittenAlways ==
  ASSUME OneRun, NoneJoins
  PROVE  Spec => []SkippedIsWritten
<1> DEFINE Inv == TypeInv /\ PromiseInv
<1>1. Init => Inv BY TypeInit, PromiseInit
<1>2. Inv /\ [Next]_vars => Inv' BY TypeStep, PromiseStep
<1>3. Inv => SkippedIsWritten BY PromiseInvOK
<1> HIDE DEF Inv
<1> QED BY <1>1, <1>2, <1>3, PTL DEF Spec

-------------------------------------------------------------------------------
(* The archive and the shards uploaded with it, under the same hypotheses. *)

\* The shards in the directory of commit F, if there are any, are the chunks of F.
Sound(F, f) == \A j \in Index : <<F, j>> \in DOMAIN f =>
  \A i \in Index : IF i \in Chunks(F) THEN Written(f, F, i, F) ELSE <<F, i>> \notin DOMAIN f

\* The plain run starts before there is any shard; the run in chunks assembles what it has finished.
ArchiveInv ==
  /\ job.status = "pending" => DOMAIN disk = {} /\ \A r \in Runner : runner[r].pc = "off"
  /\ \A r \in Runner :
       /\ runner[r].pc = "assemble" => DOMAIN disk = {}
       /\ runner[r].pc \in {"seal", "upload"} => Sound(DOMAIN runner[r].files, disk)

\* A directory of the slice of now that holds a shard holds all the chunks of the runner, and those
\* are all the chunks of the slice: the runner's slice is larger, the directory's larger still.
LEMMA WorkIsSound ==
  ASSUME NEW k, NEW cp, NEW cur, NEW f, GoodWork(k, cp, cur, f), Left(k) = {}
  PROVE  Sound(cur, f)
<1> SUFFICES ASSUME NEW j \in Index, <<cur, j>> \in DOMAIN f, NEW i \in Index
             PROVE  IF i \in Chunks(cur) THEN Written(f, cur, i, cur) ELSE <<cur, i>> \notin DOMAIN f
  BY DEF Sound
<1> DEFINE ids == DOMAIN k.slice
<1>1. cur = ids /\ k.cp.dir = ids
  <2>1. cur \subseteq ids /\ ids \subseteq k.cp.dir BY DEF GoodWork
  <2>2. \A x \in DOMAIN f : k.cp.dir \subseteq x[1] BY DEF GoodWork
  <2>3. k.cp.dir \subseteq cur BY <2>2
  <2> QED BY <2>1, <2>3
<1>2. CASE i \in Chunks(cur)
  <2>1. i \in k.cp.done BY <1>1, <1>2 DEF Left
  <2>2. Written(f, k.cp.dir, i, ids) BY <2>1 DEF GoodWork
  <2> QED BY <1>1, <1>2, <2>2
<1>3. CASE i \notin Chunks(cur)
  <2>1. \A x \in DOMAIN f : x[1] = ids => x[2] \in Chunks(ids) BY DEF GoodWork
  <2>2. <<cur, i>> \notin DOMAIN f BY <1>1, <1>3, <2>1
  <2> QED BY <1>3, <2>2
<1> QED BY <1>2, <1>3

LEMMA ArchiveInit == Init => ArchiveInv
<1> SUFFICES ASSUME Init PROVE ArchiveInv OBVIOUS
<1>1. DOMAIN disk = {} BY NothingIsPartial DEF Init
<1>2. \A r \in Runner : runner[r] = Off
  <2> HIDE DEF Off
  <2> QED BY DEF Init
<1> QED BY <1>1, <1>2, OffFacts DEF ArchiveInv

LEMMA ArchiveStep ==
  ASSUME OneRun, TypeInv, TypeInv', PromiseInv, ArchiveInv, [Next]_vars
  PROVE  ArchiveInv'
<1>1. CASE UNCHANGED vars BY <1>1 DEF vars, ArchiveInv
<1>2. CASE Edit \/ Reap \/ Cancel
  <2>1. disk' = disk /\ runner' = runner /\ (job'.status = "pending" => job.status = "pending")
    BY <1>2, EnvFacts
  <2> QED BY <2>1 DEF ArchiveInv
<1>3. CASE Crash
  <2>1. (\A r \in Runner : runner'[r] = Off) /\ \E r \in Runner : runner[r].pc # "off"
    BY <1>3, CrashFacts
  <2>2. job' = job BY <1>3 DEF Crash
  <2> QED BY <2>1, <2>2, OffFacts DEF ArchiveInv
<1>4. ASSUME NEW r \in Runner, RunPlain(r) \/ Resume(r) \/ Step(r) \/ ChunkFails(r) \/ AssembleFails(r)
      PROVE  ArchiveInv'
  <2>0. \A q \in Runner : q = r BY DEF OneRun
  \* A run that is on has found the row no longer waiting; it does not put it back.
  <2>1. job'.status # "pending"
    <3>1. CASE RunPlain(r) BY <3>1, RunPlainFacts
    <3>2. CASE Resume(r) BY <3>2, ResumeFacts
    <3>3. CASE ~RunPlain(r) /\ ~Resume(r)
      <4>1. runner[r].pc # "off" /\ job.status # "pending"
        <5>1. runner[r].pc # "off"
          BY <1>4, <3>3 DEF Step, Fetch, WriteChunk, RecordChunk, Assemble, Seal, Upload, Done, Note,
                            ChunkFails, AssembleFails, At
        <5> QED BY <5>1 DEF ArchiveInv
      <4>2. CASE Fetch(r) BY <4>1, <4>2, FetchFacts
      <4>3. CASE WriteChunk(r) \/ Assemble(r) \/ Seal(r) \/ Upload(r)
        BY <4>1, <4>3 DEF WriteChunk, Assemble, Seal, Upload
      <4>4. CASE RecordChunk(r) BY <4>1, <4>4, RecordFacts
      <4>5. CASE Done(r) BY <4>5, DoneFacts
      <4>6. CASE Note(r) BY <4>1, <4>6, NoteFacts
      <4>7. CASE ChunkFails(r) BY <4>7, ChunkFailsFacts
      <4>8. CASE AssembleFails(r) BY <4>1, <4>8, AssembleFailsFacts
      <4> QED BY <1>4, <3>3, <4>2, <4>3, <4>4, <4>5, <4>6, <4>7, <4>8 DEF Step
    <3> QED BY <3>1, <3>2, <3>3
  \* So the runner alone matters.
  <2>2. ASSUME runner'[r].pc \notin {"assemble", "seal", "upload"} PROVE ArchiveInv'
    BY <2>0, <2>1, <2>2 DEF ArchiveInv
  <2>3. CASE RunPlain(r)
    <3>1. runner'[r].pc = "assemble" /\ job.status = "pending" BY <2>3, RunPlainFacts
    <3>2. disk' = disk BY <2>3 DEF RunPlain
    <3> QED BY <2>0, <2>1, <3>1, <3>2 DEF ArchiveInv
  <2>4. CASE Assemble(r)
    <3>1. /\ runner[r].pc = "assemble" \/ (runner[r].pc = "chunk" /\ Left(runner[r]) = {})
          /\ runner'[r].pc = "seal" /\ runner'[r].files = Slice
      BY <2>4, AssembleFacts
    <3>2. disk' = disk BY <2>4 DEF Assemble
    <3>3. Sound(Cur, disk)
      <4>1. CASE runner[r].pc = "assemble" BY <4>1 DEF ArchiveInv, Sound
      <4>2. CASE runner[r].pc = "chunk" /\ Left(runner[r]) = {}
        <5>1. GoodWork(runner[r], job.cp, Cur, disk) BY <4>2 DEF PromiseInv
        <5> QED BY <4>2, <5>1, WorkIsSound
      <4> QED BY <3>1, <4>1, <4>2
    <3>4. Sound(DOMAIN runner'[r].files, disk') BY <3>1, <3>2, <3>3 DEF Cur
    <3> QED BY <2>0, <2>1, <3>1, <3>4 DEF ArchiveInv
  <2>5. CASE Seal(r)
    <3>1. /\ runner[r].pc = "seal" /\ runner'[r].pc = "upload"
          /\ runner'[r].files = runner[r].files
      BY <2>5, SealFacts DEF Same
    <3>2. disk' = disk BY <2>5 DEF Seal
    <3>3. Sound(DOMAIN runner'[r].files, disk') BY <3>1, <3>2 DEF ArchiveInv
    <3> QED BY <2>0, <2>1, <3>1, <3>3 DEF ArchiveInv
  <2>6. CASE Resume(r) BY <2>2, <2>6, ResumeFacts
  <2>7. CASE Fetch(r) BY <2>2, <2>7, FetchFacts, OffFacts
  <2>8. CASE WriteChunk(r) BY <2>2, <2>8, WriteFacts
  <2>9. CASE RecordChunk(r) BY <2>2, <2>9, RecordFacts
  <2>10. CASE Upload(r) BY <2>2, <2>10, UploadFacts
  <2>11. CASE Done(r) BY <2>2, <2>11, DoneFacts, OffFacts
  <2>12. CASE Note(r) BY <2>2, <2>12, NoteFacts, OffFacts
  <2>13. CASE ChunkFails(r) BY <2>2, <2>13, ChunkFailsFacts, OffFacts
  <2>14. CASE AssembleFails(r) BY <2>2, <2>14, AssembleFailsFacts, OffFacts
  <2> QED BY <1>4, <2>3, <2>4, <2>5, <2>6, <2>7, <2>8, <2>9, <2>10, <2>11, <2>12, <2>13, <2>14
          DEF Step
<1> QED BY <1>1, <1>2, <1>3, <1>4 DEF Next

LEMMA StoreStep ==
  ASSUME TypeInv, ArchiveInv, ShardsAreTheArchive, [Next]_vars
  PROVE  ShardsAreTheArchive'
<1>1. CASE store' = store BY <1>1 DEF ShardsAreTheArchive
<1>2. CASE \E r \in Runner : Upload(r)
  <2>1. PICK r \in Runner : Upload(r) BY <1>2
  <2> DEFINE F == DOMAIN runner[r].files
             shards == ShardsIn(F)
  <2>2. /\ DOMAIN store' = DOMAIN store \cup {F}
        /\ \A d \in DOMAIN store : d # F => store'[d] = store[d]
        /\ store'[F] = [files |-> runner[r].files, shards |-> shards]
    BY <2>1, UploadFacts
  <2>3. Sound(F, disk) BY <2>1, UploadFacts DEF ArchiveInv
  <2>4. /\ DOMAIN shards = {j \in Index : <<F, j>> \in DOMAIN disk}
        /\ \A i \in DOMAIN shards : shards[i] = disk[<<F, i>>]
    BY DEF ShardsIn
  <2> HIDE DEF shards
  <2>5. store'[F].shards = shards
    <3> DEFINE files == runner[r].files
    <3>1. store'[F] = [files |-> files, shards |-> shards] BY <2>2
    <3> HIDE DEF files
    <3> QED BY <3>1
  <2> HIDE DEF F
  <2>6. DOMAIN shards # {} => \A i \in Index :
          IF i \in Chunks(F) THEN i \in DOMAIN shards /\ DOMAIN shards[i] = ChunkIds(F, i)
          ELSE i \notin DOMAIN shards
    <3> SUFFICES ASSUME NEW j \in DOMAIN shards, NEW i \in Index
                 PROVE  IF i \in Chunks(F)
                        THEN i \in DOMAIN shards /\ DOMAIN shards[i] = ChunkIds(F, i)
                        ELSE i \notin DOMAIN shards
      OBVIOUS
    <3>1. IF i \in Chunks(F) THEN Written(disk, F, i, F) ELSE <<F, i>> \notin DOMAIN disk
      BY <2>3, <2>4 DEF Sound
    <3> QED BY <2>4, <3>1 DEF Written
  <2>7. \A d \in DOMAIN store : DOMAIN store[d].shards # {} => \A i \in Index :
          IF i \in Chunks(d) THEN i \in DOMAIN store[d].shards /\ DOMAIN store[d].shards[i] = ChunkIds(d, i)
          ELSE i \notin DOMAIN store[d].shards
    BY DEF ShardsAreTheArchive
  <2> SUFFICES ASSUME NEW d \in DOMAIN store'
               PROVE  DOMAIN store'[d].shards # {} => \A i \in Index :
                        IF i \in Chunks(d)
                        THEN i \in DOMAIN store'[d].shards /\ DOMAIN store'[d].shards[i] = ChunkIds(d, i)
                        ELSE i \notin DOMAIN store'[d].shards
    BY DEF ShardsAreTheArchive
  <2>8. CASE d = F BY <2>5, <2>6, <2>8
  <2>9. CASE d # F BY <2>2, <2>7, <2>9
  <2> QED BY <2>8, <2>9
<1>3. store' = store \/ \E r \in Runner : Upload(r)
  BY DEF Next, vars, Edit, Crash, Reap, Cancel, RunPlain, Resume, Step, Fetch, WriteChunk,
         RecordChunk, ChunkFails, Assemble, AssembleFails, Seal, Done, Note
<1> QED BY <1>1, <1>2, <1>3

(* An archive that is uploaded with shards is uploaded with its own: every *)
(* chunk of its records once, whole, and no shard of another slice; for    *)
(* one run of the job at a time, under the same hypotheses.                *)
THEOREM ShardsAreTheArchiveAlways ==
  ASSUME OneRun, NoneJoins
  PROVE  Spec => []ShardsAreTheArchive
<1> DEFINE Inv == TypeInv /\ PromiseInv /\ ArchiveInv /\ ShardsAreTheArchive
<1>1. Init => Inv
  <2>1. Init => ShardsAreTheArchive BY NothingIsPartial DEF Init, ShardsAreTheArchive
  <2> QED BY <2>1, TypeInit, PromiseInit, ArchiveInit
<1>2. Inv /\ [Next]_vars => Inv' BY TypeStep, PromiseStep, ArchiveStep, StoreStep
<1>3. Inv => ShardsAreTheArchive OBVIOUS
<1> HIDE DEF Inv
<1> QED BY <1>1, <1>2, <1>3, PTL DEF Spec
===============================================================================
