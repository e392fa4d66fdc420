----------------------------- MODULE PackWriter -----------------------------
(***************************************************************************)
(* Why a pack that is alone and that nothing disturbs cannot fail halfway  *)
(* (OnlyRefusals).                                                         *)
(*                                                                         *)
(* The argument, in the order a run goes through it: the space that was    *)
(* found free is enough for what is still to be fetched and to be written  *)
(* (RoomInv); the layout the pre-flight check approved is the one the      *)
(* writer keeps to, and what is packed is clear of what is still to be     *)
(* written, also of the empty part that is opened behind a file of whole   *)
(* chunks and removed again (ShapeInv); so the payload holds the packed    *)
(* files and nothing else (WrittenInv), the manifest of them is true, and  *)
(* the self-check passes (PapersInv).                                      *)
(***************************************************************************)
EXTENDS PackSafety, FiniteSetTheorems

(***************************************************************************)
(* Space.  What is stored is a set of block positions, so that a write     *)
(* adds at most its own blocks, whatever it writes over.                   *)
(***************************************************************************)
\* The blocks of a file n of l blocks.
Line(n, l) == {n} \X (1 .. l)

LEMMA LineSize ==
    ASSUME NEW n, NEW l \in Nat
    PROVE  IsFiniteSet(Line(n, l)) /\ Cardinality(Line(n, l)) = l
<1>1. IsFiniteSet({n}) /\ Cardinality({n}) = 1
  BY FS_Singleton
<1>2. IsFiniteSet(1 .. l) /\ Cardinality(1 .. l) = l
  BY FS_Interval
<1>3. /\ IsFiniteSet({n} \X (1 .. l))
      /\ Cardinality({n} \X (1 .. l)) = Cardinality({n}) * Cardinality(1 .. l)
  BY <1>1, <1>2, FS_Product, Zenon
<1> QED BY <1>1, <1>2, <1>3 DEF Line

\* What is in one of finitely many finite sets is one of finitely many.
LEMMA UnionFinite ==
    ASSUME NEW S, IsFiniteSet(S), NEW f, \A x \in S : IsFiniteSet(f[x])
    PROVE  IsFiniteSet(UNION { f[x] : x \in S })
<1> DEFINE T == { f[x] : x \in S }
           g == [x \in S |-> f[x]]
<1>1. g \in Surjection(S, T)
  BY DEF Surjection
<1> HIDE DEF g
<1>2. IsFiniteSet(T)
  BY <1>1, FS_Surjection
<1>3. \A t \in T : IsFiniteSet(t)
  OBVIOUS
<1> HIDE DEF T
<1>4. IsFiniteSet(UNION T)
  BY <1>2, <1>3, FS_UNION
<1> QED BY <1>4 DEF T

LEMMA StoredFinite ==
    ASSUME NEW d, NEW S, IsFiniteSet(S)
    PROVE  IsFiniteSet(Stored(d, S)) /\ Bytes(d, S) \in Nat
<1> DEFINE files == { n \in S : d[n] \in Contents }
           f == [n \in files |-> {n} \X (1 .. Len(d[n]))]
<1>1. IsFiniteSet(files)
  BY FS_Subset
<1>2. ASSUME NEW n \in files PROVE IsFiniteSet(f[n])
  <2>1. Len(d[n]) \in Nat
    BY DEF Contents
  <2> QED BY <2>1, LineSize DEF Line
<1>3. IsFiniteSet(UNION { f[n] : n \in files })
  <2> HIDE DEF f, files
  <2> QED BY <1>1, <1>2, UnionFinite
<1>4. Stored(d, S) = UNION { f[n] : n \in files }
  BY DEF Stored
<1> QED BY <1>3, <1>4, FS_CardinalityType DEF Bytes

\* What is added to a set bounds what it grows by.
LEMMA GrowsBy ==
    ASSUME NEW A, IsFiniteSet(A), NEW X, IsFiniteSet(X), NEW B, B \subseteq A \cup X
    PROVE  IsFiniteSet(B) /\ Cardinality(B) <= Cardinality(A) + Cardinality(X)
<1>1. IsFiniteSet(A \cup X)
      /\ Cardinality(A \cup X) = Cardinality(A) + Cardinality(X) - Cardinality(A \cap X)
  BY FS_Union
<1>2. IsFiniteSet(B) /\ Cardinality(B) <= Cardinality(A \cup X)
  BY <1>1, FS_Subset
<1>3. IsFiniteSet(A \cap X)
  BY FS_Intersection
<1>4. /\ Cardinality(A) \in Nat /\ Cardinality(X) \in Nat /\ Cardinality(A \cap X) \in Nat
      /\ Cardinality(B) \in Nat
  BY <1>2, <1>3, FS_CardinalityType
<1> QED BY <1>1, <1>2, <1>4

LEMMA Disjoint ==
    ASSUME NEW A, IsFiniteSet(A), NEW X, IsFiniteSet(X), A \cap X = {}
    PROVE  Cardinality(A \cup X) = Cardinality(A) + Cardinality(X)
<1>1. Cardinality(A \cup X) = Cardinality(A) + Cardinality(X) - Cardinality(A \cap X)
  BY FS_Union
<1>2. Cardinality(A \cap X) = 0
  BY FS_EmptySet
<1>3. Cardinality(A) \in Nat /\ Cardinality(X) \in Nat
  BY FS_CardinalityType
<1> QED BY <1>1, <1>2, <1>3

\* A file that is written takes at most its own blocks.
LEMMA BytesGrow ==
    ASSUME NEW d, NEW e, NEW n \in Names, NEW s \in Contents, e[n] = s,
           \A m \in Names \ {n} : e[m] = d[m]
    PROVE  Bytes(e, Names) <= Bytes(d, Names) + Len(s)
<1>1. Len(s) \in Nat
  BY DEF Contents
<1>2. Stored(e, Names) \subseteq Stored(d, Names) \cup Line(n, Len(s))
  BY DEF Stored, Line
<1>3. IsFiniteSet(Stored(d, Names)) /\ IsFiniteSet(Line(n, Len(s)))
  BY <1>1, FiniteAssumption, StoredFinite, LineSize
<1>4. Cardinality(Stored(e, Names)) <= Cardinality(Stored(d, Names)) + Cardinality(Line(n, Len(s)))
  BY <1>2, <1>3, GrowsBy
<1> QED BY <1>1, <1>4, LineSize DEF Bytes

\* The blocks of the files S of commit c.
Size(c, S) == Bytes(Repo[c], S)

LEMMA SizeOf ==
    ASSUME NEW c \in Commits, NEW S \in SUBSET DOMAIN Repo[c]
    PROVE  /\ Size(c, S) \in Nat
           /\ \A n \in S : /\ Len(Repo[c][n]) \in Nat
                           /\ Size(c, S) = Size(c, S \ {n}) + Len(Repo[c][n])
<1> DEFINE d == Repo[c]
<1>1. S \subseteq Names /\ \A n \in S : d[n] \in Contents
  BY Constants
<1> HIDE DEF d
<1>2. IsFiniteSet(S)
  BY <1>1, FiniteAssumption, FS_Subset
<1>3. ASSUME NEW n \in S
      PROVE  /\ Len(d[n]) \in Nat
             /\ Bytes(d, S) = Bytes(d, S \ {n}) + Len(d[n])
  <2>1. Len(d[n]) \in Nat
    BY <1>1 DEF Contents
  <2>2. Stored(d, S) = Stored(d, S \ {n}) \cup Line(n, Len(d[n]))
    BY <1>1 DEF Stored, Line
  <2>3. Stored(d, S \ {n}) \cap Line(n, Len(d[n])) = {}
    BY DEF Stored, Line
  <2>4. IsFiniteSet(S \ {n})
    BY <1>2, FS_Subset
  <2>5. IsFiniteSet(Stored(d, S \ {n})) /\ IsFiniteSet(Line(n, Len(d[n])))
    BY <2>1, <2>4, StoredFinite, LineSize
  <2>6. Cardinality(Stored(d, S)) =
          Cardinality(Stored(d, S \ {n})) + Cardinality(Line(n, Len(d[n])))
    BY <2>2, <2>3, <2>5, Disjoint
  <2> QED BY <2>1, <2>6, LineSize DEF Bytes
<1> QED BY <1>2, <1>3, StoredFinite DEF Size, d

\* What the payloads of the bundles b hold.
Held(b) == UNION { {c} \X Stored(b[c].payload, Names) : c \in Commits }

LEMMA HeldFinite == ASSUME NEW b PROVE IsFiniteSet(Held(b))
<1> DEFINE f == [c \in Commits |-> {c} \X Stored(b[c].payload, Names)]
<1>1. ASSUME NEW c \in Commits PROVE IsFiniteSet(f[c])
  <2>1. IsFiniteSet({c}) /\ IsFiniteSet(Stored(b[c].payload, Names))
    BY FS_Singleton, FiniteAssumption, StoredFinite
  <2>2. IsFiniteSet({c} \X Stored(b[c].payload, Names))
    BY <2>1, FS_Product, Zenon
  <2> QED BY <2>2
<1>2. Held(b) = UNION { f[c] : c \in Commits }
  BY DEF Held
<1> HIDE DEF f
<1> QED BY <1>1, <1>2, UnionFinite, FiniteAssumption

LEMMA FreeType ==
    FreeStaging \in Int /\ FreeDest \in Int /\ Staged \in Nat /\ Packed \in Nat
<1>1. Staged \in Nat
  BY FiniteAssumption, StoredFinite DEF Staged
<1>2. Packed \in Nat
  BY HeldFinite, FS_CardinalityType DEF Packed, Held
<1>3. Room.dest \in Int /\ Room.staging \in Int
  BY RepoAssumption
<1> QED BY <1>1, <1>2, <1>3 DEF FreeStaging, FreeDest

\* A step that only removes or truncates files takes no space.
LEMMA HeldShrinks ==
    ASSUME NEW b, NEW d,
           \A c \in Commits : \A n \in Names :
             \/ d[c].payload[n] = b[c].payload[n]
             \/ d[c].payload[n] \in {Missing, <<>>}
    PROVE  Cardinality(Held(d)) <= Cardinality(Held(b))
<1>1. Held(d) \subseteq Held(b)
  <2>1. ASSUME NEW c \in Commits
        PROVE  Stored(d[c].payload, Names) \subseteq Stored(b[c].payload, Names)
    <3> DEFINE x == d[c].payload
               y == b[c].payload
    <3>1. \A n \in Names : x[n] = y[n] \/ x[n] \in {Missing, <<>>}
      OBVIOUS
    <3>2. Missing \notin Contents /\ Len(<<>>) = 0
      BY NothingAssumption
    <3> HIDE DEF x, y
    <3>3. Stored(x, Names) \subseteq Stored(y, Names)
      BY <3>1, <3>2 DEF Stored
    <3> QED BY <3>3 DEF x, y
  <2> QED BY <2>1 DEF Held
<1> QED BY <1>1, HeldFinite, FS_Subset

\* A step that writes the blocks s to one file, and otherwise removes or
\* truncates, takes their space.
LEMMA HeldGrows ==
    ASSUME NEW b, NEW d, NEW a \in Commits, NEW o \in Names, NEW s \in Contents,
           \A c \in Commits : \A n \in Names :
             \/ d[c].payload[n] = b[c].payload[n]
             \/ d[c].payload[n] \in {Missing, <<>>}
             \/ c = a /\ n = o /\ d[c].payload[n] = s
    PROVE  Cardinality(Held(d)) <= Cardinality(Held(b)) + Len(s)
<1> DEFINE X == {a} \X Line(o, Len(s))
<1>1. Len(s) \in Nat
  BY DEF Contents
<1>2. IsFiniteSet(X) /\ Cardinality(X) = Len(s)
  <2>1. IsFiniteSet(Line(o, Len(s))) /\ Cardinality(Line(o, Len(s))) = Len(s)
    BY <1>1, LineSize
  <2>2. IsFiniteSet({a}) /\ Cardinality({a}) = 1
    BY FS_Singleton
  <2>3. IsFiniteSet(X) /\ Cardinality(X) = Cardinality({a}) * Cardinality(Line(o, Len(s)))
    BY <2>1, <2>2, FS_Product, Zenon
  <2> QED BY <1>1, <2>1, <2>2, <2>3
<1>3. Held(d) \subseteq Held(b) \cup X
  <2>1. ASSUME NEW c \in Commits
        PROVE  {c} \X Stored(d[c].payload, Names)
                 \subseteq ({c} \X Stored(b[c].payload, Names)) \cup X
    <3> DEFINE x == d[c].payload
               y == b[c].payload
    <3>1. \A n \in Names : \/ x[n] = y[n] \/ x[n] \in {Missing, <<>>}
                           \/ c = a /\ n = o /\ x[n] = s
      OBVIOUS
    <3>2. Missing \notin Contents /\ Len(<<>>) = 0
      BY NothingAssumption
    <3> HIDE DEF x, y
    <3>3. CASE c = a
      <4>1. Stored(x, Names) \subseteq Stored(y, Names) \cup Line(o, Len(s))
        BY <3>1, <3>2 DEF Stored, Line
      <4> QED BY <3>3, <4>1 DEF x, y
    <3>4. CASE c # a
      <4>1. Stored(x, Names) \subseteq Stored(y, Names)
        BY <3>1, <3>2, <3>4 DEF Stored
      <4> QED BY <4>1 DEF x, y
    <3> QED BY <3>3, <3>4
  <2> HIDE DEF X
  <2> QED BY <2>1 DEF Held
<1> HIDE DEF X
<1>4. Cardinality(Held(d)) <= Cardinality(Held(b)) + Cardinality(X)
  BY <1>2, <1>3, HeldFinite, GrowsBy
<1> QED BY <1>2, <1>4

-----------------------------------------------------------------------------
(***************************************************************************)
(* Layout.  What the pre-flight check promises of the payload, and that    *)
(* the writer keeps to it, also with the empty part behind a file that is  *)
(* a whole number of chunks.                                               *)
(***************************************************************************)
\* Where the file n of commit c goes.
Place(c, n, chunk) == Planned(n, Len(Repo[c][n]), chunk)

\* What the pre-flight check has found out.
Layout(c, chunk) ==
    /\ \A n \in DOMAIN Repo[c] : /\ n \notin Unsafe
                                 /\ PartCount(Len(Repo[c][n]), chunk) <= MAX_PARTS
    /\ \A x, y \in DOMAIN Repo[c] : x # y => Place(c, x, chunk) \cap Place(c, y, chunk) = {}

PathsOf(e) == { Sources(e)[k].path : k \in DOMAIN Sources(e) }

\* The parts are as many as were planned, and named one after the other.
LaidOut(e, chunk) ==
    /\ Len(e.parts) = PartCount(Len(e.sha), chunk)
    /\ \A k \in DOMAIN e.parts : e.parts[k].path = PartName(e.path, k - 1)

\* A division that is rounded up.
LEMMA Ceiling ==
    ASSUME NEW L \in Nat, NEW c \in Nat \ {0}, NEW n \in Nat \ {0},
           L <= n * c, (n - 1) * c < L
    PROVE  (L + c - 1) \div c = n
<1> DEFINE m == L + c - 1
           q == m \div c
           r == m % c
<1>1. m \in Nat /\ q \in Nat /\ r \in Nat /\ r < c /\ m = q * c + r
  OBVIOUS
<1>2. (n - 1) \in Nat /\ n * c = (n - 1) * c + c
  <2>1. n - 1 \in Nat /\ (n - 1) + 1 = n
    OBVIOUS
  <2> QED BY <2>1, ProductNext
<1>3. (n - 1) * c \in Nat /\ n * c \in Nat /\ q * c \in Nat
  BY <1>1, <1>2, ProductNext
<1> HIDE DEF q, r
<1>4. q >= n
  <2> SUFFICES ASSUME q < n PROVE FALSE
    BY <1>1
  <2>1. (q + 1) * c <= n * c
    BY <1>1, ProductMonotone
  <2>2. (q + 1) * c = q * c + c
    BY <1>1, ProductNext
  <2> QED BY <1>1, <1>2, <1>3, <2>1, <2>2
<1>5. q <= n
  <2> SUFFICES ASSUME q > n PROVE FALSE
    BY <1>1
  <2>1. (n + 1) * c <= q * c
    BY <1>1, ProductMonotone
  <2>2. (n + 1) * c = n * c + c
    BY ProductNext
  <2> QED BY <1>1, <1>3, <2>1, <2>2
<1> QED BY <1>1, <1>4, <1>5 DEF q

LEMMA CountType ==
    ASSUME NEW L \in Nat, NEW c \in (Nat \ {0}) \cup {NoChunks}
    PROVE  /\ PartCount(L, c) \in Nat
           /\ PartCount(L, c) > 0 => c \in Nat \ {0} /\ L > c
<1>1. CASE c = NoChunks
  BY <1>1 DEF PartCount
<1>2. CASE c \in Nat \ {0}
  <2>1. (L + c - 1) \div c \in Nat
    <3>1. L + c - 1 \in Nat
      BY <1>2
    <3> QED BY <1>2, <3>1
  <2> QED BY <1>2, <2>1 DEF PartCount
<1> QED BY <1>1, <1>2

\* Python's order is strict, and a name comes before its parts.
LEMMA BeforeStrict ==
    ASSUME NEW x, NEW y, Before(x, y)
    PROVE  x # y /\ \A k \in 0 .. MAX_PARTS : x # PartName(y, k)
<1>1. PICK a \in DOMAIN Order, b \in DOMAIN Order : a < b /\ Order[a] = x /\ Order[b] = y
  BY DEF Before
<1>2. a \in Nat /\ b \in Nat
  BY OrderAssumption
<1>3. x # y
  BY <1>1, <1>2, OrderAssumption
<1>4. ASSUME NEW k \in 0 .. MAX_PARTS, x = PartName(y, k) PROVE FALSE
  <2>1. b < a
    BY <1>1, <1>4, OrderAssumption
  <2> QED BY <1>1, <1>2, <2>1
<1> QED BY <1>3, <1>4

LEMMA EntryPlace ==
    ASSUME NEW c \in Commits, NEW o \in Options, NEW e \in EntryType, Whole(e, c),
           LaidOut(e, o.chunk)
    PROVE  PathsOf(e) \subseteq Place(c, e.path, o.chunk)
<1> DEFINE count == PartCount(Len(e.sha), o.chunk)
<1>1. e.path \in DOMAIN Repo[c] /\ e.sha = Repo[c][e.path] /\ e.parts \in Seq(PartType)
      /\ Len(e.sha) \in Nat
  BY DEF Whole, EntryType, Contents
<1>2. count \in Nat /\ Len(e.parts) = count /\ DOMAIN e.parts = 1 .. count
  BY <1>1, Constants, CountType DEF LaidOut
<1>3. Place(c, e.path, o.chunk) =
        IF count = 0 THEN {e.path} ELSE { PartName(e.path, k) : k \in 0 .. count - 1 }
  BY <1>1 DEF Place, Planned
<1> HIDE DEF count
<1>4. CASE count = 0
  <2>1. e.parts = <<>>
    BY <1>1, <1>2, <1>4
  <2>2. PathsOf(e) = {e.path}
    BY <2>1 DEF PathsOf, Sources
  <2> QED BY <1>3, <1>4, <2>2
<1>5. CASE count # 0
  <2>1. e.parts # <<>>
    BY <1>1, <1>2, <1>5
  <2>2. Sources(e) = e.parts
    BY <2>1 DEF Sources
  <2>3. ASSUME NEW k \in 1 .. count
        PROVE  e.parts[k].path \in Place(c, e.path, o.chunk)
    <3>1. e.parts[k].path = PartName(e.path, k - 1) /\ k - 1 \in 0 .. count - 1
      BY <1>2, <2>3 DEF LaidOut
    <3> QED BY <1>3, <1>5, <3>1
  <2> QED BY <1>2, <2>2, <2>3 DEF PathsOf
<1> QED BY <1>4, <1>5

\* Nothing that is packed lies where a later file is written, be it in the part
\* that is opened behind its last block.
LEMMA ObjectFree ==
    ASSUME NEW c \in Commits, NEW o \in Options, Layout(c, o.chunk),
           NEW e \in EntryType, Whole(e, c), LaidOut(e, o.chunk),
           NEW f \in DOMAIN Repo[c], Before(e.path, f),
           NEW count, count = PartCount(Len(Repo[c][f]), o.chunk)
    PROVE  /\ count = 0 => f \notin PathsOf(e)
           /\ count > 0 => \A k \in 0 .. count : PartName(f, k) \notin PathsOf(e)
<1>1. e.path \in DOMAIN Repo[c] /\ e.path # f
  BY BeforeStrict DEF Whole
<1>2. PathsOf(e) \subseteq Place(c, e.path, o.chunk)
  BY EntryPlace
<1>3. Place(c, e.path, o.chunk) \cap Place(c, f, o.chunk) = {}
  BY <1>1 DEF Layout
<1>4. Len(Repo[c][f]) \in Nat /\ o.chunk \in (Nat \ {0}) \cup {NoChunks}
  BY Constants DEF Contents
<1>5. count \in Nat /\ count <= MAX_PARTS /\ MAX_PARTS \in Nat
  BY <1>4, CountType, ChunkAssumption DEF Layout
<1>6. ASSUME count = 0 PROVE f \notin PathsOf(e)
  BY <1>2, <1>3, <1>6 DEF Place, Planned
<1>7. ASSUME count > 0, NEW k \in 0 .. count PROVE PartName(f, k) \notin PathsOf(e)
  <2>1. CASE k \in 0 .. count - 1
    <3>1. PartName(f, k) \in Place(c, f, o.chunk)
      BY <1>5, <1>7, <2>1 DEF Place, Planned
    <3> QED BY <1>2, <1>3, <3>1
  <2>2. CASE k = count
    <3> DEFINE own == PartCount(Len(Repo[c][e.path]), o.chunk)
    <3>1. Len(Repo[c][e.path]) \in Nat /\ own \in Nat /\ own <= MAX_PARTS
      <4>1. Len(Repo[c][e.path]) \in Nat
        BY <1>1, Constants DEF Contents
      <4> QED BY <1>1, <1>4, <4>1, CountType DEF Layout
    <3>2. CASE own = 0
      <4>1. PathsOf(e) \subseteq {e.path}
        BY <1>2, <3>2 DEF Place, Planned
      <4>2. e.path # PartName(f, k)
        BY <1>5, BeforeStrict
      <4> QED BY <4>1, <4>2
    <3>3. CASE own # 0
      <4> SUFFICES ASSUME PartName(f, k) \in PathsOf(e) PROVE FALSE
        OBVIOUS
      <4>1. PICK l \in 0 .. own - 1 : PartName(f, k) = PartName(e.path, l)
        BY <1>2, <3>3 DEF Place, Planned
      <4>2. f \in Names /\ e.path \in Names /\ l \in 0 .. MAX_PARTS /\ k \in 0 .. MAX_PARTS
        BY <1>1, <1>5, <3>1, Constants
      <4> QED BY <1>1, <4>1, <4>2, SuffixAssumption
    <3> QED BY <3>2, <3>3
  <2> QED BY <1>5, <1>7, <2>1, <2>2
<1> QED BY <1>6, <1>7

-----------------------------------------------------------------------------
(***************************************************************************)
(* The run of a pack that nothing disturbs.                                *)
(***************************************************************************)
Listed == {"write", "fill", "manifest"}
Papers == {"sidecar", "page", "sign", "verify", "sigcheck"}

\* The blocks of the files that are not fetched, and of all files.
Rest(p) == Size(commit[p], DOMAIN Repo[commit[p]] \ fetched[p])
All(p)  == Size(commit[p], DOMAIN Repo[commit[p]])

\* The blocks of the open file that are written.
Written(p) == IF Chunked(p) THEN Len(parts[p]) * opt[p].chunk ELSE 0

\* There is room for what is still to be fetched and to be written.
RoomInv(p) ==
    /\ pc[p] \in {"path", "fetch"} =>
         IF OneVolume THEN FreeDest >= Rest(p) + All(p)
         ELSE FreeStaging >= Rest(p) /\ FreeDest >= All(p)
    /\ pc[p] = "collect" => FreeDest >= All(p)
    /\ pc[p] \in Assembling \ {"fill"} => FreeDest >= Size(commit[p], todo[p])
    /\ pc[p] = "fill" => FreeDest + Written(p) >= Size(commit[p], todo[p])

\* The entries of a run are as planned, and in order.
ShapeInv(p) ==
    /\ pc[p] \in Located => DOMAIN Repo[commit[p]] # {}
    /\ pc[p] \in {"recheck", "mkdir"} \cup Listed => Layout(commit[p], opt[p].chunk)
    /\ pc[p] \in {"preflight", "recheck", "mkdir"} => entries[p] = <<>>
    /\ pc[p] = "mkdir" => ~ made[commit[p]]
    /\ pc[p] \in Listed => \A k \in DOMAIN entries[p] :
         /\ LaidOut(entries[p][k], opt[p].chunk)
         /\ \A n \in todo[p] : Before(entries[p][k].path, n)
         /\ \A l \in DOMAIN entries[p] : entries[p][k].path = entries[p][l].path => k = l
    /\ pc[p] = "fill" =>
         /\ linked[p]
         /\ Chunked(p) \/ parts[p] = <<>>
         /\ \A k \in DOMAIN parts[p] : parts[p][k].path = PartName(file[p], k - 1)
         /\ \A n \in todo[p] \ {file[p]} : Before(file[p], n)
    /\ pc[p] = "sigcheck" => signer[p] # NoKey

\* Every object of e is in the payload d, as declared.
Stands(e, d) == \A k \in DOMAIN Sources(e) : d[Sources(e)[k].path] = Sources(e)[k].sha

\* Nothing but the paths in S is in the payload d.
OnlyAt(d, S) == \A n \in Names \ S : d[n] = Missing

PathsAll(list) == UNION { PathsOf(list[k]) : k \in DOMAIN list }

\* The paths at which the open file has been written.
Opened(p) == {Object(p)} \cup Paths(parts[p])

\* The payload holds what is packed, and nothing else.
WrittenInv(p) ==
    LET d == bundles[commit[p]].payload
    IN /\ pc[p] \in Listed => \A k \in DOMAIN entries[p] : Stands(entries[p][k], d)
       /\ pc[p] \in {"write", "manifest"} => OnlyAt(d, PathsAll(entries[p]))
       /\ pc[p] = "fill" =>
            /\ OnlyAt(d, PathsAll(entries[p]) \cup Opened(p))
            /\ d[Object(p)] = <<>>
            /\ \A k \in DOMAIN parts[p] : d[parts[p][k].path] = parts[p][k].sha

\* The bundle is as the manifest says, and the manifest is that of p.
PapersInv(p) ==
    LET b == bundles[commit[p]]
    IN /\ pc[p] = "manifest" => b.verifier = Verifier
       /\ pc[p] = "sidecar" => Intact([b EXCEPT !.sidecar = b.manifest])
       /\ pc[p] \in Papers \ {"sidecar"} => Intact(b)
       /\ pc[p] \in Papers /\ signer[p] # NoKey => b.manifest.signing = KeyId[signer[p]]
       /\ pc[p] \in {"sidecar", "page", "sign"} => b.manifest = man[p]
       /\ pc[p] \in {"verify", "sigcheck"} /\ signer[p] # NoKey =>
            signature[commit[p]] = Signature(signer[p], b.manifest)

Works(p) ==
    /\ ShapeInv(p)
    /\ undisturbed[p] => RoomInv(p) /\ WrittenInv(p) /\ PapersInv(p)

\* What OnlyRefusals says of one run.
EndsWell(p) ==
    pc[p] = "done" /\ undisturbed[p] =>
      \/ exit[p] \in {0, 2}
      \/ said[p] \in {"widen-the-patterns", "remove-it", "choose-a-directory", "free-space"}
      \/ opt[p].sign /\ secretFile = Foreign

WorksInv == \A p \in Procs : Works(p) /\ EndsWell(p)
-----------------------------------------------------------------------------
(* The steps.  Basis is what the other proofs about pack have shown. *)
Basis == TypeInv /\ MediaInv /\ SignerInv /\ StagedInv /\ EntriesInv

LEMMA AtWork ==
    /\ Assembling \cup Listed \cup Papers \cup {"path", "fetch", "collect"} \subseteq Located
    /\ Listed \cup Papers \subseteq Writing
    /\ {"idle", "crashed", "done", "dest", "signer", "resolve"} \cap Located = {}
  BY DEF Assembling, Listed, Papers, Located, Running, Writing

LEMMA OffDuty == ASSUME NEW p, pc[p] \notin Located PROVE Works(p)
  BY AtWork DEF Works, ShapeInv, RoomInv, WrittenInv, PapersInv, Assembling, Listed, Papers

LEMMA EndStep ==
    ASSUME TypeInv, NEW p \in Procs, NEW code, NEW advice, Exit(p, code, advice)
    PROVE  pc'[p] = "done" /\ exit'[p] = code /\ said'[p] = advice /\ Works(p)'
<1>1. pc'[p] = "done" /\ exit'[p] = code /\ said'[p] = advice
  BY DEF Exit, TypeInv, ControlType
<1>2. Works(p)'
  BY <1>1, AtWork
     DEF Works, ShapeInv, RoomInv, WrittenInv, PapersInv, Assembling, Listed, Papers
<1> QED BY <1>1, <1>2

LEMMA GoStep ==
    ASSUME TypeInv, NEW p \in Procs, NEW l, l # "done", Goto(p, l)
    PROVE  pc'[p] = l /\ EndsWell(p)'
  BY DEF Goto, EndsWell, TypeInv, ControlType

\* What is free depends on nothing but the two kinds of directory.
LEMMA FreeKept ==
    ASSUME TypeInv, TypeInv', UNCHANGED staging,
           \A c \in Commits : \A n \in Names :
             \/ bundles'[c].payload[n] = bundles[c].payload[n]
             \/ bundles'[c].payload[n] \in {Missing, <<>>}
    PROVE  FreeDest' >= FreeDest /\ FreeStaging' >= FreeStaging
<1>1. Packed' <= Packed
  <2>1. Cardinality(Held(bundles')) <= Cardinality(Held(bundles))
    BY HeldShrinks
  <2> QED BY <2>1 DEF Packed, Held
<1>2. Staged' = Staged
  BY DEF Staged
<1>3. Staged \in Nat /\ Packed \in Nat /\ Packed' \in Nat
  <2>1. Packed' \in Nat
    BY HeldFinite, FS_CardinalityType DEF Packed, Held
  <2> QED BY <2>1, FreeType
<1>4. Room.dest \in Int /\ Room.staging \in Int
  BY RepoAssumption
<1> QED BY <1>1, <1>2, <1>3, <1>4 DEF FreeDest, FreeStaging

LEMMA FreeFills ==
    ASSUME TypeInv, TypeInv', UNCHANGED staging,
           NEW a \in Commits, NEW o \in Names, NEW s \in Contents,
           \A c \in Commits : \A n \in Names :
             \/ bundles'[c].payload[n] = bundles[c].payload[n]
             \/ bundles'[c].payload[n] \in {Missing, <<>>}
             \/ c = a /\ n = o /\ bundles'[c].payload[n] = s
    PROVE  FreeDest' + Len(s) >= FreeDest
<1>1. Packed' <= Packed + Len(s)
  <2>1. Cardinality(Held(bundles')) <= Cardinality(Held(bundles)) + Len(s)
    BY HeldGrows
  <2> QED BY <2>1 DEF Packed, Held
<1>2. Staged' = Staged
  BY DEF Staged
<1>3. Staged \in Nat /\ Packed \in Nat /\ Packed' \in Nat /\ Len(s) \in Nat
  <2>1. Packed' \in Nat
    BY HeldFinite, FS_CardinalityType DEF Packed, Held
  <2> QED BY <2>1, FreeType DEF Contents
<1>4. Room.dest \in Int
  BY RepoAssumption
<1> QED BY <1>1, <1>2, <1>3, <1>4 DEF FreeDest

LEMMA FreeSame ==
    ASSUME UNCHANGED <<staging, bundles>>
    PROVE  FreeDest' = FreeDest /\ FreeStaging' = FreeStaging
  BY DEF FreeDest, FreeStaging, Staged, Packed

-----------------------------------------------------------------------------
(* Before the bundle is written. *)
LEMMA EarlyWorks ==
    ASSUME Basis, NEW p \in Procs,
           ValidateDest(p) \/ MakeSigner(p) \/ Resolve(p) \/ CallFails(p) \/ Crash(p) \/ Begin(p)
    PROVE  Works(p)' /\ EndsWell(p)'
<1> USE DEF Basis
<1>0. ASSUME pc'[p] \in {"crashed", "dest", "signer", "resolve"}
      PROVE  Works(p)' /\ EndsWell(p)'
  BY <1>0, AtWork DEF Works, ShapeInv, RoomInv, WrittenInv, PapersInv, Assembling, Listed,
     Papers, EndsWell
<1>1. CASE ValidateDest(p)
  BY <1>0, <1>1, EndStep, GoStep DEF ValidateDest, EndsWell
<1>2. CASE MakeSigner(p)
  <2>1. CASE Goto(p, "resolve") \/ Exit(p, UsageError, "set-a-key")
    BY <1>0, <2>1, EndStep, GoStep DEF EndsWell, UsageError
  <2>2. CASE Exit(p, 1, "traceback") /\ opt[p].sign /\ secretFile = Foreign
    <3>1. UNCHANGED <<opt, secretFile>>
      BY <1>2 DEF MakeSigner, shared
    <3> QED BY <2>2, <3>1, EndStep DEF EndsWell
  <2> QED BY <1>2, <2>1, <2>2 DEF MakeSigner
<1>3. CASE Resolve(p)
  <2>1. CASE Exit(p, SourceError, "widen-the-patterns")
    BY <2>1, EndStep DEF EndsWell
  <2>2. ASSUME NEW c \in Commits, DOMAIN Repo[c] # {},
               commit' = [commit EXCEPT ![p] = c], Goto(p, "space")
        PROVE  Works(p)' /\ EndsWell(p)'
    <3>1. pc'[p] = "space" /\ EndsWell(p)' /\ commit'[p] = c
      BY <2>2, GoStep DEF TypeInv, ChoiceType
    <3> QED BY <2>2, <3>1 DEF Works, ShapeInv, RoomInv, WrittenInv, PapersInv,
               Assembling, Listed, Papers
  <2> QED BY <1>3, <2>1, <2>2 DEF Resolve
<1>4. CASE CallFails(p)
  <2>1. \E code, advice : Exit(p, code, advice)
    BY <1>4 DEF CallFails
  <2>2. ~ undisturbed'[p]
    BY <1>4 DEF CallFails, TypeInv, HistoryType
  <2> QED BY <2>1, <2>2, EndStep DEF EndsWell
<1>5. CASE Crash(p)
  BY <1>0, <1>5 DEF Crash, TypeInv, ControlType
<1>6. CASE Begin(p)
  BY <1>0, <1>6 DEF Begin, TypeInv, ControlType
<1> QED BY <1>1, <1>2, <1>3, <1>4, <1>5, <1>6

\* The blocks of all files, as the check of the space counts them.
LEMMA TotalSize ==
    ASSUME TypeInv, NEW p \in Procs, pc[p] \in Located
    PROVE  /\ TotalBytes(p) = All(p) /\ All(p) \in Nat /\ Rest(p) \in Nat
           /\ commit[p] \in Commits
<1>1. commit[p] \in Commits
  BY LocatedCommit
<1> QED BY <1>1, SizeOf DEF TotalBytes, All, Rest, Size

LEMMA CheckSpaceWorks ==
    ASSUME Basis, NEW p \in Procs, Works(p), CheckSpace(p)
    PROVE  Works(p)' /\ EndsWell(p)'
<1> USE DEF Basis
<1>1. pc[p] = "space" /\ UNCHANGED <<shared, run, undisturbed, budget>> /\ pc[p] \in Located
  BY DEF CheckSpace, Located, Running
<1>2. CASE Exit(p, LocalFsError, "free-space")
  BY <1>2, EndStep DEF EndsWell
<1>3. CASE EnoughSpace(p) /\ Goto(p, "path")
  <2>1. pc'[p] = "path" /\ EndsWell(p)'
    BY <1>3, GoStep
  <2>2. fetched[p] = {}
    BY <1>1 DEF StagedInv, Fresh
  <2>3. Rest(p) = All(p) /\ All(p) \in Nat /\ TotalBytes(p) = All(p)
    <3>1. DOMAIN Repo[commit[p]] \ fetched[p] = DOMAIN Repo[commit[p]]
      BY <2>2
    <3> QED BY <1>1, <3>1, TotalSize DEF Rest, All
  <2>4. IF OneVolume THEN FreeDest >= Rest(p) + All(p)
        ELSE FreeStaging >= Rest(p) /\ FreeDest >= All(p)
    BY <1>3, <2>3, FreeType DEF EnoughSpace
  <2>5. /\ FreeDest' = FreeDest /\ FreeStaging' = FreeStaging
        /\ Rest(p)' = Rest(p) /\ All(p)' = All(p)
    BY <1>1, FreeSame DEF shared, run, Rest, All, Size
  <2>6. RoomInv(p)'
    BY <2>1, <2>4, <2>5 DEF RoomInv, Assembling
  <2>7. WrittenInv(p)' /\ PapersInv(p)'
    BY <2>1 DEF WrittenInv, PapersInv, Listed, Papers
  <2>8. ShapeInv(p)'
    BY <1>1, <2>1 DEF Works, ShapeInv, Listed, run
  <2> QED BY <2>1, <2>6, <2>7, <2>8 DEF Works
<1> QED BY <1>2, <1>3 DEF CheckSpace

LEMMA CheckPathWorks ==
    ASSUME Basis, NEW p \in Procs, Works(p), CheckPath(p)
    PROVE  Works(p)' /\ EndsWell(p)'
<1> USE DEF Basis
<1>1. pc[p] = "path" /\ UNCHANGED <<shared, run, undisturbed, budget>> /\ pc[p] \in Located
  BY DEF CheckPath, Located, Running
<1>2. CASE Exit(p, LocalFsError, "remove-it")
  BY <1>2, EndStep DEF EndsWell
<1>3. CASE Goto(p, "fetch")
  <2>1. pc'[p] = "fetch" /\ EndsWell(p)'
    BY <1>3, GoStep
  <2>2. /\ FreeDest' = FreeDest /\ FreeStaging' = FreeStaging
        /\ Rest(p)' = Rest(p) /\ All(p)' = All(p)
    BY <1>1, FreeSame DEF shared, run, Rest, All, Size
  <2>3. RoomInv(p) => RoomInv(p)'
    BY <1>1, <2>1, <2>2 DEF RoomInv, Assembling
  <2>4. WrittenInv(p)' /\ PapersInv(p)'
    BY <2>1 DEF WrittenInv, PapersInv, Listed, Papers
  <2>5. ShapeInv(p)'
    BY <1>1, <2>1 DEF Works, ShapeInv, Listed, run
  <2> QED BY <1>1, <2>1, <2>3, <2>4, <2>5 DEF Works
<1> QED BY <1>2, <1>3 DEF CheckPath

\* A file that is fetched takes no more than was set aside for it.
LEMMA Slack ==
    ASSUME NEW f \in Int, NEW g \in Int, NEW l \in Nat, NEW a \in Int,
           f >= a + l, g + l >= f
    PROVE  g >= a
  OBVIOUS

LEMMA FetchWorks ==
    ASSUME Basis, NEW p \in Procs, Works(p), Fetch(p)
    PROVE  Works(p)' /\ EndsWell(p)'
<1> USE DEF Basis
<1>1. /\ pc[p] = "fetch" /\ pc[p] \in Located
      /\ UNCHANGED <<bundles, opt, commit, todo, entries, parts, src, file, undisturbed>>
  BY DEF Fetch, Located, Running
<1>2. commit[p] \in Commits /\ fetched \in [Procs -> SUBSET Names]
      /\ All(p) \in Nat /\ Rest(p) \in Nat
  BY <1>1, TotalSize DEF TypeInv, ChoiceType
<1>3. PICK c \in Commits : c = commit[p]
  BY <1>2
<1>4. undisturbed[p] => IF OneVolume THEN FreeDest >= Rest(p) + All(p)
                        ELSE FreeStaging >= Rest(p) /\ FreeDest >= All(p)
  BY <1>1 DEF Works, RoomInv
<1>5. ShapeInv(p)
  BY DEF Works
<1>6. CASE /\ DOMAIN Repo[c] \ fetched[p] = {}
           /\ Goto(p, "collect") /\ UNCHANGED <<staging, fetched>>
  <2>1. pc'[p] = "collect" /\ EndsWell(p)'
    BY <1>6, GoStep
  <2>2. FreeDest' = FreeDest /\ All(p)' = All(p)
    BY <1>1, <1>6, FreeSame DEF All, Size
  <2>3. RoomInv(p)' \/ ~ undisturbed[p]
    BY <1>2, <1>4, <2>1, <2>2, FreeType DEF RoomInv, Assembling
  <2>4. WrittenInv(p)' /\ PapersInv(p)'
    BY <2>1 DEF WrittenInv, PapersInv, Listed, Papers
  <2>5. ShapeInv(p)'
    BY <1>1, <1>5, <2>1 DEF ShapeInv, Listed
  <2> QED BY <1>1, <2>1, <2>3, <2>4, <2>5 DEF Works
<1>7. ASSUME NEW n \in DOMAIN Repo[c] \ fetched[p],
             NEW after, after = [staging EXCEPT ![n] = Repo[c][n]],
             IF Bytes(after, Names) - Staged > FreeStaging
             THEN /\ Exit(p, SourceError, "re-run-pack-to-resume")
                  /\ UNCHANGED <<staging, fetched>>
             ELSE /\ staging' = after
                  /\ fetched' = [fetched EXCEPT ![p] = @ \cup {n}]
                  /\ UNCHANGED <<pc, exit, said, told>>
      PROVE  Works(p)' /\ EndsWell(p)'
  <2> DEFINE l == Len(Repo[c][n])
             left == Size(c, (DOMAIN Repo[c] \ fetched[p]) \ {n})
  <2>1. n \in Names /\ Repo[c][n] \in Contents /\ staging \in [Names -> Contents \cup {NoFile}]
    BY Constants DEF TypeInv, HostType, Files
  <2>2. l \in Nat /\ left \in Nat /\ Rest(p) = left + l
    <3> DEFINE S == DOMAIN Repo[c] \ fetched[p]
    <3>1. S \in SUBSET DOMAIN Repo[c] /\ S \ {n} \in SUBSET DOMAIN Repo[c] /\ n \in S
      OBVIOUS
    <3>2. Rest(p) = Size(c, S)
      BY <1>3 DEF Rest
    <3> HIDE DEF S
    <3>3. Size(c, S \ {n}) \in Nat
      BY <3>1, SizeOf
    <3>4. l \in Nat /\ Size(c, S) = Size(c, S \ {n}) + l
      BY <3>1, SizeOf
    <3> QED BY <3>2, <3>3, <3>4 DEF S
  <2>3. after[n] = Repo[c][n] /\ \A m \in Names \ {n} : after[m] = staging[m]
    BY <1>7, <2>1
  <2>4. Bytes(after, Names) <= Staged + l
    BY <2>1, <2>3, BytesGrow DEF Staged
  <2>5. Staged \in Nat /\ Packed \in Nat /\ Bytes(after, Names) \in Nat
        /\ FreeStaging \in Int /\ FreeDest \in Int
    BY FreeType, FiniteAssumption, StoredFinite
  <2> HIDE DEF l, left
  <2>6. undisturbed[p] => Bytes(after, Names) - Staged <= FreeStaging
    <3>1. CASE OneVolume
      <4>1. FreeStaging = FreeDest
        BY <2>5, <3>1, RepoAssumption DEF FreeStaging, FreeDest
      <4> QED BY <1>2, <1>4, <2>2, <2>4, <2>5, <3>1, <4>1
    <3>2. CASE ~ OneVolume
      BY <1>2, <1>4, <2>2, <2>4, <2>5, <3>2
    <3> QED BY <3>1, <3>2, RepoAssumption
  <2>7. CASE Exit(p, SourceError, "re-run-pack-to-resume")
             /\ Bytes(after, Names) - Staged > FreeStaging
    <3>1. ~ undisturbed[p]
      BY <2>5, <2>6, <2>7
    <3> QED BY <1>1, <2>7, <3>1, EndStep DEF EndsWell
  <2>8. CASE /\ staging' = after
             /\ fetched' = [fetched EXCEPT ![p] = @ \cup {n}]
             /\ UNCHANGED <<pc, exit, said, told>>
    <3>1. Staged' = Bytes(after, Names) /\ Packed' = Packed
      BY <1>1, <2>8 DEF Staged, Packed
    <3>2. Rest(p)' = left /\ All(p)' = All(p)
      <4>1. DOMAIN Repo[c] \ fetched'[p] = (DOMAIN Repo[c] \ fetched[p]) \ {n}
        BY <1>2, <2>8
      <4> QED BY <1>1, <1>3, <4>1 DEF Rest, All, Size, left
    <3>3. undisturbed[p] => RoomInv(p)'
      <4>1. Room.dest \in Int /\ Room.staging \in Int
        BY RepoAssumption
      <4>2. FreeDest' + l >= FreeDest /\ FreeStaging' + l >= FreeStaging
            /\ (~ OneVolume => FreeDest' = FreeDest)
        BY <2>2, <2>4, <2>5, <3>1, <4>1 DEF FreeDest, FreeStaging
      <4>3. FreeDest' \in Int /\ FreeStaging' \in Int
        BY <2>5, <3>1, <4>1 DEF FreeDest, FreeStaging
      <4>4. pc'[p] = "fetch" /\ All(p) \in Nat /\ Rest(p) = left + l /\ left \in Nat /\ l \in Nat
        BY <1>1, <1>2, <2>2, <2>8
      <4>5. undisturbed[p] => IF OneVolume THEN FreeDest' >= left + All(p)
                              ELSE FreeStaging' >= left /\ FreeDest' >= All(p)
        <5> SUFFICES ASSUME undisturbed[p]
                     PROVE  IF OneVolume THEN FreeDest' >= left + All(p)
                            ELSE FreeStaging' >= left /\ FreeDest' >= All(p)
          OBVIOUS
        <5>1. CASE OneVolume
          <6>1. FreeDest >= (left + All(p)) + l /\ FreeDest' + l >= FreeDest
            BY <1>4, <2>5, <4>2, <4>4, <5>1
          <6>2. left + All(p) \in Int /\ l \in Nat
            BY <4>4
          <6>3. FreeDest' >= left + All(p)
            BY <2>5, <4>3, <6>1, <6>2, Slack
          <6> QED BY <5>1, <6>3
        <5>2. CASE ~ OneVolume
          <6>1. FreeStaging >= left + l /\ FreeStaging' + l >= FreeStaging
                /\ FreeDest >= All(p) /\ FreeDest' = FreeDest
            BY <1>4, <4>2, <4>4, <5>2
          <6>2. left \in Int /\ l \in Nat
            BY <4>4
          <6>3. FreeStaging' >= left
            BY <2>5, <4>3, <6>1, <6>2, Slack
          <6> QED BY <5>2, <6>1, <6>3
        <5> QED BY <5>1, <5>2
      <4> QED BY <3>2, <4>4, <4>5 DEF RoomInv, Assembling
    <3>4. WrittenInv(p)' /\ PapersInv(p)'
      BY <1>1, <2>8 DEF WrittenInv, PapersInv, Listed, Papers
    <3>5. ShapeInv(p)' /\ EndsWell(p)'
      BY <1>1, <1>5, <2>8 DEF ShapeInv, Listed, EndsWell
    <3> QED BY <1>1, <3>3, <3>4, <3>5 DEF Works
  <2> QED BY <1>7, <2>7, <2>8
<1> QED BY <1>3, <1>6, <1>7 DEF Fetch

LEMMA CollectWorks ==
    ASSUME Basis, NEW p \in Procs, Works(p), Collect(p)
    PROVE  Works(p)' /\ EndsWell(p)'
<1> USE DEF Basis
<1>1. /\ pc[p] = "collect" /\ pc[p] \in Located
      /\ UNCHANGED <<staging, bundles, opt, commit, entries, parts, src, file, undisturbed>>
  BY DEF Collect, Located, Running, shared
<1>2. commit[p] \in Commits /\ DOMAIN Repo[commit[p]] # {} /\ ShapeInv(p)
      /\ entries[p] = <<>>
  BY <1>1, LocatedCommit DEF Works, ShapeInv, StagedInv
<1>3. { n \in DOMAIN Repo[commit[p]] : staging[n] # NoFile } = DOMAIN Repo[commit[p]]
  <2>1. \A n \in DOMAIN Repo[commit[p]] : staging[n] = Repo[commit[p]][n]
    BY <1>1 DEF StagedInv
  <2> QED BY <1>2, <2>1, Constants
<1>4. /\ todo' = [todo EXCEPT ![p] = DOMAIN Repo[commit[p]]]
      /\ Goto(p, "preflight")
  BY <1>2, <1>3 DEF Collect
<1>5. pc'[p] = "preflight" /\ EndsWell(p)' /\ todo'[p] = DOMAIN Repo[commit[p]]
  BY <1>4, GoStep DEF TypeInv, LoopType
<1>6. undisturbed[p] => RoomInv(p)'
  <2>1. Size(commit[p], todo[p])' = All(p) /\ FreeDest' = FreeDest
    BY <1>1, <1>5, FreeSame DEF All, Size
  <2> QED BY <1>1, <1>5, <2>1 DEF Works, RoomInv, Assembling
<1>7. WrittenInv(p)' /\ PapersInv(p)'
  BY <1>5 DEF WrittenInv, PapersInv, Listed, Papers
<1>8. ShapeInv(p)'
  BY <1>1, <1>2, <1>5 DEF ShapeInv, Listed
<1> QED BY <1>1, <1>5, <1>6, <1>7, <1>8 DEF Works

LEMMA PreflightWorks ==
    ASSUME Basis, NEW p \in Procs, Works(p), Preflight(p)
    PROVE  Works(p)' /\ EndsWell(p)'
<1> USE DEF Basis
<1>1. /\ pc[p] = "preflight" /\ pc[p] \in Located
      /\ UNCHANGED <<staging, bundles, opt, commit, entries, parts, src, file, undisturbed, todo>>
  BY DEF Preflight, Located, Running, shared, run
<1>2. commit[p] \in Commits /\ ShapeInv(p) /\ entries[p] = <<>>
  BY <1>1, LocatedCommit DEF Works, ShapeInv
<1>3. CASE Exit(p, UsageError, "exclude-it")
  BY <1>3, EndStep DEF EndsWell, UsageError
<1>4. ASSUME Goto(p, "recheck"),
             ~ \E n \in todo[p] : n \in Unsafe \cup Reserved,
             ~ \E n \in todo[p] : PartCount(Len(staging[n]), opt[p].chunk) > MAX_PARTS,
             ~ Collision(todo[p], opt[p].chunk)
      PROVE  Works(p)' /\ EndsWell(p)'
  <2>1. pc'[p] = "recheck" /\ EndsWell(p)'
    BY <1>4, GoStep
  <2>2. todo[p] = DOMAIN Repo[commit[p]]
    <3>1. Paths(entries[p]) = {}
      BY <1>2 DEF Paths
    <3> QED BY <1>1, <3>1 DEF EntriesInv, Assembling
  <2>3. \A n \in DOMAIN Repo[commit[p]] : staging[n] = Repo[commit[p]][n]
    BY <1>1 DEF StagedInv, Assembling
  <2>4. Layout(commit[p], opt[p].chunk)
    <3>1. ASSUME NEW n \in DOMAIN Repo[commit[p]]
          PROVE  /\ n \notin Unsafe
                 /\ PartCount(Len(Repo[commit[p]][n]), opt[p].chunk) <= MAX_PARTS
      <4>1. Len(Repo[commit[p]][n]) \in Nat /\ opt[p].chunk \in (Nat \ {0}) \cup {NoChunks}
        BY <1>2, Constants DEF Contents, TypeInv, ChoiceType
      <4>2. PartCount(Len(Repo[commit[p]][n]), opt[p].chunk) \in Nat
        BY <4>1, CountType
      <4> QED BY <1>4, <2>2, <2>3, <4>2, ChunkAssumption
    <3>2. ASSUME NEW x \in DOMAIN Repo[commit[p]], NEW y \in DOMAIN Repo[commit[p]], x # y
          PROVE  Place(commit[p], x, opt[p].chunk) \cap Place(commit[p], y, opt[p].chunk) = {}
      BY <1>4, <2>2, <2>3, <3>2 DEF Collision, Place
    <3> QED BY <3>1, <3>2 DEF Layout
  <2>5. undisturbed[p] => RoomInv(p)'
    <3>1. Size(commit[p], todo[p])' = Size(commit[p], todo[p]) /\ FreeDest' = FreeDest
      BY <1>1, FreeSame DEF Size
    <3> QED BY <1>1, <2>1, <3>1 DEF Works, RoomInv, Assembling
  <2>6. WrittenInv(p)' /\ PapersInv(p)'
    BY <2>1 DEF WrittenInv, PapersInv, Listed, Papers
  <2>7. ShapeInv(p)'
    BY <1>1, <1>2, <2>1, <2>4 DEF ShapeInv, Listed
  <2> QED BY <1>1, <2>1, <2>5, <2>6, <2>7 DEF Works
<1> QED BY <1>3, <1>4 DEF Preflight

LEMMA RecheckWorks ==
    ASSUME Basis, NEW p \in Procs, Works(p), Recheck(p)
    PROVE  Works(p)' /\ EndsWell(p)'
<1> USE DEF Basis
<1>1. /\ pc[p] = "recheck" /\ pc[p] \in Located
      /\ UNCHANGED <<staging, bundles, made, opt, commit, entries, parts, src, file,
                     undisturbed, todo>>
  BY DEF Recheck, Located, Running, shared, run
<1>2. ShapeInv(p) /\ entries[p] = <<>> /\ Layout(commit[p], opt[p].chunk)
  BY <1>1 DEF Works, ShapeInv
<1>3. CASE Exit(p, LocalFsError, "remove-it")
  BY <1>3, EndStep DEF EndsWell
<1>4. CASE Goto(p, "mkdir") /\ ~ made[commit[p]]
  <2>1. pc'[p] = "mkdir" /\ EndsWell(p)'
    BY <1>4, GoStep
  <2>2. undisturbed[p] => RoomInv(p)'
    <3>1. Size(commit[p], todo[p])' = Size(commit[p], todo[p]) /\ FreeDest' = FreeDest
      BY <1>1, FreeSame DEF Size
    <3> QED BY <1>1, <2>1, <3>1 DEF Works, RoomInv, Assembling
  <2>3. WrittenInv(p)' /\ PapersInv(p)'
    BY <2>1 DEF WrittenInv, PapersInv, Listed, Papers
  <2>4. ShapeInv(p)'
    BY <1>1, <1>2, <1>4, <2>1 DEF ShapeInv, Listed, Layout
  <2> QED BY <1>1, <2>1, <2>2, <2>3, <2>4 DEF Works
<1> QED BY <1>3, <1>4 DEF Recheck, PathTaken

LEMMA MakeDirsWorks ==
    ASSUME Basis, NEW p \in Procs, Works(p), MakeDirs(p)
    PROVE  Works(p)' /\ EndsWell(p)'
<1> USE DEF Basis
<1>1. /\ pc[p] = "mkdir" /\ pc[p] \in Located
      /\ UNCHANGED <<staging, bundles, opt, commit, entries, parts, src, file, undisturbed, todo>>
  BY DEF MakeDirs, Located, Running, run
<1>2. ShapeInv(p) /\ entries[p] = <<>> /\ ~ made[commit[p]] /\ Layout(commit[p], opt[p].chunk)
      /\ commit[p] \in Commits
  BY <1>1, LocatedCommit DEF Works, ShapeInv
<1>3. pc'[p] = "write" /\ EndsWell(p)'
  BY GoStep DEF MakeDirs
<1>4. \A n \in Names : bundles[commit[p]].payload[n] = Missing
  <2>1. bundles[commit[p]] = NoBundle
    BY <1>2 DEF MediaInv
  <2>2. NoBundle.payload = [n \in Names |-> Missing]
    BY DEF NoBundle
  <2> QED BY <2>1, <2>2
<1>5. undisturbed[p] => RoomInv(p)'
  <2>1. Size(commit[p], todo[p])' = Size(commit[p], todo[p]) /\ FreeDest' = FreeDest
    BY <1>1, FreeSame DEF Size
  <2> QED BY <1>1, <1>3, <2>1 DEF Works, RoomInv, Assembling
<1>6. DOMAIN entries[p] = {}
  BY <1>2
<1>7. WrittenInv(p)' /\ PapersInv(p)'
  BY <1>1, <1>3, <1>4, <1>6 DEF WrittenInv, PapersInv, Listed, Papers, OnlyAt
<1>8. ShapeInv(p)'
  BY <1>1, <1>2, <1>3, <1>6 DEF ShapeInv, Listed, Layout
<1> QED BY <1>1, <1>3, <1>5, <1>7, <1>8 DEF Works

-----------------------------------------------------------------------------
(* The payload is written. *)
\* d is b with s at the name n of the payload of c.
Puts(b, d, c, n, s) == d = [b EXCEPT ![c].payload[n] = s]

LEMMA Put ==
    ASSUME NEW b \in [Commits -> BundleType], NEW c \in Commits, NEW n \in Names, NEW s,
           NEW d, Puts(b, d, c, n, s)
    PROVE  /\ d[c].payload[n] = s
           /\ \A m \in Names \ {n} : d[c].payload[m] = b[c].payload[m]
           /\ \A e \in Commits \ {c} : d[e] = b[e]
<1>1. d[c] = [b[c] EXCEPT !.payload[n] = s] /\ b[c] \in BundleType
      /\ \A e \in Commits \ {c} : d[e] = b[e]
  BY DEF Puts
<1>2. b[c].payload \in [Names -> Contents \cup {Missing}]
  BY <1>1 DEF BundleType
<1>3. d[c].payload = [b[c].payload EXCEPT ![n] = s]
  BY <1>1 DEF BundleType
<1> QED BY <1>1, <1>2, <1>3

\* What is still to be packed is clear of what is packed.
LEMMA ClearOf ==
    ASSUME Basis, NEW p \in Procs, ShapeInv(p), pc[p] \in {"write", "fill"}, NEW n \in todo[p],
           NEW count, count = PartCount(Len(Repo[commit[p]][n]), opt[p].chunk)
    PROVE  /\ n \in DOMAIN Repo[commit[p]] /\ commit[p] \in Commits /\ n \in Names
           /\ Repo[commit[p]][n] \in Contents
           /\ count \in Nat /\ count <= MAX_PARTS
           /\ count > 0 => /\ opt[p].chunk \in Nat \ {0}
                           /\ \A k \in 0 .. count : PartName(n, k) \in Names
           /\ \A k \in DOMAIN entries[p] :
                /\ count = 0 => n \notin PathsOf(entries[p][k])
                /\ count > 0 => \A j \in 0 .. count : PartName(n, j) \notin PathsOf(entries[p][k])
<1> USE DEF Basis
<1>1. commit[p] \in Commits /\ opt[p] \in Options /\ entries[p] \in Seq(EntryType)
  BY LocatedCommit DEF Located, Running, Writing, TypeInv, ChoiceType, LoopType
<1>2. n \in DOMAIN Repo[commit[p]]
  BY DEF EntriesInv, Assembling
<1>3. Repo[commit[p]][n] \in Contents /\ n \in Names /\ Len(Repo[commit[p]][n]) \in Nat
      /\ opt[p].chunk \in (Nat \ {0}) \cup {NoChunks}
  BY <1>1, <1>2, Constants DEF Contents
<1>4. count \in Nat /\ (count > 0 => opt[p].chunk \in Nat \ {0})
  BY <1>3, CountType
<1>5. Layout(commit[p], opt[p].chunk)
  BY DEF ShapeInv, Listed
<1>6. count <= MAX_PARTS
  BY <1>2, <1>5 DEF Layout
<1>7. count > 0 => \A k \in 0 .. count : PartName(n, k) \in Names
  BY <1>1, <1>2, NamesAssumption
<1>8. ASSUME NEW k \in DOMAIN entries[p]
      PROVE  /\ count = 0 => n \notin PathsOf(entries[p][k])
             /\ count > 0 => \A j \in 0 .. count : PartName(n, j) \notin PathsOf(entries[p][k])
  <2> DEFINE e == entries[p][k]
  <2>1. e \in EntryType
    BY <1>1
  <2>2. Whole(e, commit[p])
    BY DEF EntriesInv, Assembling
  <2>3. LaidOut(e, opt[p].chunk) /\ Before(e.path, n)
    BY DEF ShapeInv, Listed
  <2> HIDE DEF e
  <2>4. /\ count = 0 => n \notin PathsOf(e)
        /\ count > 0 => \A j \in 0 .. count : PartName(n, j) \notin PathsOf(e)
    BY <1>1, <1>2, <1>5, <2>1, <2>2, <2>3, ObjectFree
  <2> QED BY <2>4 DEF e
<1> QED BY <1>1, <1>2, <1>3, <1>4, <1>6, <1>7, <1>8

LEMMA SourceNamed ==
    ASSUME NEW list \in Seq(EntryType), NEW k \in DOMAIN list, NEW j \in DOMAIN Sources(list[k])
    PROVE  Sources(list[k])[j] \in PartType /\ Sources(list[k])[j].path \in Names
<1>1. list[k] \in EntryType
  OBVIOUS
<1> DEFINE e == list[k]
<1>2. e.path \in Names /\ e.sha \in Contents /\ e.parts \in Seq(PartType)
  BY <1>1 DEF EntryType
<1>3. Sources(e) \in Seq(PartType)
  <2>1. CASE e.parts = <<>>
    <3>1. [path |-> e.path, sha |-> e.sha] \in PartType
      BY <1>2 DEF PartType
    <3> QED BY <2>1, <3>1 DEF Sources
  <2>2. CASE e.parts # <<>>
    BY <1>2, <2>2 DEF Sources
  <2> QED BY <2>1, <2>2
<1> HIDE DEF e
<1>4. j \in DOMAIN Sources(e)
  BY DEF e
<1>5. Sources(e)[j] \in PartType
  BY <1>3, <1>4
<1> QED BY <1>5 DEF PartType, e

LEMMA OpenFileWorks ==
    ASSUME Basis, NEW p \in Procs, Works(p), OpenFile(p), TypeInv'
    PROVE  Works(p)' /\ EndsWell(p)'
<1> USE DEF Basis
<1>1. /\ pc[p] = "write"
      /\ UNCHANGED <<staging, opt, commit, todo, entries, undisturbed, signer, made>>
  BY DEF OpenFile, settled
<1>2. ShapeInv(p)
  BY DEF Works
<1> DEFINE first(n) == IF PartCount(Len(staging[n]), opt[p].chunk) > 0
                       THEN PartName(n, 0) ELSE n
<1>3. PICK n \in todo[p] :
        /\ \A other \in todo[p] \ {n} : Before(n, other)
        /\ file' = [file EXCEPT ![p] = n] /\ src' = [src EXCEPT ![p] = staging[n]]
        /\ parts' = [parts EXCEPT ![p] = <<>>] /\ linked' = [linked EXCEPT ![p] = TRUE]
        /\ bundles' = [bundles EXCEPT ![commit[p]].payload[first(n)] = <<>>]
        /\ Goto(p, "fill")
  BY DEF OpenFile, Created
<1>4. PICK o : o = first(n)
  OBVIOUS
<1>5. PICK count : count = PartCount(Len(Repo[commit[p]][n]), opt[p].chunk)
  OBVIOUS
<1>6. staging[n] = Repo[commit[p]][n]
  <2>1. n \in DOMAIN Repo[commit[p]]
    BY <1>1, <1>2, <1>5, ClearOf
  <2> QED BY <1>1, <2>1 DEF StagedInv, Assembling
<1>7. /\ o \in Names /\ commit[p] \in Commits
      /\ \A k \in DOMAIN entries[p] : o \notin PathsOf(entries[p][k])
      /\ o = IF count > 0 THEN PartName(n, 0) ELSE n
      /\ count > 0 => opt[p].chunk \in Nat
  <2>1. o = IF count > 0 THEN PartName(n, 0) ELSE n
    BY <1>4, <1>5, <1>6
  <2>2. /\ commit[p] \in Commits /\ n \in Names /\ count \in Nat
        /\ count > 0 => opt[p].chunk \in Nat \ {0} /\ \A k \in 0 .. count : PartName(n, k) \in Names
        /\ \A k \in DOMAIN entries[p] :
             /\ count = 0 => n \notin PathsOf(entries[p][k])
             /\ count > 0 => \A j \in 0 .. count : PartName(n, j) \notin PathsOf(entries[p][k])
    BY <1>1, <1>2, <1>5, ClearOf
  <2>3. CASE count > 0
    <3>1. 0 \in 0 .. count
      BY <2>2, <2>3
    <3> QED BY <2>1, <2>2, <2>3, <3>1
  <2>4. CASE ~ (count > 0)
    BY <2>1, <2>2, <2>4
  <2> QED BY <2>3, <2>4
<1> HIDE DEF first
<1>8. /\ pc'[p] = "fill" /\ EndsWell(p)' /\ linked'[p] /\ parts'[p] = <<>>
      /\ file'[p] = n /\ src'[p] = Repo[commit[p]][n]
  BY <1>3, <1>6, GoStep DEF TypeInv, LoopType
<1>9. (Chunked(p)' <=> count > 0) /\ Object(p)' = o
  <2>1. Chunked(p)' <=> count > 0
    BY <1>1, <1>5, <1>8 DEF Chunked
  <2>2. Len(<<>>) = 0
    OBVIOUS
  <2> QED BY <1>7, <1>8, <2>1, <2>2 DEF Object
<1>10. ShapeInv(p)'
  <2>1. /\ DOMAIN Repo[commit[p]] # {} /\ Layout(commit[p], opt[p].chunk)
        /\ \A k \in DOMAIN entries[p] :
             /\ LaidOut(entries[p][k], opt[p].chunk)
             /\ \A m \in todo[p] : Before(entries[p][k].path, m)
             /\ \A l \in DOMAIN entries[p] : entries[p][k].path = entries[p][l].path => k = l
    BY <1>1, <1>2, AtWork DEF ShapeInv, Listed
  <2>2. DOMAIN parts'[p] = {}
    BY <1>8
  <2>3. \A m \in todo[p] \ {file'[p]} : Before(file'[p], m)
    BY <1>3, <1>8
  <2> QED BY <1>1, <1>8, <2>1, <2>2, <2>3 DEF ShapeInv, Listed
<1>11. /\ bundles'[commit[p]].payload[o] = <<>>
       /\ \A m \in Names \ {o} : bundles'[commit[p]].payload[m] = bundles[commit[p]].payload[m]
       /\ \A e \in Commits \ {commit[p]} : bundles'[e] = bundles[e]
  <2>1. Puts(bundles, bundles', commit[p], o, <<>>) /\ bundles \in [Commits -> BundleType]
    BY <1>3, <1>4 DEF Puts, TypeInv, MediaType
  <2>2. PICK b, d, c : b = bundles /\ d = bundles' /\ c = commit[p]
    OBVIOUS
  <2>3. Puts(b, d, c, o, <<>>) /\ b \in [Commits -> BundleType] /\ c \in Commits
    BY <1>7, <2>1, <2>2
  <2>4. /\ d[c].payload[o] = <<>>
        /\ \A m \in Names \ {o} : d[c].payload[m] = b[c].payload[m]
        /\ \A e \in Commits \ {c} : d[e] = b[e]
    <3>1. o \in Names
      BY <1>7
    <3> QED BY <2>3, <3>1, Put
  <2> QED BY <2>2, <2>4
<1>12. undisturbed[p] => RoomInv(p)'
  <2>1. FreeDest' >= FreeDest
    BY <1>1, <1>11, FreeKept
  <2>2. Written(p)' = 0
    BY <1>1, <1>7, <1>8, <1>9 DEF Written
  <2>3. Size(commit[p], todo[p])' = Size(commit[p], todo[p])
    BY <1>1 DEF Size
  <2>4. undisturbed[p] => FreeDest >= Size(commit[p], todo[p])
    BY <1>1 DEF Works, RoomInv, Assembling
  <2>5. FreeDest \in Int /\ FreeDest' \in Int /\ Size(commit[p], todo[p]) \in Int
    <3>1. FreeDest' \in Int
      <4>1. (FreeDest \in Int)'
        BY FreeType, PTL
      <4> QED BY <4>1
    <3>2. todo[p] \in SUBSET DOMAIN Repo[commit[p]]
      BY <1>1 DEF EntriesInv, Assembling
    <3> QED BY <1>7, <3>1, <3>2, FreeType, SizeOf
  <2>6. undisturbed[p] => FreeDest' + Written(p)' >= Size(commit[p], todo[p])'
    BY <2>1, <2>2, <2>3, <2>4, <2>5
  <2> QED BY <1>8, <2>6 DEF RoomInv, Assembling
<1>13. undisturbed[p] => WrittenInv(p)'
  <2> SUFFICES ASSUME undisturbed[p] PROVE WrittenInv(p)'
    OBVIOUS
  <2>1. /\ \A k \in DOMAIN entries[p] : Stands(entries[p][k], bundles[commit[p]].payload)
        /\ OnlyAt(bundles[commit[p]].payload, PathsAll(entries[p]))
    BY <1>1 DEF Works, WrittenInv, Listed
  <2>2. ASSUME NEW k \in DOMAIN entries[p]
        PROVE  Stands(entries[p][k], bundles'[commit[p]].payload)
    <3>1. ASSUME NEW j \in DOMAIN Sources(entries[p][k])
          PROVE  Sources(entries[p][k])[j].path \in Names \ {o}
      <4>1. Sources(entries[p][k])[j].path \in Names
        BY SourceNamed DEF TypeInv, LoopType
      <4> QED BY <1>7, <4>1 DEF PathsOf
    <3> QED BY <1>11, <2>1, <3>1 DEF Stands
  <2>3. OnlyAt(bundles'[commit[p]].payload, PathsAll(entries[p]) \cup {o})
    BY <1>11, <2>1 DEF OnlyAt
  <2>4. Opened(p)' = {o}
    BY <1>8, <1>9 DEF Opened, Paths
  <2>5. bundles'[commit[p]].payload[Object(p)'] = <<>>
    BY <1>9, <1>11
  <2>6. PathsAll(entries[p])' = PathsAll(entries[p])
    BY <1>1 DEF PathsAll, PathsOf
  <2>7. OnlyAt(bundles'[commit[p]].payload, PathsAll(entries[p])' \cup Opened(p)')
    BY <2>3, <2>4, <2>6
  <2> QED BY <1>1, <1>8, <2>2, <2>5, <2>7 DEF WrittenInv, Listed, Stands, OnlyAt
<1>14. PapersInv(p)'
  BY <1>8 DEF PapersInv, Papers
<1> QED BY <1>1, <1>8, <1>10, <1>12, <1>13, <1>14 DEF Works

\* A file is closed as it was planned, all of it written.
LEMMA FinishWorks ==
    ASSUME Basis, NEW p \in Procs, Works(p), pc[p] = "fill",
           UNCHANGED <<staging, opt, commit, undisturbed>>,
           NEW list \in Seq(PartType), Finish(p, list),
           NEW e, e = [path |-> file[p], sha |-> src[p], parts |-> list],
           LaidOut(e, opt[p].chunk),
           undisturbed[p] =>
             /\ FreeDest' >= Size(commit[p], todo[p] \ {file[p]})
             /\ \A k \in DOMAIN entries[p] : Stands(entries[p][k], bundles'[commit[p]].payload)
             /\ Stands(e, bundles'[commit[p]].payload)
             /\ OnlyAt(bundles'[commit[p]].payload, PathsAll(entries[p]) \cup PathsOf(e))
    PROVE  Works(p)' /\ EndsWell(p)'
<1> USE DEF Basis
<1>1. ShapeInv(p)
  BY DEF Works
<1>2. /\ entries'[p] = Append(entries[p], e) /\ todo'[p] = todo[p] \ {file[p]}
      /\ pc'[p] = "write" /\ EndsWell(p)'
  BY GoStep DEF Finish, TypeInv, LoopType
<1>3. e \in EntryType /\ entries[p] \in Seq(EntryType)
  <2>1. PICK c \in Commits : file[p] \in DOMAIN Repo[c]
    BY DEF TypeInv, StagedFromHub, FromHub
  <2>2. file[p] \in Names /\ src[p] \in Contents
    BY <2>1, Constants DEF TypeInv, LoopType
  <2> QED BY <2>2 DEF EntryType, TypeInv, LoopType
<1>4. e.path = file[p]
  OBVIOUS
<1>5. PICK n : n = Len(entries[p])
  OBVIOUS
<1>6. /\ n \in Nat /\ DOMAIN entries'[p] = 1 .. n + 1 /\ DOMAIN entries[p] = 1 .. n
      /\ entries'[p][n + 1] = e
      /\ \A k \in 1 .. n : entries'[p][k] = entries[p][k]
  BY <1>2, <1>3, <1>5, AppendProperties
<1>7. /\ DOMAIN Repo[commit[p]] # {} /\ Layout(commit[p], opt[p].chunk)
      /\ \A k \in 1 .. n :
           /\ LaidOut(entries[p][k], opt[p].chunk)
           /\ \A m \in todo[p] : Before(entries[p][k].path, m)
           /\ \A l \in 1 .. n : entries[p][k].path = entries[p][l].path => k = l
      /\ \A m \in todo[p] \ {file[p]} : Before(file[p], m)
  BY <1>1, <1>6, AtWork DEF ShapeInv, Listed
<1>8. file[p] \in todo[p]
  BY DEF EntriesInv
<1>9. \A k \in 1 .. n : entries[p][k].path # file[p]
  BY <1>7, <1>8, BeforeStrict
<1>10. ASSUME NEW k \in 1 .. n + 1
       PROVE  /\ LaidOut(entries'[p][k], opt[p].chunk)
              /\ \A m \in todo'[p] : Before(entries'[p][k].path, m)
              /\ \A l \in 1 .. n + 1 : entries'[p][k].path = entries'[p][l].path => k = l
  <2>1. CASE k = n + 1
    <3>1. entries'[p][k] = e
      BY <1>6, <2>1
    <3>2. ASSUME NEW l \in 1 .. n + 1, e.path = entries'[p][l].path PROVE k = l
      <4> SUFFICES ASSUME l # k PROVE FALSE
        OBVIOUS
      <4>1. l \in 1 .. n
        BY <1>6, <2>1
      <4> QED BY <1>4, <1>6, <1>9, <3>2, <4>1
    <3> QED BY <1>2, <1>4, <1>7, <3>1, <3>2
  <2>2. CASE k \in 1 .. n
    <3>1. entries'[p][k] = entries[p][k]
      BY <1>6, <2>2
    <3>2. ASSUME NEW l \in 1 .. n + 1, entries[p][k].path = entries'[p][l].path PROVE k = l
      <4>1. CASE l = n + 1
        BY <1>4, <1>6, <1>9, <2>2, <3>2, <4>1
      <4>2. CASE l \in 1 .. n
        BY <1>6, <1>7, <2>2, <3>2, <4>2
      <4> QED BY <1>6, <4>1, <4>2
    <3> QED BY <1>2, <1>7, <2>2, <3>1, <3>2
  <2> QED BY <1>6, <2>1, <2>2
<1>11. ShapeInv(p)'
  BY <1>2, <1>6, <1>7, <1>10 DEF ShapeInv, Listed
<1>12. undisturbed[p] => RoomInv(p)'
  BY <1>2 DEF RoomInv, Assembling, Size
<1>13. undisturbed[p] => WrittenInv(p)'
  <2> SUFFICES ASSUME undisturbed[p] PROVE WrittenInv(p)'
    OBVIOUS
  <2> DEFINE d == bundles'[commit[p]].payload
  <2>1. \A k \in 1 .. n + 1 : Stands(entries'[p][k], d)
    <3>1. Stands(e, d) /\ \A k \in 1 .. n : Stands(entries[p][k], d)
      BY <1>6
    <3> HIDE DEF d
    <3> QED BY <1>6, <3>1
  <2>2. PathsAll(entries'[p]) = PathsAll(entries[p]) \cup PathsOf(e)
    <3>1. n + 1 \in 1 .. n + 1 /\ 1 .. n \subseteq 1 .. n + 1
          /\ \A k \in 1 .. n + 1 : k \in 1 .. n \/ k = n + 1
      BY <1>6
    <3> QED BY <1>6, <3>1 DEF PathsAll
  <2>3. OnlyAt(d, PathsAll(entries'[p]))
    BY <2>2
  <2> HIDE DEF d
  <2>5. PathsAll(entries[p])' = PathsAll(entries'[p])
    BY DEF PathsAll, PathsOf
  <2>6. d = bundles[commit[p]].payload' /\ DOMAIN entries'[p] = 1 .. n + 1
    BY <1>6 DEF d
  <2>7. (\A k \in DOMAIN entries[p] : Stands(entries[p][k], bundles[commit[p]].payload))'
    BY <2>1, <2>6 DEF Stands
  <2>8. OnlyAt(bundles[commit[p]].payload, PathsAll(entries[p]))'
    BY <2>3, <2>5, <2>6 DEF OnlyAt
  <2> QED BY <1>2, <2>7, <2>8 DEF WrittenInv, Listed
<1>14. PapersInv(p)'
  BY <1>2 DEF PapersInv, Papers
<1> QED BY <1>2, <1>11, <1>12, <1>13, <1>14 DEF Works

\* What a run has done of the file it has open.
LEMMA AtFill ==
    ASSUME Basis, NEW p \in Procs, ShapeInv(p), pc[p] = "fill",
           NEW count, count = PartCount(Len(src[p]), opt[p].chunk)
    PROVE  /\ commit[p] \in Commits /\ file[p] \in Names /\ file[p] \in todo[p]
           /\ src[p] \in Contents /\ Len(src[p]) \in Nat /\ parts[p] \in Seq(PartType)
           /\ count \in Nat /\ count <= MAX_PARTS /\ Len(parts[p]) \in Nat
           /\ Chunked(p) <=> count > 0
           /\ Size(commit[p], todo[p]) = Size(commit[p], todo[p] \ {file[p]}) + Len(src[p])
           /\ Size(commit[p], todo[p] \ {file[p]}) \in Nat
           /\ Chunked(p) => /\ opt[p].chunk \in Nat \ {0}
                            /\ Len(parts[p]) <= count
                            /\ \A k \in 0 .. count : PartName(file[p], k) \in Names
           /\ ~ Chunked(p) => \A k \in DOMAIN entries[p] : file[p] \notin PathsOf(entries[p][k])
           /\ Chunked(p) => \A k \in DOMAIN entries[p] : \A j \in 0 .. count :
                              PartName(file[p], j) \notin PathsOf(entries[p][k])
<1> USE DEF Basis
<1>1. /\ file[p] \in todo[p] /\ src[p] = Repo[commit[p]][file[p]]
      /\ todo[p] \in SUBSET DOMAIN Repo[commit[p]]
  BY DEF EntriesInv, Assembling
<1>2. PICK n \in todo[p] : n = file[p]
  BY <1>1
<1>3. count = PartCount(Len(Repo[commit[p]][n]), opt[p].chunk)
  BY <1>1, <1>2
<1>4. /\ commit[p] \in Commits /\ n \in Names
      /\ Repo[commit[p]][n] \in Contents
      /\ count \in Nat /\ count <= MAX_PARTS
      /\ count > 0 => opt[p].chunk \in Nat \ {0} /\ \A k \in 0 .. count : PartName(n, k) \in Names
      /\ \A k \in DOMAIN entries[p] :
           /\ count = 0 => n \notin PathsOf(entries[p][k])
           /\ count > 0 => \A j \in 0 .. count : PartName(n, j) \notin PathsOf(entries[p][k])
  BY <1>3, ClearOf
<1>5. src[p] \in Contents /\ Len(src[p]) \in Nat /\ parts[p] \in Seq(PartType)
      /\ Len(parts[p]) \in Nat
  BY <1>1, <1>2, <1>4 DEF TypeInv, LoopType, Contents
<1>6. Chunked(p) <=> count > 0
  BY DEF Chunked
<1>7. /\ Size(commit[p], todo[p]) = Size(commit[p], todo[p] \ {file[p]}) + Len(src[p])
      /\ Size(commit[p], todo[p] \ {file[p]}) \in Nat
  <2>1. PICK c \in Commits : c = commit[p]
    BY <1>4
  <2>5. PICK S \in SUBSET DOMAIN Repo[c] : S = todo[p]
    BY <1>1, <2>1
  <2>2. S \ {n} \in SUBSET DOMAIN Repo[c] /\ n \in S
    BY <2>5
  <2>3. Size(c, S \ {n}) \in Nat
    BY <2>2, SizeOf
  <2>4. Size(c, S) = Size(c, S \ {n}) + Len(Repo[c][n])
    BY <2>2, SizeOf
  <2> QED BY <1>1, <1>2, <2>1, <2>3, <2>4, <2>5
<1>8. Chunked(p) => Len(parts[p]) <= count
  <2> SUFFICES ASSUME Chunked(p) PROVE Len(parts[p]) <= count
    OBVIOUS
  <2>1. /\ opt[p].chunk \in Nat \ {0} /\ Len(parts[p]) * opt[p].chunk <= Len(src[p])
        /\ count = (Len(src[p]) + opt[p].chunk - 1) \div opt[p].chunk
    BY OpenSource, ChunkedFile
  <2> QED BY <1>5, <2>1, CeilingBound
<1> QED BY <1>1, <1>2, <1>4, <1>5, <1>6, <1>7, <1>8

\* The payload e is d but for the names in X.
But(X, d, e) == \A m \in Names \ X : e[m] = d[m]

\* What is written elsewhere leaves an entry as it is.
LEMMA StandsKept ==
    ASSUME NEW list \in Seq(EntryType), NEW k \in DOMAIN list, NEW d, NEW e, NEW X,
           Stands(list[k], d), X \cap PathsOf(list[k]) = {}, But(X, d, e)
    PROVE  Stands(list[k], e)
<1>1. ASSUME NEW j \in DOMAIN Sources(list[k])
      PROVE  Sources(list[k])[j].path \in Names \ X
  BY SourceNamed DEF PathsOf
<1> QED BY <1>1 DEF Stands, But

LEMMA DropTrailingWorks ==
    ASSUME Basis, NEW p \in Procs, Works(p), DropTrailing(p), TypeInv'
    PROVE  Works(p)' /\ EndsWell(p)'
<1> USE DEF Basis
<1>1. /\ pc[p] = "fill" /\ Chunked(p) /\ Segment(p) = <<>>
      /\ UNCHANGED <<staging, opt, commit, undisturbed>>
  BY DEF DropTrailing, settled
<1>2. ShapeInv(p)
  BY DEF Works
<1>3. PICK count : count = PartCount(Len(src[p]), opt[p].chunk)
  OBVIOUS
<1>4. PICK k, s, L, c : k = Len(parts[p]) /\ s = opt[p].chunk /\ L = Len(src[p]) /\ c = commit[p]
  OBVIOUS
<1>5. /\ c \in Commits /\ file[p] \in Names /\ file[p] \in todo[p]
      /\ L \in Nat /\ parts[p] \in Seq(PartType) /\ entries[p] \in Seq(EntryType)
      /\ count \in Nat /\ count <= MAX_PARTS /\ k \in Nat /\ s \in Nat \ {0} /\ k <= count
      /\ Size(c, todo[p]) = Size(c, todo[p] \ {file[p]}) + L
      /\ Size(c, todo[p] \ {file[p]}) \in Nat
      /\ \A j \in 0 .. count : PartName(file[p], j) \in Names
      /\ \A l \in DOMAIN entries[p] : \A j \in 0 .. count :
           PartName(file[p], j) \notin PathsOf(entries[p][l])
  BY <1>1, <1>2, <1>3, <1>4, AtFill DEF TypeInv, LoopType
<1>6. k = count /\ k # 0 /\ L = k * s
  <2>1. L = k * s
    BY <1>1, <1>4, OpenSource, ChunkNone, ZenonT(60)
  <2>2. L > s
    <3>1. count > 0
      BY <1>1, <1>3 DEF Chunked
    <3> QED BY <1>3, <1>4, <1>5, <3>1, CountType
  <2>3. k # 0
    BY <1>5, <2>1, <2>2
  <2>4. k - 1 \in Nat /\ (k - 1) * s \in Nat /\ k * s = (k - 1) * s + s
    <3>1. k - 1 \in Nat /\ (k - 1) + 1 = k
      BY <1>5, <2>3
    <3> QED BY <1>5, <3>1, ProductNext
  <2>5. (k - 1) * s < L /\ L <= k * s
    BY <1>5, <2>1, <2>4
  <2>6. (L + s - 1) \div s = k
    BY <1>5, <2>3, <2>5, Ceiling
  <2>7. count = (L + s - 1) \div s
    BY <1>1, <1>3, <1>4, ChunkedFile
  <2> QED BY <2>1, <2>3, <2>6, <2>7
<1>7. PICK o : o = PartName(file[p], k)
  OBVIOUS
<1>8. Object(p) = o /\ o \in Names /\ Opened(p) = {o} \cup Paths(parts[p])
      /\ \A l \in DOMAIN entries[p] : o \notin PathsOf(entries[p][l])
  <2>1. k \in 0 .. count
    BY <1>5
  <2> QED BY <1>1, <1>4, <1>5, <1>7, <2>1 DEF Object, Opened
<1>9. \A j \in DOMAIN parts[p] : parts[p][j].path = PartName(file[p], j - 1)
                                  /\ parts[p][j].path # o /\ parts[p][j].path \in Names
  <2> SUFFICES ASSUME NEW j \in DOMAIN parts[p]
               PROVE  parts[p][j].path = PartName(file[p], j - 1)
                      /\ parts[p][j].path # o /\ parts[p][j].path \in Names
    OBVIOUS
  <2>1. j \in 1 .. k /\ parts[p][j] \in PartType
    BY <1>4, <1>5
  <2>2. parts[p][j].path = PartName(file[p], j - 1)
    BY <1>1, <1>2 DEF ShapeInv
  <2>3. j - 1 \in 0 .. MAX_PARTS /\ k \in 0 .. MAX_PARTS /\ j - 1 # k
    BY <1>5, <2>1, ChunkAssumption
  <2>4. PartName(file[p], j - 1) # PartName(file[p], k)
    BY <1>5, <2>3, SuffixAssumption
  <2> QED BY <1>7, <2>1, <2>2, <2>4 DEF PartType
<1>10. undisturbed[p] =>
         /\ bundles[c].payload[o] = <<>>
         /\ \A l \in DOMAIN entries[p] : Stands(entries[p][l], bundles[c].payload)
         /\ OnlyAt(bundles[c].payload, PathsAll(entries[p]) \cup ({o} \cup Paths(parts[p])))
         /\ \A j \in DOMAIN parts[p] : bundles[c].payload[parts[p][j].path] = parts[p][j].sha
         /\ FreeDest + k * s >= Size(c, todo[p])
  BY <1>1, <1>4, <1>8 DEF Works, WrittenInv, Listed, RoomInv, Written
<1>11. CASE bundles[c].payload[o] = Missing /\ Exit(p, LocalFsError, "re-run")
  <2>1. <<>> \in Contents
    BY DEF Contents
  <2>2. ~ undisturbed[p]
    BY <1>10, <1>11, <2>1, NothingAssumption
  <2> QED BY <1>1, <1>11, <2>2, EndStep DEF EndsWell
<1>12. CASE bundles' = WithoutTrailing(p) /\ Finish(p, parts[p])
  <2>1. PICK e : e = [path |-> file[p], sha |-> src[p], parts |-> parts[p]]
    OBVIOUS
  <2>2. LaidOut(e, s)
    BY <1>3, <1>4, <1>5, <1>6, <1>9, <2>1 DEF LaidOut
  <2>3. /\ bundles'[c].payload[o] = Missing
        /\ \A m \in Names \ {o} : bundles'[c].payload[m] = bundles[c].payload[m]
        /\ \A x \in Commits \ {c} : bundles'[x] = bundles[x]
    <3>1. PICK b, d : b = bundles /\ d = bundles'
      OBVIOUS
    <3>2. Puts(b, d, c, o, Missing) /\ b \in [Commits -> BundleType]
      BY <1>4, <1>8, <1>12, <3>1 DEF WithoutTrailing, Puts, TypeInv, MediaType
    <3>3. /\ d[c].payload[o] = Missing
          /\ \A m \in Names \ {o} : d[c].payload[m] = b[c].payload[m]
          /\ \A x \in Commits \ {c} : d[x] = b[x]
      BY <1>5, <1>8, <3>2, Put
    <3> QED BY <3>1, <3>3
  <2>4. Sources(e) = parts[p]
    <3>1. parts[p] # <<>>
      BY <1>4, <1>6
    <3> QED BY <2>1, <3>1 DEF Sources
  <2>5. PathsOf(e) = Paths(parts[p])
    BY <2>4 DEF PathsOf, Paths
  <2>6. undisturbed[p] =>
          /\ FreeDest' >= Size(c, todo[p] \ {file[p]})
          /\ \A l \in DOMAIN entries[p] : Stands(entries[p][l], bundles'[c].payload)
          /\ Stands(e, bundles'[c].payload)
          /\ OnlyAt(bundles'[c].payload, PathsAll(entries[p]) \cup PathsOf(e))
    <3> SUFFICES ASSUME undisturbed[p]
                 PROVE  /\ FreeDest' >= Size(c, todo[p] \ {file[p]})
                        /\ \A l \in DOMAIN entries[p] : Stands(entries[p][l], bundles'[c].payload)
                        /\ Stands(e, bundles'[c].payload)
                        /\ OnlyAt(bundles'[c].payload, PathsAll(entries[p]) \cup PathsOf(e))
      OBVIOUS
    <3>1. FreeDest' >= Size(c, todo[p] \ {file[p]})
      <4>1. FreeDest' >= FreeDest
        BY <1>1, <2>3, FreeKept
      <4>2. (FreeDest \in Int)'
        BY FreeType, PTL
      <4>3. FreeDest' \in Int /\ FreeDest \in Int
        BY <4>2, FreeType
      <4>4. FreeDest + L >= Size(c, todo[p] \ {file[p]}) + L
        BY <1>5, <1>6, <1>10
      <4> QED BY <1>5, <4>1, <4>3, <4>4
    <3>2. ASSUME NEW l \in DOMAIN entries[p]
          PROVE  Stands(entries[p][l], bundles'[c].payload)
      <4>0. PICK list \in Seq(EntryType) : list = entries[p]
        BY <1>5
      <4>1. PICK x, y, X : /\ list = entries[p] /\ X = {o}
                           /\ x = bundles[c].payload /\ y = bundles'[c].payload
        BY <4>0
      <4>2. /\ Stands(list[l], x) /\ l \in DOMAIN list /\ X \cap PathsOf(list[l]) = {}
            /\ But(X, x, y) /\ list \in Seq(EntryType)
        BY <1>8, <1>10, <2>3, <4>1 DEF But
      <4>3. Stands(list[l], y)
        BY <4>2, StandsKept
      <4> QED BY <4>1, <4>3
    <3>3. Stands(e, bundles'[c].payload)
      BY <1>9, <1>10, <2>3, <2>4 DEF Stands
    <3>4. OnlyAt(bundles'[c].payload, PathsAll(entries[p]) \cup PathsOf(e))
      BY <1>10, <2>3, <2>5 DEF OnlyAt
    <3> QED BY <3>1, <3>2, <3>3, <3>4
  <2> QED BY <1>1, <1>4, <1>5, <1>12, <2>1, <2>2, <2>6, FinishWorks
<1> QED BY <1>1, <1>4, <1>8, <1>11, <1>12 DEF DropTrailing

\* How far the next blocks take the file.
LEMMA FillBlocks ==
    ASSUME Basis, NEW p \in Procs, ShapeInv(p), pc[p] = "fill", Chunked(p) => Segment(p) # <<>>,
           NEW seg, seg = Segment(p), NEW k, k = Len(parts[p]), NEW s, s = opt[p].chunk,
           NEW L, L = Len(src[p]), NEW count, count = PartCount(L, s)
    PROVE  /\ seg \in Contents /\ Len(seg) \in Nat /\ Written(p) \in Nat /\ L \in Nat
           /\ Written(p) + Len(seg) <= L
           /\ Chunked(p) /\ Len(seg) = s =>
                Written(p) + Len(seg) = (k + 1) * s /\ k + 1 <= count
           /\ ~ (Chunked(p) /\ Len(seg) = s) => Written(p) + Len(seg) = L
           /\ Chunked(p) /\ Len(seg) # s => count = k + 1
<1> USE DEF Basis
<1>1. seg \in Contents /\ Len(seg) \in Nat
  BY SegmentType DEF Contents
<1>2. CASE ~ Chunked(p)
  <2>1. seg = src[p] /\ Written(p) = 0
    BY <1>2 DEF Segment, Written
  <2> QED BY <1>1, <1>2, <2>1
<1>3. CASE Chunked(p)
  <2>1. PICK S : S = src[p]
    OBVIOUS
  <2>2. /\ S \in Contents /\ k \in Nat /\ s \in Nat \ {0} /\ k * s <= Len(S) /\ L = Len(S)
        /\ seg = Chunk(S, k, s) /\ Written(p) = k * s /\ seg # <<>>
        /\ count = (L + s - 1) \div s
    BY <1>3, <2>1, OpenSource, ChunkedFile DEF Written
  <2>3. /\ Len(S) \in Nat /\ k * s \in Nat /\ (k + 1) * s = k * s + s
        /\ ChunkEnd(S, k, s) = IF k * s + s <= Len(S) THEN k * s + s ELSE Len(S)
        /\ Len(Chunk(S, k, s)) = ChunkEnd(S, k, s) - k * s
    BY <2>2, ChunkLength, ZenonT(60)
  <2>4. ChunkEnd(S, k, s) \in Nat /\ ChunkEnd(S, k, s) <= L
        /\ k * s + Len(seg) = ChunkEnd(S, k, s)
    <3>1. PICK m, q : m = k * s /\ q = ChunkEnd(S, k, s)
      OBVIOUS
    <3>2. /\ m \in Nat /\ s \in Nat /\ L \in Nat /\ m <= L /\ Len(seg) = q - m
          /\ q = IF m + s <= L THEN m + s ELSE L
      BY <2>2, <2>3, <3>1
    <3>3. q \in Nat /\ q <= L /\ m + Len(seg) = q
      BY <3>2
    <3> QED BY <3>1, <3>3
  <2>5. ASSUME Len(seg) = s PROVE k * s + Len(seg) = (k + 1) * s /\ k + 1 <= count
    <3>1. (k + 1) * s <= L /\ ChunkEnd(S, k, s) = (k + 1) * s
      BY <2>2, <2>5, ChunkFull
    <3>2. k + 1 \in Nat /\ L \in Nat
      BY <2>2, <2>3
    <3>3. k + 1 <= (L + s - 1) \div s
      BY <2>2, <3>1, <3>2, CeilingBound
    <3> QED BY <2>2, <2>4, <3>1, <3>3
  <2>6. ASSUME Len(seg) # s PROVE k * s + Len(seg) = L /\ count = k + 1
    <3>1. ChunkEnd(S, k, s) = L
      BY <2>2, <2>6, ChunkShort
    <3>2. Len(seg) # 0
      <4>1. seg \in Seq(Blocks)
        BY <1>1 DEF Contents
      <4> QED BY <2>2, <4>1
    <3>3. L <= (k + 1) * s /\ k * s < L
      <4>1. PICK m, q : m = k * s /\ q = ChunkEnd(S, k, s)
        OBVIOUS
      <4>2. /\ m \in Nat /\ s \in Nat /\ L \in Nat /\ m + Len(seg) = L /\ Len(seg) \in Nat
            /\ Len(seg) # 0 /\ L = IF m + s <= L THEN m + s ELSE L
            /\ (k + 1) * s = m + s
        BY <1>1, <2>2, <2>3, <2>4, <3>1, <3>2, <4>1
      <4>3. m < L
        BY <4>2
      <4>4. L <= m + s
        BY <4>2
      <4> QED BY <4>1, <4>2, <4>3, <4>4
    <3>4. PICK n \in Nat \ {0} : n = k + 1 /\ n - 1 = k
      BY <2>2
    <3>5. L \in Nat /\ L <= n * s /\ (n - 1) * s < L
      BY <2>2, <2>3, <3>3, <3>4
    <3>6. (L + s - 1) \div s = n
      BY <2>2, <3>5, Ceiling
    <3> QED BY <2>2, <2>4, <3>1, <3>4, <3>6
  <2> QED BY <1>1, <1>3, <2>2, <2>3, <2>4, <2>5, <2>6
<1> QED BY <1>2, <1>3

\* The free space that was found is enough for them.
LEMMA FillRoom ==
    ASSUME Basis, NEW p \in Procs, ShapeInv(p), pc[p] = "fill", Chunked(p) => Segment(p) # <<>>,
           RoomInv(p), NEW seg, seg = Segment(p)
    PROVE  Len(seg) <= FreeDest
<1>1. PICK k, s, L, count : /\ k = Len(parts[p]) /\ s = opt[p].chunk
                            /\ L = Len(src[p]) /\ count = PartCount(L, s)
  OBVIOUS
<1>2. Len(seg) \in Nat /\ Written(p) \in Nat /\ L \in Nat /\ Written(p) + Len(seg) <= L
  BY <1>1, FillBlocks
<1>3. /\ Size(commit[p], todo[p]) = Size(commit[p], todo[p] \ {file[p]}) + L
      /\ Size(commit[p], todo[p] \ {file[p]}) \in Nat
  BY <1>1, AtFill
<1>4. FreeDest + Written(p) >= Size(commit[p], todo[p])
  BY DEF RoomInv
<1> QED BY <1>2, <1>3, <1>4, FreeType

\* What a run has packed stays when it writes clear of it.
LEMMA EntriesStand ==
    ASSUME NEW list \in Seq(EntryType), NEW d, NEW e, NEW X, But(X, d, e),
           \A l \in DOMAIN list : Stands(list[l], d) /\ X \cap PathsOf(list[l]) = {}
    PROVE  \A l \in DOMAIN list : Stands(list[l], e)
  BY StandsKept

\* An object that is open and empty is filled.
LEMMA FilledPuts ==
    ASSUME TypeInv, NEW p \in Procs, linked[p], NEW seg \in Contents,
           bundles[commit[p]].payload[Object(p)] = <<>>
    PROVE  Puts(bundles, Filled(p, seg), commit[p], Object(p), seg)
<1>1. Over(<<>>, seg) = seg
  <2>1. Len(<<>>) = 0 /\ Len(seg) \in Nat
    BY DEF Contents
  <2> QED BY <2>1 DEF Over
<1> QED BY <1>1 DEF Filled, Puts

LEMMA FillWorks ==
    ASSUME Basis, NEW p \in Procs, Works(p), Fill(p), TypeInv'
    PROVE  Works(p)' /\ EndsWell(p)'
<1> USE DEF Basis
<1>1. /\ pc[p] = "fill" /\ (Chunked(p) => Segment(p) # <<>>)
      /\ UNCHANGED <<staging, opt, commit, undisturbed, file, src>>
  BY DEF Fill, settled
<1>2. ShapeInv(p) /\ linked[p]
  BY <1>1 DEF Works, ShapeInv
<1>3. PICK k, s, L, count, seg, c, f, o, D :
        /\ k = Len(parts[p]) /\ s = opt[p].chunk /\ L = Len(src[p]) /\ count = PartCount(L, s)
        /\ seg = Segment(p) /\ c = commit[p] /\ f = file[p] /\ o = Object(p)
        /\ D = bundles[c].payload
  OBVIOUS
<1>4. /\ c \in Commits /\ f \in Names /\ f \in todo[p]
      /\ L \in Nat /\ parts[p] \in Seq(PartType) /\ entries[p] \in Seq(EntryType)
      /\ count \in Nat /\ count <= MAX_PARTS /\ k \in Nat /\ (Chunked(p) <=> count > 0)
      /\ Size(c, todo[p]) = Size(c, todo[p] \ {f}) + L
      /\ Size(c, todo[p] \ {f}) \in Nat
  BY <1>1, <1>2, <1>3, AtFill DEF TypeInv, LoopType
<1>5. Chunked(p) => /\ s \in Nat \ {0} /\ k <= count
                    /\ \A j \in 0 .. count : PartName(f, j) \in Names
                    /\ \A l \in DOMAIN entries[p] : \A j \in 0 .. count :
                         PartName(f, j) \notin PathsOf(entries[p][l])
  BY <1>1, <1>2, <1>3, AtFill
<1>6. ~ Chunked(p) => parts[p] = <<>> /\ o = f /\ seg = src[p]
                      /\ \A l \in DOMAIN entries[p] : f \notin PathsOf(entries[p][l])
  <2>1. ~ Chunked(p) => parts[p] = <<>>
    BY <1>1, <1>2 DEF ShapeInv
  <2>2. ~ Chunked(p) => o = f /\ seg = src[p]
    BY <1>3 DEF Object, Segment
  <2>3. ~ Chunked(p) => \A l \in DOMAIN entries[p] : f \notin PathsOf(entries[p][l])
    BY <1>1, <1>2, <1>3, AtFill
  <2> QED BY <2>1, <2>2, <2>3
<1>7. /\ seg \in Contents /\ Len(seg) \in Nat /\ Written(p) \in Nat
      /\ Chunked(p) /\ Len(seg) = s => Written(p) + Len(seg) = (k + 1) * s /\ k + 1 <= count
      /\ ~ (Chunked(p) /\ Len(seg) = s) => Written(p) + Len(seg) = L
      /\ Chunked(p) /\ Len(seg) # s => count = k + 1
  BY <1>1, <1>2, <1>3, FillBlocks, SMTT(60)
<1>8. Chunked(p) => o = PartName(f, k)
  BY <1>3 DEF Object
<1>9. o \in Names /\ \A l \in DOMAIN entries[p] : o \notin PathsOf(entries[p][l])
  <2>1. CASE Chunked(p)
    <3>1. k \in 0 .. count
      BY <1>4, <1>5, <2>1
    <3> QED BY <1>5, <1>8, <2>1, <3>1
  <2>2. CASE ~ Chunked(p)
    BY <1>4, <1>6, <2>2
  <2> QED BY <2>1, <2>2
\* No two parts of a file are at one path.
<1>10. ASSUME Chunked(p)
       PROVE  \A j \in 1 .. k : /\ parts[p][j].path = PartName(f, j - 1)
                                /\ parts[p][j].path # o /\ parts[p][j].path \in Names
                                /\ k < count => parts[p][j].path # PartName(f, k + 1)
  <2> SUFFICES ASSUME NEW j \in 1 .. k
               PROVE  /\ parts[p][j].path = PartName(f, j - 1)
                      /\ parts[p][j].path # o /\ parts[p][j].path \in Names
                      /\ k < count => parts[p][j].path # PartName(f, k + 1)
    OBVIOUS
  <2>1. j \in DOMAIN parts[p] /\ parts[p][j] \in PartType
    BY <1>3, <1>4
  <2>2. parts[p][j].path = PartName(f, j - 1)
    BY <1>1, <1>2, <1>3, <2>1 DEF ShapeInv
  <2>3. j - 1 \in 0 .. MAX_PARTS /\ k \in 0 .. MAX_PARTS /\ j - 1 # k
    BY <1>4, <1>5, <1>10, ChunkAssumption
  <2>4. PartName(f, j - 1) # PartName(f, k)
    BY <1>4, <2>3, SuffixAssumption
  <2>5. ASSUME k < count PROVE PartName(f, j - 1) # PartName(f, k + 1)
    <3>1. k + 1 \in 0 .. MAX_PARTS /\ j - 1 # k + 1
      BY <1>4, <2>5, ChunkAssumption
    <3> QED BY <1>4, <2>3, <3>1, SuffixAssumption
  <2> QED BY <1>8, <1>10, <2>1, <2>2, <2>4, <2>5 DEF PartType
<1>11. undisturbed[p] =>
         /\ Puts(bundles, Filled(p, seg), c, o, seg)
         /\ \A l \in DOMAIN entries[p] : Stands(entries[p][l], D)
         /\ OnlyAt(D, PathsAll(entries[p]) \cup ({o} \cup Paths(parts[p])))
         /\ \A j \in DOMAIN parts[p] : D[parts[p][j].path] = parts[p][j].sha
         /\ FreeDest + Written(p) >= Size(c, todo[p])
         /\ Len(seg) <= FreeDest
  <2> SUFFICES ASSUME undisturbed[p]
               PROVE  /\ Puts(bundles, Filled(p, seg), c, o, seg)
                      /\ \A l \in DOMAIN entries[p] : Stands(entries[p][l], D)
                      /\ OnlyAt(D, PathsAll(entries[p]) \cup ({o} \cup Paths(parts[p])))
                      /\ \A j \in DOMAIN parts[p] : D[parts[p][j].path] = parts[p][j].sha
                      /\ FreeDest + Written(p) >= Size(c, todo[p])
                      /\ Len(seg) <= FreeDest
    OBVIOUS
  <2>1. RoomInv(p) /\ WrittenInv(p)
    BY DEF Works
  <2>2. /\ \A l \in DOMAIN entries[p] : Stands(entries[p][l], D)
        /\ OnlyAt(D, PathsAll(entries[p]) \cup ({o} \cup Paths(parts[p])))
        /\ D[o] = <<>>
        /\ \A j \in DOMAIN parts[p] : D[parts[p][j].path] = parts[p][j].sha
    BY <1>1, <1>3, <2>1 DEF WrittenInv, Listed, Opened
  <2>3. Puts(bundles, Filled(p, seg), c, o, seg)
    BY <1>2, <1>3, <1>7, <2>2, FilledPuts
  <2>4. FreeDest + Written(p) >= Size(c, todo[p])
    BY <1>1, <1>3, <2>1 DEF RoomInv
  <2>5. Len(seg) <= FreeDest
    BY <1>1, <1>2, <1>3, <2>1, FillRoom
  <2> QED BY <2>2, <2>3, <2>4, <2>5
<1> DEFINE part == [path |-> o, sha |-> seg]
           list == Append(parts[p], part)
<1>12. /\ part \in PartType /\ list \in Seq(PartType) /\ Len(list) = k + 1
       /\ DOMAIN list = 1 .. k + 1 /\ DOMAIN parts[p] = 1 .. k
       /\ list[k + 1] = part /\ \A j \in 1 .. k : list[j] = parts[p][j]
       /\ part.path = o /\ part.sha = seg
  <2>1. part \in PartType /\ part.path = o /\ part.sha = seg
    BY <1>7, <1>9 DEF PartType
  <2> HIDE DEF part
  <2> QED BY <1>3, <1>4, <2>1, AppendProperties
<1>13. (FreeDest \in Int)' /\ FreeDest \in Int
  BY FreeType, PTL
<1> HIDE DEF part, list
<1>14. CASE Exit(p, LocalFsError, "re-run") /\ ~ (Len(seg) <= FreeDest)
  <2>1. ~ undisturbed[p]
    BY <1>11, <1>14
  <2> QED BY <1>1, <1>14, <2>1, EndStep DEF EndsWell
\* A full part makes way for the next one.
<1>15. CASE /\ Chunked(p) /\ Len(seg) = s
            /\ bundles' = [Filled(p, seg) EXCEPT ![c].payload[PartName(f, k + 1)] = <<>>]
            /\ linked' = [linked EXCEPT ![p] = TRUE]
            /\ parts' = [parts EXCEPT ![p] = list]
            /\ UNCHANGED <<entries, todo, pc, exit, said, told>>
  <2>1. PICK q : q = PartName(f, k + 1)
    OBVIOUS
  <2>2. /\ k + 1 <= count /\ s \in Nat \ {0} /\ k < count
        /\ Written(p) + Len(seg) = (k + 1) * s
    BY <1>4, <1>5, <1>7, <1>15
  <2>3. q \in Names /\ q # o /\ \A l \in DOMAIN entries[p] : q \notin PathsOf(entries[p][l])
    <3>1. k + 1 \in 0 .. count
      BY <1>4, <2>2
    <3>2. q # o
      <4>1. k \in 0 .. MAX_PARTS /\ k + 1 \in 0 .. MAX_PARTS /\ k # k + 1
        BY <1>4, <2>2, ChunkAssumption
      <4> QED BY <1>4, <1>8, <1>15, <2>1, <4>1, SuffixAssumption
    <3> QED BY <1>5, <1>15, <2>1, <3>1, <3>2
  <2>4. linked'[p] /\ parts'[p] = list /\ pc'[p] = "fill" /\ EndsWell(p)'
    BY <1>1, <1>15 DEF TypeInv, LoopType, EndsWell
  <2>5. (Chunked(p)' <=> Chunked(p)) /\ Object(p)' = q
    <3>1. Chunked(p)' <=> Chunked(p)
      BY <1>1 DEF Chunked
    <3> QED BY <1>1, <1>3, <1>12, <1>15, <2>1, <2>4, <3>1 DEF Object
  <2>6. ShapeInv(p)'
    <3>1. \A j \in DOMAIN list : list[j].path = PartName(f, j - 1)
      <4> SUFFICES ASSUME NEW j \in 1 .. k + 1 PROVE list[j].path = PartName(f, j - 1)
        BY <1>12
      <4>1. CASE j \in 1 .. k
        BY <1>10, <1>12, <1>15, <4>1
      <4>2. CASE j = k + 1
        <5>1. j - 1 = k
          BY <1>4, <4>2
        <5> QED BY <1>8, <1>12, <1>15, <4>2, <5>1
      <4> QED BY <1>4, <4>1, <4>2
    <3>2. /\ DOMAIN Repo[c] # {} /\ Layout(c, s)
          /\ \A l \in DOMAIN entries[p] :
               /\ LaidOut(entries[p][l], s)
               /\ \A m \in todo[p] : Before(entries[p][l].path, m)
               /\ \A n \in DOMAIN entries[p] : entries[p][l].path = entries[p][n].path => l = n
          /\ \A m \in todo[p] \ {f} : Before(f, m)
      BY <1>1, <1>2, <1>3, AtWork DEF ShapeInv, Listed
    <3> QED BY <1>1, <1>3, <1>15, <2>4, <2>5, <3>1, <3>2 DEF ShapeInv, Listed
  <2>7. undisturbed[p] =>
          /\ bundles'[c].payload[q] = <<>> /\ bundles'[c].payload[o] = seg
          /\ \A m \in Names \ {o, q} : bundles'[c].payload[m] = D[m]
          /\ \A x \in Commits \ {c} : bundles'[x] = bundles[x]
    <3> SUFFICES ASSUME undisturbed[p]
                 PROVE  /\ bundles'[c].payload[q] = <<>> /\ bundles'[c].payload[o] = seg
                        /\ \A m \in Names \ {o, q} : bundles'[c].payload[m] = D[m]
                        /\ \A x \in Commits \ {c} : bundles'[x] = bundles[x]
      OBVIOUS
    <3>1. PICK b, m, d : b = bundles /\ d = bundles' /\ m = Filled(p, seg)
      OBVIOUS
    <3>2. /\ Puts(b, m, c, o, seg) /\ b \in [Commits -> BundleType]
          /\ m \in [Commits -> BundleType]
      BY <1>7, <1>11, <3>1, FilledType DEF TypeInv, MediaType
    <3>3. Puts(m, d, c, q, <<>>)
      BY <1>15, <2>1, <3>1 DEF Puts
    <3>4. /\ m[c].payload[o] = seg
          /\ \A x \in Names \ {o} : m[c].payload[x] = b[c].payload[x]
          /\ \A e \in Commits \ {c} : m[e] = b[e]
      BY <1>4, <1>9, <3>2, Put
    <3>5. /\ d[c].payload[q] = <<>>
          /\ \A x \in Names \ {q} : d[c].payload[x] = m[c].payload[x]
          /\ \A e \in Commits \ {c} : d[e] = m[e]
      BY <1>4, <2>3, <3>2, <3>3, Put
    <3> QED BY <1>3, <1>9, <2>3, <3>1, <3>4, <3>5
  <2>8. undisturbed[p] => RoomInv(p)'
    <3> SUFFICES ASSUME undisturbed[p] PROVE RoomInv(p)'
      OBVIOUS
    <3>1. FreeDest' + Len(seg) >= FreeDest
      <4>1. \A x \in Commits : \A n \in Names :
              \/ bundles'[x].payload[n] = bundles[x].payload[n]
              \/ bundles'[x].payload[n] \in {Missing, <<>>}
              \/ x = c /\ n = o /\ bundles'[x].payload[n] = seg
        BY <1>3, <2>7
      <4> QED BY <1>1, <1>4, <1>7, <1>9, <4>1, FreeFills
    <3>2. Written(p)' = Written(p) + Len(seg)
      BY <1>1, <1>3, <1>12, <1>15, <2>2, <2>4, <2>5 DEF Written
    <3>3. Size(commit[p], todo[p])' = Size(c, todo[p])
      BY <1>1, <1>3, <1>15 DEF Size
    <3>4. PICK a, b, w : a = Size(c, todo[p]) /\ b = Size(c, todo[p] \ {f}) /\ w = Written(p)
      OBVIOUS
    <3>5. a \in Nat /\ w \in Nat /\ FreeDest + w >= a
      BY <1>4, <1>7, <1>11, <3>4
    <3>6. FreeDest' + (w + Len(seg)) >= a
      BY <1>7, <1>13, <3>1, <3>5
    <3> QED BY <2>4, <3>2, <3>3, <3>4, <3>6 DEF RoomInv, Assembling
  <2>9. undisturbed[p] => WrittenInv(p)'
    <3> SUFFICES ASSUME undisturbed[p] PROVE WrittenInv(p)'
      OBVIOUS
    <3>1. PICK d : d = bundles'[c].payload
      OBVIOUS
    <3>2. \A l \in DOMAIN entries[p] : Stands(entries[p][l], d)
      <4>0. PICK es \in Seq(EntryType) : es = entries[p]
        BY <1>4
      <4>1. PICK X : es = entries[p] /\ X = {o, q}
        BY <4>0
      <4>2. But(X, D, d) /\ es \in Seq(EntryType)
            /\ \A l \in DOMAIN es : Stands(es[l], D) /\ X \cap PathsOf(es[l]) = {}
        BY <1>9, <1>11, <2>3, <2>7, <3>1, <4>1 DEF But
      <4>3. \A l \in DOMAIN es : Stands(es[l], d)
        BY <4>2, EntriesStand
      <4> QED BY <4>1, <4>3
    <3>3. OnlyAt(d, PathsAll(entries[p]) \cup ({q} \cup Paths(list)))
      <4>1. Paths(list) = Paths(parts[p]) \cup {o}
        <5>1. k + 1 \in 1 .. k + 1 /\ 1 .. k \subseteq 1 .. k + 1
              /\ \A j \in 1 .. k + 1 : j \in 1 .. k \/ j = k + 1
          BY <1>4
        <5> QED BY <1>12, <5>1 DEF Paths
      <4> QED BY <1>11, <2>7, <3>1, <4>1 DEF OnlyAt
    <3>4. \A j \in DOMAIN list : d[list[j].path] = list[j].sha
      <4> SUFFICES ASSUME NEW j \in 1 .. k + 1 PROVE d[list[j].path] = list[j].sha
        BY <1>12
      <4>1. CASE j \in 1 .. k
        <5>1. list[j] = parts[p][j] /\ j \in DOMAIN parts[p]
          BY <1>12, <4>1
        <5>2. parts[p][j].path \in Names \ {o, q}
          BY <1>10, <1>15, <2>1, <2>2, <4>1
        <5> QED BY <1>11, <2>7, <3>1, <5>1, <5>2
      <4>2. CASE j = k + 1
        BY <1>12, <2>7, <3>1, <4>2
      <4> QED BY <1>4, <4>1, <4>2
    <3>5. (\A l \in DOMAIN entries[p] : Stands(entries[p][l], bundles[commit[p]].payload))'
      <4>1. d = bundles[commit[p]].payload' /\ entries' = entries
        BY <1>1, <1>3, <1>15, <3>1
      <4> QED BY <3>2, <4>1 DEF Stands
    <3>6. Opened(p)' = {q} \cup Paths(list)
      BY <2>4, <2>5 DEF Opened, Paths
    <3>7. OnlyAt(bundles[commit[p]].payload, PathsAll(entries[p]) \cup Opened(p))'
      <4>1. PathsAll(entries[p])' = PathsAll(entries[p])
        BY <1>15 DEF PathsAll, PathsOf
      <4> QED BY <1>1, <1>3, <3>1, <3>3, <3>6, <4>1 DEF OnlyAt
    <3>8. bundles'[commit'[p]].payload[Object(p)'] = <<>>
      BY <1>1, <1>3, <2>5, <2>7
    <3>9. \A j \in DOMAIN parts'[p] :
            bundles'[commit'[p]].payload[parts'[p][j].path] = parts'[p][j].sha
      BY <1>1, <1>3, <2>4, <3>1, <3>4
    <3> QED BY <2>4, <3>5, <3>7, <3>8, <3>9 DEF WrittenInv, Listed
  <2>10. PapersInv(p)'
    BY <2>4 DEF PapersInv, Papers
  <2> QED BY <1>1, <2>4, <2>6, <2>8, <2>9, <2>10 DEF Works
\* The last object of the file.
<1>16. CASE /\ ~ (Chunked(p) /\ Len(seg) = s) /\ bundles' = Filled(p, seg)
            /\ Finish(p, IF Chunked(p) THEN list ELSE <<>>)
  <2>1. PICK done : done = IF Chunked(p) THEN list ELSE <<>>
    OBVIOUS
  <2>2. PICK e : e = [path |-> f, sha |-> src[p], parts |-> done]
    OBVIOUS
  <2>3. done \in Seq(PartType)
    BY <1>12, <2>1
  <2>4. LaidOut(e, s)
    <3>1. CASE Chunked(p)
      <4>1. ASSUME NEW j \in 1 .. k + 1 PROVE list[j].path = PartName(f, j - 1)
        <5>1. CASE j \in 1 .. k
          BY <1>10, <1>12, <3>1, <5>1
        <5>2. CASE j = k + 1
          <6>1. j - 1 = k
            BY <1>4, <5>2
          <6> QED BY <1>8, <1>12, <3>1, <5>2, <6>1
        <5> QED BY <1>4, <5>1, <5>2
      <4> QED BY <1>3, <1>7, <1>12, <1>16, <2>1, <2>2, <3>1, <4>1 DEF LaidOut
    <3>2. CASE ~ Chunked(p)
      <4>1. count = 0 /\ Len(<<>>) = 0
        BY <1>4, <3>2
      <4>2. e.parts = <<>> /\ e.sha = src[p]
        BY <2>1, <2>2, <3>2
      <4>3. DOMAIN e.parts = {}
        BY <4>2
      <4>5. PartCount(Len(e.sha), s) = 0 /\ Len(e.parts) = 0
        BY <1>3, <4>1, <4>2
      <4> QED BY <4>3, <4>5 DEF LaidOut
    <3> QED BY <3>1, <3>2
  <2>5. undisturbed[p] =>
          /\ bundles'[c].payload[o] = seg
          /\ \A m \in Names \ {o} : bundles'[c].payload[m] = D[m]
          /\ \A x \in Commits \ {c} : bundles'[x] = bundles[x]
    <3> SUFFICES ASSUME undisturbed[p]
                 PROVE  /\ bundles'[c].payload[o] = seg
                        /\ \A m \in Names \ {o} : bundles'[c].payload[m] = D[m]
                        /\ \A x \in Commits \ {c} : bundles'[x] = bundles[x]
      OBVIOUS
    <3>1. PICK b, d : b = bundles /\ d = bundles'
      OBVIOUS
    <3>2. Puts(b, d, c, o, seg) /\ b \in [Commits -> BundleType]
      BY <1>11, <1>16, <3>1 DEF TypeInv, MediaType
    <3>3. /\ d[c].payload[o] = seg
          /\ \A x \in Names \ {o} : d[c].payload[x] = b[c].payload[x]
          /\ \A x \in Commits \ {c} : d[x] = b[x]
      BY <1>4, <1>9, <3>2, Put
    <3> QED BY <1>3, <3>1, <3>3
  <2>6. undisturbed[p] => FreeDest' >= Size(c, todo[p] \ {f})
    <3> SUFFICES ASSUME undisturbed[p] PROVE FreeDest' >= Size(c, todo[p] \ {f})
      OBVIOUS
    <3>1. FreeDest' + Len(seg) >= FreeDest
      <4>1. \A x \in Commits : \A n \in Names :
              \/ bundles'[x].payload[n] = bundles[x].payload[n]
              \/ bundles'[x].payload[n] \in {Missing, <<>>}
              \/ x = c /\ n = o /\ bundles'[x].payload[n] = seg
        BY <1>3, <2>5
      <4> QED BY <1>1, <1>4, <1>7, <1>9, <4>1, FreeFills
    <3>2. PICK a, b, w : a = Size(c, todo[p]) /\ b = Size(c, todo[p] \ {f}) /\ w = Written(p)
      OBVIOUS
    <3>3. a = b + L /\ b \in Nat /\ w \in Nat /\ w + Len(seg) = L /\ FreeDest + w >= a
      BY <1>4, <1>7, <1>11, <1>16, <3>2
    <3>4. FreeDest' >= b
      BY <1>4, <1>7, <1>13, <3>1, <3>3, SMTT(60)
    <3> QED BY <3>2, <3>4
  <2>7. undisturbed[p] => \A l \in DOMAIN entries[p] : Stands(entries[p][l], bundles'[c].payload)
    <3> SUFFICES ASSUME undisturbed[p]
                 PROVE  \A l \in DOMAIN entries[p] : Stands(entries[p][l], bundles'[c].payload)
      OBVIOUS
    <3>0. PICK es \in Seq(EntryType) : es = entries[p]
      BY <1>4
    <3>1. PICK X, d : es = entries[p] /\ X = {o} /\ d = bundles'[c].payload
      BY <3>0
    <3>2. But(X, D, d) /\ es \in Seq(EntryType)
          /\ \A l \in DOMAIN es : Stands(es[l], D) /\ X \cap PathsOf(es[l]) = {}
      BY <1>9, <1>11, <2>5, <3>1 DEF But
    <3>3. \A l \in DOMAIN es : Stands(es[l], d)
      BY <3>2, EntriesStand
    <3> QED BY <3>1, <3>3
  <2>8. undisturbed[p] =>
          /\ Stands(e, bundles'[c].payload)
          /\ OnlyAt(bundles'[c].payload, PathsAll(entries[p]) \cup PathsOf(e))
    <3> SUFFICES ASSUME undisturbed[p]
                 PROVE  /\ Stands(e, bundles'[c].payload)
                        /\ OnlyAt(bundles'[c].payload, PathsAll(entries[p]) \cup PathsOf(e))
      OBVIOUS
    <3>1. PICK d : d = bundles'[c].payload
      OBVIOUS
    <3>2. CASE Chunked(p)
      <4>1. list # <<>>
        BY <1>4, <1>12
      <4>2. Sources(e) = list
        BY <2>1, <2>2, <3>2, <4>1 DEF Sources
      <4>3. PathsOf(e) = Paths(parts[p]) \cup {o}
        <5>1. k + 1 \in 1 .. k + 1 /\ 1 .. k \subseteq 1 .. k + 1
              /\ \A j \in 1 .. k + 1 : j \in 1 .. k \/ j = k + 1
          BY <1>4
        <5> QED BY <1>12, <4>2, <5>1 DEF PathsOf, Paths
      <4>4. ASSUME NEW j \in 1 .. k + 1 PROVE d[list[j].path] = list[j].sha
        <5>1. CASE j \in 1 .. k
          <6>1. list[j] = parts[p][j] /\ j \in DOMAIN parts[p]
            BY <1>12, <5>1
          <6>2. parts[p][j].path \in Names \ {o}
            BY <1>10, <3>2, <5>1
          <6> QED BY <1>11, <2>5, <3>1, <6>1, <6>2
        <5>2. CASE j = k + 1
          BY <1>12, <2>5, <3>1, <5>2
        <5> QED BY <1>4, <5>1, <5>2
      <4>5. Stands(e, d)
        BY <1>12, <4>2, <4>4 DEF Stands
      <4>6. OnlyAt(d, PathsAll(entries[p]) \cup PathsOf(e))
        BY <1>11, <2>5, <3>1, <4>3 DEF OnlyAt
      <4> QED BY <3>1, <4>5, <4>6
    <3>3. CASE ~ Chunked(p)
      <4>1. Sources(e) = << [path |-> f, sha |-> src[p]] >>
        BY <2>1, <2>2, <3>3 DEF Sources
      <4>2. PathsOf(e) = {o} /\ Paths(parts[p]) = {}
        BY <1>6, <3>3, <4>1 DEF PathsOf, Paths
      <4>3. Stands(e, d)
        BY <1>6, <2>5, <3>1, <3>3, <4>1 DEF Stands
      <4>4. OnlyAt(d, PathsAll(entries[p]) \cup PathsOf(e))
        BY <1>11, <2>5, <3>1, <4>2 DEF OnlyAt
      <4> QED BY <3>1, <4>3, <4>4
    <3> QED BY <3>2, <3>3
  <2>9. Finish(p, done)
    BY <1>16, <2>1
  <2> QED BY <1>1, <1>3, <2>2, <2>3, <2>4, <2>6, <2>7, <2>8, <2>9, FinishWorks
<1>17. Fill(p) =>
         \/ /\ ~ (Len(seg) <= FreeDest) /\ Exit(p, LocalFsError, "re-run")
         \/ /\ Chunked(p) /\ Len(seg) = s
            /\ bundles' = [Filled(p, seg) EXCEPT ![c].payload[PartName(f, Len(list))] = <<>>]
            /\ linked' = [linked EXCEPT ![p] = TRUE]
            /\ parts' = [parts EXCEPT ![p] = list]
            /\ UNCHANGED <<entries, todo, pc, exit, said, told>>
         \/ /\ ~ (Chunked(p) /\ Len(seg) = s) /\ bundles' = Filled(p, seg)
            /\ Finish(p, IF Chunked(p) THEN list ELSE <<>>)
  BY <1>3 DEF Fill, list, part
<1> QED BY <1>12, <1>14, <1>15, <1>16, <1>17

-----------------------------------------------------------------------------
(* The papers of the bundle. *)
LEMMA InstallVerifierWorks ==
    ASSUME Basis, NEW p \in Procs, Works(p), InstallVerifier(p), TypeInv'
    PROVE  Works(p)' /\ EndsWell(p)'
<1> USE DEF Basis
<1>1. /\ pc[p] = "write" /\ todo[p] = {} /\ Goto(p, "manifest")
      /\ UNCHANGED <<staging, opt, commit, undisturbed, entries, todo>>
      /\ bundles' = [bundles EXCEPT ![commit[p]].verifier = Verifier]
  BY DEF InstallVerifier, run
<1>2. pc'[p] = "manifest" /\ EndsWell(p)'
  BY <1>1, GoStep
<1>3. commit[p] \in Commits
  BY <1>1, LocatedCommit DEF Located, Running, Writing
<1>4. /\ bundles'[commit[p]].verifier = Verifier
      /\ bundles'[commit[p]].payload = bundles[commit[p]].payload
  <2>1. bundles[commit[p]] \in BundleType
    BY <1>3 DEF TypeInv, MediaType
  <2>2. bundles'[commit[p]] = [bundles[commit[p]] EXCEPT !.verifier = Verifier]
    BY <1>1, <1>3 DEF TypeInv, MediaType
  <2> QED BY <2>1, <2>2 DEF BundleType
<1>5. ShapeInv(p)'
  <2>1. /\ DOMAIN Repo[commit[p]] # {} /\ Layout(commit[p], opt[p].chunk)
        /\ \A k \in DOMAIN entries[p] :
             /\ LaidOut(entries[p][k], opt[p].chunk)
             /\ \A m \in todo[p] : Before(entries[p][k].path, m)
             /\ \A l \in DOMAIN entries[p] : entries[p][k].path = entries[p][l].path => k = l
    BY <1>1, AtWork DEF Works, ShapeInv, Listed
  <2> QED BY <1>1, <1>2, <2>1 DEF ShapeInv, Listed
<1>6. RoomInv(p)'
  BY <1>2 DEF RoomInv, Assembling
<1>7. undisturbed[p] => WrittenInv(p)'
  <2> SUFFICES ASSUME undisturbed[p] PROVE WrittenInv(p)'
    OBVIOUS
  <2>1. /\ \A k \in DOMAIN entries[p] : Stands(entries[p][k], bundles[commit[p]].payload)
        /\ OnlyAt(bundles[commit[p]].payload, PathsAll(entries[p]))
    BY <1>1 DEF Works, WrittenInv, Listed
  <2>2. bundles[commit[p]].payload' = bundles[commit[p]].payload /\ entries' = entries
    BY <1>1, <1>4
  <2>3. (\A k \in DOMAIN entries[p] : Stands(entries[p][k], bundles[commit[p]].payload))'
    BY <2>1, <2>2 DEF Stands
  <2>4. OnlyAt(bundles[commit[p]].payload, PathsAll(entries[p]))'
    <3>1. PathsAll(entries[p])' = PathsAll(entries[p])
      BY <2>2 DEF PathsAll, PathsOf
    <3> QED BY <2>1, <2>2, <3>1 DEF OnlyAt
  <2> QED BY <1>2, <2>3, <2>4 DEF WrittenInv, Listed
<1>8. PapersInv(p)'
  BY <1>1, <1>2, <1>4 DEF PapersInv, Papers
<1> QED BY <1>1, <1>2, <1>5, <1>6, <1>7, <1>8 DEF Works

\* The files that are packed are what a manifest of them declares.
LEMMA ListedIntact ==
    ASSUME NEW c \in Commits, NEW o \in Options, NEW list \in Seq(EntryType),
           Layout(c, o.chunk),
           \A k \in DOMAIN list : Whole(list[k], c) /\ LaidOut(list[k], o.chunk),
           \A k, l \in DOMAIN list : list[k].path = list[l].path => k = l,
           NEW b, NEW m \in ManifestType, m.files = list,
           b.manifest = m, b.sidecar = m, b.verifier = m.verifier,
           \A k \in DOMAIN list : Stands(list[k], b.payload),
           OnlyAt(b.payload, PathsAll(list))
    PROVE  Intact(b)
<1>1. IsManifest(m)
  BY NothingAssumption DEF IsManifest
<1>2. ASSUME NEW k \in DOMAIN list
      PROVE  SafeEntry(list[k])
  <2>1. PICK e \in EntryType : e = list[k]
    OBVIOUS
  <2>2. /\ e.path \in DOMAIN Repo[c] /\ e.sha = Repo[c][e.path] /\ LaidOut(e, o.chunk)
        /\ e.path \notin Unsafe /\ e.path \in Names
    BY <2>1, Constants DEF Whole, Layout
  <2>3. /\ Len(e.sha) \in Nat /\ e.parts \in Seq(PartType)
        /\ o.chunk \in (Nat \ {0}) \cup {NoChunks}
    BY Constants DEF EntryType, Contents
  <2>4. Len(e.parts) <= MAX_PARTS /\ Len(e.parts) \in Nat /\ MAX_PARTS \in Nat
        /\ DOMAIN e.parts = 1 .. Len(e.parts)
    BY <2>2, <2>3, ChunkAssumption DEF LaidOut, Layout
  <2>5. ASSUME NEW j \in DOMAIN e.parts PROVE PlacedPart(e.path, e.parts[j])
    <3>1. e.parts[j].path = PartName(e.path, j - 1)
      BY <2>2 DEF LaidOut
    <3>2. j - 1 \in 0 .. MAX_PARTS /\ j - 1 \in 0 .. MaxParts - 1
      BY <2>4, ChunkAssumption
    <3>3. PartName(e.path, j - 1) \notin Unsafe
      BY <2>2, <3>2, SuffixAssumption
    <3> QED BY <3>1, <3>2, <3>3 DEF PlacedPart
  <2> QED BY <2>1, <2>2, <2>5 DEF SafeEntry
<1>3. ASSUME NEW k \in DOMAIN list, NEW l \in DOMAIN list, k # l
      PROVE  PathsOf(list[k]) \cap PathsOf(list[l]) = {}
  <2>1. PICK d \in EntryType, e \in EntryType : d = list[k] /\ e = list[l]
    OBVIOUS
  <2>2. /\ Whole(d, c) /\ LaidOut(d, o.chunk) /\ Whole(e, c) /\ LaidOut(e, o.chunk)
        /\ d.path # e.path
    BY <1>3, <2>1
  <2>3. /\ PathsOf(d) \subseteq Place(c, d.path, o.chunk)
        /\ PathsOf(e) \subseteq Place(c, e.path, o.chunk)
    BY <2>1, <2>2, EntryPlace
  <2>4. Place(c, d.path, o.chunk) \cap Place(c, e.path, o.chunk) = {}
    BY <2>2 DEF Layout, Whole
  <2> QED BY <2>1, <2>3, <2>4
<1>4. ASSUME NEW k \in DOMAIN list, NEW i \in DOMAIN Sources(list[k]),
             NEW j \in DOMAIN Sources(list[k]),
             Sources(list[k])[i].path = Sources(list[k])[j].path
      PROVE  i = j
  <2>1. PICK e \in EntryType : e = list[k]
    OBVIOUS
  <2>2. e.parts \in Seq(PartType) /\ LaidOut(e, o.chunk) /\ e.path \in Names
    BY <2>1 DEF EntryType
  <2>3. CASE e.parts = <<>>
    BY <1>4, <2>1, <2>3 DEF Sources
  <2>4. CASE e.parts # <<>>
    <3>1. /\ i \in DOMAIN e.parts /\ j \in DOMAIN e.parts
          /\ e.parts[i].path = e.parts[j].path
      BY <1>4, <2>1, <2>4 DEF Sources
    <3>2. /\ e.parts[i].path = PartName(e.path, i - 1) /\ e.parts[j].path = PartName(e.path, j - 1)
      BY <2>2, <3>1 DEF LaidOut
    <3>3. i - 1 \in 0 .. MAX_PARTS /\ j - 1 \in 0 .. MAX_PARTS /\ i \in Nat /\ j \in Nat
      <4>1. Len(e.sha) \in Nat /\ o.chunk \in (Nat \ {0}) \cup {NoChunks}
            /\ e.sha = Repo[c][e.path] /\ e.path \in DOMAIN Repo[c]
        BY <2>1, Constants DEF EntryType, Contents, Whole
      <4>2. Len(e.parts) <= MAX_PARTS /\ Len(e.parts) \in Nat /\ DOMAIN e.parts = 1 .. Len(e.parts)
        BY <2>2, <4>1 DEF LaidOut, Layout
      <4> QED BY <3>1, <4>2, ChunkAssumption
    <3>4. i - 1 = j - 1
      <4>1. PICK n \in Names : n = e.path
        BY <2>2
      <4>2. PICK x \in 0 .. MAX_PARTS, y \in 0 .. MAX_PARTS : x = i - 1 /\ y = j - 1
        BY <3>3
      <4>3. PartName(n, x) = PartName(n, y)
        BY <3>1, <3>2, <4>1, <4>2
      <4>4. x = y
        BY <4>3, SuffixAssumption
      <4> QED BY <4>2, <4>4
    <3> QED BY <3>3, <3>4
  <2> QED BY <2>3, <2>4
<1>5. \A x \in Positions(m) :
        /\ x[1] \in DOMAIN list /\ x[2] \in DOMAIN Sources(list[x[1]])
        /\ ObjectAt(m, x) = Sources(list[x[1]])[x[2]] /\ x = <<x[1], x[2]>>
  BY DEF Positions, ObjectAt
<1>6. ASSUME NEW x \in Positions(m), NEW y \in Positions(m),
             ObjectAt(m, x).path = ObjectAt(m, y).path
      PROVE  x = y
  <2>1. PICK k \in DOMAIN list : \E i \in DOMAIN Sources(list[k]) :
          x = <<k, i>> /\ ObjectAt(m, x) = Sources(list[k])[i]
    BY <1>5
  <2>2. PICK l \in DOMAIN list : \E j \in DOMAIN Sources(list[l]) :
          y = <<l, j>> /\ ObjectAt(m, y) = Sources(list[l])[j]
    BY <1>5
  <2>3. PICK i \in DOMAIN Sources(list[k]) : x = <<k, i>> /\ ObjectAt(m, x) = Sources(list[k])[i]
    BY <2>1
  <2>4. PICK j \in DOMAIN Sources(list[l]) : y = <<l, j>> /\ ObjectAt(m, y) = Sources(list[l])[j]
    BY <2>2
  <2>5. Sources(list[k])[i].path = Sources(list[l])[j].path
    BY <1>6, <2>3, <2>4
  <2>6. k = l
    <3>1. PICK v : v = Sources(list[k])[i].path
      OBVIOUS
    <3>2. v \in PathsOf(list[k])
      BY <3>1 DEF PathsOf
    <3>3. v \in PathsOf(list[l])
      BY <2>5, <3>1 DEF PathsOf
    <3>4. v \in PathsOf(list[k]) \cap PathsOf(list[l])
      BY <3>2, <3>3
    <3> QED BY <1>3, <3>4
  <2>7. i = j
    BY <1>4, <2>5, <2>6
  <2> QED BY <2>6, <2>7, <2>3, <2>4
<1>7. \A x \in Positions(m) : b.payload[ObjectAt(m, x).path] = ObjectAt(m, x).sha
  BY <1>5 DEF Stands
<1>8. \A n \in Names \ ObjectPaths(m) : b.payload[n] = Missing
  <2>1. ASSUME NEW n, n \in PathsAll(list) PROVE n \in ObjectPaths(m)
    <3>1. PICK k \in DOMAIN list : n \in PathsOf(list[k])
      BY <2>1 DEF PathsAll
    <3>2. PICK i \in DOMAIN Sources(list[k]) : n = Sources(list[k])[i].path
      BY <3>1 DEF PathsOf
    <3>3. <<k, i>> \in Positions(m) /\ ObjectAt(m, <<k, i>>).path = n
      BY <3>2 DEF Positions, ObjectAt
    <3> QED BY <3>3 DEF ObjectPaths
  <2> QED BY <2>1 DEF OnlyAt
<1> QED BY <1>1, <1>2, <1>6, <1>7, <1>8 DEF Intact

\* With the files of the bundle written, only what the papers say matters.
LEMMA PaperStep ==
    ASSUME TypeInv, NEW p \in Procs, pc[p] \in Papers \cup {"manifest"}, Works(p),
           UNCHANGED <<commit, signer, undisturbed>>,
           NEW l \in Papers, Goto(p, l), l = "sigcheck" => signer[p] # NoKey,
           undisturbed[p] => PapersInv(p)'
    PROVE  Works(p)' /\ EndsWell(p)'
<1>1. pc'[p] = l /\ EndsWell(p)' /\ l \in Located /\ pc[p] \in Located
  <2>1. l # "done" /\ l \in Located /\ pc[p] \in Located
    BY AtWork DEF Papers, Listed
  <2> QED BY <2>1, GoStep
<1>2. l \notin Listed \cup Assembling \cup {"path", "fetch", "collect"}
  BY DEF Papers, Listed, Assembling
<1>3. ShapeInv(p)'
  BY <1>1, <1>2 DEF Works, ShapeInv, Listed, Assembling
<1>4. RoomInv(p)' /\ WrittenInv(p)'
  BY <1>1, <1>2 DEF RoomInv, WrittenInv, Listed, Assembling
<1> QED BY <1>1, <1>3, <1>4 DEF Works

LEMMA WriteManifestWorks ==
    ASSUME Basis, NEW p \in Procs, Works(p), WriteManifest(p), TypeInv'
    PROVE  Works(p)' /\ EndsWell(p)'
<1> USE DEF Basis
<1>1. /\ pc[p] = "manifest"
      /\ UNCHANGED <<opt, signer, commit, undisturbed, entries>>
  BY DEF WriteManifest, settled
<1>a. CASE bundles[commit[p]].verifier = Missing
  <2>1. Exit(p, LocalFsError, "re-run")
    BY <1>a DEF WriteManifest
  <2>2. ~ undisturbed[p]
    BY <1>1, <1>a, RepoAssumption DEF Works, PapersInv
  <2> QED BY <1>1, <2>1, <2>2, EndStep DEF EndsWell
<1>b. SUFFICES ASSUME bundles[commit[p]].verifier # Missing
               PROVE  Works(p)' /\ EndsWell(p)'
  BY <1>a
<1>2. PICK now \in Clock :
        /\ man' = [man EXCEPT ![p] = Manifest(p, now)]
        /\ bundles' = [bundles EXCEPT ![commit[p]].manifest = Manifest(p, now)]
        /\ Goto(p, "sidecar")
  BY <1>b DEF WriteManifest
<1>3. PICK c \in Commits : c = commit[p]
  BY <1>1, LocatedCommit DEF Located, Running, Writing
<1>4. PICK m : m = Manifest(p, now)
  OBVIOUS
<1>5. /\ m \in ManifestType /\ m.files = entries[p]
      /\ undisturbed[p] => m.verifier = Verifier
      /\ signer[p] # NoKey => m.signing = KeyId[signer[p]]
  <2>1. entries[p] \in Seq(EntryType) /\ signer[p] \in Keys \cup {NoKey} /\ commit[p] \in Commits
    BY <1>3 DEF TypeInv, LoopType, ChoiceType
  <2>2. bundles[commit[p]].verifier \in {Verifier, Bad}
    BY <1>3, <1>b DEF TypeInv, MediaType, BundleType
  <2>3. undisturbed[p] => bundles[commit[p]].verifier = Verifier
    BY <1>1 DEF Works, PapersInv
  <2> QED BY <1>4, <2>1, <2>2, <2>3 DEF Manifest, ManifestType
<1>6. PICK old : old = bundles[c]
  OBVIOUS
<1>7. PICK d : d = bundles'[c]
  OBVIOUS
<1>8. /\ d.manifest = m /\ d.payload = old.payload /\ d.verifier = old.verifier
      /\ d.sidecar = old.sidecar /\ man'[p] = m /\ d \in BundleType
  <2>1. old \in BundleType /\ d = [old EXCEPT !.manifest = m] /\ man'[p] = m
    BY <1>2, <1>3, <1>4, <1>6, <1>7 DEF TypeInv, MediaType, ManType
  <2>2. d \in BundleType
    BY <1>7 DEF TypeInv, MediaType
  <2> QED BY <2>1, <2>2 DEF BundleType
<1>9. undisturbed[p] => PapersInv(p)'
  <2> SUFFICES ASSUME undisturbed[p] PROVE PapersInv(p)'
    OBVIOUS
  <2>1. PICK list \in Seq(EntryType), o \in Options : list = entries[p] /\ o = opt[p]
    BY DEF TypeInv, LoopType, ChoiceType
  <2>2. Layout(c, o.chunk) /\ \A k \in DOMAIN list :
          /\ LaidOut(list[k], o.chunk)
          /\ \A l \in DOMAIN list : list[k].path = list[l].path => k = l
    BY <1>1, <1>3, <2>1 DEF Works, ShapeInv, Listed
  <2>3. \A k \in DOMAIN list : Whole(list[k], c)
    BY <1>1, <1>3, <2>1 DEF EntriesInv
  <2>4. /\ \A k \in DOMAIN list : Stands(list[k], d.payload)
        /\ OnlyAt(d.payload, PathsAll(list)) /\ d.verifier = Verifier
    BY <1>1, <1>3, <1>6, <1>8, <2>1 DEF Works, WrittenInv, PapersInv, Listed
  <2>5. PICK b : b = [d EXCEPT !.sidecar = d.manifest]
    OBVIOUS
  <2>6. b.manifest = m /\ b.sidecar = m /\ b.verifier = m.verifier /\ b.payload = d.payload
    BY <1>5, <1>8, <2>4, <2>5 DEF BundleType
  <2>7. Intact(b)
    BY <1>5, <2>1, <2>2, <2>3, <2>4, <2>6, ListedIntact
  <2>8. pc'[p] = "sidecar" /\ commit'[p] = c /\ signer'[p] = signer[p]
    BY <1>1, <1>2, <1>3 DEF Goto, TypeInv, ControlType
  <2> QED BY <1>5, <1>7, <1>8, <2>5, <2>7, <2>8 DEF PapersInv, Papers
<1> QED BY <1>1, <1>2, <1>9, PaperStep DEF Papers

LEMMA WriteSidecarWorks ==
    ASSUME Basis, NEW p \in Procs, Works(p), WriteSidecar(p)
    PROVE  Works(p)' /\ EndsWell(p)'
<1> USE DEF Basis
<1>1. /\ pc[p] = "sidecar" /\ Goto(p, "page") /\ UNCHANGED <<signer, commit, undisturbed, man>>
      /\ bundles' = [bundles EXCEPT ![commit[p]].sidecar = man[p]]
  BY DEF WriteSidecar, run
<1>2. PICK c \in Commits : c = commit[p]
  BY <1>1, LocatedCommit DEF Located, Running, Writing
<1>3. bundles'[c] = [bundles[c] EXCEPT !.sidecar = man[p]] /\ bundles[c] \in BundleType
  BY <1>1, <1>2 DEF TypeInv, MediaType
<1>4. undisturbed[p] => PapersInv(p)'
  <2> SUFFICES ASSUME undisturbed[p] PROVE PapersInv(p)'
    OBVIOUS
  <2>1. /\ Intact([bundles[c] EXCEPT !.sidecar = bundles[c].manifest])
        /\ bundles[c].manifest = man[p]
        /\ signer[p] # NoKey => bundles[c].manifest.signing = KeyId[signer[p]]
    BY <1>1, <1>2 DEF Works, PapersInv, Papers
  <2>2. Intact(bundles'[c]) /\ bundles'[c].manifest = man[p]
    BY <1>3, <2>1 DEF BundleType
  <2>3. pc'[p] = "page" /\ commit'[p] = c /\ signer'[p] = signer[p] /\ man'[p] = man[p]
    BY <1>1, <1>2 DEF Goto, TypeInv, ControlType
  <2> QED BY <2>1, <2>2, <2>3 DEF PapersInv, Papers
<1> QED BY <1>1, <1>4, PaperStep DEF Papers

LEMMA WritePageWorks ==
    ASSUME Basis, NEW p \in Procs, Works(p), WritePage(p)
    PROVE  Works(p)' /\ EndsWell(p)'
<1> USE DEF Basis
<1>1. /\ pc[p] = "page" /\ UNCHANGED <<bundles, signature, signer, commit, undisturbed, man>>
      /\ Goto(p, IF signer[p] # NoKey THEN "sign" ELSE "verify")
  BY DEF WritePage, run
<1>2. PICK l \in {"sign", "verify"} :
        Goto(p, l) /\ (signer[p] # NoKey => l = "sign") /\ l \in Papers
  BY <1>1 DEF Papers
<1>3. undisturbed[p] => PapersInv(p)'
  <2>1. pc'[p] = l
    BY <1>2 DEF Goto, TypeInv, ControlType
  <2> QED BY <1>1, <1>2, <2>1 DEF Works, PapersInv, Papers
<1> QED BY <1>1, <1>2, <1>3, PaperStep DEF Papers

LEMMA SignWorks ==
    ASSUME Basis, NEW p \in Procs, Works(p), Sign(p)
    PROVE  Works(p)' /\ EndsWell(p)'
<1> USE DEF Basis
<1>1. /\ pc[p] = "sign" /\ UNCHANGED <<bundles, signer, commit, undisturbed, man>>
      /\ Goto(p, "verify")
      /\ signature' = [signature EXCEPT ![commit[p]] = Signature(signer[p], man[p])]
  BY DEF Sign, SigningKey, run
<1>2. commit[p] \in Commits /\ signature \in [Commits -> [key : Keys, over : ManifestType]
                                                \cup {Missing, Garbled, Cut}]
  BY <1>1, LocatedCommit DEF Located, Running, Writing, TypeInv, MediaType
<1>3. pc'[p] = "verify" /\ signature'[commit[p]] = Signature(signer[p], man[p])
  BY <1>1, <1>2 DEF Goto, TypeInv, ControlType
<1>4. undisturbed[p] => PapersInv(p)'
  BY <1>1, <1>3 DEF Works, PapersInv, Papers
<1> QED BY <1>1, <1>4, PaperStep DEF Papers

\* verify reads what was written, and finds nothing wrong with it.
LEMMA IntactPasses ==
    ASSUME NEW b, Intact(b) PROVE Passes(b) /\ ~ VerifyRaises(b)
  BY DEF Intact, Passes, VerifyRaises

LEMMA SelfVerifyWorks ==
    ASSUME Basis, NEW p \in Procs, Works(p), SelfVerify(p)
    PROVE  Works(p)' /\ EndsWell(p)'
<1> USE DEF Basis
<1>1. pc[p] = "verify" /\ UNCHANGED <<bundles, signature, signer, commit, undisturbed, man>>
  BY DEF SelfVerify, run, shared
<1>2. undisturbed[p] => Intact(bundles[commit[p]])
  BY <1>1 DEF Works, PapersInv, Papers
<1>3. CASE \E code, advice : Exit(p, code, advice) /\ ~ undisturbed[p]
  BY <1>1, <1>3, EndStep DEF EndsWell
<1>4. CASE Exit(p, 0, "nothing")
  BY <1>1, <1>4, EndStep DEF EndsWell
<1>5. CASE signer[p] # NoKey /\ Goto(p, "sigcheck")
  <2>1. pc'[p] = "sigcheck"
    BY <1>5 DEF Goto, TypeInv, ControlType
  <2>2. undisturbed[p] => PapersInv(p)'
    BY <1>1, <2>1 DEF Works, PapersInv, Papers
  <2> QED BY <1>1, <1>5, <2>2, PaperStep DEF Papers
<1> QED BY <1>2, <1>3, <1>4, <1>5, IntactPasses DEF SelfVerify

LEMMA SignatureStands ==
    ASSUME NEW k \in Keys, NEW m \in ManifestType, m.signing = KeyId[k]
    PROVE  Verdict(m, Signature(k, m), k) = "VALID"
<1>1. IsManifest(m) /\ m.signing # Unsigned /\ m.signing # Foreign
  BY NothingAssumption, KeyIdAssumption DEF IsManifest
<1>2. Claim(m) = "SIGNED"
  BY <1>1, ZenonT(30) DEF Claim
<1>3. Signature(k, m) \notin {Missing, Unreadable, Cut}
  <2>1. Signature(k, m) \in [key : Keys, over : ManifestType]
    BY DEF Signature
  <2> QED BY <2>1, NothingAssumption
<1>4. Check(m, Signature(k, m), k) = "VALID"
  BY <1>3, ZenonT(30) DEF Check
<1> QED BY <1>2, <1>4 DEF Verdict

LEMMA CheckSignatureWorks ==
    ASSUME Basis, NEW p \in Procs, Works(p), CheckSignature(p)
    PROVE  Works(p)' /\ EndsWell(p)'
<1> USE DEF Basis
<1>1. pc[p] = "sigcheck" /\ UNCHANGED undisturbed
  BY DEF CheckSignature
<1>2. PICK c \in Commits : c = commit[p]
  BY <1>1, LocatedCommit DEF Located, Running, Writing
<1>3. PICK b \in BundleType : b = bundles[c]
  BY DEF TypeInv, MediaType
<1>4. PICK v : v = Verdict(ReadBack(p), signature[commit[p]], signer[p])
  OBVIOUS
<1>5. undisturbed[p] => v = "VALID"
  <2> SUFFICES ASSUME undisturbed[p] PROVE v = "VALID"
    OBVIOUS
  <2>1. PICK k \in Keys : k = signer[p]
    BY <1>1 DEF Works, ShapeInv, TypeInv, ChoiceType
  <2>2. /\ Intact(b) /\ b.manifest.signing = KeyId[k] /\ k # NoKey
        /\ signature[c] = Signature(k, b.manifest)
    BY <1>1, <1>2, <1>3, <2>1, RepoAssumption DEF Works, PapersInv, Papers
  <2>3. b.manifest \in ManifestType
    BY <2>2 DEF Intact, IsManifest, BundleType
  <2> QED BY <1>2, <1>3, <1>4, <2>1, <2>2, <2>3, SignatureStands DEF ReadBack
<1>6. CASE \E code, advice : Exit(p, code, advice) /\ ~ undisturbed[p]
  BY <1>1, <1>6, EndStep DEF EndsWell
<1>7. CASE Exit(p, 0, "nothing")
  BY <1>1, <1>7, EndStep DEF EndsWell
<1> QED BY <1>4, <1>5, <1>6, <1>7 DEF CheckSignature


-----------------------------------------------------------------------------
LEMMA StepWorks ==
    ASSUME OneProcess, Basis, WorksInv, TypeInv', NEW p \in Procs,
           Step(p) \/ CallFails(p) \/ Crash(p) \/ Begin(p)
    PROVE  WorksInv'
<1>1. Works(p)
  BY DEF WorksInv
<1>2. Works(p)' /\ EndsWell(p)'
  BY <1>1, EarlyWorks, CheckSpaceWorks, CheckPathWorks, FetchWorks, CollectWorks,
     PreflightWorks, RecheckWorks, MakeDirsWorks, OpenFileWorks, FillWorks,
     DropTrailingWorks, InstallVerifierWorks, WriteManifestWorks, WriteSidecarWorks,
     WritePageWorks, SignWorks, SelfVerifyWorks, CheckSignatureWorks DEF Step
<1>3. \A q \in Procs : q = p
  BY DEF OneProcess
<1> QED BY <1>2, <1>3 DEF WorksInv

LEMMA DiskFaultWorks ==
    ASSUME Basis, WorksInv, NEW p \in Procs, DiskFault(p)
    PROVE  WorksInv'
<1>1. UNCHANGED <<made, pc, run, exit, said>> /\ \A q \in Procs : ~ undisturbed'[q]
  BY DEF DiskFault
<1>2. \A q \in Procs : ShapeInv(q)
  BY DEF WorksInv, Works
<1>3. \A q \in Procs : ShapeInv(q)'
  BY <1>1, <1>2 DEF ShapeInv, run, Chunked
<1> QED BY <1>1, <1>3 DEF WorksInv, Works, EndsWell

\* A step of somebody else, who leaves the bundle of q alone and takes no space.
LEMMA ApartWorks ==
    ASSUME Basis, TypeInv', NEW q \in Procs, Works(q), EndsWell(q),
           UNCHANGED <<staging, secretFile, pc, run, exit, said, undisturbed>>,
           FreeDest' >= FreeDest, FreeStaging' >= FreeStaging,
           pc[q] \in Located => /\ bundles'[commit[q]] = bundles[commit[q]]
                                /\ made'[commit[q]] = made[commit[q]]
                                /\ signature'[commit[q]] = signature[commit[q]]
    PROVE  Works(q)' /\ EndsWell(q)'
<1> USE DEF Basis
<1>1. /\ UNCHANGED <<opt, signer, commit, fetched, todo, file, src, linked, parts, entries, man>>
      /\ pc'[q] = pc[q] /\ undisturbed'[q] = undisturbed[q] /\ commit'[q] = commit[q]
  BY DEF run
<1>2. EndsWell(q)'
  BY <1>1 DEF EndsWell
<1>3. CASE pc[q] \notin Located
  <2>1. pc'[q] \notin Assembling \cup Listed \cup Papers \cup {"path", "fetch", "collect"}
        /\ pc'[q] \notin Located
    BY <1>1, <1>3, AtWork
  <2>2. ShapeInv(q)'
    BY <2>1 DEF ShapeInv, Listed, Papers, Assembling
  <2>3. RoomInv(q)' /\ WrittenInv(q)'
    BY <2>1 DEF RoomInv, WrittenInv, Listed, Assembling
  <2>4. PapersInv(q)'
    BY <2>1 DEF PapersInv, Papers, Listed
  <2> QED BY <1>2, <2>2, <2>3, <2>4 DEF Works
<1>4. CASE pc[q] \in Located
  <2>1. PICK a \in Commits : a = commit[q]
    BY <1>4, LocatedCommit
  <2>2. bundles'[a] = bundles[a] /\ made'[a] = made[a] /\ signature'[a] = signature[a]
        /\ commit'[q] = a
    BY <1>1, <1>4, <2>1
  <2>3. Chunked(q)' = Chunked(q) /\ Object(q)' = Object(q) /\ Opened(q)' = Opened(q)
        /\ Written(q)' = Written(q)
    BY <1>1 DEF Chunked, Object, Opened, Written, Paths
  <2>4. ShapeInv(q)'
    BY <1>1, <2>1, <2>2, <2>3 DEF Works, ShapeInv
  <2>5. undisturbed[q] => RoomInv(q)'
    <3>1. FreeDest \in Int /\ FreeStaging \in Int
      BY FreeType
    <3>2. (FreeDest \in Int)' /\ (FreeStaging \in Int)'
      BY FreeType, PTL
    <3>3. Rest(q) \in Nat /\ All(q) \in Nat
      BY <1>4, TotalSize
    <3>4. Size(commit[q], todo[q]) \in Nat
      <4>1. PICK S \in SUBSET Names : S = todo[q]
        BY DEF TypeInv, LoopType
      <4>2. IsFiniteSet(S)
        BY FiniteAssumption, FS_Subset
      <4> QED BY <4>1, <4>2, StoredFinite DEF Size
    <3>5. Written(q) \in Int
      <4>1. Len(src[q]) \in Nat /\ Len(parts[q]) \in Nat
            /\ opt[q].chunk \in (Nat \ {0}) \cup {NoChunks}
        BY Constants DEF TypeInv, LoopType, ChoiceType, Contents
      <4>2. CASE Chunked(q)
        <5>1. PICK x \in Nat, y \in Nat : x = Len(parts[q]) /\ y = opt[q].chunk
          BY <4>1, <4>2, CountType DEF Chunked
        <5>2. x * y \in Int
          OBVIOUS
        <5> QED BY <4>2, <5>1, <5>2 DEF Written
      <4>3. CASE ~ Chunked(q)
        BY <4>3 DEF Written
      <4> QED BY <4>2, <4>3
    <3>6. Rest(q)' = Rest(q) /\ All(q)' = All(q)
          /\ Size(commit[q], todo[q])' = Size(commit[q], todo[q])
      BY <1>1 DEF Rest, All, Size
    <3>7. FreeDest' \in Int /\ FreeStaging' \in Int
      BY <3>2
    <3> HIDE DEF Basis
    <3>8. RoomInv(q) => RoomInv(q)'
      BY <1>1, <2>3, <3>1, <3>3, <3>4, <3>5, <3>6, <3>7 DEF RoomInv
    <3> QED BY <3>8 DEF Works
  <2>6. undisturbed[q] => WrittenInv(q)'
    <3> SUFFICES ASSUME undisturbed[q] PROVE WrittenInv(q)'
      OBVIOUS
    <3>1. PICK d : d = bundles[a].payload
      OBVIOUS
    <3>2. d = bundles[commit[q]].payload /\ d = bundles'[commit'[q]].payload
      BY <2>1, <2>2, <3>1
    <3>3. /\ pc[q] \in Listed => \A k \in DOMAIN entries[q] : Stands(entries[q][k], d)
          /\ pc[q] \in {"write", "manifest"} => OnlyAt(d, PathsAll(entries[q]))
          /\ pc[q] = "fill" =>
               /\ OnlyAt(d, PathsAll(entries[q]) \cup Opened(q))
               /\ d[Object(q)] = <<>>
               /\ \A k \in DOMAIN parts[q] : d[parts[q][k].path] = parts[q][k].sha
      BY <3>2 DEF Works, WrittenInv
    <3>4. /\ pc'[q] \in Listed => \A k \in DOMAIN entries'[q] : Stands(entries'[q][k], d)
          /\ pc'[q] \in {"write", "manifest"} => OnlyAt(d, PathsAll(entries'[q]))
          /\ pc'[q] = "fill" =>
               /\ OnlyAt(d, PathsAll(entries'[q]) \cup Opened(q)')
               /\ d[Object(q)'] = <<>>
               /\ \A k \in DOMAIN parts'[q] : d[parts'[q][k].path] = parts'[q][k].sha
      BY <1>1, <2>3, <3>3
    <3> QED BY <3>2, <3>4 DEF WrittenInv, Stands, OnlyAt, PathsAll, PathsOf
  <2>7. undisturbed[q] => PapersInv(q)'
    BY <1>1, <2>1, <2>2 DEF Works, PapersInv
  <2> QED BY <1>1, <1>2, <2>4, <2>5, <2>6, <2>7 DEF Works
<1> QED BY <1>3, <1>4

LEMMA RemoveBundleWorks ==
    ASSUME Basis, TypeInv', WorksInv, NEW c \in Commits, RemoveBundle(c)
    PROVE  WorksInv'
<1>1. /\ UNCHANGED <<staging, secretFile, pc, run, exit, said, undisturbed>>
      /\ bundles'[c] = NoBundle
      /\ \A d \in Commits \ {c} : /\ made'[d] = made[d] /\ bundles'[d] = bundles[d]
                                  /\ signature'[d] = signature[d]
      /\ \A q \in Procs : commit[q] = c => pc[q] \notin Running
  BY RemoveSteps DEF RemoveBundle, Basis
<1>2. FreeDest' >= FreeDest /\ FreeStaging' >= FreeStaging
  <2>1. NoBundle.payload = [n \in Names |-> Missing]
    BY DEF NoBundle
  <2>2. \A d \in Commits : \A n \in Names :
          \/ bundles'[d].payload[n] = bundles[d].payload[n]
          \/ bundles'[d].payload[n] \in {Missing, <<>>}
    BY <1>1, <2>1
  <2> QED BY <1>1, <2>2, FreeKept DEF Basis
<1>3. ASSUME NEW q \in Procs PROVE Works(q)' /\ EndsWell(q)'
  <2>1. pc[q] \in Located => commit[q] \in Commits \ {c}
    BY <1>1, LocatedCommit, Labels DEF Basis
  <2> QED BY <1>1, <1>2, <2>1, ApartWorks DEF WorksInv
<1> QED BY <1>3 DEF WorksInv

LEMMA WorksInvStep ==
    ASSUME OneProcess, Basis, WorksInv, TypeInv', [Next]_vars
    PROVE  WorksInv'
<1>1. CASE UNCHANGED vars
  <2>1. UNCHANGED <<staging, bundles, made, signature, secretFile, pc, run, exit, said,
                  undisturbed>>
    BY <1>1 DEF vars, shared
  <2>2. FreeDest' >= FreeDest /\ FreeStaging' >= FreeStaging
    BY <2>1, FreeSame, FreeType
  <2>3. ASSUME NEW q \in Procs PROVE Works(q)' /\ EndsWell(q)'
    BY <2>1, <2>2, ApartWorks DEF WorksInv
  <2> QED BY <2>3 DEF WorksInv
<1>2. ASSUME NEW p \in Procs, Begin(p) \/ Step(p) \/ CallFails(p) \/ Crash(p)
      PROVE  WorksInv'
  BY <1>2, StepWorks
<1> QED BY <1>1, <1>2, DiskFaultWorks, RemoveBundleWorks DEF Next

LEMMA InitWorks == Init => WorksInv
<1> SUFFICES ASSUME Init, NEW p \in Procs PROVE Works(p) /\ EndsWell(p)
  BY DEF WorksInv
<1>1. pc[p] = "idle"
  BY DEF Init
<1>2. pc[p] \notin Located
  BY <1>1, AtWork
<1> QED BY <1>1, <1>2, OffDuty DEF EndsWell

(* A pack that is alone and that nothing disturbs is refused before it      *)
(* writes, or succeeds: there is room for all it fetches and writes, no two *)
(* files get in each other's way, and its own check finds the bundle as it  *)
(* was written (pack.py:89-119, 176-179, 265, 384-416).                     *)
THEOREM PackOnlyRefuses == ASSUME OneProcess PROVE Spec => []OnlyRefusals
<1>1. OneProcess => Apart
  BY DEF Apart
<1>2. Init => Basis /\ WorksInv
  BY InitTypeInv, InitSafety, InitContent, InitWorks DEF Basis, ContentInv
<1>3. Basis /\ WorksInv /\ [Next]_vars => (Basis /\ WorksInv)'
  BY <1>1, StepTypeInv, MediaInvStep, SignerInvStep, RunContentStep, WorksInvStep DEF Basis
<1>4. WorksInv => OnlyRefusals
  BY DEF WorksInv, EndsWell, OnlyRefusals
<1> QED BY <1>2, <1>3, <1>4, PTL DEF Spec

=============================================================================
