------------------------ MODULE OfflineReaderVerdict ------------------------
(***************************************************************************)
(* The verify loop of OfflineReader computes Verifies (VerdictExact), for  *)
(* any bundle and any number of processes, and a forced unpack of an       *)
(* intact bundle succeeds whatever is in the destination                   *)
(* (ForcedRunRecovers), for one process at a time.                         *)
(*                                                                         *)
(* The arguments: while nothing disturbs a run, its flags say of the       *)
(* objects before the cursor what Verifies says of all objects (Scanned),  *)
(* and behind the last entry those are all; and the bytes hashed so far    *)
(* are what the whole file begins with, up to where the next object starts *)
(* (HashedSoFar), so behind the last object the hash is the file's.        *)
(*                                                                         *)
(* Any number of forced unpacks of one bundle into one destination         *)
(* (ConcurrentRunsConverge): whoever takes a temporary file away from      *)
(* others has renamed it and goes on, so one of them always can; and what  *)
(* it renamed is whole, or another process that still has it open will     *)
(* make it so before it ends.                                              *)
(***************************************************************************)
EXTENDS OfflineReaderSafety

\* The objects of m before the cursor <<k, l>>.
Before(m, k, l) == { x \in Positions(m) : x[1] < k \/ (x[1] = k /\ x[2] < l) }

\* What the loop asks of the paths at one position.
SafeAt(m, x) ==
    /\ m.files[x[1]].path \notin Unsafe
    /\ m.files[x[1]].parts # <<>> => PlacedPart(m.files[x[1]].path, ObjectAt(m, x))

\* What it asks of the object there.
WholeAt(b, m, x) ==
    LET o == ObjectAt(m, x) IN SizeOK(m, o) /\ b.payload[o.path] = o.sha

Scanned(p) ==
    LET m == vman[p]
        past == Before(m, i[p], j[p])
    IN /\ seen[p] = { ObjectAt(m, x).path : x \in past }
       /\ \A x \in past : SafeAt(m, x)
       /\ \A x, y \in past : ObjectAt(m, x).path = ObjectAt(m, y).path => x = y
       /\ clean[p] <=> /\ bundle.sidecar = m /\ bundle.verifier = m.verifier
                       /\ \A x \in past : WholeAt(bundle, m, x)

Verdict(p) ==
    /\ pc[p] \in {"sidecar", "tool", "objects"} => vman[p] = bundle.manifest
    /\ pc[p] \in {"load", "dest", "vload", "sidecar", "tool"} => seen[p] = {}
    /\ pc[p] = "tool" => (clean[p] <=> bundle.sidecar = vman[p])
    /\ pc[p] = "objects" => Scanned(p)
    /\ pc[p] = "done" /\ opt[p].cmd = "verify" => (exit[p] = 0 <=> Verifies(bundle))
    /\ pc[p] \in Joining /\ ~ opt[p].noVerify => Verifies(bundle)

VerdictInv == \A p \in Procs : undisturbed[p] => Verdict(p)

-----------------------------------------------------------------------------
(* Positions and cursors. *)
LEMMA PositionPairs ==
    ASSUME NEW m \in ManifestType, NEW x
    PROVE  x \in Positions(m) <=>
             \E k \in 1 .. Len(m.files) : \E l \in 1 .. Len(Sources(m.files[k])) : x = <<k, l>>
<1>1. DOMAIN m.files = 1 .. Len(m.files)
  BY ManifestAssumption
<1>2. \A k \in 1 .. Len(m.files) :
        DOMAIN Sources(m.files[k]) = 1 .. Len(Sources(m.files[k]))
  BY SourcesShape
<1>3. x \in Positions(m) <=>
        \E k \in 1 .. Len(m.files) : x \in {k} \X DOMAIN Sources(m.files[k])
  BY <1>1, Zenon DEF Positions
<1> QED BY <1>2, <1>3

LEMMA NoneBefore == ASSUME NEW m \in ManifestType PROVE Before(m, 1, 1) = {}
<1>1. ASSUME NEW x \in Positions(m), x[1] < 1 \/ (x[1] = 1 /\ x[2] < 1) PROVE FALSE
  BY <1>1, PositionPairs
<1> QED BY <1>1 DEF Before

LEMMA AllBefore ==
    ASSUME NEW m \in ManifestType, NEW k \in Nat, k > Len(m.files), NEW l
    PROVE  Before(m, k, l) = Positions(m)
<1>1. ASSUME NEW x \in Positions(m) PROVE x[1] < k
  <2>1. PICK a \in 1 .. Len(m.files) : x[1] = a
    BY PositionPairs
  <2>2. Len(m.files) \in Nat
    BY ManifestAssumption
  <2> QED BY <2>1, <2>2
<1> QED BY <1>1 DEF Before

\* The loop goes on to the next object.
LEMMA NextBefore ==
    ASSUME NEW m \in ManifestType, NEW k \in 1 .. Len(m.files),
           NEW l \in 1 .. Len(Sources(m.files[k]))
    PROVE  Before(m, IF l = Len(Sources(m.files[k])) THEN k + 1 ELSE k,
                     IF l = Len(Sources(m.files[k])) THEN 1 ELSE l + 1)
             = Before(m, k, l) \cup {<<k, l>>}
<1> DEFINE k2 == IF l = Len(Sources(m.files[k])) THEN k + 1 ELSE k
           l2 == IF l = Len(Sources(m.files[k])) THEN 1 ELSE l + 1
<1>1. <<k, l>> \in Positions(m) /\ <<k, l>> \notin Before(m, k, l)
  BY PositionPairs DEF Before
<1>2. ASSUME NEW x \in Positions(m)
      PROVE  x[1] < k2 \/ (x[1] = k2 /\ x[2] < l2)
               <=> x[1] < k \/ (x[1] = k /\ x[2] < l) \/ x = <<k, l>>
  <2>1. PICK a \in 1 .. Len(m.files) : \E c \in 1 .. Len(Sources(m.files[a])) : x = <<a, c>>
    BY PositionPairs
  <2>2. PICK c \in 1 .. Len(Sources(m.files[a])) : x = <<a, c>>
    BY <2>1
  <2>3. Len(Sources(m.files[a])) \in Nat /\ Len(Sources(m.files[k])) \in Nat
    BY SourcesShape
  <2>4. CASE l = Len(Sources(m.files[k]))
    <3>1. k2 = k + 1 /\ l2 = 1
      BY <2>4
    <3>2. a = k => c <= l
      BY <2>3, <2>4
    <3> QED BY <2>2, <2>3, <3>1, <3>2
  <2>5. CASE l # Len(Sources(m.files[k]))
    <3>1. k2 = k /\ l2 = l + 1
      BY <2>5
    <3> QED BY <2>2, <2>3, <3>1
  <2> QED BY <2>4, <2>5
<1> QED BY <1>1, <1>2 DEF Before

(* Verifies, object by object. *)
LEMMA SafeEntries ==
    ASSUME NEW m \in ManifestType
    PROVE  (\A k \in DOMAIN m.files : SafeEntry(m.files[k])) <=> \A x \in Positions(m) : SafeAt(m, x)
<1>0. \A k \in 1 .. Len(m.files) : m.files[k] \in EntryType
  BY ManifestAssumption
<1>1. ASSUME NEW k \in 1 .. Len(m.files)
      PROVE  SafeEntry(m.files[k]) <=>
               \A l \in 1 .. Len(Sources(m.files[k])) : SafeAt(m, <<k, l>>)
  <2> DEFINE e == m.files[k]
  <2>1. \A l : ObjectAt(m, <<k, l>>) = Sources(e)[l]
    BY DEF ObjectAt
  <2>2. Len(Sources(e)) \in Nat /\ 1 \in 1 .. Len(Sources(e))
    BY SourcesShape
  <2>3. e.parts # <<>> => Sources(e) = e.parts /\ DOMAIN e.parts = 1 .. Len(e.parts)
    BY <1>0 DEF Sources, EntryType
  <2>4. e.parts = <<>> => DOMAIN e.parts = {}
    OBVIOUS
  <2> HIDE DEF e
  <2>5. \A l : SafeAt(m, <<k, l>>) <=>
                 e.path \notin Unsafe /\ (e.parts # <<>> => PlacedPart(e.path, Sources(e)[l]))
    BY <2>1 DEF SafeAt, e
  <2>6. SafeEntry(e) <=> \A l \in 1 .. Len(Sources(e)) : SafeAt(m, <<k, l>>)
    BY <2>2, <2>3, <2>4, <2>5 DEF SafeEntry
  <2> QED BY <2>6 DEF e
<1>2. (\A x \in Positions(m) : SafeAt(m, x)) <=>
        \A k \in 1 .. Len(m.files) : \A l \in 1 .. Len(Sources(m.files[k])) : SafeAt(m, <<k, l>>)
  <2>1. \A k \in 1 .. Len(m.files) : \A l \in 1 .. Len(Sources(m.files[k])) :
          <<k, l>> \in Positions(m)
    BY PositionPairs
  <2>2. \A x \in Positions(m) : \E k \in 1 .. Len(m.files) :
          \E l \in 1 .. Len(Sources(m.files[k])) : x = <<k, l>>
    BY PositionPairs
  <2> QED BY <2>1, <2>2, Zenon
<1>3. DOMAIN m.files = 1 .. Len(m.files)
  BY ManifestAssumption
<1> QED BY <1>1, <1>2, <1>3, Zenon

LEMMA VerifiesByObject ==
    ASSUME NEW b, b.manifest \in ManifestType, IsManifest(b.manifest)
    PROVE  Verifies(b) <=>
             LET m == b.manifest
             IN /\ b.sidecar = m /\ b.verifier = m.verifier
                /\ \A x \in Positions(m) : SafeAt(m, x)
                /\ \A x, y \in Positions(m) : ObjectAt(m, x).path = ObjectAt(m, y).path => x = y
                /\ \A x \in Positions(m) : WholeAt(b, m, x)
                /\ \A n \in Names \ ObjectPaths(m) : b.payload[n] = Missing
  BY SafeEntries, Zenon DEF Verifies, Intact, WholeAt

-----------------------------------------------------------------------------
(* A step of p does not touch the variables of the loop of another process. *)
Same(q) ==
    /\ pc'[q] = pc[q] /\ opt'[q] = opt[q] /\ vman'[q] = vman[q] /\ clean'[q] = clean[q]
    /\ seen'[q] = seen[q] /\ i'[q] = i[q] /\ j'[q] = j[q] /\ exit'[q] = exit[q]
    /\ undisturbed'[q] = undisturbed[q] /\ man'[q] = man[q] /\ buf'[q] = buf[q]

LEMMA OthersSame ==
    ASSUME TypeOK, NEW p \in Procs, Begin(p) \/ Step(p) \/ LocalError(p) \/ RemovalFails(p) \/ Crash(p)
    PROVE  bundle' = bundle /\ \A q \in Procs \ {p} : Same(q)
<1> USE DEF TypeOK, Same, dest, locals, Exit, Goto
<1>1. CASE Begin(p)
  BY <1>1 DEF Begin
<1>2. CASE Load(p)
  BY <1>2 DEF Load
<1>3. CASE DestReady(p)
  BY <1>3 DEF DestReady
<1>4. CASE VLoad(p)
  BY <1>4 DEF VLoad
<1>5. CASE CheckSidecar(p)
  BY <1>5 DEF CheckSidecar
<1>6. CASE VerifyVerifier(p)
  BY <1>6 DEF VerifyVerifier
<1>7. CASE CheckObject(p)
  <2> DEFINE o == Sources(vman[p].files[i[p]])[j[p]]
             last == j[p] = Len(Sources(vman[p].files[i[p]]))
             ok == SizeOK(vman[p], o) /\ bundle.payload[o.path] = o.sha
  <2>0. \/ UNCHANGED <<clean, seen, i, j>>
        \/ /\ seen' = [seen EXCEPT ![p] = @ \cup {o.path}]
           /\ clean' = [clean EXCEPT ![p] = @ /\ ok]
           /\ i' = [i EXCEPT ![p] = IF last THEN @ + 1 ELSE @]
           /\ j' = [j EXCEPT ![p] = IF last THEN 1 ELSE @ + 1]
    BY <1>7, Zenon DEF CheckObject
  <2>1. \A q \in Procs \ {p} : /\ clean'[q] = clean[q] /\ seen'[q] = seen[q]
                               /\ i'[q] = i[q] /\ j'[q] = j[q]
    <3>1. CASE UNCHANGED <<clean, seen, i, j>>
      BY <3>1
    <3>2. ASSUME NEW c, NEW s, NEW k, NEW l,
                 /\ clean' = [clean EXCEPT ![p] = c] /\ seen' = [seen EXCEPT ![p] = s]
                 /\ i' = [i EXCEPT ![p] = k] /\ j' = [j EXCEPT ![p] = l]
          PROVE  \A q \in Procs \ {p} : /\ clean'[q] = clean[q] /\ seen'[q] = seen[q]
                                        /\ i'[q] = i[q] /\ j'[q] = j[q]
      BY <3>2 DEF TypeInv, TypeOK
    <3> HIDE DEF o, last, ok
    <3> QED BY <2>0, <3>1, <3>2
  <2>2. UNCHANGED <<pc, exit>> \/ \E c : Exit(p, c)
    BY <1>7, Zenon DEF CheckObject
  <2>3. UNCHANGED <<bundle, opt, man, vman, buf, undisturbed>>
    BY <1>7, Zenon DEF CheckObject
  <2> QED BY <2>1, <2>2, <2>3
<1>8. CASE ScanExtra(p)
  <2>1. opt[p].cmd \in {"verify", "unpack"}
    BY OptionsAssumption
  <2>2. \/ UNCHANGED <<i, j>>
        \/ i' = [i EXCEPT ![p] = 1] /\ j' = [j EXCEPT ![p] = 1]
    BY <1>8, <2>1 DEF ScanExtra
  <2>3. \/ \E c : Exit(p, c)
        \/ Goto(p, "join")
    BY <1>8, <2>1 DEF ScanExtra
  <2> QED BY <1>8, <2>2, <2>3 DEF ScanExtra
<1>9. CASE JoinOpen(p)
  BY <1>9 DEF JoinOpen
<1>10. CASE JoinCopy(p)
  <2>1. UNCHANGED <<bundle, opt, man, vman, clean, seen, undisturbed>>
    BY <1>10 DEF JoinCopy
  <2>2. \/ /\ UNCHANGED <<pc, exit, i>> /\ j' = [j EXCEPT ![p] = @ + 1]
           /\ \E s : buf' = [buf EXCEPT ![p] = @ \o s]
        \/ UNCHANGED <<i, j, buf>> /\ \E c : Exit(p, c)
    BY <1>10 DEF JoinCopy, FailJoin
  <2> QED BY <2>1, <2>2
<1>11. CASE JoinInstall(p)
  <2>1. UNCHANGED <<bundle, opt, man, vman, clean, seen, undisturbed>>
    BY <1>11 DEF JoinInstall
  <2>2. \/ Goto(p, "join") /\ i' = [i EXCEPT ![p] = @ + 1] /\ UNCHANGED <<j, buf>>
        \/ UNCHANGED <<i, j, buf>> /\ \E c : Exit(p, c)
    BY <1>11 DEF JoinInstall, FailJoin, NextEntry
  <2> QED BY <2>1, <2>2
<1>12. CASE OpenReceipt(p) \/ WriteReceipt(p)
  BY <1>12 DEF OpenReceipt, WriteReceipt
<1>13. CASE LocalError(p)
  BY <1>13 DEF LocalError, FailJoin
<1>14. CASE Crash(p)
  BY <1>14 DEF Crash
<1>15. CASE RemovalFails(p)
  BY <1>15 DEF RemovalFails
<1> QED BY <1>1, <1>2, <1>3, <1>4, <1>5, <1>6, <1>7, <1>8, <1>9, <1>10, <1>11, <1>12,
           <1>13, <1>14, <1>15 DEF Step

LEMMA SameVerdict ==
    ASSUME NEW q \in Procs, bundle' = bundle, Same(q), Verdict(q)
    PROVE  Verdict(q)'
  BY DEF Same, Verdict, Scanned

-----------------------------------------------------------------------------
(* The steps of p, one group per stage of the command. *)
LEMMA StartVerdict ==
    ASSUME TypeInv, NEW p \in Procs,
           Begin(p) \/ (Verdict(p) /\ (Load(p) \/ DestReady(p) \/ Crash(p)))
    PROVE  Verdict(p)'
<1> USE DEF TypeInv, TypeOK, Verdict, Joining
<1>1. CASE Begin(p)
  <2>1. pc'[p] \in {"load", "vload"} /\ seen'[p] = {}
    BY <1>1 DEF Begin
  <2> QED BY <2>1
<1>2. CASE Verdict(p) /\ Load(p)
  <2>1. opt[p].cmd = "unpack" /\ opt' = opt /\ seen' = seen
    BY <1>2 DEF Load, Loaded
  <2>2. pc[p] = "load" /\ pc'[p] \in {"dest", "done"}
    BY <1>2 DEF Load, Goto, Exit
  <2> QED BY <1>2, <2>1, <2>2
<1>3. CASE Verdict(p) /\ DestReady(p)
  <2>1. opt[p].cmd = "unpack" /\ opt' = opt /\ seen' = seen /\ pc[p] = "dest"
    BY <1>3 DEF DestReady, Loaded
  <2>2. \/ pc'[p] = "done" \/ pc'[p] = "vload"
        \/ pc'[p] = "join" /\ opt[p].noVerify
    BY <1>3 DEF DestReady, Goto, Exit
  <2> QED BY <1>3, <2>1, <2>2
<1>4. CASE Verdict(p) /\ Crash(p)
  <2>1. pc'[p] = "crashed"
    BY <1>4 DEF Crash
  <2> QED BY <2>1
<1> QED BY <1>1, <1>2, <1>3, <1>4

LEMMA EarlyVerdict ==
    ASSUME TypeInv, NEW p \in Procs, Verdict(p),
           VLoad(p) \/ CheckSidecar(p) \/ VerifyVerifier(p)
    PROVE  Verdict(p)' /\ (pc'[p] = "done" => ~ Verifies(bundle))
<1> USE DEF TypeInv, TypeOK, Joining
<1>1. CASE VLoad(p)
  <2>1. UNCHANGED <<bundle, opt, seen>> /\ pc[p] = "vload"
    BY <1>1 DEF VLoad
  <2>2. CASE IsManifest(bundle.manifest)
    <3>1. pc'[p] = "sidecar" /\ vman'[p] = bundle.manifest
      BY <1>1, <2>2 DEF VLoad, Goto
    <3> QED BY <2>1, <3>1 DEF Verdict
  <2>3. CASE ~ IsManifest(bundle.manifest)
    <3>1. pc'[p] = "done" /\ exit'[p] = 2
      BY <1>1, <2>3 DEF VLoad, Exit
    <3> QED BY <2>1, <2>3, <3>1 DEF Verdict, Verifies, Intact
  <2> QED BY <2>2, <2>3
<1>2. CASE CheckSidecar(p)
  <2>1. UNCHANGED <<bundle, opt, seen, vman>> /\ pc[p] = "sidecar"
    BY <1>2 DEF CheckSidecar
  <2>2. CASE bundle.sidecar = Malformed
    <3>1. pc'[p] = "done" /\ exit'[p] = 1
      BY <1>2, <2>2 DEF CheckSidecar, Exit
    <3> QED BY <2>1, <2>2, <3>1 DEF Verdict, Verifies, Intact, IsManifest
  <2>3. CASE bundle.sidecar # Malformed
    <3>1. pc'[p] = "tool"
      BY <1>2, <2>3 DEF CheckSidecar, Goto
    <3>2. clean'[p] <=> bundle.sidecar = vman[p]
      BY <1>2, <2>3 DEF CheckSidecar
    <3> QED BY <2>1, <3>1, <3>2 DEF Verdict
  <2> QED BY <2>2, <2>3
<1>3. CASE VerifyVerifier(p)
  <2>1. /\ UNCHANGED <<bundle, opt, seen, vman, i, j>>
        /\ pc[p] = "tool" /\ vman[p] = bundle.manifest
    BY <1>3 DEF VerifyVerifier, Verdict
  <2>2. CASE vman[p].verifier = Astray
    <3>1. pc'[p] = "done" /\ exit'[p] = 1
      BY <1>3, <2>2 DEF VerifyVerifier, Exit
    <3>2. bundle.verifier # bundle.manifest.verifier
      BY <2>1, <2>2, ManifestAssumption
    <3> QED BY <2>1, <3>1, <3>2 DEF Verdict, Verifies, Intact
  <2>3. CASE vman[p].verifier # Astray
    <3>1. pc'[p] = "objects"
      BY <1>3, <2>3 DEF VerifyVerifier, Goto
    <3>2. clean'[p] <=> clean[p] /\ bundle.verifier = vman[p].verifier
      BY <1>3, <2>3 DEF VerifyVerifier
    <3>3. Before(vman[p], i[p], j[p]) = {}
      <4>1. vman[p] \in ManifestType /\ i[p] = 1 /\ j[p] = 1
        BY <2>1, ManifestsShape DEF Loaded, Cursor
      <4> QED BY <4>1, NoneBefore
    <3>4. Scanned(p)'
      BY <2>1, <3>2, <3>3 DEF Verdict, Scanned
    <3> QED BY <2>1, <3>1, <3>4 DEF Verdict
  <2> QED BY <2>2, <2>3
<1> QED BY <1>1, <1>2, <1>3

LEMMA JoinVerdict ==
    ASSUME TypeInv, NEW p \in Procs, Verdict(p),
           JoinOpen(p) \/ JoinCopy(p) \/ JoinInstall(p) \/ OpenReceipt(p) \/ WriteReceipt(p)
    PROVE  Verdict(p)'
<1>1. pc[p] \in Joining /\ UNCHANGED <<bundle, opt>> /\ opt[p].cmd = "unpack"
  BY Zenon DEF JoinOpen, JoinCopy, JoinInstall, OpenReceipt, WriteReceipt, Joining, TypeInv, Loaded
<1>2. pc'[p] \in Joining \cup {"done"}
  <2>1. pc' = pc \/ (\E c : Exit(p, c)) \/ \E l \in Joining : Goto(p, l)
    BY Zenon DEF JoinOpen, JoinCopy, JoinInstall, OpenReceipt, WriteReceipt, FailJoin, Joining
  <2> QED BY <1>1, <2>1 DEF TypeInv, TypeOK, Exit, Goto
<1> QED BY <1>1, <1>2 DEF Verdict, Joining

(* The loop looks at one more object. *)
LEMMA ObjectVerdict ==
    ASSUME TypeInv, NEW p \in Procs, Verdict(p), CheckObject(p)
    PROVE  Verdict(p)' /\ (pc'[p] = "done" => ~ Verifies(bundle))
<1> DEFINE m == vman[p]
           e == m.files[i[p]]
           o == Sources(e)[j[p]]
           here == <<i[p], j[p]>>
           past == Before(m, i[p], j[p])
           last == j[p] = Len(Sources(e))
           refused == \/ e.path \in Unsafe
                      \/ e.parts # <<>> /\ ~ PlacedPart(e.path, o)
                      \/ o.path \in seen[p]
           ok == SizeOK(m, o) /\ bundle.payload[o.path] = o.sha
<1>0. /\ pc[p] = "objects" /\ UNCHANGED <<bundle, opt, vman>>
      /\ m = bundle.manifest /\ m \in ManifestType /\ IsManifest(m)
      /\ i[p] \in 1 .. Len(m.files) /\ j[p] \in 1 .. Len(Sources(e))
  <2>1. m \in Manifests
    BY Zenon DEF CheckObject, TypeInv, Loaded
  <2>2. m \in ManifestType /\ IsManifest(m)
    BY <2>1, ManifestsShape DEF Manifests, IsManifest
  <2>3. /\ pc[p] = "objects" /\ UNCHANGED <<bundle, opt, vman>>
        /\ i[p] <= Len(m.files)
    BY Zenon DEF CheckObject
  <2>4. m = bundle.manifest
    BY <2>3 DEF Verdict
  <2>5. m.files \in Seq(EntryType) /\ i[p] \in Nat \ {0}
    BY <2>2, ManifestAssumption DEF TypeInv, TypeOK
  <2>6. i[p] \in 1 .. Len(m.files) /\ j[p] \in 1 .. Len(Sources(e))
    <3>1. i[p] \in 1 .. Len(m.files)
      <4> HIDE DEF m
      <4> QED BY <2>3, <2>5
    <3>2. j[p] \in 1 .. Len(Sources(e))
      BY <2>3, <3>1 DEF TypeInv, Cursor
    <3> QED BY <3>1, <3>2
  <2> QED BY <2>2, <2>3, <2>4, <2>6
<1>1. Scanned(p)
  BY <1>0 DEF Verdict
<1>2. here \in Positions(m) /\ here \notin past /\ ObjectAt(m, here) = o
  <2>1. here \in Positions(m)
    BY <1>0, PositionPairs
  <2>2. here \notin past /\ ObjectAt(m, here) = o
    BY <1>0 DEF Before, ObjectAt
  <2> QED BY <2>1, <2>2
<1>3. SafeAt(m, here) <=> ~ (e.path \in Unsafe \/ (e.parts # <<>> /\ ~ PlacedPart(e.path, o)))
  BY <1>2 DEF SafeAt
<1>4. past \subseteq Positions(m)
  BY DEF Before
<1>5. CASE refused
  <2>1. pc'[p] = "done" /\ exit'[p] = 1
    BY <1>5, Zenon DEF CheckObject, Exit, TypeInv, TypeOK
  <2>2. ~ SafeAt(m, here) \/ \E x \in past : ObjectAt(m, x).path = o.path
    BY <1>1, <1>3, <1>5, Zenon DEF Scanned
  <2>3. Verifies(bundle) => /\ SafeAt(m, here)
                         /\ \A x \in past : ObjectAt(m, x).path = ObjectAt(m, here).path => x = here
    <3> HIDE DEF m, here, past
    <3> QED BY <1>0, <1>2, <1>4, VerifiesByObject
  <2>4. ~ Verifies(bundle)
    BY <1>2, <2>2, <2>3
  <2> QED BY <1>0, <2>1, <2>4 DEF Verdict, Joining
<1>6. CASE ~ refused /\ bundle.payload[o.path] = Unreadable /\ Exit(p, 4)
  <2>1. pc'[p] = "done" /\ exit'[p] = 4
    BY <1>6 DEF Exit, TypeInv, TypeOK
  <2>2. o.sha # Unreadable
    <3>1. o \in Part
      BY <1>0, SourcesShape
    <3> QED BY <3>1, MediaAssumption DEF Part
  <2>3. ~ Verifies(bundle)
    <3>1. ~ WholeAt(bundle, m, here)
      BY <1>2, <1>6, <2>2 DEF WholeAt
    <3>2. Verifies(bundle) => \A x \in Positions(m) : WholeAt(bundle, m, x)
      <4> HIDE DEF m
      <4> QED BY <1>0, VerifiesByObject
    <3> HIDE DEF m, here
    <3> QED BY <1>2, <3>1, <3>2
  <2> QED BY <1>0, <2>1, <2>3 DEF Verdict, Joining
<1>7. CASE ~ refused /\ UNCHANGED <<pc, exit>>
  <2>1. /\ pc' = pc /\ seen'[p] = seen[p] \cup {o.path}
        /\ i'[p] = (IF last THEN i[p] + 1 ELSE i[p])
        /\ j'[p] = (IF last THEN 1 ELSE j[p] + 1)
    BY <1>7, Zenon DEF CheckObject, TypeInv, TypeOK
  <2>2. clean'[p] <=> clean[p] /\ ok
    <3>1. clean' = [clean EXCEPT ![p] = @ /\ ok]
      BY <1>7, Zenon DEF CheckObject
    <3>2. clean \in [Procs -> BOOLEAN]
      BY DEF TypeInv, TypeOK
    <3> QED BY <3>1, <3>2, Zenon
  <2>3. Before(m, i'[p], j'[p]) = past \cup {here}
    <3>1. Before(m, IF last THEN i[p] + 1 ELSE i[p], IF last THEN 1 ELSE j[p] + 1)
            = past \cup {here}
      BY <1>0, NextBefore, ZenonT(60)
    <3> QED BY <2>1, <3>1, Zenon
  <2>4. SafeAt(m, here) /\ \A x \in past : ObjectAt(m, x).path # o.path
    BY <1>1, <1>3, <1>7, Zenon DEF Scanned
  <2> DEFINE past2 == past \cup {here}
  <2>5. /\ seen'[p] = { ObjectAt(m, x).path : x \in past2 }
        /\ \A x \in past2 : SafeAt(m, x)
        /\ \A x, y \in past2 : ObjectAt(m, x).path = ObjectAt(m, y).path => x = y
    <3>1. /\ seen[p] = { ObjectAt(m, x).path : x \in past }
          /\ \A x \in past : SafeAt(m, x)
          /\ \A x, y \in past : ObjectAt(m, x).path = ObjectAt(m, y).path => x = y
      BY <1>1 DEF Scanned
    <3>2. ObjectAt(m, here).path = o.path /\ seen'[p] = seen[p] \cup {o.path}
      BY <1>2, <2>1
    <3>3. { ObjectAt(m, x).path : x \in past2 }
            = { ObjectAt(m, x).path : x \in past } \cup { ObjectAt(m, here).path }
      OBVIOUS
    <3> HIDE DEF m, e, o, here, past
    <3>4. seen'[p] = { ObjectAt(m, x).path : x \in past2 }
      BY <3>1, <3>2, <3>3
    <3>5. \A x \in past2 : SafeAt(m, x)
      BY <2>4, <3>1
    <3>6. \A x, y \in past2 : ObjectAt(m, x).path = ObjectAt(m, y).path => x = y
      BY <2>4, <3>1, <3>2
    <3> QED BY <3>4, <3>5, <3>6
  <2>6. clean'[p] <=> /\ bundle.sidecar = m /\ bundle.verifier = m.verifier
                      /\ \A x \in past2 : WholeAt(bundle, m, x)
    <3>1. clean[p] <=> /\ bundle.sidecar = m /\ bundle.verifier = m.verifier
                       /\ \A x \in past : WholeAt(bundle, m, x)
      BY <1>1 DEF Scanned
    <3>2. WholeAt(bundle, m, here) <=> ok
      BY <1>2 DEF WholeAt
    <3> HIDE DEF m, e, o, here, past, ok
    <3> QED BY <2>2, <3>1, <3>2
  <2>7. Scanned(p)'
    BY <1>0, <2>3, <2>5, <2>6 DEF Scanned
  <2> QED BY <1>0, <2>1, <2>7 DEF Verdict, Joining
<1>8. refused \/ (bundle.payload[o.path] = Unreadable /\ Exit(p, 4)) \/ UNCHANGED <<pc, exit>>
  BY Zenon DEF CheckObject
<1> QED BY <1>5, <1>6, <1>7, <1>8

(* The end of the loop: nothing is missing, and nothing else is there. *)
LEMMA ScanVerdict ==
    ASSUME TypeInv, NEW p \in Procs, Verdict(p), ScanExtra(p)
    PROVE  Verdict(p)' /\ (pc'[p] = "done" => exit'[p] = 0 \/ ~ Verifies(bundle))
<1> DEFINE m == vman[p]
           good == clean[p] /\ ~ HasExtra(p)
<1>0. /\ pc[p] = "objects" /\ UNCHANGED <<bundle, opt>>
      /\ m = bundle.manifest /\ m \in ManifestType /\ IsManifest(m)
      /\ i[p] \in Nat /\ i[p] > Len(m.files)
  <2>1. m \in Manifests
    BY DEF ScanExtra, TypeInv, Loaded
  <2>2. m \in ManifestType /\ IsManifest(m)
    BY <2>1, ManifestsShape DEF Manifests, IsManifest
  <2> QED BY <2>2 DEF ScanExtra, TypeInv, TypeOK, Verdict
<1>1. Before(m, i[p], j[p]) = Positions(m)
  BY <1>0, AllBefore
<1>2. /\ seen[p] = ObjectPaths(m)
      /\ \A x \in Positions(m) : SafeAt(m, x)
      /\ \A x, y \in Positions(m) : ObjectAt(m, x).path = ObjectAt(m, y).path => x = y
      /\ clean[p] <=> /\ bundle.sidecar = m /\ bundle.verifier = m.verifier
                      /\ \A x \in Positions(m) : WholeAt(bundle, m, x)
  BY <1>0, <1>1 DEF Verdict, Scanned, ObjectPaths
<1>3. good <=> Verifies(bundle)
  <2>1. HasExtra(p) <=> \E n \in Names \ ObjectPaths(m) : bundle.payload[n] # Missing
    BY <1>2 DEF HasExtra
  <2> QED BY <1>0, <1>2, <2>1, VerifiesByObject
<1>4. opt[p].cmd \in {"verify", "unpack"}
  BY OptionsAssumption DEF TypeInv, TypeOK
<1>5. CASE ~ good
  <2>1. pc'[p] = "done" /\ exit'[p] = 1
    BY <1>5 DEF ScanExtra, Exit, TypeInv, TypeOK
  <2> QED BY <1>0, <1>3, <1>5, <2>1 DEF Verdict, Joining
<1>6. CASE good
  <2>1. \/ pc'[p] = "done" /\ exit'[p] = 0
        \/ pc'[p] = "join"
    BY <1>4, <1>6, ZenonT(60) DEF ScanExtra, Exit, Goto, TypeInv, TypeOK
  <2> QED BY <1>0, <1>3, <1>6, <2>1 DEF Verdict, Joining
<1> QED BY <1>5, <1>6

-----------------------------------------------------------------------------
LEMMA StepVerdictInv == TypeInv /\ VerdictInv /\ [Next]_vars => VerdictInv'
<1> SUFFICES ASSUME TypeInv, VerdictInv, [Next]_vars PROVE VerdictInv'
  OBVIOUS
<1>1. ASSUME NEW p \in Procs, Begin(p) \/ Step(p) \/ LocalError(p) \/ RemovalFails(p) \/ Crash(p),
             undisturbed'[p] => Verdict(p)'
      PROVE  VerdictInv'
  <2>1. bundle' = bundle /\ \A q \in Procs \ {p} : Same(q)
    BY <1>1, OthersSame DEF TypeInv
  <2>2. ASSUME NEW q \in Procs \ {p}, undisturbed'[q] PROVE Verdict(q)'
    BY <2>1, <2>2, SameVerdict DEF VerdictInv, Same
  <2> QED BY <1>1, <2>2 DEF VerdictInv
<1>2. ASSUME NEW p \in Procs, Begin(p) PROVE VerdictInv'
  BY <1>1, <1>2, StartVerdict
<1>3. ASSUME NEW p \in Procs, Step(p) \/ Crash(p) PROVE VerdictInv'
  <2>1. undisturbed' = undisturbed
    BY <1>3, Zenon DEF Step, Load, DestReady, VLoad, CheckSidecar, VerifyVerifier, CheckObject,
       ScanExtra, JoinOpen, JoinCopy, JoinInstall, OpenReceipt, WriteReceipt, Crash
  <2>2. ASSUME Verdict(p) PROVE Verdict(p)'
    BY <1>3, <2>2, StartVerdict, EarlyVerdict, ObjectVerdict, ScanVerdict, JoinVerdict DEF Step
  <2> QED BY <1>1, <1>3, <2>1, <2>2 DEF VerdictInv
<1>4. ASSUME NEW p \in Procs, LocalError(p) \/ RemovalFails(p) PROVE VerdictInv'
  <2>1. ~ undisturbed'[p]
    BY <1>4 DEF LocalError, RemovalFails, TypeInv, TypeOK
  <2> QED BY <1>1, <1>4, <2>1
<1>5. CASE ChangeMedia
  BY <1>5 DEF ChangeMedia, VerdictInv
<1>6. CASE UNCHANGED vars
  <2>1. bundle' = bundle /\ \A q \in Procs : Same(q)
    BY <1>6 DEF vars, locals, Same
  <2> QED BY <2>1, SameVerdict DEF VerdictInv, Same
<1> QED BY <1>2, <1>3, <1>4, <1>5, <1>6 DEF Next

(* The verify loop gives the verdict that Verifies gives, for every bundle  *)
(* that does not change under it, and an unpack that was not told to skip   *)
(* it joins files from such a bundle only (offline.py:305-374).             *)
THEOREM VerdictIsExact == Spec => []VerdictExact
<1>1. Init => TypeInv /\ VerdictInv
  <2>1. Init => VerdictInv
    BY DEF Init, VerdictInv, Verdict, Joining
  <2> QED BY <2>1, InitTypeInv
<1>2. TypeInv /\ VerdictInv /\ [Next]_vars => (TypeInv /\ VerdictInv)'
  BY StepTypeInv, StepVerdictInv
<1>3. TypeInv /\ VerdictInv => VerdictExact
  BY DEF VerdictInv, Verdict, VerdictExact
<1> QED BY <1>1, <1>2, <1>3, PTL DEF Spec

-----------------------------------------------------------------------------
(* What an earlier run has left behind, for one process at a time.          *)

\* The first n blocks of s.
First(s, n) == SubSeq(s, 1, n)

\* The places where the parts of e begin and end, see PartsJoin.
CutsInto(cut, e) ==
    /\ cut[0] = 0 /\ cut[Len(e.parts)] = Len(e.sha)
    /\ \A k \in DOMAIN e.parts :
         /\ cut[k - 1] <= cut[k]
         /\ e.parts[k].sha = SubSeq(e.sha, cut[k - 1] + 1, cut[k])

\* b is what the objects of e before number l hold.
HashedSoFar(e, l, b) ==
    /\ l \in 1 .. Len(Sources(e)) + 1
    /\ e.parts = <<>> => b = First(e.sha, IF l = 1 THEN 0 ELSE Len(e.sha))
    /\ e.parts # <<>> =>
         \E cut \in [0 .. Len(e.parts) -> 0 .. Len(e.sha)] :
           CutsInto(cut, e) /\ b = First(e.sha, cut[l - 1])

\* The bundle passes verify and its hashes are those of its files.
Sound == Verifies(bundle) /\ HashesAgree(bundle.manifest)

\* An unpack of p goes by the manifest on the media.
Following(p) ==
    /\ \/ pc[p] \in {"dest"} \cup Joining
       \/ pc[p] \in Verifying /\ opt[p].cmd = "unpack"
       => man[p] = bundle.manifest
    /\ pc[p] = "copy" => HashedSoFar(Entry(p), j[p], buf[p])
    /\ pc[p] = "receipt" => i[p] > Len(man[p].files)

Succeeding(p) ==
    /\ Following(p)
    /\ pc[p] = "done" => exit[p] = 0 \/ destKind = "other"

\* An unpack --force of an intact bundle that nothing goes wrong around.
Recovering(p) ==
    undisturbed[p] /\ opt[p].cmd = "unpack" /\ opt[p].force /\ Sound

RecoverInv == \A p \in Procs : Recovering(p) => Succeeding(p)

-----------------------------------------------------------------------------
(* The bytes of a file, object by object. *)
LEMMA FirstNone == ASSUME NEW s \in Contents PROVE First(s, 0) = <<>> /\ First(s, Len(s)) = s
<1>1. s \in Seq(Blocks) /\ Len(s) \in Nat
  BY DEF Contents
<1>2. First(s, 0) = <<>>
  BY <1>1 DEF First
<1>3. s = [k \in 1 .. Len(s) |-> s[k]]
  <2>1. s \in [1 .. Len(s) -> Blocks]
    BY <1>1
  <2> QED BY <2>1
<1>4. First(s, Len(s)) = [k \in 1 .. Len(s) |-> s[k]]
  BY <1>1 DEF First
<1> QED BY <1>2, <1>3, <1>4

LEMMA FirstMore ==
    ASSUME NEW s \in Contents, NEW a \in 0 .. Len(s), NEW b \in 0 .. Len(s), a <= b
    PROVE  First(s, a) \o SubSeq(s, a + 1, b) = First(s, b)
<1>1. s \in Seq(Blocks) /\ Len(s) \in Nat /\ a \in Nat /\ b \in Nat /\ b - a \in Nat
  BY DEF Contents
<1> DEFINE u == First(s, a)
           v == SubSeq(s, a + 1, b)
           w == First(s, b)
<1>2. u \in Seq(Blocks) /\ Len(u) = a /\ \A k \in 1 .. a : u[k] = s[k]
  BY <1>1 DEF First
<1>3. v \in Seq(Blocks) /\ Len(v) = b - a /\ \A k \in 1 .. b - a : v[k] = s[a + k]
  BY <1>1
<1>4. w \in Seq(Blocks) /\ Len(w) = b /\ \A k \in 1 .. b : w[k] = s[k]
  BY <1>1 DEF First
<1> HIDE DEF u, v, w
<1>5. u \o v \in Seq(Blocks) /\ Len(u \o v) = b
  <2>1. Len(u \o v) = a + (b - a) /\ u \o v \in Seq(Blocks)
    BY <1>2, <1>3, ConcatProperties, Zenon
  <2>2. a + (b - a) = b
    BY <1>1
  <2> QED BY <2>1, <2>2
<1>6. ASSUME NEW k \in 1 .. b PROVE (u \o v)[k] = w[k]
  <2>1. CASE k <= a
    <3>1. (u \o v)[k] = u[k] /\ k \in 1 .. a
      BY <1>1, <1>2, <1>3, <2>1
    <3> QED BY <1>2, <1>4, <3>1
  <2>2. CASE ~ (k <= a)
    <3>1. (u \o v)[k] = v[k - a] /\ k - a \in 1 .. b - a
      BY <1>1, <1>2, <1>3, <2>2
    <3> QED BY <1>1, <1>3, <1>4, <3>1
  <2> QED BY <2>1, <2>2
<1>7. u \o v = w
  BY <1>4, <1>5, <1>6, SeqEqual
<1> QED BY <1>7 DEF u, v, w

LEMMA EntryShape ==
    ASSUME NEW e \in EntryType
    PROVE  /\ e.sha \in Contents /\ Len(e.sha) \in Nat /\ Len(e.parts) \in Nat
           /\ DOMAIN e.parts = 1 .. Len(e.parts) /\ e.parts \in Seq(Part)
           /\ e.parts = <<>> => Len(Sources(e)) = 1 /\ Sources(e)[1].sha = e.sha
           /\ e.parts # <<>> => Sources(e) = e.parts /\ Len(e.parts) >= 1
  BY DEF EntryType, Sources, Contents

LEMMA HashNone ==
    ASSUME NEW e \in EntryType, e.parts # <<>> => PartsJoin(e)
    PROVE  HashedSoFar(e, 1, <<>>)
<1>1. 1 \in 1 .. Len(Sources(e)) + 1 /\ First(e.sha, 0) = <<>>
  BY EntryShape, FirstNone
<1>2. ASSUME e.parts # <<>>
      PROVE  \E cut \in [0 .. Len(e.parts) -> 0 .. Len(e.sha)] : CutsInto(cut, e) /\ cut[0] = 0
  BY <1>2 DEF PartsJoin, CutsInto
<1> QED BY <1>1, <1>2 DEF HashedSoFar

LEMMA HashNext ==
    ASSUME NEW e \in EntryType, NEW l \in 1 .. Len(Sources(e)), NEW b, HashedSoFar(e, l, b)
    PROVE  HashedSoFar(e, l + 1, b \o Sources(e)[l].sha)
<1>1. CASE e.parts = <<>>
  <2>0. Len(Sources(e)) = 1 /\ Sources(e)[1].sha = e.sha
    BY <1>1, EntryShape
  <2>1. l = 1 /\ b = <<>> /\ Sources(e)[l].sha = e.sha /\ Len(Sources(e)) = 1
    <3>1. l = 1
      BY <2>0
    <3>2. First(e.sha, 0) = <<>>
      BY EntryShape, FirstNone
    <3> QED BY <1>1, <2>0, <3>1, <3>2 DEF HashedSoFar
  <2>2. b \o e.sha = First(e.sha, Len(e.sha))
    <3>1. e.sha \in Seq(Blocks)
      BY EntryShape DEF Contents
    <3> QED BY <2>1, <3>1, EntryShape, FirstNone, ConcatEmptySeq
  <2> QED BY <1>1, <2>1, <2>2 DEF HashedSoFar
<1>2. CASE e.parts # <<>>
  <2>1. l \in 1 .. Len(e.parts) /\ Sources(e) = e.parts
    BY <1>2, EntryShape
  <2>2. PICK cut \in [0 .. Len(e.parts) -> 0 .. Len(e.sha)] :
          CutsInto(cut, e) /\ b = First(e.sha, cut[l - 1])
    BY <1>2 DEF HashedSoFar
  <2>3. /\ cut[l - 1] \in 0 .. Len(e.sha) /\ cut[l] \in 0 .. Len(e.sha)
        /\ cut[l - 1] <= cut[l]
        /\ e.parts[l].sha = SubSeq(e.sha, cut[l - 1] + 1, cut[l])
    <3>1. l - 1 \in 0 .. Len(e.parts) /\ l \in 0 .. Len(e.parts) /\ l \in DOMAIN e.parts
      BY <2>1, EntryShape
    <3> QED BY <2>2, <3>1 DEF CutsInto
  <2>4. b \o e.parts[l].sha = First(e.sha, cut[l])
    BY <2>2, <2>3, EntryShape, FirstMore
  <2>5. l + 1 \in 1 .. Len(Sources(e)) + 1 /\ (l + 1) - 1 = l
    BY <2>1, EntryShape
  <2> QED BY <1>2, <2>1, <2>2, <2>4, <2>5 DEF HashedSoFar
<1> QED BY <1>1, <1>2

LEMMA HashAll ==
    ASSUME NEW e \in EntryType, NEW l, l > Len(Sources(e)), NEW b, HashedSoFar(e, l, b)
    PROVE  b = e.sha
<1>1. CASE e.parts = <<>>
  <2>1. l # 1
    BY <1>1, EntryShape DEF HashedSoFar
  <2> QED BY <1>1, <2>1, EntryShape, FirstNone DEF HashedSoFar
<1>2. CASE e.parts # <<>>
  <2>1. l - 1 = Len(e.parts)
    BY <1>2, EntryShape DEF HashedSoFar
  <2>2. PICK cut : CutsInto(cut, e) /\ b = First(e.sha, cut[l - 1])
    BY <1>2 DEF HashedSoFar
  <2> QED BY <2>1, <2>2, EntryShape, FirstNone DEF CutsInto
<1> QED BY <1>1, <1>2

-----------------------------------------------------------------------------
(* An unpack goes by the manifest on the media as long as that stays. *)
LEMMA EarlyFollows ==
    ASSUME TypeInv, NEW p \in Procs, Following(p),
           \/ Load(p) \/ DestReady(p) \/ VLoad(p) \/ CheckSidecar(p) \/ VerifyVerifier(p)
           \/ CheckObject(p) \/ ScanExtra(p)
    PROVE  Following(p)'
<1> USE DEF TypeInv, TypeOK, Following, Verifying, Joining
<1>1. CASE Load(p)
  <2>1. /\ bundle' = bundle
        /\ (pc'[p] = "dest" /\ man'[p] = bundle.manifest) \/ pc'[p] = "done"
    BY <1>1 DEF Load, Goto, Exit
  <2> QED BY <2>1
<1>2. CASE DestReady(p) \/ VLoad(p) \/ CheckSidecar(p) \/ VerifyVerifier(p)
  <2>1. /\ UNCHANGED <<bundle, man, opt>>
        /\ pc[p] = "dest" \/ pc[p] \in Verifying
    BY <1>2 DEF DestReady, VLoad, CheckSidecar, VerifyVerifier
  <2>2. pc'[p] \in Verifying \cup {"join", "done"} /\ (pc'[p] = "join" => pc[p] = "dest")
    BY <1>2 DEF DestReady, VLoad, CheckSidecar, VerifyVerifier, Exit, Goto
  <2> QED BY <2>1, <2>2
<1>3. CASE CheckObject(p)
  <2>1. UNCHANGED <<bundle, man, opt>> /\ pc[p] = "objects"
    BY <1>3, Zenon DEF CheckObject
  <2>2. pc' = pc \/ \E c : Exit(p, c)
    BY <1>3, Zenon DEF CheckObject
  <2>3. pc'[p] \in {"objects", "done"}
    BY <2>1, <2>2 DEF Exit
  <2> QED BY <2>1, <2>3
<1>4. CASE ScanExtra(p)
  <2>1. UNCHANGED <<bundle, man, opt>> /\ pc[p] = "objects"
    BY <1>4 DEF ScanExtra
  <2>2. opt[p].cmd \in {"verify", "unpack"}
    BY OptionsAssumption
  <2>3. (Goto(p, "join") /\ opt[p].cmd = "unpack") \/ \E c : Exit(p, c)
    BY <1>4, <2>2 DEF ScanExtra
  <2>4. pc'[p] = "done" \/ (pc'[p] = "join" /\ opt[p].cmd = "unpack")
    BY <2>3 DEF Exit, Goto
  <2> QED BY <2>1, <2>4
<1> QED BY <1>1, <1>2, <1>3, <1>4

\* The entry such an unpack is about to join, or is joining.
LEMMA EntryFollows ==
    ASSUME TypeInv, Sound, NEW p \in Procs, Following(p),
           pc[p] \in {"join", "copy"}, i[p] <= Len(man[p].files)
    PROVE  /\ man[p] = bundle.manifest /\ man[p] \in ManifestType
           /\ i[p] \in 1 .. Len(man[p].files) /\ Entry(p) \in EntryType
           /\ SafeEntry(Entry(p))
           /\ Entry(p).parts # <<>> => PartsJoin(Entry(p))
           /\ \A l \in 1 .. Len(Sources(Entry(p))) :
                /\ Sources(Entry(p))[l] \in Part
                /\ bundle.payload[Sources(Entry(p))[l].path] = Sources(Entry(p))[l].sha
<1>1. man[p] = bundle.manifest /\ man[p] \in ManifestType /\ IsManifest(man[p])
  <2>1. man[p] = bundle.manifest /\ man[p] \in Manifests
    BY DEF Following, TypeInv, Loaded, Joining
  <2> QED BY <2>1, ManifestsShape DEF Manifests, IsManifest
<1>2. /\ i[p] \in 1 .. Len(man[p].files) /\ Entry(p) \in EntryType
      /\ DOMAIN man[p].files = 1 .. Len(man[p].files)
  <2>1. i[p] \in Nat \ {0}
    BY DEF TypeInv, TypeOK
  <2> QED BY <1>1, <2>1, ManifestAssumption DEF Entry
<1>3. SafeEntry(Entry(p)) /\ (Entry(p).parts # <<>> => PartsJoin(Entry(p)))
  BY <1>1, <1>2 DEF Sound, Verifies, Intact, HashesAgree, Entry
<1>4. ASSUME NEW l \in 1 .. Len(Sources(Entry(p)))
      PROVE  /\ Sources(Entry(p))[l] \in Part
             /\ bundle.payload[Sources(Entry(p))[l].path] = Sources(Entry(p))[l].sha
  <2>1. <<i[p], l>> \in Positions(man[p])
    BY <1>1, <1>2, <1>4, PositionPairs DEF Entry
  <2>2. ObjectAt(man[p], <<i[p], l>>) = Sources(Entry(p))[l]
    BY DEF ObjectAt, Entry
  <2>3. Sources(Entry(p)) \in Seq(Part)
    BY <1>1, <1>2, SourcesShape DEF Entry
  <2> QED BY <1>1, <2>1, <2>2, <2>3 DEF Sound, Verifies, Intact
<1> QED BY <1>1, <1>2, <1>3, <1>4

LEMMA OpenFollows ==
    ASSUME TypeInv, Sound, NEW p \in Procs, Following(p), JoinOpen(p)
    PROVE  /\ Following(p)' /\ SafeEntry(Entry(p))
           /\ pc'[p] = "copy" /\ j'[p] = 1 /\ buf'[p] = <<>> /\ Entry(p)' = Entry(p)
<1>1. /\ man[p] = bundle.manifest /\ SafeEntry(Entry(p)) /\ Entry(p) \in EntryType
      /\ HashedSoFar(Entry(p), 1, <<>>)
  <2>1. pc[p] = "join" /\ i[p] <= Len(man[p].files)
    BY DEF JoinOpen
  <2> QED BY <2>1, EntryFollows, HashNone
<1>2. /\ UNCHANGED <<bundle, man, i>> /\ pc'[p] = "copy" /\ j'[p] = 1 /\ buf'[p] = <<>>
  BY <1>1 DEF JoinOpen, Goto, TypeInv, TypeOK
<1>3. Entry(p)' = Entry(p)
  BY <1>2 DEF Entry
<1> QED BY <1>1, <1>2, <1>3 DEF Following

LEMMA CopyFollows ==
    ASSUME TypeInv, Sound, NEW p \in Procs, Following(p), JoinCopy(p)
    PROVE  LET s == bundle.payload[Sources(Entry(p))[j[p]].path]
           IN /\ Following(p)' /\ s \in Contents
              /\ s \notin {Link, Missing, Unreadable}
              /\ UNCHANGED <<bundle, man, i, pc, exit>>
              /\ j'[p] = j[p] + 1 /\ buf'[p] = buf[p] \o s /\ Entry(p)' = Entry(p)
<1> DEFINE e == Entry(p)
           s == bundle.payload[Sources(e)[j[p]].path]
<1>1. /\ pc[p] = "copy" /\ j[p] \in 1 .. Len(Sources(e)) /\ i[p] <= Len(man[p].files)
  <2>1. pc[p] = "copy" /\ j[p] \in Nat \ {0} /\ j[p] <= Len(Sources(e))
        /\ Sources(e) \in Seq(Part) /\ i[p] <= Len(man[p].files)
    BY CurrentShape DEF AtEntry, JoinCopy, TypeInv, TypeOK, Cursor
  <2> QED BY <2>1
<1>2. /\ man[p] = bundle.manifest /\ e \in EntryType
      /\ s = Sources(e)[j[p]].sha /\ s \in Contents
  BY <1>1, EntryFollows DEF Part
<1>3. s \notin {Link, Missing, Unreadable}
  BY <1>2, MediaAssumption
<1>4. /\ UNCHANGED <<bundle, man, i, pc, exit>>
      /\ j'[p] = j[p] + 1 /\ buf'[p] = buf[p] \o s
  <2>1. UNCHANGED <<bundle, man, i, pc, exit>> /\ buf' = [buf EXCEPT ![p] = @ \o s]
        /\ j' = [j EXCEPT ![p] = @ + 1]
    BY <1>3 DEF JoinCopy
  <2> QED BY <2>1 DEF TypeInv, TypeOK
<1>5. HashedSoFar(e, j'[p], buf'[p])
  BY <1>1, <1>2, <1>4, HashNext DEF Following
<1>6. Entry(p)' = e
  BY <1>4, Zenon DEF Entry
<1>7. Following(p)'
  BY <1>1, <1>2, <1>4, <1>5, <1>6 DEF Following
<1> QED BY <1>2, <1>3, <1>4, <1>6, <1>7

LEMMA InstallFollows ==
    ASSUME TypeInv, Sound, NEW p \in Procs, Following(p), JoinInstall(p)
    PROVE  /\ HashOK(p) /\ Following(p)'
           /\ UNCHANGED <<bundle, man>>
           /\ final[Temp(p)] = NoFile => FailJoin(p, 4) /\ pc'[p] = "done"
           /\ final[Temp(p)] # NoFile => pc'[p] = "join"
<1>1. pc[p] = "copy" /\ j[p] > Len(Sources(Entry(p))) /\ i[p] <= Len(man[p].files)
  BY DEF JoinInstall, TypeInv, Cursor
<1>2. man[p] = bundle.manifest /\ Entry(p) \in EntryType
  BY <1>1, EntryFollows
<1>3. HashOK(p)
  BY <1>1, <1>2, HashAll DEF Following, HashOK
<1>4. UNCHANGED <<bundle, man>>
  BY DEF JoinInstall
<1>5. CASE final[Temp(p)] = NoFile
  <2>1. FailJoin(p, 4)
    BY <1>3, <1>5 DEF JoinInstall
  <2>2. pc'[p] = "done"
    BY <2>1 DEF FailJoin, Exit, TypeInv, TypeOK
  <2> QED BY <1>3, <1>4, <1>5, <2>1, <2>2 DEF Following, Joining, Verifying
<1>6. CASE final[Temp(p)] # NoFile
  <2>1. pc'[p] = "join"
    BY <1>3, <1>6 DEF JoinInstall, Goto, TypeInv, TypeOK
  <2> QED BY <1>2, <1>3, <1>4, <1>6, <2>1 DEF Following
<1> QED BY <1>5, <1>6

LEMMA ReceiptFollows ==
    ASSUME TypeInv, NEW p \in Procs, Following(p), OpenReceipt(p) \/ WriteReceipt(p)
    PROVE  /\ Following(p)' /\ UNCHANGED <<bundle, man, i>>
           /\ i[p] > Len(man[p].files) /\ man[p] = bundle.manifest
           /\ pc[p] \in {"join", "receipt"}
           /\ \/ pc'[p] = "receipt"
              \/ pc'[p] = "done" /\ exit'[p] = 0
<1>1. /\ UNCHANGED <<bundle, man, i>> /\ pc[p] \in {"join", "receipt"}
      /\ i[p] > Len(man[p].files)
  BY DEF OpenReceipt, WriteReceipt, Following
<1>2. \/ pc'[p] = "receipt"
      \/ pc'[p] = "done" /\ exit'[p] = 0
  BY DEF OpenReceipt, WriteReceipt, Exit, Goto, TypeInv, TypeOK
<1> QED BY <1>1, <1>2 DEF Following, Joining, Verifying

-----------------------------------------------------------------------------
(* No step of a recovering run ends it but with exit code 0. *)
LEMMA EarlyRecovers ==
    ASSUME TypeInv, NEW p \in Procs, Recovering(p), Succeeding(p), Verdict(p),
           \/ Load(p) \/ DestReady(p) \/ VLoad(p) \/ CheckSidecar(p) \/ VerifyVerifier(p)
           \/ CheckObject(p) \/ ScanExtra(p)
    PROVE  Succeeding(p)'
<1>0. Following(p)'
  BY EarlyFollows DEF Succeeding
<1>1. CASE Load(p)
  <2>1. pc'[p] = "dest"
    BY <1>1 DEF Load, Goto, Recovering, Sound, Verifies, Intact, TypeInv, TypeOK
  <2> QED BY <1>0, <2>1 DEF Succeeding
<1>2. CASE DestReady(p)
  <2>1. CASE DestRefused(p)
    <3>1. destKind' = "other"
      BY <1>2, <2>1 DEF DestReady, DestRefused, Recovering
    <3> QED BY <1>0, <3>1 DEF Succeeding
  <2>2. CASE ~ DestRefused(p)
    <3>1. pc'[p] \in {"join", "vload"}
      BY <1>2, <2>2 DEF DestReady, Goto, TypeInv, TypeOK
    <3> QED BY <1>0, <3>1 DEF Succeeding
  <2> QED BY <2>1, <2>2
<1>3. CASE VLoad(p) \/ CheckSidecar(p) \/ VerifyVerifier(p) \/ CheckObject(p)
  <2>1. pc'[p] # "done"
    BY <1>3, EarlyVerdict, ObjectVerdict DEF Recovering, Sound
  <2> QED BY <1>0, <2>1 DEF Succeeding
<1>4. CASE ScanExtra(p)
  <2>1. pc'[p] = "done" => exit'[p] = 0
    BY <1>4, ScanVerdict DEF Recovering, Sound
  <2> QED BY <1>0, <2>1 DEF Succeeding
<1> QED BY <1>1, <1>2, <1>3, <1>4

LEMMA JoinRecovers ==
    ASSUME TypeInv, NEW p \in Procs, Recovering(p), Succeeding(p), Faithful(p),
           \/ JoinOpen(p) \/ JoinCopy(p) \/ JoinInstall(p) \/ OpenReceipt(p) \/ WriteReceipt(p)
    PROVE  Succeeding(p)'
<1>1. Sound /\ Following(p)
  BY DEF Recovering, Succeeding
<1>2. CASE JoinOpen(p)
  <2>1. Following(p)' /\ pc'[p] = "copy"
    BY <1>1, <1>2, OpenFollows
  <2> QED BY <2>1 DEF Succeeding
<1>3. CASE JoinCopy(p)
  <2>1. Following(p)' /\ pc' = pc /\ pc[p] = "copy"
    BY <1>1, <1>3, CopyFollows, Zenon DEF JoinCopy
  <2> QED BY <2>1 DEF Succeeding
<1>4. CASE JoinInstall(p)
  <2>1. final[Temp(p)] # NoFile
    BY <1>4 DEF JoinInstall, Faithful, TypeInv, Handle
  <2>2. Following(p)' /\ pc'[p] = "join"
    BY <1>1, <1>4, <2>1, InstallFollows
  <2> QED BY <2>2 DEF Succeeding
<1>5. CASE OpenReceipt(p) \/ WriteReceipt(p)
  <2>1. Following(p)' /\ (pc'[p] = "receipt" \/ exit'[p] = 0)
    BY <1>1, <1>5, ReceiptFollows
  <2> QED BY <2>1 DEF Succeeding
<1> QED BY <1>2, <1>3, <1>4, <1>5

LEMMA StepRecoverInv ==
    ASSUME OneProcess, SafeInv, VerdictInv, RecoverInv, [Next]_vars
    PROVE  RecoverInv'
<1> SUFFICES ASSUME NEW p \in Procs, Recovering(p)' PROVE Succeeding(p)'
  BY DEF RecoverInv
<1>0. TypeInv /\ Faithful(p)
  BY DEF SafeInv
<1>1. CASE Begin(p)
  <2>1. pc'[p] = "load"
    BY <1>0, <1>1 DEF Begin, Recovering, TypeInv, TypeOK
  <2> QED BY <2>1 DEF Succeeding, Following, Verifying, Joining
<1>2. CASE Step(p)
  <2>1. UNCHANGED <<bundle, opt, undisturbed>>
    BY <1>2, Zenon DEF Step, Load, DestReady, VLoad, CheckSidecar, VerifyVerifier, CheckObject,
       ScanExtra, JoinOpen, JoinCopy, JoinInstall, OpenReceipt, WriteReceipt
  <2>2. Recovering(p) /\ Succeeding(p) /\ Verdict(p)
    BY <2>1 DEF Recovering, Sound, RecoverInv, VerdictInv
  <2> QED BY <1>0, <1>2, <2>2, EarlyRecovers, JoinRecovers DEF Step
<1>3. CASE LocalError(p) \/ RemovalFails(p) \/ ChangeMedia
  <2>1. ~ undisturbed'[p]
    BY <1>0, <1>3 DEF LocalError, RemovalFails, ChangeMedia, TypeInv, TypeOK
  <2> QED BY <2>1 DEF Recovering
<1>4. CASE Crash(p)
  <2>1. pc'[p] = "crashed"
    BY <1>0, <1>4 DEF Crash, TypeInv, TypeOK
  <2> QED BY <2>1 DEF Succeeding, Following, Verifying, Joining
<1>5. CASE UNCHANGED vars
  BY <1>5 DEF vars, dest, locals, RecoverInv, Recovering, Sound, Succeeding,
     Following, HashedSoFar, Entry
<1>6. \A q \in Procs : q = p
  BY DEF OneProcess
<1> QED BY <1>1, <1>2, <1>3, <1>4, <1>5, <1>6 DEF Next

(* Whatever earlier runs of one process at a time have left behind, the    *)
(* next undisturbed "unpack --force" of an intact bundle ends with exit    *)
(* code 0 (offline.py:380-390, 410-430).                                   *)
THEOREM ForcedRunSucceeds == OneProcess => (Spec => []ForcedRunRecovers)
<1> SUFFICES ASSUME OneProcess PROVE Spec => []ForcedRunRecovers
  OBVIOUS
<1> DEFINE Inv == SafeInv /\ VerdictInv /\ RecoverInv
<1>1. Init => Inv
  <2>1. Init => SafeInv
    BY InitSafeInv
  <2>2. Init => VerdictInv /\ RecoverInv
    BY DEF Init, VerdictInv, Verdict, RecoverInv, Succeeding,
       Following, Verifying, Joining
  <2> QED BY <2>1, <2>2
<1>2. Inv /\ [Next]_vars => Inv'
  <2>1. SafeInv => TypeInv
    BY DEF SafeInv
  <2> QED BY <2>1, StepSafeInv, StepVerdictInv, StepRecoverInv
<1>3. Inv => ForcedRunRecovers
  BY DEF RecoverInv, Recovering, Sound, Succeeding, ForcedRunRecovers
<1> QED BY <1>1, <1>2, <1>3, PTL DEF Spec

-----------------------------------------------------------------------------
(* Several unpacks into one destination at a time.                          *)

\* Nothing has gone wrong or changed the media so far.
Calm ==
    /\ budget.errors = MaxErrors /\ budget.crashes = MaxCrashes
    /\ budget.changes = MaxChanges /\ budget.stuck = MaxStuck
    /\ Sound /\ PathsApart(bundle.manifest) /\ FirstKind = "none"

Succeeded(p) == pc[p] = "done" /\ opt[p].cmd = "unpack" /\ exit[p] = 0

\* p has put entry k in place.
Past(p, k) == (pc[p] \in Joining /\ k < i[p]) \/ Succeeded(p)

\* What p holds open has the temporary name, or the name it was renamed to.
Held(p) == out[p] \subseteq {Temp(p), Current(p)}

\* q has written what it has read of e to the file with contents c.
WholeBy(q, c, e, where) ==
    /\ pc[q] = "copy" /\ Current(q) = e.path /\ where \in out[q]
    /\ Len(buf[q]) <= Len(c)
    /\ \A k \in 1 .. Len(buf[q]) : c[k] = e.sha[k]

\* c is the file that e declares, or some process that holds it open will
\* have made it that before it is done with it.
Whole(c, e, where) ==
    /\ c \in FileContents /\ Len(c) <= Len(e.sha)
    /\ c = e.sha \/ \E q \in Procs : WholeBy(q, c, e, where)

WholeAs(e, where) == Whole(final[where], e, where)

TempWhole ==
    \A k \in DOMAIN bundle.manifest.files :
      LET e == bundle.manifest.files[k]
      IN final[TempName(e.path)] # NoFile => WholeAs(e, TempName(e.path))

FinalWhole ==
    \A p \in Procs, k \in DOMAIN bundle.manifest.files :
      LET e == bundle.manifest.files[k]
      IN Past(p, k) /\ e.path # ReceiptName => WholeAs(e, e.path)

\* Another process has renamed the file that p writes.
Robbed(p) == pc[p] = "copy" /\ final[Temp(p)] = NoFile

Winning(p) == (pc[p] \in Running /\ ~ Robbed(p)) \/ Succeeded(p)

\* Some forced unpack goes on or has succeeded: the last to rename a file.
Winner ==
    (\E p \in Procs : pc[p] # "idle") =>
      \E w \in Procs :
        /\ pc[w] # "idle"
        /\ opt[w].cmd = "unpack" /\ opt[w].force => Winning(w)

CalmInv ==
    /\ \A p \in Procs : undisturbed[p] /\ Following(p) /\ Held(p)
    /\ Winner /\ TempWhole /\ FinalWhole

ConvergeInv ==
    /\ budget.errors <= MaxErrors /\ budget.crashes <= MaxCrashes
    /\ budget.changes <= MaxChanges /\ budget.stuck <= MaxStuck
    /\ FirstKind = "none" => destKind # "other"
    /\ Calm => CalmInv

-----------------------------------------------------------------------------
(* What is hashed is what the file begins with. *)
LEMMA HashedPrefix ==
    ASSUME NEW e \in EntryType, NEW l, NEW b, HashedSoFar(e, l, b)
    PROVE  /\ b \in Contents /\ Len(b) \in Nat /\ Len(b) <= Len(e.sha)
           /\ \A k \in 1 .. Len(b) : b[k] = e.sha[k]
<1>1. PICK n \in 0 .. Len(e.sha) : b = First(e.sha, n)
  <2>1. CASE e.parts = <<>>
    <3>1. 0 \in 0 .. Len(e.sha) /\ Len(e.sha) \in 0 .. Len(e.sha)
      BY EntryShape
    <3> QED BY <2>1, <3>1 DEF HashedSoFar
  <2>2. CASE e.parts # <<>>
    <3>1. PICK cut \in [0 .. Len(e.parts) -> 0 .. Len(e.sha)] : b = First(e.sha, cut[l - 1])
      BY <2>2 DEF HashedSoFar
    <3>2. l - 1 \in 0 .. Len(e.parts)
      BY <2>2, EntryShape DEF HashedSoFar
    <3> QED BY <3>1, <3>2
  <2> QED BY <2>1, <2>2
<1>2. e.sha \in Seq(Blocks) /\ Len(e.sha) \in Nat
  BY EntryShape DEF Contents
<1>3. b \in Seq(Blocks) /\ Len(b) = n /\ \A k \in 1 .. n : b[k] = e.sha[k]
  BY <1>1, <1>2 DEF First
<1> QED BY <1>1, <1>2, <1>3 DEF Contents

(* A process that writes what belongs where it writes spoils no file, its  *)
(* own gap in it aside.                                                    *)
LEMMA WriteKeeps ==
    ASSUME NEW t \in Contents, NEW c \in FileContents, NEW s \in Contents, NEW off \in Nat,
           Len(c) <= Len(t), off + Len(s) <= Len(t),
           \A k \in 1 .. Len(s) : s[k] = t[off + k]
    PROVE  LET w == WriteAt(c, off, s)
           IN /\ w \in FileContents /\ Len(w) <= Len(t)
              /\ Len(c) <= Len(w) /\ off + Len(s) <= Len(w)
              /\ \A k \in 1 .. Len(c) : c[k] = t[k] => w[k] = t[k]
              /\ \A k \in off + 1 .. off + Len(s) : w[k] = t[k]
<1> DEFINE n == IF Len(c) > off + Len(s) THEN Len(c) ELSE off + Len(s)
           w == WriteAt(c, off, s)
<1>1. Len(c) \in Nat /\ Len(s) \in Nat /\ Len(t) \in Nat
  BY DEF Contents, FileContents
<1>2. n \in Nat /\ n <= Len(t) /\ Len(c) <= n /\ off + Len(s) <= n
  BY <1>1
<1>3. w \in FileContents
  BY WriteAtShape
<1>4. DOMAIN w = 1 .. n
  BY DEF WriteAt
<1>5. Len(w) = n
  <2>1. DOMAIN w = 1 .. Len(w) /\ Len(w) \in Nat
    BY <1>3 DEF FileContents
  <2> HIDE DEF w, n
  <2> QED BY <1>2, <1>4, <2>1
<1>6. ASSUME NEW k \in off + 1 .. off + Len(s) PROVE w[k] = t[k]
  <2>1. k \in 1 .. n /\ k - off \in 1 .. Len(s) /\ off + (k - off) = k
    BY <1>1, <1>2
  <2>2. w[k] = s[k - off]
    BY <2>1 DEF WriteAt
  <2> QED BY <2>1, <2>2
<1>7. ASSUME NEW k \in 1 .. Len(c), c[k] = t[k] PROVE w[k] = t[k]
  <2>1. CASE k \in off + 1 .. off + Len(s)
    BY <1>6, <2>1
  <2>2. CASE k \notin off + 1 .. off + Len(s)
    <3>1. k \in 1 .. n /\ k <= Len(c)
      BY <1>1, <1>2
    <3>2. w[k] = c[k]
      BY <2>2, <3>1 DEF WriteAt
    <3> QED BY <1>7, <3>2
  <2> QED BY <2>1, <2>2
<1> HIDE DEF w, n
<1>8. /\ w \in FileContents /\ Len(w) <= Len(t)
      /\ Len(c) <= Len(w) /\ off + Len(s) <= Len(w)
      /\ \A k \in 1 .. Len(c) : c[k] = t[k] => w[k] = t[k]
      /\ \A k \in off + 1 .. off + Len(s) : w[k] = t[k]
  BY <1>2, <1>3, <1>5, <1>6, <1>7
<1> QED BY <1>8 DEF w

\* Contents that agree with t over all of its length are t.
LEMMA SameContents ==
    ASSUME NEW t \in Contents, NEW c \in FileContents, Len(c) = Len(t),
           \A k \in 1 .. Len(t) : c[k] = t[k]
    PROVE  c = t
<1>1. t \in Seq(FileBlocks) /\ c \in Seq(FileBlocks)
  BY ContentsAreFileContents DEF FileContents
<1> QED BY <1>1, SeqEqual

-----------------------------------------------------------------------------
\* A process other than the one that steps, and what it holds open.
Idle(q) == Same(q) /\ Current(q)' = Current(q)

LEMMA OthersIdle ==
    ASSUME TypeOK, NEW p \in Procs, Begin(p) \/ Step(p) \/ LocalError(p) \/ RemovalFails(p) \/ Crash(p)
    PROVE  bundle' = bundle /\ \A q \in Procs \ {p} : Idle(q)
<1>1. bundle' = bundle /\ \A q \in Procs \ {p} : Same(q)
  BY OthersSame
<1>2. ASSUME NEW q, Same(q) PROVE Idle(q)
  BY <1>2 DEF Idle, Same, Current, Entry
<1> QED BY <1>1, <1>2

LEMMA IdleFollows ==
    ASSUME NEW q \in Procs, bundle' = bundle, Idle(q), Following(q)
    PROVE  Following(q)'
  BY DEF Idle, Same, Following, HashedSoFar, Entry

(* The steps before the files are joined leave the destination's files. *)
LEMMA EarlyEffect ==
    ASSUME TypeInv, NEW p \in Procs,
           \/ Begin(p) \/ Load(p) \/ DestReady(p) \/ VLoad(p) \/ CheckSidecar(p)
           \/ VerifyVerifier(p) \/ CheckObject(p) \/ ScanExtra(p)
    PROVE  /\ UNCHANGED <<final, out>> /\ pc[p] \notin Joining
           /\ pc'[p] \in {"load", "dest", "join", "done"} \cup Verifying
           /\ pc'[p] = "join" => i'[p] = 1
           /\ ~ Succeeded(p)'
           /\ ~ Begin(p) => pc[p] \in Running
<1> USE DEF TypeInv, TypeOK, Joining, Verifying, Running, Succeeded, dest
<1>1. CASE Begin(p)
  <2>1. UNCHANGED <<final, out>> /\ pc[p] \in {"idle", "done", "crashed"}
        /\ pc'[p] \in {"load", "vload"}
    BY <1>1 DEF Begin
  <2> QED BY <1>1, <2>1
<1>2. CASE Load(p)
  <2>1. UNCHANGED <<final, out>> /\ pc[p] = "load"
        /\ (pc'[p] = "dest" \/ (pc'[p] = "done" /\ exit'[p] = 2))
    BY <1>2 DEF Load, Exit, Goto
  <2> QED BY <2>1
<1>3. CASE DestReady(p)
  <2>1. UNCHANGED <<final, out, i>> /\ pc[p] = "dest"
    BY <1>3 DEF DestReady
  <2>2. i[p] = 1
    BY <2>1 DEF Cursor
  <2>3. (pc'[p] = "done" /\ exit'[p] = 4) \/ pc'[p] = "vload" \/ pc'[p] = "join"
    BY <1>3, DestReadyEffect
  <2> QED BY <2>1, <2>2, <2>3
<1>4. CASE VLoad(p)
  <2>1. UNCHANGED <<final, out>> /\ pc[p] = "vload"
        /\ (pc'[p] = "sidecar" \/ (pc'[p] = "done" /\ exit'[p] = 2))
    BY <1>4 DEF VLoad, Exit, Goto
  <2> QED BY <2>1
<1>5. CASE CheckSidecar(p) \/ VerifyVerifier(p)
  <2>1. UNCHANGED <<final, out>> /\ pc[p] \in {"sidecar", "tool"}
        /\ \/ pc'[p] \in {"tool", "objects"}
           \/ pc'[p] = "done" /\ exit'[p] = 1
    BY <1>5 DEF CheckSidecar, VerifyVerifier, Exit, Goto
  <2> QED BY <2>1
<1>6. CASE CheckObject(p)
  <2>1. UNCHANGED <<final, out>> /\ pc[p] = "objects"
    BY <1>6, Zenon DEF CheckObject
  <2>2. pc' = pc \/ \E c \in {1, 4} : Exit(p, c)
    BY <1>6, Zenon DEF CheckObject
  <2>3. pc'[p] = "objects" \/ (pc'[p] = "done" /\ exit'[p] # 0)
    BY <2>1, <2>2 DEF Exit
  <2> QED BY <2>1, <2>3
<1>7. CASE ScanExtra(p)
  <2>1. UNCHANGED <<final, out, opt>> /\ pc[p] = "objects"
    BY <1>7 DEF ScanExtra
  <2>2. \/ pc'[p] = "done" /\ exit'[p] = 1
        \/ pc'[p] = "done" /\ opt[p].cmd = "verify"
        \/ pc'[p] = "join" /\ i'[p] = 1
    BY <1>7, ScanExtraEffect
  <2> QED BY <2>1, <2>2
<1> QED BY <1>1, <1>2, <1>3, <1>4, <1>5, <1>6, <1>7

-----------------------------------------------------------------------------
(* What the steps do to the files under way. *)

LEMMA DeclaredShape ==
    ASSUME TypeInv, Sound, NEW k \in DOMAIN bundle.manifest.files
    PROVE  /\ bundle.manifest \in ManifestType /\ k \in 1 .. Len(bundle.manifest.files)
           /\ bundle.manifest.files[k].path \in Names
           /\ bundle.manifest.files[k].path \in Places
           /\ TempName(bundle.manifest.files[k].path) \in Places
           /\ bundle.manifest.files[k].sha \in Contents
<1>1. bundle.manifest \in ManifestType
  BY ManifestsShape DEF Sound, Verifies, Intact, IsManifest, TypeInv, TypeOK
<1>2. k \in 1 .. Len(bundle.manifest.files)
  BY <1>1, ManifestAssumption
<1> QED BY <1>1, <1>2, SourcesShape, PlacesShape

\* The file with contents c has the same writers as before.
LEMMA WholeStays ==
    ASSUME NEW p \in Procs, NEW c, NEW e, NEW where, Whole(c, e, where),
           \A q \in Procs \ {p} : Idle(q),
           \A q \in Procs \ {p} : Current(q) = e.path /\ where \in out[q] => where \in out'[q],
           WholeBy(p, c, e, where) => c = e.sha
    PROVE  Whole(c, e, where)'
<1>1. ASSUME NEW q \in Procs \ {p}, WholeBy(q, c, e, where) PROVE WholeBy(q, c, e, where)'
  BY <1>1 DEF WholeBy, Idle, Same
<1> QED BY <1>1 DEF Whole

LEMMA TempStays ==
    ASSUME NEW p \in Procs, bundle' = bundle, \A q \in Procs \ {p} : Idle(q),
           \A k \in DOMAIN bundle.manifest.files :
             LET t == TempName(bundle.manifest.files[k].path) IN final'[t] = final[t],
           \A q \in Procs \ {p} : out'[q] = out[q],
           pc[p] # "copy", TempWhole
    PROVE  TempWhole'
<1> SUFFICES ASSUME NEW k \in DOMAIN bundle.manifest.files,
                    final'[TempName(bundle.manifest.files[k].path)] # NoFile
             PROVE  WholeAs(bundle.manifest.files[k],
                            TempName(bundle.manifest.files[k].path))'
  BY DEF TempWhole
<1>1. PICK e : e = bundle.manifest.files[k]
  OBVIOUS
<1>2. PICK t : t = TempName(e.path)
  OBVIOUS
<1>3. PICK c : c = final[t]
  OBVIOUS
<1>4. final'[t] = c
  BY <1>1, <1>2, <1>3
<1>5. Whole(c, e, t)
  BY <1>1, <1>2, <1>3, <1>4 DEF TempWhole, WholeAs
<1>6. ~ WholeBy(p, c, e, t)
  BY DEF WholeBy
<1>7. Whole(c, e, t)'
  BY <1>5, <1>6, WholeStays
<1> QED BY <1>1, <1>2, <1>4, <1>7 DEF WholeAs

LEMMA FinalStays ==
    ASSUME NEW p \in Procs, bundle' = bundle, \A q \in Procs \ {p} : Idle(q),
           \A k \in DOMAIN bundle.manifest.files :
             LET n == bundle.manifest.files[k].path
             IN n # ReceiptName => final'[n] = final[n],
           \A q \in Procs \ {p} : out'[q] = out[q],
           \A k \in DOMAIN bundle.manifest.files : Past(p, k)' => Past(p, k),
           pc[p] # "copy", FinalWhole
    PROVE  FinalWhole'
<1> SUFFICES ASSUME NEW q \in Procs, NEW k \in DOMAIN bundle.manifest.files, Past(q, k)',
                    bundle.manifest.files[k].path # ReceiptName
             PROVE  WholeAs(bundle.manifest.files[k], bundle.manifest.files[k].path)'
  BY DEF FinalWhole
<1>1. PICK e : e = bundle.manifest.files[k]
  OBVIOUS
<1>2. PICK c : c = final[e.path]
  OBVIOUS
<1>3. Past(q, k)
  BY DEF Past, Succeeded, Idle, Same
<1>4. Whole(c, e, e.path)
  BY <1>1, <1>2, <1>3 DEF FinalWhole, WholeAs
<1>5. ~ WholeBy(p, c, e, e.path)
  BY DEF WholeBy
<1>6. Whole(c, e, e.path)'
  BY <1>4, <1>5, WholeStays
<1>7. final'[e.path] = c
  BY <1>1, <1>2
<1> QED BY <1>1, <1>6, <1>7 DEF WholeAs

\* One entry per path, and no path that is a temporary name in use.
LEMMA EntryOnce ==
    ASSUME TypeInv, Sound, PathsApart(bundle.manifest), NEW p \in Procs, Following(p),
           AtEntry(p), NEW k \in DOMAIN bundle.manifest.files
    PROVE  LET d == bundle.manifest.files[k]
           IN /\ d.path = Current(p) => k = i[p] /\ d = Entry(p)
              /\ TempName(d.path) = Temp(p) => d.path = Current(p)
              /\ d.path # Temp(p) /\ TempName(d.path) # Current(p)
<1>1. pc[p] \in {"join", "copy"} /\ i[p] <= Len(man[p].files)
  BY DEF AtEntry, TypeInv, Cursor
<1>2. /\ man[p] = bundle.manifest /\ man[p] \in ManifestType
      /\ i[p] \in 1 .. Len(man[p].files)
  BY <1>1, EntryFollows
<1>3. i[p] \in DOMAIN bundle.manifest.files
  BY <1>2, ManifestAssumption
<1>4. bundle.manifest.files[k].path \in Names /\ Current(p) \in Names
  BY DeclaredShape, CurrentShape
<1> QED BY <1>2, <1>3, <1>4, TemporaryAssumption DEF PathsApart, Temp, Current, Entry

LEMMA OpenWhole ==
    ASSUME TypeInv, Sound, PathsApart(bundle.manifest), NEW p \in Procs, Following(p),
           JoinOpen(p), bundle' = bundle, \A q \in Procs \ {p} : Idle(q),
           TempWhole, FinalWhole
    PROVE  TempWhole' /\ FinalWhole' /\ final'[Temp(p)] # NoFile
           /\ \A n \in Places : final'[n] = NoFile => final[n] = NoFile
<1>a. PICK f : f = Current(p)
  OBVIOUS
<1>b. PICK t : t = Temp(p)
  OBVIOUS
<1>1. /\ Following(p)' /\ SafeEntry(Entry(p)) /\ pc'[p] = "copy" /\ buf'[p] = <<>>
      /\ Entry(p)' = Entry(p) /\ Current(p)' = f
  BY <1>a, OpenFollows DEF Current
<1>2. /\ final' = [final EXCEPT ![t] = <<>>] /\ out' = [out EXCEPT ![p] = {t}]
      /\ i' = i /\ pc[p] = "join" /\ AtEntry(p)
  BY <1>1, <1>b DEF JoinOpen, Opened, AtEntry
<1>3. t \in out'[p] /\ \A q \in Procs \ {p} : out'[q] = out[q]
  BY <1>2 DEF TypeInv, TypeOK
<1>4. <<>> \in FileContents /\ <<>> # NoFile
  <2>1. <<>> \in FileContents
    BY DEF FileContents
  <2> QED BY <2>1, DestAssumption
<1>5. t \in Places /\ final'[t] = <<>> /\ \A n \in Places \ {t} : final'[n] = final[n]
  <2>1. t \in Places
    BY <1>2, <1>b, CurrentShape
  <2> QED BY <1>2, <2>1 DEF TypeInv, TypeOK
<1>6. FinalWhole'
  <2>1. \A k \in DOMAIN bundle.manifest.files : Past(p, k)' => Past(p, k)
    BY <1>1, <1>2 DEF Past, Succeeded, Joining
  <2>2. \A k \in DOMAIN bundle.manifest.files :
          LET n == bundle.manifest.files[k].path IN final'[n] = final[n]
    BY <1>2, <1>5, <1>b, DeclaredShape, EntryOnce
  <2> QED BY <1>2, <1>3, <2>1, <2>2, FinalStays
<1>7. TempWhole'
  <2> SUFFICES ASSUME NEW k \in DOMAIN bundle.manifest.files,
                      final'[TempName(bundle.manifest.files[k].path)] # NoFile
               PROVE  WholeAs(bundle.manifest.files[k],
                              TempName(bundle.manifest.files[k].path))'
    BY DEF TempWhole
  <2>1. PICK e : e = bundle.manifest.files[k]
    OBVIOUS
  <2>2. PICK n : n = TempName(e.path)
    OBVIOUS
  <2>3. CASE n = t
    <3>1. e.path = f
      BY <1>2, <1>a, <1>b, <2>1, <2>2, <2>3, EntryOnce
    <3>5. e.sha \in Seq(Blocks)
      BY <2>1, DeclaredShape DEF Contents
    <3>6. Len(<<>>) <= Len(e.sha)
      BY <3>5
    <3>2. WholeBy(p, <<>>, e, t)'
      BY <1>1, <1>3, <3>1, <3>6 DEF WholeBy
    <3>3. Whole(<<>>, e, t)'
      BY <1>4, <3>2, <3>6 DEF Whole
    <3> QED BY <1>5, <2>1, <2>2, <2>3, <3>3 DEF WholeAs
  <2>4. CASE n # t
    <3>1. PICK c : c = final[n]
      OBVIOUS
    <3>2. final'[n] = c
      BY <1>5, <2>1, <2>2, <2>4, <3>1, DeclaredShape
    <3>3. Whole(c, e, n)
      BY <2>1, <2>2, <3>1, <3>2 DEF TempWhole, WholeAs
    <3>4. ~ WholeBy(p, c, e, n)
      BY <1>2 DEF WholeBy
    <3>5. Whole(c, e, n)'
      BY <1>3, <3>3, <3>4, WholeStays
    <3> QED BY <2>1, <2>2, <3>2, <3>5 DEF WholeAs
  <2> QED BY <2>3, <2>4
<1>8. final'[Temp(p)] # NoFile /\ \A n \in Places : final'[n] = NoFile => final[n] = NoFile
  BY <1>4, <1>5, <1>b
<1> QED BY <1>6, <1>7, <1>8

LEMMA CopyWhole ==
    ASSUME TypeInv, Sound, PathsApart(bundle.manifest), NEW p \in Procs, Following(p),
           Held(p), JoinCopy(p), \A q \in Procs \ {p} : Idle(q),
           TempWhole, FinalWhole
    PROVE  TempWhole' /\ FinalWhole'
           /\ \A n \in Places : final'[n] = NoFile => final[n] = NoFile
<1>a. PICK e : e = Entry(p)
  OBVIOUS
<1>b. PICK f : f = Current(p)
  OBVIOUS
<1>c. PICK s : s = bundle.payload[Sources(e)[j[p]].path]
  OBVIOUS
<1>d. PICK b : b = buf[p]
  OBVIOUS
<1> DEFINE new(c) == WriteAt(c, Len(b), s)
<1>1. /\ Following(p)' /\ s \in Contents /\ s \notin {Link, Missing, Unreadable}
      /\ UNCHANGED <<bundle, man, i, pc, exit>>
      /\ buf'[p] = b \o s /\ Entry(p)' = e /\ Current(p)' = f /\ f = e.path
  BY <1>a, <1>b, <1>c, <1>d, CopyFollows DEF Current
<1>2. /\ pc[p] = "copy" /\ pc'[p] = "copy" /\ UNCHANGED <<out, opt>> /\ AtEntry(p)
      /\ final' = [n \in Places |-> IF n \in out[p] THEN new(final[n]) ELSE final[n]]
  BY <1>1, <1>a, <1>b, <1>c, <1>d, Zenon DEF JoinCopy, AtEntry
<1>3. /\ f \in Names /\ e.sha \in Contents /\ b \in Contents /\ e \in EntryType
      /\ Len(b) \in Nat /\ Len(s) \in Nat /\ Len(e.sha) \in Nat
  <2>1. f \in Names /\ b \in Contents
    BY <1>2, <1>b, <1>d, CurrentShape DEF TypeInv, TypeOK
  <2>2. e \in EntryType
    BY <1>2, <1>a, EntryFollows DEF TypeInv, Cursor
  <2> QED BY <1>1, <2>1, <2>2, EntryShape DEF Contents
<1>4. /\ Len(b \o s) = Len(b) + Len(s) /\ Len(b) + Len(s) <= Len(e.sha)
      /\ \A k \in 1 .. Len(s) : s[k] = e.sha[Len(b) + k]
  <2>1. b \in Seq(Blocks) /\ s \in Seq(Blocks)
    BY <1>1, <1>3 DEF Contents
  <2>2. PICK l, c : c = b \o s /\ HashedSoFar(e, l, c)
    BY <1>1, <1>2 DEF Following
  <2>3. Len(b \o s) <= Len(e.sha) /\ \A k \in 1 .. Len(b \o s) : (b \o s)[k] = e.sha[k]
    <3>1. Len(c) <= Len(e.sha) /\ \A k \in 1 .. Len(c) : c[k] = e.sha[k]
      <4>1. e \in EntryType /\ HashedSoFar(e, l, c)
        BY <1>3, <2>2
      <4> HIDE <1>3, <2>2
      <4> QED BY <4>1, HashedPrefix
    <3> QED BY <2>2, <3>1
  <2>4. Len(b \o s) = Len(b) + Len(s)
    BY <2>1
  <2>5. ASSUME NEW k \in 1 .. Len(s) PROVE s[k] = e.sha[Len(b) + k]
    <3>1. Len(b) + k \in 1 .. Len(b \o s) /\ (b \o s)[Len(b) + k] = s[k]
      BY <1>3, <2>1, <2>4
    <3> QED BY <2>3, <3>1
  <2> QED BY <2>3, <2>4, <2>5
<1> DEFINE M == bundle.manifest
<1>5. ASSUME NEW k \in DOMAIN M.files
      PROVE  /\ M.files[k].path \in out[p] => M.files[k] = e
             /\ TempName(M.files[k].path) \in out[p] => M.files[k] = e
  BY <1>2, <1>5, <1>a, <1>b, EntryOnce DEF Held
<1> HIDE DEF new, M
<1>6. ASSUME NEW c, NEW where, where \in out[p], Whole(c, e, where)
      PROVE  Whole(new(c), e, where)'
  <2>0. c \in FileContents /\ Len(c) <= Len(e.sha) /\ Len(c) \in Nat
    BY <1>6 DEF Whole, FileContents
  <2>1. PICK w : w = new(c)
    OBVIOUS
  <2>2. /\ w \in FileContents /\ Len(w) <= Len(e.sha) /\ Len(w) \in Nat
        /\ Len(c) <= Len(w) /\ Len(b) + Len(s) <= Len(w)
        /\ \A k \in 1 .. Len(c) : c[k] = e.sha[k] => w[k] = e.sha[k]
        /\ \A k \in Len(b) + 1 .. Len(b) + Len(s) : w[k] = e.sha[k]
    <3>1. /\ w \in FileContents /\ Len(w) <= Len(e.sha)
          /\ Len(c) <= Len(w) /\ Len(b) + Len(s) <= Len(w)
          /\ \A k \in 1 .. Len(c) : c[k] = e.sha[k] => w[k] = e.sha[k]
          /\ \A k \in Len(b) + 1 .. Len(b) + Len(s) : w[k] = e.sha[k]
      BY <1>1, <1>3, <1>4, <2>0, <2>1, WriteKeeps DEF new
    <3> QED BY <3>1 DEF FileContents
  <2>3. CASE c = e.sha
    <3>1. Len(w) = Len(e.sha) /\ \A k \in 1 .. Len(e.sha) : w[k] = e.sha[k]
      BY <1>3, <2>2, <2>3
    <3>2. w = e.sha
      BY <1>3, <2>2, <3>1, SameContents
    <3>3. Whole(w, e, where)'
      BY <2>2, <3>2 DEF Whole
    <3> QED BY <2>1, <3>3
  <2>4. ASSUME NEW q \in Procs \ {p}, WholeBy(q, c, e, where)
        PROVE  Whole(new(c), e, where)'
    <3>1. /\ pc'[q] = "copy" /\ Current(q)' = e.path /\ where \in out'[q]
          /\ buf'[q] = buf[q] /\ Len(buf[q]) <= Len(c)
          /\ \A k \in 1 .. Len(buf[q]) : c[k] = e.sha[k]
      BY <1>2, <2>4 DEF WholeBy, Idle, Same
    <3>2. Len(buf[q]) \in Nat
      BY DEF TypeInv, TypeOK, Contents
    <3>3. Len(buf[q]) <= Len(w) /\ \A k \in 1 .. Len(buf[q]) : w[k] = e.sha[k]
      BY <2>0, <2>2, <3>1, <3>2
    <3>4. WholeBy(q, w, e, where)'
      BY <3>1, <3>3 DEF WholeBy
    <3>5. Whole(w, e, where)'
      BY <2>2, <3>4 DEF Whole
    <3> QED BY <2>1, <3>5
  <2>5. CASE WholeBy(p, c, e, where)
    <3>1. Len(b) <= Len(c) /\ \A k \in 1 .. Len(b) : c[k] = e.sha[k]
      BY <1>d, <2>5 DEF WholeBy
    <3>2. \A k \in 1 .. Len(b) + Len(s) : w[k] = e.sha[k]
      <4> TAKE k \in 1 .. Len(b) + Len(s)
      <4>1. CASE k <= Len(b)
        BY <1>3, <2>0, <2>2, <3>1, <4>1
      <4>2. CASE ~ (k <= Len(b))
        BY <1>3, <2>2, <4>2
      <4> QED BY <4>1, <4>2
    <3>3. pc'[p] = "copy" /\ Current(p)' = e.path /\ where \in out'[p]
          /\ Len(buf'[p]) = Len(b) + Len(s)
      BY <1>1, <1>2, <1>4, <1>6
    <3>4. WholeBy(p, w, e, where)'
      BY <2>2, <3>2, <3>3 DEF WholeBy
    <3>5. Whole(w, e, where)'
      BY <2>2, <3>4 DEF Whole
    <3> QED BY <2>1, <3>5
  <2> QED BY <1>6, <2>3, <2>4, <2>5 DEF Whole
<1>7. ASSUME NEW d, NEW c, NEW where, Whole(c, d, where), where \notin out[p]
      PROVE  Whole(c, d, where)'
  <2>1. ~ WholeBy(p, c, d, where)
    BY <1>7 DEF WholeBy
  <2> QED BY <1>2, <1>7, <2>1, WholeStays
<1>8. ASSUME NEW k \in DOMAIN M.files, NEW n \in Places, WholeAs(M.files[k], n),
             n \in {M.files[k].path, TempName(M.files[k].path)}
      PROVE  WholeAs(M.files[k], n)'
  <2>1. PICK d : d = M.files[k]
    OBVIOUS
  <2>2. PICK c : c = final[n]
    OBVIOUS
  <2>3. M'.files[k] = d /\ Whole(c, d, n)
    BY <1>1, <1>8, <2>1, <2>2 DEF M, WholeAs
  <2>4. CASE n \in out[p]
    <3>1. d = e /\ final'[n] = new(c)
      BY <1>2, <1>5, <1>8, <2>1, <2>2, <2>4
    <3>2. Whole(new(c), d, n)'
      BY <1>6, <2>3, <2>4, <3>1
    <3> QED BY <2>3, <3>1, <3>2 DEF WholeAs
  <2>5. CASE n \notin out[p]
    <3>1. final'[n] = c
      BY <1>2, <2>2, <2>5
    <3>2. Whole(c, d, n)'
      BY <1>7, <2>3, <2>5
    <3> QED BY <2>3, <3>1, <3>2 DEF WholeAs
  <2> QED BY <2>4, <2>5
<1>M. M' = M
  BY <1>1 DEF M
<1>9. \A n \in Places : final'[n] = NoFile => final[n] = NoFile
  <2> SUFFICES ASSUME NEW n \in Places, final[n] # NoFile PROVE final'[n] # NoFile
    OBVIOUS
  <2>1. final[n] \in FileContents
    BY DEF TypeInv, TypeOK
  <2>2. new(final[n]) # NoFile
    BY <1>1, <1>3, <2>1, WriteAtShape, DestAssumption DEF new
  <2> QED BY <1>2, <2>2
<1>10. \A n \in Places : final'[n] # NoFile => final[n] # NoFile
  BY <1>2 DEF TypeInv, Handle
<1>11. TempWhole'
  <2> SUFFICES ASSUME NEW k \in DOMAIN M.files, final'[TempName(M.files[k].path)] # NoFile
               PROVE  WholeAs(M.files[k], TempName(M.files[k].path))'
    BY <1>1 DEF TempWhole, M
  <2>1. TempName(M.files[k].path) \in Places
    BY DeclaredShape DEF M
  <2>2. WholeAs(M.files[k], TempName(M.files[k].path))
    BY <1>10, <2>1 DEF TempWhole, M
  <2>3. \A n \in Places : n = TempName(M.files[k].path) => WholeAs(M.files[k], n)'
    BY <1>8, <2>2
  <2> QED BY <1>M, <2>1, <2>3
<1>12. FinalWhole'
  <2> SUFFICES ASSUME NEW q \in Procs, NEW k \in DOMAIN M.files, Past(q, k)',
                      M.files[k].path # ReceiptName
               PROVE  WholeAs(M.files[k], M.files[k].path)'
    BY <1>1 DEF FinalWhole, M
  <2>1. Past(q, k)
    BY <1>1, <1>2 DEF Past, Succeeded
  <2>2. WholeAs(M.files[k], M.files[k].path) /\ M.files[k].path \in Places
    BY <2>1, DeclaredShape DEF FinalWhole, M
  <2>3. \A n \in Places : n = M.files[k].path => WholeAs(M.files[k], n)'
    BY <1>8, <2>2
  <2> QED BY <1>M, <2>2, <2>3
<1> QED BY <1>9, <1>11, <1>12

LEMMA InstallWhole ==
    ASSUME TypeInv, Sound, PathsApart(bundle.manifest), NEW p \in Procs, Following(p),
           JoinInstall(p), \A q \in Procs \ {p} : Idle(q),
           TempWhole, FinalWhole
    PROVE  TempWhole' /\ FinalWhole' /\ (final[Temp(p)] = NoFile => final' = final)
<1>a. PICK e : e = Entry(p)
  OBVIOUS
<1>b. PICK f : f = Current(p)
  OBVIOUS
<1>c. PICK t : t = Temp(p)
  OBVIOUS
<1>1. /\ HashOK(p) /\ Following(p)' /\ UNCHANGED <<bundle, man, opt>> /\ f = e.path
      /\ pc[p] = "copy" /\ AtEntry(p) /\ buf[p] = e.sha
      /\ final[t] = NoFile => FailJoin(p, 4) /\ pc'[p] = "done"
      /\ final[t] # NoFile => pc'[p] = "join"
  BY <1>a, <1>b, <1>c, InstallFollows DEF Current, JoinInstall, HashOK, AtEntry
<1>2. /\ f \in Places /\ t \in Places /\ f # t /\ t = TempName(f)
      /\ e.sha \in Contents /\ Len(e.sha) \in Nat
  <2>1. f \in Names /\ t \in Places /\ e.sha \in Contents
    BY <1>1, <1>a, <1>b, <1>c, CurrentShape
  <2> QED BY <2>1, <1>b, <1>c, PlacesShape, TemporaryAssumption DEF Contents, Temp
<1> DEFINE M == bundle.manifest
<1>3. ASSUME NEW k \in DOMAIN M.files
      PROVE  LET d == M.files[k]
             IN /\ d.path = f => k = i[p] /\ d = e
                /\ TempName(d.path) = t => d.path = f
                /\ d.path # t /\ TempName(d.path) # f
                /\ d.path \in Places /\ TempName(d.path) \in Places
  BY <1>1, <1>3, <1>a, <1>b, <1>c, EntryOnce, DeclaredShape
<1>M. M' = M
  BY <1>1
<1> HIDE DEF M
<1>4. ASSUME NEW c, NEW d, NEW where, Whole(c, d, where), WholeBy(p, c, d, where), d = e
      PROVE  c = d.sha
  <2>1. c \in FileContents /\ Len(c) <= Len(e.sha) /\ Len(c) \in Nat
    BY <1>4 DEF Whole, FileContents
  <2>2. Len(e.sha) <= Len(c) /\ \A k \in 1 .. Len(e.sha) : c[k] = e.sha[k]
    BY <1>1, <1>4 DEF WholeBy
  <2>3. Len(c) = Len(e.sha)
    BY <1>2, <2>1, <2>2
  <2> QED BY <1>2, <1>4, <2>1, <2>2, <2>3, SameContents
<1>5. /\ \A n \in Places \ {f, t} : final'[n] = final[n]
      /\ \A q \in Procs \ {p} : \A n \in out[q] \ {f, t} : n \in out'[q]
  <2>1. CASE final[t] = NoFile
    BY <1>1, <2>1, <1>c DEF FailJoin, RemoveTemp, TypeInv, TypeOK
  <2>2. CASE final[t] # NoFile
    <3>1. /\ final' = [final EXCEPT ![f] = final[t], ![t] = NoFile]
          /\ out' = [q \in Procs |->
               IF q = p THEN {}
               ELSE { IF n = Temp(p) THEN Current(p) ELSE n : n \in out[q] \ {Current(p)} }]
      BY <1>1, <2>2, <1>b, <1>c DEF JoinInstall
    <3>2. \A n \in Places \ {f, t} : final'[n] = final[n]
      BY <3>1 DEF TypeInv, TypeOK
    <3>3. ASSUME NEW q \in Procs \ {p}, NEW n \in out[q] \ {f, t} PROVE n \in out'[q]
      BY <3>1, <3>3, <1>b, <1>c
    <3> QED BY <3>2, <3>3
  <2> QED BY <2>1, <2>2
\* A file with another path.
<1>6. ASSUME NEW k \in DOMAIN M.files, NEW n \in {M.files[k].path, TempName(M.files[k].path)},
             WholeAs(M.files[k], n), M.files[k].path # f
      PROVE  WholeAs(M.files[k], n)'
  <2>1. PICK d : d = M.files[k]
    OBVIOUS
  <2>2. PICK c : c = final[n]
    OBVIOUS
  <2>3. M'.files[k] = d /\ Whole(c, d, n)
    BY <1>1, <1>6, <2>1, <2>2 DEF M, WholeAs
  <2>4. n \in Places \ {f, t} /\ final'[n] = c
    BY <1>3, <1>5, <1>6, <2>2
  <2>5. ~ WholeBy(p, c, d, n)
    BY <1>6, <1>b, <2>1 DEF WholeBy
  <2>6. Whole(c, d, n)'
    BY <1>5, <2>3, <2>4, <2>5, WholeStays
  <2> QED BY <2>3, <2>4, <2>6 DEF WholeAs
<1>7. final'[t] = NoFile
  <2>1. CASE final[t] = NoFile
    BY <1>1, <1>2, <2>1, <1>c DEF FailJoin, RemoveTemp, TypeInv, TypeOK
  <2>2. CASE final[t] # NoFile
    BY <1>1, <1>2, <2>2, <1>b, <1>c DEF JoinInstall, TypeInv, TypeOK
  <2> QED BY <2>1, <2>2
<1>8. TempWhole'
  <2> SUFFICES ASSUME NEW k \in DOMAIN M.files, final'[TempName(M.files[k].path)] # NoFile
               PROVE  WholeAs(M.files[k], TempName(M.files[k].path))'
    BY <1>1 DEF TempWhole, M
  <2>1. M.files[k].path # f
    BY <1>2, <1>7
  <2>2. final[TempName(M.files[k].path)] # NoFile
    BY <1>3, <1>5, <2>1
  <2>3. WholeAs(M.files[k], TempName(M.files[k].path))
    BY <2>2 DEF TempWhole, M
  <2>4. \A n : n = TempName(M.files[k].path) => WholeAs(M.files[k], n)'
    BY <1>6, <2>1, <2>3
  <2> QED BY <1>M, <2>4
<1>9. CASE final[t] = NoFile
  <2>1. /\ final' = final /\ pc'[p] = "done" /\ exit'[p] = 4
        /\ \A x \in Procs \ {p} : f \in out[x] => f \in out'[x]
    <3>1. /\ final' = [final EXCEPT ![t] = NoFile] /\ exit' = [exit EXCEPT ![p] = 4]
          /\ out' = [q \in Procs |-> IF q = p THEN {} ELSE out[q] \ {t}]
      BY <1>1, <1>9, <1>c DEF FailJoin, RemoveTemp, Exit
    <3>2. final' = final
      BY <1>2, <1>9, <3>1 DEF TypeInv, TypeOK
    <3> QED BY <1>1, <1>2, <1>9, <3>1, <3>2 DEF TypeInv, TypeOK
  <2>2. FinalWhole'
    <3> SUFFICES ASSUME NEW q \in Procs, NEW k \in DOMAIN M.files, Past(q, k)',
                        M.files[k].path # ReceiptName
                 PROVE  WholeAs(M.files[k], M.files[k].path)'
      BY <1>1 DEF FinalWhole, M
    <3>1. Past(q, k)
      <4>1. q # p
        BY <2>1 DEF Past, Succeeded, Joining
      <4> QED BY <4>1 DEF Past, Succeeded, Idle, Same
    <3>2. WholeAs(M.files[k], M.files[k].path)
      BY <3>1 DEF FinalWhole, M
    <3>3. CASE M.files[k].path # f
      <4>1. \A n : n = M.files[k].path => WholeAs(M.files[k], n)'
        BY <1>6, <3>2, <3>3
      <4> QED BY <1>M, <4>1
    <3>4. CASE M.files[k].path = f
      <4>1. PICK c : c = final[f]
        OBVIOUS
      <4>2. M.files[k] = e /\ M'.files[k] = e /\ Whole(c, e, f)
        BY <1>1, <1>3, <3>2, <3>4, <4>1 DEF M, WholeAs
      <4>3. WholeBy(p, c, e, f) => c = e.sha
        BY <1>4, <4>2
      <4>4. Whole(c, e, f)'
        BY <2>1, <4>2, <4>3, WholeStays
      <4>5. final'[f] = c
        BY <2>1, <4>1
      <4> QED BY <3>4, <4>2, <4>4, <4>5 DEF WholeAs
    <3> QED BY <3>3, <3>4
  <2> QED BY <1>8, <1>9, <1>c, <2>1, <2>2
<1>10. CASE final[t] # NoFile
  <2>1. /\ final' = [final EXCEPT ![f] = final[t], ![t] = NoFile]
        /\ out' = [q \in Procs |->
             IF q = p THEN {}
             ELSE { IF n = Temp(p) THEN Current(p) ELSE n : n \in out[q] \ {Current(p)} }]
        /\ i' = [i EXCEPT ![p] = @ + 1]
    BY <1>1, <1>10, <1>b, <1>c DEF JoinInstall, NextEntry
  <2>2. /\ pc'[p] = "join" /\ i'[p] = i[p] + 1 /\ i[p] \in Nat
        /\ final'[f] = final[t]
    BY <1>1, <1>2, <1>10, <2>1 DEF TypeInv, TypeOK
  <2>3. FinalWhole'
    <3> SUFFICES ASSUME NEW q \in Procs, NEW k \in DOMAIN M.files, Past(q, k)',
                        M.files[k].path # ReceiptName
                 PROVE  WholeAs(M.files[k], M.files[k].path)'
      BY <1>1 DEF FinalWhole, M
    <3>1. CASE M.files[k].path # f
      <4>1. Past(q, k)
        <5>1. CASE q # p
          BY <5>1 DEF Past, Succeeded, Idle, Same
        <5>2. CASE q = p
          <6>1. k < i[p] + 1
            BY <2>2, <5>2 DEF Past, Succeeded
          <6>2. k # i[p]
            <7>1. i[p] <= Len(man[p].files)
              BY <1>1 DEF TypeInv, Cursor
            <7>2. man[p] = M /\ i[p] \in 1 .. Len(man[p].files)
              BY <1>1, <7>1, EntryFollows DEF M
            <7> QED BY <1>b, <3>1, <7>2 DEF Current, Entry
          <6>3. k \in Nat
            BY DeclaredShape DEF M
          <6>4. k < i[p]
            BY <2>2, <6>1, <6>2, <6>3
          <6> QED BY <1>1, <5>2, <6>4 DEF Past, Joining
        <5> QED BY <5>1, <5>2
      <4>2. WholeAs(M.files[k], M.files[k].path)
        BY <4>1 DEF FinalWhole, M
      <4>3. \A n : n = M.files[k].path => WholeAs(M.files[k], n)'
        BY <1>6, <3>1, <4>2
      <4> QED BY <1>M, <4>3
    <3>2. CASE M.files[k].path = f
      <4>1. PICK c : c = final[t]
        OBVIOUS
      <4>2. M.files[k] = e /\ M'.files[k] = e /\ Whole(c, e, t)
        BY <1>1, <1>2, <1>3, <1>10, <3>2, <4>1 DEF M, TempWhole, WholeAs
      <4>3. WholeBy(p, c, e, t) => c = e.sha
        BY <1>4, <4>2
      <4>4. ASSUME NEW x \in Procs \ {p}, WholeBy(x, c, e, t)
            PROVE  WholeBy(x, c, e, f)'
        <5>1. f \in out'[x]
          BY <1>2, <1>b, <1>c, <2>1, <4>4 DEF WholeBy
        <5> QED BY <4>4, <5>1 DEF WholeBy, Idle, Same
      <4>5. Whole(c, e, f)'
        BY <4>2, <4>3, <4>4 DEF Whole
      <4> QED BY <2>2, <3>2, <4>1, <4>2, <4>5 DEF WholeAs
    <3> QED BY <3>1, <3>2
  <2> QED BY <1>8, <1>10, <1>c, <2>3
<1> QED BY <1>9, <1>10

(* What a process holds open is known by one of two names. *)
LEMMA HeldStays ==
    ASSUME TypeInv, TypeInv', Sound, PathsApart(bundle.manifest), NEW p \in Procs,
           \A q \in Procs : Following(q) /\ Held(q),
           Begin(p) \/ Step(p), \A q \in Procs \ {p} : Idle(q), NEW q \in Procs
    PROVE  Held(q)'
<1>1. CASE pc'[q] # "copy"
  BY <1>1 DEF TypeInv, Handle, Held
<1>2. CASE pc'[q] = "copy" /\ q = p
  <2>1. JoinOpen(p) \/ JoinCopy(p)
    <3>1. pc'[p] # "copy" \/ JoinOpen(p) \/ JoinCopy(p) \/ JoinInstall(p)
      <4>1. ASSUME OpenReceipt(p) \/ WriteReceipt(p) PROVE pc'[p] # "copy"
        BY <4>1 DEF OpenReceipt, WriteReceipt, Exit, Goto, TypeInv, TypeOK
      <4>2. ASSUME \/ Begin(p) \/ Load(p) \/ DestReady(p) \/ VLoad(p) \/ CheckSidecar(p)
                   \/ VerifyVerifier(p) \/ CheckObject(p) \/ ScanExtra(p)
            PROVE  pc'[p] # "copy"
        BY <4>2, EarlyEffect DEF Verifying
      <4> QED BY <4>1, <4>2 DEF Step
    <3>2. JoinInstall(p) => pc'[p] # "copy"
      BY InstallFollows
    <3> QED BY <1>2, <3>1, <3>2
  <2>2. CASE JoinOpen(p)
    <3>1. Entry(p)' = Entry(p) /\ out' = [out EXCEPT ![p] = {Temp(p)}]
      BY <2>2, OpenFollows DEF JoinOpen
    <3> QED BY <1>2, <3>1 DEF Held, Temp, Current, TypeInv, TypeOK
  <2>3. CASE JoinCopy(p)
    <3>1. Entry(p)' = Entry(p) /\ out' = out
      BY <2>3, CopyFollows, Zenon DEF JoinCopy
    <3> QED BY <1>2, <3>1 DEF Held, Temp, Current
  <2> QED BY <2>1, <2>2, <2>3
<1>3. CASE pc'[q] = "copy" /\ q # p
  <2>1. pc[q] = "copy" /\ AtEntry(q) /\ Current(q)' = Current(q) /\ Temp(q)' = Temp(q)
    BY <1>3 DEF Idle, Same, AtEntry, Temp
  <2>2. CASE out'[q] \subseteq out[q]
    BY <2>1, <2>2 DEF Held
  <2>3. CASE JoinInstall(p) /\ final[Temp(p)] # NoFile
    <3>1. HashOK(p)
      BY <2>3, InstallFollows
    <3>2. out'[q] = { IF n = Temp(p) THEN Current(p) ELSE n : n \in out[q] \ {Current(p)} }
      BY <1>3, <2>3, <3>1 DEF JoinInstall
    <3>3. AtEntry(p) /\ Current(p) \in Names /\ Current(q) \in Names
      BY <2>1, <2>3, CurrentShape DEF JoinInstall, AtEntry
    <3>4. Current(q) # Temp(p)
      <4>1. /\ man[q] = bundle.manifest /\ man[q] \in ManifestType
            /\ i[q] \in 1 .. Len(man[q].files)
        BY <2>1, EntryFollows DEF TypeInv, Cursor
      <4>2. i[q] \in DOMAIN bundle.manifest.files
        BY <4>1, ManifestAssumption
      <4> QED BY <3>3, <4>1, <4>2, EntryOnce DEF Current, Entry
    <3>5. Temp(p) = Temp(q) => Current(p) = Current(q)
      BY <3>3, TemporaryAssumption DEF Temp
    <3> QED BY <2>1, <3>2, <3>4, <3>5 DEF Held
  <2>4. out'[q] \subseteq out[q] \/ (JoinInstall(p) /\ final[Temp(p)] # NoFile)
    <3>1. ASSUME \/ Begin(p) \/ Load(p) \/ DestReady(p) \/ VLoad(p) \/ CheckSidecar(p)
                 \/ VerifyVerifier(p) \/ CheckObject(p) \/ ScanExtra(p)
                 \/ OpenReceipt(p) \/ WriteReceipt(p)
          PROVE  out' = out
      BY <3>1, EarlyEffect DEF OpenReceipt, WriteReceipt
    <3>2. ASSUME JoinOpen(p) PROVE out'[q] = out[q]
      BY <1>3, <3>2 DEF JoinOpen, TypeInv, TypeOK
    <3>3. ASSUME JoinCopy(p) PROVE out' = out
      BY <3>3, CopyFollows, Zenon DEF JoinCopy
    <3>4. ASSUME JoinInstall(p), final[Temp(p)] = NoFile PROVE out'[q] \subseteq out[q]
      <4>1. FailJoin(p, 4)
        BY <3>4, InstallFollows
      <4> QED BY <1>3, <4>1 DEF FailJoin, RemoveTemp
    <3> QED BY <3>1, <3>2, <3>3, <3>4 DEF Step
  <2> QED BY <2>2, <2>3, <2>4
<1> QED BY <1>1, <1>2, <1>3

-----------------------------------------------------------------------------
(* A forced unpack that is ahead stays ahead, unless another takes over. *)
LEMMA WinnerStays ==
    ASSUME TypeInv, NEW p \in Procs, \A q \in Procs \ {p} : Idle(q), Winner,
           opt' = opt, pc[p] # "idle", pc'[p] # "idle",
           \A n \in Places : final'[n] = NoFile => final[n] = NoFile,
           opt[p].cmd = "unpack" /\ opt[p].force /\ Winning(p) => Winning(p)'
    PROVE  Winner'
<1>1. PICK w \in Procs : /\ pc[w] # "idle"
                         /\ opt[w].cmd = "unpack" /\ opt[w].force => Winning(w)
  BY DEF Winner
<1>2. CASE w = p
  BY <1>1, <1>2 DEF Winner
<1>3. CASE w # p
  <2>1. pc'[w] = pc[w] /\ exit'[w] = exit[w] /\ Temp(w)' = Temp(w)
    BY <1>3 DEF Idle, Same, Temp
  <2>2. Robbed(w)' => Robbed(w)
    <3>1. pc[w] = "copy" => Temp(w) \in Places
      BY CurrentShape DEF AtEntry
    <3> QED BY <2>1, <3>1 DEF Robbed
  <2> QED BY <1>1, <2>1, <2>2 DEF Winner, Winning, Succeeded
<1> QED BY <1>2, <1>3

LEMMA EarlyCalm ==
    ASSUME TypeInv, TypeInv', Sound, VerdictInv, NEW p \in Procs, CalmInv,
           destKind' # "other", bundle' = bundle, \A q \in Procs \ {p} : Idle(q),
           \/ Load(p) \/ DestReady(p) \/ VLoad(p) \/ CheckSidecar(p)
           \/ VerifyVerifier(p) \/ CheckObject(p) \/ ScanExtra(p)
    PROVE  Following(p)' /\ Winner' /\ TempWhole' /\ FinalWhole'
<1>1. /\ UNCHANGED <<final, out, opt, undisturbed>> /\ pc[p] \notin Joining
      /\ pc'[p] \in {"load", "dest", "join", "done"} \cup Verifying
      /\ pc'[p] = "join" => i'[p] = 1
      /\ ~ Succeeded(p)' /\ pc[p] \in Running
  <2>1. UNCHANGED <<opt, undisturbed>> /\ ~ Begin(p)
    BY Zenon DEF Begin, Load, DestReady, VLoad, CheckSidecar, VerifyVerifier, CheckObject, ScanExtra
  <2> QED BY <2>1, EarlyEffect
<1>2. Following(p)'
  BY EarlyFollows DEF CalmInv
<1>3. TempWhole'
  BY <1>1, TempStays DEF CalmInv, Joining
<1>4. FinalWhole'
  <2>1. ASSUME NEW k \in DOMAIN bundle.manifest.files PROVE ~ Past(p, k)'
    <3>1. k \in Nat \ {0}
      BY DeclaredShape
    <3> QED BY <1>1, <3>1 DEF Past, Joining, Verifying
  <2> QED BY <1>1, <2>1, FinalStays DEF CalmInv, Joining
<1>5. opt[p].cmd = "unpack" /\ opt[p].force => Winning(p)'
  <2> SUFFICES ASSUME opt[p].cmd = "unpack", opt[p].force PROVE Winning(p)'
    OBVIOUS
  <2>1. Recovering(p) /\ Verdict(p)
    BY DEF Recovering, CalmInv, VerdictInv
  <2>2. Succeeding(p)
    BY <1>1 DEF Succeeding, CalmInv, Running, Verifying, Joining
  <2>3. pc'[p] = "done" => exit'[p] = 0
    BY <2>1, <2>2, EarlyRecovers DEF Succeeding
  <2>4. pc'[p] # "done"
    BY <1>1, <2>3 DEF Succeeded
  <2> QED BY <1>1, <2>4 DEF Winning, Robbed, Running, Verifying, Joining
<1>6. Winner'
  BY <1>1, <1>5, WinnerStays DEF CalmInv, Running, Verifying, Joining
<1> QED BY <1>2, <1>3, <1>4, <1>6

LEMMA JoinCalm ==
    ASSUME TypeInv, TypeInv', Sound, PathsApart(bundle.manifest), NEW p \in Procs, CalmInv,
           bundle' = bundle, \A q \in Procs \ {p} : Idle(q),
           \/ JoinOpen(p) \/ JoinCopy(p) \/ JoinInstall(p) \/ OpenReceipt(p) \/ WriteReceipt(p)
    PROVE  Following(p)' /\ Winner' /\ TempWhole' /\ FinalWhole'
<1>0. Following(p) /\ Winner /\ TempWhole /\ FinalWhole /\ Held(p)
  BY DEF CalmInv
<1>1. opt' = opt /\ pc[p] \in Joining /\ opt[p].cmd = "unpack"
  BY Zenon DEF JoinOpen, JoinCopy, JoinInstall, OpenReceipt, WriteReceipt, Joining, TypeInv, Loaded
<1>2. CASE JoinOpen(p)
  <2>1. /\ Following(p)' /\ pc'[p] = "copy" /\ Temp(p)' = Temp(p)
    BY <1>0, <1>2, OpenFollows DEF Current, Temp
  <2>2. /\ TempWhole' /\ FinalWhole' /\ final'[Temp(p)] # NoFile
        /\ \A n \in Places : final'[n] = NoFile => final[n] = NoFile
    BY <1>0, <1>2, OpenWhole
  <2>3. Winning(p)'
    BY <2>1, <2>2 DEF Winning, Robbed, Running, Joining
  <2> QED BY <1>0, <1>1, <2>1, <2>2, <2>3, WinnerStays DEF Joining
<1>3. CASE JoinCopy(p)
  <2>1. /\ Following(p)' /\ UNCHANGED <<pc, exit>> /\ Entry(p)' = Entry(p) /\ pc[p] = "copy"
    BY <1>0, <1>3, CopyFollows, Zenon DEF JoinCopy
  <2>2. /\ TempWhole' /\ FinalWhole'
        /\ \A n \in Places : final'[n] = NoFile => final[n] = NoFile
    BY <1>0, <1>3, CopyWhole
  <2>3. Winning(p) => Winning(p)'
    <3>1. Temp(p) \in Places /\ Temp(p)' = Temp(p)
      BY <2>1, CurrentShape DEF AtEntry, Current, Temp
    <3> QED BY <2>1, <2>2, <3>1 DEF Winning, Robbed, Succeeded
  <2> QED BY <1>0, <1>1, <2>1, <2>2, <2>3, WinnerStays
<1>4. CASE JoinInstall(p)
  <2>1. /\ Following(p)' /\ pc[p] = "copy"
        /\ final[Temp(p)] = NoFile => FailJoin(p, 4) /\ pc'[p] = "done"
        /\ final[Temp(p)] # NoFile => pc'[p] = "join"
    BY <1>0, <1>4, InstallFollows DEF JoinInstall
  <2>2. /\ TempWhole' /\ FinalWhole'
        /\ final[Temp(p)] = NoFile => final' = final
    BY <1>0, <1>4, InstallWhole
  <2>3. CASE final[Temp(p)] # NoFile
    <3>1. Winning(p)' /\ pc'[p] # "idle"
      BY <2>1, <2>3 DEF Winning, Robbed, Running, Joining
    <3> QED BY <2>1, <2>2, <3>1 DEF Winner
  <2>4. CASE final[Temp(p)] = NoFile
    <3>1. ~ Winning(p)
      BY <2>1, <2>4 DEF Winning, Robbed, Succeeded
    <3>2. \A n \in Places : final'[n] = NoFile => final[n] = NoFile
      BY <2>2, <2>4
    <3>3. Winner'
      BY <1>0, <1>1, <2>1, <2>4, <3>1, <3>2, WinnerStays
    <3> QED BY <2>1, <2>2, <3>3
  <2> QED BY <2>3, <2>4
<1>5. CASE OpenReceipt(p) \/ WriteReceipt(p)
  <2>1. /\ Following(p)' /\ UNCHANGED <<bundle, man, i>>
        /\ i[p] > Len(man[p].files) /\ man[p] = bundle.manifest
        /\ pc[p] \in {"join", "receipt"}
        /\ \/ pc'[p] = "receipt"
           \/ pc'[p] = "done" /\ exit'[p] = 0
    BY <1>0, <1>5, ReceiptFollows
  <2>2. out' = out /\ \A n \in Places \ {ReceiptName} : final'[n] = final[n]
    <3>1. out' = out /\ \E c : final' = [final EXCEPT ![ReceiptName] = c]
      BY <1>5 DEF OpenReceipt, WriteReceipt
    <3> QED BY <3>1 DEF TypeInv, TypeOK
  <2>a. ASSUME NEW k \in DOMAIN bundle.manifest.files
        PROVE  LET n == bundle.manifest.files[k].path
               IN /\ final'[TempName(n)] = final[TempName(n)]
                  /\ n # ReceiptName => final'[n] = final[n]
    <3>1. /\ bundle.manifest.files[k].path \in Places
          /\ TempName(bundle.manifest.files[k].path) \in Places
          /\ bundle.manifest.files[k].path \in Names
      BY DeclaredShape
    <3>2. TempName(bundle.manifest.files[k].path) # ReceiptName
      BY <3>1, TemporaryAssumption DEF Temps
    <3> QED BY <2>2, <3>1, <3>2
  <2>3. TempWhole'
    BY <1>0, <2>1, <2>2, <2>a, TempStays
  <2>4. ASSUME NEW k \in DOMAIN bundle.manifest.files PROVE Past(p, k)
    <3>1. man[p] \in ManifestType
      BY <1>1, ManifestsShape DEF TypeInv, Loaded
    <3>a. man[p].files \in Seq(EntryType)
      BY <3>1, ManifestAssumption
    <3>b. i[p] \in Nat
      BY DEF TypeInv, TypeOK
    <3>c. k \in DOMAIN man[p].files
      BY <2>1
    <3>2. k \in 1 .. Len(man[p].files) /\ Len(man[p].files) \in Nat /\ i[p] \in Nat
      BY <3>a, <3>b, <3>c
    <3>3. k < i[p]
      BY <2>1, <3>2
    <3>4. pc[p] \in Joining
      BY <2>1 DEF Joining
    <3> QED BY <3>3, <3>4 DEF Past
  <2>5. FinalWhole'
    BY <1>0, <2>1, <2>2, <2>4, <2>a, FinalStays
  <2>6. Winning(p)' /\ pc'[p] # "idle"
    BY <1>1, <2>1 DEF Winning, Robbed, Succeeded, Running, Joining
  <2>7. Winner'
    BY <2>6 DEF Winner
  <2> QED BY <2>1, <2>3, <2>5, <2>7
<1> QED BY <1>2, <1>3, <1>4, <1>5

LEMMA BeginCalm ==
    ASSUME TypeInv, Sound, NEW p \in Procs, CalmInv, Begin(p), bundle' = bundle,
           \A q \in Procs \ {p} : Idle(q)
    PROVE  Following(p)' /\ Winner' /\ TempWhole' /\ FinalWhole'
<1>1. /\ UNCHANGED <<final, out>> /\ pc[p] \notin Joining
      /\ pc'[p] \in {"load", "vload"} /\ (pc'[p] = "vload" => opt'[p].cmd = "verify")
      /\ ~ Succeeded(p)'
  <2>1. pc'[p] \in {"load", "vload"} /\ (pc'[p] = "vload" => opt'[p].cmd = "verify")
    BY DEF Begin, TypeInv, TypeOK
  <2> QED BY <2>1, EarlyEffect
<1>2. Following(p)'
  BY <1>1 DEF Following, Verifying, Joining
<1>3. TempWhole'
  BY <1>1, TempStays DEF CalmInv, Joining
<1>4. FinalWhole'
  <2>1. \A k \in DOMAIN bundle.manifest.files : ~ Past(p, k)'
    BY <1>1 DEF Past, Joining
  <2> QED BY <1>1, <2>1, FinalStays DEF CalmInv, Joining
<1>5. Winner'
  BY <1>1 DEF Winner, Winning, Robbed, Running, Verifying, Joining
<1> QED BY <1>2, <1>3, <1>4, <1>5

LEMMA StepConvergeInv ==
    ASSUME TypeInv, TypeInv', VerdictInv, ConvergeInv, [Next]_vars
    PROVE  ConvergeInv'
<1>0. /\ budget \in [runs : Nat, changes : Nat, crashes : Nat, errors : Nat,
                     stuck : Nat]
      /\ MaxStuck \in Nat /\ MaxErrors \in Nat /\ MaxCrashes \in Nat /\ MaxChanges \in Nat
  BY BoundsAssumption DEF TypeInv, TypeOK
<1>1. ASSUME NEW p \in Procs, Begin(p) \/ Step(p)
      PROVE  ConvergeInv'
  <2>1. /\ budget'.errors = budget.errors /\ budget'.crashes = budget.crashes
        /\ budget'.changes = budget.changes /\ budget'.stuck = budget.stuck
    BY <1>0, <1>1, Zenon DEF Begin, Step, Load, DestReady, VLoad, CheckSidecar, VerifyVerifier,
       CheckObject, ScanExtra, JoinOpen, JoinCopy, JoinInstall, OpenReceipt, WriteReceipt
  <2>2. FirstKind = "none" => destKind' # "other"
    <3>1. destKind' = destKind \/ destKind' = "dir"
      BY <1>1, Zenon DEF Begin, Step, Load, DestReady, VLoad, CheckSidecar, VerifyVerifier, dest,
       CheckObject, ScanExtra, JoinOpen, JoinCopy, JoinInstall, OpenReceipt, WriteReceipt
    <3> QED BY <3>1 DEF ConvergeInv
  <2>3. bundle' = bundle /\ \A q \in Procs \ {p} : Idle(q)
    BY <1>1, OthersIdle DEF TypeInv
  <2>4. ASSUME Calm' PROVE CalmInv'
    <3>1. Calm /\ Sound /\ PathsApart(bundle.manifest) /\ destKind' # "other"
      BY <2>1, <2>2, <2>3, <2>4 DEF Calm, Sound
    <3>2. CalmInv
      BY <3>1 DEF ConvergeInv
    <3>3. Following(p)' /\ Winner' /\ TempWhole' /\ FinalWhole'
      BY <1>1, <2>3, <3>1, <3>2, BeginCalm, EarlyCalm, JoinCalm DEF Step
    <3>4. undisturbed'[p]
      <4>1. CASE Begin(p)
        BY <4>1 DEF Begin, TypeInv, TypeOK
      <4>2. CASE Step(p)
        <5>1. undisturbed' = undisturbed
          BY <4>2, Zenon DEF Step, Load, DestReady, VLoad, CheckSidecar, VerifyVerifier,
             CheckObject, ScanExtra, JoinOpen, JoinCopy, JoinInstall, OpenReceipt,
             WriteReceipt
        <5> QED BY <3>2, <5>1 DEF CalmInv
      <4> QED BY <1>1, <4>1, <4>2
    <3>5. ASSUME NEW q \in Procs \ {p} PROVE undisturbed'[q] /\ Following(q)'
      BY <2>3, <3>2, IdleFollows DEF CalmInv, Idle, Same
    <3>6. \A q \in Procs : Held(q)'
      BY <1>1, <2>3, <3>1, <3>2, HeldStays DEF CalmInv
    <3> QED BY <3>3, <3>4, <3>5, <3>6 DEF CalmInv
  <2> QED BY <2>1, <2>2, <2>4 DEF ConvergeInv
<1>2. ASSUME NEW p \in Procs, LocalError(p) PROVE ConvergeInv'
  <2>1. /\ budget' = [budget EXCEPT !.errors = @ - 1] /\ destKind' = destKind
        /\ budget.errors > 0
    BY <1>2 DEF LocalError
  <2>2. budget'.errors < MaxErrors /\ budget'.crashes = budget.crashes
        /\ budget'.changes = budget.changes /\ budget'.stuck = budget.stuck
    BY <1>0, <2>1 DEF ConvergeInv
  <2> QED BY <1>0, <2>1, <2>2 DEF ConvergeInv, Calm
<1>3. ASSUME NEW p \in Procs, Crash(p) PROVE ConvergeInv'
  <2>1. /\ budget' = [budget EXCEPT !.crashes = @ - 1] /\ destKind' = destKind
        /\ budget.crashes > 0
    BY <1>3 DEF Crash, dest
  <2>2. budget'.crashes < MaxCrashes /\ budget'.errors = budget.errors
        /\ budget'.changes = budget.changes /\ budget'.stuck = budget.stuck
    BY <1>0, <2>1 DEF ConvergeInv
  <2> QED BY <1>0, <2>1, <2>2 DEF ConvergeInv, Calm
<1>4. CASE ChangeMedia
  <2>1. /\ budget' = [budget EXCEPT !.changes = @ - 1] /\ destKind' = destKind
        /\ budget.changes > 0
    BY <1>4 DEF ChangeMedia, dest
  <2>2. budget'.changes < MaxChanges /\ budget'.errors = budget.errors
        /\ budget'.crashes = budget.crashes /\ budget'.stuck = budget.stuck
    BY <1>0, <2>1 DEF ConvergeInv
  <2> QED BY <1>0, <2>1, <2>2 DEF ConvergeInv, Calm
<1>6. ASSUME NEW p \in Procs, RemovalFails(p) PROVE ConvergeInv'
  <2>1. /\ budget' = [budget EXCEPT !.stuck = @ - 1] /\ destKind' = destKind
        /\ budget.stuck > 0
    BY <1>6 DEF RemovalFails, dest
  <2>2. budget'.stuck < MaxStuck /\ budget'.errors = budget.errors
        /\ budget'.crashes = budget.crashes /\ budget'.changes = budget.changes
    BY <1>0, <2>1 DEF ConvergeInv
  <2> QED BY <1>0, <2>1, <2>2 DEF ConvergeInv, Calm
<1>5. CASE UNCHANGED vars
  <2>1. UNCHANGED <<bundle, final, destKind, pc, opt, man, i, j, buf, out, exit,
                    undisturbed, budget>>
    BY <1>5 DEF vars, dest, locals
  <2>2. \A q \in Procs : (Following(q) => Following(q)') /\ (Held(q) => Held(q)')
    BY <2>1 DEF Following, HashedSoFar, Entry, Held, Temp, Current
  <2>3. (Winner => Winner') /\ (TempWhole => TempWhole') /\ (FinalWhole => FinalWhole')
    <3>1. Winner => Winner'
      BY <2>1 DEF Winner, Winning, Robbed, Succeeded, Temp, Current, Entry
    <3>2. TempWhole => TempWhole'
      BY <2>1 DEF TempWhole, WholeAs, Whole, WholeBy, Current, Entry
    <3>3. \A q \in Procs, k \in DOMAIN bundle.manifest.files : Past(q, k)' => Past(q, k)
      BY <2>1 DEF Past, Succeeded
    <3>4. FinalWhole => FinalWhole'
      BY <2>1, <3>3, SMTT(60) DEF FinalWhole, WholeAs, Whole, WholeBy, Current, Entry
    <3> QED BY <3>1, <3>2, <3>4
  <2>4. Calm' => Calm
    BY <2>1 DEF Calm, Sound
  <2> QED BY <2>1, <2>2, <2>3, <2>4 DEF ConvergeInv, CalmInv
<1> QED BY <1>1, <1>2, <1>3, <1>4, <1>5, <1>6 DEF Next

(* However many unpacks --force of one intact bundle run into a fresh       *)
(* destination at a time, when all have ended one has succeeded and every   *)
(* file is whole (offline.py:410-430): whoever renames a file goes on, and  *)
(* a file that is in place is whole or is being made so by the process that *)
(* has it open.                                                             *)
THEOREM RunsConverge == Procs # {} => (Spec => []ConcurrentRunsConverge)
<1> SUFFICES ASSUME Procs # {} PROVE Spec => []ConcurrentRunsConverge
  OBVIOUS
<1> DEFINE Inv == TypeInv /\ VerdictInv /\ ConvergeInv
<1>1. Init => Inv
  <2> SUFFICES ASSUME Init PROVE Inv
    OBVIOUS
  <2>1. \A p \in Procs : pc[p] = "idle" /\ undisturbed[p]
    BY DEF Init
  <2>2. VerdictInv
    BY <2>1 DEF VerdictInv, Verdict, Joining
  <2>3. Calm => TempWhole /\ FinalWhole /\ Winner
    <3>1. \A k \in DOMAIN bundle.manifest.files, p \in Procs : ~ Past(p, k)
      BY <2>1 DEF Past, Succeeded, Joining
    <3>2. Calm => TempWhole
      <4>1. FirstKind = "none" => \A n \in Places : final[n] = NoFile
        BY DestAssumption DEF Init
      <4> QED BY <4>1, InitTypeInv, DeclaredShape DEF TempWhole, Calm
    <3> QED BY <2>1, <3>1, <3>2 DEF FinalWhole, Winner
  <2>4. \A p \in Procs : Following(p) /\ Held(p)
    BY <2>1 DEF Init, Following, Held, Verifying, Joining
  <2>5. ConvergeInv
    BY <2>1, <2>3, <2>4, BoundsAssumption DEF Init, ConvergeInv, CalmInv
  <2> QED BY <2>2, <2>5, InitTypeInv
<1>2. Inv /\ [Next]_vars => Inv'
  BY StepTypeInv, StepVerdictInv, StepConvergeInv
<1>3. Inv => ConcurrentRunsConverge
  <2> SUFFICES ASSUME Inv, Calm,
                      \A p \in Procs : pc[p] = "done" /\ opt[p].cmd = "unpack" /\ opt[p].force
               PROVE  /\ \E p \in Procs : exit[p] = 0
                      /\ \A k \in DOMAIN bundle.manifest.files :
                           LET e == bundle.manifest.files[k]
                           IN e.path # ReceiptName => final[e.path] = e.sha
    BY DEF ConcurrentRunsConverge, Calm, Sound
  <2>1. Winner /\ FinalWhole
    BY DEF ConvergeInv, CalmInv
  <2>2. PICK w \in Procs : Succeeded(w)
    BY <2>1 DEF Winner, Winning, Running, Verifying, Joining
  <2>3. \A k \in DOMAIN bundle.manifest.files : Past(w, k)
    BY <2>2 DEF Past
  <2> QED BY <2>1, <2>2, <2>3 DEF FinalWhole, WholeAs, Whole, WholeBy, Succeeded
<1> QED BY <1>1, <1>2, <1>3, PTL DEF Spec
=============================================================================
