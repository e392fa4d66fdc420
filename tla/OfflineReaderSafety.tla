------------------------ MODULE OfflineReaderSafety ------------------------
(***************************************************************************)
(* What OfflineReader guarantees for every value of its constants: its     *)
(* types and its temporary files for any number of processes, its final    *)
(* files and exit code 0 for one process at a time.                        *)
(***************************************************************************)
EXTENDS OfflineReader, SequenceTheorems, TLAPS

(***************************************************************************)
(* The inductive strengthening of TypeOK, for any number of processes: the *)
(* manifests a process goes by are loaded where they are used, cursors     *)
(* point inside them, and a file that a process holds open under some name *)
(* is there.                                                               *)
(***************************************************************************)
Loaded(p) ==
    /\ pc[p] = "load" => opt[p].cmd = "unpack"
    /\ pc[p] \in {"dest"} \cup Joining =>
         opt[p].cmd = "unpack" /\ man[p] \in Manifests
    /\ pc[p] \in Verifying /\ opt[p].cmd = "unpack" => man[p] \in Manifests
    /\ pc[p] \in {"sidecar", "tool", "objects"} => vman[p] \in Manifests

Cursor(p) ==
    /\ pc[p] \in {"load", "dest", "vload", "sidecar", "tool"} => i[p] = 1 /\ j[p] = 1
    /\ pc[p] = "objects" /\ i[p] <= Len(vman[p].files) =>
         j[p] \in 1 .. Len(Sources(vman[p].files[i[p]]))
    /\ pc[p] = "copy" => i[p] <= Len(man[p].files)

Handle(p) ==
    /\ pc[p] # "copy" => out[p] = {}
    /\ \A n \in out[p] : final[n] # NoFile

TypeInv == TypeOK /\ \A p \in Procs : Loaded(p) /\ Cursor(p) /\ Handle(p)

-----------------------------------------------------------------------------
(* Every manifest on the media has the shape _load_manifest accepts. *)
LEMMA ManifestsShape == Manifests \subseteq ManifestType
BY MediaAssumption DEF Manifests

(* The objects of an entry: at least one, each with a name and contents. *)
LEMMA SourcesShape ==
    ASSUME NEW m \in ManifestType, NEW k \in 1 .. Len(m.files)
    PROVE  /\ m.files[k].path \in Names
           /\ m.files[k].sha \in Contents
           /\ Sources(m.files[k]) \in Seq(Part)
           /\ Len(Sources(m.files[k])) >= 1
<1> DEFINE e == m.files[k]
<1>1. e \in EntryType
  BY ManifestAssumption
<1>2. << [path |-> e.path, sha |-> e.sha] >> \in Seq(Part)
  BY <1>1 DEF Part, EntryType
<1>3. e.parts # <<>> => Len(e.parts) >= 1
  BY <1>1 DEF EntryType
<1> QED
  BY <1>1, <1>2, <1>3 DEF Sources, EntryType

(* Names and the temporary names of names are names of the destination. *)
LEMMA PlacesShape ==
    /\ Names \subseteq Places /\ Temps \subseteq Places
    /\ \A f \in Names : TempName(f) \in Temps
BY DEF Places, Temps

(* Writing blocks into a file, wherever, leaves a sequence of blocks. *)
LEMMA WriteAtShape ==
    ASSUME NEW c \in FileContents, NEW s \in Contents, NEW off \in Nat
    PROVE  WriteAt(c, off, s) \in FileContents
<1> DEFINE n == IF Len(c) > off + Len(s) THEN Len(c) ELSE off + Len(s)
           w(k) == IF k \in off + 1 .. off + Len(s) THEN s[k - off]
                   ELSE IF k <= Len(c) THEN c[k] ELSE Hole
<1>1. n \in Nat
  BY DEF Contents, FileContents
<1>2. \A k \in 1 .. n : w(k) \in FileBlocks
  BY DEF Contents, FileContents, FileBlocks
<1>3. [k \in 1 .. n |-> w(k)] \in Seq(FileBlocks)
  BY <1>1, <1>2
<1> QED
  BY <1>3 DEF WriteAt, FileContents

LEMMA ReceiptShape ==
    ASSUME NEW m \in ManifestType, NEW v \in BOOLEAN
    PROVE  Receipt(m, v) \in FileContents
BY DEF Receipt, FileContents, FileBlocks

(* Blocks copied from the media are contents a file may have. *)
LEMMA ContentsAreFileContents == Contents \subseteq FileContents
BY DEF Contents, FileContents, FileBlocks

-----------------------------------------------------------------------------
LEMMA InitTypeInv == Init => TypeInv
<1> SUFFICES ASSUME Init PROVE TypeInv
  OBVIOUS
<1>1. bundle \in [manifest : Manifests \cup {Missing, Malformed},
                  sidecar : ManifestType \cup {Missing, Malformed},
                  verifier : Tools \cup {Missing},
                  payload : [Names -> OnMedia]]
  BY MediaAssumption DEF Init, Manifests
<1>2. <<>> \in Contents
  BY DEF Contents
<1>3. budget \in [runs : Nat, changes : Nat, crashes : Nat, errors : Nat,
                  stuck : Nat]
  BY BoundsAssumption DEF Init
<1>4. final \in [Places -> {NoFile} \cup FileContents]
  BY DestAssumption, ContentsAreFileContents DEF Init, Places
<1>5. TypeOK
  BY <1>1, <1>2, <1>3, <1>4, DestAssumption DEF Init, TypeOK
<1>6. \A p \in Procs : Loaded(p) /\ Cursor(p) /\ Handle(p)
  BY DEF Init, Loaded, Cursor, Handle, Joining, Verifying
<1> QED
  BY <1>5, <1>6 DEF TypeInv

LEMMA BeginTypeInv ==
    ASSUME TypeInv, NEW p \in Procs, Begin(p)
    PROVE  TypeInv'
<1> USE DEF TypeInv
<1>1. <<>> \in Contents
  BY DEF Contents
<1>2. TypeOK'
  <2>1. budget' \in [runs : Nat, changes : Nat, crashes : Nat, errors : Nat,
                     stuck : Nat]
    <3>1. budget \in [runs : Nat, changes : Nat, crashes : Nat, errors : Nat,
                      stuck : Nat]
      BY DEF TypeOK
    <3>2. budget.runs > 0 /\ budget' = [budget EXCEPT !.runs = @ - 1]
      BY DEF Begin
    <3> QED
      BY <3>1, <3>2
  <2>2. pc' \in [Procs -> Running \cup {"idle", "done", "crashed"}]
    BY DEF Begin, TypeOK, Running, Verifying
  <2> QED
    BY <1>1, <2>1, <2>2, SMTT(30) DEF Begin, TypeOK, dest
<1>3. \A q \in Procs : (Loaded(q) /\ Cursor(q) /\ Handle(q))'
  <2> TAKE q \in Procs
  <2>1. Loaded(q)'
    BY OptionsAssumption DEF Begin, TypeOK, Loaded, Joining, Verifying
  <2>2. Cursor(q)'
    BY DEF Begin, TypeOK, Cursor
  <2>3. Handle(q)'
    BY DEF Begin, TypeOK, Handle, Current, Entry, dest
  <2> QED BY <2>1, <2>2, <2>3
<1> QED BY <1>2, <1>3

LEMMA LoadTypeInv ==
    ASSUME TypeInv, NEW p \in Procs, Load(p)
    PROVE  TypeInv'
<1> USE DEF TypeInv
<1>1. IsManifest(bundle.manifest) => bundle.manifest \in Manifests
  BY DEF TypeOK, IsManifest
<1>2. TypeOK'
  BY <1>1, SMTT(60) DEF Load, TypeOK, dest, Running, Exit, Goto
<1>3. \A q \in Procs : (Loaded(q) /\ Cursor(q) /\ Handle(q))'
  <2> TAKE q \in Procs
  <2>1. Loaded(q)'
    BY <1>1 DEF Load, TypeOK, Loaded, Joining, Verifying, Exit, Goto
  <2>2. Cursor(q)'
    BY DEF Load, TypeOK, Cursor, Exit, Goto
  <2>3. Handle(q)'
    BY DEF Load, TypeOK, Handle, Current, Entry, dest, Exit, Goto
  <2> QED BY <2>1, <2>2, <2>3
<1> QED BY <1>2, <1>3

LEMMA DestReadyTypeInv ==
    ASSUME TypeInv, NEW p \in Procs, DestReady(p)
    PROVE  TypeInv'
<1> USE DEF TypeInv
<1>2. TypeOK'
  BY DEF DestReady, TypeOK, dest, Running, Exit, Goto, Verifying, Joining
<1>3. \A q \in Procs : (Loaded(q) /\ Cursor(q) /\ Handle(q))'
  <2> TAKE q \in Procs
  <2>1. Loaded(q)'
    <3>1. opt' = opt /\ man' = man /\ vman' = vman
      BY DEF DestReady
    <3>2. opt[p].cmd = "unpack" /\ man[p] \in Manifests
      BY DEF DestReady, Loaded
    <3>3. \/ pc' = [pc EXCEPT ![p] = "done"]
          \/ pc' = [pc EXCEPT ![p] = "join"]
          \/ pc' = [pc EXCEPT ![p] = "vload"]
      BY DEF DestReady, Exit, Goto
    <3> QED
      BY <3>1, <3>2, <3>3 DEF TypeOK, Loaded, Joining, Verifying
  <2>2. Cursor(q)'
    BY DEF DestReady, TypeOK, Cursor, Exit, Goto
  <2>3. Handle(q)'
    BY DEF DestReady, TypeOK, Handle, Current, Entry, Exit, Goto
  <2> QED BY <2>1, <2>2, <2>3
<1> QED BY <1>2, <1>3

LEMMA VLoadTypeInv ==
    ASSUME TypeInv, NEW p \in Procs, VLoad(p)
    PROVE  TypeInv'
<1> USE DEF TypeInv
<1>1. IsManifest(bundle.manifest) => bundle.manifest \in Manifests
  BY DEF TypeOK, IsManifest
<1>2. TypeOK'
  BY <1>1 DEF VLoad, TypeOK, dest, Running, Verifying, Exit, Goto
<1>3. \A q \in Procs : (Loaded(q) /\ Cursor(q) /\ Handle(q))'
  <2> TAKE q \in Procs
  <2>1. Loaded(q)'
    BY <1>1 DEF VLoad, TypeOK, Loaded, Joining, Verifying, Exit, Goto
  <2>2. Cursor(q)'
    BY DEF VLoad, TypeOK, Cursor, Exit, Goto
  <2>3. Handle(q)'
    BY DEF VLoad, TypeOK, Handle, Current, Entry, dest, Exit, Goto
  <2> QED BY <2>1, <2>2, <2>3
<1> QED BY <1>2, <1>3

LEMMA CheckSidecarTypeInv ==
    ASSUME TypeInv, NEW p \in Procs, CheckSidecar(p)
    PROVE  TypeInv'
<1> USE DEF TypeInv
<1>2. TypeOK'
  BY DEF CheckSidecar, TypeOK, dest, Running, Verifying, Exit, Goto
<1>3. \A q \in Procs : (Loaded(q) /\ Cursor(q) /\ Handle(q))'
  <2> TAKE q \in Procs
  <2>1. Loaded(q)'
    BY DEF CheckSidecar, TypeOK, Loaded, Joining, Verifying, Exit, Goto
  <2>2. Cursor(q)'
    BY DEF CheckSidecar, TypeOK, Cursor, Exit, Goto
  <2>3. Handle(q)'
    BY DEF CheckSidecar, TypeOK, Handle, Current, Entry, dest, Exit, Goto
  <2> QED BY <2>1, <2>2, <2>3
<1> QED BY <1>2, <1>3

LEMMA VerifyVerifierTypeInv ==
    ASSUME TypeInv, NEW p \in Procs, VerifyVerifier(p)
    PROVE  TypeInv'
<1> USE DEF TypeInv
<1>1. vman[p] \in ManifestType
  BY ManifestsShape DEF VerifyVerifier, Loaded
<1>2. TypeOK'
  BY DEF VerifyVerifier, TypeOK, dest, Running, Verifying, Exit, Goto
<1>3. \A q \in Procs : (Loaded(q) /\ Cursor(q) /\ Handle(q))'
  <2> TAKE q \in Procs
  <2>1. Loaded(q)'
    BY DEF VerifyVerifier, TypeOK, Loaded, Joining, Verifying, Exit, Goto
  <2>2. Cursor(q)'
    <3>1. 1 <= Len(vman[p].files) =>
            1 \in 1 .. Len(Sources(vman[p].files[1]))
      BY <1>1, SourcesShape, ManifestAssumption
    <3> QED
      BY <3>1 DEF VerifyVerifier, TypeOK, Cursor, Exit, Goto
  <2>3. Handle(q)'
    BY DEF VerifyVerifier, TypeOK, Handle, Current, Entry, dest, Exit, Goto
  <2> QED BY <2>1, <2>2, <2>3
<1> QED BY <1>2, <1>3

LEMMA CheckObjectTypeInv ==
    ASSUME TypeInv, NEW p \in Procs, CheckObject(p)
    PROVE  TypeInv'
<1> USE DEF TypeInv
<1>0. /\ vman[p] \in ManifestType
      /\ i[p] \in 1 .. Len(vman[p].files)
      /\ j[p] \in 1 .. Len(Sources(vman[p].files[i[p]]))
  <2>1. pc[p] = "objects" /\ i[p] <= Len(vman[p].files)
    BY Zenon DEF CheckObject
  <2>2. vman[p] \in ManifestType
    BY <2>1, ManifestsShape DEF Loaded
  <2>3. Len(vman[p].files) \in Nat
    BY <2>2, ManifestAssumption
  <2>4. i[p] \in Nat \ {0}
    BY DEF TypeOK
  <2>5. j[p] \in 1 .. Len(Sources(vman[p].files[i[p]]))
    BY <2>1 DEF Cursor
  <2> QED BY <2>1, <2>2, <2>3, <2>4, <2>5
<1> DEFINE e == vman[p].files[i[p]]
           o == Sources(e)[j[p]]
           last == j[p] = Len(Sources(e))
           ok == SizeOK(vman[p], o) /\ bundle.payload[o.path] = o.sha
<1>1. Sources(e) \in Seq(Part) /\ Len(Sources(e)) \in Nat
  BY <1>0, SourcesShape
<1>2. o.path \in Names
  <2>1. o \in Part
    BY <1>0, <1>1
  <2> QED BY <2>1 DEF Part
<1>3. \/ pc' = pc /\ exit' = exit
      \/ \E c \in {1, 4} : Exit(p, c)
  BY Zenon DEF CheckObject
<1>4. \/ UNCHANGED <<clean, seen, i, j>>
      \/ /\ seen' = [seen EXCEPT ![p] = @ \cup {o.path}]
         /\ clean' = [clean EXCEPT ![p] = @ /\ ok]
         /\ i' = [i EXCEPT ![p] = IF last THEN @ + 1 ELSE @]
         /\ j' = [j EXCEPT ![p] = IF last THEN 1 ELSE @ + 1]
  BY Zenon DEF CheckObject
<1>5. UNCHANGED <<bundle, final, destKind, opt, man, vman, verified, buf,
                  out, undisturbed, budget>>
  BY Zenon DEF CheckObject, dest
<1>6. TypeOK'
  <2>1. pc' \in [Procs -> Running \cup {"idle", "done", "crashed"}]
        /\ exit' \in [Procs -> {0, 1, 2, 4}]
    BY <1>3 DEF TypeOK, Exit
  <2> HIDE DEF e, o, last, ok
  <2>2. seen' \in [Procs -> SUBSET Names]
    BY <1>2, <1>4 DEF TypeOK
  <2>3. i' \in [Procs -> Nat \ {0}] /\ j' \in [Procs -> Nat \ {0}]
    <3>1. /\ i \in [Procs -> Nat \ {0}] /\ j \in [Procs -> Nat \ {0}]
          /\ i[p] + 1 \in Nat \ {0} /\ j[p] + 1 \in Nat \ {0}
      BY DEF TypeOK
    <3>2. CASE last
      BY <3>1, <3>2, <1>4
    <3>3. CASE ~ last
      BY <3>1, <3>3, <1>4
    <3> QED BY <3>2, <3>3
  <2>4. clean' \in [Procs -> BOOLEAN]
    <3>1. clean \in [Procs -> BOOLEAN]
      BY DEF TypeOK
    <3>2. (clean[p] /\ ok) \in BOOLEAN
      OBVIOUS
    <3>3. CASE clean' = clean
      BY <3>1, <3>3
    <3>4. CASE clean' = [clean EXCEPT ![p] = @ /\ ok]
      BY <3>1, <3>2, <3>4, Zenon
    <3> QED BY <1>4, <3>3, <3>4
  <2> QED BY <1>5, <2>1, <2>2, <2>3, <2>4 DEF TypeOK
<1>7. \A q \in Procs : (Loaded(q) /\ Cursor(q) /\ Handle(q))'
  <2> TAKE q \in Procs
  <2>1. Loaded(q)'
    BY <1>3, <1>5 DEF TypeOK, Loaded, Joining, Verifying, Exit
  <2>2. Cursor(q)'
    <3>1. CASE q = p
      <4>1. i'[p] <= Len(vman[p].files) =>
              j'[p] \in 1 .. Len(Sources(vman[p].files[i'[p]]))
        <5>1. CASE UNCHANGED <<i, j>>
          BY <5>1, <1>0
        <5>2. CASE /\ i' = [i EXCEPT ![p] = IF last THEN @ + 1 ELSE @]
                   /\ j' = [j EXCEPT ![p] = IF last THEN 1 ELSE @ + 1]
          <6>1. CASE last
            <7>1. i'[p] = i[p] + 1 /\ j'[p] = 1
              BY <5>2, <6>1 DEF TypeOK
            <7>2. i'[p] <= Len(vman[p].files) => i'[p] \in 1 .. Len(vman[p].files)
              BY <7>1, <1>0, ManifestAssumption
            <7> QED
              BY <7>1, <7>2, <1>0, SourcesShape
          <6>2. CASE ~ last
            <7>1. i'[p] = i[p] /\ j'[p] = j[p] + 1
              BY <5>2, <6>2, SMTT(30) DEF TypeOK
            <7> QED
              BY <7>1, <6>2, <1>0, <1>1
          <6> QED BY <6>1, <6>2
        <5> QED BY <5>1, <5>2, <1>4, Zenon
      <4>2. pc'[p] = "objects" \/ pc'[p] = "done"
        BY <1>3, SMTT(30) DEF CheckObject, TypeOK, Exit
      <4> QED
        BY <3>1, <4>1, <4>2, <1>5 DEF Cursor
    <3>2. CASE q # p
      <4>1. i'[q] = i[q] /\ j'[q] = j[q] /\ pc'[q] = pc[q]
        BY <3>2, <1>3, <1>4, SMTT(30) DEF TypeOK, Exit
      <4> QED
        BY <4>1, <1>5 DEF Cursor
    <3> QED BY <3>1, <3>2
  <2>3. Handle(q)'
    <3>1. pc'[q] = "copy" <=> pc[q] = "copy"
      BY <1>3 DEF CheckObject, TypeOK, Exit
    <3> QED
      BY <3>1, <1>5 DEF Handle, TypeOK
  <2> QED BY <2>1, <2>2, <2>3
<1> QED BY <1>6, <1>7

LEMMA ScanExtraTypeInv ==
    ASSUME TypeInv, NEW p \in Procs, ScanExtra(p)
    PROVE  TypeInv'
<1> USE DEF TypeInv
<1>1. UNCHANGED <<bundle, final, destKind, opt, man, vman, clean, seen,
                  buf, out, undisturbed, budget>>
  BY DEF ScanExtra, dest
<1>2. \/ /\ \E c \in {0, 1} : Exit(p, c)
         /\ UNCHANGED <<verified, i, j>>
      \/ /\ opt[p].cmd = "unpack"
         /\ pc' = [pc EXCEPT ![p] = "join"]
         /\ exit' = exit
         /\ verified' = [verified EXCEPT ![p] = TRUE]
         /\ i' = [i EXCEPT ![p] = 1]
         /\ j' = [j EXCEPT ![p] = 1]
  <2>1. opt[p].cmd \in {"verify", "unpack"}
    BY OptionsAssumption DEF TypeOK
  <2> QED
    BY <2>1 DEF ScanExtra, Goto
<1>3. pc[p] = "objects"
  BY DEF ScanExtra
<1>4. TypeOK'
  <2>1. pc' \in [Procs -> Running \cup {"idle", "done", "crashed"}]
    BY <1>2 DEF TypeOK, Exit, Running, Joining
  <2>2. exit' \in [Procs -> {0, 1, 2, 4}]
    BY <1>2 DEF TypeOK, Exit
  <2>3. verified' \in [Procs -> BOOLEAN]
    BY <1>2, TRUE \in BOOLEAN DEF TypeOK
  <2>4. i' \in [Procs -> Nat \ {0}] /\ j' \in [Procs -> Nat \ {0}]
    BY <1>2 DEF TypeOK
  <2> QED BY <1>1, <2>1, <2>2, <2>3, <2>4 DEF TypeOK
<1>5. \A q \in Procs : (Loaded(q) /\ Cursor(q) /\ Handle(q))'
  <2> TAKE q \in Procs
  <2>1. Loaded(q)'
    BY <1>1, <1>2, <1>3 DEF TypeOK, Loaded, Joining, Verifying, Exit
  <2>2. Cursor(q)'
    BY <1>1, <1>2, <1>3, SMTT(30) DEF TypeOK, Cursor, Exit
  <2>3. Handle(q)'
    BY <1>1, <1>2, <1>3 DEF TypeOK, Handle, Current, Entry, Exit
  <2> QED BY <2>1, <2>2, <2>3
<1> QED BY <1>4, <1>5

(* The entry a process is joining or is about to join. *)
AtEntry(q) ==
    \/ pc[q] = "copy"
    \/ pc[q] = "join" /\ i[q] <= Len(man[q].files)

LEMMA CurrentShape ==
    ASSUME TypeInv, NEW q \in Procs, AtEntry(q)
    PROVE  /\ man[q] \in Manifests
           /\ i[q] \in 1 .. Len(man[q].files)
           /\ Current(q) \in Names
           /\ Temp(q) \in Temps /\ Temp(q) \in Places
           /\ Entry(q).sha \in Contents
           /\ Sources(Entry(q)) \in Seq(Part)
<1>1. man[q] \in Manifests /\ man[q] \in ManifestType
  BY ManifestsShape DEF AtEntry, TypeInv, Loaded, Joining
<1>2. i[q] \in 1 .. Len(man[q].files)
  BY <1>1, ManifestAssumption DEF AtEntry, TypeInv, TypeOK, Cursor
<1>3. Current(q) \in Names
  BY <1>1, <1>2, SourcesShape DEF Current, Entry
<1> QED
  BY <1>1, <1>2, <1>3, SourcesShape, PlacesShape DEF Current, Entry, Temp

LEMMA JoinOpenTypeInv ==
    ASSUME TypeInv, NEW p \in Procs, JoinOpen(p)
    PROVE  TypeInv'
<1> USE DEF TypeInv
<1> DEFINE nil == <<>>
           t == Temp(p)
<1>0. i[p] \in 1 .. Len(man[p].files) /\ t \in Places
  BY CurrentShape DEF JoinOpen, AtEntry
<1>1. UNCHANGED <<bundle, destKind, opt, man, vman, clean, seen,
                  verified, i, undisturbed, budget>>
  BY DEF JoinOpen
<1>2. \/ /\ pc' = [pc EXCEPT ![p] = "done"]
         /\ exit' = [exit EXCEPT ![p] = 1]
         /\ UNCHANGED <<final, out, j, buf>>
      \/ /\ final' = [final EXCEPT ![t] = nil]
         /\ out' = [out EXCEPT ![p] = {t}]
         /\ j' = [j EXCEPT ![p] = 1]
         /\ buf' = [buf EXCEPT ![p] = nil]
         /\ pc' = [pc EXCEPT ![p] = "copy"]
         /\ exit' = exit
  BY DEF JoinOpen, Opened, Goto, Exit
<1>3. pc[p] = "join"
  BY DEF JoinOpen
<1>4. nil \in Contents /\ nil \in FileContents /\ nil # NoFile
  <2>1. nil \in Contents /\ nil \in FileContents
    BY DEF Contents, FileContents
  <2> HIDE DEF FileContents
  <2> QED BY <2>1, DestAssumption
<1> HIDE DEF nil, t
<1>5. TypeOK'
  <2>1. pc' \in [Procs -> Running \cup {"idle", "done", "crashed"}]
    BY <1>2 DEF TypeOK, Running, Joining
  <2>2. exit' \in [Procs -> {0, 1, 2, 4}]
    BY <1>2 DEF TypeOK
  <2>3. final' \in [Places -> {NoFile} \cup FileContents]
    BY <1>2, <1>4 DEF TypeOK
  <2>4. out' \in [Procs -> SUBSET Places]
    <3>1. {t} \in SUBSET Places /\ out \in [Procs -> SUBSET Places]
      BY <1>0 DEF TypeOK
    <3>2. out' = out \/ out' = [out EXCEPT ![p] = {t}]
      BY <1>2
    <3> QED BY <3>1, <3>2
  <2>5. j' \in [Procs -> Nat \ {0}] /\ buf' \in [Procs -> Contents]
    BY <1>2, <1>4, SMTT(60) DEF TypeOK
  <2> QED BY <1>1, <2>1, <2>2, <2>3, <2>4, <2>5 DEF TypeOK
<1>6. \A q \in Procs : (Loaded(q) /\ Cursor(q) /\ Handle(q))'
  <2> TAKE q \in Procs
  <2>1. Loaded(q)'
    BY <1>1, <1>2, <1>3 DEF TypeOK, Loaded, Joining, Verifying
  <2>2. Cursor(q)'
    BY <1>0, <1>1, <1>2, <1>3 DEF TypeOK, Cursor
  <2>3. Handle(q)'
    <3>1. \A n \in Places : final[n] # NoFile => final'[n] # NoFile
      BY <1>2, <1>4 DEF TypeOK
    <3>2. out[q] \subseteq Places
      BY DEF TypeOK
    <3>3. CASE out' = out /\ pc' = [pc EXCEPT ![p] = "done"]
      BY <1>3, <3>1, <3>2, <3>3 DEF TypeOK, Handle
    <3>4. CASE /\ out' = [out EXCEPT ![p] = {t}]
               /\ pc' = [pc EXCEPT ![p] = "copy"]
               /\ final' = [final EXCEPT ![t] = nil]
      <4>1. q = p => out'[q] = {t} /\ pc'[q] = "copy"
        BY <3>4 DEF TypeOK
      <4>2. q # p => out'[q] = out[q] /\ pc'[q] = pc[q]
        BY <3>4 DEF TypeOK
      <4>3. final'[t] # NoFile
        BY <1>0, <1>4, <3>4 DEF TypeOK
      <4> QED BY <3>1, <3>2, <4>1, <4>2, <4>3 DEF Handle
    <3> QED BY <1>2, <3>3, <3>4
  <2> QED BY <2>1, <2>2, <2>3
<1> QED BY <1>5, <1>6

(* A failing _join_file, wherever it fails. *)
LEMMA FailJoinTypeInv ==
    ASSUME TypeInv, NEW p \in Procs, NEW code \in {1, 4}, AtEntry(p),
           FailJoin(p, code),
           UNCHANGED <<bundle, destKind, opt, man, vman, clean, seen, verified>>,
           undisturbed' \in [Procs -> BOOLEAN],
           budget' \in [runs : Nat, changes : Nat, crashes : Nat, errors : Nat,
                        stuck : Nat]
    PROVE  TypeInv'
<1> USE DEF TypeInv
<1>1. /\ pc' = [pc EXCEPT ![p] = "done"]
      /\ exit' = [exit EXCEPT ![p] = code]
      /\ final' = [final EXCEPT ![Temp(p)] = NoFile]
      /\ UNCHANGED <<i, j, buf>>
  BY DEF FailJoin, RemoveTemp, Exit
<1>2. out' = [q \in Procs |-> IF q = p THEN {} ELSE out[q] \ {Temp(p)}]
  BY DEF FailJoin, RemoveTemp
<1>3. TypeOK'
  <2>1. out' \in [Procs -> SUBSET Places]
    BY <1>2 DEF TypeOK
  <2>2. final' \in [Places -> {NoFile} \cup FileContents]
    BY <1>1 DEF TypeOK
  <2> QED
    BY <1>1, <2>1, <2>2 DEF TypeOK
<1>4. \A q \in Procs : (Loaded(q) /\ Cursor(q) /\ Handle(q))'
  <2> TAKE q \in Procs
  <2>1. Loaded(q)'
    BY <1>1 DEF TypeOK, Loaded, Joining, Verifying
  <2>2. Cursor(q)'
    BY <1>1 DEF TypeOK, Cursor, AtEntry
  <2>3. Handle(q)'
    <3>1. \A n \in Places : n # Temp(p) => final'[n] = final[n]
      BY <1>1 DEF TypeOK
    <3>2. CASE q = p
      BY <3>2, <1>1, <1>2 DEF TypeOK, Handle
    <3>3. CASE q # p
      <4>1. pc'[q] = pc[q] /\ out'[q] = out[q] \ {Temp(p)} /\ out[q] \subseteq Places
        BY <1>1, <1>2, <3>3 DEF TypeOK
      <4> QED BY <3>1, <4>1 DEF Handle
    <3> QED BY <3>2, <3>3
  <2> QED BY <2>1, <2>2, <2>3
<1> QED BY <1>3, <1>4

LEMMA JoinCopyTypeInv ==
    ASSUME TypeInv, NEW p \in Procs, JoinCopy(p)
    PROVE  TypeInv'
<1> USE DEF TypeInv
<1> DEFINE s == bundle.payload[Sources(Entry(p))[j[p]].path]
           off == Len(buf[p])
<1>0. pc[p] = "copy" /\ AtEntry(p)
  BY DEF JoinCopy, AtEntry
<1>1. s \in OnMedia
  <2>1. Sources(Entry(p)) \in Seq(Part)
    BY <1>0, CurrentShape
  <2>2. j[p] \in 1 .. Len(Sources(Entry(p)))
    BY <2>1 DEF JoinCopy, TypeOK
  <2>3. Sources(Entry(p))[j[p]] \in Part
    BY <2>1, <2>2
  <2>4. Sources(Entry(p))[j[p]].path \in Names
    BY <2>3 DEF Part
  <2> QED
    BY <2>4 DEF TypeOK
<1>2. UNCHANGED <<bundle, destKind, opt, man, vman, clean, seen, verified,
                  undisturbed, budget>>
  BY DEF JoinCopy
<1>3. CASE s \in {Link, Missing, Unreadable}
  <2>1. FailJoin(p, SourceCode(s))
    BY <1>3 DEF JoinCopy
  <2>2. SourceCode(s) \in {1, 4}
    BY DEF SourceCode
  <2> QED
    BY <1>0, <1>2, <2>1, <2>2, FailJoinTypeInv DEF TypeOK
<1>4. CASE s \notin {Link, Missing, Unreadable}
  <2>1. s \in Contents /\ off \in Nat
    BY <1>1, <1>4 DEF OnMedia, TypeOK, Contents
  <2>2. /\ buf' = [buf EXCEPT ![p] = @ \o s]
        /\ j' = [j EXCEPT ![p] = @ + 1]
        /\ final' = [n \in Places |-> IF n \in out[p]
                                     THEN WriteAt(final[n], off, s) ELSE final[n]]
        /\ UNCHANGED <<pc, exit, i, out>>
    BY <1>4 DEF JoinCopy
  <2>3. ASSUME NEW n \in Places, final[n] # NoFile
        PROVE  WriteAt(final[n], off, s) \in FileContents
    BY <2>1, <2>3, WriteAtShape DEF TypeOK
  <2>4. \A n \in out[p] : final[n] # NoFile
    BY DEF Handle
  <2>5. buf[p] \o s \in Contents
    BY <2>1 DEF TypeOK, Contents
  <2>6. NoFile \notin FileContents
    BY DestAssumption
  <2> HIDE DEF s, off
  <2>7. TypeOK'
    <3>1. final' \in [Places -> {NoFile} \cup FileContents]
      BY <2>2, <2>3, <2>4 DEF TypeOK
    <3>2. buf' \in [Procs -> Contents]
      BY <2>2, <2>5 DEF TypeOK
    <3>3. j' \in [Procs -> Nat \ {0}]
      BY <2>2 DEF TypeOK
    <3> QED
      BY <1>2, <2>2, <3>1, <3>2, <3>3 DEF TypeOK
  <2>8. \A q \in Procs : (Loaded(q) /\ Cursor(q) /\ Handle(q))'
    <3> TAKE q \in Procs
    <3>1. Loaded(q)'
      BY <1>2, <2>2 DEF Loaded
    <3>2. Cursor(q)'
      <4>1. pc[q] # "copy" => j'[q] = j[q]
        BY <1>0, <2>2 DEF TypeOK
      <4> QED BY <1>2, <2>2, <4>1 DEF Cursor
    <3>3. Handle(q)'
      <4>1. \A n \in Places : final[n] # NoFile => final'[n] # NoFile
        BY <2>2, <2>3, <2>6
      <4>2. out[q] \subseteq Places
        BY DEF TypeOK
      <4> QED
        BY <2>2, <4>1, <4>2 DEF Handle
    <3> QED BY <3>1, <3>2, <3>3
  <2> QED BY <2>7, <2>8
<1> QED BY <1>3, <1>4

LEMMA JoinInstallTypeInv ==
    ASSUME TypeInv, NEW p \in Procs, JoinInstall(p)
    PROVE  TypeInv'
<1> USE DEF TypeInv
<1> DEFINE f == Current(p)
           t == Temp(p)
<1>0. pc[p] = "copy" /\ AtEntry(p) /\ f \in Places /\ t \in Places
  BY CurrentShape, PlacesShape DEF JoinInstall, AtEntry
<1>1. UNCHANGED <<bundle, destKind, opt, man, vman, clean, seen, verified,
                  undisturbed, budget>>
  BY DEF JoinInstall
<1>2. CASE ~ HashOK(p) \/ final[t] = NoFile
  <2>1. FailJoin(p, 1) \/ FailJoin(p, 4)
    BY <1>2 DEF JoinInstall
  <2> QED
    BY <1>0, <1>1, <2>1, FailJoinTypeInv DEF TypeOK
<1>3. CASE HashOK(p) /\ final[t] # NoFile
  <2>1. /\ final' = [final EXCEPT ![f] = final[t], ![t] = NoFile]
        /\ out' = [q \in Procs |->
             IF q = p THEN {}
             ELSE { IF n = t THEN f ELSE n : n \in out[q] \ {f} }]
        /\ i' = [i EXCEPT ![p] = @ + 1]
        /\ pc' = [pc EXCEPT ![p] = "join"]
        /\ UNCHANGED <<exit, j, buf>>
    BY <1>3 DEF JoinInstall, NextEntry, Goto
  <2>2. final[t] \in FileContents
    BY <1>0, <1>3 DEF TypeOK
  <2>0. f # t
    BY <1>0, CurrentShape, TemporaryAssumption DEF Temp
  <2> HIDE DEF f, t
  <2>3. TypeOK'
    <3>1. final' \in [Places -> {NoFile} \cup FileContents]
      BY <1>0, <2>1, <2>2 DEF TypeOK
    <3>2. out' \in [Procs -> SUBSET Places]
      BY <1>0, <2>1 DEF TypeOK
    <3>3. pc' \in [Procs -> Running \cup {"idle", "done", "crashed"}]
      BY <2>1 DEF TypeOK, Running, Joining
    <3>4. i' \in [Procs -> Nat \ {0}]
      BY <2>1 DEF TypeOK
    <3> QED
      BY <1>1, <2>1, <3>1, <3>2, <3>3, <3>4 DEF TypeOK
  <2>4. \A q \in Procs : (Loaded(q) /\ Cursor(q) /\ Handle(q))'
    <3> TAKE q \in Procs
    <3>1. Loaded(q)'
      BY <1>0, <1>1, <2>1 DEF TypeOK, Loaded, Joining, Verifying
    <3>2. Cursor(q)'
      BY <1>0, <1>1, <2>1 DEF TypeOK, Cursor
    <3>3. Handle(q)'
      <4>1. CASE q = p
        BY <4>1, <2>1 DEF TypeOK, Handle
      <4>2. CASE q # p
        <5>1. pc'[q] = pc[q] /\ out[q] \subseteq Places
          BY <4>2, <2>1 DEF TypeOK
        <5>2. out'[q] = { IF n = t THEN f ELSE n : n \in out[q] \ {f} }
          BY <4>2, <2>1
        <5>3. final'[f] # NoFile
              /\ \A n \in Places : n \notin {f, t} => final'[n] = final[n]
          BY <1>0, <1>3, <2>0, <2>1 DEF TypeOK
        <5>4. ASSUME NEW n \in out'[q] PROVE final'[n] # NoFile
          BY <5>1, <5>2, <5>3 DEF Handle
        <5>5. out[q] = {} => out'[q] = {}
          BY <5>2
        <5> QED BY <5>1, <5>4, <5>5 DEF Handle
      <4> QED BY <4>1, <4>2
    <3> QED BY <3>1, <3>2, <3>3
  <2> QED BY <2>3, <2>4
<1> QED BY <1>2, <1>3

LEMMA ReceiptTypeInv ==
    ASSUME TypeInv, NEW p \in Procs, OpenReceipt(p) \/ WriteReceipt(p)
    PROVE  TypeInv'
<1> USE DEF TypeInv
<1> DEFINE nil == <<>>
<1>1. UNCHANGED <<bundle, destKind, opt, man, vman, clean, seen, verified,
                  i, j, buf, out, undisturbed, budget>>
  BY DEF OpenReceipt, WriteReceipt
<1>2. /\ pc[p] \in {"join", "receipt"}
      /\ \/ pc' = [pc EXCEPT ![p] = "receipt"] /\ exit' = exit
         \/ pc' = [pc EXCEPT ![p] = "done"] /\ exit' = [exit EXCEPT ![p] = 0]
  BY DEF OpenReceipt, WriteReceipt, Goto, Exit
<1>3. \E c \in FileContents : final' = [final EXCEPT ![ReceiptName] = c]
  <2>1. nil \in FileContents
    BY DEF FileContents
  <2>2. Receipt(man[p], verified[p]) \in FileContents
    <3>1. man[p] \in ManifestType
      BY <1>2, ManifestsShape DEF Loaded, Joining
    <3>2. verified[p] \in BOOLEAN
      BY DEF TypeOK
    <3> QED BY <3>1, <3>2, ReceiptShape
  <2>3. \/ final' = [final EXCEPT ![ReceiptName] = nil]
        \/ final' = [final EXCEPT ![ReceiptName] = Receipt(man[p], verified[p])]
    BY DEF OpenReceipt, WriteReceipt
  <2> HIDE DEF nil
  <2> QED BY <2>1, <2>2, <2>3
<1>4. NoFile \notin FileContents
  BY DestAssumption
<1>5. TypeOK'
  <2>1. final' \in [Places -> {NoFile} \cup FileContents]
    BY <1>3 DEF TypeOK
  <2>2. /\ pc' \in [Procs -> Running \cup {"idle", "done", "crashed"}]
        /\ exit' \in [Procs -> {0, 1, 2, 4}]
    BY <1>2 DEF TypeOK, Running, Joining
  <2> QED BY <1>1, <2>1, <2>2 DEF TypeOK
<1>6. \A q \in Procs : (Loaded(q) /\ Cursor(q) /\ Handle(q))'
  <2> TAKE q \in Procs
  <2>1. Loaded(q)'
    BY <1>1, <1>2 DEF TypeOK, Loaded, Joining, Verifying
  <2>2. Cursor(q)'
    BY <1>1, <1>2 DEF TypeOK, Cursor
  <2>3. Handle(q)'
    <3>1. \A n \in Places : final[n] # NoFile => final'[n] # NoFile
      BY <1>3, <1>4 DEF TypeOK
    <3>2. out[q] \subseteq Places
      BY DEF TypeOK
    <3> QED
      BY <1>1, <1>2, <3>1, <3>2 DEF TypeOK, Handle
  <2> QED BY <2>1, <2>2, <2>3
<1> QED BY <1>5, <1>6

LEMMA LocalErrorTypeInv ==
    ASSUME TypeInv, NEW p \in Procs, LocalError(p)
    PROVE  TypeInv'
<1> USE DEF TypeInv
<1>1. UNCHANGED <<bundle, destKind, opt, man, vman, clean, seen, verified>>
  BY DEF LocalError
<1>2. budget' \in [runs : Nat, changes : Nat, crashes : Nat, errors : Nat,
                   stuck : Nat]
  <2>1. budget \in [runs : Nat, changes : Nat, crashes : Nat, errors : Nat,
                    stuck : Nat]
    BY DEF TypeOK
  <2>2. budget.errors > 0 /\ budget' = [budget EXCEPT !.errors = @ - 1]
    BY DEF LocalError
  <2> QED BY <2>1, <2>2
<1>3. undisturbed' \in [Procs -> BOOLEAN]
  BY DEF LocalError, TypeOK
<1>4. CASE InTry(p) /\ FailJoin(p, 4)
  BY <1>1, <1>2, <1>3, <1>4, FailJoinTypeInv DEF InTry, AtEntry
<1>5. CASE pc[p] # "copy" /\ Exit(p, 4) /\ UNCHANGED <<final, out, i, j, buf>>
  <2>1. /\ pc' = [pc EXCEPT ![p] = "done"]
        /\ exit' = [exit EXCEPT ![p] = 4]
    BY <1>5 DEF Exit
  <2>2. TypeOK'
    BY <1>1, <1>2, <1>3, <1>5, <2>1 DEF TypeOK
  <2>3. \A q \in Procs : (Loaded(q) /\ Cursor(q) /\ Handle(q))'
    BY <1>1, <1>5, <2>1
    DEF TypeOK, Loaded, Cursor, Handle, Joining, Verifying
  <2> QED BY <2>2, <2>3
<1> QED BY <1>4, <1>5 DEF LocalError

LEMMA RemovalFailsTypeInv ==
    ASSUME TypeInv, NEW p \in Procs, RemovalFails(p)
    PROVE  TypeInv'
<1> USE DEF TypeInv
<1>1. budget' \in [runs : Nat, changes : Nat, crashes : Nat, errors : Nat,
                   stuck : Nat]
  <2>1. budget \in [runs : Nat, changes : Nat, crashes : Nat, errors : Nat,
                    stuck : Nat]
    BY DEF TypeOK
  <2>2. budget.stuck > 0 /\ budget' = [budget EXCEPT !.stuck = @ - 1]
    BY DEF RemovalFails
  <2> QED BY <2>1, <2>2
<1>2. TypeOK'
  BY <1>1 DEF RemovalFails, TypeOK, dest, Exit
<1>3. \A q \in Procs : (Loaded(q) /\ Cursor(q) /\ Handle(q))'
  <2> TAKE q \in Procs
  <2>1. Loaded(q)' /\ Cursor(q)'
    BY DEF RemovalFails, TypeOK, Loaded, Cursor, Joining, Verifying, Exit
  <2>2. Handle(q)'
    BY DEF RemovalFails, TypeOK, Handle, dest, Exit
  <2> QED BY <2>1, <2>2
<1> QED BY <1>2, <1>3

LEMMA CrashTypeInv ==
    ASSUME TypeInv, NEW p \in Procs, Crash(p)
    PROVE  TypeInv'
<1> USE DEF TypeInv
<1>1. budget' \in [runs : Nat, changes : Nat, crashes : Nat, errors : Nat,
                   stuck : Nat]
  <2>1. budget \in [runs : Nat, changes : Nat, crashes : Nat, errors : Nat,
                    stuck : Nat]
    BY DEF TypeOK
  <2>2. budget.crashes > 0 /\ budget' = [budget EXCEPT !.crashes = @ - 1]
    BY DEF Crash
  <2> QED BY <2>1, <2>2
<1>2. TypeOK'
  BY <1>1 DEF Crash, TypeOK, dest
<1>3. \A q \in Procs : (Loaded(q) /\ Cursor(q) /\ Handle(q))'
  <2> TAKE q \in Procs
  <2>1. Loaded(q)' /\ Cursor(q)'
    BY DEF Crash, TypeOK, Loaded, Cursor, Joining, Verifying
  <2>2. Handle(q)'
    BY DEF Crash, TypeOK, Handle, Current, Entry, dest
  <2> QED BY <2>1, <2>2
<1> QED BY <1>2, <1>3

LEMMA ChangeMediaTypeInv ==
    ASSUME TypeInv, ChangeMedia
    PROVE  TypeInv'
<1> USE DEF TypeInv
<1> DEFINE Shape == [manifest : Manifests \cup {Missing, Malformed},
                     sidecar : ManifestType \cup {Missing, Malformed},
                     verifier : Tools \cup {Missing},
                     payload : [Names -> OnMedia]]
<1>1. budget' \in [runs : Nat, changes : Nat, crashes : Nat, errors : Nat,
                   stuck : Nat]
  <2>1. budget \in [runs : Nat, changes : Nat, crashes : Nat, errors : Nat,
                    stuck : Nat]
    BY DEF TypeOK
  <2>2. budget.changes > 0 /\ budget' = [budget EXCEPT !.changes = @ - 1]
    BY DEF ChangeMedia
  <2> QED BY <2>1, <2>2
<1>2. bundle' \in Shape
  <2>1. bundle \in Shape
    BY DEF TypeOK
  <2>2. CASE bundle' \in Media
    BY <2>2, MediaAssumption DEF Manifests
  <2>3. CASE \E n \in Names, d \in Damage :
               bundle' = [bundle EXCEPT !.payload[n] = d]
    BY <2>1, <2>3, MediaAssumption
  <2>4. CASE \/ bundle' = [bundle EXCEPT !.manifest = Malformed]
             \/ \E x \in {Missing, Malformed} :
                  bundle' = [bundle EXCEPT !.sidecar = x]
             \/ bundle' = [bundle EXCEPT !.verifier = Missing]
    BY <2>1, <2>4
  <2> QED BY <2>2, <2>3, <2>4 DEF ChangeMedia
<1>3. TypeOK'
  BY <1>1, <1>2 DEF ChangeMedia, TypeOK, dest, locals
<1>4. \A q \in Procs : (Loaded(q) /\ Cursor(q) /\ Handle(q))'
  BY DEF ChangeMedia, Loaded, Cursor, Handle, Current, Entry, dest, locals
<1> QED BY <1>3, <1>4

LEMMA StepTypeInv == TypeInv /\ [Next]_vars => TypeInv'
<1> SUFFICES ASSUME TypeInv, [Next]_vars PROVE TypeInv'
  OBVIOUS
<1>1. ASSUME NEW p \in Procs, Begin(p) \/ LocalError(p) \/ RemovalFails(p) \/ Crash(p)
      PROVE  TypeInv'
  BY <1>1, BeginTypeInv, LocalErrorTypeInv, RemovalFailsTypeInv, CrashTypeInv
<1>2. ASSUME NEW p \in Procs, Step(p)
      PROVE  TypeInv'
  BY <1>2, LoadTypeInv, DestReadyTypeInv, VLoadTypeInv, CheckSidecarTypeInv,
     VerifyVerifierTypeInv, CheckObjectTypeInv, ScanExtraTypeInv,
     JoinOpenTypeInv, JoinCopyTypeInv, JoinInstallTypeInv, ReceiptTypeInv
  DEF Step
<1>3. CASE ChangeMedia
  BY <1>3, ChangeMediaTypeInv
<1>4. CASE UNCHANGED vars
  BY <1>4 DEF vars, dest, locals, TypeInv, TypeOK, Loaded, Cursor, Handle,
     Current, Entry
<1> QED
  BY <1>1, <1>2, <1>3, <1>4 DEF Next

(* In every reachable state, for any number of processes: every variable    *)
(* has its type, so every exit code is one of SPEC.md section 10's.         *)
THEOREM TypeCorrect == Spec => []TypeOK
<1>1. Spec => []TypeInv
  BY InitTypeInv, StepTypeInv, PTL DEF Spec
<1> QED
  BY <1>1, PTL DEF TypeInv

-----------------------------------------------------------------------------
(* Temporary files, for any number of processes.                            *)

TmpInv ==
    /\ TypeInv
    /\ budget.crashes <= MaxCrashes
    /\ budget.stuck <= MaxStuck
    /\ NoTempLeft

LEMMA StepTmpInv == TmpInv /\ [Next]_vars => TmpInv'
<1> SUFFICES ASSUME TmpInv, [Next]_vars PROVE TmpInv'
  OBVIOUS
<1>0. TypeInv' /\ TypeInv /\ TypeOK
  BY StepTypeInv DEF TmpInv, TypeInv
<1> DEFINE Busy(f) == \E p \in Procs : pc[p] = "copy" /\ Current(p) = f
           Spare(f) == TempName(f) \notin Names
           Left == \A f \in Names :
                     Spare(f) /\ final[TempName(f)] # NoFile => Busy(f)
           Kept == budget'.crashes = budget.crashes /\ budget'.stuck = budget.stuck
           Others(p) == \A q \in Procs : q # p =>
                          pc'[q] = pc[q] /\ man'[q] = man[q] /\ i'[q] = i[q]
<1>1. ASSUME Kept, Left => Left' PROVE TmpInv'
  BY <1>0, <1>1 DEF TmpInv, NoTempLeft
\* A process was killed or os.remove failed: nothing is claimed any more.
<1>2. ASSUME NEW p \in Procs, Crash(p) \/ RemovalFails(p)
      PROVE  TmpInv'
  <2>1. CASE Crash(p)
    <3>1. budget.crashes \in Nat /\ budget.crashes > 0 /\ budget'.stuck = budget.stuck
          /\ budget'.crashes = budget.crashes - 1
      BY <1>0, <2>1 DEF Crash, TypeOK
    <3>2. budget'.crashes # MaxCrashes /\ budget'.crashes <= MaxCrashes
      BY <3>1, BoundsAssumption DEF TmpInv
    <3> QED
      BY <1>0, <3>1, <3>2 DEF TmpInv, NoTempLeft
  <2>2. CASE RemovalFails(p)
    <3>1. budget.stuck \in Nat /\ budget.stuck > 0 /\ budget'.crashes = budget.crashes
          /\ budget'.stuck = budget.stuck - 1
      BY <1>0, <2>2 DEF RemovalFails, TypeOK
    <3>2. budget'.stuck # MaxStuck /\ budget'.stuck <= MaxStuck
      BY <3>1, BoundsAssumption DEF TmpInv
    <3> QED
      BY <1>0, <3>1, <3>2 DEF TmpInv, NoTempLeft
  <2> QED BY <1>2, <2>1, <2>2
\* Steps that neither touch a spare temporary file nor start or end a join.
<1>3. ASSUME NEW p \in Procs, pc[p] # "copy", Kept, Others(p),
             \A n \in Places \ Names : final'[n] = final[n]
      PROVE  TmpInv'
  <2>1. \A f \in Names : Busy(f) => Busy(f)'
    BY <1>3 DEF Current, Entry
  <2>2. \A f \in Names : Spare(f) => final'[TempName(f)] = final[TempName(f)]
    BY <1>3, PlacesShape
  <2>3. Left => Left'
    BY <2>1, <2>2
  <2> QED
    BY <1>1, <1>3, <2>3
\* Steps that leave p's entry with its temporary file gone.
<1>4. ASSUME NEW p \in Procs, AtEntry(p), final'[Temp(p)] = NoFile, Kept, Others(p),
             \A n \in Places \ Names : n # Temp(p) => final'[n] = final[n]
      PROVE  TmpInv'
  <2>1. ASSUME NEW f \in Names, Spare(f), final'[TempName(f)] # NoFile
        PROVE  f # Current(p) /\ final[TempName(f)] # NoFile
    BY <1>4, <2>1, PlacesShape DEF Temp
  <2>2. ASSUME NEW f \in Names, f # Current(p), Busy(f) PROVE Busy(f)'
    BY <1>4, <2>2 DEF Current, Entry
  <2>3. Left => Left'
    BY <2>1, <2>2
  <2> QED
    BY <1>1, <1>4, <2>3
<1>5. ASSUME NEW p \in Procs, FailJoin(p, 1) \/ FailJoin(p, 4), AtEntry(p),
             Kept, man' = man
      PROVE  TmpInv'
  <2>1. /\ final' = [final EXCEPT ![Temp(p)] = NoFile]
        /\ pc' = [pc EXCEPT ![p] = "done"]
        /\ i' = i
    BY <1>5 DEF FailJoin, RemoveTemp, Exit
  <2>2. Temp(p) \in Places
    BY <1>0, <1>5, CurrentShape
  <2>3. /\ final'[Temp(p)] = NoFile
        /\ \A n \in Places \ Names : n # Temp(p) => final'[n] = final[n]
    BY <1>0, <2>1, <2>2 DEF TypeOK
  <2>4. Others(p)
    BY <1>0, <1>5, <2>1 DEF TypeOK
  <2> QED
    BY <1>4, <1>5, <2>3, <2>4
<1>6. ASSUME NEW p \in Procs, Begin(p)
      PROVE  TmpInv'
  <2>1. pc[p] # "copy" /\ final' = final /\ Kept
    BY <1>0, <1>6 DEF Begin, dest, TypeOK
  <2>2. Others(p)
    BY <1>0, <1>6 DEF Begin, TypeOK
  <2> QED BY <1>3, <2>1, <2>2
<1>7. ASSUME NEW p \in Procs, LocalError(p)
      PROVE  TmpInv'
  <2>1. Kept /\ man' = man
    BY <1>0, <1>7 DEF LocalError, TypeOK
  <2>2. CASE InTry(p) /\ FailJoin(p, 4)
    BY <1>5, <2>1, <2>2 DEF InTry, AtEntry
  <2>3. CASE pc[p] # "copy" /\ Exit(p, 4) /\ UNCHANGED <<final, out, i, j, buf>>
    <3>1. Others(p)
      BY <1>0, <2>1, <2>3 DEF Exit, TypeOK
    <3> QED BY <1>3, <2>1, <2>3, <3>1
  <2> QED BY <1>7, <2>2, <2>3 DEF LocalError
<1>8. ASSUME NEW p \in Procs,
             \/ Load(p) \/ DestReady(p) \/ VLoad(p) \/ CheckSidecar(p)
             \/ VerifyVerifier(p) \/ CheckObject(p) \/ ScanExtra(p)
             \/ OpenReceipt(p) \/ WriteReceipt(p)
      PROVE  TmpInv'
  <2>1. pc[p] # "copy" /\ budget' = budget
    BY <1>8, Zenon DEF Load, DestReady, VLoad, CheckSidecar, VerifyVerifier,
       CheckObject, ScanExtra, OpenReceipt, WriteReceipt
  <2>0. \A n \in Places \ Names : final'[n] = final[n]
    <3>1. final' = final \/ \E c : final' = [final EXCEPT ![ReceiptName] = c]
      BY <1>8, Zenon DEF Load, DestReady, VLoad, CheckSidecar, VerifyVerifier,
         CheckObject, ScanExtra, OpenReceipt, WriteReceipt, dest
    <3> QED BY <1>0, <3>1, DestAssumption DEF TypeOK
  <2>2. ASSUME Load(p) PROVE Others(p)
    BY <1>0, <2>2 DEF Load, Exit, Goto, TypeOK
  <2>3. ASSUME DestReady(p) PROVE Others(p)
    BY <1>0, <2>3 DEF DestReady, Exit, Goto, TypeOK
  <2>4. ASSUME VLoad(p) PROVE Others(p)
    BY <1>0, <2>4 DEF VLoad, Exit, Goto, TypeOK
  <2>5. ASSUME CheckSidecar(p) PROVE Others(p)
    BY <1>0, <2>5 DEF CheckSidecar, Exit, Goto, TypeOK
  <2>6. ASSUME VerifyVerifier(p) PROVE Others(p)
    BY <1>0, <2>6 DEF VerifyVerifier, Exit, Goto, TypeOK
  <2>7. ASSUME CheckObject(p) PROVE Others(p)
    <3>1. man' = man /\ \E c \in {1, 4} : pc' = pc \/ Exit(p, c)
      BY <2>7, Zenon DEF CheckObject
    <3>2. i' = i \/ \E c : i' = [i EXCEPT ![p] = c]
      BY <2>7, Zenon DEF CheckObject
    <3> QED
      BY <1>0, <3>1, <3>2 DEF Exit, TypeOK
  <2>8. ASSUME ScanExtra(p) PROVE Others(p)
    <3>1. man' = man
      BY <2>8 DEF ScanExtra
    <3>2. \/ \E c \in {0, 1} : Exit(p, c) /\ i' = i
          \/ Goto(p, "join") /\ i' = [i EXCEPT ![p] = 1]
      <4>1. opt[p].cmd \in {"verify", "unpack"}
        BY <1>0, OptionsAssumption DEF TypeOK
      <4> QED BY <2>8, <4>1 DEF ScanExtra
    <3> QED
      BY <1>0, <3>1, <3>2 DEF Exit, Goto, TypeOK
  <2>9. ASSUME OpenReceipt(p) \/ WriteReceipt(p) PROVE Others(p)
    BY <1>0, <2>9 DEF OpenReceipt, WriteReceipt, Exit, Goto, TypeOK
  <2>10. Others(p)
    BY <1>8, <2>2, <2>3, <2>4, <2>5, <2>6, <2>7, <2>8, <2>9
  <2> QED
    BY <1>3, <2>0, <2>1, <2>10
<1>9. ASSUME NEW p \in Procs, JoinOpen(p)
      PROVE  TmpInv'
  <2>1. pc[p] = "join" /\ budget' = budget /\ man' = man /\ i' = i
        /\ Temp(p) \in Places /\ Current(p) \in Names
    BY <1>0, <1>9, CurrentShape DEF JoinOpen, AtEntry
  <2>2. CASE final' = final /\ pc' = [pc EXCEPT ![p] = "done"]
    <3>1. Others(p)
      BY <1>0, <2>1, <2>2 DEF TypeOK
    <3> QED BY <1>3, <2>1, <2>2, <3>1
  <2>3. CASE /\ \E c : final' = [final EXCEPT ![Temp(p)] = c]
             /\ pc' = [pc EXCEPT ![p] = "copy"]
    <3>1. \A f \in Names : Busy(f) => Busy(f)'
      BY <1>0, <2>1, <2>3 DEF TypeOK, Current, Entry
    <3>2. ASSUME NEW f \in Names, f = Current(p) PROVE Busy(f)'
      BY <1>0, <2>1, <2>3, <3>2 DEF TypeOK, Current, Entry
    <3>3. ASSUME NEW f \in Names, f # Current(p)
          PROVE  final'[TempName(f)] = final[TempName(f)]
      <4>1. TempName(f) # Temp(p) /\ TempName(f) \in Places
        BY <2>1, <3>3, TemporaryAssumption, PlacesShape DEF Temp
      <4> QED BY <1>0, <2>3, <4>1 DEF TypeOK
    <3>4. Left => Left'
      BY <3>1, <3>2, <3>3
    <3> QED BY <1>1, <2>1, <3>4
  <2> QED
    BY <1>9, <2>2, <2>3 DEF JoinOpen, Opened, Goto, Exit
<1>10. ASSUME NEW p \in Procs, JoinCopy(p)
       PROVE  TmpInv'
  <2>1. pc[p] = "copy" /\ AtEntry(p) /\ budget' = budget /\ man' = man
    BY <1>10 DEF JoinCopy, AtEntry
  <2>2. CASE FailJoin(p, 1) \/ FailJoin(p, 4)
    BY <1>5, <2>1, <2>2
  <2>3. CASE /\ pc' = pc /\ i' = i
             /\ \A n \in Places : n \notin out[p] => final'[n] = final[n]
    <3>1. \A f \in Names : Busy(f) <=> Busy(f)'
      BY <2>1, <2>3 DEF Current, Entry
    \* What it writes to is a file that is there already.
    <3>2. \A n \in Places : final'[n] # NoFile => final[n] # NoFile
      BY <1>0, <2>3 DEF TypeInv, Handle
    <3>3. Left => Left'
      BY <3>1, <3>2, PlacesShape
    <3> QED BY <1>1, <2>1, <3>3
  <2> QED
    BY <1>10, <2>2, <2>3 DEF JoinCopy, SourceCode
<1>11. ASSUME NEW p \in Procs, JoinInstall(p)
       PROVE  TmpInv'
  <2>1. pc[p] = "copy" /\ AtEntry(p) /\ budget' = budget /\ man' = man
    BY <1>11 DEF JoinInstall, AtEntry
  <2>2. CASE FailJoin(p, 1) \/ FailJoin(p, 4)
    BY <1>5, <2>1, <2>2
  <2>3. CASE /\ final' = [final EXCEPT ![Current(p)] = final[Temp(p)],
                                      ![Temp(p)] = NoFile]
             /\ pc' = [pc EXCEPT ![p] = "join"]
             /\ i' = [i EXCEPT ![p] = @ + 1]
    <3>1. Current(p) \in Names /\ Temp(p) \in Places
      BY <1>0, <2>1, CurrentShape
    <3>2. /\ final'[Temp(p)] = NoFile
          /\ \A n \in Places \ Names : n # Temp(p) => final'[n] = final[n]
      BY <1>0, <2>3, <3>1, PlacesShape DEF TypeOK
    <3>3. Others(p)
      BY <1>0, <2>1, <2>3 DEF TypeOK
    <3> QED BY <1>4, <2>1, <3>2, <3>3
  <2> QED
    BY <1>11, <2>2, <2>3 DEF JoinInstall, NextEntry, Goto
<1>12. CASE ChangeMedia
  <2>1. UNCHANGED <<final, pc, man, i>> /\ Kept
    BY <1>0, <1>12 DEF ChangeMedia, dest, locals, TypeOK
  <2> QED
    BY <1>1, <2>1 DEF Current, Entry
<1>13. CASE UNCHANGED vars
  <2>1. UNCHANGED <<final, pc, man, i, budget>>
    BY <1>13 DEF vars, dest, locals
  <2> QED
    BY <1>1, <2>1 DEF Current, Entry
<1> QED
  BY <1>2, <1>6, <1>7, <1>8, <1>9, <1>10, <1>11, <1>12, <1>13 DEF Next, Step

(* However many processes unpack into one directory, and whatever else      *)
(* fails: as long as no process was killed and os.remove did not fail, a    *)
(* file under a name that can only be a temporary file's exists only while  *)
(* some process is joining the file it belongs to.                          *)
THEOREM NoTempLeftBehind == Spec => []NoTempLeft
<1>1. Init => TmpInv
  <2> SUFFICES ASSUME Init PROVE TmpInv
    OBVIOUS
  <2>1. /\ budget.crashes = MaxCrashes /\ budget.stuck = MaxStuck
        /\ \A f \in Names : TempName(f) \notin Names => final[TempName(f)] = NoFile
    BY PlacesShape DEF Init
  <2> QED
    BY <2>1, InitTypeInv, BoundsAssumption DEF TmpInv, NoTempLeft
<1>2. TmpInv => NoTempLeft
  BY DEF TmpInv
<1> QED
  BY <1>1, <1>2, StepTmpInv, PTL DEF Spec

-----------------------------------------------------------------------------
(* Final files, for one process at a time.                                  *)

OneProcess == \A p, q \in Procs : p = q

\* Of the first n - 1 entries of p's manifest, those that no later one of
\* them overwrites or uses for its temporary file are in place, but for the
\* names in lost.
InPlaceUpTo(p, n, lost) ==
    \A x \in DOMAIN man[p].files :
      /\ x < n
      /\ man[p].files[x].path \notin {ReceiptName} \cup lost
      /\ \A y \in DOMAIN man[p].files :
           x < y /\ y < n =>
             man[p].files[x].path \notin
               {man[p].files[y].path, TempName(man[p].files[y].path)}
      => final[man[p].files[x].path] = man[p].files[x].sha

(***************************************************************************)
(* The inductive strengthening: while a file is joined, the temporary file *)
(* holds what was hashed; the entries before the cursor are in place, but  *)
(* for one whose name is the temporary name in use; and the flag for the   *)
(* receipt says whether the bundle was verified.                           *)
(***************************************************************************)
Faithful(p) ==
    /\ pc[p] = "copy" => out[p] = {Temp(p)} /\ final[Temp(p)] = buf[p]
    /\ pc[p] \in {"load", "dest"} \cup Verifying => verified[p] = FALSE
    /\ pc[p] \in Verifying /\ opt[p].cmd = "unpack" => opt[p].noVerify = FALSE
    /\ pc[p] \in Joining => verified[p] = ~ opt[p].noVerify
    /\ pc[p] \in {"join", "receipt"} => InPlaceUpTo(p, i[p], {})
    /\ pc[p] = "copy" => InPlaceUpTo(p, i[p], {Temp(p)})
    /\ pc[p] = "receipt" => i[p] > Len(man[p].files)

SafeInv ==
    /\ TypeInv
    /\ FinalFilesWhole
    /\ CompleteOnSuccess
    /\ \A p \in Procs : Faithful(p)

(* Writing at the end of a file appends. *)
LEMMA WriteAtEnd ==
    ASSUME NEW c \in Contents, NEW s \in Contents
    PROVE  WriteAt(c, Len(c), s) = c \o s
<1>1. Len(c) \in Nat /\ Len(s) \in Nat /\ Len(c \o s) = Len(c) + Len(s)
      /\ c \o s \in Seq(Blocks)
  BY DEF Contents
<1> DEFINE n == IF Len(c) > Len(c) + Len(s) THEN Len(c) ELSE Len(c) + Len(s)
<1>2. n = Len(c) + Len(s)
  BY <1>1
<1>3. \A k \in 1 .. n :
        (IF k \in Len(c) + 1 .. Len(c) + Len(s) THEN s[k - Len(c)]
         ELSE IF k <= Len(c) THEN c[k] ELSE Hole) = (c \o s)[k]
  BY <1>1, <1>2 DEF Contents
<1>4. c \o s = [k \in 1 .. n |-> (c \o s)[k]]
  <2> DEFINE cs == c \o s
  <2>0. cs \in Seq(Blocks)
    BY <1>1
  <2> HIDE DEF cs
  <2>1. cs \in [1 .. Len(cs) -> Blocks]
    BY <2>0
  <2>2. cs = [k \in 1 .. Len(cs) |-> cs[k]]
    BY <2>1
  <2> QED
    BY <1>1, <1>2, <2>2 DEF cs
<1> QED
  BY <1>3, <1>4 DEF WriteAt

(* A step of the only process that touches no file but a temporary one and  *)
(* is not part of a join keeps what holds of the final files.               *)
LEMMA QuietStep ==
    ASSUME SafeInv, TypeInv', NEW p \in Procs, OneProcess,
           \A n \in Names \ Temps : final'[n] = final[n],
           pc'[p] \notin Joining,
           pc'[p] = "done" /\ opt'[p].cmd = "unpack" => exit'[p] # 0,
           pc'[p] \in {"load", "dest"} \cup Verifying => verified'[p] = FALSE,
           pc'[p] \in Verifying /\ opt'[p].cmd = "unpack" => opt'[p].noVerify = FALSE
    PROVE  SafeInv'
<1>1. \A q \in Procs : q = p
  BY DEF OneProcess
<1>2. FinalFilesWhole'
  BY DEF SafeInv, FinalFilesWhole
<1>3. CompleteOnSuccess'
  BY <1>1 DEF CompleteOnSuccess
<1>4. Faithful(p)'
  BY DEF Faithful, Joining
<1> QED
  BY <1>1, <1>2, <1>3, <1>4 DEF SafeInv

LEMMA InitSafeInv == Init => SafeInv
<1> SUFFICES ASSUME Init PROVE SafeInv
  OBVIOUS
<1>1. FinalFilesWhole
  BY DEF Init, FinalFilesWhole, Places
<1>2. \A p \in Procs : pc[p] = "idle"
  BY DEF Init
<1> QED
  BY <1>1, <1>2, InitTypeInv
  DEF SafeInv, CompleteOnSuccess, Faithful, Joining, Verifying

(* The steps before any file is joined. *)
LEMMA BeforeJoinSafeInv ==
    ASSUME SafeInv, TypeInv', OneProcess, NEW p \in Procs,
           \/ Begin(p) \/ Load(p) \/ VLoad(p) \/ CheckSidecar(p)
           \/ VerifyVerifier(p) \/ CheckObject(p)
    PROVE  SafeInv'
<1>0. TypeOK /\ Faithful(p) /\ Loaded(p)
  BY DEF SafeInv, TypeInv
<1> USE DEF Joining, Verifying
<1>1. CASE Begin(p)
  <2>1. /\ final' = final
        /\ verified'[p] = FALSE
        /\ pc'[p] = "load" \/ (pc'[p] = "vload" /\ opt'[p].cmd = "verify")
    BY <1>0, <1>1 DEF Begin, TypeOK, dest
  <2> QED BY <2>1, QuietStep
<1>2. ASSUME final' = final, opt' = opt, verified' = verified,
             pc[p] \in {"load", "dest"} \cup Verifying,
             \/ pc'[p] \in Verifying \cup {"dest"} /\ (pc[p] \notin Verifying => pc'[p] = "dest")
             \/ pc'[p] = "done" /\ (opt[p].cmd = "unpack" => exit'[p] # 0)
      PROVE  SafeInv'
  BY <1>0, <1>2, QuietStep DEF Faithful
<1>3. CASE Load(p)
  BY <1>0, <1>2, <1>3 DEF Load, Exit, Goto, TypeOK, dest
<1>4. CASE VLoad(p)
  BY <1>0, <1>2, <1>4 DEF VLoad, Exit, Goto, TypeOK, dest
<1>5. CASE CheckSidecar(p)
  BY <1>0, <1>2, <1>5 DEF CheckSidecar, Exit, Goto, TypeOK, dest
<1>6. CASE VerifyVerifier(p)
  BY <1>0, <1>2, <1>6 DEF VerifyVerifier, Exit, Goto, TypeOK, dest
<1>7. CASE CheckObject(p)
  <2>1. pc[p] = "objects" /\ final' = final /\ opt' = opt /\ verified' = verified
    BY <1>7, Zenon DEF CheckObject, dest
  <2>2. pc' = pc \/ \E c \in {1, 4} : Exit(p, c)
    BY <1>7, Zenon DEF CheckObject
  <2> QED
    BY <1>0, <1>2, <2>1, <2>2 DEF Exit, TypeOK
<1> QED
  BY <1>1, <1>3, <1>4, <1>5, <1>6, <1>7

(* The steps that start the joins: nothing is in place yet. *)
LEMMA DestReadyEffect ==
    ASSUME TypeOK, NEW p \in Procs, DestReady(p)
    PROVE  \/ pc'[p] = "done" /\ exit'[p] = 4
           \/ pc'[p] = "vload" /\ opt[p].noVerify = FALSE
           \/ pc'[p] = "join" /\ opt[p].noVerify = TRUE
<1>0. opt[p].noVerify \in BOOLEAN
  BY OptionsAssumption DEF TypeOK
<1>1. CASE DestRefused(p)
  BY <1>1 DEF DestReady, Exit, TypeOK
<1>2. CASE ~ DestRefused(p) /\ opt[p].noVerify = TRUE
  <2>1. Goto(p, "join")
    BY <1>2 DEF DestReady
  <2> QED BY <1>2, <2>1 DEF Goto, TypeOK
<1>3. CASE ~ DestRefused(p) /\ opt[p].noVerify = FALSE
  <2>1. Goto(p, "vload")
    BY <1>3 DEF DestReady
  <2> QED BY <1>3, <2>1 DEF Goto, TypeOK
<1> QED BY <1>0, <1>1, <1>2, <1>3

LEMMA ScanExtraEffect ==
    ASSUME TypeOK, NEW p \in Procs, ScanExtra(p)
    PROVE  \/ pc'[p] = "done" /\ exit'[p] = 1
           \/ pc'[p] = "done" /\ opt[p].cmd = "verify"
           \/ /\ pc'[p] = "join" /\ opt[p].cmd = "unpack"
              /\ verified' = [verified EXCEPT ![p] = TRUE] /\ i'[p] = 1
<1>1. \/ Exit(p, 1)
      \/ Exit(p, 0) /\ opt[p].cmd = "verify"
      \/ /\ Goto(p, "join") /\ opt[p].cmd = "unpack"
         /\ verified' = [verified EXCEPT ![p] = TRUE]
         /\ i' = [i EXCEPT ![p] = 1]
  <2>1. opt[p].cmd \in {"verify", "unpack"}
    BY OptionsAssumption DEF TypeOK
  <2> QED BY <2>1 DEF ScanExtra
<1> QED
  BY <1>1 DEF Exit, Goto, TypeOK

LEMMA StartJoinSafeInv ==
    ASSUME SafeInv, TypeInv', OneProcess, NEW p \in Procs,
           DestReady(p) \/ ScanExtra(p)
    PROVE  SafeInv'
<1>0. TypeOK /\ Faithful(p) /\ Loaded(p) /\ Cursor(p)
  BY DEF SafeInv, TypeInv
<1>1. \A q \in Procs : q = p
  BY DEF OneProcess
<1> USE DEF Joining, Verifying
<1>2. final' = final /\ opt' = opt /\ man' = man
  BY DEF DestReady, ScanExtra, dest
<1>3. CASE pc'[p] # "join"
  <2>1. CASE DestReady(p)
    <3>1. verified'[p] = FALSE
      BY <1>0, <2>1 DEF DestReady, Faithful
    <3>2. \/ pc'[p] = "done" /\ exit'[p] = 4
          \/ pc'[p] = "vload" /\ opt'[p].noVerify = FALSE
      BY <1>0, <1>2, <1>3, <2>1, DestReadyEffect
    <3>3. pc'[p] \notin Joining /\ (pc'[p] = "done" => exit'[p] # 0)
      BY <3>2
    <3>4. pc'[p] \in Verifying => opt'[p].noVerify = FALSE
      BY <3>2
    <3> HIDE DEF Joining, Verifying
    <3> QED
      BY <1>2, <3>1, <3>3, <3>4, QuietStep
  <2>2. CASE ScanExtra(p)
    <3>1. pc'[p] = "done" /\ (exit'[p] = 1 \/ opt'[p].cmd = "verify")
      BY <1>0, <1>2, <1>3, <2>2, ScanExtraEffect
    <3>2. pc'[p] = "done" /\ (opt'[p].cmd = "unpack" => exit'[p] # 0)
      BY <3>1
    <3> QED
      BY <1>2, <3>2, QuietStep
  <2> QED BY <2>1, <2>2
<1>4. CASE pc'[p] = "join"
  <2>1. i'[p] = 1
    <3>1. CASE DestReady(p)
      BY <1>0, <3>1 DEF DestReady, Cursor
    <3>2. CASE ScanExtra(p)
      BY <1>0, <1>4, <3>2, ScanExtraEffect
    <3> QED BY <3>1, <3>2
  <2>2. verified'[p] = ~ opt[p].noVerify
    <3>1. CASE DestReady(p)
      <4>1. opt[p].noVerify = TRUE
        BY <1>0, <1>4, <3>1, DestReadyEffect
      <4>2. verified'[p] = FALSE
        BY <1>0, <3>1 DEF DestReady, Faithful
      <4> QED BY <4>1, <4>2
    <3>2. CASE ScanExtra(p)
      <4>1. opt[p].cmd = "unpack" /\ verified' = [verified EXCEPT ![p] = TRUE]
        BY <1>0, <1>4, <3>2, ScanExtraEffect
      <4>2. opt[p].noVerify = FALSE
        BY <1>0, <3>2, <4>1 DEF ScanExtra, Faithful
      <4>3. verified'[p] = TRUE
        BY <1>0, <4>1 DEF TypeOK
      <4> QED BY <4>2, <4>3
    <3> QED BY <3>1, <3>2
  <2>3. InPlaceUpTo(p, i[p], {})'
    <3>1. man[p] \in ManifestType
      <4>1. Loaded(p)'
        BY DEF TypeInv
      <4> QED
        BY <1>2, <1>4, <4>1, ManifestsShape DEF Loaded
    <3>2. DOMAIN man[p].files \subseteq Nat \ {0}
      BY <3>1, ManifestAssumption
    <3> QED BY <1>2, <2>1, <3>2 DEF InPlaceUpTo
  <2>4. Faithful(p)'
    BY <1>2, <1>4, <2>2, <2>3 DEF Faithful
  <2>5. FinalFilesWhole' /\ CompleteOnSuccess'
    BY <1>1, <1>2, <1>4 DEF SafeInv, FinalFilesWhole, CompleteOnSuccess
  <2> QED BY <1>1, <2>4, <2>5 DEF SafeInv
<1> QED BY <1>3, <1>4

(* Steps in which no file of the destination but the temporary one changes  *)
(* and the process goes on joining the same entry, or fails.                *)
LEMMA JoinOpenSafeInv ==
    ASSUME SafeInv, TypeInv', OneProcess, NEW p \in Procs, JoinOpen(p)
    PROVE  SafeInv'
<1>0. /\ TypeInv /\ TypeOK /\ Faithful(p)
      /\ man[p] \in Manifests /\ Temp(p) \in Temps /\ Temp(p) \in Places
  BY CurrentShape DEF SafeInv, TypeInv, JoinOpen, AtEntry
<1>1. \A q \in Procs : q = p
  BY DEF OneProcess
<1>2. /\ pc[p] = "join"
      /\ UNCHANGED <<opt, man, verified, i>>
  BY DEF JoinOpen
<1>3. CASE ~ SafeEntry(Entry(p))
  <2>1. pc'[p] = "done" /\ exit'[p] = 1 /\ final' = final
    BY <1>0, <1>3 DEF JoinOpen, Exit, TypeOK
  <2>2. pc'[p] \notin Joining /\ exit'[p] # 0
        /\ pc'[p] \notin {"load", "dest"} \cup Verifying
    BY <2>1 DEF Joining, Verifying
  <2> QED
    BY <2>1, <2>2, QuietStep
<1>4. CASE SafeEntry(Entry(p))
  <2> DEFINE nil == <<>>
  <2>0. /\ pc' = [pc EXCEPT ![p] = "copy"]
        /\ final' = [final EXCEPT ![Temp(p)] = nil]
        /\ out' = [out EXCEPT ![p] = {Temp(p)}]
        /\ buf' = [buf EXCEPT ![p] = nil]
    BY <1>4 DEF JoinOpen, Opened, Goto
  <2> HIDE DEF nil
  <2>1. /\ pc'[p] = "copy" /\ out'[p] = {Temp(p)} /\ buf'[p] = nil
        /\ final'[Temp(p)] = nil
        /\ \A n \in Places : n # Temp(p) => final'[n] = final[n]
    BY <1>0, <2>0 DEF TypeOK
  <2>2. Temp(p)' = Temp(p)
    BY <1>2 DEF Temp, Current, Entry
  <2>3. InPlaceUpTo(p, i[p], {Temp(p)})'
    <3>1. \A x \in DOMAIN man[p].files : man[p].files[x].path \in Places
      BY <1>0, ManifestsShape, ManifestAssumption, SourcesShape, PlacesShape
    <3>2. InPlaceUpTo(p, i[p], {})
      BY <1>0, <1>2 DEF Faithful
    <3> QED
      BY <1>2, <2>1, <2>2, <3>1, <3>2 DEF InPlaceUpTo
  <2>4. verified'[p] = ~ opt'[p].noVerify
    BY <1>0, <1>2 DEF Faithful, Joining
  <2>5. Faithful(p)'
    BY <2>1, <2>2, <2>3, <2>4 DEF Faithful, Verifying
  <2>6. FinalFilesWhole'
    BY <1>0, <2>1, PlacesShape DEF SafeInv, FinalFilesWhole
  <2>7. CompleteOnSuccess'
    BY <1>1, <2>1 DEF CompleteOnSuccess
  <2> QED BY <1>1, <2>5, <2>6, <2>7 DEF SafeInv
<1> QED BY <1>3, <1>4

LEMMA FailJoinSafeInv ==
    ASSUME SafeInv, TypeInv', OneProcess, NEW p \in Procs, NEW c \in {1, 4},
           AtEntry(p), FailJoin(p, c)
    PROVE  SafeInv'
<1>1. TypeOK /\ Temp(p) \in Temps
  BY CurrentShape DEF SafeInv, TypeInv
<1>2. pc'[p] = "done" /\ exit'[p] # 0
  BY <1>1 DEF FailJoin, Exit, TypeOK
<1>3. \A n \in Names \ Temps : final'[n] = final[n]
  BY <1>1, PlacesShape DEF FailJoin, RemoveTemp, TypeOK
<1> QED
  BY <1>2, <1>3, QuietStep DEF Joining, Verifying

LEMMA JoinCopySafeInv ==
    ASSUME SafeInv, TypeInv', OneProcess, NEW p \in Procs, JoinCopy(p)
    PROVE  SafeInv'
<1> DEFINE t == Temp(p)
           s == bundle.payload[Sources(Entry(p))[j[p]].path]
<1>0. TypeInv /\ TypeOK /\ Faithful(p)
  BY DEF SafeInv, TypeInv
<1>1. \A q \in Procs : q = p
  BY DEF OneProcess
<1>2. /\ pc[p] = "copy" /\ AtEntry(p) /\ out[p] = {t} /\ final[t] = buf[p]
      /\ t \in Temps /\ t \in Places /\ man[p] \in Manifests
  BY <1>0, CurrentShape DEF JoinCopy, Faithful, AtEntry
<1>3. CASE s \in {Link, Missing, Unreadable}
  BY <1>2, <1>3, FailJoinSafeInv DEF JoinCopy, SourceCode
<1>4. CASE s \notin {Link, Missing, Unreadable}
  <2>1. /\ UNCHANGED <<pc, exit, i, out, opt, man, verified>>
        /\ buf' = [buf EXCEPT ![p] = @ \o s]
        /\ final' = [n \in Places |-> IF n \in out[p]
                       THEN WriteAt(final[n], Len(buf[p]), s) ELSE final[n]]
    BY <1>4 DEF JoinCopy
  <2>2. s \in Contents
    <3>1. Sources(Entry(p)) \in Seq(Part)
      BY <1>0, <1>2, CurrentShape
    <3>2. Sources(Entry(p))[j[p]] \in Part
      BY <1>0, <3>1, SMTT(60) DEF JoinCopy, TypeOK
    <3> QED
      BY <1>0, <1>4, <3>2 DEF Part, TypeOK, OnMedia
  <2>3. buf[p] \in Contents
    BY <1>0 DEF TypeOK
  <2>4. WriteAt(buf[p], Len(buf[p]), s) = buf[p] \o s
    BY <2>2, <2>3, WriteAtEnd
  <2> HIDE DEF s, t
  <2>5. final'[t] = buf'[p] /\ \A n \in Places : n # t => final'[n] = final[n]
    BY <1>0, <1>2, <2>1, <2>4 DEF TypeOK
  <2>6. Temp(p)' = t
    BY <2>1 DEF Temp, Current, Entry, t
  <2>7. Faithful(p)'
    <3>0. \A x \in DOMAIN man[p].files : man[p].files[x].path \in Places
      BY <1>2, ManifestsShape, ManifestAssumption, SourcesShape, PlacesShape
    <3>1. InPlaceUpTo(p, i[p], {t})'
      <4>1. InPlaceUpTo(p, i[p], {t})
        BY <1>0, <1>2 DEF Faithful, t
      <4> QED BY <2>1, <2>5, <2>6, <3>0, <4>1 DEF InPlaceUpTo, t
    <3>2. verified'[p] = ~ opt'[p].noVerify
      BY <1>0, <1>2, <2>1 DEF Faithful, Joining
    <3>3. pc'[p] = "copy" /\ out'[p] = {t}
      BY <1>2, <2>1
    <3> QED
      BY <2>5, <2>6, <3>1, <3>2, <3>3 DEF Faithful, Verifying, t
  <2>8. FinalFilesWhole'
    BY <1>2, <2>5, PlacesShape DEF SafeInv, FinalFilesWhole
  <2>9. CompleteOnSuccess'
    BY <1>1, <1>2, <2>1 DEF CompleteOnSuccess
  <2> QED BY <1>1, <2>7, <2>8, <2>9 DEF SafeInv
<1> QED BY <1>3, <1>4

LEMMA JoinInstallSafeInv ==
    ASSUME SafeInv, TypeInv', OneProcess, NEW p \in Procs, JoinInstall(p)
    PROVE  SafeInv'
<1> DEFINE f == Current(p)
           t == Temp(p)
<1>0. TypeInv /\ TypeOK /\ Faithful(p)
  BY DEF SafeInv, TypeInv
<1>1. \A q \in Procs : q = p
  BY DEF OneProcess
<1>2. /\ pc[p] = "copy" /\ AtEntry(p) /\ final[t] = buf[p]
      /\ f \in Names /\ man[p] \in Manifests
      /\ t \in Temps /\ t \in Places
  BY <1>0, CurrentShape DEF JoinInstall, Faithful, AtEntry
<1>3. CASE ~ HashOK(p) \/ final[t] = NoFile
  BY <1>2, <1>3, FailJoinSafeInv DEF JoinInstall
<1>4. CASE HashOK(p) /\ final[t] # NoFile
  <2>1. /\ final' = [final EXCEPT ![f] = final[t], ![t] = NoFile]
        /\ i' = [i EXCEPT ![p] = @ + 1]
        /\ pc' = [pc EXCEPT ![p] = "join"]
        /\ UNCHANGED <<exit, opt, man, verified>>
    BY <1>4 DEF JoinInstall, NextEntry, Goto
  <2>2. final[t] = Entry(p).sha /\ f # t
    BY <1>2, <1>4, TemporaryAssumption DEF HashOK, Temp
  <2>3. i[p] \in DOMAIN man[p].files /\ i[p] \in Nat
        /\ DOMAIN man[p].files = 1 .. Len(man[p].files)
    BY <1>0, <1>2, ManifestsShape, ManifestAssumption DEF TypeInv, TypeOK, Cursor
  <2>4. /\ final'[f] = Entry(p).sha
        /\ \A n \in Names : n \notin {f, t} => final'[n] = final[n]
    BY <1>0, <1>2, <2>1, <2>2, PlacesShape DEF TypeOK
  <2>5. FinalFilesWhole'
    <3>1. Entry(p).sha \in Declared(f)
      BY <1>2, <2>3, SMTT(60) DEF Declared, Entry, Current
    <3> HIDE DEF f, t
    <3> QED
      BY <1>2, <2>4, <3>1 DEF SafeInv, FinalFilesWhole
  <2>6. Faithful(p)'
    <3>1. InPlaceUpTo(p, i[p], {})'
      <4> SUFFICES ASSUME NEW x \in DOMAIN man[p].files,
                          x < i[p] + 1,
                          man[p].files[x].path # ReceiptName,
                          \A y \in DOMAIN man[p].files :
                            x < y /\ y < i[p] + 1 =>
                              man[p].files[x].path \notin
                                {man[p].files[y].path, TempName(man[p].files[y].path)}
                   PROVE  final'[man[p].files[x].path] = man[p].files[x].sha
        BY <1>0, <2>1 DEF InPlaceUpTo, TypeOK
      <4>1. CASE x = i[p]
        BY <2>4, <4>1 DEF Entry, Current
      <4>2. CASE x # i[p]
        <5>1. x < i[p]
          BY <2>3, <4>2
        <5>2. man[p].files[x].path \notin {f, t}
          BY <2>3, <5>1 DEF Current, Entry, Temp
        <5>3. final[man[p].files[x].path] = man[p].files[x].sha
          <6>1. \A y \in DOMAIN man[p].files : y < i[p] => y < i[p] + 1
            BY <2>3
          <6> QED
            BY <1>0, <1>2, <5>1, <5>2, <6>1 DEF Faithful, InPlaceUpTo
        <5>4. man[p].files[x].path \in Names
          BY <1>2, <2>3, ManifestsShape, SourcesShape
        <5> QED
          BY <2>4, <5>2, <5>3, <5>4
      <4> QED BY <4>1, <4>2
    <3>2. verified'[p] = ~ opt'[p].noVerify
      BY <1>0, <1>2, <2>1 DEF Faithful, Joining
    <3>3. pc'[p] = "join"
      BY <1>0, <2>1 DEF TypeOK
    <3> QED
      BY <3>1, <3>2, <3>3 DEF Faithful, Verifying
  <2>7. CompleteOnSuccess'
    BY <1>0, <1>1, <2>1 DEF CompleteOnSuccess, TypeOK
  <2> QED BY <1>1, <2>5, <2>6, <2>7 DEF SafeInv
<1> QED BY <1>3, <1>4

(* The receipt: the only final file that is not installed by a rename. *)
LEMMA ReceiptSafeInv ==
    ASSUME SafeInv, TypeInv', OneProcess, NEW p \in Procs,
           OpenReceipt(p) \/ WriteReceipt(p)
    PROVE  SafeInv'
<1>0. TypeInv /\ TypeOK /\ Faithful(p)
  BY DEF SafeInv, TypeInv
<1>1. \A q \in Procs : q = p
  BY DEF OneProcess
<1>2. /\ pc[p] \in {"join", "receipt"} /\ i[p] > Len(man[p].files)
      /\ UNCHANGED <<opt, man, verified, i>>
  BY <1>0 DEF OpenReceipt, WriteReceipt, Faithful
<1>3. man[p] \in Manifests /\ man[p] \in ManifestType /\ opt[p].cmd = "unpack"
  BY <1>0, <1>2, ManifestsShape DEF TypeInv, Loaded, Joining
<1>4. verified[p] = ~ opt[p].noVerify /\ InPlaceUpTo(p, i[p], {})
  BY <1>0, <1>2 DEF Faithful, Joining
<1>5. \A n \in Names : n # ReceiptName => final'[n] = final[n]
  BY <1>0, PlacesShape DEF OpenReceipt, WriteReceipt, TypeOK
<1>6. InPlaceUpTo(p, i[p], {})'
  <2>1. \A x \in DOMAIN man[p].files : man[p].files[x].path \in Names
    BY <1>3, SourcesShape, ManifestAssumption
  <2> QED
    BY <1>2, <1>4, <1>5, <2>1 DEF InPlaceUpTo
<1>7. CASE OpenReceipt(p)
  <2> DEFINE nil == <<>>
  <2>1. final' = [final EXCEPT ![ReceiptName] = nil]
    BY <1>7 DEF OpenReceipt
  <2>2. pc'[p] = "receipt"
    BY <1>0, <1>7 DEF OpenReceipt, Goto, TypeOK
  <2>3. FinalFilesWhole'
    <3>1. final'[ReceiptName] \in {nil} \cup Receipts
      BY <1>0, <2>1, DestAssumption, PlacesShape DEF TypeOK
    <3> QED
      BY <1>5, <3>1 DEF SafeInv, FinalFilesWhole
  <2>4. Faithful(p)'
    BY <1>2, <1>4, <1>6, <2>2 DEF Faithful, Verifying
  <2>5. CompleteOnSuccess'
    BY <1>1, <2>2 DEF CompleteOnSuccess
  <2> QED BY <1>1, <2>3, <2>4, <2>5 DEF SafeInv
<1>8. CASE WriteReceipt(p)
  <2>1. final'[ReceiptName] = Receipt(man[p], verified[p]) /\ pc'[p] = "done"
    BY <1>0, <1>8, DestAssumption, PlacesShape DEF WriteReceipt, Exit, TypeOK
  <2>2. FinalFilesWhole'
    <3>1. Receipt(man[p], verified[p]) \in Receipts
      BY <1>0, <1>3 DEF Receipts, TypeOK
    <3> QED
      BY <1>5, <2>1, <3>1 DEF SafeInv, FinalFilesWhole
  <2>3. Faithful(p)'
    BY <2>1 DEF Faithful, Joining, Verifying
  <2>4. CompleteOnSuccess'
    <3>1. ASSUME NEW e \in LastEntries(man[p]), e.path # ReceiptName
          PROVE  final'[e.path] = e.sha
      <4>1. PICK x \in DOMAIN man[p].files :
              /\ e = man[p].files[x]
              /\ \A y \in DOMAIN man[p].files :
                   y > x => man[p].files[x].path \notin
                     {man[p].files[y].path, TempName(man[p].files[y].path)}
        BY DEF LastEntries
      <4>2. DOMAIN man[p].files = 1 .. Len(man[p].files) /\ Len(man[p].files) \in Nat
        BY <1>3, ManifestAssumption
      <4>3. x < i[p]
        BY <1>0, <1>2, <4>2 DEF TypeOK
      <4>4. \A y \in DOMAIN man[p].files :
              x < y /\ y < i[p] => man[p].files[x].path \notin
                {man[p].files[y].path, TempName(man[p].files[y].path)}
        BY <4>1, <4>2
      <4> QED
        BY <1>2, <1>6, <3>1, <4>1, <4>3, <4>4 DEF InPlaceUpTo
    <3>2. final'[ReceiptName] = Receipt(man[p], ~ opt[p].noVerify)
      BY <1>4, <2>1
    <3> QED
      BY <1>1, <1>2, <3>1, <3>2 DEF CompleteOnSuccess
  <2> QED BY <1>1, <2>2, <2>3, <2>4 DEF SafeInv
<1> QED BY <1>7, <1>8

(* Steps of the environment. *)
LEMMA EnvironmentSafeInv ==
    ASSUME SafeInv, TypeInv', OneProcess,
           ChangeMedia \/ UNCHANGED vars
           \/ \E p \in Procs : LocalError(p) \/ RemovalFails(p) \/ Crash(p)
    PROVE  SafeInv'
<1>0. TypeInv /\ TypeOK
  BY DEF SafeInv, TypeInv
<1>1. ASSUME NEW p \in Procs, LocalError(p)
      PROVE  SafeInv'
  <2>1. CASE InTry(p) /\ FailJoin(p, 4)
    BY <2>1, FailJoinSafeInv DEF InTry, AtEntry
  <2>2. CASE Exit(p, 4) /\ final' = final
    <3>1. pc'[p] = "done" /\ exit'[p] = 4
      BY <1>0, <2>2 DEF Exit, TypeOK
    <3>2. pc'[p] \notin Joining /\ exit'[p] # 0
          /\ pc'[p] \notin {"load", "dest"} \cup Verifying
      BY <3>1 DEF Joining, Verifying
    <3> QED BY <2>2, <3>2, QuietStep
  <2> QED BY <1>1, <2>1, <2>2 DEF LocalError
<1>2. ASSUME NEW p \in Procs, Crash(p)
      PROVE  SafeInv'
  <2>1. final' = final /\ pc'[p] = "crashed"
    BY <1>0, <1>2 DEF Crash, dest, TypeOK
  <2> QED BY <2>1, QuietStep DEF Joining, Verifying
<1>3. ASSUME NEW p \in Procs, RemovalFails(p)
      PROVE  SafeInv'
  <2>1. final' = final /\ pc'[p] = "done" /\ exit'[p] = 4
    BY <1>0, <1>3 DEF RemovalFails, dest, Exit, TypeOK
  <2>2. pc'[p] \notin Joining /\ exit'[p] # 0
        /\ pc'[p] \notin {"load", "dest"} \cup Verifying
    BY <2>1 DEF Joining, Verifying
  <2> QED BY <2>1, <2>2, QuietStep
<1>4. ASSUME UNCHANGED <<final, pc, opt, man, verified, i, buf, out, exit>>
      PROVE  SafeInv'
  <2>1. FinalFilesWhole' /\ CompleteOnSuccess'
    BY <1>4 DEF SafeInv, FinalFilesWhole, CompleteOnSuccess
  <2>2. \A p \in Procs : Faithful(p)'
    BY <1>4 DEF SafeInv, Faithful, InPlaceUpTo, Temp, Current, Entry
  <2> QED BY <2>1, <2>2 DEF SafeInv
<1> QED
  BY <1>1, <1>2, <1>3, <1>4 DEF ChangeMedia, vars, dest, locals

LEMMA StepSafeInv == OneProcess /\ SafeInv /\ [Next]_vars => SafeInv'
<1> SUFFICES ASSUME OneProcess, SafeInv, [Next]_vars PROVE SafeInv'
  OBVIOUS
<1>1. TypeInv'
  BY StepTypeInv DEF SafeInv
<1>2. CASE \E p \in Procs : Begin(p) \/ Step(p)
  BY <1>1, <1>2, BeforeJoinSafeInv, StartJoinSafeInv, JoinOpenSafeInv,
     JoinCopySafeInv, JoinInstallSafeInv, ReceiptSafeInv
  DEF Step
<1>3. CASE ChangeMedia \/ UNCHANGED vars
           \/ \E p \in Procs : LocalError(p) \/ RemovalFails(p) \/ Crash(p)
  BY <1>1, <1>3, EnvironmentSafeInv
<1> QED
  BY <1>2, <1>3 DEF Next

THEOREM SafeInvariant == OneProcess => (Spec => []SafeInv)
<1> SUFFICES ASSUME OneProcess PROVE Spec => []SafeInv
  OBVIOUS
<1>1. Init => SafeInv
  BY InitSafeInv
<1>2. SafeInv /\ [Next]_vars => SafeInv'
  BY StepSafeInv
<1> QED
  BY <1>1, <1>2, PTL DEF Spec

(* One process at a time, but any media, any decay of it, any failures and  *)
(* kills and any sequence of runs: no final file is ever partial or mixed,  *)
(* unless its name is the temporary name of another one.                    *)
THEOREM FilesStayWhole == OneProcess => (Spec => []FinalFilesWhole)
<1> SUFFICES ASSUME OneProcess PROVE Spec => []FinalFilesWhole
  OBVIOUS
<1>1. SafeInv => FinalFilesWhole
  BY DEF SafeInv
<1> QED
  BY <1>1, SafeInvariant, PTL

(* Under the same conditions: exit code 0 of an unpack means every file     *)
(* that no later entry of the run's manifest overwrites or uses for its     *)
(* temporary file is in place with its declared contents, and that the      *)
(* receipt names that manifest and says whether it was verified.            *)
THEOREM SuccessIsComplete == OneProcess => (Spec => []CompleteOnSuccess)
<1> SUFFICES ASSUME OneProcess PROVE Spec => []CompleteOnSuccess
  OBVIOUS
<1>1. SafeInv => CompleteOnSuccess
  BY DEF SafeInv
<1> QED
  BY <1>1, SafeInvariant, PTL
=============================================================================
