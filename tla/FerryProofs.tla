----------------------------- MODULE FerryProofs -----------------------------
(***************************************************************************)
(* What modelferry promises as a whole, put together from what is proved   *)
(* of pack and of the offline reader by themselves.                        *)
(*                                                                         *)
(* The argument: Ferry is a behaviour of Pack (FerryPacks) and of the      *)
(* reader, to which a carry is a change of the media (FerryReads), so both *)
(* sides' theorems hold of it.  Pack makes every manifest it writes the    *)
(* whole of one commit, so every manifest on the media or in a reader's    *)
(* hands is, however copies are mixed (GenuineInv); and the reader ends    *)
(* with success only when the tree is what its manifest says (Delivered).  *)
(* The officer's inspection is tied to the media by VouchedInv.            *)
(***************************************************************************)
EXTENDS Ferry, PackSafety, WellFoundedInduction

OneReader == \A r, s \in Readers : r = s

\* The reader with what is proved about it.
V == INSTANCE OfflineReaderVerdict WITH
       Procs <- Readers, Options <- ReaderOptions, Media <- BundleType,
       Tools <- {Verifier, Bad}, Missized <- {}, Damage <- {},
       FirstDest <- [n \in Names |-> NoFile], FirstKind <- "none",
       MaxRuns <- MaxReads, MaxChanges <- MaxCarries,
       MaxCrashes <- 0, MaxErrors <- 0, MaxStuck <- 0,
       bundle <- inserted, final <- tree,
       destKind <- treeKind, pc <- rpc, opt <- ropt, man <- rman,
       vman <- rvman, clean <- rclean, seen <- rseen, verified <- rverified,
       i <- ri, j <- rj, buf <- rbuf, out <- rout, exit <- rexit,
       undisturbed <- rcalm, budget <- rbudget

-----------------------------------------------------------------------------
(* The assumptions of OfflineReader, for the bundles pack may write. *)
LEMMA ReadersManifests ==
    /\ \A m \in ManifestType : /\ m.files \in Seq(V!EntryType)
                               /\ m.verifier \in {Verifier, Bad} \cup {Astray}
    /\ Astray \notin {Verifier, Bad} \cup {Missing}
<1>1. V!EntryType = EntryType
  BY DEF V!EntryType, V!Part, EntryType, PartType, V!Contents, Contents
<1> QED BY <1>1, FerryAssumption DEF ManifestType

LEMMA ReadersTemporary ==
    /\ \A f, g \in Names : V!TempName(f) = V!TempName(g) => f = g
    /\ \A f \in Names : V!TempName(f) # f
    /\ ReceiptName \notin V!Temps
<1>1. \A f, g \in Names : V!TempName(f) = V!TempName(g) => f = g
  BY FerryAssumption, Zenon DEF V!TempName
<1>2. \A f \in Names : V!TempName(f) \notin {f, ReceiptName}
  BY FerryAssumption, Zenon DEF V!TempName
<1> QED BY <1>1, <1>2, Zenon DEF V!Temps

LEMMA ReadersMedia ==
    /\ \A b \in BundleType :
         /\ b \in [manifest : ManifestType \cup {Missing, Malformed},
                   sidecar : ManifestType \cup {Missing, Malformed},
                   verifier : {Verifier, Bad} \cup {Missing},
                   payload : [Names -> V!OnMedia]]
    /\ {} \subseteq V!OnMedia
    /\ {Missing, Malformed, NoManifest} \cap ManifestType = {}
    /\ {Missing, Link, Unreadable} \cap V!Contents = {}
<1>1. V!Contents = Contents /\ Contents \cup {Missing} \subseteq V!OnMedia
  BY DEF V!Contents, Contents, V!OnMedia
<1>2. ASSUME NEW b \in BundleType
      PROVE  b \in [manifest : ManifestType \cup {Missing, Malformed},
                    sidecar : ManifestType \cup {Missing, Malformed},
                    verifier : {Verifier, Bad} \cup {Missing},
                    payload : [Names -> V!OnMedia]]
  BY <1>1 DEF BundleType
<1>3. {Missing, Malformed, NoManifest} \cap ManifestType = {}
      /\ {Missing, Link, Unreadable} \cap V!Contents = {}
  BY <1>1, FerryAssumption
<1> QED BY <1>2, <1>3, Zenon

LEMMA ReadersDest ==
    /\ [n \in Names |-> NoFile] \in [Names -> V!Contents \cup {NoFile}]
    /\ "none" \in {"none", "dir", "other"}
    /\ "none" # "dir" => \A n \in Names : [x \in Names |-> NoFile][n] = NoFile
    /\ ReceiptName \in Names
    /\ NoFile \notin V!FileContents
<1>1. NoFile \notin V!FileContents
  BY FerryAssumption, Zenon DEF V!FileContents, V!FileBlocks
<1> QED BY <1>1, FerryAssumption

LEMMA ReadersOptions ==
    ReaderOptions \subseteq
      [cmd : {"verify", "unpack"}, noVerify : BOOLEAN, force : BOOLEAN]
  BY FerryAssumption

LEMMA ReadersBounds ==
    /\ MaxReads \in Nat /\ MaxCarries \in Nat
    /\ 0 \in Nat /\ 0 \in Nat /\ 0 \in Nat
  BY FerryAssumption

-----------------------------------------------------------------------------
(* The two instances of OfflineReader have the same actions. *)
LEMMA SamePlaces ==
    /\ \A f : R!TempName(f) = V!TempName(f)
    /\ R!Temps = V!Temps /\ R!Places = V!Places
<1>1. \A f : R!TempName(f) = V!TempName(f)
  BY DEF R!TempName, V!TempName
<1>2. R!Temps = V!Temps
  BY <1>1 DEF R!Temps, V!Temps
<1> QED BY <1>1, <1>2 DEF R!Places, V!Places

LEMMA SameInit == R!Init <=> V!Init
  BY SamePlaces DEF R!Init, V!Init

LEMMA SameRunning == R!Running = V!Running
  BY DEF R!Running, V!Running, R!Verifying, V!Verifying, R!Joining, V!Joining

LEMMA SameStep ==
    ASSUME NEW r \in Readers
    PROVE  (R!Begin(r) <=> V!Begin(r)) /\ (R!Step(r) <=> V!Step(r))
<1> USE DEF R!dest, V!dest, R!Exit, V!Exit, R!Goto, V!Goto
<1>1. R!Begin(r) <=> V!Begin(r)
  BY DEF R!Begin, V!Begin
<1>2. \A m : R!IsManifest(m) <=> V!IsManifest(m)
  BY DEF R!IsManifest, V!IsManifest
<1>3. R!Load(r) <=> V!Load(r)
  BY <1>2 DEF R!Load, V!Load
<1>4. R!DestReady(r) <=> V!DestReady(r)
  BY SamePlaces
  DEF R!DestReady, V!DestReady, R!DestRefused, V!DestRefused, R!DestEmpty, V!DestEmpty
<1>5. R!VLoad(r) <=> V!VLoad(r)
  BY <1>2 DEF R!VLoad, V!VLoad
<1>6. (R!CheckSidecar(r) <=> V!CheckSidecar(r)) /\ (R!VerifyVerifier(r) <=> V!VerifyVerifier(r))
  BY DEF R!CheckSidecar, V!CheckSidecar, R!VerifyVerifier, V!VerifyVerifier
<1>7. /\ \A e : R!Sources(e) = V!Sources(e)
      /\ \A f, o : R!PlacedPart(f, o) <=> V!PlacedPart(f, o)
      /\ R!Entry(r) = V!Entry(r) /\ R!Current(r) = V!Current(r)
      /\ R!Temp(r) = V!Temp(r)
  BY SamePlaces DEF R!Temp, V!Temp, R!Sources, V!Sources, R!PlacedPart, V!PlacedPart, R!PartName, V!PartName,
         R!Entry, V!Entry, R!Current, V!Current
<1>8. R!CheckObject(r) <=> V!CheckObject(r)
  BY <1>7, Zenon DEF R!CheckObject, V!CheckObject, R!SizeOK, V!SizeOK
<1>9. R!ScanExtra(r) <=> V!ScanExtra(r)
  BY DEF R!ScanExtra, V!ScanExtra, R!HasExtra, V!HasExtra
<1>10. R!JoinOpen(r) <=> V!JoinOpen(r)
  BY <1>7 DEF R!JoinOpen, V!JoinOpen, R!SafeEntry, V!SafeEntry, R!Opened, V!Opened
<1>11. \A code : R!FailJoin(r, code) <=> V!FailJoin(r, code)
  BY <1>7, Zenon DEF R!FailJoin, V!FailJoin, R!RemoveTemp, V!RemoveTemp
<1>12. R!JoinCopy(r) <=> V!JoinCopy(r)
  <2>1. \A c, off, s : R!WriteAt(c, off, s) = V!WriteAt(c, off, s)
    BY DEF R!WriteAt, V!WriteAt
  <2>2. \A s : R!SourceCode(s) = V!SourceCode(s)
    BY DEF R!SourceCode, V!SourceCode
  <2> QED BY <1>7, <1>11, <2>1, <2>2, SamePlaces, Zenon DEF R!JoinCopy, V!JoinCopy
<1>13. R!JoinInstall(r) <=> V!JoinInstall(r)
  <2>1. (R!HashOK(r) <=> V!HashOK(r)) /\ (R!NextEntry(r) <=> V!NextEntry(r))
    BY <1>7 DEF R!HashOK, V!HashOK, R!NextEntry, V!NextEntry
  <2>2. R!Goto(r, "join") <=> V!Goto(r, "join")
    OBVIOUS
  <2> HIDE DEF R!Exit, V!Exit, R!Goto, V!Goto
  <2> QED
    BY <1>7, <1>11, <2>1, <2>2, Zenon
    DEF R!JoinInstall, V!JoinInstall, R!Current, V!Current, R!Entry, V!Entry,
        R!Temp, V!Temp, R!TempName, V!TempName
<1>14. (R!OpenReceipt(r) <=> V!OpenReceipt(r)) /\ (R!WriteReceipt(r) <=> V!WriteReceipt(r))
  BY DEF R!OpenReceipt, V!OpenReceipt, R!WriteReceipt, V!WriteReceipt, R!Receipt, V!Receipt
<1> HIDE DEF R!dest, V!dest, R!Exit, V!Exit, R!Goto, V!Goto
<1> QED
  BY <1>1, <1>3, <1>4, <1>5, <1>6, <1>8, <1>9, <1>10, <1>12, <1>13, <1>14
  DEF R!Step, V!Step

(* What verify promises of a bundle means the same on both sides. *)
LEMMA SameIntact ==
    ASSUME NEW b
    PROVE  /\ V!Verifies(b) <=> Intact(b)
           /\ V!HashesAgree(b.manifest) <=> HashesAgree(b.manifest)
<1>1. /\ \A e : V!Sources(e) = Sources(e)
      /\ \A e : V!SafeEntry(e) <=> SafeEntry(e)
      /\ \A e : V!PartsJoin(e) <=> PartsJoin(e)
  BY DEF V!Sources, Sources, V!SafeEntry, SafeEntry, V!PlacedPart, PlacedPart,
         V!PartName, PartName, V!PartsJoin, PartsJoin
<1>2. /\ \A m : V!Positions(m) = Positions(m)
      /\ \A m, x : V!ObjectAt(m, x) = ObjectAt(m, x)
  BY <1>1 DEF V!Positions, Positions, V!ObjectAt, ObjectAt
<1>3. \A m : V!ObjectPaths(m) = ObjectPaths(m)
  BY <1>2 DEF V!ObjectPaths, ObjectPaths
<1>4. V!Intact(b) <=> Intact(b)
  BY <1>1, <1>2, <1>3 DEF V!Intact, Intact, V!IsManifest, IsManifest
<1>5. V!HashesAgree(b.manifest) <=> HashesAgree(b.manifest)
  BY <1>1 DEF V!HashesAgree, HashesAgree
<1> QED BY <1>4, <1>5 DEF V!Verifies, V!SizeOK
-----------------------------------------------------------------------------
(* The two sides by themselves: what Ferry does to the variables of Pack is *)
(* a behaviour of Pack, and what it does to those of the reader is one of   *)
(* OfflineReader, for any number of processes on either side.               *)
LEMMA FerryPacks == FerrySpec => Spec
<1>1. FerryInit => Init
  BY DEF FerryInit
<1>2. [FerryNext]_ferryVars => [Next]_vars
  BY DEF FerryNext, ferryVars, Packing, Carry, Inspect, StartReader, Reading
<1> QED BY <1>1, <1>2, PTL DEF FerrySpec, Spec

SoundMedia == TypeInv /\ inserted \in BundleType

LEMMA NoBundleType == NoBundle \in BundleType
  BY DEF NoBundle, BundleType

LEMMA CarryType ==
    ASSUME SoundMedia, NEW c \in Commits, Carry(c)
    PROVE  /\ inserted' \in BundleType
           /\ inserted'.manifest \in {inserted.manifest, bundles[c].manifest}
<1>1. inserted \in BundleType /\ bundles[c] \in BundleType
  BY DEF SoundMedia, TypeInv, MediaType
<1>2. CASE inserted' = bundles[c]
  BY <1>1, <1>2
<1>3. CASE inserted' \in Arrivals(inserted, CopiedOver(inserted, bundles[c]))
  <2> DEFINE b == CopiedOver(inserted, bundles[c])
  <2>1. b \in BundleType /\ b.manifest \in {inserted.manifest, bundles[c].manifest}
    BY <1>1 DEF BundleType, CopiedOver
  <2> HIDE DEF b
  <2>2. \A n \in Names : /\ [b EXCEPT !.payload[n] = inserted.payload[n]] \in BundleType
                         /\ [b EXCEPT !.payload[n] = inserted.payload[n]].manifest = b.manifest
    BY <1>1, <2>1 DEF BundleType
  <2> QED BY <1>3, <2>1, <2>2 DEF Arrivals, b
<1> QED BY <1>2, <1>3 DEF Carry

LEMMA ReaderSteps ==
    ASSUME SoundMedia, [FerryNext]_ferryVars
    PROVE  [V!Next]_V!vars /\ inserted' \in BundleType
<1> USE DEF SoundMedia
<1>1. ASSUME NEW c \in Commits, Carry(c) PROVE V!ChangeMedia /\ inserted' \in BundleType
  BY <1>1, CarryType DEF Carry, V!ChangeMedia, readerVars, V!dest, V!locals
<1>2. ASSUME NEW r \in Readers, StartReader(r) \/ Reading(r)
      PROVE  /\ V!Begin(r) \/ V!Step(r)
             /\ inserted' = inserted
  <2>1. V!Begin(r) \/ V!Step(r)
    BY <1>2, SameStep DEF StartReader, Reading
  <2>2. V!Begin(r) => inserted' = inserted
    BY DEF V!Begin
  <2>3. V!Step(r) => inserted' = inserted
    BY Zenon
       DEF V!Step, V!Load, V!DestReady, V!VLoad, V!CheckSidecar, V!VerifyVerifier,
           V!CheckObject, V!ScanExtra, V!JoinOpen, V!JoinCopy, V!JoinInstall,
           V!OpenReceipt, V!WriteReceipt
  <2> QED BY <2>1, <2>2, <2>3
<1>3. CASE Packing \/ Inspect \/ UNCHANGED ferryVars
  BY <1>3 DEF Packing, Inspect, ferryVars, readerVars, V!vars, V!dest, V!locals
<1> QED BY <1>1, <1>2, <1>3 DEF FerryNext, V!Next

LEMMA FerryReads == FerrySpec => V!Spec /\ []SoundMedia
<1>1. FerryInit => V!Init /\ SoundMedia
  BY SameInit, InitTypeInv, NoBundleType DEF FerryInit, SoundMedia
<1>2. [FerryNext]_ferryVars => [Next]_vars
  BY DEF FerryNext, ferryVars, Packing, Carry, Inspect, StartReader, Reading
<1>3. SoundMedia /\ [FerryNext]_ferryVars => [V!Next]_V!vars /\ SoundMedia'
  BY <1>2, ReaderSteps, StepTypeInv DEF SoundMedia
<1> QED BY <1>1, <1>3, PTL DEF FerrySpec, V!Spec
-----------------------------------------------------------------------------
(* What holds on the connected side, in the reader's words. *)
PackInv == TypeInv /\ MediaInv /\ ContentInv

LEMMA FerryContent == ASSUME Apart PROVE FerrySpec => []PackInv
<1>1. Init => PackInv
  BY InitTypeInv, InitSafety, InitContent DEF PackInv
<1>2. PackInv /\ [Next]_vars => PackInv'
  BY StepTypeInv, MediaInvStep, RunContentStep, ManifestsInvStep DEF PackInv, ContentInv
<1> QED BY <1>1, <1>2, FerryPacks, PTL DEF Spec

LEMMA FerryAlone ==
    ASSUME OneProcess PROVE FerrySpec => [](PackInv /\ SignerInv /\ AloneInv)
<1>1. Apart
  BY DEF Apart
<1>2. Init => TypeInv /\ MediaInv /\ SignerInv /\ AloneInv
  BY InitTypeInv, InitSafety
<1>3. TypeInv /\ MediaInv /\ SignerInv /\ AloneInv /\ [Next]_vars
        => (TypeInv /\ MediaInv /\ SignerInv /\ AloneInv)'
  BY StepTypeInv, MediaInvStep, SignerInvStep, AloneInvStep
<1> QED BY <1>1, <1>2, <1>3, FerryContent, FerryPacks, PTL DEF Spec

LEMMA ReaderSafe == ASSUME OneReader PROVE FerrySpec => []V!SafeInv
<1>1. V!OneProcess
  BY DEF OneReader, V!OneProcess
<1>2. V!Spec => []V!SafeInv
  BY <1>1, V!SafeInvariant, ReadersManifests, ReadersTemporary, ReadersMedia,
     ReadersDest, ReadersOptions, ReadersBounds, Zenon
<1> QED BY <1>2, FerryReads, PTL

LEMMA ReaderRecovers == ASSUME OneReader PROVE FerrySpec => []V!ForcedRunRecovers
<1>1. V!OneProcess
  BY DEF OneReader, V!OneProcess
<1>2. V!Spec => []V!ForcedRunRecovers
  BY <1>1, V!ForcedRunSucceeds, ReadersManifests, ReadersTemporary, ReadersMedia,
     ReadersDest, ReadersOptions, ReadersBounds, Zenon
<1> QED BY <1>2, FerryReads, PTL

(* What one pack at a time reports as a good bundle, a lone reader can      *)
(* unpack, whatever its destination holds: what pack's self-check calls     *)
(* intact is what the reader's loop accepts, and parts that join to a file  *)
(* are the parts the join wants (pack.py:265-317, offline.py:305-451).      *)
THEOREM FerryUnpacks ==
    ASSUME OneProcess, OneReader PROVE FerrySpec => []PackedUnpacks
<1>1. PackInv /\ SignerInv /\ AloneInv /\ V!ForcedRunRecovers => PackedUnpacks
  <2> SUFFICES ASSUME PackInv, SignerInv, AloneInv, V!ForcedRunRecovers,
                      NEW p \in Procs, NEW r \in Readers,
                      Ended(p, 0), made[commit[p]], inserted = bundles[commit[p]],
                      rpc[r] = "done", rcalm[r],
                      ropt[r].cmd = "unpack", ropt[r].force, treeKind # "other"
               PROVE  rexit[r] = 0
    BY DEF PackedUnpacks
  <2>1. commit[p] \in Commits /\ Intact(inserted)
    BY DEF SignerInv, AloneInv, Passed
  <2>2. HashesAgree(inserted.manifest)
    BY <2>1 DEF PackInv, ContentInv, ManifestsInv, Intact
  <2>3. V!Verifies(inserted) /\ V!HashesAgree(inserted.manifest)
    BY <2>1, <2>2, SameIntact
  <2> QED BY <2>3 DEF V!ForcedRunRecovers
<1> QED BY <1>1, FerryAlone, ReaderRecovers, PTL

-----------------------------------------------------------------------------
(* What a step of the reader does to the destination. *)
Kept == \A n \in ModelNames : tree'[n] = tree[n]

GoesOn(r) == rpc'[r] \in V!Running /\ Kept

Fails(r) ==
    /\ rpc'[r] = "done" /\ Kept
    /\ rexit'[r] # 0 \/ ropt[r].cmd = "verify"

Installs(r) ==
    /\ rpc[r] = "copy" /\ rpc'[r] = "join"
    /\ \A n \in ModelNames :
         tree'[n] = IF n = V!Current(r) THEN V!Entry(r).sha ELSE tree[n]

Succeeds(r) ==
    /\ rpc[r] = "receipt" /\ rpc'[r] = "done" /\ rexit'[r] = 0 /\ Kept

Effect(r) == GoesOn(r) \/ Fails(r) \/ Installs(r) \/ Succeeds(r)

LEMMA TempIsOwn ==
    ASSUME V!TypeInv, NEW r \in Readers, V!AtEntry(r)
    PROVE  V!Temp(r) \in V!Temps /\ V!Temp(r) \notin ModelNames
<1>1. V!Current(r) \in Names
  BY V!CurrentShape, ReadersManifests, ReadersTemporary, ReadersMedia, ReadersDest,
     ReadersOptions, ReadersBounds, Zenon
<1> QED BY <1>1 DEF V!Temp, V!Temps, V!TempName, ModelNames, OwnNames

LEMMA StepEffect ==
    ASSUME V!SafeInv, NEW r \in Readers, V!Step(r)
    PROVE  rpc[r] \in V!Running /\ ropt' = ropt /\ Effect(r)
<1>0. V!TypeOK /\ V!Faithful(r) /\ V!Loaded(r)
  BY DEF V!SafeInv, V!TypeInv
<1> USE DEF V!Running, V!Verifying, V!Joining
<1>1. \A label : V!Goto(r, label) => rpc'[r] = label
  BY <1>0 DEF V!TypeOK, V!Goto
<1>2. \A code : V!Exit(r, code) => rpc'[r] = "done" /\ rexit'[r] = code
  BY <1>0 DEF V!TypeOK, V!Exit
<1>3. ASSUME tree' = tree PROVE Kept
  BY <1>3 DEF Kept
<1>4. ASSUME V!AtEntry(r), NEW code, V!FailJoin(r, code)
      PROVE  rpc'[r] = "done" /\ rexit'[r] = code /\ Kept
  <2>1. V!Temp(r) \notin ModelNames
    BY <1>0, <1>4, TempIsOwn DEF V!SafeInv
  <2> QED BY <1>0, <1>2, <1>4, <2>1 DEF V!FailJoin, V!RemoveTemp, Kept, V!TypeOK
<1>5. CASE V!Load(r)
  BY <1>1, <1>2, <1>3, <1>5 DEF V!Load, Effect, GoesOn, Fails, V!dest
<1>6. CASE V!DestReady(r)
  BY <1>1, <1>2, <1>3, <1>6 DEF V!DestReady, Effect, GoesOn, Fails
<1>7. CASE V!VLoad(r)
  BY <1>1, <1>2, <1>3, <1>7 DEF V!VLoad, Effect, GoesOn, Fails, V!dest
<1>8. CASE V!CheckSidecar(r) \/ V!VerifyVerifier(r)
  <2>1. /\ tree' = tree /\ ropt' = ropt /\ rpc[r] \in V!Running
        /\ V!Goto(r, "tool") \/ V!Goto(r, "objects") \/ V!Exit(r, 1)
    BY <1>8 DEF V!CheckSidecar, V!VerifyVerifier, V!dest
  <2> QED BY <1>1, <1>2, <1>3, <2>1 DEF Effect, GoesOn, Fails
<1>9. CASE V!CheckObject(r)
  <2>1. rpc[r] = "objects" /\ ropt' = ropt /\ tree' = tree
    BY <1>9, Zenon DEF V!CheckObject, V!dest
  <2>2. rpc' = rpc \/ \E c \in {1, 4} : V!Exit(r, c)
    BY <1>9, Zenon DEF V!CheckObject
  <2> QED BY <1>2, <1>3, <2>1, <2>2 DEF Effect, GoesOn, Fails
<1>10. CASE V!ScanExtra(r)
  <2>1. ropt[r].cmd \in {"verify", "unpack"}
    BY <1>0, ReadersOptions DEF V!TypeOK
  <2>2. rpc[r] = "objects" /\ ropt' = ropt /\ tree' = tree
    BY <1>10 DEF V!ScanExtra, V!dest
  <2>3. V!Goto(r, "join") \/ V!Exit(r, 1) \/ (V!Exit(r, 0) /\ ropt[r].cmd = "verify")
    BY <1>10, <2>1 DEF V!ScanExtra
  <2> QED BY <1>1, <1>2, <1>3, <2>2, <2>3 DEF Effect, GoesOn, Fails
<1>11. CASE V!JoinOpen(r)
  <2>1. rpc[r] = "join" /\ V!AtEntry(r) /\ ropt' = ropt
    BY <1>11 DEF V!JoinOpen, V!AtEntry
  <2>2. \/ V!Exit(r, 1) /\ tree' = tree
        \/ /\ V!Goto(r, "copy")
           /\ tree' = [tree EXCEPT ![V!Temp(r)] = V!Opened(V!Temp(r))]
    BY <1>11 DEF V!JoinOpen
  <2>3. V!Temp(r) \notin ModelNames
    BY <2>1, TempIsOwn DEF V!SafeInv
  <2>4. Kept
    BY <1>0, <2>2, <2>3 DEF Kept, V!TypeOK, ModelNames, V!Places
  <2> QED BY <1>1, <1>2, <2>1, <2>2, <2>4 DEF Effect, GoesOn, Fails
<1>12. CASE V!JoinCopy(r)
  <2>1. /\ rpc[r] = "copy" /\ V!AtEntry(r) /\ ropt' = ropt
        /\ rout[r] = {V!Temp(r)}
    BY <1>0, <1>12 DEF V!JoinCopy, V!Faithful, V!Cursor, V!AtEntry
  <2>2. V!Temp(r) \notin ModelNames
    BY <2>1, TempIsOwn, SMTT(30) DEF V!SafeInv
  <2>3. \/ \E c \in {1, 4} : V!FailJoin(r, c)
        \/ /\ rpc' = rpc
           /\ \A n \in V!Places : n \notin rout[r] => tree'[n] = tree[n]
    BY <1>12 DEF V!JoinCopy, V!SourceCode
  <2>4. ASSUME \A n \in V!Places : n \notin rout[r] => tree'[n] = tree[n] PROVE Kept
    BY <2>1, <2>2, <2>4 DEF Kept, ModelNames, V!Places
  <2> QED BY <1>4, <2>1, <2>3, <2>4, SMTT(30) DEF Effect, GoesOn, Fails
<1>13. CASE V!JoinInstall(r)
  <2>1. /\ rpc[r] = "copy" /\ V!AtEntry(r) /\ ropt' = ropt
        /\ tree[V!Temp(r)] = rbuf[r]
    BY <1>0, <1>13 DEF V!JoinInstall, V!Faithful, V!Cursor, V!AtEntry
  <2>2. V!Temp(r) \notin ModelNames
    BY <2>1, TempIsOwn DEF V!SafeInv
  <2>3. \/ \E c \in {1, 4} : V!FailJoin(r, c)
        \/ /\ V!HashOK(r) /\ V!Goto(r, "join")
           /\ tree' = [tree EXCEPT ![V!Current(r)] = tree[V!Temp(r)],
                                   ![V!Temp(r)] = NoFile]
    BY <1>13 DEF V!JoinInstall
  <2>4. ASSUME V!HashOK(r), V!Goto(r, "join"),
               tree' = [tree EXCEPT ![V!Current(r)] = tree[V!Temp(r)],
                                    ![V!Temp(r)] = NoFile]
        PROVE  Installs(r)
    <3>1. \A n \in ModelNames : n \in DOMAIN tree /\ n # V!Temp(r)
      BY <1>0, <2>2 DEF V!TypeOK, ModelNames, V!Places
    <3> QED BY <1>1, <2>1, <2>4, <3>1 DEF Installs, V!HashOK
  <2> QED BY <1>4, <2>1, <2>3, <2>4 DEF Effect, Fails
<1>14. CASE V!OpenReceipt(r) \/ V!WriteReceipt(r)
  <2>1. ReceiptName \notin ModelNames
    BY DEF ModelNames, OwnNames
  <2>2. Kept
    BY <1>0, <1>14, <2>1
    DEF V!OpenReceipt, V!WriteReceipt, V!TypeOK, Kept, ModelNames, V!Places
  <2> QED
    BY <1>1, <1>2, <1>14, <2>2
    DEF V!OpenReceipt, V!WriteReceipt, Effect, GoesOn, Succeeds
<1> QED
  BY <1>5, <1>6, <1>7, <1>8, <1>9, <1>10, <1>11, <1>12, <1>13, <1>14 DEF V!Step

LEMMA StepManifest ==
    ASSUME NEW r \in Readers, V!Step(r)
    PROVE  /\ inserted' = inserted
           /\ \/ rman' = rman
              \/ /\ IsManifest(inserted.manifest) /\ rpc[r] = "load"
                 /\ rman' = [rman EXCEPT ![r] = inserted.manifest]
<1>1. CASE V!Load(r)
  BY <1>1 DEF V!Load, V!IsManifest, IsManifest
<1>2. CASE ~ V!Load(r)
  BY <1>2, Zenon DEF V!Step, V!DestReady, V!VLoad, V!CheckSidecar, V!VerifyVerifier,
     V!CheckObject, V!ScanExtra, V!JoinOpen, V!JoinCopy, V!JoinInstall,
     V!OpenReceipt, V!WriteReceipt
<1> QED BY <1>1, <1>2
-----------------------------------------------------------------------------
(* Every manifest that reaches the reader is a whole commit's. *)
Genuine(m) == m \in ManifestType /\ DeclaresCommit(m, m.source)

GenuineInv ==
    /\ IsManifest(inserted.manifest) => Genuine(inserted.manifest)
    /\ \A r \in Readers : rman[r] # NoManifest => Genuine(rman[r])
    /\ \A r \in Readers : Unpacked(r) => rman[r] # NoManifest

LEMMA LoadedManifest ==
    ASSUME V!SafeInv, NEW r \in Readers, rpc[r] = "receipt"
    PROVE  rman[r] # NoManifest /\ ropt[r].cmd = "unpack"
<1>1. rman[r] \in V!Manifests /\ ropt[r].cmd = "unpack"
  BY DEF V!SafeInv, V!TypeInv, V!Loaded, V!Joining
<1>2. PICK b \in BundleType : rman[r] = b.manifest /\ b.manifest \notin {Missing, Malformed}
  BY <1>1 DEF V!Manifests
<1> QED BY <1>1, <1>2, FerryAssumption DEF BundleType

LEMMA GenuineInvStep ==
    ASSUME OneReader, PackInv, SoundMedia, V!SafeInv, GenuineInv, [FerryNext]_ferryVars
    PROVE  GenuineInv'
<1>1. CASE Packing \/ Inspect \/ UNCHANGED ferryVars
  BY <1>1 DEF Packing, Inspect, ferryVars, readerVars, GenuineInv, Unpacked
<1>2. ASSUME NEW c \in Commits, Carry(c) PROVE GenuineInv'
  <2>1. inserted'.manifest \in {inserted.manifest, bundles[c].manifest}
    BY <1>2, CarryType
  <2>2. IsManifest(bundles[c].manifest) => Genuine(bundles[c].manifest)
    BY DEF PackInv, MediaInv, ContentInv, ManifestsInv, Genuine, TypeInv, MediaType,
           BundleType, IsManifest
  <2> QED
    BY <1>2, <2>1, <2>2 DEF Carry, readerVars, GenuineInv, Unpacked
<1>3. ASSUME NEW r \in Readers, StartReader(r) PROVE GenuineInv'
  <2>1. V!Begin(r) /\ \A q \in Readers : q = r
    BY <1>3, SameStep DEF StartReader, OneReader
  <2>2. /\ inserted' = inserted /\ rman'[r] = NoManifest
        /\ rpc'[r] \in {"vload", "load"}
    BY <2>1 DEF V!Begin, V!SafeInv, V!TypeInv, V!TypeOK
  <2> QED BY <2>1, <2>2 DEF GenuineInv, Unpacked
<1>4. ASSUME NEW r \in Readers, Reading(r) PROVE GenuineInv'
  <2>1. V!Step(r) /\ \A q \in Readers : q = r
    BY <1>4, SameStep DEF Reading, OneReader
  <2>2. /\ inserted' = inserted
        /\ rman'[r] = rman[r] \/ (IsManifest(inserted.manifest) /\ rman'[r] = inserted.manifest)
        /\ rman'[r] = rman[r] \/ rpc[r] = "load"
    BY <2>1, StepManifest DEF V!SafeInv, V!TypeInv, V!TypeOK
  <2>3. Unpacked(r)' => rman'[r] # NoManifest
    <3>1. SUFFICES ASSUME Unpacked(r)' PROVE rman'[r] # NoManifest
      OBVIOUS
    <3>2. Succeeds(r)
      BY <2>1, <3>1, StepEffect
      DEF Unpacked, Effect, GoesOn, Fails, Installs, V!Running, V!Verifying, V!Joining
    <3> QED BY <2>2, <3>2, LoadedManifest DEF Succeeds
  <2> QED BY <2>1, <2>2, <2>3 DEF GenuineInv
<1> QED BY <1>1, <1>2, <1>3, <1>4 DEF FerryNext

-----------------------------------------------------------------------------
(* The last of the entries for a path decides what is there. *)
LEMMA LastEntry ==
    ASSUME NEW m \in ManifestType, NEW k \in DOMAIN m.files,
           m.files[k].path \notin OwnNames
    PROVE  \E e \in V!LastEntries(m) :
             e.path = m.files[k].path /\ \E x \in DOMAIN m.files : e = m.files[x]
<1> DEFINE len == Len(m.files)
           Same == { x \in DOMAIN m.files : m.files[x].path = m.files[k].path }
           Back == { n \in Nat : \E x \in Same : n = len - x }
<1>1. DOMAIN m.files = 1 .. len /\ len \in Nat
  BY DEF ManifestType
<1> HIDE DEF len
<1>2. Back \subseteq Nat /\ len - k \in Back
  BY <1>1
<1>3. PICK n \in Back : \A y \in Back : ~ (<<y, n>> \in OpToRel(<, Nat))
  <2> HIDE DEF Back
  <2> QED BY <1>2, NatLessThanWellFounded, WFMin, Zenon
<1>4. \A y \in Back : ~ (y < n)
  BY <1>2, <1>3 DEF OpToRel
<1>5. PICK x \in Same : n = len - x
  OBVIOUS
<1>6. ASSUME NEW y \in DOMAIN m.files, y > x PROVE m.files[y].path # m.files[x].path
  <2>1. SUFFICES ASSUME m.files[y].path = m.files[x].path PROVE FALSE
    OBVIOUS
  <2>2. y \in Same /\ len - y \in Back
    BY <1>1, <2>1, SMTT(30)
  <2> QED BY <1>1, <1>4, <1>5, <1>6, <2>2, SMTT(60)
<1>7. ASSUME NEW y \in DOMAIN m.files
      PROVE  V!TempName(m.files[y].path) # m.files[x].path
  <2>1. m.files[y].path \in Names
    <3>1. m.files \in Seq(EntryType)
      BY DEF ManifestType
    <3>2. m.files[y] \in EntryType
      BY <3>1
    <3> QED BY <3>2 DEF EntryType
  <2> QED BY <1>5, <2>1 DEF V!TempName, OwnNames
<1>8. m.files[x] \in V!LastEntries(m)
  BY <1>6, <1>7 DEF V!LastEntries
<1> QED BY <1>8

\* What is in the destination is all of commit c, but for names unpack uses.
TreeIs(c) == \A n \in DOMAIN Repo[c] \ OwnNames : tree[n] = Repo[c][n]

LEMMA TreeHolds == ASSUME NEW c \in Commits PROVE T!Holds(c) <=> TreeIs(c)
<1>1. \A n \in DOMAIN Repo[c] \ OwnNames : n \in ModelNames
  BY Constants DEF ModelNames
<1>2. DOMAIN Model[c] = DOMAIN Repo[c] \ OwnNames
      /\ \A n \in DOMAIN Repo[c] \ OwnNames : Model[c][n] = Repo[c][n]
  BY DEF Model
<1>3. \A n \in ModelNames : [x \in ModelNames |-> tree[x]][n] = tree[n]
  OBVIOUS
<1> QED BY <1>1, <1>2, <1>3 DEF T!Holds, TreeIs

DeliveredInv ==
    \A r \in Readers : Unpacked(r) =>
      /\ rman[r] \in ManifestType /\ rman[r].source \in Commits
      /\ TreeIs(rman[r].source)

LEMMA Delivered == V!CompleteOnSuccess /\ GenuineInv => DeliveredInv
<1> SUFFICES ASSUME V!CompleteOnSuccess, GenuineInv, NEW r \in Readers, Unpacked(r)
             PROVE  /\ rman[r] \in ManifestType /\ rman[r].source \in Commits
                    /\ TreeIs(rman[r].source)
  BY DEF DeliveredInv
<1> DEFINE m == rman[r]
           c == m.source
<1>1. m \in ManifestType /\ c \in Commits /\ DeclaresCommit(m, c)
  BY DEF GenuineInv, Genuine, ManifestType
<1>2. \A e \in V!LastEntries(m) : e.path # ReceiptName => tree[e.path] = e.sha
  BY DEF Unpacked, V!CompleteOnSuccess
<1> HIDE DEF m
<1>3. ASSUME NEW n \in DOMAIN Repo[c] \ OwnNames PROVE tree[n] = Repo[c][n]
  <2>1. PICK k \in DOMAIN m.files : m.files[k].path = n
    BY <1>1, <1>3 DEF DeclaresCommit
  <2>2. PICK e \in V!LastEntries(m) : e.path = n /\ \E x \in DOMAIN m.files : e = m.files[x]
    BY <1>1, <1>3, <2>1, LastEntry
  <2>3. e.sha = Repo[c][n] /\ n # ReceiptName
    BY <1>1, <1>3, <2>2 DEF DeclaresCommit, OwnNames
  <2> QED BY <1>2, <2>2, <2>3
<1> QED BY <1>1, <1>3 DEF TreeIs, m
-----------------------------------------------------------------------------
(* Where MANIFEST.md is on the media, it is that of a manifest. *)
Late == {"sign", "verify", "sigcheck"}

PageInv == \A p \in Procs : pc[p] \in Late => page[commit[p]] \in ManifestType

\* Only a run that has written the page goes on to sign or check.
LEMMA PageSteps ==
    ASSUME TypeInv, [Next]_vars
    PROVE  \/ \E c \in Commits : RemoveBundle(c)
           \/ \E p \in Procs : WritePage(p)
           \/ /\ page' = page
              /\ \A q \in Procs : pc'[q] \in Late => pc[q] \in Late /\ commit'[q] = commit[q]
<1> DEFINE Early(p) == /\ page' = page
                       /\ \A q \in Procs : pc'[q] \in Late =>
                            pc[q] \in Late /\ commit'[q] = commit[q]
<1>0. pc \in [Procs -> Running \cup {"idle", "done", "crashed"}]
      /\ commit \in [Procs -> Commits \cup {NoCommit}]
  BY DEF TypeInv, ControlType, ChoiceType
<1>1. ASSUME NEW p \in Procs, page' = page,
             \A q \in Procs \ {p} : pc'[q] = pc[q] /\ commit'[q] = commit[q],
             pc'[p] \in Late => pc[p] \in Late /\ commit'[p] = commit[p]
      PROVE  Early(p)
  BY <1>1
<1>2. ASSUME NEW p \in Procs, Begin(p) \/ MakeSigner(p) \/ Resolve(p) \/ MakeDirs(p)
                               \/ SelfVerify(p) \/ CheckSignature(p) \/ DiskFault(p)
      PROVE  Early(p)
  <2>1. CASE Begin(p)
    BY <1>1, <2>1, BeginSteps DEF Others, shared, Late
  <2>2. CASE MakeSigner(p) \/ Resolve(p)
    BY <1>1, <2>2, ChoiceSteps DEF Others, shared, Late
  <2>3. CASE MakeDirs(p)
    BY <1>1, <2>3, MakeSteps DEF MakeDirs, Others, Late
  <2>4. CASE SelfVerify(p) \/ CheckSignature(p)
    BY <1>1, <2>4, SelfCheckSteps DEF Others, shared, run, Late
  <2>5. CASE DiskFault(p)
    BY <2>5 DEF DiskFault, run
  <2> QED BY <1>2, <2>1, <2>2, <2>3, <2>4, <2>5
<1>3. ASSUME NEW p \in Procs, \/ ValidateDest(p) \/ CheckSpace(p) \/ CheckPath(p)
                               \/ Fetch(p) \/ Collect(p) \/ Preflight(p) \/ Recheck(p)
                               \/ CallFails(p) \/ Crash(p)
      PROVE  Early(p)
  <2>1. Still(p)
    BY <1>3, StillSteps
  <2>2. page' = page
    BY <1>3 DEF ValidateDest, CheckSpace, CheckPath, Fetch, Collect, Preflight, Recheck,
       CallFails, Crash, shared
  <2> QED BY <1>1, <2>1, <2>2 DEF Still, Others, Late, Writing
<1>4. ASSUME NEW p \in Procs, \/ OpenFile(p) \/ Fill(p) \/ DropTrailing(p)
                               \/ InstallVerifier(p) \/ WriteManifest(p) \/ WriteSidecar(p)
                               \/ Sign(p)
      PROVE  Early(p)
  <2>1. Writes(p)
    BY <1>4, WriteSteps
  <2>2. page' = page
    BY <1>4 DEF OpenFile, Fill, DropTrailing, InstallVerifier, WriteManifest, WriteSidecar,
       Sign, settled
  <2>3. pc'[p] \in Late => pc[p] \in Late
    <3>1. ASSUME NEW l \in {"fill", "write", "manifest", "sidecar", "page"}, Goto(p, l)
          PROVE  pc'[p] \notin Late
      BY <1>0, <3>1 DEF Goto, Late
    <3>2. ASSUME Exit(p, LocalFsError, "re-run") PROVE pc'[p] \notin Late
      BY <1>0, <3>2 DEF Exit, Late
    <3>3. CASE OpenFile(p) \/ InstallVerifier(p) \/ WriteManifest(p) \/ WriteSidecar(p)
      BY <3>1, <3>2, <3>3 DEF OpenFile, InstallVerifier, WriteManifest, WriteSidecar
    <3>4. CASE Fill(p) \/ DropTrailing(p)
      BY <3>1, <3>2, <3>4 DEF Fill, DropTrailing, Finish
    <3>5. CASE Sign(p)
      BY <3>5 DEF Sign, Late
    <3> QED BY <1>4, <3>3, <3>4, <3>5
  <2> QED BY <1>1, <2>1, <2>2, <2>3 DEF Writes, Others
<1>5. CASE UNCHANGED vars
  BY <1>5 DEF vars, shared, run
<1> QED BY <1>2, <1>3, <1>4, <1>5 DEF Next, Step

LEMMA PageInvStep == ASSUME TypeInv, PageInv, [Next]_vars PROVE PageInv'
<1>0. \A p \in Procs : pc[p] \in Late \cup {"page"} => commit[p] \in Commits
  BY LocatedCommit DEF Late, Located, Running, Writing
<1>1. ASSUME NEW c \in Commits, RemoveBundle(c) PROVE PageInv'
  <2>1. /\ UNCHANGED <<pc, commit>> /\ page' = [page EXCEPT ![c] = Missing]
        /\ \A p \in Procs : pc[p] \in Late => commit[p] # c
    BY <1>1 DEF RemoveBundle, run, Late, Running, Writing
  <2> QED BY <2>1 DEF PageInv
<1>2. ASSUME NEW p \in Procs, WritePage(p) PROVE PageInv'
  <2>1. /\ page' = [page EXCEPT ![commit[p]] = man[p]] /\ UNCHANGED commit
        /\ man[p] \in ManifestType /\ pc[p] = "page"
    BY <1>2 DEF WritePage, run, TypeInv, Progress, Recorded
  <2>2. page \in [Commits -> ManifestType \cup {Missing}] /\ commit[p] \in Commits
    BY <1>0, <2>1 DEF TypeInv, MediaType
  <2>3. \A q \in Procs \ {p} : pc'[q] = pc[q]
    BY <1>2 DEF WritePage, Goto, TypeInv, ControlType
  <2> QED BY <2>1, <2>2, <2>3 DEF PageInv
<1> QED BY <1>1, <1>2, PageSteps DEF PageInv

\* Only a run that has written the page ends with success.
LEMMA EndingSteps ==
    ASSUME TypeInv, [Next]_vars, NEW p \in Procs, ~ Ended(p, 0), Ended(p, 0)'
    PROVE  pc[p] \in Late /\ UNCHANGED <<page, commit>>
<1>1. Passed(p)' /\ ~ UNCHANGED <<pc, exit>>
  BY DEF Passed, Ended
<1>2. PICK q \in Procs : SelfVerify(q) \/ CheckSignature(q)
  <2>1. ASSUME NEW q \in Procs, \/ Still(q) \/ Writes(q) \/ Begin(q) \/ MakeSigner(q)
                                 \/ Resolve(q) \/ MakeDirs(q)
        PROVE  FALSE
    <3>1. Others(q) /\ ~ Passed(q)'
      BY <2>1, BeginSteps, ChoiceSteps, MakeSteps DEF Still, Writes
    <3> QED BY <1>1, <3>1 DEF Others, Ended
  <2> QED
    BY <1>1, <2>1, StepCases, RemoveSteps, FaultSteps DEF vars
<1>3. UNCHANGED <<page, commit>> /\ Others(q) /\ pc[q] \in {"verify", "sigcheck"}
  BY <1>2, SelfCheckSteps DEF shared, run
<1>4. p = q
  BY <1>1, <1>3 DEF Others, Ended
<1> QED BY <1>3, <1>4 DEF Late

LEMMA ApproveStep ==
    ASSUME TypeInv, PageInv, [Next]_vars, Approve, approved \subseteq ManifestType
    PROVE  approved' \subseteq ManifestType
<1>1. ASSUME NEW q \in Procs, ~ Ended(q, 0), Ended(q, 0)'
      PROVE  page'[commit[q]] \in ManifestType
  BY <1>1, EndingSteps DEF PageInv
<1>2. approved' = approved \cup
        { page'[commit[q]] : q \in { x \in Procs : ~ Ended(x, 0) /\ Ended(x, 0)' } }
  BY DEF Approve
<1> QED BY <1>1, <1>2
-----------------------------------------------------------------------------
(* What the officer has seen is what the reader uses. *)
VouchedInv ==
    /\ approved \subseteq ManifestType
    /\ inspected \in ManifestType => inspected = inserted.manifest
    /\ vouched \in ManifestType =>
         /\ vouched = inserted.manifest
         /\ \A r \in Readers : rman[r] \in {NoManifest, vouched}

LEMMA VouchedInvStep ==
    ASSUME OneReader, SoundMedia, PageInv, V!TypeInv, VouchedInv, [FerryNext]_ferryVars
    PROVE  VouchedInv'
<1>1. CASE Packing
  <2>1. approved' \subseteq ManifestType
    BY <1>1, ApproveStep DEF Packing, SoundMedia, VouchedInv
  <2> QED BY <1>1, <2>1 DEF Packing, readerVars, VouchedInv
<1>2. ASSUME NEW c \in Commits, Carry(c) PROVE VouchedInv'
  BY <1>2, FerryAssumption DEF Carry, VouchedInv
<1>3. CASE Inspect
  BY <1>3, FerryAssumption DEF Inspect, readerVars, Recomputed, VouchedInv
<1>4. ASSUME NEW r \in Readers, StartReader(r) PROVE VouchedInv'
  <2>1. V!Begin(r) /\ \A q \in Readers : q = r
    BY <1>4, SameStep DEF StartReader, OneReader
  <2>2. inserted' = inserted /\ rman'[r] = NoManifest
    BY <2>1 DEF V!Begin, V!TypeInv, V!TypeOK
  <2> QED BY <1>4, <2>1, <2>2 DEF StartReader, VouchedInv
<1>5. ASSUME NEW r \in Readers, Reading(r) PROVE VouchedInv'
  <2>1. V!Step(r) /\ \A q \in Readers : q = r
    BY <1>5, SameStep DEF Reading, OneReader
  <2>2. /\ inserted' = inserted
        /\ rman'[r] = rman[r] \/ rman'[r] = inserted.manifest
    BY <2>1, StepManifest DEF V!TypeInv, V!TypeOK
  <2> QED BY <1>5, <2>1, <2>2 DEF Reading, officerVars, VouchedInv
<1>6. CASE UNCHANGED ferryVars
  BY <1>6 DEF ferryVars, readerVars, officerVars, VouchedInv
<1> QED BY <1>1, <1>2, <1>3, <1>4, <1>5, <1>6 DEF FerryNext

LEMMA InitFerryInv ==
    ASSUME FerryInit PROVE GenuineInv /\ PageInv /\ VouchedInv
<1>1. R!Init /\ Init
  BY DEF FerryInit
<1>2. \A r \in Readers : rman[r] = NoManifest /\ rpc[r] = "idle"
  BY <1>1 DEF R!Init
<1>3. PageInv
  BY <1>1 DEF Init, PageInv, Late
<1>4. ~ IsManifest(inserted.manifest)
  BY DEF FerryInit, NoBundle, IsManifest
<1>5. GenuineInv
  BY <1>2, <1>4 DEF GenuineInv, Unpacked
<1>6. VouchedInv
  BY FerryAssumption DEF FerryInit, VouchedInv
<1> QED BY <1>3, <1>5, <1>6

(* The inductive invariant of the way across the gap. *)
FerryInv == PackInv /\ SoundMedia /\ V!SafeInv /\ GenuineInv /\ PageInv /\ VouchedInv

LEMMA FerryInvariant == ASSUME OneReader, Apart PROVE FerrySpec => []FerryInv
<1>1. FerryInit => GenuineInv /\ PageInv /\ VouchedInv
  BY InitFerryInv
<1>2. [FerryNext]_ferryVars => [Next]_vars
  BY DEF FerryNext, ferryVars, Packing, Carry, Inspect, StartReader, Reading
<1>3. PackInv /\ SoundMedia /\ V!SafeInv /\ GenuineInv /\ PageInv /\ VouchedInv
        /\ [FerryNext]_ferryVars => (GenuineInv /\ PageInv /\ VouchedInv)'
  <2> SUFFICES ASSUME PackInv, SoundMedia, V!SafeInv, GenuineInv, PageInv, VouchedInv,
                      [FerryNext]_ferryVars
               PROVE  (GenuineInv /\ PageInv /\ VouchedInv)'
    OBVIOUS
  <2>1. TypeInv /\ V!TypeInv
    BY DEF SoundMedia, V!SafeInv
  <2>2. GenuineInv'
    BY GenuineInvStep
  <2>3. PageInv'
    BY <1>2, <2>1, PageInvStep
  <2>4. VouchedInv'
    BY <2>1, VouchedInvStep
  <2> QED BY <2>2, <2>3, <2>4
<1>4. FerrySpec => []PackInv
  BY FerryContent
<1>5. FerrySpec => []V!SafeInv
  BY ReaderSafe
<1> QED BY <1>1, <1>3, <1>4, <1>5, FerryReads, PTL DEF FerrySpec, FerryInv

LEMMA FerryDelivered == ASSUME OneReader, Apart PROVE FerrySpec => []DeliveredInv
<1>1. FerryInv => DeliveredInv
  BY Delivered DEF FerryInv, V!SafeInv
<1> QED BY <1>1, FerryInvariant, PTL

(* The protocol of README.md:199-207, for any commits and files, whatever   *)
(* is copied when: what pack approved and inspect has shown on the media    *)
(* that stayed as they were is the commit that a successful unpack puts     *)
(* into the destination, also when it did not verify, for one reader and    *)
(* packs that are not mixed in one staging directory (pack.py:303-305,      *)
(* offline.py:433-451, 484-501).                                            *)
THEOREM FerryInspected ==
    ASSUME OneReader, Apart PROVE FerrySpec => []InspectedDelivered
<1>1. FerryInv /\ DeliveredInv => InspectedDelivered
  <2> SUFFICES ASSUME FerryInv, DeliveredInv, NEW r \in Readers, Unpacked(r),
                      vouched \in approved
               PROVE  T!Holds(vouched.source)
    BY DEF InspectedDelivered
  <2>1. rman[r] = vouched
    BY DEF FerryInv, VouchedInv, GenuineInv
  <2>2. vouched.source \in Commits /\ TreeIs(vouched.source)
    BY <2>1 DEF DeliveredInv
  <2> QED BY <2>2, TreeHolds
<1> QED BY <1>1, FerryInvariant, FerryDelivered, PTL
-----------------------------------------------------------------------------
(* Every step is one that Transfer allows, or changes nothing it sees. *)
LEMMA Unseen ==
    ASSUME Kept, rpc' = rpc, ropt' = ropt, rman' = rman, rexit' = rexit
    PROVE  UNCHANGED T!transferVars
<1>1. [n \in ModelNames |-> tree[n]]' = [n \in ModelNames |-> tree[n]]
  BY DEF Kept, ModelNames, OwnNames
<1> QED BY <1>1 DEF T!transferVars, R!Running, R!Verifying, R!Joining, Unpacked

LEMMA StartRefines ==
    ASSUME OneReader, V!TypeInv, NEW r \in Readers, StartReader(r)
    PROVE  T!Start(r)
<1>1. V!Begin(r) /\ \A q \in Readers : q = r
  BY SameStep DEF StartReader, OneReader
<1>2. /\ tree' = tree /\ rpc[r] \in {"idle", "done", "crashed"}
      /\ rpc'[r] \in {"vload", "load"}
  BY <1>1 DEF V!Begin, V!dest, V!TypeInv, V!TypeOK
<1>3. rpc[r] \notin R!Running /\ rpc'[r] \in R!Running /\ ~ Unpacked(r)'
  BY <1>2 DEF R!Running, R!Verifying, R!Joining, Unpacked
<1>4. UNCHANGED R!Running
  BY DEF R!Running, R!Verifying, R!Joining
<1> QED BY <1>1, <1>2, <1>3, <1>4 DEF T!Start

LEMMA ReadingRefines ==
    ASSUME OneReader, FerryInv, DeliveredInv, DeliveredInv', NEW r \in Readers, Reading(r)
    PROVE  UNCHANGED T!transferVars \/ T!Next
<1>0. V!Step(r) /\ \A q \in Readers : q = r
  BY SameStep DEF Reading, OneReader
<1>1. rpc[r] \in R!Running /\ ropt' = ropt /\ Effect(r)
  BY <1>0, StepEffect, SameRunning DEF FerryInv
<1>2. UNCHANGED R!Running /\ "done" \notin R!Running
  BY DEF R!Running, R!Verifying, R!Joining
<1>3. ~ Unpacked(r)
  BY <1>1, <1>2 DEF Unpacked
<1>4. rman' = rman \/ rpc[r] = "load"
  BY <1>0, StepManifest
<1> DEFINE seen == [n \in ModelNames |-> tree[n]]
<1>5. Kept => seen' = seen
  BY DEF Kept, ModelNames, OwnNames
<1>6. CASE GoesOn(r)
  <2>1. rpc'[r] \in R!Running /\ Kept /\ ~ Unpacked(r)'
    BY <1>2, <1>6, SameRunning DEF GoesOn, Unpacked
  <2> QED
    BY <1>0, <1>1, <1>2, <1>3, <1>5, <2>1 DEF T!transferVars
<1>7. CASE Fails(r)
  <2>1. rpc'[r] \notin R!Running /\ Kept /\ ~ Unpacked(r)'
    BY <1>1, <1>2, <1>7 DEF Fails, Unpacked
  <2>2. T!GiveUp(r)
    BY <1>0, <1>1, <1>2, <1>3, <1>5, <2>1 DEF T!GiveUp
  <2> QED BY <2>2 DEF T!Next
<1>8. CASE Installs(r)
  <2> DEFINE m == rman[r]
             c == m.source
             f == V!Current(r)
  <2>1. rpc[r] = "copy" /\ rpc'[r] = "join"
    BY <1>8 DEF Installs
  <2>2. m # NoManifest /\ m \in ManifestType /\ ri[r] \in DOMAIN m.files
    <3>1. m \in V!Manifests /\ ri[r] \in Nat \ {0} /\ ri[r] <= Len(m.files)
      BY <2>1 DEF FerryInv, V!SafeInv, V!TypeInv, V!TypeOK, V!Loaded, V!Cursor, V!Joining
    <3>2. m \in ManifestType
      BY <3>1 DEF V!Manifests, BundleType
    <3> QED BY <3>1, <3>2, FerryAssumption DEF ManifestType
  <2>3. /\ c \in Commits /\ f \in DOMAIN Repo[c]
        /\ V!Entry(r).sha = Repo[c][f]
    <3>1. Genuine(m)
      BY <2>2 DEF FerryInv, GenuineInv
    <3> QED BY <2>2, <3>1 DEF Genuine, DeclaresCommit, ManifestType, V!Current, V!Entry
  <2>4. rpc'[r] \in R!Running /\ ~ Unpacked(r)'
    BY <2>1 DEF R!Running, R!Verifying, R!Joining, Unpacked
  <2>5. \A n \in ModelNames :
          tree'[n] = IF n = f THEN Repo[c][f] ELSE tree[n]
    BY <1>8, <2>3 DEF Installs
  <2> HIDE DEF c, f
  <2>6. CASE f \notin ModelNames
    <3>1. Kept
      BY <2>5, <2>6 DEF Kept
    <3> QED
      BY <1>0, <1>1, <1>2, <1>3, <1>5, <2>4, <3>1 DEF T!transferVars
  <2>7. CASE f \in ModelNames
    <3>1. PICK d \in Commits, n \in ModelNames : d = c /\ n = f
      BY <2>3, <2>7, Zenon
    <3>2. n \in DOMAIN Model[d] /\ Model[d][n] = Repo[d][n]
      BY <2>3, <3>1 DEF Model, ModelNames
    <3>3. seen' = [seen EXCEPT ![n] = Model[d][n]]
      BY <2>5, <3>1, <3>2 DEF ModelNames, OwnNames
    <3>4. T!Install(r, d, n)
      BY <1>0, <1>1, <1>2, <1>3, <2>4, <3>2, <3>3 DEF T!Install
    <3> QED BY <3>4, Zenon DEF T!Next
  <2> QED BY <2>6, <2>7
<1>9. CASE Succeeds(r)
  <2>1. rpc'[r] \notin R!Running /\ Kept /\ rman' = rman /\ Unpacked(r)'
    BY <1>1, <1>2, <1>4, <1>9, LoadedManifest DEF Succeeds, Unpacked, FerryInv
  <2>2. rman[r].source \in Commits /\ TreeIs(rman[r].source)'
    BY <2>1 DEF DeliveredInv
  <2>3. TreeIs(rman[r].source)
    <3>1. \A n \in DOMAIN Repo[rman[r].source] \ OwnNames : n \in ModelNames
      BY <2>2, Constants DEF ModelNames
    <3> QED BY <2>1, <2>2, <3>1 DEF TreeIs, Kept, OwnNames
  <2>4. PICK d \in Commits : d = rman[r].source
    BY <2>2
  <2>5. T!Deliver(r, d)
    BY <1>0, <1>1, <1>2, <1>5, <2>1, <2>3, <2>4, TreeHolds DEF T!Deliver
  <2> QED BY <2>5, Zenon DEF T!Next
<1> QED BY <1>1, <1>6, <1>7, <1>8, <1>9 DEF Effect

LEMMA StepRefines ==
    ASSUME OneReader, FerryInv, DeliveredInv, DeliveredInv', [FerryNext]_ferryVars
    PROVE  UNCHANGED T!transferVars \/ T!Next
<1>1. CASE Packing \/ Inspect \/ UNCHANGED ferryVars \/ \E c \in Commits : Carry(c)
  <2>1. UNCHANGED readerVars
    BY <1>1 DEF Packing, Inspect, Carry, ferryVars
  <2> QED BY <2>1, Unseen DEF readerVars, Kept
<1>2. ASSUME NEW r \in Readers, StartReader(r) PROVE T!Next
  <2>1. T!Start(r)
    BY <1>2, StartRefines DEF FerryInv, V!SafeInv
  <2> QED BY <2>1, Zenon DEF T!Next
<1>3. ASSUME NEW r \in Readers, Reading(r) PROVE UNCHANGED T!transferVars \/ T!Next
  BY <1>3, ReadingRefines
<1> QED BY <1>1, <1>2, <1>3 DEF FerryNext

LEMMA InitRefines == ASSUME FerryInit PROVE T!Init
<1>1. \A n \in Names : tree[n] = NoFile
  BY DEF FerryInit, R!Init, R!Places
<1>2. \A r \in Readers : rpc[r] = "idle"
  BY DEF FerryInit, R!Init
<1>3. \A r \in Readers : rpc[r] \notin R!Running /\ ~ Unpacked(r)
  BY <1>2 DEF R!Running, R!Verifying, R!Joining, Unpacked
<1> QED BY <1>1, <1>3 DEF T!Init, ModelNames

(* Pack, media and reader implement Transfer, for any commits and files and *)
(* whatever is copied when: nothing but whole files of the packed commits   *)
(* appears in the destination, each in one piece, and exit code 0 of unpack *)
(* means that the commit its manifest names is completely there, for one    *)
(* reader and packs that are not mixed in one staging directory             *)
(* (pack.py:265-304, offline.py:394-451).                                   *)
THEOREM FerryImplements == ASSUME OneReader, Apart PROVE FerrySpec => Implements
<1>1. FerryInit => T!Init
  BY InitRefines
<1>2. FerryInv /\ DeliveredInv /\ DeliveredInv' /\ [FerryNext]_ferryVars
        => [T!Next]_T!transferVars
  BY StepRefines
<1>3. FerrySpec => []FerryInv
  BY FerryInvariant
<1>4. FerrySpec => []DeliveredInv
  BY FerryDelivered
<1> QED BY <1>1, <1>2, <1>3, <1>4, PTL DEF FerrySpec, Implements, T!Spec
=============================================================================
