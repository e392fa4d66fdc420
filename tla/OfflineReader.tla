--------------------------- MODULE OfflineReader ---------------------------
(***************************************************************************)
(* The program on the disconnected host: src/modelferry/offline.py run as  *)
(* "verify" or "unpack" by one or more processes, over media that may      *)
(* change under them, with crashes and local filesystem errors, and run    *)
(* again later into the same destination.                                  *)
(*                                                                         *)
(* Reading one object, writing one object's bytes to the temporary file    *)
(* and renaming that file are each one step.  <file>.mftmp is a name of    *)
(* the destination like any other, so a manifest may declare it too.       *)
(* Inodes are modelled as far as they matter: a process that holds         *)
(* <file>.mftmp open keeps writing to the same file when another process   *)
(* renames or removes it.                                                  *)
(***************************************************************************)
EXTENDS Bundle

CONSTANTS
    Procs,       \* operator sessions on the disconnected host
    Options,     \* command lines in use: [cmd, noVerify, force]
    ManifestType, \* what _load_manifest accepts: records with the fields
                 \* files and verifier, and what the reader does not look at
    Media,       \* the bundles an operator may insert
    Tools,       \* versions of tools/modelferry_offline.py
    Astray,      \* in a manifest: a verifier whose path _safe_join rejects
    Missized,    \* <<manifest, object path>> declared with the wrong bytes
    Damage,      \* what decays or is left at a name under payload/
    FirstDest,   \* the initial contents of the destination directory
    FirstKind,   \* whether the destination is "none", "dir" or "other"
    ReceiptName, \* UNPACK_RECEIPT.json
    Suffix,      \* .mftmp
    NoFile,      \* nothing at this destination name
    Hole,        \* a block of a file that was never written
    NoManifest,  \* no manifest loaded
    MaxRuns, MaxChanges, MaxCrashes, \* bounds on the environment,
    MaxErrors, MaxStuck              \* MaxStuck on os.remove failing

-----------------------------------------------------------------------------
(* What the constants stand for. *)

Part         == [path : Names, sha : Contents]
EntryType    == [path : Names, sha : Contents, parts : Seq(Part)]
FileBlocks   == Blocks \cup {Hole} \cup [manifest : ManifestType, verified : BOOLEAN]
FileContents == Seq(FileBlocks)
OnMedia      == Contents \cup {Missing, Link, Unreadable}

\* tmp in _join_file, and every name that occurs in the destination.
TempName(f) == Append(f, Suffix)
Temps       == { TempName(f) : f \in Names }
Places      == Names \cup Temps

ASSUME ManifestAssumption ==
    /\ \A m \in ManifestType : /\ m.files \in Seq(EntryType)
                               /\ m.verifier \in Tools \cup {Astray}
    /\ Astray \notin Tools \cup {Missing}

\* What appending .mftmp to a path gives.
ASSUME TemporaryAssumption ==
    /\ \A f, g \in Names : TempName(f) = TempName(g) => f = g
    /\ \A f \in Names : TempName(f) # f
    /\ ReceiptName \notin Temps

ASSUME MediaAssumption ==
    /\ \A b \in Media :
         /\ b \in [manifest : ManifestType \cup {Missing, Malformed},
                   sidecar : ManifestType \cup {Missing, Malformed},
                   verifier : Tools \cup {Missing},
                   payload : [Names -> OnMedia]]
    /\ Damage \subseteq OnMedia
    /\ {Missing, Malformed, NoManifest} \cap ManifestType = {}
    /\ {Missing, Link, Unreadable} \cap Contents = {}

ASSUME DestAssumption ==
    /\ FirstDest \in [Names -> Contents \cup {NoFile}]
    /\ FirstKind \in {"none", "dir", "other"}
    /\ FirstKind # "dir" => \A n \in Names : FirstDest[n] = NoFile
    /\ ReceiptName \in Names
    /\ NoFile \notin FileContents

ASSUME OptionsAssumption ==
    Options \subseteq [cmd : {"verify", "unpack"}, noVerify : BOOLEAN, force : BOOLEAN]

ASSUME BoundsAssumption ==
    /\ MaxRuns \in Nat /\ MaxChanges \in Nat
    /\ MaxCrashes \in Nat /\ MaxErrors \in Nat /\ MaxStuck \in Nat
-----------------------------------------------------------------------------
VARIABLES
    bundle,    \* the bundle directory on the media
    final,     \* contents of each name of the destination directory
    destKind,  \* os.path.exists / isdir of the destination
    pc, opt,   \* control and command line of each process
    man, vman, \* cmd_unpack's manifest and the one cmd_verify read
    clean,     \* cmd_verify: no failure reported so far
    seen,      \* _iter_objects: object paths yielded so far
    verified,  \* cmd_unpack's flag
    i, j,      \* cursor: manifest entry and object within it
    buf,       \* bytes hashed (and written) by the current _join_file
    out,       \* the name the open temporary file has now: {name} or {}
    exit,      \* exit code of a finished run
    undisturbed, \* history: nothing went wrong around this run since it began
    budget     \* how much of each bound on the environment is left

dest    == <<final, destKind>>
locals  == <<man, vman, clean, seen, verified, i, j, buf, out, exit>>
vars    == <<bundle, dest, pc, opt, locals, undisturbed, budget>>

Receipt(m, v) == << [manifest |-> m, verified |-> v] >>

Verifying == {"vload", "sidecar", "tool", "objects"}
Joining   == {"join", "copy", "receipt"}
Running   == {"load", "dest"} \cup Verifying \cup Joining

Entry(p)   == man[p].files[i[p]]
Current(p) == Entry(p).path
Temp(p)    == TempName(Current(p))

-----------------------------------------------------------------------------
Init ==
    /\ bundle \in Media
    /\ final = [n \in Places |-> IF n \in Names THEN FirstDest[n] ELSE NoFile]
    /\ destKind = FirstKind
    /\ pc = [p \in Procs |-> "idle"]
    /\ opt \in [Procs -> Options]
    /\ man = [p \in Procs |-> NoManifest]
    /\ vman = [p \in Procs |-> NoManifest]
    /\ clean = [p \in Procs |-> TRUE]
    /\ seen = [p \in Procs |-> {}]
    /\ verified = [p \in Procs |-> FALSE]
    /\ i = [p \in Procs |-> 1]
    /\ j = [p \in Procs |-> 1]
    /\ buf = [p \in Procs |-> <<>>]
    /\ out = [p \in Procs |-> {}]
    /\ exit = [p \in Procs |-> 0]
    /\ undisturbed = [p \in Procs |-> TRUE]
    /\ budget = [runs |-> MaxRuns, changes |-> MaxChanges,
                 crashes |-> MaxCrashes, errors |-> MaxErrors,
                 stuck |-> MaxStuck]

\* A run ends, by a return or by an exception that main turns into a code.
Exit(p, code) ==
    /\ pc' = [pc EXCEPT ![p] = "done"]
    /\ exit' = [exit EXCEPT ![p] = code]

Goto(p, label) ==
    /\ pc' = [pc EXCEPT ![p] = label]
    /\ UNCHANGED exit

-----------------------------------------------------------------------------
(* main: parse the command line and start the command. *)
Begin(p) ==
    /\ pc[p] \in {"idle", "done", "crashed"}
    /\ budget.runs > 0
    /\ budget' = [budget EXCEPT !.runs = @ - 1]
    /\ \E o \in Options :
         /\ opt' = [opt EXCEPT ![p] = o]
         /\ pc' = [pc EXCEPT ![p] = IF o.cmd = "verify" THEN "vload" ELSE "load"]
    /\ man' = [man EXCEPT ![p] = NoManifest]
    /\ vman' = [vman EXCEPT ![p] = NoManifest]
    /\ clean' = [clean EXCEPT ![p] = TRUE]
    /\ seen' = [seen EXCEPT ![p] = {}]
    /\ verified' = [verified EXCEPT ![p] = FALSE]
    /\ i' = [i EXCEPT ![p] = 1]
    /\ j' = [j EXCEPT ![p] = 1]
    /\ buf' = [buf EXCEPT ![p] = <<>>]
    /\ exit' = [exit EXCEPT ![p] = 0]
    /\ undisturbed' = [undisturbed EXCEPT ![p] = TRUE]
    /\ UNCHANGED <<bundle, dest, out>>

(* cmd_unpack: the manifest it will join from. *)
Load(p) ==
    /\ pc[p] = "load"
    /\ IF IsManifest(bundle.manifest)
       THEN /\ man' = [man EXCEPT ![p] = bundle.manifest]
            /\ Goto(p, "dest")
       ELSE /\ Exit(p, 2)
            /\ UNCHANGED man
    /\ UNCHANGED <<bundle, dest, opt, vman, clean, seen, verified, i, j, buf,
                   out, undisturbed, budget>>

DestEmpty == \A n \in Places : final[n] = NoFile

\* A slip: --force is not looked at.
RefusedEvenIfForced(p) == destKind = "other" \/ ~ DestEmpty

DestRefused(p) == destKind = "other" \/ (~ DestEmpty /\ ~ opt[p].force)

(* _dest_ready, which runs before the bundle is verified. *)
DestReady(p) ==
    /\ pc[p] = "dest"
    /\ IF DestRefused(p)
       THEN /\ Exit(p, 4)
            /\ UNCHANGED destKind
       ELSE /\ destKind' = "dir"
            /\ Goto(p, IF opt[p].noVerify THEN "join" ELSE "vload")
    /\ UNCHANGED <<bundle, final, opt, man, vman, clean, seen, verified,
                   i, j, buf, out, undisturbed, budget>>

-----------------------------------------------------------------------------
(* cmd_verify, which reads the manifest for itself. *)
VLoad(p) ==
    /\ pc[p] = "vload"
    /\ IF IsManifest(bundle.manifest)
       THEN /\ vman' = [vman EXCEPT ![p] = bundle.manifest]
            /\ Goto(p, "sidecar")
       ELSE /\ Exit(p, 2)
            /\ UNCHANGED vman
    /\ UNCHANGED <<bundle, dest, opt, man, clean, seen, verified, i, j, buf,
                   out, undisturbed, budget>>

\* A sidecar that is not UTF-8 raises UnicodeDecodeError, which main passes on.
CheckSidecar(p) ==
    /\ pc[p] = "sidecar"
    /\ IF bundle.sidecar = Malformed
       THEN /\ Exit(p, 1)
            /\ UNCHANGED clean
       ELSE /\ clean' = [clean EXCEPT ![p] = (bundle.sidecar = vman[p])]
            /\ Goto(p, "tool")
    /\ UNCHANGED <<bundle, dest, opt, man, vman, seen, verified, i, j, buf,
                   out, undisturbed, budget>>

VerifyVerifier(p) ==
    /\ pc[p] = "tool"
    /\ IF vman[p].verifier = Astray
       THEN /\ Exit(p, 1)
            /\ UNCHANGED clean
       ELSE /\ clean' = [clean EXCEPT ![p] =
                           @ /\ bundle.verifier = vman[p].verifier]
            /\ Goto(p, "objects")
    /\ UNCHANGED <<bundle, dest, opt, man, vman, seen, verified, i, j, buf,
                   out, undisturbed, budget>>

SizeOK(m, o) == <<m, o.path>> \notin Missized

(* The verify loop: _iter_objects yields one object, _check_object reads it. *)
(* One that cannot be read is a mismatch if its size already disagrees.      *)
CheckObject(p) ==
    /\ pc[p] = "objects"
    /\ i[p] <= Len(vman[p].files)
    /\ LET e == vman[p].files[i[p]]
           o == Sources(e)[j[p]]
           last == j[p] = Len(Sources(e))
           refused == \/ e.path \in Unsafe
                      \/ e.parts # <<>> /\ ~ PlacedPart(e.path, o)
                      \/ o.path \in seen[p]
           ok == SizeOK(vman[p], o) /\ bundle.payload[o.path] = o.sha
       IN IF refused
          THEN /\ Exit(p, 1)
               /\ UNCHANGED <<clean, seen, i, j>>
          ELSE /\ seen' = [seen EXCEPT ![p] = @ \cup {o.path}]
               /\ clean' = [clean EXCEPT ![p] = @ /\ ok]
               /\ i' = [i EXCEPT ![p] = IF last THEN @ + 1 ELSE @]
               /\ j' = [j EXCEPT ![p] = IF last THEN 1 ELSE @ + 1]
               /\ \/ bundle.payload[o.path] = Unreadable /\ Exit(p, 4)
                  \/ UNCHANGED <<pc, exit>>
    /\ UNCHANGED <<bundle, dest, opt, man, vman, verified, buf, out,
                   undisturbed, budget>>

\* A slip: only names inside the manifest are looked at.
NoScan(p) == FALSE

\* _scan_extra: a file or link that no object of the manifest accounts for
HasExtra(p) == \E n \in Names \ seen[p] : bundle.payload[n] # Missing

(* The end of cmd_verify, and what cmd_unpack makes of the verdict. *)
ScanExtra(p) ==
    /\ pc[p] = "objects"
    /\ i[p] > Len(vman[p].files)
    /\ LET good == clean[p] /\ ~ HasExtra(p)
       IN CASE ~ good ->
                 /\ Exit(p, 1)
                 /\ UNCHANGED <<verified, i, j>>
            [] good /\ opt[p].cmd = "verify" ->
                 /\ Exit(p, 0)
                 /\ UNCHANGED <<verified, i, j>>
            [] good /\ opt[p].cmd = "unpack" ->
                 /\ Goto(p, "join")
                 /\ verified' = [verified EXCEPT ![p] = TRUE]
                 /\ i' = [i EXCEPT ![p] = 1]
                 /\ j' = [j EXCEPT ![p] = 1]
    /\ UNCHANGED <<bundle, dest, opt, man, vman, clean, seen, buf, out,
                   undisturbed, budget>>

-----------------------------------------------------------------------------
(* _join_file.  Temp(p) is the <file>.mftmp that p writes.  After it is    *)
(* renamed or removed by another process, p holds a file that has another  *)
(* name or none.                                                           *)

\* A slip: no finally clause.
KeepTemp(p) == out' = [out EXCEPT ![p] = {}] /\ UNCHANGED final

\* os.remove of the temporary file, when it is there
RemoveTemp(p) ==
    /\ final' = [final EXCEPT ![Temp(p)] = NoFile]
    /\ out' = [q \in Procs |-> IF q = p THEN {} ELSE out[q] \ {Temp(p)}]

FailJoin(p, code) ==
    /\ RemoveTemp(p)
    /\ Exit(p, code)
    /\ UNCHANGED <<i, j, buf>>

\* A slip: the file is opened without truncating it.
Reused(t) == IF final[t] = NoFile THEN <<>> ELSE final[t]

\* What the temporary file t holds once it is open for writing.
Opened(t) == <<>>

JoinOpen(p) ==
    /\ pc[p] = "join"
    /\ i[p] <= Len(man[p].files)
    /\ IF SafeEntry(Entry(p))
       THEN /\ final' = [final EXCEPT ![Temp(p)] = Opened(Temp(p))]
            /\ out' = [out EXCEPT ![p] = {Temp(p)}]
            /\ j' = [j EXCEPT ![p] = 1]
            /\ buf' = [buf EXCEPT ![p] = <<>>]
            /\ Goto(p, "copy")
       ELSE /\ Exit(p, 1)
            /\ UNCHANGED <<final, out, j, buf>>
    /\ UNCHANGED <<bundle, destKind, opt, man, vman, clean, seen,
                   verified, i, undisturbed, budget>>

\* The contents c after s is written at offset off.
WriteAt(c, off, s) ==
    [k \in 1 .. (IF Len(c) > off + Len(s) THEN Len(c) ELSE off + Len(s)) |->
       IF k \in off + 1 .. off + Len(s) THEN s[k - off]
       ELSE IF k <= Len(c) THEN c[k] ELSE Hole]

\* A slip: an exit code of its own for a damaged object.
StrangeCode(s) == IF s = Unreadable THEN 4 ELSE 3

SourceCode(s) == IF s = Unreadable THEN 4 ELSE 1

(* One source object, copied to the open file and fed to the hash. *)
JoinCopy(p) ==
    /\ pc[p] = "copy"
    /\ j[p] <= Len(Sources(Entry(p)))
    /\ LET s == bundle.payload[Sources(Entry(p))[j[p]].path]
       IN IF s \in {Link, Missing, Unreadable}
          THEN FailJoin(p, SourceCode(s))
          ELSE /\ buf' = [buf EXCEPT ![p] = @ \o s]
               /\ j' = [j EXCEPT ![p] = @ + 1]
               /\ final' = [n \in Places |->
                              IF n \in out[p]
                              THEN WriteAt(final[n], Len(buf[p]), s)
                              ELSE final[n]]
               /\ UNCHANGED <<pc, exit, i, out>>
    /\ UNCHANGED <<bundle, destKind, opt, man, vman, clean, seen, verified,
                   undisturbed, budget>>

\* Slips: no whole-file check; the check reads f.mftmp back.
Unchecked(p) == TRUE
TempHashOK(p) == final[Temp(p)] = Entry(p).sha

\* The hash of what was read, not of what the temporary file holds.
HashOK(p) == buf[p] = Entry(p).sha

\* Slips: the loop stays on its entry; it steps over one.
Stay(p) == UNCHANGED i
Skip(p) == i' = [i EXCEPT ![p] = @ + 2]

NextEntry(p) == i' = [i EXCEPT ![p] = @ + 1]

(* The whole-file check and os.replace, which fails when the temporary file *)
(* is gone.                                                                 *)
JoinInstall(p) ==
    /\ pc[p] = "copy"
    /\ j[p] > Len(Sources(Entry(p)))
    /\ LET f == Current(p)
           t == Temp(p)
       IN CASE ~ HashOK(p) -> FailJoin(p, 1)
            [] HashOK(p) /\ final[t] = NoFile -> FailJoin(p, 4)
            [] HashOK(p) /\ final[t] # NoFile ->
                 /\ final' = [final EXCEPT ![f] = final[t], ![t] = NoFile]
                 /\ out' = [q \in Procs |->
                      IF q = p THEN {}
                      ELSE { IF n = t THEN f ELSE n : n \in out[q] \ {f} }]
                 /\ NextEntry(p)
                 /\ Goto(p, "join")
                 /\ UNCHANGED <<j, buf>>
    /\ UNCHANGED <<bundle, destKind, opt, man, vman, clean, seen, verified,
                   undisturbed, budget>>

-----------------------------------------------------------------------------
(* _write_receipt: opening the file for writing empties it. *)
OpenReceipt(p) ==
    /\ pc[p] = "join"
    /\ i[p] > Len(man[p].files)
    /\ final' = [final EXCEPT ![ReceiptName] = <<>>]
    /\ Goto(p, "receipt")
    /\ UNCHANGED <<bundle, destKind, opt, man, vman, clean, seen,
                   verified, i, j, buf, out, undisturbed, budget>>

WriteReceipt(p) ==
    /\ pc[p] = "receipt"
    /\ final' = [final EXCEPT ![ReceiptName] = Receipt(man[p], verified[p])]
    /\ Exit(p, 0)
    /\ UNCHANGED <<bundle, destKind, opt, man, vman, clean, seen,
                   verified, i, j, buf, out, undisturbed, budget>>

\* The finally clause of _join_file runs, because a file is being copied or
\* because opening the temporary file fails.
InTry(p) ==
    \/ pc[p] = "copy"
    \/ pc[p] = "join" /\ i[p] <= Len(man[p].files) /\ SafeEntry(Entry(p))

(* An OSError that no handler below main catches: exit code 4. *)
LocalError(p) ==
    /\ pc[p] \in Running
    /\ budget.errors > 0
    /\ budget' = [budget EXCEPT !.errors = @ - 1]
    /\ undisturbed' = [undisturbed EXCEPT ![p] = FALSE]
    /\ \/ InTry(p) /\ FailJoin(p, 4)
       \/ /\ pc[p] # "copy"
          /\ Exit(p, 4)
          /\ UNCHANGED <<final, out, i, j, buf>>
    /\ UNCHANGED <<bundle, destKind, opt, man, vman, clean, seen, verified>>

(* A join fails, for whatever reason, and so does os.remove in its finally  *)
(* clause: that is the error that ends the run.                             *)
RemovalFails(p) ==
    /\ pc[p] = "copy"
    /\ budget.stuck > 0
    /\ budget' = [budget EXCEPT !.stuck = @ - 1]
    /\ undisturbed' = [undisturbed EXCEPT ![p] = FALSE]
    /\ out' = [out EXCEPT ![p] = {}]
    /\ Exit(p, 4)
    /\ UNCHANGED <<bundle, dest, opt, man, vman, clean, seen, verified, i, j,
                   buf>>

(* The process is killed; what it wrote so far stays on the disk. *)
Crash(p) ==
    /\ pc[p] \in Running
    /\ budget.crashes > 0
    /\ budget' = [budget EXCEPT !.crashes = @ - 1]
    /\ pc' = [pc EXCEPT ![p] = "crashed"]
    /\ out' = [out EXCEPT ![p] = {}]
    /\ UNCHANGED <<bundle, dest, opt, man, vman, clean, seen, verified, i, j,
                   buf, exit, undisturbed>>

-----------------------------------------------------------------------------
(* The media: the part of the bundle that decays, and the operator who      *)
(* changes the media for another bundle.                                    *)
ChangeMedia ==
    /\ budget.changes > 0
    /\ budget' = [budget EXCEPT !.changes = @ - 1]
    /\ \/ bundle' \in Media
       \/ \E n \in Names, d \in Damage :
            bundle' = [bundle EXCEPT !.payload[n] = d]
       \/ bundle' = [bundle EXCEPT !.manifest = Malformed]
       \/ \E s \in {Missing, Malformed} : bundle' = [bundle EXCEPT !.sidecar = s]
       \/ bundle' = [bundle EXCEPT !.verifier = Missing]
    /\ undisturbed' = [p \in Procs |-> FALSE]
    /\ UNCHANGED <<dest, pc, opt, locals>>

Step(p) ==
    \/ Load(p) \/ DestReady(p)
    \/ VLoad(p) \/ CheckSidecar(p) \/ VerifyVerifier(p)
    \/ CheckObject(p) \/ ScanExtra(p)
    \/ JoinOpen(p) \/ JoinCopy(p) \/ JoinInstall(p)
    \/ OpenReceipt(p) \/ WriteReceipt(p)

Next ==
    \/ \E p \in Procs :
         Begin(p) \/ Step(p) \/ LocalError(p) \/ RemovalFails(p) \/ Crash(p)
    \/ ChangeMedia

Spec == Init /\ [][Next]_vars

\* A command that was started keeps running until it ends or is killed.
Fairness == \A p \in Procs : WF_vars(Step(p))
FairSpec == Spec /\ Fairness

-----------------------------------------------------------------------------
(* Properties *)

Manifests == { b.manifest : b \in Media } \ {Missing, Malformed}
Receipts  == { Receipt(m, v) : m \in Manifests, v \in BOOLEAN }

\* The contents some manifest gives to the file n.
Declared(n) ==
    UNION { { m.files[k].sha : k \in { x \in DOMAIN m.files :
                                        m.files[x].path = n } } :
            m \in Manifests }

\* The entries that decide what unpacking m leaves behind: no later entry is
\* for the same path, or uses that path for its temporary file.
LastEntries(m) ==
    { m.files[k] : k \in { x \in DOMAIN m.files :
        \A y \in DOMAIN m.files : y > x =>
          m.files[x].path \notin {m.files[y].path, TempName(m.files[y].path)} } }

\* Intact, and the sizes that the manifest gives are right too.
Verifies(b) ==
    /\ Intact(b)
    /\ \A x \in Positions(b.manifest) : SizeOK(b.manifest, ObjectAt(b.manifest, x))

TypeOK ==
    /\ bundle \in [manifest : Manifests \cup {Missing, Malformed},
                  sidecar : ManifestType \cup {Missing, Malformed},
                  verifier : Tools \cup {Missing},
                  payload : [Names -> OnMedia]]
    /\ final \in [Places -> {NoFile} \cup FileContents]
    /\ destKind \in {"none", "dir", "other"}
    /\ pc \in [Procs -> Running \cup {"idle", "done", "crashed"}]
    /\ opt \in [Procs -> Options]
    /\ man \in [Procs -> Manifests \cup {NoManifest}]
    /\ vman \in [Procs -> Manifests \cup {NoManifest}]
    /\ clean \in [Procs -> BOOLEAN]
    /\ seen \in [Procs -> SUBSET Names]
    /\ verified \in [Procs -> BOOLEAN]
    /\ i \in [Procs -> Nat \ {0}]
    /\ j \in [Procs -> Nat \ {0}]
    /\ buf \in [Procs -> Contents]
    /\ out \in [Procs -> SUBSET Places]
    /\ exit \in [Procs -> {0, 1, 2, 4}]
    /\ undisturbed \in [Procs -> BOOLEAN]
    /\ budget \in [runs : Nat, changes : Nat, crashes : Nat, errors : Nat,
                   stuck : Nat]

(* The verify loop (offline.py:305-374), one object at a time, computes    *)
(* exactly the declarative Verifies when nothing changes under it; and an  *)
(* unpack that did not waive it joins files only from such a bundle.       *)
VerdictExact ==
    \A p \in Procs : undisturbed[p] =>
      /\ pc[p] = "done" /\ opt[p].cmd = "verify" =>
           (exit[p] = 0 <=> Verifies(bundle))
      /\ pc[p] \in Joining /\ ~ opt[p].noVerify => Verifies(bundle)

(* No file of the destination ever holds anything but what was there        *)
(* before, or the complete contents some manifest declares for it, whatever *)
(* the media does and wherever runs fail or are killed                      *)
(* (offline.py:394-398: hash first, then os.replace).  A name that is the   *)
(* temporary name of another one is the exception: joining that other file  *)
(* uses it (offline.py:410).                                                *)
FinalFilesWhole ==
    \A n \in Names \ Temps :
      \/ final[n] \in {FirstDest[n]} \cup Declared(n)
      \/ n = ReceiptName /\ final[n] \in {<<>>} \cup Receipts

(* Exit code 0 means the tree is complete: every file that no later entry   *)
(* overwrites or uses for its temporary file has the contents of the        *)
(* manifest the run loaded, whatever was in the destination before and      *)
(* whatever happened to the media meanwhile, and the receipt says so        *)
(* (offline.py:442-451).  The receipt's own name is the exception.          *)
CompleteOnSuccess ==
    \A p \in Procs :
      pc[p] = "done" /\ opt[p].cmd = "unpack" /\ exit[p] = 0 =>
        /\ \A e \in LastEntries(man[p]) :
             e.path # ReceiptName => final[e.path] = e.sha
        /\ final[ReceiptName] = Receipt(man[p], ~ opt[p].noVerify)

(* Unless a process was killed or os.remove failed, a file under a name     *)
(* that can only be a temporary file's exists only while some process is    *)
(* joining the file it belongs to (offline.py:428-430).                     *)
NoTempLeft ==
    budget.crashes = MaxCrashes /\ budget.stuck = MaxStuck =>
      \A f \in Names : TempName(f) \notin Names /\ final[TempName(f)] # NoFile =>
        \E p \in Procs : pc[p] = "copy" /\ Current(p) = f

(* Nothing an earlier run left behind, however it ended, makes a later      *)
(* "unpack --force" of an intact bundle fail (offline.py:380-390, 410-430). *)
ForcedRunRecovers ==
    \A p \in Procs :
      /\ pc[p] = "done" /\ opt[p].cmd = "unpack" /\ opt[p].force
      /\ undisturbed[p] /\ destKind # "other"
      /\ Verifies(bundle) /\ HashesAgree(bundle.manifest)
      => exit[p] = 0

\* No path is declared twice, or is the temporary name of another one, as in
\* every manifest pack writes (pack.py:98-105).
PathsApart(m) ==
    \A x, y \in DOMAIN m.files :
      /\ m.files[x].path = m.files[y].path => x = y
      /\ m.files[x].path # TempName(m.files[y].path)

(* Several unpacks --force of one intact bundle into one destination share  *)
(* the temporary files (offline.py:410).  When all have ended, and nothing  *)
(* failed or was killed or changed the media, one of them has succeeded and *)
(* every file is whole, even though others may have failed over a file that *)
(* was renamed under them.                                                  *)
ConcurrentRunsConverge ==
    /\ \A p \in Procs : pc[p] = "done" /\ opt[p].cmd = "unpack" /\ opt[p].force
    /\ budget.errors = MaxErrors /\ budget.crashes = MaxCrashes
    /\ budget.changes = MaxChanges /\ budget.stuck = MaxStuck
    /\ Verifies(bundle) /\ HashesAgree(bundle.manifest)
    /\ PathsApart(bundle.manifest) /\ FirstKind = "none"
    => /\ \E p \in Procs : exit[p] = 0
       /\ \A k \in DOMAIN bundle.manifest.files :
            LET e == bundle.manifest.files[k]
            IN e.path # ReceiptName => final[e.path] = e.sha

(* Every command that is started ends, unless it is killed: the loops over  *)
(* entries, parts and files advance (offline.py:333, 354-374, 415, 444).    *)
Terminates == \A p \in Procs : pc[p] \in Running ~> pc[p] \notin Running

(* SPEC.md:137: "unpacked output can be re-verified against the manifest    *)
(* forever", whatever the names of its files are, if the bundle was         *)
(* verified.                                                                *)
OutputReverifiable ==
    \A p \in Procs :
      pc[p] = "done" /\ opt[p].cmd = "unpack" /\ ~ opt[p].noVerify /\ exit[p] = 0 =>
        \A k \in DOMAIN man[p].files :
          final[man[p].files[k].path] = man[p].files[k].sha
=============================================================================
