-------------------------------- MODULE Pack --------------------------------
(***************************************************************************)
(* The connected side: pack() of src/modelferry/pack.py from the check of  *)
(* --dest to the read-back self-check, with hf.resolve and hf.download, by *)
(* one or more processes that share a staging directory and --dest, with   *)
(* crashes, failing calls, disk faults, and an operator who removes a      *)
(* bundle directory and packs again.                                       *)
(*                                                                         *)
(* One model repository is packed.  Its bundle directory is named after    *)
(* the commit, so a bundle here is identified by its commit.  Contents are *)
(* sequences of blocks, a chunk size is a number of blocks, and a part is  *)
(* created and filled in one step each (SplitFile has the buffers).  The   *)
(* space on a volume is what the files under staging and payload/ leave of *)
(* it, and the hub reports the size of every file.                         *)
(***************************************************************************)
EXTENDS Authenticity, FiniteSets, Integers

CONSTANTS
    Procs,      \* invocations of "modelferry pack"
    Options,    \* command lines: [chunk, sign]
    Commits,    \* what --revision may resolve to
    Repo,       \* the selected files of each commit: name -> contents
    Order,      \* the names of all repositories, as Python sorts them
    Reserved,   \* names that end in .mftmp
    NoChunks,   \* --chunk-size none
    MAX_PARTS,
    Verifier,   \* the package's own offline.py
    NoFile,     \* nothing at this name of the staging directory, no file open
    NoCommit,   \* nothing resolved yet
    FirstKeys,  \* what the file of the signing key may hold at first
    OneVolume,  \* staging and --dest share a volume
    Room,       \* the size of each volume; the shared one is Room.dest
    Bad,        \* what a disk fault leaves in a file
    FirstDests, \* what --dest may be at first: "none", "dir" or "other"
    Clock,      \* values created_at may take
    MaxRuns, MaxCrashes, MaxErrors, MaxFaults, MaxRemovals \* bounds

\* The exit codes of errors.py.
UsageError  == 2
SourceError == 3

\* A slip: a code the table of exit codes does not have.
StrangeCode == 5

LocalFsError == 4

RepoNames == UNION { DOMAIN Repo[c] : c \in Commits }

\* _part_count
PartCount(size, c) ==
    IF c = NoChunks \/ size <= c THEN 0 ELSE (size + c - 1) \div c

ASSUME RepoAssumption ==
    /\ \A c \in Commits : DOMAIN Repo[c] \subseteq Names
                          /\ \A n \in DOMAIN Repo[c] : Repo[c][n] \in Contents
    /\ \A n \in RepoNames : \E k \in DOMAIN Order : Order[k] = n
    /\ NoFile \notin Contents /\ NoCommit \notin Commits /\ Bad \in Contents
    /\ FirstDests \subseteq {"none", "dir", "other"}
    /\ FirstKeys \subseteq Keys \cup {Missing, Malformed, Foreign}
    /\ NoKey \notin Keys /\ Keys \cap {Missing, Malformed, Foreign} = {}
    /\ Verifier # Missing
    /\ OneVolume \in BOOLEAN /\ Room \in [staging : Nat, dest : Nat]

ASSUME ChunkAssumption ==
    /\ \A o \in Options : /\ o.chunk \in (Nat \ {0}) \cup {NoChunks}
                          /\ o.sign \in BOOLEAN
    /\ NoChunks \notin Nat
    /\ MAX_PARTS \in Nat /\ MaxParts \in Nat /\ MAX_PARTS < MaxParts

ASSUME BoundAssumption ==
    /\ MaxRuns \in Nat /\ MaxCrashes \in Nat /\ MaxErrors \in Nat
    /\ MaxFaults \in Nat /\ MaxRemovals \in Nat

\* Names has room for every part of a file and the one after them.
ASSUME NamesAssumption ==
    \A c \in Commits, o \in Options : \A n \in DOMAIN Repo[c] :
      LET count == PartCount(Len(Repo[c][n]), o.chunk)
      IN count > 0 => \A k \in 0 .. count : PartName(n, k) \in Names

\* A part's name tells its file and its number, and its suffix keeps a usable
\* path usable (pack.py:58-76).
ASSUME SuffixAssumption ==
    \A m, n \in Names : \A k, l \in 0 .. MAX_PARTS :
      /\ PartName(m, k) = PartName(n, l) => m = n /\ k = l
      /\ m \notin Unsafe => PartName(m, k) \notin Unsafe

\* The hub has finitely many commits, of finitely many files.
ASSUME FiniteAssumption == IsFiniteSet(Names) /\ IsFiniteSet(Commits)

\* Python sorts a name before every name it is a prefix of.
ASSUME OrderAssumption ==
    /\ Order \in Seq(Names)
    /\ \A x, y \in DOMAIN Order :
         /\ Order[x] = Order[y] => x = y
         /\ \A k \in 0 .. MAX_PARTS : Order[y] = PartName(Order[x], k) => x < y

VARIABLES
    dest,      \* what --dest is
    staging,   \* the files under the staging directory of this repository
    bundles,   \* the bundle directory of each commit, see Bundle
    signature, \* manifest.json.sig of each bundle
    page,      \* the manifest that MANIFEST.md of each bundle describes
    made,      \* the bundle directory has contents (payload/ at least)
    secretFile, \* the file MODELFERRY_SIGNING_KEY names
    pc, opt,   \* control and command line of each process
    signer,    \* the key loaded by _make_signer
    commit,    \* the resolved commit
    fetched,   \* the files this run has downloaded
    todo,      \* the rel_files that are not packed yet
    file,      \* the source file being packed
    src,       \* its contents
    linked,    \* the object being written is still under its name
    parts,     \* parts of it that are recorded
    entries,   \* entries collected for the manifest
    man,       \* the manifest this run has serialized
    exit,      \* exit code
    said,      \* what the error message tells the user to do
    undisturbed, \* history: no fault or failing call around this run
    told,      \* history: <<commit, advice>> of runs that said to run pack
               \* again, since when no run succeeded or the directory went
    budget     \* runs, crashes, errors, faults and removals left

shared == <<dest, staging, bundles, signature, page, made, secretFile>>
run    == <<opt, signer, commit, fetched, todo, file, src, linked, parts, entries, man>>
settled == <<dest, staging, signature, page, made, secretFile,
             opt, signer, commit, fetched>>
vars   == <<shared, pc, run, exit, said, undisturbed, told, budget>>

NoBundle == [manifest |-> Missing, sidecar |-> Missing, verifier |-> Missing,
             payload |-> [n \in Names |-> Missing]]

Writing == {"write", "fill", "manifest", "sidecar", "page", "sign", "verify", "sigcheck"}
Running == {"dest", "signer", "resolve", "space", "path", "fetch", "collect", "preflight",
            "recheck", "mkdir"} \cup Writing

Init ==
    /\ dest \in FirstDests
    /\ staging = [n \in Names |-> NoFile]
    /\ bundles = [c \in Commits |-> NoBundle]
    /\ signature = [c \in Commits |-> Missing]
    /\ page = [c \in Commits |-> Missing]
    /\ secretFile \in FirstKeys
    /\ made = [c \in Commits |-> FALSE]
    /\ pc = [p \in Procs |-> "idle"]
    /\ opt \in [Procs -> Options]
    /\ signer = [p \in Procs |-> NoKey]
    /\ commit = [p \in Procs |-> NoCommit]
    /\ fetched = [p \in Procs |-> {}]
    /\ todo = [p \in Procs |-> {}]
    /\ file = [p \in Procs |-> NoFile]
    /\ src = [p \in Procs |-> <<>>]
    /\ linked = [p \in Procs |-> FALSE]
    /\ parts = [p \in Procs |-> <<>>]
    /\ entries = [p \in Procs |-> <<>>]
    /\ man = [p \in Procs |-> Missing]
    /\ exit = [p \in Procs |-> 0]
    /\ said = [p \in Procs |-> "nothing"]
    /\ undisturbed = [p \in Procs |-> TRUE]
    /\ told = {}
    /\ budget = [runs |-> MaxRuns, crashes |-> MaxCrashes, errors |-> MaxErrors,
                 faults |-> MaxFaults, removals |-> MaxRemovals]

Exit(p, code, advice) ==
    /\ pc' = [pc EXCEPT ![p] = "done"]
    /\ exit' = [exit EXCEPT ![p] = code]
    /\ said' = [said EXCEPT ![p] = advice]
    /\ told' = IF advice \in {"re-run-pack", "re-run-pack-to-resume"}
               THEN told \cup {<<commit[p], advice>>}
               ELSE { t \in told : code = 0 => t[1] # commit[p] }

Goto(p, label) ==
    /\ pc' = [pc EXCEPT ![p] = label]
    /\ UNCHANGED <<exit, said, told>>

-----------------------------------------------------------------------------
(* pack(): what is checked before the download. *)
Begin(p) ==
    /\ pc[p] \in {"idle", "done", "crashed"}
    /\ budget.runs > 0
    /\ budget' = [budget EXCEPT !.runs = @ - 1]
    /\ \E o \in Options : opt' = [opt EXCEPT ![p] = o]
    /\ pc' = [pc EXCEPT ![p] = "dest"]
    /\ signer' = [signer EXCEPT ![p] = NoKey]
    /\ commit' = [commit EXCEPT ![p] = NoCommit]
    /\ fetched' = [fetched EXCEPT ![p] = {}]
    /\ todo' = [todo EXCEPT ![p] = {}]
    /\ file' = [file EXCEPT ![p] = NoFile]
    /\ src' = [src EXCEPT ![p] = <<>>]
    /\ linked' = [linked EXCEPT ![p] = FALSE]
    /\ parts' = [parts EXCEPT ![p] = <<>>]
    /\ entries' = [entries EXCEPT ![p] = <<>>]
    /\ man' = [man EXCEPT ![p] = Missing]
    /\ exit' = [exit EXCEPT ![p] = 0]
    /\ said' = [said EXCEPT ![p] = "nothing"]
    /\ undisturbed' = [undisturbed EXCEPT ![p] = TRUE]
    /\ UNCHANGED <<shared, told>>

\* _validate_dest
ValidateDest(p) ==
    /\ pc[p] = "dest"
    /\ IF dest = "other"
       THEN /\ Exit(p, LocalFsError, "choose-a-directory")
            /\ UNCHANGED dest
       ELSE /\ dest' = "dir"
            /\ Goto(p, "signer")
    /\ UNCHANGED <<staging, bundles, signature, page, made, secretFile, run,
                   undisturbed, budget>>

\* _make_signer: the key is read once, here.  That the file is not text is an
\* error nobody catches.
MakeSigner(p) ==
    /\ pc[p] = "signer"
    /\ IF opt[p].sign /\ secretFile \notin Keys
       THEN /\ IF secretFile = Foreign THEN Exit(p, 1, "traceback")
                                      ELSE Exit(p, UsageError, "set-a-key")
            /\ UNCHANGED signer
       ELSE /\ signer' = [signer EXCEPT ![p] = IF opt[p].sign THEN secretFile
                                              ELSE NoKey]
            /\ Goto(p, "resolve")
    /\ UNCHANGED <<shared, opt, commit, fetched, todo, file, src, linked, parts,
                   entries, man, undisturbed, budget>>

\* hf.resolve: the revision is whatever commit the hub says it is now.
Resolve(p) ==
    /\ pc[p] = "resolve"
    /\ \E c \in Commits :
         IF DOMAIN Repo[c] = {}
         THEN /\ Exit(p, SourceError, "widen-the-patterns")
              /\ UNCHANGED commit
         ELSE /\ commit' = [commit EXCEPT ![p] = c]
              /\ Goto(p, "space")
    /\ UNCHANGED <<shared, opt, signer, fetched, todo, file, src, linked, parts,
                   entries, man, undisturbed, budget>>

\* The blocks of the files in the set S of a directory d, and their number.
Stored(d, S) ==
    UNION { {n} \X (1 .. Len(d[n])) : n \in { n \in S : d[n] \in Contents } }

Bytes(d, S) == Cardinality(Stored(d, S))

Staged == Bytes(staging, Names)
Packed == Cardinality(UNION { {c} \X Stored(bundles[c].payload, Names) : c \in Commits })

\* _free_bytes
FreeStaging ==
    IF OneVolume THEN Room.dest - Staged - Packed ELSE Room.staging - Staged
FreeDest == Room.dest - Packed - (IF OneVolume THEN Staged ELSE 0)

\* total_bytes of hf.resolve
TotalBytes(p) == Bytes(Repo[commit[p]], DOMAIN Repo[commit[p]])

EnoughSpace(p) ==
    IF OneVolume THEN FreeDest >= 2 * TotalBytes(p)
    ELSE FreeStaging >= TotalBytes(p) /\ FreeDest >= TotalBytes(p)

\* _check_free_space
CheckSpace(p) ==
    /\ pc[p] = "space"
    /\ IF EnoughSpace(p) THEN Goto(p, "path")
       ELSE Exit(p, LocalFsError, "free-space")
    /\ UNCHANGED <<shared, run, undisturbed, budget>>

\* A slip: the directory is not looked at.
NeverTaken(p) == FALSE

\* _check_bundle_path: the bundle directory has contents.
PathTaken(p) == made[commit[p]]

CheckPath(p) ==
    /\ pc[p] = "path"
    /\ IF PathTaken(p)
       THEN Exit(p, LocalFsError, "remove-it")
       ELSE Goto(p, "fetch")
    /\ UNCHANGED <<shared, run, undisturbed, budget>>

-----------------------------------------------------------------------------
(* hf.download, one file at a time into the staging directory; a file that *)
(* is there already at this commit is the same file.                       *)
Fetch(p) ==
    /\ pc[p] = "fetch"
    /\ LET c == commit[p]
           rest == DOMAIN Repo[c] \ fetched[p]
           after(n) == [staging EXCEPT ![n] = Repo[c][n]]
       IN \/ /\ rest = {}
             /\ Goto(p, "collect")
             /\ UNCHANGED <<staging, fetched>>
          \/ \E n \in rest :
               IF Bytes(after(n), Names) - Staged > FreeStaging
               THEN /\ Exit(p, SourceError, "re-run-pack-to-resume")
                    /\ UNCHANGED <<staging, fetched>>
               ELSE /\ staging' = after(n)
                    /\ fetched' = [fetched EXCEPT ![p] = @ \cup {n}]
                    /\ UNCHANGED <<pc, exit, said, told>>
    /\ UNCHANGED <<dest, bundles, signature, page, made, secretFile, opt, signer,
                   commit, todo, file, src, linked, parts, entries, man,
                   undisturbed, budget>>

\* The wanted files that are there.
Collect(p) ==
    /\ pc[p] = "collect"
    /\ LET there == { n \in DOMAIN Repo[commit[p]] : staging[n] # NoFile }
       IN IF there = {}
          THEN /\ Exit(p, SourceError, "nothing-was-downloaded")
               /\ UNCHANGED todo
          ELSE /\ todo' = [todo EXCEPT ![p] = there]
               /\ Goto(p, "preflight")
    /\ UNCHANGED <<shared, opt, signer, commit, fetched, file, src, linked, parts,
                   entries, man, undisturbed, budget>>

\* The payload paths of a file of this size.
Planned(n, size, c) ==
    IF PartCount(size, c) = 0 THEN {n}
    ELSE { PartName(n, k) : k \in 0 .. PartCount(size, c) - 1 }

Collision(S, c) ==
    \E m, n \in S : m # n /\ Planned(m, Len(staging[m]), c)
                             \cap Planned(n, Len(staging[n]), c) # {}

\* preflight: the layout of the payload is refused.
Preflight(p) ==
    /\ pc[p] = "preflight"
    /\ LET S == todo[p]
           c == opt[p].chunk
       IN IF \/ \E n \in S : n \in Unsafe \cup Reserved
             \/ \E n \in S : PartCount(Len(staging[n]), c) > MAX_PARTS
             \/ Collision(S, c)
          THEN Exit(p, UsageError, "exclude-it")
          ELSE Goto(p, "recheck")
    /\ UNCHANGED <<shared, run, undisturbed, budget>>

-----------------------------------------------------------------------------
(* write_bundle.  Looking at the bundle directory and creating it are two  *)
(* steps.                                                                  *)
Recheck(p) ==
    /\ pc[p] = "recheck"
    /\ IF PathTaken(p)
       THEN Exit(p, LocalFsError, "remove-it")
       ELSE Goto(p, "mkdir")
    /\ UNCHANGED <<shared, run, undisturbed, budget>>

MakeDirs(p) ==
    /\ pc[p] = "mkdir"
    /\ made' = [made EXCEPT ![commit[p]] = TRUE]
    /\ Goto(p, "write")
    /\ UNCHANGED <<dest, staging, bundles, signature, page, secretFile, run,
                   undisturbed, budget>>

Chunked(p) == PartCount(Len(src[p]), opt[p].chunk) > 0

\* The payload path being written.
Object(p) == IF Chunked(p) THEN PartName(file[p], Len(parts[p])) ELSE file[p]

\* A slip: one block short at the end of the file.
ShortSegment(p) ==
    IF ~ Chunked(p) THEN src[p]
    ELSE LET c == opt[p].chunk
             k == Len(parts[p])
         IN SubSeq(src[p], k * c + 1,
                   IF (k + 1) * c < Len(src[p]) THEN (k + 1) * c ELSE Len(src[p]) - 1)

\* What goes into it: the whole file, or the next chunk of it, if any is left.
Segment(p) ==
    IF ~ Chunked(p) THEN src[p]
    ELSE LET c == opt[p].chunk
             k == Len(parts[p])
         IN SubSeq(src[p], k * c + 1,
                   IF (k + 1) * c < Len(src[p]) THEN (k + 1) * c ELSE Len(src[p]))

\* The payload of bundle c with the name n created or truncated.
Created(c, n) == [bundles EXCEPT ![c].payload[n] = <<>>]

\* Contents s written from the start of a file that holds old.
Over(old, s) ==
    IF old \in Contents /\ Len(old) > Len(s)
    THEN s \o SubSeq(old, Len(s) + 1, Len(old)) ELSE s

\* The bundles once p has written s to its object, if it is still there.
Filled(p, s) ==
    IF linked[p]
    THEN [bundles EXCEPT ![commit[p]].payload[Object(p)] = Over(@, s)]
    ELSE bundles

\* A slip: the files are taken in the reverse order.
Backwards(m, n) ==
    \E j, k \in DOMAIN Order : j > k /\ Order[j] = m /\ Order[k] = n

\* sorted(): m is packed before n.
Before(m, n) ==
    \E j, k \in DOMAIN Order : j < k /\ Order[j] = m /\ Order[k] = n

\* _write_one opens the next source file and its first object.
OpenFile(p) ==
    /\ pc[p] = "write"
    /\ \E n \in todo[p] :
         /\ \A other \in todo[p] \ {n} : Before(n, other)
         /\ LET s == staging[n]
                first == IF PartCount(Len(s), opt[p].chunk) > 0
                         THEN PartName(n, 0) ELSE n
            IN /\ file' = [file EXCEPT ![p] = n]
               /\ src' = [src EXCEPT ![p] = s]
               /\ parts' = [parts EXCEPT ![p] = <<>>]
               /\ bundles' = Created(commit[p], first)
               /\ linked' = [linked EXCEPT ![p] = TRUE]
               /\ Goto(p, "fill")
    /\ UNCHANGED <<settled, todo, entries, man, undisturbed, budget>>

\* A slip: the file is taken once more.
Again(p, list) ==
    /\ parts' = [parts EXCEPT ![p] = <<>>]
    /\ Goto(p, "write")
    /\ UNCHANGED <<entries, todo>>

\* _write_one returns: the entry is complete.
Finish(p, list) ==
    /\ entries' = [entries EXCEPT ![p] =
                     Append(@, [path |-> file[p], sha |-> src[p], parts |-> list])]
    /\ todo' = [todo EXCEPT ![p] = @ \ {file[p]}]
    /\ parts' = [parts EXCEPT ![p] = <<>>]
    /\ Goto(p, "write")

\* One object that is not the empty trailing part is filled; a full part makes
\* way for the next one.
Fill(p) ==
    /\ pc[p] = "fill"
    /\ ~ Chunked(p) \/ Segment(p) # <<>>
    /\ LET seg  == Segment(p)
           list == Append(parts[p], [path |-> Object(p), sha |-> seg])
           full == Chunked(p) /\ Len(seg) = opt[p].chunk
           next == PartName(file[p], Len(list))
           room == Len(seg) <= FreeDest
       IN \/ /\ ~ room
             /\ Exit(p, LocalFsError, "re-run")
             /\ UNCHANGED <<bundles, linked, parts, entries, todo>>
          \/ /\ room /\ full
             /\ bundles' =
                  [Filled(p, seg) EXCEPT ![commit[p]].payload[next] = <<>>]
             /\ linked' = [linked EXCEPT ![p] = TRUE]
             /\ parts' = [parts EXCEPT ![p] = list]
             /\ UNCHANGED <<entries, todo, pc, exit, said, told>>
          \/ /\ room /\ ~ full
             /\ bundles' = Filled(p, seg)
             /\ Finish(p, IF Chunked(p) THEN list ELSE <<>>)
             /\ UNCHANGED linked
    /\ UNCHANGED <<settled, file, src, man, undisturbed, budget>>

\* os.remove of the trailing part's file
WithoutTrailing(p) == [bundles EXCEPT ![commit[p]].payload[Object(p)] = Missing]

(* The file was a whole number of chunks: the trailing part is removed, and *)
(* that fails if another run has removed it first.                          *)
DropTrailing(p) ==
    /\ pc[p] = "fill"
    /\ Chunked(p) /\ Segment(p) = <<>>
    /\ IF bundles[commit[p]].payload[Object(p)] = Missing
       THEN /\ Exit(p, LocalFsError, "re-run")
            /\ UNCHANGED <<bundles, linked, entries, todo, parts>>
       ELSE /\ bundles' = WithoutTrailing(p)
            /\ linked' = [q \in Procs |->
                 linked[q] /\ ~ (/\ pc[q] = "fill" /\ commit[q] = commit[p]
                                 /\ Object(q) = Object(p))]
            /\ Finish(p, parts[p])
    /\ UNCHANGED <<settled, file, src, man, undisturbed, budget>>

\* _install_verifier, once every file is packed
InstallVerifier(p) ==
    /\ pc[p] = "write"
    /\ todo[p] = {}
    /\ bundles' = [bundles EXCEPT ![commit[p]].verifier = Verifier]
    /\ Goto(p, "manifest")
    /\ UNCHANGED <<dest, staging, signature, page, made, secretFile, run,
                   undisturbed, budget>>

\* The hash of the verifier is that of the copy, read back.
Manifest(p, now) == [files |-> entries[p], verifier |-> bundles[commit[p]].verifier,
                     source |-> commit[p], created |-> now,
                     signing |-> IF signer[p] = NoKey THEN Unsigned
                                 ELSE KeyId[signer[p]]]

WriteManifest(p) ==
    /\ pc[p] = "manifest"
    /\ IF bundles[commit[p]].verifier = Missing
       THEN /\ Exit(p, LocalFsError, "re-run")
            /\ UNCHANGED <<man, bundles>>
       ELSE /\ \E now \in Clock :
                 /\ man' = [man EXCEPT ![p] = Manifest(p, now)]
                 /\ bundles' =
                      [bundles EXCEPT ![commit[p]].manifest = Manifest(p, now)]
            /\ Goto(p, "sidecar")
    /\ UNCHANGED <<settled, todo, file, src, linked, parts, entries, undisturbed,
                   budget>>

WriteSidecar(p) ==
    /\ pc[p] = "sidecar"
    /\ bundles' = [bundles EXCEPT ![commit[p]].sidecar = man[p]]
    /\ Goto(p, "page")
    /\ UNCHANGED <<dest, staging, signature, page, made, secretFile, run,
                   undisturbed, budget>>

\* MANIFEST.md, from the manifest in memory
WritePage(p) ==
    /\ pc[p] = "page"
    /\ page' = [page EXCEPT ![commit[p]] = man[p]]
    /\ Goto(p, IF signer[p] # NoKey THEN "sign" ELSE "verify")
    /\ UNCHANGED <<dest, staging, bundles, signature, made, secretFile, run,
                   undisturbed, budget>>

\* Slip: the key file is read again to sign.
KeyOnFile(p) == IF secretFile \in Keys THEN secretFile ELSE signer[p]

SigningKey(p) == signer[p]

Sign(p) ==
    /\ pc[p] = "sign"
    /\ signature' =
         [signature EXCEPT ![commit[p]] = Signature(SigningKey(p), man[p])]
    /\ Goto(p, "verify")
    /\ UNCHANGED <<dest, staging, bundles, page, made, secretFile, run,
                   undisturbed, budget>>

\* cmd_verify raises an error of its own, which neither pack nor cli.py catches.
VerifyRaises(b) ==
    IsManifest(b.manifest) =>
      \/ \E k \in DOMAIN b.manifest.files : ~ SafeEntry(b.manifest.files[k])
      \/ \E x, y \in Positions(b.manifest) :
           x # y /\ ObjectAt(b.manifest, x).path = ObjectAt(b.manifest, y).path

\* A slip: the result of the self-check is not looked at.
Trusting(b) == TRUE

Passes(b) == Intact(b)

SelfVerify(p) ==
    /\ pc[p] = "verify"
    /\ LET b == bundles[commit[p]]
           failed == ~ VerifyRaises(b) /\ ~ Passes(b)
           passed == ~ VerifyRaises(b) /\ Passes(b)
       IN \/ VerifyRaises(b) /\ Exit(p, 1, "traceback")
          \/ failed /\ Exit(p, LocalFsError, "re-run-pack")
          \/ passed /\ signer[p] # NoKey /\ Goto(p, "sigcheck")
          \/ passed /\ signer[p] = NoKey /\ Exit(p, 0, "nothing")
    /\ UNCHANGED <<shared, run, undisturbed, budget>>

\* A slip: the manifest in memory is checked, not the one on the media.
InMemory(p) == man[p]

ReadBack(p) == bundles[commit[p]].manifest

\* verify_bundle_signature with the signer's own public key
CheckSignature(p) ==
    /\ pc[p] = "sigcheck"
    /\ LET v == Verdict(ReadBack(p), signature[commit[p]], signer[p])
       IN \/ v = "VALID" /\ Exit(p, 0, "nothing")
          \/ v = "RAISED" /\ Exit(p, 1, "traceback")
          \/ v \notin {"VALID", "RAISED"} /\ Exit(p, LocalFsError, "re-run-pack")
    /\ UNCHANGED <<shared, run, undisturbed, budget>>

-----------------------------------------------------------------------------
(* What may go wrong. *)

(* A call fails: of the hub with exit code 3, of the filesystem with 4.     *)
(* Reading the key is _make_signer's error; a signature that cannot be read *)
(* fails the self-check.                                                    *)
CallFails(p) ==
    /\ pc[p] \in Running
    /\ budget.errors > 0
    /\ budget' = [budget EXCEPT !.errors = @ - 1]
    /\ undisturbed' = [undisturbed EXCEPT ![p] = FALSE]
    /\ \/ pc[p] = "signer" /\ opt[p].sign /\ Exit(p, UsageError, "set-a-key")
       \/ pc[p] = "resolve" /\ Exit(p, SourceError, "check-the-network")
       \/ pc[p] = "fetch" /\ Exit(p, SourceError, "re-run-pack-to-resume")
       \/ pc[p] = "sigcheck" /\ Exit(p, LocalFsError, "re-run-pack")
       \/ /\ pc[p] \notin {"signer", "resolve", "fetch", "sigcheck"}
          /\ Exit(p, LocalFsError, "re-run")
    /\ UNCHANGED <<shared, run>>

Crash(p) ==
    /\ pc[p] \in Running
    /\ budget.crashes > 0
    /\ budget' = [budget EXCEPT !.crashes = @ - 1]
    /\ pc' = [pc EXCEPT ![p] = "crashed"]
    /\ UNCHANGED <<shared, run, exit, said, undisturbed, told>>

\* What was written to the media is not what it holds when it is read back.
DiskFault(p) ==
    /\ pc[p] \in Writing \ {"sigcheck"}
    /\ budget.faults > 0
    /\ budget' = [budget EXCEPT !.faults = @ - 1]
    /\ undisturbed' = [q \in Procs |-> FALSE]
    /\ LET c == commit[p]
       IN \/ \E n \in Names :
               /\ bundles[c].payload[n] # Missing
               /\ bundles' = [bundles EXCEPT ![c].payload[n] = Bad]
               /\ UNCHANGED signature
          \/ /\ bundles[c].manifest # Missing
             /\ bundles' = [bundles EXCEPT ![c].manifest = Malformed]
             /\ UNCHANGED signature
          \/ /\ bundles[c].verifier # Missing
             /\ \E tool \in {Missing, Bad} :
                  bundles' = [bundles EXCEPT ![c].verifier = tool]
             /\ UNCHANGED signature
          \/ /\ signature[c] # Missing
             /\ \E bytes \in {Garbled, Cut} :
                  signature' = [signature EXCEPT ![c] = bytes]
             /\ UNCHANGED bundles
    /\ UNCHANGED <<dest, staging, page, made, secretFile, pc, run, exit, said, told>>

\* The operator removes a bundle directory no run is busy with.
RemoveBundle(c) ==
    /\ budget.removals > 0
    /\ made[c]
    /\ \A p \in Procs : commit[p] = c => pc[p] \notin Running
    /\ budget' = [budget EXCEPT !.removals = @ - 1]
    /\ bundles' = [bundles EXCEPT ![c] = NoBundle]
    /\ signature' = [signature EXCEPT ![c] = Missing]
    /\ page' = [page EXCEPT ![c] = Missing]
    /\ made' = [made EXCEPT ![c] = FALSE]
    /\ told' = told \ {<<c, "re-run-pack">>}
    /\ UNCHANGED <<dest, staging, secretFile, pc, run, exit, said, undisturbed>>

Step(p) ==
    \/ ValidateDest(p) \/ MakeSigner(p) \/ Resolve(p) \/ CheckSpace(p)
    \/ CheckPath(p) \/ Fetch(p) \/ Collect(p) \/ Preflight(p) \/ Recheck(p) \/ MakeDirs(p)
    \/ OpenFile(p) \/ Fill(p) \/ DropTrailing(p)
    \/ InstallVerifier(p) \/ WriteManifest(p) \/ WriteSidecar(p)
    \/ WritePage(p) \/ Sign(p)
    \/ SelfVerify(p) \/ CheckSignature(p)

Next ==
    \/ \E p \in Procs :
         Begin(p) \/ Step(p) \/ CallFails(p) \/ Crash(p) \/ DiskFault(p)
    \/ \E c \in Commits : RemoveBundle(c)

Spec == Init /\ [][Next]_vars

\* A command that was started keeps running until it ends or is killed.
Fairness == \A p \in Procs : WF_vars(Step(p))
FairSpec == Spec /\ Fairness

-----------------------------------------------------------------------------
(* Properties *)

PartType     == [path : Names, sha : Contents]
EntryType    == [path : Names, sha : Contents, parts : Seq(PartType)]
ManifestType == [files : Seq(EntryType), verifier : {Verifier, Bad},
                 source : Commits, created : Clock,
                 signing : {Unsigned} \cup { KeyId[k] : k \in Keys }]
BundleType   == [manifest : ManifestType \cup {Missing, Malformed},
                 sidecar : ManifestType \cup {Missing},
                 verifier : {Verifier, Bad, Missing},
                 payload : [Names -> Contents \cup {Missing}]]
Files == [Names -> Contents \cup {NoFile}]

\* What stands for nothing, or for garbage, is not contents or a file.
ASSUME NothingAssumption ==
    /\ Missing \notin Contents
    /\ \A none \in {Missing, Malformed} : none \notin ManifestType
    /\ \A none \in {Missing, Unreadable, Cut} : none \notin [key : Keys, over : ManifestType]

Advices == {"nothing", "choose-a-directory", "set-a-key", "widen-the-patterns",
            "nothing-was-downloaded", "exclude-it", "remove-it", "free-space",
            "re-run-pack", "traceback", "check-the-network", "re-run",
            "re-run-pack-to-resume"}

TypeOK ==
    /\ dest \in {"none", "dir", "other"}
    /\ staging \in Files
    /\ bundles \in [Commits -> BundleType]
    /\ signature \in [Commits -> [key : Keys, over : ManifestType]
                                  \cup {Missing, Garbled, Cut}]
    /\ page \in [Commits -> ManifestType \cup {Missing}]
    /\ secretFile \in Keys \cup {Missing, Malformed, Foreign}
    /\ made \in [Commits -> BOOLEAN]
    /\ pc \in [Procs -> Running \cup {"idle", "done", "crashed"}]
    /\ opt \in [Procs -> Options]
    /\ signer \in [Procs -> Keys \cup {NoKey}]
    /\ commit \in [Procs -> Commits \cup {NoCommit}]
    /\ fetched \in [Procs -> SUBSET Names]
    /\ todo \in [Procs -> SUBSET Names]
    /\ file \in [Procs -> Names \cup {NoFile}]
    /\ src \in [Procs -> Contents]
    /\ linked \in [Procs -> BOOLEAN]
    /\ parts \in [Procs -> Seq(PartType)]
    /\ entries \in [Procs -> Seq(EntryType)]
    /\ man \in [Procs -> ManifestType \cup {Missing}]
    /\ exit \in [Procs -> 0 .. 4]
    /\ said \in [Procs -> Advices]
    /\ undisturbed \in [Procs -> BOOLEAN]
    /\ told \subseteq Commits \X {"re-run-pack", "re-run-pack-to-resume"}
    /\ budget \in [runs : Nat, crashes : Nat, errors : Nat, faults : Nat,
                   removals : Nat]

Ended(p, code) == pc[p] = "done" /\ exit[p] = code

\* m declares exactly the files of commit c, each with its contents.
DeclaresCommit(m, c) ==
    /\ { m.files[k].path : k \in DOMAIN m.files } = DOMAIN Repo[c]
    /\ \A k \in DOMAIN m.files : m.files[k].sha = Repo[c][m.files[k].path]

(* At no moment, between any two writes of a run, after a crash or a disk   *)
(* fault anywhere, does a bundle pass verify without being the whole model: *)
(* the manifest and its sidecar come after all they declare                 *)
(* (pack.py:278-304).                                                       *)
IntactMeansComplete ==
    \A c \in Commits : Intact(bundles[c]) =>
      /\ DeclaresCommit(bundles[c].manifest, c)
      /\ HashesAgree(bundles[c].manifest)

(* Exit code 0 of pack: the bundle on the media passes verify, it is the    *)
(* commit that was resolved, and if a signature was asked for it is valid   *)
(* for the key of this run, whatever the disk did to the files meanwhile    *)
(* (pack.py:313-328).                                                       *)
SuccessIsVerified ==
    \A p \in Procs : Ended(p, 0) /\ made[commit[p]] =>
      LET b == bundles[commit[p]]
      IN /\ Intact(b)
         /\ b.manifest.source = commit[p]
         /\ opt[p].sign =>
              /\ signature[commit[p]] = Signature(signer[p], b.manifest)
              /\ b.manifest.signing = KeyId[signer[p]]

(* The checks made beforehand and the writer agree, with each other and     *)
(* with the offline verifier: a run that nothing disturbs is refused before *)
(* it writes or succeeds.  Two files that end up on one payload path, a     *)
(* trailing part that hits the file of that name, a volume that was found   *)
(* large enough and fills up, a self-check that rejects what the writer     *)
(* wrote would show here (pack.py:89-119, 176-179, 265, 384-416).  The      *)
(* exception is a key file that is not text (signing.py:91).                *)
OnlyRefusals ==
    \A p \in Procs : pc[p] = "done" /\ undisturbed[p] =>
      \/ exit[p] \in {0, 2}
      \/ said[p] \in {"widen-the-patterns", "remove-it", "choose-a-directory",
                     "free-space"}
      \/ opt[p].sign /\ secretFile = Foreign

(* A bundle that passes verify is never written to again, by a later run    *)
(* of the same commit neither: only disk faults and the operator touch it   *)
(* (pack.py:433-437).                                                       *)
IntactBundleKept ==
    [][\A c \in Commits : Intact(bundles[c]) =>
         \/ bundles'[c] = bundles[c]
         \/ ~ made'[c]
         \/ budget'.faults < budget.faults]_vars

(* Runs of pack for one commit may all find the bundle directory empty and  *)
(* write through each other; a run whose self-check was passed may find its *)
(* bundle overwritten afterwards.  But when every one of them has reported  *)
(* success the bundle is intact: the self-check comes after all that a run  *)
(* writes, so the last to write has read what all wrote                     *)
(* (pack.py:273-283, 299-317).                                              *)
UnanimousSuccess ==
    \A c \in Commits :
      /\ \A p \in Procs : Ended(p, 0) /\ commit[p] = c /\ undisturbed[p]
      /\ made[c]
      => Intact(bundles[c])

(* A pack that is started ends unless it is killed: the loops over files to *)
(* fetch, files to pack and chunks of a file advance, whatever fails        *)
(* (hf.py:135-149, pack.py:153-183, 278-282).                               *)
Terminates == \A p \in Procs : pc[p] \in Running ~> pc[p] \notin Running

(* pack.py:313-328 say "Re-run pack." when a self-check fails, hf.py:146-149 *)
(* "re-run pack to resume" when the download fails: the re-run is not        *)
(* refused because of what that very run left behind, in --dest or staging.  *)
AdviceWorks ==
    \A p \in Procs : pc[p] = "done" =>
      /\ said[p] = "remove-it" => <<commit[p], "re-run-pack">> \notin told
      /\ said[p] = "free-space" => <<commit[p], "re-run-pack-to-resume">> \notin told

(* SPEC.md:231: "No bare tracebacks for anticipated failures"; what the     *)
(* read-back self-check finds (SPEC.md:208) is one.                         *)
NoTraceback == \A p \in Procs : said[p] # "traceback"

(* SPEC.md:47: "downloads at that SHA.  The manifest records both": the     *)
(* files of a bundle are those of the commit its manifest names.            *)
CommitPinned ==
    \A p \in Procs : Ended(p, 0) /\ made[commit[p]] =>
      DeclaresCommit(bundles[commit[p]].manifest, commit[p])
=============================================================================
