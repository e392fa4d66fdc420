# A TLA+ model of modelferry

modelferry carries a Hugging Face model into a network without a connection.
On the connected side `modelferry pack` resolves a revision to a commit,
downloads it, and writes a *bundle* to removable media: the files, those larger
than `--chunk-size` split into parts, a manifest with a hash for every object,
and a copy of the one-file program that checks it. On the disconnected side
that program, `tools/modelferry_offline.py`, verifies the bundle and unpacks it.

This directory models both sides, the arithmetic of splitting, the signatures,
and the way of a bundle from one side to the other. TLC checks small instances;
TLAPS proves the main results for the reader, the splitter, pack, the signatures
and the transfer for every value of the constants. Paths below are relative to
`src/src/modelferry/` unless they name a document (`SPEC.md`, `README.md`).

## The system

| Component | State it keeps | Operations | What makes it correct |
|---|---|---|---|
| Offline reader (`offline.py`) | destination directory with its `.mftmp` files and receipt; loop cursors, hash state, list of failures | `verify`, `unpack` (`--no-verify`, `--force`), `inspect` | the verdict is exactly "as declared"; a name that is no temporary name never holds a partial file; exit 0 means a complete tree; a forced re-run gets through |
| Path safety (`offline.py:93-164`, `pack.py:66-86`) | none | `_safe_rel`, `_safe_join`, `_part_rel`, `_check_repo_path` | both sides refuse the same paths; a part lies beside its file |
| Splitter (`pack.py:52-55, 122-209`) | current buffer, open part, hashes, entries | `_write_one`, `_copy_whole`, `_split_into_parts`, `_part_count` | parts tile the file; disk and manifest agree; the count is what pre-flight said |
| Bundle writer and pack command (`pack.py`, `cli.py`, `errors.py`) | bundle directory on the media | `pack`, `write_bundle`, `preflight`, read-back self-checks | no bundle verifies unless it is the whole model; what can be refused is refused before the download; exit 0 was read back |
| Hub client (`hf.py`) | staging directory | `resolve`, `download` | the files of a bundle are those of the commit it names |
| Free-space check (`pack.py:364-416`) | none | `_check_free_space` | a run that passed it does not fill a volume that nobody else uses |
| Manifest (`manifest.py`) | none | `build_manifest`, `serialize`, `sidecar_text`, `render_manifest_md` | records what was written; signing block present iff signed; the page shows the checksum of what is on the media |
| Signing (`signing.py`) | secret and public key file, the key in memory | `Ed25519Signer`, `generate_keypair` | block and signature come from one key, the one read before the download |
| Signature verification (`verify_signature.py`, `cli.py:125-152`) | none | `load_public_key`, `verify_bundle_signature` | exit 0 only for a manifest signed with the trusted key; a bundle that signed packs called good passes |
| Transfer across the gap (`README.md:95-113, 199-207`) | approved `MANIFEST.md`, the media | approve, copy, `inspect`, `unpack` | what is delivered is a whole commit, and the approved one if the checksum was compared |

**Interaction.** `pack` calls `hf.resolve`, checks space and the bundle path,
calls `hf.download` and then `write_bundle`, which splits and copies each file,
writes manifest, sidecar, page and signature, and at last calls the offline
reader's own `cmd_verify` on the result and, when signing,
`verify_bundle_signature`. The operator replaces key files with
`generate_keypair` and checks bundles with `verify-signature` at any time. The
two sides share nothing: the bundle directory is the message between
them, and the approved `MANIFEST.md` travels apart from it. Two processes on one side meet in
shared directories without any lock: two packs in the staging directory and in
`--dest`, two unpacks in the destination directory, a pack or a signature
check and a key generation in the key files.

**What is hard here**: media that changes between two reads or reads back
differently from what was written; a kill between any two writes and a later
run into what it left; two processes in one directory; files that belong
together (manifest, sidecar, signature, key pair) and are written and read one
by one; bundles copied half-way or over another; the boundary arithmetic
of the splitter and of the free space; and advice in error messages that the
state left behind may defeat. `PROJECT.json` lists each of these hazards at its
line, with the property that covers it or the reason why none does.

## Modules

    Bundle            what a bundle is, what the reader reads out of a manifest
      OfflineReader   verify and unpack, with crashes and changing media
        OfflineReaderSafety   type invariant, final files, exit 0, temporary files
          OfflineReaderVerdict  the verdict of verify, forced re-runs, unpacks at a time
        MCOfflineReader       instances
      Authenticity    verdicts of verify_signature.py
        Pack          pack() with hub, staging, space, write_bundle, self-checks
          PackProofs          type invariant
            PackSafety        the bundle: complete, verified, kept
              PackWriter      what an undisturbed run cannot fail at
          MCPack              instances
        VerifySignature       verify-signature, read by read
      Approval        Pack with Signing and VerifySignature
        ApprovalProofs        what VALID means, and when it is reported (with PackSafety)
        MCApproval            instance
      Ferry           Pack, media, OfflineReader with inspect; implements Transfer
        FerryProofs           packed bundles unpack; implements Transfer
        MCFerry               instance
    Signing           generate_keypair, write by write
    Transfer          what the whole promises (abstract)
    PartPlan          what splitting a file promises (abstract)
    SplitFile         _write_one buffer by buffer; implements PartPlan
      SplitFileProofs         tiling, disk, prediction, refinement
      MCSplitFile             instance

Operators with the comment "A slip" are not part of any specification. Each is
a plausible mistake in place of the definition that follows it, and
`PROJECT.json` pairs it with a property: with the slip in its place TLC finds
that property violated, so no property here holds whatever the code does.

### Bundle

Contents are sequences of blocks, and the hash of some contents is represented
by the contents themselves (SHA-256 is taken to have no collisions). A name is a sequence, so
that `PartName(<<"m">>, 1)`, `m.mfpart0001`, can also be the literal name of a
repository file. `Intact(b)` is the declarative meaning of `verify`: manifest
and sidecar agree, the verifier is the one shipped, every object is there once
with its declared contents, and nothing else is under `payload/`. The reader's
own `Verifies(b)` adds that every object has the size that the manifest declares
beside its hash, which a foreign manifest need not get right. That the
loop in `OfflineReader` computes `Verifies` is checked and proved
(`VerdictExact`); `Pack`, which takes size and hash from the same bytes, uses
`Intact` as the result of the self-check. `HashesAgree` says that the
parts of every split file cut its contents into consecutive pieces
(`PartsJoin`).

### OfflineReader

| State | Code |
|---|---|
| `bundle` | the directory on the media, which the environment may change |
| `final`, `destKind` | `DEST_DIR`: what each name holds, whether it exists |
| `man`, `vman` | the two manifests `cmd_unpack` and `cmd_verify` load (434, 306) |
| `clean`, `seen` | `failures`, and the `seen` set of `_iter_objects` |
| `i`, `j` | position in `payload.files` and in its parts |
| `buf`, `out` | what the hash of `_join_file` has been fed; the name that the open file has now, if any |
| `exit`, `pc`, `opt` | exit code, control, command line |
| `undisturbed`, `budget` | history and bounds, no code |

One step is one object verified, one object copied, one `os.replace`, one open
or write of the receipt. `Crash` is a kill and keeps all that is on the disk.
`LocalError` is an `OSError` at any point. One inside the `try` of `_join_file`
(`InTry`, a failing `open` of the temporary file included) goes through its
`finally` clause, which removes `<file>.mftmp` whoever made it (`RemoveTemp`);
that `os.remove` may itself fail and leave the file (`RemovalFails`, at most
`MaxStuck` times).

The destination has one namespace (`Places`): the names of the model and, for
each, its temporary name. The reader does not refuse a manifest that declares
`a.mftmp` as a file of its own, and then the same name serves both purposes:
joining `a` truncates and renames an installed `a.mftmp`. Inodes are modelled as
far as they matter: after `os.replace` or `os.remove` by one process, another
that has the same `.mftmp` open goes on writing to the renamed or unlinked
file (`out`).

`ChangeMedia` lets a payload name decay (missing, a link, unreadable, other
contents), destroys manifest, sidecar or verifier, or swaps the whole bundle. A
sidecar or manifest is missing, or `Malformed`: a sidecar that is not UTF-8 ends
the program with a traceback, exit 1. `ManifestType`, the manifests there may be,
is a constant: a finite set in the runs, the manifests pack writes in `Ferry`.
Which objects are declared with a size that is not that of their hash is the
constant `Missized`, and `Astray` is a verifier whose path `_safe_join` rejects.

### SplitFile and PartPlan

The source file is its length: the bytes at an offset *are* the offset, so a
stretch of source and its hash are `Range(first, bytes)`, and `gaps` counts the
places where something written is not one stretch. One step reads one buffer or
feeds one segment. `Resize` changes the length at any time between
`os.path.getsize` and the last read. `PartPlan` is the promise without buffers,
offsets and the part that is opened and then removed: full chunks one after the
other, then the rest. `SplitFile` implements it under the mapping that keeps
`parts` and calls a split closed when the writer is done.

### Pack

One model repository; a bundle directory is identified by its commit, as its
name is. `staging` is shared by all processes. `made` says that the bundle
directory has contents, which is all `_check_bundle_path` looks at. The
steps follow `pack()` and `write_bundle` call by call; `Recheck` and `MakeDirs`
are two steps because `os.listdir` and `os.makedirs` are. Part files are opened
and filled in separate steps, and the empty trailing part is opened and removed
in two, because a repository file may have its name; `linked` says whether the
file a process has open is still under its name. `created` in the manifest is
the clock, so two runs write different manifests.

Space is counted in blocks: what is free is the volume less the files under
staging and all payloads, on one volume or on two (`OneVolume`, `Room`). The
blocks of a directory are a set of positions, the names with the numbers of
their blocks (`Stored`), and what they take is its cardinality (`Bytes`).
`CheckSpace` is `_check_free_space`; `Fetch` and `Fill` fail when a volume is
full. `signer` is the key that `_make_signer` read, `secretFile` the file as it
is now. `page` is the manifest that `MANIFEST.md` describes.

`CallFails` is a failing call of the hub or the filesystem at any step,
`DiskFault` changes payload, manifest, verifier or signature on the media while
a run is writing. The verifier is copied and then hashed from the copy, in two
steps, so a fault between them enters the manifest.
A key file that is not text (`Foreign`) ends pack with a traceback, exit 1. `todo` holds the files still to be packed, of which the one
that sorts first is next (`Before`), `file` the one at work. `said` records what the message asks the user to do, `told`
the commits for which a run said to run pack again, since when no run has
succeeded and the directory was not removed.

### Authenticity, Signing, VerifySignature and Approval

A key pair is one value, `KeyId` its fingerprint (`signing.py`'s
`public_key_id`; two keys may share one in the proofs, not in the run). A
signature is a pair of a key and a manifest. `Claim` is the verdict as far as
it rests on the manifest alone, `Check` the rest; a file that does not have 64
bytes makes the library raise an error that nobody catches, and a public key
file that is not text makes `load_public_key` raise another (`RAISED`, exit 1).

`Signing` writes two files in place, each truncated and then written, and may
be killed in between. `VerifySignature` reads key, manifest and signature in
three steps. `Approval` lets them and any number of packs interleave; the
variables that two of them share (`secretFile`, `bundles`, `signature`) keep
their names. Its history variable `signings` records every key and manifest a
pack has signed, `calm` that nothing a signature check reads has changed since
it began.

### Ferry and Transfer

`Ferry` joins `Pack` and an instance of `OfflineReader` whose media is
`inserted`, any bundle of pack's type. `Carry` copies a bundle directory, at any
moment and in any state, to fresh media, or over what is there and then perhaps
without one of its files. To the reader a copy is a `ChangeMedia`, so that all
that is proved of the reader holds in `Ferry`: copies are counted in the
reader's budget of changes (`MaxCarries`), inspections in `looks`. `Approve`,
part of every step of a pack, keeps the page of each bundle that is reported. `Inspect` shows the checksum of the manifest on the media, or
fails; `vouched` is the one shown before the command that runs now, with the
media unchanged since.

`Transfer` knows no media, manifests or parts: sessions put whole files of some
commit into a directory, and a session that reports success has a complete
commit there at that moment. Under the mapping of `T` in `Ferry`, `tree` is the
destination at `ModelNames`, `working` the commands that run, and
`delivered` the commit in the manifest of an unpack that ended with 0. Every
step of the packs, the media and the verifier is a stutter there, the
`os.replace` of a file is `Install`, and the end of a command `Deliver` or
`GiveUp`.

`ModelNames` leaves out what unpack uses itself (`OwnNames`): the receipt's name
and, where pack lets one through, temporary names. A repository may have a file
of the receipt's name. Pack does not refuse it, and unpack overwrites it with the
receipt and exits 0, as `MCReaderOwnNames` shows. So `Transfer`
promises the files of a commit but for that one (`Model`). `MCFerry` has such a
commit, and the theorems of `FerryProofs` cover it.

## Runs

Bounds are constants of each `.cfg`. Deadlock is not checked: every command
ends, and a model in which the budget of runs is used up has nothing to do.

| Run | What it checks | Bounds, and why they are enough |
|---|---|---|
| `MCReaderMixed` | `TypeOK`, `VerdictExact`, `FinalFilesWhole`, `CompleteOnSuccess`, `Terminates` over ten kinds of bundle | one process, 2 runs, 1 change, 1 error, 1 `os.remove` that fails. The manifests: good, empty, a path twice, an unsafe path, a whole-file hash that its parts do not have, a part that is another file's name, a wrong size, a verifier outside the bundle, a file with the receipt's name, a file with the temporary name of another. One change is enough to separate what was verified from what is joined |
| `MCReaderRecover` | `FinalFilesWhole`, `CompleteOnSuccess`, `ForcedRunRecovers` | a used destination, two bundles to swap, 2 runs, 2 changes, 1 crash, 1 error, 1 `os.remove` that fails: the first run fails or is killed anywhere, the second meets what is left |
| `MCReaderTwo` | `ConcurrentRunsConverge`, `NoTempLeft` | 2 processes, 3 runs, 1 error, 1 `os.remove` that fails, a whole file and a two-part file: enough for one process to truncate, rename or remove the file another has open |
| `MCSplitFile` | all properties of `SplitFile` | sizes 0 to 9, chunks 1 to 4 or none, a buffer of 3: chunk below, equal to and above the buffer, dividing buffer and file, one of them or neither; 2 changes of length |
| `MCPackOne` | `TypeOK`, `SuccessIsVerified`, `OnlyRefusals`, `IntactMeansComplete`, `IntactBundleKept`, `Terminates` | 1 process, 2 runs, 1 each of crash, failing call, disk fault and removal; seven commits: an exact multiple of the chunk beside a literal `m.mfpart0002`, a rest, a collision, an unsafe path, a reserved name, too many parts, nothing selected; chunked or not, signed or not, key missing. One volume of 16 blocks for models of 4 to 8: the check passes or refuses depending on what an earlier run left |
| `MCPackSame` | `IntactMeansComplete`, `UnanimousSuccess` | 2 processes, one commit, 3 runs, 1 crash, any mix of chunk size and signature, two clock values |
| `MCApproval` | `ValidMeansSigned`, `BlockNamesSigner`, `SignedBundleVerifies` | 2 packs, signed or not, with two clock values, so that their manifests differ; 2 key pairs, or a key file that is not text at first, 1 kill of a generation; packs are symmetric; 1 signature check, whose three reads fall anywhere. One file of one block: contents play no part here |
| `MCFerry` | `InspectedDelivered`, `PackedUnpacks`, `Implements` | 2 packs one after the other, of two commits that differ in files and contents, one file split, one of the receipt's name; 2 copies, so that one lands on the other; 1 inspection; 2 forced unpacks with and without verify: the second meets what the first left |

Four further runs are expected to find a violation; each shows a place where the
code does not do what a document or comment says.

| Run | Says | The code |
|---|---|---|
| `MCReaderOwnNames` | `SPEC.md:137` unpacked output can be re-verified forever | neither verify nor unpack refuses a manifest that declares a name unpack uses itself. `a.mftmp` is used up as the temporary file of `a` (`offline.py:410-426`; only pack refuses such a path, `pack.py:101`), `UNPACK_RECEIPT.json` is overwritten by the receipt (`offline.py:449, 462`); exit 0 |
| `MCPackAdvice` | `pack.py:316` "Re-run pack." | the re-run is refused because of the directory the failed run left (`pack.py:433`) |
| `MCPackTorn` | `SPEC.md:231` no bare tracebacks for anticipated failures | a damaged manifest makes the self-check raise an exception nothing catches (`pack.py:313`, `cli.py:70-79`) |
| `MCPackPinned` | `SPEC.md:47` downloads at that SHA, the manifest records it | two packs at different commits share the staging directory (`hf.py:42-44`); one succeeds with the other's file |

Five disagreements have no run of their own:

* `pack.py:71-73` and `tests/test_pack_writer.py:241` say that an unusable path
  is refused before the download; `preflight` runs after it (`pack.py:269, 468`).
* `README.md:112` says that the receipt records that the tree beside it was
  verified. A forced unpack that fails or is killed half-way leaves the earlier
  receipt beside files of another model (`offline.py:444-449`).
* `hf.py:146-149` says "re-run pack to resume". On a volume that was just large
  enough the re-run is refused, because `_check_free_space` asks for the whole
  download again and counts the staged part of it as used (`pack.py:392-395`).
  `AdviceWorks` says this too, but its shortest counterexample is the other one.
* A signature file that is cut short on the media ends the self-check and
  `verify-signature` with a traceback (`verify_signature.py:161`), as a damaged
  manifest does, and so does a key file that is not text (`signing.py:99-109`,
  `verify_signature.py:70-74`). `NoTraceback` says this of pack.
* `SPEC.md:189, 208` say that pack copies the verifier exactly and that the
  self-check catches write errors. The hash of the verifier is taken from the
  copy (`pack.py:219`), so a copy that is damaged before that passes, with exit 0.

What the properties leave out because the code does not do it:

* `FinalFilesWhole` and `CompleteOnSuccess` speak of names that are not temporary
  names, and the second of names other than the receipt's: see
  `MCReaderOwnNames`. Of several entries for one path, the last is meant.
* `NoTempLeft` is about processes that were not killed and removals that did not
  fail: after an `os.remove` that raises in the `finally` clause
  (`offline.py:428-430`), on a destination remounted read-only say,
  `<file>.mftmp` stays.
* `IntactMeansComplete` and `SuccessIsVerified` speak of the payload. That the
  verifier in the bundle is the package's is not so, see above.

What does not hold under concurrent use:

* `FinalFilesWhole` needs one process. When process 1 has written all of
  `f.mftmp`, process 2 opens the same name and so truncates it; the hash of
  process 1 was fed with what it read, agrees, and its `os.replace` installs
  the truncated file under the final name. Process 2, which still has it open,
  completes it there, unless it fails or is killed first.
  `ConcurrentRunsConverge` is what does hold, for runs with `--force` (one
  without is refused over what another has made), media left alone, and
  manifests with one entry per path, as pack writes them: two entries for one
  path share one `.mftmp`, and two processes may mix their contents there.
* Of two packs for one commit, one may report success and find its bundle
  overwritten by the other, which then fails its own self-check.
  `UnanimousSuccess` is what does hold, and `SignedBundleVerifies` for the
  signature.
* `Implements` needs packs that do not overlap, since `CommitPinned` fails
  otherwise: `MCFerry` has one pack process.

**Fairness.** `MCReaderMixed`, `MCSplitFile` and `MCPackOne` use weak fairness of the
program's own steps: a process that was started keeps running. It is not
assumed of crashes, errors, media or the operator, and nothing needs strong
fairness, for no step waits for another process. A download that the hub never
answers does not end: the time limits are the library's.

## Proofs

`OfflineReaderSafety` proves `TypeOK`. It is inductive together with three
facts per process: between loading and use a manifest is there (`Loaded`), the
cursors stay within it (`Cursor`), and a process holds a temporary file exactly
while it joins (`Handle`).

From it the same module proves

* `NoTempLeftBehind`, for any number of processes: where no manifest declares a
  temporary name, none is left unless a process was killed or an `os.remove`
  failed. `TmpInv` is the type invariant, whose `Handle` ties an open temporary
  file to the process that joins it, with the statement itself and the bounds
  on crashes and on failing removals;
* `FilesStayWhole` and `SuccessIsComplete`, under `OneProcess` (all processes
  are the same one; the statements fail without it, see above). `FinalFilesWhole`
  is not inductive: that a file installed by `os.replace` is whole depends on
  the temporary file holding what the hash was fed (`final[Temp(p)] = buf`, so that the comparison
  of the hash says something of the file), and exit 0 depends on the last entry
  for each path before the cursor having been installed and not overwritten
  since. `SafeInv` says both. They hold for any manifest, one that declares
  temporary names included, of the names that are not temporary names.

`SplitFileProofs` proves `SplitCorrect` with its parts (`TypesKept`, `PartsFit`,
`DiskMatches`), `PredictionHolds` and `PlanImplemented` for all chunk sizes,
buffer sizes and file lengths, resizes included. `LoopInv` says what is known within the loop: the recorded parts are
full and start where they should, and the open part is the stretch from its
start to the current position. `SplitInv` adds what is known when the loop is
over, and `LengthInv`, that no more is read than there was, carries
`PredictionHolds`.

`OfflineReaderVerdict` proves, from the same invariants,

* `VerdictIsExact`, for any number of processes. The loop of `cmd_verify` and
  the declarative `Verifies` quantify in different ways: one object after the
  other with an early exit, and over all objects at once. `Scanned` ties them
  together: `seen`, `clean` and the layout checks say of the objects before the
  cursor what `Verifies` says of all. `NextBefore` shows that a step of the
  cursor adds exactly one object, and behind the last entry there are no others
  (`AllBefore`). It holds for runs around which the bundle stays as it is;
  where it does not, `CompleteOnSuccess` takes over.
* `ForcedRunSucceeds`, under `OneProcess`: two unpacks that share the temporary
  files may fail each other, see above. That no step of the run can end it
  in an error needs all of the other invariants: the verdict (so that verify
  goes through), the temporary file that is still there to be renamed, and
  `HashedSoFar`: what the hash was fed is the beginning of the file up to where
  the next part starts. `FirstMore` and `HashNext` carry it over a part, of
  whatever length, empty ones included.
* `RunsConverge`, for any number of processes but none (`Procs # {}`). The
  invariant has two halves. `Winner`: some run has succeeded, or goes on and is
  not `Robbed`, which is to say that another has renamed the file it is writing.
  A run that is not robbed cannot fail, and the one that robs others by its
  rename goes on itself. `TmpWhole` and `FinalWhole`: a file under `.mftmp`, and a
  file that a run is past, is whole, or some process holds it open and will
  make it so (`WholeBy`): all that this process has hashed is in the file, so
  what it still has to write completes it, under whatever name.

`PackProofs` proves `TypeOK` for any number of processes. Inductive is
`TypeInv`: the types, what a run has found out by each label (`Progress`: the
commit, the manifest, the key), and that what is in staging, or is being
packed, is a file of some commit as the hub has it (`StagedFromHub`). The last
is what bounds the names: a split file of the hub has a name for each of its
parts (`NamesAssumption`), whatever another run downloads over it.

`PackSafety` proves

* `PackUnanimous`, for any number of processes. The invariant behind it
  (`AgreedInv`) speaks of runs that have *passed* the self-check, whether they
  check the signature after that or have ended: once all of them have, nobody
  writes to the bundle. The property itself speaks of runs that have ended, and
  is not inductive: the step that ends the last one says nothing of the files,
  which it looked at a step earlier when it signs.
* `PackSuccess` and `PackKeepsIntact`, under `OneProcess`: `AloneInv` says that
  between the second look at the directory and the sidecar the bundle has no
  sidecar and so is not intact, and that whoever passed the self-check left the
  bundle as promised. `MediaInv` (what was not made is empty, a manifest names
  the commit of its directory) and `SignerInv` (a run that signs holds a key)
  carry them. Two packs of one commit break both statements, see
  above.
* `PackComplete`, where one process runs or all pack one commit (`Apart`). Its
  strengthening follows a file through the writer: what is in
  staging is the file of the commit (`StagedInv`), the parts recorded so far
  are the full chunks of the file in order, and the entries are whole and
  are, with what is left in `todo`, the files of the commit (`EntriesInv`).
  `ChunkEnd` gives the cut points. Every manifest on the media is then
  complete (`ManifestsInv`). Two *different* commits share the
  staging directory, and the statement fails then, as `MCPackPinned` shows.
* `PackPinned`, that `CommitPinned` holds for one process. This is the other
  half of the finding: within one process at a time nothing
  makes a bundle name a commit whose files it does not hold.

`PackWriter` proves `PackOnlyRefuses`, under `OneProcess`: `OnlyRefusals` for any
repository, chunk size and size of the volumes. A run that nothing disturbs
ends in an error only where the code refuses before it writes, or with the
traceback of a key file that is not text; so the proof
shows that none of the other ways out of a run can be taken. The invariant
(`WorksInv`) says of a run at each label

* that there is room (`RoomInv`): what is free covers the files still to be
  fetched and those still to be written, of the open file what it lacks. That a
  write of *n* blocks takes at most *n*, whatever lay there before, is
  `HeldGrows`: it adds at most *n* positions to a set. Another run that was
  killed may have left anything in staging; it only makes what is fetched cheaper;
* that the layout is the one that pre-flight approved (`ShapeInv`). The parts of
  the entries are numbered as planned and as many as planned (`Ceiling`), files
  are packed in order, and nothing packed is in the way of what comes. The
  difficult case is the part that is opened behind the last block of a file of
  whole chunks: pre-flight does not know of it, and a file of the repository may
  have its name. `ObjectFree` shows that such a file has not been packed yet,
  because Python sorts a name before the names it is a prefix of, nor is it
  a part of another file;
* that the payload holds the packed files and nothing else (`WrittenInv`), and
  that the manifest, the sidecar and the signature are about them
  (`PapersInv`). `ListedIntact` takes the two to `Intact`: then verify does
  not raise and does not fail, and the signature is valid (`SignatureStands`).

With two processes the property fails: one may fill the volume of the other, or
write into its bundle.

`ApprovalProofs` proves `ValidIsSigned` and `BlockAndSignatureAgree` for any
number of packs, keys and commits, with all faults of `Pack` included. Neither
is inductive: that a signature which verifies belongs to a signed manifest
depends on every signature on the media having been made by a pack or being
garbage. `SignInv` says so: a signature on the media is none, cut,
garbage or one of `signings` (`OnRecord`); what a pack is about to sign carries
the key id of the key it holds, and a pack without a key does not sign (`Named`), so that `signings` only has pairs
that agree; and a check that is under way has read a key and
has not ended in what the theorems exclude (`Looked`). `Shapes` gives
the domains of the functions that are updated. The proofs go action by
action, with one lemma for the many steps that touch none of this. Of
the constants they need that keys are neither `NoKey` nor what a file without a
key holds (`RepoAssumption`).

It also proves `SignedIsValid`. `SignedInv` says that a manifest on the media
that has a signing block has its valid signature beside it, as long as no
undisturbed run still has a signature check of its own before it: every run is
idle, ended with 0, or does not sign, and then its manifest will take
the block away. `KeysInv` says that the two key files hold one pair when no
generation is under way, and `CalmInv` that a check during which nothing
changed has read what is there now. Two hypotheses are needed: no key id is
that of "unsigned" or of a foreign program (`KeyIdAssumption`), and no two keys
of the operator share one, because the signing block carries nothing but the
id. The premise of the property asks that *every* pack that was started has
reported success. Without that a signed pack may overwrite manifest or
signature, fail, and be started again: the runs that are left in view all
succeeded, and yet the bundle does not verify. TLC finds that with three runs.

`FerryProofs` puts both sides together. `Ferry` is a behaviour of `Pack`
(`FerryPacks`) and of the reader (`FerryReads`), so that each side's theorems
hold of it; the assumptions of the reader's modules are proved for what pack
writes (`ReadersManifests` and the lemmas after it). From this come

* `FerryUnpacks`, under `OneProcess` and `OneReader`: what pack's success says
  of the bundle (`AloneInv`) is the premise of the reader's `ForcedRunSucceeds`.
* `FerryInspected`, under `Apart` and `OneReader`. `GenuineInv` says that the
  manifest on the media or in the hands of a reader is the whole of its commit,
  however copies were mixed; `VouchedInv` that the manifest vouched for is the
  one on the media, and the only one that a command can have loaded.
  `DeliveredInv` is the result: an unpack that ended with 0 left exactly the
  files of its commit in place, of the names that unpack does not use itself
  (`ModelNames`). Where a manifest names a path, the last entry
  for it is the one that stays (`LastEntry`, a minimum of a well-founded order).
* `FerryImplements`, the same hypotheses: `Transfer` is implemented. Each step
  is a stutter, an `Install` of a file that is a whole file of a packed commit,
  or the end of a command (`StepRefines`).

Neither hypothesis can be dropped: with several readers a truncated file can be
in place for a while, and packs of different commits that overlap write
manifests of no commit, both shown above.

The proofs assume only the named assumptions of the modules, which TLC
evaluates on every instance: `ManifestAssumption`, `MediaAssumption`,
`TemporaryAssumption` (appending `.mftmp` gives different names for different
paths, never the path itself and never the receipt's name),
`DestAssumption` (a destination that is no directory has no files),
`OptionsAssumption` and `BoundsAssumption` for the reader, `RepoAssumption` (what
the hub has, and that the marker of a key file that is not text is not a key), `ChunkAssumption`, `BoundAssumption`, `NamesAssumption` (there
is a name for every part of a file and the one after them),
`OrderAssumption` (Python's order of strings), `SuffixAssumption` (the name of a
part tells file and number, and is usable where that of the file is),
`FiniteAssumption` (finitely many names and commits) and `NothingAssumption`
(what stands for a missing, unreadable or cut file is no contents) for pack,
`KeyIdAssumption` for signatures, `FerryAssumption` for
the transfer: the bounds are numbers, the options are command lines, the receipt's name is a
name, appending the suffix behaves as in `TemporaryAssumption`, `Astray` is no
verifier, and the markers for "no manifest", "not on the media" and "no file" are
no manifest, contents or file. None of them excludes a repository
that pack would take. `OneProcess`, `OneReader`, `Apart`, `Procs # {}` and the distinct
key ids are hypotheses of the theorems that name them.

Model-checked only:

* `Terminates` of reader, splitter and pack, which is liveness and out of the
  provers' reach.

## Not modelled

Argument parsing, `parse_chunk_size`, `slugify` and the text of the Markdown
page keep no state. JSON, manifest versions and totals are abstracted to "a
manifest or not", declared sizes to right or wrong. Path syntax is a set of unsafe names, and the patterns of
`--include` and `--exclude` are the files of `Repo`. Directories are not
objects of their own: a name that is both a file and a directory, links among
directories, and empty directories left behind do not occur. Short reads
within one object and `fsync` are not modelled, a crash loses nothing that was
written. Space is taken by the files under staging and payloads; that
the hub may report no size at all, manifests and other users of a volume are
not counted. Ed25519 is equality: nobody but the holder of a key signs, and no
signing block of a foreign program is written (the verdict for one is in
`Claim`). An approved `MANIFEST.md` reaches the far side unchanged.

## Plan

1. *Done*: `Bundle`, `OfflineReader`, `SplitFile` with `PartPlan`, `Pack` with
   free space, their runs; proofs for reader and splitter.
2. *Done*: `Authenticity`, `Signing`, `VerifySignature` and their composition
   `Approval`, with proofs; `Transfer` and `Ferry`.
3. *Done*: proofs about `Pack` (types, unanimous success, success, intact
   bundles kept and complete), `SignedIsValid`, `VerdictIsExact`,
   `ForcedRunSucceeds`.
4. *Done*: `FerryProofs` (`PackedUnpacks`, `InspectedDelivered`, the refinement
   of `Transfer`), `ConcurrentRunsConverge` for any number of processes, and
   `OnlyRefusals`. Every invariant and action property that a passing run checks
   is stated by a theorem.
