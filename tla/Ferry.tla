-------------------------------- MODULE Ferry --------------------------------
(***************************************************************************)
(* The way of a model across the gap: Pack on the connected side, an       *)
(* officer who keeps the MANIFEST.md of a bundle, media that bundles are   *)
(* copied to, and OfflineReader with the command inspect on the            *)
(* disconnected side.  Nothing keeps the two sides in step: a bundle may   *)
(* be copied while it is written or removed, copied over another one, or   *)
(* arrive with a file missing, and the media change under the reader.      *)
(***************************************************************************)
EXTENDS Pack

CONSTANTS
    Readers, ReaderOptions, ReceiptName, Suffix, Astray, Hole, NoManifest,
    MaxReads,            \* bound: commands on the disconnected host
    MaxCarries, MaxLooks \* bounds: copies made, inspections

ASSUME FerryAssumption ==
    /\ MaxReads \in Nat /\ MaxCarries \in Nat /\ MaxLooks \in Nat
    /\ ReaderOptions \subseteq
         [cmd : {"verify", "unpack"}, noVerify : BOOLEAN, force : BOOLEAN]
    /\ ReceiptName \in Names
    /\ \A f, g \in Names : Append(f, Suffix) = Append(g, Suffix) => f = g
    /\ \A f \in Names : Append(f, Suffix) \notin {f, ReceiptName}
    /\ Astray \notin {Verifier, Bad, Missing}
    /\ \A none \in {Missing, Malformed, NoManifest} : none \notin ManifestType
    /\ \A none \in {Missing, Link, Unreadable} : none \notin Contents
    /\ NoFile \notin Seq(Blocks \cup {Hole}
                           \cup [manifest : ManifestType, verified : BOOLEAN])

VARIABLES
    inserted,  \* the bundle on the media
    tree, treeKind,                         \* final and destKind,
    rpc, ropt, rman, rvman, rclean, rseen,  \* and so on, of OfflineReader
    rverified, ri, rj, rbuf, rout, rexit, rcalm, rbudget,
    approved,  \* the manifests that approved copies of MANIFEST.md describe
    inspected, \* the one inspect has shown of the media as they are now
    vouched,   \* history: what was inspected before the command that runs
    looks      \* inspections left

R == INSTANCE OfflineReader WITH
       Procs <- Readers, Options <- ReaderOptions, Media <- BundleType,
       Tools <- {Verifier, Bad}, Missized <- {}, Damage <- {},
       FirstDest <- [n \in Names |-> NoFile], FirstKind <- "none",
       MaxRuns <- MaxReads, MaxChanges <- MaxCarries,
       MaxCrashes <- 0, MaxErrors <- 0, MaxStuck <- 0,
       bundle <- inserted, final <- tree, destKind <- treeKind, pc <- rpc,
       opt <- ropt, man <- rman, vman <- rvman, clean <- rclean, seen <- rseen, verified <- rverified,
       i <- ri, j <- rj, buf <- rbuf, out <- rout, exit <- rexit,
       undisturbed <- rcalm, budget <- rbudget

readerVars == <<tree, treeKind, rpc, ropt, rman, rvman, rclean,
                rseen, rverified, ri, rj, rbuf, rout, rexit>>
officerVars == <<approved, inspected, vouched, looks>>
ferryVars == <<vars, inserted, readerVars, rcalm, rbudget, officerVars>>

FerryInit ==
    /\ Init /\ inserted = NoBundle /\ R!Init
    /\ approved = {} /\ inspected = Missing /\ vouched = Missing
    /\ looks = MaxLooks

\* The officer approves what a pack has reported, and keeps its MANIFEST.md.
Approve ==
    approved' = approved \cup
      { page'[commit[p]] : p \in { q \in Procs : ~ Ended(q, 0) /\ Ended(q, 0)' } }

Packing ==
    /\ Next /\ Approve
    /\ UNCHANGED <<inserted, readerVars, rcalm, rbudget, inspected, vouched, looks>>

-----------------------------------------------------------------------------
(* The media. *)

\* The files of b copied over those of old.
CopiedOver(old, b) ==
    [manifest |-> IF b.manifest = Missing THEN old.manifest ELSE b.manifest,
     sidecar  |-> IF b.sidecar = Missing THEN old.sidecar ELSE b.sidecar,
     verifier |-> IF b.verifier = Missing THEN old.verifier ELSE b.verifier,
     payload  |-> [n \in Names |-> IF b.payload[n] = Missing THEN old.payload[n]
                                   ELSE b.payload[n]]]

\* b, and b with one file of the payload as it is in old.
Arrivals(old, b) ==
    {b} \cup { [b EXCEPT !.payload[n] = old.payload[n]] : n \in Names }

(* A bundle directory, finished or not, is copied to other media, or over   *)
(* what is there and then one file may not make it.                         *)
Carry(c) ==
    /\ made[c]
    /\ rbudget.changes > 0
    /\ rbudget' = [rbudget EXCEPT !.changes = @ - 1]
    /\ \/ inserted' = bundles[c]
       \/ inserted' \in Arrivals(inserted, CopiedOver(inserted, bundles[c]))
    /\ rcalm' = [r \in Readers |-> FALSE]
    /\ inspected' = Missing
    /\ vouched' = Missing
    /\ UNCHANGED <<vars, readerVars, approved, looks>>

-----------------------------------------------------------------------------
(* The disconnected host. *)

\* A slip: the checksum is taken from manifest.sha256.
Echoed(b) == b.sidecar

Recomputed(b) == b.manifest

\* cmd_inspect, by an operator who has no other command running
Inspect ==
    /\ looks > 0 /\ inserted # NoBundle
    /\ \A r \in Readers : rpc[r] \notin R!Running
    /\ looks' = looks - 1
    /\ inspected' = IF VerifyRaises(inserted) THEN Missing ELSE Recomputed(inserted)
    /\ UNCHANGED <<vars, inserted, readerVars, rcalm, rbudget, approved, vouched>>

StartReader(r) ==
    /\ inserted # NoBundle
    /\ R!Begin(r)
    /\ vouched' = inspected
    /\ UNCHANGED <<vars, approved, inspected, looks>>

Reading(r) ==
    /\ R!Step(r)
    /\ UNCHANGED <<vars, officerVars>>

FerryNext ==
    \/ Packing
    \/ \E c \in Commits : Carry(c)
    \/ Inspect
    \/ \E r \in Readers : StartReader(r) \/ Reading(r)

FerrySpec == FerryInit /\ [][FerryNext]_ferryVars

-----------------------------------------------------------------------------
(* Properties *)

Unpacked(r) == rpc[r] = "done" /\ ropt[r].cmd = "unpack" /\ rexit[r] = 0

\* Names that unpack uses for itself: a repository file of the receipt's name
\* is overwritten by it, one of a temporary file's is not packed (pack.py:101).
OwnNames == {ReceiptName} \cup { Append(f, Suffix) : f \in Names }

ModelNames == Names \ OwnNames

Model == [c \in Commits |-> [n \in DOMAIN Repo[c] \ OwnNames |-> Repo[c][n]]]

T == INSTANCE Transfer WITH
       Sessions <- Readers, Names <- ModelNames, Repo <- Model,
       tree <- [n \in ModelNames |-> tree[n]],
       working <- { r \in Readers : rpc[r] \in R!Running },
       delivered <- [r \in Readers |-> IF Unpacked(r) THEN rman[r].source
                                       ELSE NoCommit]

(* Pack, media and reader together keep the promise of Transfer: whatever   *)
(* was copied when, nothing but whole files of the packed commits ever      *)
(* appear in the destination, and exit code 0 of unpack means that the      *)
(* commit its manifest names is there completely, but for a file of the     *)
(* receipt's name (pack.py:265-304, offline.py:394-451).                    *)
Implements == T!Spec

(* The protocol of README.md:199-207: if inspect showed the checksum of an  *)
(* approved MANIFEST.md and the media stayed as they were, an unpack that   *)
(* reports success, --no-verify included, has put the approved commit there,*)
(* but for a file of the receipt's name (pack.py:303-305,                   *)
(* offline.py:433-451, 484-501).                                            *)
InspectedDelivered ==
    \A r \in Readers :
      Unpacked(r) /\ vouched \in approved => T!Holds(vouched.source)

(* What pack calls a good bundle, the program on the other side can use:    *)
(* copied whole, it passes verify and, given a usable destination, unpack,  *)
(* whatever earlier commands left behind there (pack.py:265-317,            *)
(* offline.py:305-451).                                                     *)
PackedUnpacks ==
    \A p \in Procs, r \in Readers :
      /\ Ended(p, 0) /\ made[commit[p]] /\ inserted = bundles[commit[p]]
      /\ rpc[r] = "done" /\ rcalm[r]
      /\ ropt[r].cmd = "unpack" /\ ropt[r].force /\ treeKind # "other"
      => rexit[r] = 0
=============================================================================
