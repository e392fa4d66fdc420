------------------------------ MODULE Bundle ------------------------------
(***************************************************************************)
(* Vocabulary shared by the modules: what a bundle on the media looks like *)
(* and what src/modelferry/offline.py reads out of its manifest.           *)
(*                                                                         *)
(* A file's contents is a sequence of blocks, and the SHA-256 of some      *)
(* contents is represented by the contents themselves (no two different    *)
(* contents share a hash).  A name is a sequence: <<"m">> is a repository  *)
(* path, and PartName(<<"m">>, 1), the name m.mfpart0001, is <<"m", 1>>.   *)
(* A repository file may be called literally <<"m", 1>>.                   *)
(*                                                                         *)
(* A manifest is a record with fields                                      *)
(*   files    : a sequence of entries [path, sha, parts]                   *)
(*   verifier : the hash of tools/modelferry_offline.py (or that its path  *)
(*              leads out of the bundle)                                   *)
(* where parts is a sequence of [path, sha], empty for a whole file.       *)
(* A bundle is a record with fields manifest, sidecar (what manifest.sha256*)
(* is the hash of), verifier (what the tool's file holds) and payload (a   *)
(* function from names to what is at that name under payload/).            *)
(***************************************************************************)
EXTENDS Naturals, Sequences

CONSTANTS
    Names,      \* every name that occurs under payload/ or the destination
    Unsafe,     \* the names _safe_rel rejects
    Blocks,     \* what contents are made of
    MaxParts,   \* part numbers are below this bound (four digits in the code)
    Missing,    \* nothing at this name
    Link,       \* a symbolic link at this name
    Unreadable, \* a file whose read fails with OSError
    Malformed   \* a manifest.json that is not a manifest

Contents == Seq(Blocks)

PartName(f, k) == Append(f, k)

(***************************************************************************)
(* The objects of one manifest entry, in the order they are read: the      *)
(* parts of a chunked file, or the file itself.                            *)
(***************************************************************************)
Sources(e) ==
    IF e.parts = <<>> THEN << [path |-> e.path, sha |-> e.sha] >> ELSE e.parts

\* _part_rel: a part lies beside its file, under the name of one of its parts.
PlacedPart(f, part) ==
    /\ \E k \in 0 .. MaxParts - 1 : part.path = PartName(f, k)
    /\ part.path \notin Unsafe

\* What every use of an entry checks of its paths before touching the disk.
SafeEntry(e) ==
    /\ e.path \notin Unsafe
    /\ \A k \in DOMAIN e.parts : PlacedPart(e.path, e.parts[k])

\* The positions <<entry, object>> of a manifest's objects.
Positions(m) ==
    UNION { {k} \X DOMAIN Sources(m.files[k]) : k \in DOMAIN m.files }

ObjectAt(m, pos) == Sources(m.files[pos[1]])[pos[2]]

ObjectPaths(m) == { ObjectAt(m, pos).path : pos \in Positions(m) }

(* The parts of an entry cut its contents into consecutive pieces that are  *)
(* all of it, as pack writes them and SHA-256 of whole file and parts show. *)
PartsJoin(e) ==
    \E cut \in [0 .. Len(e.parts) -> 0 .. Len(e.sha)] :
      /\ cut[0] = 0 /\ cut[Len(e.parts)] = Len(e.sha)
      /\ \A k \in DOMAIN e.parts :
           /\ cut[k - 1] <= cut[k]
           /\ e.parts[k].sha = SubSeq(e.sha, cut[k - 1] + 1, cut[k])

HashesAgree(m) ==
    \A k \in DOMAIN m.files : m.files[k].parts # <<>> => PartsJoin(m.files[k])

IsManifest(m) == m \notin {Missing, Malformed}

(***************************************************************************)
(* What cmd_verify promises (SPEC.md section 7): the manifest is the one   *)
(* the sidecar names, the verifier is the one shipped, and payload/ holds  *)
(* exactly the declared objects, each once and with its declared contents. *)
(***************************************************************************)
Intact(b) ==
    /\ IsManifest(b.manifest)
    /\ b.sidecar = b.manifest
    /\ b.verifier = b.manifest.verifier
    /\ \A k \in DOMAIN b.manifest.files : SafeEntry(b.manifest.files[k])
    /\ \A x, y \in Positions(b.manifest) :
         ObjectAt(b.manifest, x).path = ObjectAt(b.manifest, y).path => x = y
    /\ \A x \in Positions(b.manifest) :
         b.payload[ObjectAt(b.manifest, x).path] = ObjectAt(b.manifest, x).sha
    /\ \A n \in Names \ ObjectPaths(b.manifest) : b.payload[n] = Missing
=============================================================================
