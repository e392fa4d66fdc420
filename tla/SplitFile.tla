----------------------------- MODULE SplitFile -----------------------------
(***************************************************************************)
(* One file of a snapshot going into payload/: _write_one of               *)
(* src/modelferry/pack.py with _copy_whole and _split_into_parts, one      *)
(* buffer or one segment of a buffer per step.                             *)
(*                                                                         *)
(* The source is its length: the bytes at an offset are that offset, so a  *)
(* stretch of the source, and its hash, is Range(first, bytes); gaps counts*)
(* where what was written is not one stretch.                              *)
(* The length may change between os.path.getsize and the last read.        *)
(***************************************************************************)
EXTENDS Integers, Sequences

CONSTANTS
    Sizes,      \* lengths the source file may have
    ChunkSizes, \* values of --chunk-size in bytes
    NoChunks,   \* --chunk-size none
    BufSize,    \* BUF_SIZE
    NoFile,     \* nothing under the file's own name
    MaxResizes  \* bound on how often the source changes its length

ASSUME SizeAssumption ==
    /\ Sizes \subseteq Nat
    /\ ChunkSizes \subseteq Nat \ {0}
    /\ NoChunks \notin Nat
    /\ BufSize \in Nat \ {0}
    /\ MaxResizes \in Nat
    /\ NoFile \notin [first : Nat, bytes : Nat, gaps : Nat]

VARIABLES
    chunk,    \* chunk_size
    length,   \* how long the source file is now
    statted,  \* the size _write_one saw
    pc,
    total,    \* bytes read, all of them fed to the whole-file hash
    have, off, \* length of the current buffer, and how much of it is written
    idx, ph, written, \* the open part: its number, its hash, its length
    parts,    \* the entries collected so far
    disk,     \* the part files, by number: what each holds
    plain,    \* the file under its own name, or NoFile
    resizes   \* how often the source changed its length

loop == <<total, have, off, idx, ph, written, parts, disk>>
vars == <<chunk, length, statted, pc, loop, plain, resizes>>

Range(from, n) == [first |-> from, bytes |-> n, gaps |-> 0]
Empty == Range(0, 0)

\* r followed by the n bytes of the source at offset from.
Extend(r, from, n) ==
    [first |-> IF r.bytes = 0 THEN from ELSE r.first,
     bytes |-> r.bytes + n,
     gaps  |-> IF r.bytes = 0 \/ from = r.first + r.bytes
               THEN r.gaps ELSE r.gaps + 1]

\* A slip: parts are numbered from one below.
NumberedBelow(k, n, hash) == [path |-> k - 1, bytes |-> n, sha |-> hash]

PartEntry(k, n, hash) == [path |-> k, bytes |-> n, sha |-> hash]
Least(x, y) == IF x < y THEN x ELSE y

\* A slip: the division is rounded the wrong way.
RoundedDown(size, c) == IF c = NoChunks \/ size <= c THEN 0 ELSE size \div c

\* _part_count: what the pre-flight check expects of a file of this size.
PartCount(size, c) ==
    IF c = NoChunks \/ size <= c THEN 0 ELSE (size + c - 1) \div c

Init ==
    /\ chunk \in ChunkSizes \cup {NoChunks}
    /\ length \in Sizes
    /\ statted = 0
    /\ pc = "stat"
    /\ total = 0 /\ have = 0 /\ off = 0
    /\ idx = 0 /\ ph = Empty /\ written = 0
    /\ parts = <<>>
    /\ disk = <<>>
    /\ plain = NoFile
    /\ resizes = 0

(* _write_one: the size decides between one file and parts; either way the *)
(* first output file is created before the source is read.                 *)
Stat ==
    /\ pc = "stat"
    /\ statted' = length
    /\ IF chunk = NoChunks \/ length <= chunk
       THEN /\ pc' = "copy"
            /\ plain' = Empty
            /\ UNCHANGED disk
       ELSE /\ pc' = "read"
            /\ disk' = << Empty >>
            /\ UNCHANGED plain
    /\ UNCHANGED <<chunk, length, total, have, off, idx, ph, written, parts,
                   resizes>>

\* How many bytes fi.read returns, unless the source has ended.
ReadSize == Least(BufSize, length - total)

\* One turn of _copy_whole's loop: a buffer is read, written and hashed.
CopyBuffer ==
    /\ pc = "copy"
    /\ IF total < length
       THEN /\ total' = total + ReadSize
            /\ plain' = Extend(plain, total, ReadSize)
            /\ UNCHANGED pc
       ELSE /\ pc' = "done"
            /\ UNCHANGED <<total, plain>>
    /\ UNCHANGED <<chunk, length, statted, have, off, idx, ph, written,
                   parts, disk, resizes>>

ReadBuffer ==
    /\ pc = "read"
    /\ IF total < length
       THEN /\ have' = ReadSize
            /\ total' = total + ReadSize
            /\ off' = 0
            /\ pc' = "feed"
       ELSE /\ pc' = "close"
            /\ UNCHANGED <<have, total, off>>
    /\ UNCHANGED <<chunk, length, statted, idx, ph, written, parts, disk,
                   plain, resizes>>

\* A slip: the whole rest of the buffer goes to the open part.
TakeAll == have - off

Take == Least(chunk - written, have - off)

\* A slip: a part is full only beyond the chunk size.
PastFull == written + Take > chunk

\* The part has reached the chunk size once this segment is written.
PartFull == written + Take = chunk

\* Where in the source the unwritten rest of the buffer begins.
Position == total - have + off

(* One segment of the buffer goes to the open part; a part that is full is *)
(* closed and the next one is opened, needed or not.                       *)
FeedSegment ==
    /\ pc = "feed"
    /\ off' = off + Take
    /\ pc' = IF off + Take < have THEN "feed" ELSE "read"
    /\ LET fed == [disk EXCEPT ![idx + 1] = Extend(@, Position, Take)]
           hash == Extend(ph, Position, Take)
       IN IF PartFull
          THEN /\ parts' = Append(parts, PartEntry(idx, written + Take, hash))
               /\ idx' = idx + 1
               /\ ph' = Empty
               /\ written' = 0
               /\ disk' = Append(fed, Empty)
          ELSE /\ written' = written + Take
               /\ ph' = hash
               /\ disk' = fed
               /\ UNCHANGED <<parts, idx>>
    /\ UNCHANGED <<chunk, length, statted, total, have, plain, resizes>>

\* A slip: the empty trailing part is declared.
AlwaysDeclare == TRUE

\* The open part is worth declaring: it has bytes, or it is the only one.
Declare == written > 0 \/ parts = <<>>

\* A slip: the file of the empty trailing part stays.
KeepTrailing == disk

\* os.remove of the last part's file
DropTrailing == SubSeq(disk, 1, Len(disk) - 1)

CloseParts ==
    /\ pc = "close"
    /\ pc' = "done"
    /\ IF Declare
       THEN /\ parts' = Append(parts, PartEntry(idx, written, ph))
            /\ UNCHANGED disk
       ELSE /\ disk' = DropTrailing
            /\ UNCHANGED parts
    /\ UNCHANGED <<chunk, length, statted, total, have, off, idx, ph,
                   written, plain, resizes>>

(* An OSError of a read or a write: the part files stay as they are. *)
Fail ==
    /\ pc \in {"stat", "copy", "read", "feed", "close"}
    /\ pc' = "failed"
    /\ UNCHANGED <<chunk, length, statted, loop, plain, resizes>>

(* Something else writes or truncates the file in the staging directory. *)
Resize ==
    /\ resizes < MaxResizes
    /\ resizes' = resizes + 1
    /\ length' \in Sizes
    /\ UNCHANGED <<chunk, statted, pc, loop, plain>>

Step == Stat \/ CopyBuffer \/ ReadBuffer \/ FeedSegment \/ CloseParts

Next == Step \/ Fail \/ Resize

Spec == Init /\ [][Next]_vars

\* The writer runs until it is done or fails.
FairSpec == Spec /\ WF_vars(Step)
-----------------------------------------------------------------------------
(* Properties *)

Ranges == [first : Nat, bytes : Nat, gaps : Nat]

TypeOK ==
    /\ chunk \in ChunkSizes \cup {NoChunks}
    /\ length \in Sizes
    /\ statted \in Sizes \cup {0}
    /\ pc \in {"stat", "copy", "read", "feed", "close", "done", "failed"}
    /\ total \in Nat /\ have \in Nat /\ off \in Nat
    /\ idx \in Nat /\ ph \in Ranges /\ written \in Nat
    /\ parts \in Seq([path : Nat, bytes : Nat, sha : Ranges])
    /\ disk \in Seq(Ranges)
    /\ plain \in Ranges \cup {NoFile}
    /\ resizes \in Nat

(* At no moment does a part file hold more than --chunk-size bytes: the     *)
(* media it is written to may refuse larger files (pack.py:163-175).        *)
NoPartTooLong ==
    chunk # NoChunks => \A k \in DOMAIN disk : disk[k].bytes <= chunk

(* The parts of a finished split are the source from its first byte to the *)
(* last one read, in order, with no gap and no overlap; none but a lone     *)
(* one is empty (pack.py:163-179), and the whole-file hash, which covers    *)
(* the first total bytes, is the hash of their concatenation.               *)
PartsTile ==
    pc = "done" /\ plain = NoFile =>
      /\ parts # <<>>
      /\ parts[1].sha.first = 0
      /\ \A k \in DOMAIN parts :
           parts[k].sha = Range(parts[k].sha.first, parts[k].bytes)
      /\ \A k \in 1 .. Len(parts) - 1 :
           parts[k + 1].sha.first = parts[k].sha.first + parts[k].bytes
      /\ total = parts[Len(parts)].sha.first + parts[Len(parts)].bytes
      /\ \A k \in DOMAIN parts : parts[k].bytes = 0 => Len(parts) = 1

(* What the manifest declares is what is on the disk, part for part, with   *)
(* no file beyond the last one declared, even if the source changed         *)
(* meanwhile (pack.py:176-179: the trailing part is removed or declared).   *)
DiskAsDeclared ==
    pc = "done" =>
      IF plain = NoFile
      THEN /\ DOMAIN disk = DOMAIN parts
           /\ \A k \in DOMAIN parts : parts[k].path = k - 1 /\ disk[k] = parts[k].sha
      ELSE disk = <<>> /\ parts = <<>> /\ plain = Range(0, total)

(* The pre-flight check bounds part numbers and compares payload paths on   *)
(* the strength of _part_count; the writer, which does not use it, opens    *)
(* exactly that many parts if the source keeps its size                     *)
(* (pack.py:52-55, 103-115 against 163-179).                                *)
CountAsPredicted ==
    pc = "done" /\ resizes = 0 =>
      Len(parts) = PartCount(length, chunk) /\ total = length

(* The parts come out as PartPlan says: one full chunk after the other,     *)
(* then the rest (SPEC.md section 8).                                       *)
Plan == INSTANCE PartPlan WITH
    chunk <- IF chunk = NoChunks THEN 1 ELSE chunk,
    closed <- pc = "done" /\ plain = NoFile

ImplementsPlan == Plan!Spec

(* The loops over buffers and segments make progress at every boundary: the *)
(* writer ends (pack.py:153-179).                                           *)
Terminates == <>(pc \in {"done", "failed"})
=============================================================================
