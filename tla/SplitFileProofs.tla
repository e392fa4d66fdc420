-------------------------- MODULE SplitFileProofs --------------------------
(***************************************************************************)
(* What the splitting loop of pack.py guarantees for every file size,      *)
(* chunk size and buffer size, and however often the source changes its    *)
(* length while it is read.                                                *)
(***************************************************************************)
EXTENDS SplitFile, TLAPS

Splitting == pc \in {"read", "feed", "close"}

Start(k, c) == k * c

(* Where in the source the next byte to be written comes from. *)
Reached == IF pc = "feed" THEN Position ELSE total

(* While parts are written: all the parts before the open one are full and *)
(* lie one after the other, the open one continues them up to the byte     *)
(* that is written next, and the part files hold what is recorded.         *)
FullParts ==
    \A k \in 1 .. idx :
      /\ parts[k] = PartEntry(k - 1, chunk, Range(Start(k - 1, chunk), chunk))
      /\ disk[k] = parts[k].sha

OpenPart ==
    /\ ph = IF written = 0 THEN Empty ELSE Range(Start(idx, chunk), written)
    /\ disk[idx + 1] = ph
    /\ written < chunk
    /\ Reached = Start(idx, chunk) + written

Loop ==
    Splitting =>
      /\ plain = NoFile /\ chunk # NoChunks
      /\ idx = Len(parts) /\ Len(disk) = idx + 1
      /\ FullParts
      /\ OpenPart
      /\ pc = "feed" => off < have /\ have <= total

Copying == pc \in {"stat", "copy"} =>
    /\ parts = <<>> /\ disk = <<>>
    /\ idx = 0 /\ ph = Empty /\ written = 0
    /\ pc = "stat" => plain = NoFile /\ total = 0
    /\ pc = "copy" => plain = Range(0, total)

LoopInv == TypeOK /\ Copying /\ Loop
-----------------------------------------------------------------------------
LEMMA StartStep ==
    ASSUME NEW k \in Nat, NEW c \in Nat
    PROVE  /\ Start(0, c) = 0
           /\ Start(k, c) \in Nat
           /\ Start(k + 1, c) = Start(k, c) + c
  BY DEF Start

LEMMA ChunkType == TypeOK /\ chunk # NoChunks => chunk \in Nat \ {0}
  BY SizeAssumption DEF TypeOK

LEMMA RangeType == \A m, n \in Nat : Range(m, n) \in Ranges
  BY DEF Range, Ranges

LEMMA ExtendType ==
    ASSUME NEW r \in Ranges, NEW m \in Nat, NEW n \in Nat
    PROVE  Extend(r, m, n) \in Ranges
<1>1. r.first \in Nat /\ r.bytes \in Nat /\ r.gaps \in Nat
  BY DEF Ranges
<1> QED BY <1>1 DEF Extend, Ranges

LEMMA LeastType ==
    ASSUME NEW m \in Nat, NEW n \in Nat
    PROVE  /\ Least(m, n) \in Nat
           /\ Least(m, n) <= m /\ Least(m, n) <= n
           /\ m > 0 /\ n > 0 => Least(m, n) > 0
           /\ Least(m, n) = m \/ Least(m, n) = n
  BY DEF Least

LEMMA ExtendOpen ==
    ASSUME NEW m \in Nat, NEW w \in Nat, NEW n \in Nat \ {0}
    PROVE  Extend(IF w = 0 THEN Empty ELSE Range(m, w), m + w, n) = Range(m, w + n)
  BY DEF Extend, Empty, Range
-----------------------------------------------------------------------------
LEMMA InitLoopInv == Init => LoopInv
<1> SUFFICES ASSUME Init PROVE LoopInv
  OBVIOUS
<1>1. Empty \in Ranges
  BY RangeType DEF Empty
<1>2. TypeOK
  BY <1>1, SizeAssumption DEF Init, TypeOK
<1> QED BY <1>2 DEF Init, LoopInv, Copying, Loop, Splitting

LEMMA StatLoopInv == LoopInv /\ Stat => LoopInv'
<1> SUFFICES ASSUME LoopInv, Stat PROVE LoopInv'
  OBVIOUS
<1>0. TypeOK /\ Copying /\ pc = "stat"
  BY DEF LoopInv, Stat
<1>1. Empty \in Ranges
  BY RangeType DEF Empty
<1>2. TypeOK'
  <2>1. disk' \in Seq(Ranges) /\ plain' \in Ranges \cup {NoFile}
        /\ pc' \in {"copy", "read"} /\ statted' \in Sizes
    <3>1. CASE pc' = "copy"
      BY <1>0, <1>1, <3>1 DEF TypeOK, Stat
    <3>2. CASE pc' = "read"
      <4>1. disk' = << Empty >> /\ plain' = plain /\ statted' = length
        BY <3>2 DEF Stat
      <4>2. << Empty >> \in Seq(Ranges)
        BY <1>1
      <4> QED BY <1>0, <3>2, <4>1, <4>2 DEF TypeOK
    <3> QED BY <3>1, <3>2 DEF Stat
  <2> QED BY <1>0, <2>1 DEF TypeOK, Stat
<1>3. CASE pc' = "copy"
  <2>1. Copying'
    BY <1>0, <1>3 DEF Stat, Copying, Empty
  <2> QED BY <1>2, <1>3, <2>1 DEF LoopInv, Loop, Splitting
<1>4. CASE pc' = "read"
  <2>1. /\ chunk \in Nat \ {0} /\ chunk' = chunk /\ chunk # NoChunks
        /\ disk' = << Empty >> /\ plain' = NoFile
        /\ idx' = 0 /\ parts' = <<>> /\ written' = 0 /\ total' = 0 /\ ph' = Empty
    BY <1>0, <1>4, ChunkType DEF Stat, Copying
  <2>2. Start(0, chunk) = 0
    BY <2>1, StartStep
  <2>3. FullParts' /\ OpenPart'
    BY <1>4, <2>1, <2>2 DEF FullParts, OpenPart, Reached
  <2>4. Loop'
    BY <1>4, <2>1, <2>3 DEF Loop
  <2> QED BY <1>2, <1>4, <2>4 DEF LoopInv, Copying
<1> QED BY <1>3, <1>4 DEF Stat

LEMMA CopyLoopInv == LoopInv /\ CopyBuffer => LoopInv'
<1> SUFFICES ASSUME LoopInv, CopyBuffer PROVE LoopInv'
  OBVIOUS
<1>0. TypeOK /\ Copying /\ pc = "copy" /\ plain = Range(0, total)
      /\ total \in Nat /\ length \in Nat /\ BufSize \in Nat \ {0}
  BY SizeAssumption DEF LoopInv, CopyBuffer, Copying, TypeOK
<1>1. CASE total < length
  <2>0. ReadSize \in Nat /\ ReadSize > 0
    BY <1>0, <1>1, LeastType DEF ReadSize
  <2>1. total' \in Nat /\ total' = total + ReadSize
    BY <1>0, <1>1, <2>0 DEF CopyBuffer
  <2>2. plain' = Range(0, total')
    <3>1. plain' = Extend(plain, total, ReadSize)
      BY <1>1 DEF CopyBuffer
    <3> QED BY <1>0, <2>0, <2>1, <3>1 DEF Extend, Range
  <2>3. plain' \in Ranges
    BY <2>1, <2>2, RangeType
  <2>4. TypeOK'
    BY <1>0, <1>1, <2>1, <2>3 DEF TypeOK, CopyBuffer
  <2>5. Copying'
    BY <1>0, <1>1, <2>2 DEF Copying, CopyBuffer
  <2> QED BY <1>0, <1>1, <2>4, <2>5 DEF LoopInv, Loop, Splitting, CopyBuffer
<1>2. CASE ~ (total < length)
  BY <1>0, <1>2 DEF LoopInv, TypeOK, Copying, Loop, Splitting, CopyBuffer
<1> QED BY <1>1, <1>2

LEMMA ReadLoopInv == LoopInv /\ ReadBuffer => LoopInv'
<1> SUFFICES ASSUME LoopInv, ReadBuffer PROVE LoopInv'
  OBVIOUS
<1>0. /\ TypeOK /\ pc = "read" /\ Splitting /\ Loop
      /\ total \in Nat /\ length \in Nat /\ BufSize \in Nat \ {0}
  BY SizeAssumption DEF LoopInv, ReadBuffer, Splitting, TypeOK
<1>1. UNCHANGED <<chunk, plain, idx, ph, written, parts, disk>>
  BY DEF ReadBuffer
<1>2. Reached = total
  BY <1>0 DEF Reached
<1>3. CASE total < length
  <2>0. PICK n \in Nat \ {0} : n = ReadSize
    BY <1>0, <1>3, LeastType DEF ReadSize
  <2>1. have' = n /\ total' = total + n /\ off' = 0 /\ pc' = "feed"
    BY <1>3, <2>0 DEF ReadBuffer
  <2>2. Reached' = Reached
    BY <1>0, <1>2, <2>1 DEF Reached, Position
  <2>3. TypeOK'
    BY <1>0, <2>1 DEF TypeOK, ReadBuffer
  <2>4. FullParts' /\ OpenPart'
    BY <1>0, <1>1, <2>2 DEF Loop, FullParts, OpenPart
  <2>5. Loop'
    BY <1>0, <1>1, <2>1, <2>4 DEF Loop
  <2> QED BY <2>1, <2>3, <2>5 DEF LoopInv, Copying
<1>4. CASE ~ (total < length)
  <2>1. UNCHANGED <<have, total, off>> /\ pc' = "close"
    BY <1>4 DEF ReadBuffer
  <2>2. Reached' = Reached
    BY <1>2, <2>1 DEF Reached
  <2>3. TypeOK'
    BY <1>0, <2>1 DEF TypeOK, ReadBuffer
  <2>4. FullParts' /\ OpenPart'
    BY <1>0, <1>1, <2>2 DEF Loop, FullParts, OpenPart
  <2>5. Loop'
    BY <1>0, <1>1, <2>1, <2>4 DEF Loop
  <2> QED BY <2>1, <2>3, <2>5 DEF LoopInv, Copying
<1> QED BY <1>3, <1>4

(* The arithmetic of one segment: it is not empty, fits the open part and  *)
(* the buffer, and continues the open part.                                *)
LEMMA SegmentFits ==
    ASSUME LoopInv, pc = "feed"
    PROVE  /\ Take \in Nat \ {0}
           /\ written + Take <= chunk
           /\ off + Take <= have
           /\ Extend(ph, Position, Take) = Range(Start(idx, chunk), written + Take)
           /\ Position \in Nat
<1>0. /\ TypeOK /\ Loop /\ Splitting /\ OpenPart
      /\ off < have /\ have <= total
      /\ chunk \in Nat \ {0}
      /\ idx \in Nat /\ written \in Nat /\ off \in Nat /\ have \in Nat /\ total \in Nat
  BY ChunkType DEF LoopInv, Loop, Splitting, TypeOK
<1>1. chunk - written \in Nat \ {0} /\ have - off \in Nat \ {0}
  BY <1>0 DEF OpenPart
<1>2. Take \in Nat \ {0} /\ Take <= chunk - written /\ Take <= have - off
  BY <1>1, LeastType DEF Take
<1>3. Position = Start(idx, chunk) + written /\ Position \in Nat
  BY <1>0 DEF OpenPart, Reached, Position
<1>4. Start(idx, chunk) \in Nat
  BY <1>0, StartStep
<1>5. ph = IF written = 0 THEN Empty ELSE Range(Start(idx, chunk), written)
  BY <1>0 DEF OpenPart
<1>6. Extend(ph, Position, Take) = Range(Start(idx, chunk), written + Take)
  BY <1>0, <1>2, <1>3, <1>4, <1>5, ExtendOpen
<1> QED BY <1>0, <1>2, <1>3, <1>6

LEMMA FeedLoopInv == LoopInv /\ FeedSegment => LoopInv'
<1> SUFFICES ASSUME LoopInv, FeedSegment PROVE LoopInv'
  OBVIOUS
<1>0. /\ TypeOK /\ pc = "feed" /\ plain = NoFile /\ chunk # NoChunks
      /\ idx = Len(parts) /\ Len(disk) = idx + 1 /\ FullParts /\ OpenPart
      /\ off < have /\ have <= total
      /\ chunk \in Nat \ {0}
      /\ idx \in Nat /\ written \in Nat /\ off \in Nat /\ have \in Nat /\ total \in Nat
  BY ChunkType DEF LoopInv, FeedSegment, Loop, Splitting, TypeOK
<1>1. PICK n \in Nat \ {0} : n = Take /\ written + n <= chunk /\ off + n <= have
  BY <1>0, SegmentFits
<1>2. PICK s \in Nat : s = Start(idx, chunk)
  BY <1>0, StartStep
<1>3. PICK r \in Ranges : /\ r = Range(s, written + n)
                          /\ r = Extend(ph, Position, Take)
                          /\ r = Extend(disk[idx + 1], Position, Take)
  <2>1. Range(s, written + n) \in Ranges
    BY <1>0, RangeType
  <2>2. disk[idx + 1] = ph
    BY <1>0 DEF OpenPart
  <2> QED BY <1>0, <1>1, <1>2, <2>1, <2>2, SegmentFits
<1>4. /\ off' = off + n
      /\ pc' = (IF off + n < have THEN "feed" ELSE "read")
      /\ UNCHANGED <<chunk, length, statted, total, have, plain, resizes>>
  BY <1>1 DEF FeedSegment
<1>5. Position = s + written
  BY <1>0, <1>2 DEF OpenPart, Reached
<1>6. Reached' = s + written + n
  BY <1>0, <1>1, <1>4, <1>5 DEF Reached, Position
<1> DEFINE fed == [disk EXCEPT ![idx + 1] = r]
<1>7. /\ fed \in Seq(Ranges) /\ Len(fed) = idx + 1 /\ fed[idx + 1] = r
      /\ \A k \in 1 .. idx : fed[k] = disk[k]
  <2>1. disk \in Seq(Ranges) /\ idx + 1 \in DOMAIN disk
    BY <1>0 DEF TypeOK
  <2> QED BY <1>0, <2>1
<1>8. fed = [disk EXCEPT ![idx + 1] = Extend(@, Position, Take)]
  BY <1>3
<1> HIDE DEF fed
<1>9. CASE PartFull
  <2>1. /\ parts' = Append(parts, PartEntry(idx, chunk, r))
        /\ idx' = idx + 1 /\ ph' = Empty /\ written' = 0
        /\ disk' = Append(fed, Empty)
        /\ written + n = chunk
    BY <1>1, <1>3, <1>8, <1>9 DEF FeedSegment, PartFull
  <2>2. Empty \in Ranges
    BY RangeType DEF Empty
  <2>3. PartEntry(idx, chunk, r) \in [path : Nat, bytes : Nat, sha : Ranges]
    BY <1>0 DEF PartEntry
  <2>4. parts \in Seq([path : Nat, bytes : Nat, sha : Ranges])
    BY <1>0 DEF TypeOK
  <2>5. /\ parts' \in Seq([path : Nat, bytes : Nat, sha : Ranges])
        /\ Len(parts') = idx + 1
        /\ parts'[idx + 1] = PartEntry(idx, chunk, r)
        /\ \A k \in 1 .. idx : parts'[k] = parts[k]
    BY <1>0, <2>1, <2>3, <2>4
  <2>6. /\ disk' \in Seq(Ranges) /\ Len(disk') = idx + 2
        /\ disk'[idx + 2] = Empty /\ disk'[idx + 1] = r
        /\ \A k \in 1 .. idx : disk'[k] = disk[k]
    BY <1>0, <1>7, <2>1, <2>2
  <2>7. TypeOK'
    BY <1>0, <1>4, <2>1, <2>2, <2>5, <2>6 DEF TypeOK
  <2>8. Start(idx + 1, chunk) = s + chunk
    BY <1>0, <1>2, StartStep
  <2>9. FullParts'
    <3>1. \A k \in 1 .. idx + 1 :
            /\ parts'[k] = PartEntry(k - 1, chunk, Range(Start(k - 1, chunk), chunk))
            /\ disk'[k] = parts'[k].sha
      <4>1. TAKE k \in 1 .. idx + 1
      <4>2. CASE k \in 1 .. idx
        BY <1>0, <2>5, <2>6, <4>2 DEF FullParts
      <4>3. CASE k = idx + 1
        BY <1>0, <1>2, <1>3, <2>1, <2>5, <2>6, <4>3 DEF PartEntry
      <4> QED BY <1>0, <4>1, <4>2, <4>3
    <3> QED BY <1>4, <2>1, <3>1 DEF FullParts
  <2>10. OpenPart'
    BY <1>0, <1>4, <1>6, <2>1, <2>6, <2>8 DEF OpenPart
  <2>11. Loop'
    BY <1>0, <1>1, <1>4, <2>1, <2>5, <2>6, <2>9, <2>10 DEF Loop
  <2> QED BY <1>4, <2>7, <2>11 DEF LoopInv, Copying
<1>10. CASE ~ PartFull
  <2>1. /\ UNCHANGED <<parts, idx>> /\ ph' = r /\ written' = written + n
        /\ disk' = fed
        /\ written + n < chunk
    BY <1>0, <1>1, <1>3, <1>8, <1>10 DEF FeedSegment, PartFull
  <2>2. TypeOK'
    BY <1>0, <1>4, <1>7, <2>1 DEF TypeOK
  <2>3. FullParts'
    BY <1>0, <1>4, <1>7, <2>1 DEF FullParts
  <2>4. OpenPart'
    <3>1. written + n # 0 /\ written + n \in Nat
      BY <1>0, <1>1
    <3>2. ph' = Range(Start(idx, chunk), written') /\ written' # 0
      BY <1>2, <1>3, <2>1, <3>1
    <3>3. disk'[idx + 1] = ph'
      BY <1>7, <2>1
    <3>4. Reached' = Start(idx, chunk) + written'
      BY <1>0, <1>1, <1>2, <1>6, <2>1
    <3> QED BY <1>4, <2>1, <3>2, <3>3, <3>4 DEF OpenPart
  <2>5. Loop'
    BY <1>0, <1>1, <1>4, <1>7, <2>1, <2>3, <2>4 DEF Loop
  <2> QED BY <1>4, <2>2, <2>5 DEF LoopInv, Copying
<1> QED BY <1>9, <1>10

(* How a split ends: with the part that was open, or without it when it is *)
(* empty and not the only one.                                             *)
LEMMA CloseEffect ==
    ASSUME LoopInv, CloseParts
    PROVE  /\ pc = "close" /\ pc' = "done" /\ plain = NoFile /\ chunk \in Nat \ {0}
           /\ UNCHANGED <<chunk, length, statted, total, have, off, idx, ph,
                          written, plain, resizes>>
           /\ idx \in Nat /\ written \in Nat /\ written < chunk
           /\ total = Start(idx, chunk) + written
           /\ FullParts /\ idx = Len(parts) /\ Len(disk) = idx + 1
           /\ disk[idx + 1] = Range(Start(idx, chunk), written) \/ written = 0
           /\ \/ /\ written > 0 \/ idx = 0
                 /\ Len(parts') = idx + 1 /\ disk' = disk
                 /\ parts' = Append(parts, PartEntry(idx, written, ph))
                 /\ parts'[idx + 1] =
                      PartEntry(idx, written, Range(Start(idx, chunk), written))
                 /\ ph = Range(Start(idx, chunk), written)
                 /\ disk[idx + 1] = ph
                 /\ \A k \in 1 .. idx : parts'[k] = parts[k]
              \/ /\ written = 0 /\ idx > 0
                 /\ parts' = parts
                 /\ Len(disk') = idx
                 /\ \A k \in 1 .. idx : disk'[k] = disk[k]
           /\ parts' \in Seq([path : Nat, bytes : Nat, sha : Ranges])
           /\ disk' \in Seq(Ranges)
<1>0. /\ TypeOK /\ pc = "close" /\ plain = NoFile /\ chunk # NoChunks
      /\ idx = Len(parts) /\ Len(disk) = idx + 1 /\ FullParts /\ OpenPart
      /\ chunk \in Nat \ {0} /\ idx \in Nat /\ written \in Nat /\ ph \in Ranges
      /\ parts \in Seq([path : Nat, bytes : Nat, sha : Ranges])
      /\ disk \in Seq(Ranges)
  BY ChunkType DEF LoopInv, CloseParts, Loop, Splitting, TypeOK
<1>1. /\ pc' = "done"
      /\ UNCHANGED <<chunk, length, statted, total, have, off, idx, ph,
                     written, plain, resizes>>
  BY DEF CloseParts
<1>2. written < chunk /\ total = Start(idx, chunk) + written /\ disk[idx + 1] = ph
      /\ ph = IF written = 0 THEN Empty ELSE Range(Start(idx, chunk), written)
  BY <1>0 DEF OpenPart, Reached
<1>3. CASE Declare
  <2>1. written > 0 \/ idx = 0
    BY <1>0, <1>3 DEF Declare
  <2>2. ph = Range(Start(idx, chunk), written)
    BY <1>0, <1>2, <2>1, StartStep DEF Empty
  <2>3. parts' = Append(parts, PartEntry(idx, written, ph)) /\ disk' = disk
    BY <1>3 DEF CloseParts
  <2>4. PartEntry(idx, written, ph) \in [path : Nat, bytes : Nat, sha : Ranges]
    BY <1>0 DEF PartEntry
  <2>5. /\ Len(parts') = idx + 1
        /\ parts'[idx + 1] = PartEntry(idx, written, ph)
        /\ \A k \in 1 .. idx : parts'[k] = parts[k]
        /\ parts' \in Seq([path : Nat, bytes : Nat, sha : Ranges])
    BY <1>0, <2>3, <2>4
  <2> QED BY <1>0, <1>1, <1>2, <2>1, <2>2, <2>3, <2>5
<1>4. CASE ~ Declare
  <2>1. written = 0 /\ idx > 0
    BY <1>0, <1>4 DEF Declare
  <2>2. parts' = parts /\ disk' = SubSeq(disk, 1, idx)
    BY <1>0, <1>4 DEF CloseParts, DropTrailing
  <2>3. /\ disk' \in Seq(Ranges) /\ Len(disk') = idx
        /\ \A k \in 1 .. idx : disk'[k] = disk[k]
    BY <1>0, <2>1, <2>2
  <2> QED BY <1>0, <1>1, <1>2, <2>1, <2>2, <2>3
<1> QED BY <1>3, <1>4

Working == pc \notin {"done", "failed"}

(* While the writer works, every part file is within the chunk size. *)
LEMMA LoopFits ==
    LoopInv /\ Working => NoPartTooLong
<1> SUFFICES ASSUME LoopInv, Working PROVE NoPartTooLong
  OBVIOUS
<1>1. CASE Splitting
  <2>1. TypeOK /\ Loop /\ FullParts /\ OpenPart /\ Len(disk) = idx + 1
        /\ idx \in Nat /\ disk \in Seq(Ranges) /\ chunk \in Nat /\ written \in Nat
    BY <1>1, ChunkType DEF LoopInv, Loop, TypeOK
  <2>2. \A k \in 1 .. idx : disk[k].bytes = chunk
    <3>1. TAKE k \in 1 .. idx
    <3>2. /\ parts[k] = PartEntry(k - 1, chunk, Range(Start(k - 1, chunk), chunk))
          /\ disk[k] = parts[k].sha
      BY <2>1, <3>1 DEF FullParts
    <3>3. disk[k] = Range(Start(k - 1, chunk), chunk)
      BY <3>2 DEF PartEntry
    <3> QED BY <3>3 DEF Range
  <2>3. disk[idx + 1].bytes <= chunk
    <3>1. CASE written = 0
      BY <2>1, <3>1 DEF OpenPart, Empty, Range
    <3>2. CASE written # 0
      BY <2>1, <3>2 DEF OpenPart, Range
    <3> QED BY <3>1, <3>2
  <2>4. DOMAIN disk = 1 .. idx + 1
    BY <2>1
  <2> QED BY <2>1, <2>2, <2>3, <2>4 DEF NoPartTooLong
<1>2. CASE ~ Splitting
  BY <1>2 DEF LoopInv, TypeOK, Splitting, Copying, Working, NoPartTooLong
<1> QED BY <1>1, <1>2

SplitInv == LoopInv /\ NoPartTooLong /\ PartsTile /\ DiskAsDeclared

LEMMA CloseSplitInv == SplitInv /\ CloseParts => SplitInv'
<1> SUFFICES ASSUME SplitInv, CloseParts PROVE SplitInv'
  OBVIOUS
<1>0. LoopInv /\ TypeOK /\ NoPartTooLong
  BY DEF SplitInv, LoopInv
<1>1. LoopInv'
  BY <1>0, CloseEffect DEF LoopInv, TypeOK, Copying, Loop, Splitting
<1>2. PICK s \in Nat : s = Start(idx, chunk)
  BY <1>0, CloseEffect, StartStep
<1>3. \A k \in 1 .. idx :
        /\ parts[k] = PartEntry(k - 1, chunk, Range(Start(k - 1, chunk), chunk))
        /\ disk[k] = parts[k].sha
        /\ parts[k].bytes = chunk /\ parts[k].path = k - 1
        /\ parts[k].sha = Range(parts[k].sha.first, parts[k].bytes)
        /\ parts[k].sha.first = Start(k - 1, chunk)
        /\ Start(k - 1, chunk) + chunk = Start(k, chunk)
  <2>1. TAKE k \in 1 .. idx
  <2>2. k - 1 \in Nat /\ chunk \in Nat
    BY <1>0, <2>1, CloseEffect
  <2>3. Start(k - 1 + 1, chunk) = Start(k - 1, chunk) + chunk
    BY <2>2, StartStep
  <2>4. /\ parts[k] = PartEntry(k - 1, chunk, Range(Start(k - 1, chunk), chunk))
        /\ disk[k] = parts[k].sha
    BY <1>0, <2>1, CloseEffect DEF FullParts
  <2> QED BY <2>1, <2>2, <2>3, <2>4 DEF PartEntry, Range
<1>6. Start(0, chunk) = 0
  BY <1>0, CloseEffect, StartStep
<1>4. CASE written > 0 \/ idx = 0
  <2>1. /\ Len(parts') = idx + 1 /\ disk' = disk /\ Len(disk) = idx + 1
        /\ parts'[idx + 1] = PartEntry(idx, written, Range(s, written))
        /\ disk[idx + 1] = Range(s, written)
        /\ \A k \in 1 .. idx : parts'[k] = parts[k]
        /\ idx \in Nat /\ chunk \in Nat \ {0} /\ written \in Nat
        /\ plain' = plain /\ plain = NoFile /\ chunk' = chunk /\ pc' = "done"
        /\ total' = s + written
        /\ DOMAIN parts' = 1 .. idx + 1 /\ DOMAIN disk' = 1 .. idx + 1
        /\ parts' # <<>>
    BY <1>0, <1>2, <1>4, CloseEffect
  <2>2. /\ parts'[idx + 1].bytes = written /\ parts'[idx + 1].path = idx
        /\ parts'[idx + 1].sha = Range(s, written)
        /\ parts'[idx + 1].sha.first = s
    BY <2>1 DEF PartEntry, Range
  <2>3. NoPartTooLong'
    BY <1>0, <2>1 DEF NoPartTooLong
  <2>4. DiskAsDeclared'
    <3>1. \A k \in 1 .. idx + 1 :
            parts'[k].path = k - 1 /\ disk'[k] = parts'[k].sha
      <4>1. TAKE k \in 1 .. idx + 1
      <4>2. CASE k = idx + 1
        <5>1. k - 1 = idx
          BY <2>1, <4>2
        <5> QED BY <2>1, <2>2, <4>2, <5>1
      <4>3. CASE k # idx + 1
        <5>1. k \in 1 .. idx
          BY <2>1, <4>1, <4>3
        <5> QED BY <1>3, <2>1, <5>1
      <4> QED BY <4>2, <4>3
    <3> QED BY <2>1, <3>1 DEF DiskAsDeclared
  <2>5. PartsTile'
    <3>1. parts'[1].sha.first = 0
      <4>1. CASE idx = 0
        BY <1>2, <1>6, <2>1, <2>2, <4>1
      <4>2. CASE idx # 0
        <5>1. 1 \in 1 .. idx /\ 1 - 1 = 0
          BY <2>1, <4>2
        <5> QED BY <1>3, <1>6, <2>1, <5>1
      <4> QED BY <4>1, <4>2
    <3>2. \A k \in 1 .. idx : parts'[k + 1].sha.first = parts'[k].sha.first + parts'[k].bytes
      <4>1. TAKE k \in 1 .. idx
      <4>2. CASE k = idx
        BY <1>2, <1>3, <2>1, <2>2, <4>2
      <4>3. CASE k # idx
        <5>1. k + 1 \in 1 .. idx /\ k + 1 - 1 = k
          BY <2>1, <4>1, <4>3
        <5> QED BY <1>3, <2>1, <4>1, <5>1
      <4> QED BY <4>2, <4>3
    <3>3. \A k \in 1 .. idx + 1 :
            /\ parts'[k].sha = Range(parts'[k].sha.first, parts'[k].bytes)
            /\ parts'[k].bytes = 0 => idx = 0
      BY <1>3, <1>4, <2>1, <2>2, SMTT(30)
    <3>4. total' = parts'[idx + 1].sha.first + parts'[idx + 1].bytes
      BY <2>1, <2>2
    <3>5. Len(parts') = idx + 1 /\ Len(parts') - 1 = idx
      BY <2>1
    <3>6. \A k \in 1 .. idx + 1 : parts'[k].bytes = 0 => Len(parts') = 1
      BY <2>1, <3>3
    <3> QED BY <2>1, <3>1, <3>2, <3>3, <3>4, <3>5, <3>6 DEF PartsTile
  <2> QED BY <1>1, <2>3, <2>4, <2>5 DEF SplitInv
<1>5. CASE ~ (written > 0 \/ idx = 0)
  <2>1. /\ parts' = parts /\ Len(parts) = idx /\ Len(disk') = idx
        /\ \A k \in 1 .. idx : disk'[k] = disk[k]
        /\ idx \in Nat \ {0} /\ chunk \in Nat \ {0} /\ written = 0
        /\ plain' = plain /\ plain = NoFile /\ chunk' = chunk /\ pc' = "done"
        /\ total' = s
        /\ DOMAIN parts = 1 .. idx /\ DOMAIN disk' = 1 .. idx
        /\ DOMAIN disk = 1 .. idx + 1
        /\ parts' # <<>>
    BY <1>0, <1>2, <1>5, CloseEffect DEF TypeOK
  <2>2. NoPartTooLong'
    BY <1>0, <2>1 DEF NoPartTooLong
  <2>3. DiskAsDeclared'
    BY <1>3, <2>1 DEF DiskAsDeclared
  <2>4. PartsTile'
    <3>1. parts'[1].sha.first = 0
      <4>1. 1 \in 1 .. idx /\ 1 - 1 = 0
        BY <2>1
      <4> QED BY <1>3, <1>6, <2>1, <4>1
    <3>2. \A k \in 1 .. idx - 1 :
            parts'[k + 1].sha.first = parts'[k].sha.first + parts'[k].bytes
      <4>1. TAKE k \in 1 .. idx - 1
      <4>2. k + 1 \in 1 .. idx /\ k \in 1 .. idx /\ k + 1 - 1 = k
        BY <2>1, <4>1
      <4> QED BY <1>3, <2>1, <4>2
    <3>3. \A k \in 1 .. idx :
            /\ parts'[k].sha = Range(parts'[k].sha.first, parts'[k].bytes)
            /\ parts'[k].bytes # 0
      BY <1>3, <2>1
    <3>4. total' = parts'[idx].sha.first + parts'[idx].bytes
      BY <1>2, <1>3, <2>1
    <3> QED BY <2>1, <3>1, <3>2, <3>3, <3>4 DEF PartsTile
  <2> QED BY <1>1, <2>2, <2>3, <2>4 DEF SplitInv
<1> QED BY <1>4, <1>5

LEMMA StepSplitInv == SplitInv /\ [Next]_vars => SplitInv'
<1> SUFFICES ASSUME SplitInv, [Next]_vars PROVE SplitInv'
  OBVIOUS
<1>0. LoopInv
  BY DEF SplitInv
<1>1. CASE Stat
  <2>1. LoopInv' /\ Working'
    BY <1>0, <1>1, StatLoopInv DEF Stat, Working
  <2>2. NoPartTooLong'
    BY <2>1, LoopFits, PTL
  <2> QED BY <2>1, <2>2 DEF SplitInv, PartsTile, DiskAsDeclared, Working
<1>2. CASE ReadBuffer
  <2>1. LoopInv' /\ Working'
    BY <1>0, <1>2, ReadLoopInv DEF ReadBuffer, Working
  <2>2. NoPartTooLong'
    BY <2>1, LoopFits, PTL
  <2> QED BY <2>1, <2>2 DEF SplitInv, PartsTile, DiskAsDeclared, Working
<1>3. CASE FeedSegment
  <2>1. LoopInv' /\ Working'
    BY <1>0, <1>3, FeedLoopInv DEF FeedSegment, Working
  <2>2. NoPartTooLong'
    BY <2>1, LoopFits, PTL
  <2> QED BY <2>1, <2>2 DEF SplitInv, PartsTile, DiskAsDeclared, Working
<1>4. CASE CopyBuffer
  <2>1. LoopInv'
    BY <1>0, <1>4, CopyLoopInv
  <2>2. parts' = <<>> /\ disk' = <<>> /\ plain = Range(0, total) /\ total \in Nat
    BY <1>0, <1>4 DEF LoopInv, Copying, CopyBuffer, TypeOK
  <2>3. plain # NoFile
    BY <2>2, RangeType, SizeAssumption DEF Ranges
  <2>4. CASE total < length
    <3>1. pc' = "copy"
      BY <1>4, <2>4 DEF CopyBuffer
    <3> QED
      BY <2>1, <2>2, <3>1 DEF SplitInv, PartsTile, DiskAsDeclared, NoPartTooLong
  <2>5. CASE ~ (total < length)
    <3>1. pc' = "done" /\ plain' = plain /\ total' = total
      BY <1>4, <2>5 DEF CopyBuffer
    <3> QED
      BY <2>1, <2>2, <2>3, <3>1
      DEF SplitInv, PartsTile, DiskAsDeclared, NoPartTooLong
  <2> QED BY <2>4, <2>5
<1>5. CASE CloseParts
  BY <1>5, CloseSplitInv
<1>6. CASE Fail
  BY <1>6 DEF Fail, loop, SplitInv, LoopInv, TypeOK, Copying, Loop, Splitting,
              NoPartTooLong, PartsTile, DiskAsDeclared
<1>7. CASE Resize \/ UNCHANGED vars
  <2>1. UNCHANGED <<chunk, pc, loop, plain>>
        /\ length' \in Sizes /\ statted' = statted /\ resizes' \in Nat
    BY <1>0, <1>7 DEF Resize, vars, LoopInv, TypeOK
  <2>2. LoopInv'
    BY <1>0, <2>1 DEF loop, LoopInv, TypeOK, Copying, Loop, Splitting, FullParts,
                      OpenPart, Reached, Position
  <2> QED
    BY <2>1, <2>2 DEF loop, SplitInv, NoPartTooLong, PartsTile, DiskAsDeclared
<1> QED BY <1>1, <1>2, <1>3, <1>4, <1>5, <1>6, <1>7 DEF Next, Step

(* Whatever the sizes of the file, the chunk and the buffer, and however    *)
(* the source changes its length meanwhile: the types hold, no part file    *)
(* exceeds the chunk, a finished split tiles what was read, and the disk    *)
(* holds exactly the parts that are declared (pack.py:137-183).             *)
THEOREM SplitCorrect ==
    Spec => [](TypeOK /\ NoPartTooLong /\ PartsTile /\ DiskAsDeclared)
<1>1. Init => SplitInv
  BY InitLoopInv DEF Init, SplitInv, NoPartTooLong, PartsTile, DiskAsDeclared
<1>2. SplitInv /\ [Next]_vars => SplitInv'
  BY StepSplitInv
<1>3. SplitInv => TypeOK /\ NoPartTooLong /\ PartsTile /\ DiskAsDeclared
  BY DEF SplitInv, LoopInv
<1> QED
  BY <1>1, <1>2, <1>3, PTL DEF Spec

(* The writer keeps its types: offsets, part numbers and sizes stay natural *)
(* numbers whatever is read (pack.py:137-183).                              *)
THEOREM TypesKept == Spec => []TypeOK
  BY SplitCorrect, PTL

(* No part file, the one being written included, exceeds --chunk-size, for  *)
(* every chunk size and buffer size (pack.py:163-175).                      *)
THEOREM PartsFit == Spec => []NoPartTooLong
  BY SplitCorrect, PTL

(* The parts on the disk are the declared ones, whatever became of the      *)
(* source while it was read and wherever it ended (pack.py:175-179).        *)
THEOREM DiskMatches == Spec => []DiskAsDeclared
  BY SplitCorrect, PTL

-----------------------------------------------------------------------------
(* The number of parts.  The quotient of an offset inside chunk q is q.     *)
LEMMA QuotientOf ==
    ASSUME NEW c \in Nat \ {0}, NEW q \in Nat, NEW r \in 0 .. c - 1
    PROVE  (Start(q, c) + r) \div c = q
  BY DEF Start

(* While the source keeps its length, no more is read than there was.      *)
LengthInv ==
    resizes = 0 =>
      /\ pc \notin {"stat", "failed"} => statted = length
      /\ total <= length
      /\ pc \in {"close", "done"} => total = length
      /\ pc = "copy" \/ (pc = "done" /\ plain # NoFile) =>
           parts = <<>> /\ (chunk = NoChunks \/ length <= chunk)
      /\ Splitting => length > chunk
      /\ pc = "done" /\ plain = NoFile => Len(parts) = PartCount(length, chunk)

LEMMA StepLengthInv == LoopInv /\ LengthInv /\ [Next]_vars => LengthInv'
<1> SUFFICES ASSUME LoopInv, LengthInv, [Next]_vars PROVE LengthInv'
  OBVIOUS
<1>0. TypeOK /\ Copying /\ total \in Nat /\ length \in Nat /\ resizes \in Nat
  BY SizeAssumption DEF LoopInv, TypeOK
<1>1. CASE Stat
  BY <1>0, <1>1, ChunkType DEF Stat, LengthInv, Copying, Splitting
<1>2. CASE CopyBuffer
  <2>1. plain # NoFile /\ parts = <<>>
    BY <1>0, <1>2, RangeType, SizeAssumption DEF CopyBuffer, Copying, Ranges
  <2>2. CASE total < length
    <3>1. PICK n \in Nat : n = ReadSize /\ n <= length - total
      BY <1>0, <2>2, LeastType, SizeAssumption DEF ReadSize
    <3>2. total' = total + n /\ total' <= length /\ pc' = "copy"
      BY <1>0, <1>2, <2>2, <3>1 DEF CopyBuffer
    <3> QED BY <1>2, <2>1, <3>2 DEF CopyBuffer, LengthInv, Splitting
  <2>3. CASE ~ (total < length)
    BY <1>0, <1>2, <2>1, <2>3 DEF CopyBuffer, LengthInv, Splitting
  <2> QED BY <2>2, <2>3
<1>3. CASE ReadBuffer
  <2>1. CASE total < length
    <3>1. PICK n \in Nat : n = ReadSize /\ n <= length - total
      BY <1>0, <2>1, LeastType, SizeAssumption DEF ReadSize
    <3>2. total' = total + n /\ total' <= length /\ pc' = "feed"
      BY <1>0, <1>3, <2>1, <3>1 DEF ReadBuffer
    <3> QED BY <1>3, <3>2 DEF ReadBuffer, LengthInv, Splitting
  <2>2. CASE ~ (total < length)
    BY <1>0, <1>3, <2>2 DEF ReadBuffer, LengthInv, Splitting
  <2> QED BY <2>1, <2>2
<1>4. CASE FeedSegment
  BY <1>4 DEF FeedSegment, LengthInv, Splitting
<1>5. CASE CloseParts
  <2> SUFFICES ASSUME resizes = 0 PROVE LengthInv'
    BY <1>5 DEF CloseParts, LengthInv
  <2>1. /\ pc' = "done" /\ plain' = plain /\ plain = NoFile
        /\ chunk \in Nat \ {0} /\ chunk' = chunk /\ length' = length
        /\ total' = total /\ statted' = statted
        /\ idx \in Nat /\ written \in Nat /\ written < chunk
        /\ total = Start(idx, chunk) + written
    BY <1>5, CloseEffect
  <2>2. statted = length /\ total = length /\ length > chunk
    BY <1>5 DEF CloseParts, LengthInv, Splitting
  <2>3. PartCount(length, chunk) = (length + chunk - 1) \div chunk
    BY <2>1, <2>2, <1>0, SizeAssumption DEF PartCount
  <2>4. Start(idx, chunk) \in Nat /\ Start(idx + 1, chunk) = Start(idx, chunk) + chunk
    BY <2>1, StartStep
  <2>5. CASE written > 0 \/ idx = 0
    <3>1. written > 0
      BY <2>1, <2>2, <2>5, StartStep
    <3>2. length + chunk - 1 = Start(idx + 1, chunk) + (written - 1)
      BY <2>1, <2>2, <2>4
    <3>3. written - 1 \in 0 .. chunk - 1 /\ idx + 1 \in Nat
      BY <2>1, <3>1
    <3>4. (length + chunk - 1) \div chunk = idx + 1
      BY <2>1, <3>2, <3>3, QuotientOf
    <3>5. Len(parts') = idx + 1
      BY <1>5, <2>5, CloseEffect
    <3> QED BY <2>1, <2>2, <2>3, <3>4, <3>5 DEF LengthInv, Splitting
  <2>6. CASE ~ (written > 0 \/ idx = 0)
    <3>1. written = 0
      BY <2>1, <2>6
    <3>2. length + chunk - 1 = Start(idx, chunk) + (chunk - 1)
      BY <2>1, <2>2, <2>4, <3>1
    <3>3. chunk - 1 \in 0 .. chunk - 1
      BY <2>1
    <3>4. (length + chunk - 1) \div chunk = idx
      BY <2>1, <3>2, <3>3, QuotientOf
    <3>5. Len(parts') = idx
      BY <1>5, <2>6, CloseEffect
    <3> QED BY <2>1, <2>2, <2>3, <3>4, <3>5 DEF LengthInv, Splitting
  <2> QED BY <2>5, <2>6
<1>6. CASE Fail
  BY <1>6 DEF Fail, loop, LengthInv, Splitting
<1>7. CASE Resize
  BY <1>0, <1>7 DEF Resize, LengthInv
<1>8. CASE UNCHANGED vars
  BY <1>8 DEF vars, loop, LengthInv, Splitting
<1> QED BY <1>1, <1>2, <1>3, <1>4, <1>5, <1>6, <1>7, <1>8 DEF Next, Step

(* A source that keeps its length is read to its end and split into exactly *)
(* the number of parts on which the pre-flight check relied                 *)
(* (pack.py:52-55 and 137-183 agree for every size).                        *)
THEOREM PredictionHolds == Spec => []CountAsPredicted
<1>1. Init => LoopInv /\ LengthInv
  BY InitLoopInv, SizeAssumption DEF Init, LengthInv, Splitting
<1>2. LoopInv /\ LengthInv /\ [Next]_vars => LengthInv'
  BY StepLengthInv
<1>3. SplitInv /\ [Next]_vars => SplitInv'
  BY StepSplitInv
<1>4. Init => SplitInv
  BY InitLoopInv DEF Init, SplitInv, NoPartTooLong, PartsTile, DiskAsDeclared
<1>5. SplitInv => LoopInv
  BY DEF SplitInv
<1>6. LoopInv /\ LengthInv => CountAsPredicted
  <2> SUFFICES ASSUME LoopInv, LengthInv, pc = "done", resizes = 0
               PROVE  Len(parts) = PartCount(length, chunk) /\ total = length
    BY DEF CountAsPredicted
  <2>1. CASE plain = NoFile
    BY <2>1 DEF LengthInv
  <2>2. CASE plain # NoFile
    BY <2>2 DEF LengthInv, PartCount
  <2> QED BY <2>1, <2>2
<1> QED
  BY <1>1, <1>2, <1>3, <1>4, <1>5, <1>6, PTL DEF Spec
-----------------------------------------------------------------------------
(* Every step of the buffered writer is a step of PartPlan or none.        *)
LEMMA PlanStep == LoopInv /\ [Next]_vars => [Plan!Next]_(Plan!vars)
<1> SUFFICES ASSUME LoopInv, [Next]_vars PROVE [Plan!Next]_(Plan!vars)
  OBVIOUS
<1>0. TypeOK /\ Copying /\ Loop
  BY DEF LoopInv
<1> DEFINE c == IF chunk = NoChunks THEN 1 ELSE chunk
           ended == pc = "done" /\ plain = NoFile
<1>1. CASE Stat
  <2>1. chunk' = chunk /\ parts' = parts /\ ~ ended /\ ~ ended'
    BY <1>1 DEF Stat
  <2> QED BY <2>1 DEF Plan!vars
<1>2. CASE CopyBuffer
  <2>1. plain # NoFile
    BY <1>0, <1>2, RangeType, SizeAssumption DEF CopyBuffer, Copying, Ranges, TypeOK
  <2>2. chunk' = chunk /\ parts' = parts /\ ~ ended
    BY <1>2, <2>1 DEF CopyBuffer
  <2>3. ~ ended'
    <3>1. CASE total < length
      BY <1>2, <3>1 DEF CopyBuffer
    <3>2. CASE ~ (total < length)
      BY <1>2, <2>1, <3>2 DEF CopyBuffer
    <3> QED BY <3>1, <3>2
  <2> QED BY <2>2, <2>3 DEF Plan!vars
<1>3. CASE ReadBuffer
  <2>1. chunk' = chunk /\ parts' = parts /\ ~ ended /\ ~ ended'
    BY <1>3 DEF ReadBuffer
  <2> QED BY <2>1 DEF Plan!vars
<1>4. CASE FeedSegment
  <2>1. ~ ended /\ ~ ended' /\ chunk' = chunk /\ chunk # NoChunks
        /\ chunk \in Nat \ {0} /\ idx = Len(parts) /\ idx \in Nat
    BY <1>0, <1>4, ChunkType DEF FeedSegment, Loop, Splitting, TypeOK
  <2>2. CASE PartFull
    <3>1. Extend(ph, Position, Take) = Range(Start(idx, chunk), written + Take)
      BY <1>4, SegmentFits DEF FeedSegment
    <3>2. parts' = Append(parts, PartEntry(idx, chunk, Range(Start(idx, chunk), chunk)))
      BY <1>4, <2>2, <3>1 DEF FeedSegment, PartFull
    <3>3. PartEntry(idx, chunk, Range(Start(idx, chunk), chunk))
            = Plan!PartEntry(idx, Plan!Start(idx, chunk), chunk)
      BY DEF PartEntry, Range, Start, Plan!PartEntry, Plan!Range, Plan!Start
    <3>4. Plan!FullPart
      BY <2>1, <3>2, <3>3 DEF Plan!FullPart
    <3> QED BY <3>4 DEF Plan!Next
  <2>3. CASE ~ PartFull
    <3>1. parts' = parts
      BY <1>4, <2>3 DEF FeedSegment
    <3> QED BY <2>1, <3>1 DEF Plan!vars
  <2> QED BY <2>2, <2>3
<1>5. CASE CloseParts
  <2>1. /\ ~ ended /\ ended' /\ chunk' = chunk /\ chunk # NoChunks
        /\ chunk \in Nat \ {0} /\ idx = Len(parts) /\ idx \in Nat
        /\ written \in Nat /\ written < chunk
    BY <1>5, CloseEffect, SizeAssumption
  <2>2. CASE written > 0 \/ idx = 0
    <3>1. parts' = Append(parts, PartEntry(idx, written, Range(Start(idx, chunk), written)))
      BY <1>5, <2>2, CloseEffect
    <3>2. PartEntry(idx, written, Range(Start(idx, chunk), written))
            = Plan!PartEntry(idx, Plan!Start(idx, chunk), written)
      BY DEF PartEntry, Range, Start, Plan!PartEntry, Plan!Range, Plan!Start
    <3>3. written > 0 \/ parts = <<>>
      BY <1>0, <2>1, <2>2 DEF TypeOK
    <3>4. written \in 0 .. chunk - 1
      BY <2>1
    <3>5. Plan!LastPart
      BY <2>1, <3>1, <3>2, <3>3, <3>4 DEF Plan!LastPart
    <3> QED BY <3>5 DEF Plan!Next
  <2>3. CASE ~ (written > 0 \/ idx = 0)
    <3>1. parts' = parts /\ parts # <<>>
      BY <1>5, <2>1, <2>3, CloseEffect
    <3>2. Plan!NoLastPart
      BY <2>1, <3>1 DEF Plan!NoLastPart
    <3> QED BY <3>2 DEF Plan!Next
  <2> QED BY <2>2, <2>3
<1>6. CASE Fail
  <2>1. chunk' = chunk /\ parts' = parts /\ ~ ended /\ ~ ended'
    BY <1>6 DEF Fail, loop
  <2> QED BY <2>1 DEF Plan!vars
<1>7. CASE Resize \/ UNCHANGED vars
  <2>1. chunk' = chunk /\ parts' = parts /\ ended' = ended
    BY <1>7 DEF Resize, vars, loop
  <2> QED BY <2>1 DEF Plan!vars
<1> QED BY <1>1, <1>2, <1>3, <1>4, <1>5, <1>6, <1>7 DEF Next, Step

(* The writer implements PartPlan: whatever the buffers, the parts it       *)
(* declares are consecutive full chunks followed by the rest.               *)
THEOREM PlanImplemented == Spec => ImplementsPlan
<1>1. Init => Plan!Init
  BY ChunkType, InitLoopInv DEF Init, Plan!Init, LoopInv
<1>2. LoopInv /\ [Next]_vars => [Plan!Next]_(Plan!vars)
  BY PlanStep
<1>3. SplitInv /\ [Next]_vars => SplitInv'
  BY StepSplitInv
<1>4. Init => SplitInv
  BY InitLoopInv DEF Init, SplitInv, NoPartTooLong, PartsTile, DiskAsDeclared
<1>5. SplitInv => LoopInv
  BY DEF SplitInv
<1> QED
  BY <1>1, <1>2, <1>3, <1>4, <1>5, PTL DEF Spec, ImplementsPlan, Plan!Spec
=============================================================================
