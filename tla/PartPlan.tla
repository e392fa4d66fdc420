------------------------------ MODULE PartPlan ------------------------------
(***************************************************************************)
(* What splitting a file promises (SPEC.md section 8), without buffers,    *)
(* offsets or a part that may turn out to be one too many: parts are       *)
(* declared one after the other, each a full chunk that begins where the   *)
(* one before it ended, and the last holds whatever the file still has.    *)
(*                                                                         *)
(* A part is a record [path, bytes, sha]: path is the number in its name   *)
(* and sha, its hash, is represented by the stretch of the source it       *)
(* hashes (gaps counts where it is not one stretch).                       *)
(***************************************************************************)
EXTENDS Naturals, Sequences

VARIABLES chunk, parts, closed

vars == <<chunk, parts, closed>>

Range(from, n) == [first |-> from, bytes |-> n, gaps |-> 0]

PartEntry(k, from, n) == [path |-> k, bytes |-> n, sha |-> Range(from, n)]

\* Where part k of a file in chunks of c begins.
Start(k, c) == k * c

Init ==
    /\ chunk \in Nat \ {0}
    /\ parts = <<>>
    /\ closed = FALSE

FullPart ==
    /\ ~ closed
    /\ parts' = Append(parts, PartEntry(Len(parts), Start(Len(parts), chunk), chunk))
    /\ UNCHANGED <<chunk, closed>>

\* The file ended in the middle of a part, or it was empty.
LastPart ==
    /\ ~ closed
    /\ \E n \in 0 .. chunk - 1 :
         /\ n > 0 \/ parts = <<>>
         /\ parts' = Append(parts, PartEntry(Len(parts), Start(Len(parts), chunk), n))
    /\ closed' = TRUE
    /\ UNCHANGED chunk

\* The file ended where a part ended.
NoLastPart ==
    /\ ~ closed
    /\ parts # <<>>
    /\ closed' = TRUE
    /\ UNCHANGED <<chunk, parts>>

Next == FullPart \/ LastPart \/ NoLastPart

Spec == Init /\ [][Next]_vars
=============================================================================
