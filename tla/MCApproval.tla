----------------------------- MODULE MCApproval -----------------------------
(***************************************************************************)
(* One commit with one file, two packs that may sign it, and a key pair    *)
(* that is replaced.                                                       *)
(***************************************************************************)
EXTENDS Approval, TLC

CONSTANTS A, X, k1, k2, id1, id2, c1

m == <<"m">>

MCNames  == {m}
MCOrder  == <<m>>
MCBlocks == {A, X}
MCBad    == <<X>>
MCRepo   == c1 :> (m :> <<A>>)
MCKeyId  == k1 :> id1 @@ k2 :> id2
MCRoom   == [staging |-> 100, dest |-> 100]
MCOptions == [chunk : {NoChunks}, sign : BOOLEAN]

\* No pack is different from another.
MCSymmetry == Permutations(Procs)
=============================================================================
