------------------------------- MODULE MCPack -------------------------------
(***************************************************************************)
(* Small instances of Pack: a file m of four blocks, which is a whole      *)
(* number of chunks of two, beside a file that is literally called         *)
(* m.mfpart0002 (the name of the part that is opened and removed), a later *)
(* commit of the same model, commits the pre-flight check refuses, and one *)
(* of which the patterns select nothing.                                   *)
(***************************************************************************)
EXTENDS Pack, TLC

CONSTANTS A, B, C, D, E, X, V, k1, id1, c1, c2, c3, c4, c5, c6, c7, p1, p2, t1, t2

m   == <<"m">>
m0  == PartName(m, 0)
m1  == PartName(m, 1)
m2  == PartName(m, 2)
m3  == PartName(m, 3)
m4  == PartName(m, 4)
z   == <<"z">>
bad == <<"..">>
res == <<"m.mftmp">>

MCNames    == {m, m0, m1, m2, m3, m4, z, bad, res}
MCUnsafe   == {bad}
MCReserved == {res}
MCOrder    == <<bad, m, res, m0, m1, m2, m3, z>>
MCBlocks   == {A, B, C, D, E, X}
MCBad      == <<X>>

MCRepo == (c1 :> ((m :> <<A, B, C, D>>) @@ (m2 :> <<E>>)))
       @@ (c2 :> ((m :> <<A, B, C>>) @@ (z :> <<E>>)))
       @@ (c3 :> ((m :> <<A, B, C, D>>) @@ (m1 :> <<E>>)))
       @@ (c4 :> ((m :> <<A>>) @@ (bad :> <<B>>)))
       @@ (c5 :> ((m :> <<A>>) @@ (res :> <<>>)))
       @@ (c6 :> (m :> <<A, B, C, D, E, A, B, C>>))
       @@ (c7 :> <<>>)

MCKeyId == k1 :> id1

\* Room for everything; or for the largest repository twice, on one volume.
MCAmple == [staging |-> 100, dest |-> 100]
MCTight == [staging |-> 0, dest |-> 16]

\* Chunks of two, or none, with and without a signature.
MCOptions == {[chunk |-> 2, sign |-> FALSE],
              [chunk |-> 2, sign |-> TRUE],
              [chunk |-> NoChunks, sign |-> FALSE]}
MCPlain   == {[chunk |-> 2, sign |-> FALSE]}
=============================================================================
