------------------------------- MODULE MCFerry -------------------------------
(***************************************************************************)
(* Two commits of a model, one with a whole file and one that is split,    *)
(* the other with a file of the receipt's name; one pack at a time, and    *)
(* one operator on the other side.                                         *)
(***************************************************************************)
EXTENDS Ferry, TLC

CONSTANTS A, B, C, X, k1, id1, c1, c2

a  == <<"a">>
b  == <<"b">>
rc == <<"UNPACK_RECEIPT.json">>

MCNames   == {a, b, PartName(b, 0), PartName(b, 1), PartName(b, 2), rc}
MCOrder   == <<rc, a, b, PartName(b, 0), PartName(b, 1), PartName(b, 2)>>
MCBlocks  == {A, B, C, X}
MCBad     == <<X>>
MCRepo    == c1 :> (a :> <<A>> @@ b :> <<B, C>>) @@ c2 :> (b :> <<C>> @@ rc :> <<A>>)
MCKeyId   == k1 :> id1
MCRoom    == [staging |-> 100, dest |-> 100]
MCOptions == {[chunk |-> 1, sign |-> FALSE]}
MCReceipt == rc
MCReading == {[cmd |-> "unpack", noVerify |-> FALSE, force |-> TRUE],
              [cmd |-> "unpack", noVerify |-> TRUE, force |-> TRUE]}
=============================================================================
