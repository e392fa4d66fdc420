-------------------------- MODULE MCOfflineReader --------------------------
(***************************************************************************)
(* Small instances of OfflineReader: a model with one whole file and one   *)
(* two-part file, and bundles whose manifests are wrong in one way each.   *)
(***************************************************************************)
EXTENDS OfflineReader, FiniteSets

CONSTANTS p1, p2, A, B, C, Old, V

a  == <<"a">>
b  == <<"b">>
b0 == PartName(b, 0)
b1 == PartName(b, 1)
R  == <<"UNPACK_RECEIPT.json">>
up == <<"..">>
x  == <<"extra">>
at == TempName(a)

MCNames  == {a, b, b0, b1, R, up, x, at}
MCUnsafe == {up}
MCBlocks == {A, B, C, Old}
MCTools  == {V}

whole(f, s)    == [path |-> f, sha |-> s, parts |-> <<>>]
part(f, s)     == [path |-> f, sha |-> s]
split(f, s, t) == [path |-> f, sha |-> s \o t,
                   parts |-> << part(PartName(f, 0), s), part(PartName(f, 1), t) >>]

manifest(files) == [files |-> files, verifier |-> V]

\* What pack would write for the manifest m: every object as declared.
bundleOf(m) ==
    [manifest |-> m, sidecar |-> m, verifier |-> V,
     payload |-> [n \in Names |->
       IF \E y \in Positions(m) : ObjectAt(m, y).path = n
       THEN (CHOOSE o \in {ObjectAt(m, y) : y \in Positions(m)} : o.path = n).sha
       ELSE Missing]]

mGood    == manifest(<< whole(a, <<A>>), split(b, <<B>>, <<C>>) >>)
mOther   == manifest(<< whole(a, <<C>>), whole(b, <<A>>) >>)
mReceipt == manifest(<< whole(R, <<A>>), whole(a, <<B>>) >>)
mTwice   == manifest(<< whole(a, <<A>>), whole(b, <<B>>), whole(a, <<A>>) >>)
mUnsafe  == manifest(<< whole(a, <<A>>), whole(up, <<B>>) >>)
mLying   == manifest(<< whole(a, <<A>>),
                        [split(b, <<B>>, <<C>>) EXCEPT !.sha = <<B, A>>] >>)
mMisplaced == manifest(<< [path |-> b, sha |-> <<A>>, parts |-> << part(a, <<A>>) >>] >>)
mEmpty   == manifest(<<>>)
mTemp    == manifest(<< whole(at, <<B>>), whole(a, <<A>>) >>)
mOwnNames == manifest(<< whole(at, <<B>>), whole(a, <<A>>), whole(R, <<C>>) >>)
mSized   == manifest(<< whole(a, <<B>>) >>)
mAstray  == [files |-> << whole(a, <<C>>) >>, verifier |-> Astray]

MCMissized  == {<<mSized, a>>}
MCManifests == {mGood, mOther, mReceipt, mTwice, mUnsafe, mLying, mMisplaced,
                mEmpty, mTemp, mOwnNames, mSized, mAstray}

GoodMedia  == {bundleOf(mGood)}
MixedMedia == {bundleOf(m) : m \in
                 {mGood, mReceipt, mTwice, mUnsafe, mLying, mMisplaced, mEmpty,
                  mTemp, mSized, mAstray}}
SwapMedia  == {bundleOf(mGood), bundleOf(mOther)}
OwnNamesMedia == {bundleOf(mOwnNames)}

MCDamage == {Missing, Link, Unreadable, <<Old>>}

MCReceipt == R

FreshDest == [n \in Names |-> NoFile]
UsedDest  == [n \in Names |-> IF n = a THEN <<Old>> ELSE NoFile]

AllOptions == [cmd : {"unpack"}, noVerify : BOOLEAN, force : BOOLEAN]
                \cup {[cmd |-> "verify", noVerify |-> FALSE, force |-> FALSE]}
VerifyOnly == {[cmd |-> "verify", noVerify |-> FALSE, force |-> FALSE]}
Forced     == [cmd : {"unpack"}, noVerify : {FALSE}, force : {TRUE}]
ForcedBlind == [cmd : {"unpack"}, noVerify : BOOLEAN, force : {TRUE}]
Blind      == [cmd : {"unpack"}, noVerify : {TRUE}, force : {FALSE}]
Plain      == [cmd : {"unpack"}, noVerify : {FALSE}, force : {FALSE}]
=============================================================================
