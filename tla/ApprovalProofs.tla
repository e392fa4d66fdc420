--------------------------- MODULE ApprovalProofs ---------------------------
(***************************************************************************)
(* What a signature check means, for any number of packs, commits and key  *)
(* pairs, and whatever is killed, fails or decays.                         *)
(*                                                                         *)
(* The argument: a signature on the media was made by a run of pack over   *)
(* the manifest that run had in memory (OnRecord), and that manifest names *)
(* the key which the run has loaded (Named).  A check that has read its    *)
(* key and its manifest compares them with such a signature.               *)
(***************************************************************************)
EXTENDS Approval, PackSafety

Serialized == {"sidecar", "page", "sign"}

Shapes ==
    /\ DOMAIN pc = Procs /\ DOMAIN man = Procs /\ DOMAIN signer = Procs
    /\ DOMAIN signature = Commits

Made(S) == { Signature(t[1], t[2]) : t \in S }

OnRecord ==
    \A c \in Commits : signature[c] \in {Missing, Cut, Garbled} \cup Made(signings)

NamesKey(t) == t = <<t[1], t[2]>> /\ t[1] \in Keys /\ t[2].signing = KeyId[t[1]]

Named ==
    /\ \A t \in signings : NamesKey(t)
    /\ \A p \in Procs :
         /\ signer[p] \in Keys \cup {NoKey}
         /\ pc[p] = "sign" => signer[p] # NoKey
         /\ pc[p] \in Serialized /\ signer[p] # NoKey =>
              man[p].signing = KeyId[signer[p]]

Looked ==
    /\ vpc \in V!Looking => which \in Commits
    /\ vpc \in {"manifest", "signature"} => trusted \in Keys
    /\ vpc = "done" /\ outcome = "VALID" => <<trusted, read>> \in signings
    /\ outcome # "KEY_MISMATCH"

SignInv == Shapes /\ OnRecord /\ Named /\ Looked

-----------------------------------------------------------------------------
LEMMA InitSignInv == ApprovalInit => SignInv
<1> SUFFICES ASSUME ApprovalInit PROVE SignInv
  OBVIOUS
<1>1. Shapes /\ OnRecord
  BY DEF ApprovalInit, Init, Shapes, OnRecord
<1>2. Named
  BY DEF ApprovalInit, Init, Named, Serialized
<1>3. Looked
  BY DEF ApprovalInit, V!Init, Looked, V!Looking
<1> QED BY <1>1, <1>2, <1>3 DEF SignInv

(* A check never takes something else for the signature of the trusted key *)
(* over the manifest it has read.                                          *)
LEMMA CheckSound ==
    ASSUME NEW k \in Keys, NEW m, Named,
           NEW s \in {Missing, Cut, Garbled} \cup Made(signings)
    PROVE  /\ Check(m, s, k) = "VALID" => <<k, m>> \in signings
           /\ Check(m, s, k) # "KEY_MISMATCH"
<1>1. CASE s \in {Missing, Unreadable, Cut}
  BY <1>1 DEF Check
<1>2. CASE s \notin {Missing, Unreadable, Cut} /\ s # Signature(k, m)
  BY <1>2 DEF Check
<1>3. CASE s \notin {Missing, Unreadable, Cut} /\ s = Signature(k, m)
  <2>1. s # Garbled
    BY <1>3, RepoAssumption DEF Garbled, Signature
  <2>2. PICK t \in signings : s = Signature(t[1], t[2])
    BY <1>3, <2>1 DEF Made
  <2>3. t[1] = k /\ t[2] = m
    BY <1>3, <2>2 DEF Signature
  <2>4. <<k, m>> \in signings /\ m.signing = KeyId[k]
    BY <2>2, <2>3 DEF Named, NamesKey
  <2> QED BY <1>3, <2>4 DEF Check
<1> QED BY <1>1, <1>2, <1>3

-----------------------------------------------------------------------------
(* Steps of a pack that leave the signature and what it is made from alone. *)
Elsewhere == (Running \ (Serialized \cup {"verify"})) \cup {"done", "crashed"}

Moves(p) == pc' = pc \/ \E l \in Elsewhere : pc' = [pc EXCEPT ![p] = l]

Quiet(p) == UNCHANGED <<signature, man, signer>> /\ Moves(p)

LEMMA ExitMoves == \A p, code, advice : Exit(p, code, advice) => Moves(p)
  BY DEF Exit, Moves, Elsewhere

LEMMA GotoMoves == \A p : \A l \in Elsewhere : Goto(p, l) => Moves(p)
  BY DEF Goto, Moves

LEMMA QuietLabels ==
    {"signer", "resolve", "space", "path", "fetch", "collect", "preflight",
     "recheck", "mkdir", "write", "fill", "manifest", "sigcheck"} \subseteq Elsewhere
  BY DEF Elsewhere, Running, Writing, Serialized

LEMMA StayMoves == \A p : UNCHANGED pc => Moves(p)
  BY DEF Moves

LEMMA FinishMoves == \A p, list : Finish(p, list) => Moves(p)
  BY GotoMoves, QuietLabels DEF Finish

LEMMA QuietSteps ==
    ASSUME NEW p \in Procs,
           \/ ValidateDest(p) \/ Resolve(p) \/ CheckSpace(p) \/ CheckPath(p)
           \/ Fetch(p) \/ Collect(p) \/ Preflight(p) \/ Recheck(p) \/ MakeDirs(p)
           \/ OpenFile(p) \/ Fill(p) \/ DropTrailing(p) \/ InstallVerifier(p)
           \/ SelfVerify(p) \/ CheckSignature(p) \/ CallFails(p) \/ Crash(p)
    PROVE  Quiet(p)
<1>1. CASE ValidateDest(p)
  <2>1. UNCHANGED <<signature, man, signer>>
    BY <1>1 DEF ValidateDest, shared, run, settled
  <2>2. Moves(p)
    BY <1>1, ExitMoves, GotoMoves, QuietLabels DEF ValidateDest
  <2> QED BY <2>1, <2>2 DEF Quiet
<1>2. CASE Resolve(p)
  <2>1. UNCHANGED <<signature, man, signer>>
    BY <1>2 DEF Resolve, shared, run, settled
  <2>2. Moves(p)
    BY <1>2, ExitMoves, GotoMoves, QuietLabels DEF Resolve
  <2> QED BY <2>1, <2>2 DEF Quiet
<1>3. CASE CheckSpace(p)
  <2>1. UNCHANGED <<signature, man, signer>>
    BY <1>3 DEF CheckSpace, shared, run, settled
  <2>2. Moves(p)
    BY <1>3, ExitMoves, GotoMoves, QuietLabels DEF CheckSpace
  <2> QED BY <2>1, <2>2 DEF Quiet
<1>4. CASE CheckPath(p)
  <2>1. UNCHANGED <<signature, man, signer>>
    BY <1>4 DEF CheckPath, shared, run, settled
  <2>2. Moves(p)
    BY <1>4, ExitMoves, GotoMoves, QuietLabels DEF CheckPath
  <2> QED BY <2>1, <2>2 DEF Quiet
<1>5. CASE Preflight(p)
  <2>1. UNCHANGED <<signature, man, signer>>
    BY <1>5 DEF Preflight, shared, run, settled
  <2>2. Moves(p)
    BY <1>5, ExitMoves, GotoMoves, QuietLabels DEF Preflight
  <2> QED BY <2>1, <2>2 DEF Quiet
<1>6. CASE Recheck(p)
  <2>1. UNCHANGED <<signature, man, signer>>
    BY <1>6 DEF Recheck, shared, run, settled
  <2>2. Moves(p)
    BY <1>6, ExitMoves, GotoMoves, QuietLabels DEF Recheck
  <2> QED BY <2>1, <2>2 DEF Quiet
<1>7. CASE Fetch(p)
  <2>1. UNCHANGED <<signature, man, signer>>
    BY <1>7 DEF Fetch, shared, run, settled
  <2>2. Moves(p)
    BY <1>7, ExitMoves, GotoMoves, QuietLabels, StayMoves DEF Fetch
  <2> QED BY <2>1, <2>2 DEF Quiet
<1>8. CASE Collect(p)
  <2>1. UNCHANGED <<signature, man, signer>>
    BY <1>8 DEF Collect, shared, run, settled
  <2>2. Moves(p)
    BY <1>8, ExitMoves, GotoMoves, QuietLabels DEF Collect
  <2> QED BY <2>1, <2>2 DEF Quiet
<1>9. CASE MakeDirs(p)
  <2>1. UNCHANGED <<signature, man, signer>>
    BY <1>9 DEF MakeDirs, shared, run, settled
  <2>2. Moves(p)
    BY <1>9, ExitMoves, GotoMoves, QuietLabels DEF MakeDirs
  <2> QED BY <2>1, <2>2 DEF Quiet
<1>10. CASE OpenFile(p)
  <2>1. UNCHANGED <<signature, man, signer>>
    BY <1>10 DEF OpenFile, shared, run, settled
  <2>2. Moves(p)
    BY <1>10, ExitMoves, GotoMoves, QuietLabels DEF OpenFile
  <2> QED BY <2>1, <2>2 DEF Quiet
<1>11. CASE Fill(p)
  <2>1. UNCHANGED <<signature, man, signer>>
    BY <1>11 DEF Fill, shared, run, settled
  <2>2. Moves(p)
    BY <1>11, ExitMoves, GotoMoves, QuietLabels, StayMoves, FinishMoves DEF Fill
  <2> QED BY <2>1, <2>2 DEF Quiet
<1>12. CASE DropTrailing(p)
  <2>1. UNCHANGED <<signature, man, signer>>
    BY <1>12 DEF DropTrailing, shared, run, settled
  <2>2. Moves(p)
    BY <1>12, ExitMoves, GotoMoves, QuietLabels, FinishMoves DEF DropTrailing
  <2> QED BY <2>1, <2>2 DEF Quiet
<1>13. CASE InstallVerifier(p)
  <2>1. UNCHANGED <<signature, man, signer>>
    BY <1>13 DEF InstallVerifier, shared, run, settled
  <2>2. Moves(p)
    BY <1>13, ExitMoves, GotoMoves, QuietLabels DEF InstallVerifier
  <2> QED BY <2>1, <2>2 DEF Quiet
<1>14. CASE SelfVerify(p)
  <2>1. UNCHANGED <<signature, man, signer>>
    BY <1>14 DEF SelfVerify, shared, run, settled
  <2>2. Moves(p)
    BY <1>14, ExitMoves, GotoMoves, QuietLabels DEF SelfVerify
  <2> QED BY <2>1, <2>2 DEF Quiet
<1>15. CASE CheckSignature(p)
  <2>1. UNCHANGED <<signature, man, signer>>
    BY <1>15 DEF CheckSignature, shared, run, settled
  <2>2. Moves(p)
    BY <1>15, ExitMoves, GotoMoves, QuietLabels DEF CheckSignature
  <2> QED BY <2>1, <2>2 DEF Quiet
<1>16. CASE CallFails(p)
  <2>1. UNCHANGED <<signature, man, signer>>
    BY <1>16 DEF CallFails, shared, run, settled
  <2>2. Moves(p)
    BY <1>16, ExitMoves, GotoMoves, QuietLabels DEF CallFails
  <2> QED BY <2>1, <2>2 DEF Quiet
<1>17. CASE Crash(p)
  <2>1. UNCHANGED <<signature, man, signer>>
    BY <1>17 DEF Crash, shared, run, settled
  <2>2. Moves(p)
    BY <1>17, ExitMoves, GotoMoves, QuietLabels DEF Crash, Moves, Elsewhere
  <2> QED BY <2>1, <2>2 DEF Quiet
<1> QED BY <1>1, <1>2, <1>3, <1>4, <1>5, <1>6, <1>7, <1>8, <1>9, <1>10, <1>11, <1>12, <1>13, <1>14, <1>15, <1>16, <1>17

-----------------------------------------------------------------------------
(* What the histories do at a step that is not the end of Sign. *)
LEMMA NothingSigned ==
    ASSUME History, \A q \in Procs : pc[q] = "sign" => pc'[q] # "verify"
    PROVE  signings' = signings
  BY DEF History

LEMMA LookedKept ==
    ASSUME Looked, UNCHANGED lookVars, signings \subseteq signings'
    PROVE  Looked'
  BY DEF Looked, lookVars, V!Looking

LEMMA OnRecordKept ==
    ASSUME OnRecord, Shapes, signings \subseteq signings',
           \/ UNCHANGED signature
           \/ \E c : \E b \in {Missing, Cut, Garbled} :
                signature' = [signature EXCEPT ![c] = b]
    PROVE  OnRecord' /\ DOMAIN signature' = Commits
  BY DEF OnRecord, Shapes, Made

LEMMA QuietInv ==
    ASSUME SignInv, NEW p \in Procs, Quiet(p), UNCHANGED lookVars, History
    PROVE  SignInv'
<1>1. /\ DOMAIN pc' = Procs
      /\ \A q \in Procs : \/ pc'[q] = pc[q]
                          \/ pc'[q] \notin Serialized \cup {"verify"}
  BY DEF SignInv, Shapes, Quiet, Moves, Elsewhere, Running, Writing, Serialized
<1>2. signings' = signings
  <2>1. \A q \in Procs : pc[q] = "sign" => pc'[q] # "verify"
    BY <1>1
  <2> QED BY <2>1, NothingSigned
<1>3. OnRecord' /\ Shapes'
  BY <1>1, <1>2, OnRecordKept DEF SignInv, Shapes, Quiet
<1>4. Named'
  BY <1>1, <1>2 DEF SignInv, Named, NamesKey, Quiet, Serialized
<1>5. Looked'
  BY <1>2, LookedKept DEF SignInv
<1> QED BY <1>3, <1>4, <1>5 DEF SignInv

LEMMA BeginInv ==
    ASSUME SignInv, NEW p \in Procs, Begin(p), UNCHANGED lookVars, History
    PROVE  SignInv'
<1>1. /\ pc' = [pc EXCEPT ![p] = "dest"]
      /\ signer' = [signer EXCEPT ![p] = NoKey]
      /\ man' = [man EXCEPT ![p] = Missing]
      /\ UNCHANGED signature
  BY DEF Begin, shared
<1>2. signings' = signings
  <2>1. \A q \in Procs : pc[q] = "sign" => pc'[q] # "verify"
    BY <1>1 DEF SignInv, Shapes
  <2> QED BY <2>1, NothingSigned
<1>3. OnRecord' /\ Shapes'
  BY <1>1, <1>2, OnRecordKept DEF SignInv, Shapes
<1>4. Named'
  BY <1>1, <1>2 DEF SignInv, Shapes, Named, NamesKey, Serialized
<1>5. Looked'
  BY <1>2, LookedKept DEF SignInv
<1> QED BY <1>3, <1>4, <1>5 DEF SignInv

LEMMA MakeSignerInv ==
    ASSUME SignInv, NEW p \in Procs, MakeSigner(p), UNCHANGED lookVars, History
    PROVE  SignInv'
<1>1. pc[p] = "signer" /\ UNCHANGED <<signature, man>>
  BY DEF MakeSigner, shared
<1>2. \/ UNCHANGED signer
      \/ \E k \in Keys \cup {NoKey} : signer' = [signer EXCEPT ![p] = k]
  BY DEF MakeSigner
<1>3. \E l \in {"done", "resolve"} : pc' = [pc EXCEPT ![p] = l]
  BY DEF MakeSigner, Exit, Goto
<1>4. signings' = signings
  <2>1. \A q \in Procs : pc[q] = "sign" => pc'[q] # "verify"
    BY <1>1, <1>3 DEF SignInv, Shapes
  <2> QED BY <2>1, NothingSigned
<1>5. OnRecord' /\ Shapes'
  BY <1>1, <1>2, <1>3, <1>4, OnRecordKept DEF SignInv, Shapes
<1>6. Named'
  BY <1>1, <1>2, <1>3, <1>4 DEF SignInv, Shapes, Named, NamesKey, Serialized
<1>7. Looked'
  BY <1>4, LookedKept DEF SignInv
<1> QED BY <1>5, <1>6, <1>7 DEF SignInv

LEMMA WriteManifestInv ==
    ASSUME SignInv, NEW p \in Procs, WriteManifest(p), UNCHANGED lookVars, History
    PROVE  SignInv'
<1>1. pc[p] = "manifest" /\ UNCHANGED <<signature, signer>>
  BY DEF WriteManifest, settled
<1>2. \/ UNCHANGED man /\ pc' = [pc EXCEPT ![p] = "done"]
      \/ \E now \in Clock : /\ man' = [man EXCEPT ![p] = Manifest(p, now)]
                            /\ pc' = [pc EXCEPT ![p] = "sidecar"]
  BY DEF WriteManifest, Exit, Goto
<1>3. \A now : signer[p] # NoKey => Manifest(p, now).signing = KeyId[signer[p]]
  BY DEF Manifest
<1>4. signings' = signings
  <2>1. \A q \in Procs : pc[q] = "sign" => pc'[q] # "verify"
    BY <1>1, <1>2 DEF SignInv, Shapes
  <2> QED BY <2>1, NothingSigned
<1>5. OnRecord' /\ Shapes'
  BY <1>1, <1>2, <1>4, OnRecordKept DEF SignInv, Shapes
<1>6. Named'
  BY <1>1, <1>2, <1>3, <1>4 DEF SignInv, Shapes, Named, NamesKey, Serialized
<1>7. Looked'
  BY <1>4, LookedKept DEF SignInv
<1> QED BY <1>5, <1>6, <1>7 DEF SignInv

LEMMA WriteOnInv ==
    ASSUME SignInv, NEW p \in Procs, WriteSidecar(p) \/ WritePage(p),
           UNCHANGED lookVars, History
    PROVE  SignInv'
<1>1. /\ pc[p] \in {"sidecar", "page"}
      /\ UNCHANGED <<signature, signer, man>>
  BY DEF WriteSidecar, WritePage, run
<1>2. \E l \in {"page", "sign", "verify"} :
         /\ pc' = [pc EXCEPT ![p] = l]
         /\ l = "sign" => signer[p] # NoKey
  BY DEF WriteSidecar, WritePage, Goto
<1>3. signings' = signings
  <2>1. \A q \in Procs : pc[q] = "sign" => pc'[q] # "verify"
    BY <1>1, <1>2 DEF SignInv, Shapes
  <2> QED BY <2>1, NothingSigned
<1>4. OnRecord' /\ Shapes'
  BY <1>1, <1>2, <1>3, OnRecordKept DEF SignInv, Shapes
<1>5. Named'
  BY <1>1, <1>2, <1>3 DEF SignInv, Shapes, Named, NamesKey, Serialized
<1>6. Looked'
  BY <1>3, LookedKept DEF SignInv
<1> QED BY <1>4, <1>5, <1>6 DEF SignInv

(* The step that makes a signature: the history records it with the key    *)
(* the run has loaded, which is the one its manifest names.                *)
LEMMA SignStepInv ==
    ASSUME SignInv, NEW p \in Procs, Sign(p), UNCHANGED lookVars, History
    PROVE  SignInv'
<1> DEFINE record == <<signer[p], man[p]>>
<1>1. /\ pc[p] = "sign" /\ pc' = [pc EXCEPT ![p] = "verify"]
      /\ UNCHANGED <<signer, man>>
      /\ signature' = [signature EXCEPT ![commit[p]] = Signature(signer[p], man[p])]
  BY DEF Sign, Goto, SigningKey, run
<1>2. signings' = signings \cup {record}
  <2>1. { q \in Procs : pc[q] = "sign" /\ pc'[q] = "verify" } = {p}
    BY <1>1 DEF SignInv, Shapes
  <2> QED BY <2>1 DEF History
<1>3. NamesKey(record)
  BY <1>1 DEF SignInv, Named, NamesKey, Serialized
<1>4. Shapes'
  BY <1>1 DEF SignInv, Shapes
<1>5. OnRecord'
  <2>1. Signature(signer[p], man[p]) \in Made(signings')
    <3>1. Signature(record[1], record[2]) = Signature(signer[p], man[p])
      OBVIOUS
    <3> QED BY <1>2, <3>1 DEF Made
  <2>2. Made(signings) \subseteq Made(signings')
    BY <1>2 DEF Made
  <2> QED BY <1>1, <2>1, <2>2 DEF SignInv, OnRecord, Shapes
<1>6. Named'
  <2>1. \A t \in signings' : NamesKey(t)
    BY <1>2, <1>3 DEF SignInv, Named
  <2> QED BY <1>1, <2>1 DEF SignInv, Shapes, Named, NamesKey, Serialized
<1>7. Looked'
  BY <1>2, LookedKept DEF SignInv
<1> QED BY <1>4, <1>5, <1>6, <1>7 DEF SignInv

LEMMA DamageInv ==
    ASSUME SignInv, UNCHANGED lookVars, History,
           \/ \E p \in Procs : DiskFault(p)
           \/ \E c \in Commits : RemoveBundle(c)
    PROVE  SignInv'
<1>1. UNCHANGED <<pc, man, signer>>
  BY DEF DiskFault, RemoveBundle, run
<1>2. \/ UNCHANGED signature
      \/ \E c : \E b \in {Missing, Cut, Garbled} :
           signature' = [signature EXCEPT ![c] = b]
  BY DEF DiskFault, RemoveBundle
<1>3. signings' = signings
  BY <1>1, NothingSigned
<1>4. OnRecord' /\ Shapes'
  BY <1>1, <1>2, <1>3, OnRecordKept DEF SignInv, Shapes
<1>5. Named'
  BY <1>1, <1>3 DEF SignInv, Named, NamesKey
<1>6. Looked'
  BY <1>3, LookedKept DEF SignInv
<1> QED BY <1>4, <1>5, <1>6 DEF SignInv

LEMMA PackSignInv ==
    ASSUME SignInv, Next, UNCHANGED lookVars, History
    PROVE  SignInv'
<1>1. CASE \E c \in Commits : RemoveBundle(c)
  BY <1>1, DamageInv
<1>2. ASSUME NEW p \in Procs,
             Begin(p) \/ Step(p) \/ CallFails(p) \/ Crash(p) \/ DiskFault(p)
      PROVE  SignInv'
  <2>1. CASE Begin(p)
    BY <2>1, BeginInv
  <2>2. CASE MakeSigner(p)
    BY <2>2, MakeSignerInv
  <2>3. CASE WriteManifest(p)
    BY <2>3, WriteManifestInv
  <2>4. CASE WriteSidecar(p) \/ WritePage(p)
    BY <2>4, WriteOnInv
  <2>5. CASE Sign(p)
    BY <2>5, SignStepInv
  <2>6. CASE DiskFault(p)
    BY <2>6, DamageInv
  <2>7. CASE Quiet(p)
    BY <2>7, QuietInv
  <2> QED BY <1>2, <2>1, <2>2, <2>3, <2>4, <2>5, <2>6, <2>7, QuietSteps DEF Step
<1> QED BY <1>1, <1>2 DEF Next

-----------------------------------------------------------------------------
(* Key generation and the command verify-signature. *)
LEMMA KeygenInv ==
    ASSUME SignInv, G!Next, UNCHANGED <<packVars, lookVars>>, History
    PROVE  SignInv'
<1>1. UNCHANGED <<pc, man, signer, signature>>
  BY DEF packVars, run
<1>2. signings' = signings
  BY <1>1, NothingSigned
<1>3. OnRecord' /\ Shapes'
  BY <1>1, <1>2, OnRecordKept DEF SignInv, Shapes
<1>4. Named'
  BY <1>1, <1>2 DEF SignInv, Named, NamesKey
<1>5. Looked'
  BY <1>2, LookedKept DEF SignInv
<1> QED BY <1>3, <1>4, <1>5 DEF SignInv

\* Neither word depends on the variables that the instance substitutes.
LEMMA SameWords ==
    /\ \A m : V!Claim(m) \notin {"VALID", "KEY_MISMATCH"}
    /\ \A m, s, k : V!Check(m, s, k) = Check(m, s, k)
<1>1. \A m : V!Claim(m) \notin {"VALID", "KEY_MISMATCH"}
  <2> TAKE m
  <2>1. V!Claim(m) \in {"MALFORMED", "UNSIGNED", "SIGNED"}
    BY DEF V!Claim
  <2> QED BY <2>1
<1>2. ASSUME NEW m, NEW s, NEW k
      PROVE  V!Check(m, s, k) = Check(m, s, k)
  BY DEF V!Check, Check, V!Signature, Signature
<1> QED BY <1>1, <1>2

LEMMA LookInv ==
    ASSUME SignInv, V!Look \/ V!LookStep, UNCHANGED packVars, History
    PROVE  SignInv'
<1>1. UNCHANGED <<pc, man, signer, signature>>
  BY DEF packVars, run
<1>2. signings' = signings
  BY <1>1, NothingSigned
<1>3. OnRecord' /\ Shapes'
  BY <1>1, <1>2, OnRecordKept DEF SignInv, Shapes
<1>4. Named'
  BY <1>1, <1>2 DEF SignInv, Named, NamesKey
<1>5. Looked'
  <2> USE <1>2 DEF SignInv, Looked, V!Looking
  <2>1. CASE V!Look
    BY <2>1 DEF V!Look
  <2>2. CASE V!LoadPublicKey
    BY <2>2 DEF V!LoadPublicKey, V!End
  <2>3. CASE V!ReadManifest
    BY <2>3, SameWords DEF V!ReadManifest, V!End
  <2>4. CASE V!ReadSignature
    <3>1. /\ which \in Commits /\ trusted \in Keys
          /\ UNCHANGED <<which, trusted, read>>
          /\ vpc' = "done" /\ outcome' = Check(read, signature[which], trusted)
      BY <2>4, SameWords DEF V!ReadSignature, V!End
    <3>2. /\ Check(read, signature[which], trusted) = "VALID"
               => <<trusted, read>> \in signings
          /\ Check(read, signature[which], trusted) # "KEY_MISMATCH"
      BY <3>1, CheckSound DEF OnRecord
    <3> QED BY <3>1, <3>2
  <2> QED BY <2>1, <2>2, <2>3, <2>4 DEF V!LookStep
<1> QED BY <1>3, <1>4, <1>5 DEF SignInv

LEMMA StepSignInv == SignInv /\ [ApprovalNext]_approvalVars => SignInv'
<1> SUFFICES ASSUME SignInv, [ApprovalNext]_approvalVars PROVE SignInv'
  OBVIOUS
<1>1. CASE ApprovalNext
  <2>1. History
    BY <1>1 DEF ApprovalNext
  <2>2. CASE Next /\ UNCHANGED <<keygenVars, lookVars>>
    BY <2>1, <2>2, PackSignInv
  <2>3. CASE G!Next /\ UNCHANGED <<packVars, lookVars>>
    BY <2>1, <2>3, KeygenInv
  <2>4. CASE (V!Look \/ V!LookStep) /\ UNCHANGED <<packVars, secretFile, keygenVars>>
    BY <2>1, <2>4, LookInv
  <2> QED BY <1>1, <2>2, <2>3, <2>4 DEF ApprovalNext
<1>2. CASE UNCHANGED approvalVars
  <2>1. UNCHANGED <<pc, man, signer, signature, signings>>
    BY <1>2 DEF approvalVars, vars, shared, run
  <2>2. UNCHANGED <<vpc, which, trusted, read, outcome>>
    BY <1>2 DEF approvalVars, lookVars
  <2>3. Shapes'
    BY <2>1 DEF SignInv, Shapes
  <2>4. OnRecord'
    BY <2>1 DEF SignInv, OnRecord
  <2>5. Named'
    BY <2>1 DEF SignInv, Named, NamesKey
  <2>6. Looked'
    BY <2>1, <2>2 DEF SignInv, Looked, V!Looking
  <2> QED BY <2>3, <2>4, <2>5, <2>6 DEF SignInv
<1> QED BY <1>1, <1>2

LEMMA SignInvariant == ApprovalSpec => []SignInv
  BY InitSignInv, StepSignInv, PTL DEF ApprovalSpec

-----------------------------------------------------------------------------
(* verify-signature exits with 0 only for a manifest that a pack --sign     *)
(* with the trusted key has signed as it is (verify_signature.py:95-176).   *)
THEOREM ValidIsSigned == ApprovalSpec => []ValidMeansSigned
<1>1. SignInv => ValidMeansSigned
  BY DEF SignInv, Looked, ValidMeansSigned, V!ExitCode
<1> QED BY <1>1, SignInvariant, PTL

(* The signing block and the signature of a bundle always name one key      *)
(* (pack.py:286-310, signing.py:80-85).                                     *)
THEOREM BlockAndSignatureAgree == ApprovalSpec => []BlockNamesSigner
<1>1. SignInv => BlockNamesSigner
  BY DEF SignInv, Looked, BlockNamesSigner
<1> QED BY <1>1, SignInvariant, PTL
-----------------------------------------------------------------------------
(***************************************************************************)
(* The promise to the operator, SignedBundleVerifies, where no two keys    *)
(* share a fingerprint.  A run that signs has checked the signature after  *)
(* all that it wrote, and a run that does not sign takes the signing block *)
(* away when it writes its manifest.  So once all have reported success, a *)
(* manifest with a signing block is the one that the last check has read,  *)
(* with the signature beside it (SignedInv).  An undisturbed look reads    *)
(* what is there at its end (CalmInv), and the two key files agree when no *)
(* key pair is being generated (KeysInv).                                  *)
(***************************************************************************)
\* p has no check of bundle c ahead of it that its success depends on.
Good(p, c) ==
    \/ pc[p] = "idle"
    \/ /\ commit[p] = c
       /\ \/ Ended(p, 0)
          \/ signer[p] = NoKey /\ pc[p] \in Writing \cup {"mkdir"}

SignedInv ==
    \A c \in Commits :
      /\ IsManifest(bundles[c].manifest) /\ bundles[c].manifest.signing # Unsigned
      /\ \A p \in Procs : undisturbed[p] /\ Good(p, c)
      => \E k \in Keys : Verdict(bundles[c].manifest, signature[c], k) = "VALID"

KeysInv ==
    /\ fresh \subseteq Keys
    /\ kpc \in G!Generating => pair \in Keys
    /\ kpc \in {"truncate-public", "write-public"} => secretFile = pair
    /\ kpc = "done" => publicFile = secretFile

CalmInv ==
    /\ looks \in Nat
    /\ vpc # "idle" => which \in Commits
    /\ calm =>
         /\ vpc \in {"manifest", "signature"} => trusted = publicFile /\ trusted \in Keys
         /\ vpc = "signature" => /\ read = bundles[which].manifest
                                 /\ Claim(read) = "SIGNED"
         /\ vpc = "done" /\ publicFile \in Keys =>
              outcome = Verdict(bundles[which].manifest, signature[which], publicFile)
-----------------------------------------------------------------------------
LEMMA SignedInvStep == TypeInv /\ MediaInv /\ SignedInv /\ [Next]_vars => SignedInv'
<1> SUFFICES ASSUME TypeInv, MediaInv, SignedInv, [Next]_vars PROVE SignedInv'
  OBVIOUS
<1> DEFINE Agree(c) == \A p \in Procs : undisturbed[p] /\ Good(p, c)
           Blocked(c) == /\ IsManifest(bundles[c].manifest)
                         /\ bundles[c].manifest.signing # Unsigned
<1> USE DoneLabels
<1>0. ASSUME NEW p \in Procs, \A c \in Commits : ~ Good(p, c)' PROVE SignedInv'
  BY <1>0 DEF SignedInv
<1>1. CASE UNCHANGED vars
  BY <1>1 DEF vars, shared, run, SignedInv, Good, Ended
<1>2. ASSUME NEW d \in Commits, RemoveBundle(d) PROVE SignedInv'
  <2>1. ASSUME NEW c \in Commits, Blocked(c)', Agree(c)' PROVE c # d /\ Blocked(c) /\ Agree(c)
    BY <1>2, <2>1, RemoveSteps DEF Good, Ended, NoBundle, IsManifest
  <2> QED BY <1>2, <2>1, RemoveSteps DEF SignedInv
<1>3. ASSUME NEW p \in Procs, Still(p), \A q \in Procs : undisturbed'[q] => undisturbed[q]
      PROVE  SignedInv'
  <2>1. ASSUME NEW c \in Commits, Good(p, c)'
        PROVE  ~ IsManifest(bundles'[c].manifest)
    <3>1. pc'[p] = "mkdir" /\ commit'[p] = c
      BY <1>3, <2>1 DEF Good, Still, Passed
    <3>2. ~ made[c] /\ bundles'[c] = bundles[c]
      BY <1>3, <3>1 DEF Still
    <3> QED BY <3>2 DEF MediaInv, NoBundle, IsManifest
  <2> QED BY <1>3, <2>1 DEF SignedInv
<1>4. ASSUME NEW p \in Procs, Writes(p), UNCHANGED undisturbed PROVE SignedInv'
  <2> SUFFICES ASSUME NEW c \in Commits, Blocked(c)', Agree(c)'
               PROVE  \E k \in Keys : Verdict(bundles'[c].manifest, signature'[c], k) = "VALID"
    BY DEF SignedInv
  <2>1. /\ pc[p] \in Writing /\ commit[p] = c /\ signer[p] = NoKey
    BY <1>4 DEF Good, Writes, Passed
  <2>2. Agree(c)
    BY <1>4, <2>1 DEF Good, Writes, Others, Ended
  <2>3. UNCHANGED signature
    BY <1>4, <2>1 DEF Writes, TypeInv, Progress
  <2>4. bundles'[c].manifest = bundles[c].manifest
    <3>1. ASSUME NEW now, bundles'[c].manifest = Manifest(p, now) PROVE FALSE
      <4>1. Manifest(p, now).signing = Unsigned
        BY <2>1 DEF Manifest
      <4> QED BY <3>1, <4>1
    <3>2. \/ bundles'[c].manifest = bundles[c].manifest
          \/ \E now : bundles'[c].manifest = Manifest(p, now)
      BY <1>4, <2>1 DEF Writes
    <3> QED BY <3>1, <3>2
  <2> QED BY <2>2, <2>3, <2>4 DEF SignedInv
<1>5. ASSUME NEW p \in Procs, Begin(p) \/ MakeSigner(p) \/ Resolve(p) PROVE SignedInv'
  <2>1. pc'[p] \in {"dest", "resolve", "space", "done"} /\ ~ Passed(p)'
    BY <1>5, BeginSteps, ChoiceSteps
  <2>2. \A c \in Commits : ~ Good(p, c)'
    BY <2>1 DEF Good, Passed, Running, Writing
  <2> QED BY <1>0, <2>2
<1>6. ASSUME NEW p \in Procs, MakeDirs(p) PROVE SignedInv'
  <2>1. ASSUME NEW c \in Commits, Agree(c)' PROVE Agree(c)
    BY <1>6, <2>1, MakeSteps DEF Good, Others, Ended
  <2> QED BY <1>6, <2>1, MakeSteps DEF SignedInv
<1>7. ASSUME NEW p \in Procs, SelfVerify(p) \/ CheckSignature(p) PROVE SignedInv'
  <2> SUFFICES ASSUME NEW c \in Commits, Blocked(c)', Agree(c)'
               PROVE  \E k \in Keys : Verdict(bundles'[c].manifest, signature'[c], k) = "VALID"
    BY DEF SignedInv
  <2>1. /\ UNCHANGED <<bundles, signature, signer, commit, undisturbed>> /\ Others(p)
        /\ pc[p] \in {"verify", "sigcheck"} /\ pc'[p] \in {"sigcheck", "done"}
    BY <1>7, SelfCheckSteps DEF shared, run
  <2>2. commit[p] = c /\ (Ended(p, 0)' \/ signer[p] = NoKey)
    BY <2>1 DEF Good
  <2>3. CASE signer[p] = NoKey
    <3>1. Agree(c)
      BY <2>1, <2>2, <2>3 DEF Good, Others, Ended
    <3> QED BY <2>1, <3>1 DEF SignedInv
  <2>4. CASE signer[p] # NoKey
    <3>1. Verdict(bundles[c].manifest, signature[c], signer[p]) = "VALID"
      BY <1>7, <2>2, <2>4, SelfCheckSteps
    <3>2. signer[p] \in Keys
      BY <2>4 DEF TypeInv, ChoiceType
    <3> QED BY <2>1, <3>1, <3>2
  <2> QED BY <2>3, <2>4
<1>8. ASSUME NEW p \in Procs, DiskFault(p) PROVE SignedInv'
  BY <1>8, FaultSteps DEF SignedInv
<1> QED BY <1>1, <1>2, <1>3, <1>4, <1>5, <1>6, <1>7, <1>8, StepCases
-----------------------------------------------------------------------------
(* Key generation beside the packs. *)
PackInv == TypeInv /\ MediaInv /\ SignedInv

LEMMA PackInvKept ==
    ASSUME PackInv, UNCHANGED packVars, secretFile' \in Keys \cup {Missing, Malformed, Foreign}
    PROVE  PackInv'
<1> USE DEF packVars, run
<1>1. HostType' /\ MediaType' /\ ChoiceType' /\ LoopType' /\ ManType'
  BY DEF PackInv, TypeInv, HostType, MediaType, ChoiceType, LoopType, ManType
<1>2. ControlType' /\ HistoryType' /\ StagedFromHub' /\ Progress'
  BY DEF PackInv, TypeInv, ControlType, HistoryType, StagedFromHub, Progress
<1>3. MediaInv' /\ SignedInv'
  BY DEF PackInv, MediaInv, SignedInv, Good, Ended
<1> QED BY <1>1, <1>2, <1>3 DEF PackInv, TypeInv

LEMMA KeygenStep ==
    ASSUME KeysInv, G!Next
    PROVE  KeysInv' /\ (secretFile' \in Keys \cup {Malformed} \/ UNCHANGED secretFile)
<1> USE DEF KeysInv, G!Generating
<1>1. CASE G!Generate
  BY <1>1 DEF G!Generate
<1>2. CASE G!TruncateSecret
  BY <1>2 DEF G!TruncateSecret
<1>3. CASE G!WriteSecret
  BY <1>3 DEF G!WriteSecret
<1>4. CASE G!TruncatePublic
  BY <1>4 DEF G!TruncatePublic
<1>5. CASE G!WritePublic
  BY <1>5 DEF G!WritePublic
<1>6. CASE G!Kill
  BY <1>6 DEF G!Kill
<1> QED BY <1>1, <1>2, <1>3, <1>4, <1>5, <1>6 DEF G!Next

\* No step of a pack writes the key files.
LEMMA SecretKept == TypeInv /\ [Next]_vars => UNCHANGED secretFile
<1> SUFFICES ASSUME TypeInv, [Next]_vars PROVE UNCHANGED secretFile
  OBVIOUS
<1> USE DEF shared, run, settled
<1>1. ASSUME NEW p \in Procs, Step(p) PROVE UNCHANGED secretFile
  BY <1>1 DEF Step, ValidateDest, MakeSigner, Resolve, CheckSpace, CheckPath, Fetch, Collect,
     Preflight, Recheck, MakeDirs, OpenFile, Fill, DropTrailing, InstallVerifier,
     WriteManifest, WriteSidecar, WritePage, Sign, SelfVerify, CheckSignature
<1>2. ASSUME NEW p \in Procs, Begin(p) \/ CallFails(p) \/ Crash(p) \/ DiskFault(p)
      PROVE  UNCHANGED secretFile
  BY <1>2 DEF Begin, CallFails, Crash, DiskFault
<1>3. ASSUME NEW c \in Commits, RemoveBundle(c) PROVE UNCHANGED secretFile
  BY <1>3 DEF RemoveBundle
<1> QED BY <1>1, <1>2, <1>3 DEF Next, vars

-----------------------------------------------------------------------------
(* The command verify-signature.  The instance judges like Pack does. *)
LEMMA SameJudgement ==
    /\ \A m : V!Claim(m) = Claim(m)
    /\ \A m, s, k : V!Check(m, s, k) = Check(m, s, k)
<1>1. ASSUME NEW m PROVE V!Claim(m) = Claim(m)
  BY DEF V!Claim, Claim, V!IsManifest, IsManifest
<1>2. ASSUME NEW m, NEW s, NEW k PROVE V!Check(m, s, k) = Check(m, s, k)
  BY DEF V!Check, Check, V!Signature, Signature
<1> QED BY <1>1, <1>2

LEMMA LookStepCalm ==
    ASSUME CalmInv, V!Look \/ V!LookStep, UNCHANGED <<bundles, signature, publicFile>>,
           History
    PROVE  CalmInv'
<1> USE DEF CalmInv
<1>1. CASE V!Look
  BY <1>1 DEF V!Look
<1>2. CASE V!LoadPublicKey
  BY <1>2 DEF V!LoadPublicKey, V!End, History
<1>3. CASE V!ReadManifest
  BY <1>3, SameJudgement DEF V!ReadManifest, V!End, History, Verdict
<1>4. CASE V!ReadSignature
  BY <1>4, SameJudgement DEF V!ReadSignature, V!End, History, Verdict
<1> QED BY <1>1, <1>2, <1>3, <1>4 DEF V!LookStep

LEMMA ElsewhereCalm ==
    ASSUME CalmInv, UNCHANGED lookVars, History \/ UNCHANGED <<bundles, signature, publicFile, calm>>
    PROVE  CalmInv'
<1>1. UNCHANGED <<vpc, which, trusted, read, outcome, looks>>
  BY DEF lookVars
<1>2. ASSUME calm' PROVE calm /\ UNCHANGED <<bundles, signature, publicFile>>
  <2>1. CASE History
    <3>1. calm' = (calm /\ <<bundles, signature, publicFile>>'
                           = <<bundles, signature, publicFile>>)
      BY <1>1, <2>1 DEF History
    <3>2. calm /\ <<bundles, signature, publicFile>>' = <<bundles, signature, publicFile>>
      BY <1>2, <3>1, Zenon
    <3> QED BY <3>2
  <2>2. CASE UNCHANGED <<bundles, signature, publicFile, calm>>
    BY <1>2, <2>2
  <2> QED BY <2>1, <2>2
<1> QED BY <1>1, <1>2 DEF CalmInv

-----------------------------------------------------------------------------
SafeInv == PackInv /\ KeysInv /\ CalmInv

LEMMA InitSafeInv == ApprovalInit => SafeInv
<1> SUFFICES ASSUME ApprovalInit PROVE SafeInv
  OBVIOUS
<1>1. TypeInv /\ MediaInv
  BY InitTypeInv, InitSafety DEF ApprovalInit
<1>2. \A c \in Commits : ~ IsManifest(bundles[c].manifest)
  BY DEF ApprovalInit, Init, NoBundle, IsManifest
<1>3. KeysInv
  BY DEF ApprovalInit, G!Init, KeysInv, G!Generating
<1>4. CalmInv
  BY ApprovalAssumption DEF ApprovalInit, V!Init, CalmInv
<1> QED BY <1>1, <1>2, <1>3, <1>4 DEF SafeInv, PackInv, SignedInv

LEMMA StepSafeInv == SafeInv /\ [ApprovalNext]_approvalVars => SafeInv'
<1> SUFFICES ASSUME SafeInv, [ApprovalNext]_approvalVars PROVE SafeInv'
  OBVIOUS
<1>1. CASE /\ [Next]_vars /\ UNCHANGED <<keygenVars, lookVars>>
           /\ History \/ UNCHANGED <<bundles, signature, publicFile, calm>>
  <2>1. PackInv'
    BY <1>1, StepTypeInv, MediaInvStep, SignedInvStep DEF SafeInv, PackInv
  <2>2. KeysInv'
    BY <1>1, SecretKept DEF SafeInv, PackInv, KeysInv, keygenVars
  <2>3. CalmInv'
    BY <1>1, ElsewhereCalm DEF SafeInv
  <2> QED BY <2>1, <2>2, <2>3 DEF SafeInv
<1>2. CASE G!Next /\ UNCHANGED <<packVars, lookVars>> /\ History
  <2>1. KeysInv' /\ secretFile' \in Keys \cup {Missing, Malformed, Foreign}
    BY <1>2, KeygenStep DEF SafeInv, PackInv, TypeInv, HostType
  <2>2. PackInv' /\ CalmInv'
    BY <1>2, <2>1, PackInvKept, ElsewhereCalm DEF SafeInv
  <2> QED BY <2>1, <2>2 DEF SafeInv
<1>3. CASE /\ V!Look \/ V!LookStep
           /\ UNCHANGED <<packVars, secretFile, keygenVars>> /\ History
  <2>1. PackInv'
    BY <1>3, PackInvKept DEF SafeInv, PackInv, TypeInv, HostType
  <2>2. KeysInv'
    BY <1>3 DEF SafeInv, KeysInv, keygenVars
  <2>3. CalmInv'
    BY <1>3, LookStepCalm DEF SafeInv, packVars, keygenVars
  <2> QED BY <2>1, <2>2, <2>3 DEF SafeInv
<1>4. CASE UNCHANGED approvalVars
  BY <1>1, <1>4 DEF approvalVars, vars, shared, keygenVars, lookVars
<1> QED BY <1>1, <1>2, <1>3, <1>4 DEF ApprovalNext

(* When every pack that was started has reported success for a bundle whose *)
(* signing block names the key of the last completed generation, and nobody *)
(* touches it meanwhile, verify-signature reports VALID (pack.py:308-328,   *)
(* signing.py:138-159, verify_signature.py:95-176).                         *)
THEOREM SignedIsValid ==
    ASSUME \A k, l \in Keys : KeyId[k] = KeyId[l] => k = l
    PROVE  ApprovalSpec => []SignedBundleVerifies
<1>1. ASSUME SafeInv PROVE SignedBundleVerifies
  <2> SUFFICES ASSUME NEW c \in Commits,
                      \A p \in Procs : /\ pc[p] = "idle" \/ (Ended(p, 0) /\ commit[p] = c)
                                       /\ undisturbed[p],
                      secretFile \in Keys, kpc = "done", IsManifest(bundles[c].manifest),
                      bundles[c].manifest.signing = KeyId[secretFile],
                      vpc = "done", which = c, calm
               PROVE  outcome = "VALID"
    BY DEF SignedBundleVerifies
  <2>1. outcome = Verdict(bundles[c].manifest, signature[c], secretFile)
    BY <1>1 DEF SafeInv, KeysInv, CalmInv
  <2>2. PICK k \in Keys : Verdict(bundles[c].manifest, signature[c], k) = "VALID"
    BY <1>1, KeyIdAssumption DEF SafeInv, PackInv, SignedInv, Good
  <2>3. k = secretFile
    BY <2>2, ValidSignature
  <2> QED BY <2>1, <2>2, <2>3
<1> QED BY <1>1, InitSafeInv, StepSafeInv, PTL DEF ApprovalSpec
=============================================================================
