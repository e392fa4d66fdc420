----------------------------- MODULE PackSafety -----------------------------
(***************************************************************************)
(* What pack promises of the bundle on the media.                          *)
(*                                                                         *)
(* For any number of processes: a bundle all of whose writers have passed  *)
(* the read-back self-check is intact (UnanimousSuccess), because a run    *)
(* that has passed it writes nothing any more.  For one process: a run     *)
(* that reports success leaves what it promised, and an intact bundle is   *)
(* never written again (SuccessIsVerified, IntactBundleKept), because the  *)
(* sidecar, without which nothing is intact, is the last file of a bundle  *)
(* that verify looks at.  And where no two commits are packed through one  *)
(* staging directory an intact bundle is the whole model                   *)
(* (IntactMeansComplete).                                                  *)
(***************************************************************************)
EXTENDS PackProofs

OneProcess == \A p, q \in Procs : p = q

\* From the second look at the bundle directory to the sidecar.
Busy == {"mkdir", "write", "fill", "manifest", "sidecar"}

\* The self-check of the files was passed.
Passed(p) == pc[p] = "sigcheck" \/ Ended(p, 0)

MediaInv ==
    /\ \A c \in Commits :
         /\ ~ made[c] => bundles[c] = NoBundle /\ signature[c] = Missing
         /\ IsManifest(bundles[c].manifest) => bundles[c].manifest.source = c
    /\ \A p \in Procs : pc[p] \in Writing => made[commit[p]]

SignerInv ==
    \A p \in Procs :
      /\ pc[p] \in Located \cup {"resolve"} \/ Ended(p, 0) =>
           (opt[p].sign <=> signer[p] # NoKey)
      /\ Ended(p, 0) => commit[p] \in Commits

AgreedInv ==
    \A c \in Commits :
      /\ made[c]
      /\ \A p \in Procs : Passed(p) /\ commit[p] = c /\ undisturbed[p]
      => Intact(bundles[c])

\* For a process that is alone.
AloneInv ==
    \A p \in Procs :
      /\ pc[p] \in Busy => bundles[commit[p]].sidecar = Missing
      /\ Passed(p) /\ made[commit[p]] => Intact(bundles[commit[p]])
      /\ Ended(p, 0) /\ opt[p].sign /\ made[commit[p]] =>
           /\ signature[commit[p]] = Signature(signer[p], bundles[commit[p]].manifest)
           /\ bundles[commit[p]].manifest.signing = KeyId[signer[p]]
-----------------------------------------------------------------------------
(* The steps of p in groups, by what they do to the media. *)
Others(p) == \A q \in Procs \ {p} : pc'[q] = pc[q] /\ exit'[q] = exit[q]

\* p leaves the media and the choices of all runs alone.
Still(p) ==
    /\ UNCHANGED <<bundles, signature, made, opt, signer, commit>>
    /\ Others(p) /\ ~ Passed(p)' /\ pc'[p] \notin Writing \cup {"idle"}
    /\ pc'[p] = "mkdir" => pc[p] = "recheck" /\ ~ made[commit[p]]
    /\ pc'[p] \in Located \cup {"resolve"} => pc[p] \in Located

\* p writes to the files of its own bundle.
Writes(p) ==
    /\ UNCHANGED <<made, opt, signer, commit>>
    /\ Others(p) /\ ~ Passed(p)'
    /\ pc[p] \in Writing /\ pc'[p] \notin {"mkdir", "idle"}
    /\ pc'[p] \in Busy => /\ pc[p] \in Busy
                          /\ bundles'[commit[p]].sidecar = bundles[commit[p]].sidecar
    /\ pc[p] # "sign" => UNCHANGED signature
    /\ pc[p] \notin Busy => UNCHANGED bundles
    /\ \A c \in Commits \ {commit[p]} :
         bundles'[c] = bundles[c] /\ signature'[c] = signature[c]
    /\ \/ bundles'[commit[p]].manifest = bundles[commit[p]].manifest
       \/ pc[p] = "manifest" /\ \E now : bundles'[commit[p]].manifest = Manifest(p, now)

LEMMA ExitsFailed ==
    ASSUME TypeInv, NEW p \in Procs, NEW code \in {UsageError, SourceError, LocalFsError, 1},
           NEW advice, Exit(p, code, advice)
    PROVE  /\ Others(p) /\ ~ Passed(p)' /\ pc'[p] = "done"
  BY DEF TypeInv, ControlType, Exit, Others, Passed, Ended, UsageError, SourceError,
         LocalFsError

LEMMA MovesOn ==
    ASSUME TypeInv, NEW p \in Procs, NEW l \in Running \ {"sigcheck"}, Goto(p, l)
    PROVE  /\ Others(p) /\ ~ Passed(p)' /\ pc'[p] = l
  BY Labels DEF TypeInv, ControlType, Goto, Others, Passed, Ended

LEMMA DoneLabels ==
    /\ {"done", "crashed", "idle"} \cap (Running \cup Writing \cup Busy) = {}
    /\ Busy \subseteq Writing \cup {"mkdir"} /\ Writing \subseteq Located
    /\ "mkdir" \notin Writing /\ "mkdir" \in Located
    /\ {"page", "sign", "verify", "sigcheck"} \subseteq Writing \ Busy
    /\ {"signer", "space", "path", "fetch", "collect", "preflight", "recheck"}
         \cap (Writing \cup Busy) = {}
    /\ {"dest", "signer", "resolve"} \cap Located = {}
    /\ Located \subseteq Running
  BY DEF Running, Writing, Busy, Located

LEMMA StillSteps ==
    ASSUME TypeInv, NEW p \in Procs,
           \/ ValidateDest(p) \/ CheckSpace(p) \/ CheckPath(p) \/ Fetch(p) \/ Collect(p)
           \/ Preflight(p) \/ Recheck(p) \/ CallFails(p) \/ Crash(p)
    PROVE  Still(p) /\ \A q \in Procs : undisturbed'[q] => undisturbed[q]
<1> USE DoneLabels
<1>1. CASE ValidateDest(p)
  BY <1>1, ExitsFailed, MovesOn DEF ValidateDest, Still, run, Running
<1>2. CASE CheckSpace(p)
  BY <1>2, ExitsFailed, MovesOn DEF CheckSpace, Still, run, shared, Running, Located
<1>3. CASE CheckPath(p)
  BY <1>3, ExitsFailed, MovesOn DEF CheckPath, Still, run, shared, Running, Located
<1>4. CASE Fetch(p)
  <2>1. CASE UNCHANGED <<pc, exit, said, told>>
    BY <1>4, <2>1 DEF Fetch, Still, Running, Located, TypeInv, ControlType, Others, Passed,
                      Ended
  <2>2. CASE Goto(p, "collect") \/ Exit(p, SourceError, "re-run-pack-to-resume")
    BY <1>4, <2>2, ExitsFailed, MovesOn DEF Fetch, Still, Running, Located
  <2> QED BY <1>4, <2>1, <2>2 DEF Fetch
<1>5. CASE Collect(p)
  BY <1>5, ExitsFailed, MovesOn DEF Collect, Still, shared, Running, Located
<1>6. CASE Preflight(p)
  BY <1>6, ExitsFailed, MovesOn DEF Preflight, Still, run, shared, Running, Located
<1>7. CASE Recheck(p)
  BY <1>7, ExitsFailed, MovesOn DEF Recheck, PathTaken, Still, run, shared, Running, Located
<1>8. CASE CallFails(p)
  <2>1. \E code \in {UsageError, SourceError, LocalFsError} : \E advice : Exit(p, code, advice)
    BY <1>8 DEF CallFails
  <2>2. \A q \in Procs : undisturbed'[q] => undisturbed[q]
    BY <1>8 DEF CallFails, TypeInv, HistoryType
  <2> QED BY <1>8, <2>1, <2>2, ExitsFailed DEF CallFails, Still, run, shared
<1>9. CASE Crash(p)
  BY <1>9 DEF Crash, Still, run, shared, TypeInv, ControlType, Others, Passed, Ended
<1> QED BY <1>1, <1>2, <1>3, <1>4, <1>5, <1>6, <1>7, <1>8, <1>9

\* Only the payload of one bundle differs.
PayloadOnly(b, d, c) ==
    \A e \in Commits : /\ e # c => d[e] = b[e]
                       /\ d[e].sidecar = b[e].sidecar /\ d[e].manifest = b[e].manifest
                       /\ d[e].verifier = b[e].verifier

LEMMA PayloadWritten ==
    ASSUME NEW b \in [Commits -> BundleType], NEW c, NEW n, NEW s
    PROVE  PayloadOnly(b, [b EXCEPT ![c].payload[n] = s], c)
<1> DEFINE d == [b EXCEPT ![c].payload[n] = s]
<1>1. ASSUME NEW e \in Commits, e # c PROVE d[e] = b[e]
  BY <1>1
<1>2. ASSUME c \in Commits
      PROVE  /\ d[c].sidecar = b[c].sidecar /\ d[c].manifest = b[c].manifest
             /\ d[c].verifier = b[c].verifier
  <2>1. d[c] = [b[c] EXCEPT !.payload[n] = s] /\ b[c] \in BundleType
    BY <1>2
  <2> HIDE DEF d
  <2> QED BY <2>1 DEF BundleType
<1> HIDE DEF d
<1>3. PayloadOnly(b, d, c)
  BY <1>1, <1>2 DEF PayloadOnly
<1> QED BY <1>3 DEF d

LEMMA WriteSteps ==
    ASSUME TypeInv, NEW p \in Procs,
           \/ OpenFile(p) \/ Fill(p) \/ DropTrailing(p) \/ InstallVerifier(p)
           \/ WriteManifest(p) \/ WriteSidecar(p) \/ WritePage(p) \/ Sign(p)
    PROVE  Writes(p) /\ UNCHANGED undisturbed
<1> USE DoneLabels
<1>0. /\ {"fill", "write", "manifest", "sidecar", "page", "sign", "verify"} \subseteq Running
      /\ {"fill", "write", "manifest", "sidecar"} \subseteq Busy \cap Writing
      /\ bundles \in [Commits -> BundleType]
      /\ pc[p] \in Writing \ {"verify", "sigcheck"} /\ commit[p] \in Commits
  <2>1. pc[p] \in Writing \ {"verify", "sigcheck"}
    BY DEF Writing, OpenFile, Fill, DropTrailing, InstallVerifier, WriteManifest,
       WriteSidecar, WritePage, Sign
  <2> QED BY <2>1, LocatedCommit DEF Running, Writing, Busy, TypeInv, MediaType
<1>1. CASE OpenFile(p)
  <2>1. PICK n : bundles' = [bundles EXCEPT ![commit[p]].payload[n] = <<>>] /\ Goto(p, "fill")
    BY <1>1 DEF OpenFile, Created
  <2>2. PayloadOnly(bundles, bundles', commit[p])
    BY <1>0, <2>1, PayloadWritten
  <2> QED BY <1>0, <1>1, <2>1, <2>2, MovesOn DEF OpenFile, Writes, settled, PayloadOnly
<1>2. CASE Fill(p)
  <2>1. /\ pc[p] = "fill" /\ UNCHANGED <<settled, undisturbed>>
        /\ \/ Exit(p, LocalFsError, "re-run") \/ Goto(p, "write") \/ UNCHANGED <<pc, exit>>
    BY <1>2 DEF Fill, Finish
  <2>2. PayloadOnly(bundles, bundles', commit[p])
    <3> DEFINE b == Filled(p, Segment(p))
    <3>1. b \in [Commits -> BundleType]
      BY SegmentType, FilledType
    <3>2. PayloadOnly(bundles, b, commit[p])
      BY <1>0, PayloadWritten DEF Filled, PayloadOnly
    <3> HIDE DEF b
    <3>3. \/ bundles' = bundles \/ bundles' = b
          \/ \E n : bundles' = [b EXCEPT ![commit[p]].payload[n] = <<>>]
      BY <1>2 DEF Fill, b
    <3>4. CASE bundles' = bundles \/ bundles' = b
      BY <3>2, <3>4 DEF PayloadOnly
    <3>5. ASSUME NEW n, bundles' = [b EXCEPT ![commit[p]].payload[n] = <<>>]
          PROVE  PayloadOnly(bundles, bundles', commit[p])
      <4>1. PayloadOnly(b, bundles', commit[p])
        BY <3>1, <3>5, PayloadWritten
      <4> QED BY <3>2, <4>1 DEF PayloadOnly
    <3> QED BY <3>3, <3>4, <3>5
  <2>3. Others(p) /\ ~ Passed(p)' /\ pc'[p] \in {"done", "write", "fill"}
    BY <1>0, <2>1, ExitsFailed, MovesOn DEF Others, Passed, Ended
  <2> QED BY <1>0, <2>1, <2>2, <2>3 DEF Writes, settled, PayloadOnly
<1>3. CASE DropTrailing(p)
  <2>1. /\ pc[p] = "fill" /\ UNCHANGED <<settled, undisturbed>>
        /\ \/ Exit(p, LocalFsError, "re-run") \/ Goto(p, "write")
        /\ \/ bundles' = bundles
           \/ \E n : bundles' = [bundles EXCEPT ![commit[p]].payload[n] = Missing]
    BY <1>3 DEF DropTrailing, Finish, WithoutTrailing
  <2>2. PayloadOnly(bundles, bundles', commit[p])
    <3>1. CASE bundles' = bundles
      BY <3>1 DEF PayloadOnly
    <3>2. ASSUME NEW n, bundles' = [bundles EXCEPT ![commit[p]].payload[n] = Missing]
          PROVE  PayloadOnly(bundles, bundles', commit[p])
      BY <1>0, <3>2, PayloadWritten
    <3> QED BY <2>1, <3>1, <3>2
  <2> QED BY <1>0, <2>1, <2>2, ExitsFailed, MovesOn DEF Writes, settled, PayloadOnly
<1>4. CASE InstallVerifier(p)
  BY <1>0, <1>4, MovesOn DEF InstallVerifier, Writes, run, BundleType
<1>5. CASE WriteManifest(p)
  <2>1. pc[p] = "manifest" /\ UNCHANGED <<settled, undisturbed>>
    BY <1>5 DEF WriteManifest
  <2>2. CASE bundles[commit[p]].verifier = Missing
    <3>1. Exit(p, LocalFsError, "re-run") /\ UNCHANGED bundles
      BY <1>5, <2>2 DEF WriteManifest
    <3> QED BY <1>0, <2>1, <3>1, ExitsFailed DEF Writes, settled
  <2>3. CASE bundles[commit[p]].verifier # Missing
    <3>1. PICK now : /\ bundles' = [bundles EXCEPT ![commit[p]].manifest = Manifest(p, now)]
                     /\ Goto(p, "sidecar")
      BY <1>5, <2>3 DEF WriteManifest
    <3>2. bundles'[commit[p]].manifest = Manifest(p, now)
      BY <1>0, <3>1 DEF BundleType
    <3> QED BY <1>0, <2>1, <3>1, <3>2, MovesOn DEF Writes, settled, BundleType
  <2> QED BY <2>2, <2>3
<1>6. CASE WriteSidecar(p)
  BY <1>0, <1>6, MovesOn DEF WriteSidecar, Writes, run, BundleType
<1>7. CASE WritePage(p)
  BY <1>0, <1>7, MovesOn DEF WritePage, Writes, run
<1>8. CASE Sign(p)
  BY <1>0, <1>8, MovesOn DEF Sign, Writes, run, TypeInv, MediaType
<1> QED BY <1>1, <1>2, <1>3, <1>4, <1>5, <1>6, <1>7, <1>8
-----------------------------------------------------------------------------
(* MediaInv and SignerInv, for any number of processes. *)
LEMMA SelfCheckSteps ==
    ASSUME TypeInv, NEW p \in Procs, SelfVerify(p) \/ CheckSignature(p)
    PROVE  /\ UNCHANGED <<shared, run, undisturbed, budget>> /\ Others(p)
           /\ pc[p] \in {"verify", "sigcheck"} /\ commit[p] \in Commits
           /\ pc'[p] \in {"sigcheck", "done"}
           /\ Passed(p)' => IF pc[p] = "verify" THEN Intact(bundles[commit[p]]) ELSE Passed(p)
           /\ Ended(p, 0)' =>
                \/ signer[p] = NoKey
                \/ Verdict(bundles[commit[p]].manifest, signature[commit[p]], signer[p]) = "VALID"
<1>1. CASE SelfVerify(p)
  <2>1. commit[p] \in Commits /\ pc[p] = "verify"
    BY <1>1, LocatedCommit DEF SelfVerify, Located, Running, Writing
  <2>2. CASE Exit(p, 1, "traceback") \/ Exit(p, LocalFsError, "re-run-pack")
    BY <1>1, <2>1, <2>2, ExitsFailed DEF SelfVerify, Passed
  <2>3. CASE Intact(bundles[commit[p]]) /\ signer[p] # NoKey /\ Goto(p, "sigcheck")
    BY <1>1, <2>1, <2>3 DEF SelfVerify, Goto, Others, Ended, TypeInv, ControlType, Running, Writing
  <2>4. CASE Intact(bundles[commit[p]]) /\ signer[p] = NoKey /\ Exit(p, 0, "nothing")
    BY <1>1, <2>1, <2>4 DEF SelfVerify, Exit, Others, TypeInv, ControlType
  <2> QED BY <1>1, <2>2, <2>3, <2>4 DEF SelfVerify, Passes
<1>2. CASE CheckSignature(p)
  <2>1. commit[p] \in Commits /\ pc[p] = "sigcheck" /\ Passed(p)
    BY <1>2, LocatedCommit DEF CheckSignature, Located, Running, Writing, Passed
  <2>2. CASE Exit(p, 1, "traceback") \/ Exit(p, LocalFsError, "re-run-pack")
    BY <1>2, <2>1, <2>2, ExitsFailed DEF CheckSignature, Passed
  <2>3. CASE /\ Verdict(bundles[commit[p]].manifest, signature[commit[p]], signer[p]) = "VALID"
             /\ Exit(p, 0, "nothing")
    BY <1>2, <2>1, <2>3 DEF CheckSignature, Exit, Others, TypeInv, ControlType
  <2> QED BY <1>2, <2>2, <2>3 DEF CheckSignature, ReadBack
<1> QED BY <1>1, <1>2

LEMMA BeginSteps ==
    ASSUME TypeInv, NEW p \in Procs, Begin(p)
    PROVE  /\ UNCHANGED shared /\ Others(p) /\ pc'[p] = "dest" /\ ~ Passed(p)'
           /\ \A q \in Procs \ {p} :
                /\ commit'[q] = commit[q] /\ opt'[q] = opt[q] /\ signer'[q] = signer[q]
                /\ undisturbed'[q] = undisturbed[q]
  BY DEF Begin, Others, Passed, Ended, TypeInv, ControlType, ChoiceType, HistoryType

\* The two steps that choose the key and the commit of a run.
LEMMA ChoiceSteps ==
    ASSUME TypeInv, NEW p \in Procs, MakeSigner(p) \/ Resolve(p)
    PROVE  /\ UNCHANGED <<shared, opt, undisturbed>> /\ Others(p) /\ ~ Passed(p)'
           /\ pc[p] \in {"signer", "resolve"} /\ pc'[p] \in {"resolve", "space", "done"}
           /\ pc'[p] = "space" => pc[p] = "resolve" /\ signer' = signer
           /\ pc'[p] = "resolve" => (opt[p].sign <=> signer'[p] # NoKey)
           /\ \A q \in Procs \ {p} : commit'[q] = commit[q] /\ signer'[q] = signer[q]
<1> USE DoneLabels
<1>1. CASE MakeSigner(p)
  <2>1. CASE /\ Exit(p, UsageError, "set-a-key") \/ Exit(p, 1, "traceback")
             /\ UNCHANGED signer
    BY <1>1, <2>1, ExitsFailed DEF MakeSigner
  <2>2. CASE /\ ~ (opt[p].sign /\ secretFile \notin Keys) /\ Goto(p, "resolve")
             /\ signer' = [signer EXCEPT ![p] = IF opt[p].sign THEN secretFile ELSE NoKey]
    <3>1. signer'[p] = (IF opt[p].sign THEN secretFile ELSE NoKey)
      BY <2>2 DEF TypeInv, ChoiceType
    <3>2. opt[p].sign <=> signer'[p] # NoKey
      BY <2>2, <3>1, Constants
    <3> QED BY <1>1, <2>2, <3>2, MovesOn DEF MakeSigner, Running, TypeInv, ChoiceType
  <2> QED BY <1>1, <2>1, <2>2 DEF MakeSigner
<1>2. CASE Resolve(p)
  <2>1. CASE Exit(p, SourceError, "widen-the-patterns") /\ UNCHANGED commit
    BY <1>2, <2>1, ExitsFailed DEF Resolve
  <2>2. CASE Goto(p, "space") /\ \E c \in Commits : commit' = [commit EXCEPT ![p] = c]
    BY <1>2, <2>2, MovesOn DEF Resolve, Running, TypeInv, ChoiceType
  <2> QED BY <1>2, <2>1, <2>2 DEF Resolve
<1> QED BY <1>1, <1>2
LEMMA FaultSteps ==
    ASSUME TypeInv, NEW p \in Procs, DiskFault(p)
    PROVE  /\ UNCHANGED <<made, pc, exit, opt, signer, commit>>
           /\ undisturbed' = [q \in Procs |-> FALSE]
           /\ pc[p] \in Writing \ {"sigcheck"} /\ commit[p] \in Commits
           /\ budget'.faults < budget.faults
           /\ \A c \in Commits \ {commit[p]} :
                bundles'[c] = bundles[c] /\ signature'[c] = signature[c]
           /\ bundles'[commit[p]].sidecar = bundles[commit[p]].sidecar
           /\ bundles'[commit[p]].manifest \in {bundles[commit[p]].manifest, Malformed}
<1>1. /\ UNCHANGED <<made, pc, exit, opt, signer, commit>>
      /\ undisturbed' = [q \in Procs |-> FALSE]
      /\ pc[p] \in Writing \ {"sigcheck"}
      /\ budget' = [budget EXCEPT !.faults = @ - 1]
  BY DEF DiskFault, run
<1>2. commit[p] \in Commits
  BY <1>1, LocatedCommit, DoneLabels
<1>3. budget'.faults < budget.faults
  BY <1>1 DEF TypeInv, HistoryType
<1>4. bundles \in [Commits -> BundleType] /\ bundles[commit[p]] \in BundleType
  BY <1>2 DEF TypeInv, MediaType
<1>5. \/ UNCHANGED bundles /\ \E s : signature' = [signature EXCEPT ![commit[p]] = s]
      \/ /\ UNCHANGED signature
         /\ \/ \E n : bundles' = [bundles EXCEPT ![commit[p]].payload[n] = Bad]
            \/ bundles' = [bundles EXCEPT ![commit[p]].manifest = Malformed]
            \/ \E tool : bundles' = [bundles EXCEPT ![commit[p]].verifier = tool]
  BY DEF DiskFault
<1>6. /\ \A c \in Commits \ {commit[p]} : bundles'[c] = bundles[c]
      /\ bundles'[commit[p]].sidecar = bundles[commit[p]].sidecar
      /\ bundles'[commit[p]].manifest \in {bundles[commit[p]].manifest, Malformed}
  <2>1. ASSUME NEW n, bundles' = [bundles EXCEPT ![commit[p]].payload[n] = Bad]
        PROVE  PayloadOnly(bundles, bundles', commit[p])
    BY <1>4, <2>1, PayloadWritten
  <2>2. CASE bundles' = [bundles EXCEPT ![commit[p]].manifest = Malformed]
    BY <1>2, <1>4, <2>2 DEF BundleType
  <2>3. CASE \E tool : bundles' = [bundles EXCEPT ![commit[p]].verifier = tool]
    BY <1>2, <1>4, <2>3 DEF BundleType
  <2> QED BY <1>2, <1>5, <2>1, <2>2, <2>3 DEF PayloadOnly
<1>7. \A c \in Commits \ {commit[p]} : signature'[c] = signature[c]
  BY <1>5 DEF TypeInv, MediaType
<1> QED BY <1>1, <1>2, <1>3, <1>6, <1>7

LEMMA RemoveSteps ==
    ASSUME TypeInv, NEW c \in Commits, RemoveBundle(c)
    PROVE  /\ UNCHANGED <<pc, exit, opt, signer, commit, undisturbed>>
           /\ ~ made'[c] /\ bundles'[c] = NoBundle /\ signature'[c] = Missing
           /\ \A d \in Commits \ {c} : /\ made'[d] = made[d] /\ bundles'[d] = bundles[d]
                                       /\ signature'[d] = signature[d]
           /\ \A p \in Procs : commit[p] = c => pc[p] \notin Running
  BY DEF RemoveBundle, TypeInv, MediaType, run

LEMMA MakeSteps ==
    ASSUME TypeInv, NEW p \in Procs, MakeDirs(p)
    PROVE  /\ UNCHANGED <<bundles, signature, opt, signer, commit, undisturbed>>
           /\ pc[p] = "mkdir" /\ pc'[p] = "write" /\ Others(p) /\ ~ Passed(p)'
           /\ commit[p] \in Commits /\ made'[commit[p]]
           /\ \A c \in Commits \ {commit[p]} : made'[c] = made[c]
<1>1. commit[p] \in Commits
  BY LocatedCommit, DoneLabels DEF MakeDirs
<1>2. Others(p) /\ ~ Passed(p)' /\ pc'[p] = "write"
  BY MovesOn DEF MakeDirs, Running, Writing
<1> QED BY <1>1, <1>2 DEF MakeDirs, TypeInv, MediaType, run

\* The kinds of step there are.
LEMMA StepCases ==
    ASSUME TypeInv, [Next]_vars
    PROVE  \/ UNCHANGED vars
           \/ \E c \in Commits : RemoveBundle(c)
           \/ \E p \in Procs :
                \/ Still(p) /\ \A q \in Procs : undisturbed'[q] => undisturbed[q]
                \/ Writes(p) /\ UNCHANGED undisturbed
                \/ Begin(p) \/ MakeSigner(p) \/ Resolve(p) \/ MakeDirs(p)
                \/ SelfVerify(p) \/ CheckSignature(p) \/ DiskFault(p)
<1>1. ASSUME NEW p \in Procs, Step(p)
      PROVE  \/ Still(p) /\ \A q \in Procs : undisturbed'[q] => undisturbed[q]
             \/ Writes(p) /\ UNCHANGED undisturbed
             \/ MakeSigner(p) \/ Resolve(p) \/ MakeDirs(p)
             \/ SelfVerify(p) \/ CheckSignature(p)
  BY <1>1, StillSteps, WriteSteps DEF Step
<1>2. ASSUME NEW p \in Procs, CallFails(p) \/ Crash(p)
      PROVE  Still(p) /\ \A q \in Procs : undisturbed'[q] => undisturbed[q]
  BY <1>2, StillSteps
<1> QED BY <1>1, <1>2 DEF Next
-----------------------------------------------------------------------------
LEMMA InitSafety == Init => MediaInv /\ SignerInv /\ AgreedInv /\ AloneInv
<1> SUFFICES ASSUME Init PROVE MediaInv /\ SignerInv /\ AgreedInv /\ AloneInv
  OBVIOUS
<1>1. \A p \in Procs : pc[p] = "idle" /\ "idle" \notin Writing \cup Located \cup Busy
  BY DoneLabels DEF Init
<1>2. \A c \in Commits : /\ bundles[c] = NoBundle /\ signature[c] = Missing /\ ~ made[c]
                         /\ ~ IsManifest(bundles[c].manifest)
  BY DEF Init, NoBundle, IsManifest
<1> QED BY <1>1, <1>2 DEF MediaInv, SignerInv, AgreedInv, AloneInv, Passed, Ended

LEMMA MediaInvStep == TypeInv /\ MediaInv /\ [Next]_vars => MediaInv'
<1> SUFFICES ASSUME TypeInv, MediaInv, [Next]_vars PROVE MediaInv'
  OBVIOUS
<1> USE DoneLabels
<1>1. CASE UNCHANGED vars
  BY <1>1 DEF vars, shared, run, MediaInv
<1>2. ASSUME NEW c \in Commits, RemoveBundle(c) PROVE MediaInv'
  <2>1. ~ IsManifest(bundles'[c].manifest)
    BY <1>2, RemoveSteps DEF NoBundle, IsManifest
  <2>2. \A p \in Procs : pc'[p] \in Writing => commit'[p] # c /\ commit[p] \in Commits
    BY <1>2, RemoveSteps, LocatedCommit
  <2> QED BY <1>2, <2>1, <2>2, RemoveSteps DEF MediaInv
<1>3. ASSUME NEW p \in Procs, Still(p) PROVE MediaInv'
  BY <1>3 DEF Still, Others, MediaInv
<1>4. ASSUME NEW p \in Procs, Writes(p) PROVE MediaInv'
  <2>1. \A c \in Commits \ {commit[p]} : bundles'[c] = bundles[c] /\ signature'[c] = signature[c]
    BY <1>4 DEF Writes
  <2>2. made[commit[p]] /\ UNCHANGED <<made, commit>>
    BY <1>4 DEF Writes, MediaInv
  <2>3. commit[p] \in Commits
    BY <1>4, LocatedCommit DEF Writes
  <2>4. \A q \in Procs : pc'[q] \in Writing => pc[q] \in Writing
    BY <1>4 DEF Writes, Others
  <2>5. IsManifest(bundles'[commit[p]].manifest) => bundles'[commit[p]].manifest.source = commit[p]
    <3>1. CASE bundles'[commit[p]].manifest = bundles[commit[p]].manifest
      BY <2>3, <3>1 DEF MediaInv
    <3>2. ASSUME NEW now, bundles'[commit[p]].manifest = Manifest(p, now)
          PROVE  bundles'[commit[p]].manifest.source = commit[p]
      BY <3>2 DEF Manifest
    <3> QED BY <1>4, <3>1, <3>2 DEF Writes
  <2> QED BY <2>1, <2>2, <2>3, <2>4, <2>5 DEF MediaInv
<1>5. ASSUME NEW p \in Procs, Begin(p) PROVE MediaInv'
  BY <1>5, BeginSteps DEF MediaInv, Others, shared, Writing
<1>6. ASSUME NEW p \in Procs, MakeSigner(p) \/ Resolve(p) PROVE MediaInv'
  BY <1>6, ChoiceSteps DEF MediaInv, Others, shared, Writing
<1>7. ASSUME NEW p \in Procs, MakeDirs(p) PROVE MediaInv'
  <2>1. \A q \in Procs : pc'[q] \in Writing => made'[commit'[q]]
    <3>1. ASSUME NEW q \in Procs \ {p}, pc'[q] \in Writing PROVE made'[commit'[q]]
      <4>1. pc[q] \in Writing /\ commit'[q] = commit[q] /\ made[commit[q]]
        BY <1>7, <3>1, MakeSteps DEF Others, MediaInv
      <4>2. commit[q] \in Commits
        BY <4>1, LocatedCommit
      <4> QED BY <1>7, <4>1, <4>2, MakeSteps
    <3> QED BY <1>7, <3>1, MakeSteps
  <2> QED BY <1>7, <2>1, MakeSteps DEF MediaInv
<1>8. ASSUME NEW p \in Procs, SelfVerify(p) \/ CheckSignature(p) PROVE MediaInv'
  BY <1>8, SelfCheckSteps DEF MediaInv, Others, shared, run, Writing
<1>9. ASSUME NEW p \in Procs, DiskFault(p) PROVE MediaInv'
  <2>1. IsManifest(bundles'[commit[p]].manifest) => bundles'[commit[p]].manifest.source = commit[p]
    BY <1>9, FaultSteps DEF MediaInv, IsManifest
  <2>2. made[commit[p]]
    BY <1>9, FaultSteps DEF MediaInv
  <2> QED BY <1>9, <2>1, <2>2, FaultSteps DEF MediaInv
<1> QED BY <1>1, <1>2, <1>3, <1>4, <1>5, <1>6, <1>7, <1>8, <1>9, StepCases

LEMMA SignerInvStep == TypeInv /\ SignerInv /\ [Next]_vars => SignerInv'
<1> SUFFICES ASSUME TypeInv, SignerInv, [Next]_vars PROVE SignerInv'
  OBVIOUS
<1> USE DoneLabels
<1>1. CASE UNCHANGED vars
  BY <1>1 DEF vars, shared, run, SignerInv, Ended
<1>2. ASSUME NEW c \in Commits, RemoveBundle(c) PROVE SignerInv'
  BY <1>2, RemoveSteps DEF SignerInv, Ended
<1>3. ASSUME NEW p \in Procs, Still(p) PROVE SignerInv'
  BY <1>3 DEF Still, Others, SignerInv, Passed, Ended
<1>4. ASSUME NEW p \in Procs, Writes(p) PROVE SignerInv'
  BY <1>4 DEF Writes, Others, SignerInv, Passed, Ended
<1>5. ASSUME NEW p \in Procs, Begin(p) PROVE SignerInv'
  BY <1>5, BeginSteps DEF SignerInv, Others, Passed, Ended
<1>6. ASSUME NEW p \in Procs, MakeSigner(p) \/ Resolve(p) PROVE SignerInv'
  BY <1>6, ChoiceSteps DEF SignerInv, Others, Passed, Ended
<1>7. ASSUME NEW p \in Procs, MakeDirs(p) PROVE SignerInv'
  BY <1>7, MakeSteps DEF SignerInv, Others, Passed, Ended
<1>8. ASSUME NEW p \in Procs, SelfVerify(p) \/ CheckSignature(p) PROVE SignerInv'
  BY <1>8, SelfCheckSteps DEF SignerInv, Others, run, Ended
<1>9. ASSUME NEW p \in Procs, DiskFault(p) PROVE SignerInv'
  BY <1>9, FaultSteps DEF SignerInv, Ended
<1> QED BY <1>1, <1>2, <1>3, <1>4, <1>5, <1>6, <1>7, <1>8, <1>9, StepCases
-----------------------------------------------------------------------------
\* Nobody but a run that reads the bundle itself passes, and nobody who has
\* passed writes.
LEMMA AgreedInvStep == TypeInv /\ AgreedInv /\ [Next]_vars => AgreedInv'
<1> SUFFICES ASSUME TypeInv, AgreedInv, [Next]_vars PROVE AgreedInv'
  OBVIOUS
<1> DEFINE Agree(c) == /\ made[c]
                       /\ \A p \in Procs : Passed(p) /\ commit[p] = c /\ undisturbed[p]
<1>0. ASSUME NEW p \in Procs, ~ Passed(p)' PROVE AgreedInv'
  BY <1>0 DEF AgreedInv
<1>1. CASE UNCHANGED vars
  BY <1>1 DEF vars, shared, run, AgreedInv, Passed, Ended
<1>2. ASSUME NEW c \in Commits, RemoveBundle(c) PROVE AgreedInv'
  BY <1>2, RemoveSteps DEF AgreedInv, Passed, Ended
<1>3. ASSUME NEW p \in Procs, SelfVerify(p) \/ CheckSignature(p) PROVE AgreedInv'
  <2> SUFFICES ASSUME NEW c \in Commits, Agree(c)' PROVE Intact(bundles'[c])
    BY DEF AgreedInv
  <2>1. UNCHANGED <<bundles, made, commit, undisturbed>> /\ Others(p)
    BY <1>3, SelfCheckSteps DEF shared, run
  <2>2. CASE pc[p] = "verify"
    BY <1>3, <2>1, <2>2, SelfCheckSteps
  <2>3. CASE pc[p] # "verify"
    <3>1. \A q \in Procs : Passed(q)
      BY <1>3, <2>1, <2>3, SelfCheckSteps DEF Others, Passed, Ended
    <3> QED BY <2>1, <3>1 DEF AgreedInv
  <2> QED BY <2>2, <2>3
<1>4. ASSUME NEW p \in Procs, DiskFault(p) PROVE AgreedInv'
  BY <1>4, FaultSteps DEF AgreedInv
<1>5. ASSUME NEW p \in Procs,
             Still(p) \/ Writes(p) \/ Begin(p) \/ MakeSigner(p) \/ Resolve(p) \/ MakeDirs(p)
      PROVE  ~ Passed(p)'
  BY <1>5, BeginSteps, ChoiceSteps, MakeSteps DEF Still, Writes
<1> QED BY <1>0, <1>1, <1>2, <1>3, <1>4, <1>5, StepCases

LEMMA ValidSignature ==
    ASSUME NEW m, NEW s, NEW k, Verdict(m, s, k) = "VALID"
    PROVE  s = Signature(k, m) /\ m.signing = KeyId[k]
<1>1. Claim(m) = "SIGNED" /\ Check(m, s, k) = "VALID"
  <2>1. Claim(m) # "VALID"
    BY DEF Claim
  <2> QED BY <2>1 DEF Verdict
<1>2. s \notin {Missing, Unreadable, Cut}
  BY <1>1, ZenonT(30) DEF Check
<1>3. (IF s # Signature(k, m) THEN "BAD_SIGNATURE"
       ELSE IF m.signing # KeyId[k] THEN "KEY_MISMATCH" ELSE "VALID") = "VALID"
  BY <1>1, <1>2, ZenonT(30) DEF Check
<1> QED BY <1>3

LEMMA AloneInvStep ==
    ASSUME OneProcess, TypeInv, MediaInv, SignerInv, AloneInv, [Next]_vars
    PROVE  AloneInv'
<1> USE DoneLabels
<1>1. CASE UNCHANGED vars
  BY <1>1 DEF vars, shared, run, AloneInv, Passed, Ended
<1>2. ASSUME NEW c \in Commits, RemoveBundle(c) PROVE AloneInv'
  <2>1. ASSUME NEW p \in Procs PROVE pc[p] \in Busy => commit[p] # c /\ commit[p] \in Commits
    BY <1>2, RemoveSteps, LocatedCommit
  <2>2. ASSUME NEW p \in Procs, Passed(p) PROVE commit[p] \in Commits
    BY <2>2, LocatedCommit DEF SignerInv, Passed
  <2> QED BY <1>2, <2>1, <2>2, RemoveSteps DEF AloneInv, Passed, Ended
<1>3. ASSUME NEW p \in Procs, Still(p) PROVE AloneInv'
  <2>1. pc'[p] \in Busy => bundles'[commit'[p]].sidecar = Missing
    <3>1. pc'[p] \in Busy => pc'[p] = "mkdir" /\ commit[p] \in Commits
      BY <1>3, LocatedCommit DEF Still
    <3>2. pc'[p] \in Busy => bundles[commit[p]] = NoBundle
      BY <1>3, <3>1 DEF Still, MediaInv
    <3> QED BY <1>3, <3>2 DEF Still, NoBundle
  <2> QED BY <1>3, <2>1 DEF Still, AloneInv, OneProcess, Passed
<1>4. ASSUME NEW p \in Procs, Writes(p) PROVE AloneInv'
  BY <1>4 DEF Writes, AloneInv, OneProcess, Passed
<1>5. ASSUME NEW p \in Procs, Begin(p) PROVE AloneInv'
  BY <1>5, BeginSteps DEF AloneInv, OneProcess, Passed
<1>6. ASSUME NEW p \in Procs, MakeSigner(p) \/ Resolve(p) PROVE AloneInv'
  BY <1>6, ChoiceSteps DEF AloneInv, OneProcess, Passed
<1>7. ASSUME NEW p \in Procs, MakeDirs(p) PROVE AloneInv'
  BY <1>7, MakeSteps DEF AloneInv, OneProcess, Passed, Busy
<1>8. ASSUME NEW p \in Procs, SelfVerify(p) \/ CheckSignature(p) PROVE AloneInv'
  <2>1. UNCHANGED <<bundles, signature, made, commit, opt, signer>>
    BY <1>8, SelfCheckSteps DEF shared, run
  <2>2. pc'[p] \notin Busy
    BY <1>8, SelfCheckSteps
  <2>3. Passed(p)' /\ made[commit[p]] => Intact(bundles[commit[p]])
    BY <1>8, SelfCheckSteps DEF AloneInv
  <2>4. Ended(p, 0)' /\ opt[p].sign =>
          /\ signature[commit[p]] = Signature(signer[p], bundles[commit[p]].manifest)
          /\ bundles[commit[p]].manifest.signing = KeyId[signer[p]]
    <3>1. opt[p].sign => signer[p] # NoKey
      BY <1>8, SelfCheckSteps DEF SignerInv
    <3> QED BY <1>8, <3>1, SelfCheckSteps, ValidSignature
  <2> QED BY <2>1, <2>2, <2>3, <2>4 DEF AloneInv, OneProcess
<1>9. ASSUME NEW p \in Procs, DiskFault(p) PROVE AloneInv'
  BY <1>9, FaultSteps DEF AloneInv, OneProcess, Passed, Ended
<1> QED BY <1>1, <1>2, <1>3, <1>4, <1>5, <1>6, <1>7, <1>8, <1>9, StepCases
-----------------------------------------------------------------------------
(* Runs of pack that write one bundle through each other: when every one of *)
(* them has reported success the bundle passes verify (pack.py:273-283,     *)
(* 299-317).                                                                *)
THEOREM PackUnanimous == Spec => []UnanimousSuccess
<1>1. Init => TypeInv /\ AgreedInv
  BY InitTypeInv, InitSafety
<1>2. TypeInv /\ AgreedInv /\ [Next]_vars => (TypeInv /\ AgreedInv)'
  BY StepTypeInv, AgreedInvStep
<1>3. AgreedInv => UnanimousSuccess
  BY DEF AgreedInv, UnanimousSuccess, Passed
<1> QED BY <1>1, <1>2, <1>3, PTL DEF Spec

AloneSafe == TypeInv /\ MediaInv /\ SignerInv /\ AloneInv

LEMMA AloneSafety == ASSUME OneProcess PROVE Spec => []AloneSafe
<1>1. Init => AloneSafe
  BY InitTypeInv, InitSafety DEF AloneSafe
<1>2. AloneSafe /\ [Next]_vars => AloneSafe'
  BY StepTypeInv, MediaInvStep, SignerInvStep, AloneInvStep DEF AloneSafe
<1> QED BY <1>1, <1>2, PTL DEF Spec

(* A pack that is alone and exits with 0 leaves an intact bundle of the     *)
(* commit it resolved, with a signature by its own key if one was asked     *)
(* for, whatever the disk did to the files it wrote (pack.py:313-328).      *)
THEOREM PackSuccess == ASSUME OneProcess PROVE Spec => []SuccessIsVerified
<1>1. ASSUME AloneSafe PROVE SuccessIsVerified
  <2> SUFFICES ASSUME NEW p \in Procs, Ended(p, 0), made[commit[p]]
               PROVE  LET b == bundles[commit[p]]
                      IN /\ Intact(b)
                         /\ b.manifest.source = commit[p]
                         /\ opt[p].sign =>
                              /\ signature[commit[p]] = Signature(signer[p], b.manifest)
                              /\ b.manifest.signing = KeyId[signer[p]]
    BY DEF SuccessIsVerified
  <2>1. Intact(bundles[commit[p]]) /\ commit[p] \in Commits
    BY <1>1 DEF AloneSafe, AloneInv, SignerInv, Passed
  <2>2. bundles[commit[p]].manifest.source = commit[p]
    BY <1>1, <2>1 DEF AloneSafe, MediaInv, Intact
  <2> QED BY <1>1, <2>1, <2>2 DEF AloneSafe, AloneInv
<1> QED BY <1>1, AloneSafety, PTL

(* A bundle that passes verify is written to no more by a pack that is      *)
(* alone, of whatever commit: only the operator and the disk touch it       *)
(* (pack.py:433-437).                                                       *)
THEOREM PackKeepsIntact == ASSUME OneProcess PROVE Spec => IntactBundleKept
<1> DEFINE Kept == \A c \in Commits : Intact(bundles[c]) =>
                     \/ bundles'[c] = bundles[c] \/ ~ made'[c]
                     \/ budget'.faults < budget.faults
<1>1. ASSUME AloneSafe, [Next]_vars PROVE Kept
  <2> SUFFICES ASSUME NEW c \in Commits, Intact(bundles[c])
               PROVE  \/ bundles'[c] = bundles[c] \/ ~ made'[c]
                      \/ budget'.faults < budget.faults
    OBVIOUS
  <2> USE <1>1 DEF AloneSafe
  <2>1. CASE UNCHANGED vars
    BY <2>1 DEF vars, shared
  <2>2. ASSUME NEW d \in Commits, RemoveBundle(d) PROVE bundles'[c] = bundles[c] \/ ~ made'[c]
    BY <2>2, RemoveSteps
  <2>3. ASSUME NEW p \in Procs, Writes(p) PROVE bundles'[c] = bundles[c]
    BY <2>3 DEF Writes, AloneInv, Intact, IsManifest
  <2>4. ASSUME NEW p \in Procs, DiskFault(p) PROVE budget'.faults < budget.faults
    BY <2>4, FaultSteps
  <2>5. ASSUME NEW p \in Procs, \/ Still(p) \/ Begin(p) \/ MakeSigner(p) \/ Resolve(p)
                                \/ MakeDirs(p) \/ SelfVerify(p) \/ CheckSignature(p)
        PROVE  UNCHANGED bundles
    BY <2>5, BeginSteps, ChoiceSteps, MakeSteps, SelfCheckSteps DEF Still, shared
  <2> QED BY <2>1, <2>2, <2>3, <2>4, <2>5, StepCases
<1>2. AloneSafe /\ [Next]_vars =>
        [\A c \in Commits : Intact(bundles[c]) =>
           \/ bundles'[c] = bundles[c]
           \/ ~ made'[c]
           \/ budget'.faults < budget.faults]_vars
  BY <1>1
<1> QED BY <1>2, AloneSafety, PTL DEF Spec, IntactBundleKept
-----------------------------------------------------------------------------
(***************************************************************************)
(* What the manifest says of the model.  A run reads the files it packs    *)
(* from the staging directory, which all runs share, so they are those of  *)
(* its commit only where one commit at a time is downloaded to it.         *)
(***************************************************************************)
Apart == OneProcess \/ \A c, d \in Commits : c = d

Fresh   == {"dest", "signer", "resolve", "space", "path"}
Assembling == {"preflight", "recheck", "mkdir", "write", "fill"}

\* What is downloaded and stays in place until it is packed.
StagedInv ==
    \A p \in Procs :
      /\ pc[p] \in Fresh => fetched[p] = {}
      /\ pc[p] \in Fresh \cup {"fetch", "collect"} => entries[p] = <<>>
      /\ pc[p] = "fetch" => \A n \in fetched[p] \cap DOMAIN Repo[commit[p]] :
                              staging[n] = Repo[commit[p]][n]
      /\ pc[p] \in Assembling \cup {"collect"} => \A n \in DOMAIN Repo[commit[p]] :
                              staging[n] = Repo[commit[p]][n]

\* e is an entry for a file of commit c.
Whole(e, c) ==
    /\ e.path \in DOMAIN Repo[c] /\ e.sha = Repo[c][e.path]
    /\ e.parts # <<>> => PartsJoin(e)

Paths(list) == { list[k].path : k \in DOMAIN list }

\* Every part that is recorded is a full chunk of the file.
FullParts(list, s, c) ==
    \A k \in DOMAIN list :
      /\ k * c <= Len(s)
      /\ list[k].sha = SubSeq(s, (k - 1) * c + 1, k * c)

\* What is packed and what is not packed yet are all of the commit.
EntriesInv ==
    \A p \in Procs :
      /\ pc[p] \in Assembling \cup {"manifest"} =>
           \A k \in DOMAIN entries[p] : Whole(entries[p][k], commit[p])
      /\ pc[p] \in Assembling => todo[p] \cup Paths(entries[p]) = DOMAIN Repo[commit[p]]
      /\ pc[p] = "manifest" => Paths(entries[p]) = DOMAIN Repo[commit[p]]
      /\ pc[p] = "fill" => /\ file[p] \in todo[p] /\ src[p] = Repo[commit[p]][file[p]]
                           /\ Chunked(p) => FullParts(parts[p], src[p], opt[p].chunk)

ManifestsInv ==
    \A c \in Commits : IsManifest(bundles[c].manifest) =>
      DeclaresCommit(bundles[c].manifest, c) /\ HashesAgree(bundles[c].manifest)

ContentInv == StagedInv /\ EntriesInv /\ ManifestsInv
-----------------------------------------------------------------------------
(* The parts of a file are the file. *)
LEMMA ProductNext ==
    ASSUME NEW k \in Nat, NEW c \in Nat
    PROVE  k * c \in Nat /\ (k + 1) * c = k * c + c
  OBVIOUS

LEMMA SubSeqLength ==
    ASSUME NEW S, NEW s \in Seq(S), NEW a \in Nat, NEW b \in Nat, a <= b, b <= Len(s)
    PROVE  Len(SubSeq(s, a + 1, b)) = b - a
<1>1. \A k \in a + 1 .. b : s[k] \in S
  OBVIOUS
<1> QED BY <1>1, SubSeqProperties

LEMMA FullPartsJoin ==
    ASSUME NEW s \in Contents, NEW c \in Nat \ {0}, NEW f, NEW list \in Seq(PartType),
           NEW n \in Nat, Len(list) = n + 1, n * c <= Len(s),
           \A k \in 1 .. n : k * c <= Len(s)
                             /\ list[k].sha = SubSeq(s, (k - 1) * c + 1, k * c),
           list[n + 1].sha = SubSeq(s, n * c + 1, Len(s))
    PROVE  PartsJoin([path |-> f, sha |-> s, parts |-> list])
<1> DEFINE cut == [k \in 0 .. n + 1 |-> IF k = n + 1 THEN Len(s) ELSE k * c]
<1>1. Len(s) \in Nat /\ DOMAIN list = 1 .. n + 1
  BY DEF Contents
<1>2. \A k \in 0 .. n : k * c \in Nat /\ k * c <= Len(s)
  <2> SUFFICES ASSUME NEW k \in 0 .. n PROVE k * c \in Nat /\ k * c <= Len(s)
    OBVIOUS
  <2>1. CASE k = 0
    BY <1>1, <2>1
  <2>2. CASE k # 0
    <3>1. k \in 1 .. n /\ k \in Nat /\ c \in Nat
      BY <2>2
    <3>2. k * c \in Nat
      BY <3>1, ProductNext
    <3> QED BY <3>1, <3>2
  <2> QED BY <2>1, <2>2
<1>3. cut \in [0 .. n + 1 -> 0 .. Len(s)]
  <2> SUFFICES ASSUME NEW k \in 0 .. n + 1 PROVE cut[k] \in 0 .. Len(s)
    OBVIOUS
  <2>1. CASE k = n + 1
    BY <1>1, <2>1
  <2>2. CASE k # n + 1
    BY <1>2, <2>2
  <2> QED BY <2>1, <2>2
<1>4. cut[0] = 0 /\ cut[n + 1] = Len(s)
  OBVIOUS
<1>5. ASSUME NEW k \in 1 .. n + 1
      PROVE  /\ cut[k - 1] <= cut[k]
             /\ list[k].sha = SubSeq(s, cut[k - 1] + 1, cut[k])
  <2>1. cut[k - 1] = (k - 1) * c
    OBVIOUS
  <2>2. CASE k = n + 1
    BY <1>4, <2>1, <2>2
  <2>3. CASE k # n + 1
    <3>1. k \in 1 .. n /\ cut[k] = k * c /\ (k - 1) * c <= k * c
      BY <2>3, ProductMonotone
    <3> QED BY <2>1, <3>1
  <2> QED BY <2>2, <2>3
<1> HIDE DEF cut
<1> QED BY <1>1, <1>3, <1>4, <1>5 DEF PartsJoin

\* The next chunk of the contents s after n of them.
ChunkEnd(s, n, c) == IF (n + 1) * c < Len(s) THEN (n + 1) * c ELSE Len(s)
Chunk(s, n, c)    == SubSeq(s, n * c + 1, ChunkEnd(s, n, c))

LEMMA ChunkLength ==
    ASSUME NEW s \in Contents, NEW c \in Nat \ {0}, NEW n \in Nat, n * c <= Len(s)
    PROVE  /\ Len(s) \in Nat /\ n * c \in Nat /\ (n + 1) * c = n * c + c
           /\ ChunkEnd(s, n, c) = IF n * c + c <= Len(s) THEN n * c + c ELSE Len(s)
           /\ Len(Chunk(s, n, c)) = ChunkEnd(s, n, c) - n * c
<1>1. s \in Seq(Blocks) /\ Len(s) \in Nat
  BY DEF Contents
<1>2. n * c \in Nat /\ (n + 1) * c = n * c + c
  BY ProductNext
<1>3. ChunkEnd(s, n, c) = IF n * c + c <= Len(s) THEN n * c + c ELSE Len(s)
  BY <1>1, <1>2 DEF ChunkEnd
<1>4. /\ n * c <= ChunkEnd(s, n, c) /\ ChunkEnd(s, n, c) \in Nat
      /\ ChunkEnd(s, n, c) <= Len(s)
  BY <1>1, <1>2, <1>3
<1>5. Len(Chunk(s, n, c)) = ChunkEnd(s, n, c) - n * c
  BY <1>1, <1>2, <1>4, SubSeqLength DEF Chunk
<1> QED BY <1>1, <1>2, <1>3, <1>5

LEMMA ChunkFull ==
    ASSUME NEW s \in Contents, NEW c \in Nat \ {0}, NEW n \in Nat, n * c <= Len(s),
           Len(Chunk(s, n, c)) = c
    PROVE  ChunkEnd(s, n, c) = (n + 1) * c /\ (n + 1) * c <= Len(s)
  BY ChunkLength, Z3T(30)

LEMMA ChunkShort ==
    ASSUME NEW s \in Contents, NEW c \in Nat \ {0}, NEW n \in Nat, n * c <= Len(s),
           Len(Chunk(s, n, c)) # c
    PROVE  ChunkEnd(s, n, c) = Len(s)
  BY ChunkLength, Z3T(30)

LEMMA ChunkNone ==
    ASSUME NEW s \in Contents, NEW c \in Nat \ {0}, NEW n \in Nat, n * c <= Len(s),
           Chunk(s, n, c) = <<>>
    PROVE  Len(s) = n * c
<1>1. Len(Chunk(s, n, c)) = 0
  OBVIOUS
<1>2. ChunkEnd(s, n, c) = Len(s)
  BY <1>1, ChunkShort
<1>3. Len(s) \in Nat /\ n * c \in Nat /\ s \in Seq(Blocks)
  BY ProductNext DEF Contents
<1>4. ASSUME NEW a \in Nat, a <= Len(s), SubSeq(s, a + 1, Len(s)) = <<>>
      PROVE  Len(s) = a
  <2>1. Len(SubSeq(s, a + 1, Len(s))) = Len(s) - a
    BY <1>3, <1>4, SubSeqLength
  <2> QED BY <1>3, <1>4, <2>1
<1> QED BY <1>2, <1>3, <1>4 DEF Chunk

LEMMA FullPartsEnd ==
    ASSUME NEW s \in Contents, NEW c \in Nat \ {0}, NEW list \in Seq(PartType),
           FullParts(list, s, c)
    PROVE  Len(list) * c <= Len(s)
<1>1. Len(list) \in Nat /\ DOMAIN list = 1 .. Len(list) /\ Len(s) \in Nat
  BY DEF Contents
<1>2. CASE Len(list) = 0
  BY <1>1, <1>2
<1>3. CASE Len(list) # 0
  <2>1. Len(list) \in DOMAIN list
    BY <1>1, <1>3
  <2> QED BY <2>1 DEF FullParts
<1> QED BY <1>2, <1>3

\* A full chunk leaves full parts.
LEMMA FullChunk ==
    ASSUME NEW s \in Contents, NEW c \in Nat \ {0}, NEW list \in Seq(PartType),
           FullParts(list, s, c), NEW n \in Nat, n = Len(list), n * c <= Len(s),
           Len(Chunk(s, n, c)) = c, NEW part \in PartType, part.sha = Chunk(s, n, c)
    PROVE  FullParts(Append(list, part), s, c)
<1>1. ChunkEnd(s, n, c) = (n + 1) * c /\ (n + 1) * c <= Len(s)
  BY ChunkFull
<1>2. /\ DOMAIN Append(list, part) = 1 .. n + 1 /\ DOMAIN list = 1 .. n
      /\ Append(list, part)[n + 1] = part
      /\ \A k \in 1 .. n : Append(list, part)[k] = list[k]
  BY AppendProperties
<1>3. ASSUME NEW k \in 1 .. n + 1
      PROVE  k * c <= Len(s)
             /\ Append(list, part)[k].sha = SubSeq(s, (k - 1) * c + 1, k * c)
  <2>1. CASE k = n + 1
    <3>1. k - 1 = n /\ k * c = ChunkEnd(s, n, c) /\ k * c <= Len(s)
      BY <1>1, <2>1
    <3> QED BY <1>1, <1>2, <2>1, <3>1 DEF Chunk
  <2>2. CASE k # n + 1
    <3>1. k \in 1 .. n
      BY <2>2
    <3> QED BY <1>2, <3>1 DEF FullParts
  <2> QED BY <2>1, <2>2
<1> QED BY <1>2, <1>3 DEF FullParts

\* The last chunk of a file is short.
LEMMA LastChunk ==
    ASSUME NEW s \in Contents, NEW c \in Nat \ {0}, NEW list \in Seq(PartType),
           FullParts(list, s, c), NEW n \in Nat, n = Len(list), n * c <= Len(s),
           Len(Chunk(s, n, c)) # c, NEW part \in PartType, part.sha = Chunk(s, n, c),
           NEW f
    PROVE  PartsJoin([path |-> f, sha |-> s, parts |-> Append(list, part)])
<1>1. ChunkEnd(s, n, c) = Len(s)
  BY ChunkShort
<1>2. /\ Append(list, part) \in Seq(PartType) /\ Len(Append(list, part)) = n + 1
      /\ Append(list, part)[n + 1] = part /\ DOMAIN list = 1 .. n
      /\ \A k \in 1 .. n : Append(list, part)[k] = list[k]
  BY AppendProperties
<1>3. Append(list, part)[n + 1].sha = SubSeq(s, n * c + 1, Len(s))
  BY <1>1, <1>2 DEF Chunk
<1>4. \A k \in 1 .. n :
        k * c <= Len(s)
        /\ Append(list, part)[k].sha = SubSeq(s, (k - 1) * c + 1, k * c)
  BY <1>2 DEF FullParts
<1> QED BY <1>2, <1>3, <1>4, FullPartsJoin

\* Nothing is left: the file is a whole number of chunks.
LEMMA NoChunkLeft ==
    ASSUME NEW s \in Contents, NEW c \in Nat \ {0}, NEW list \in Seq(PartType),
           FullParts(list, s, c), NEW n \in Nat, n = Len(list), n * c <= Len(s),
           Chunk(s, n, c) = <<>>, s # <<>>, NEW f
    PROVE  PartsJoin([path |-> f, sha |-> s, parts |-> list])
<1>1. Len(s) = n * c
  BY ChunkNone
<1>2. Len(s) # 0
  BY DEF Contents
<1>3. PICK m \in Nat : n = m + 1
  <2>1. n # 0
    BY <1>1, <1>2
  <2>2. n - 1 \in Nat /\ n = (n - 1) + 1
    BY <2>1
  <2> QED BY <2>2
<1>4. m * c <= Len(s)
  BY <1>1, <1>3, ProductMonotone
<1>5. DOMAIN list = 1 .. n /\ n \in 1 .. n /\ n - 1 = m
  <2>1. DOMAIN list = 1 .. Len(list)
    OBVIOUS
  <2> QED BY <1>3, <2>1
<1>6. list[m + 1].sha = SubSeq(s, m * c + 1, Len(s))
  BY <1>1, <1>3, <1>5 DEF FullParts
<1>7. \A k \in 1 .. m : k * c <= Len(s)
                        /\ list[k].sha = SubSeq(s, (k - 1) * c + 1, k * c)
  <2>1. \A k \in 1 .. m : k \in DOMAIN list
    BY <1>3, <1>5
  <2> QED BY <2>1 DEF FullParts
<1>8. Len(list) = m + 1
  BY <1>3
<1> QED BY <1>4, <1>6, <1>7, <1>8, FullPartsJoin
-----------------------------------------------------------------------------
(* StagedInv and EntriesInv. *)
carried == <<staging, opt, commit, fetched, todo, file, src, parts, entries>>

\* p goes on, or ends, with what it has collected.
Onward(p) ==
    /\ UNCHANGED carried
    /\ \A q \in Procs \ {p} : pc'[q] = pc[q]
    /\ \/ pc'[p] \notin Fresh \cup Assembling \cup {"fetch", "collect", "manifest"}
       \/ pc[p] \in Fresh /\ pc'[p] \in Fresh \cup {"fetch"}
       \/ pc[p] \in Assembling \ {"fill"} /\ pc'[p] \in Assembling \ {"fill"}
       \/ pc[p] = "write" /\ pc'[p] = "manifest" /\ todo[p] = {}

LEMMA EndsOnward ==
    ASSUME TypeInv, NEW p \in Procs, UNCHANGED carried, NEW code, NEW advice,
           Exit(p, code, advice)
    PROVE  Onward(p)
  BY DEF TypeInv, ControlType, Exit, Onward, Fresh, Assembling

LEMMA GoesOnward ==
    ASSUME TypeInv, NEW p \in Procs, UNCHANGED carried, NEW l, Goto(p, l),
           \/ l \in {"sidecar", "page", "sign", "verify", "sigcheck"}
           \/ pc[p] \in Fresh /\ l \in Fresh \cup {"fetch"}
           \/ pc[p] \in Assembling \ {"fill"} /\ l \in Assembling \ {"fill"}
           \/ pc[p] = "write" /\ l = "manifest" /\ todo[p] = {}
    PROVE  Onward(p)
  BY DEF TypeInv, ControlType, Goto, Onward, Fresh, Assembling

LEMMA OnwardSteps ==
    ASSUME TypeInv, NEW p \in Procs,
           \/ ValidateDest(p) \/ MakeSigner(p) \/ CheckSpace(p) \/ CheckPath(p)
           \/ Preflight(p) \/ Recheck(p) \/ MakeDirs(p) \/ InstallVerifier(p)
           \/ WriteManifest(p) \/ WriteSidecar(p) \/ WritePage(p) \/ Sign(p)
           \/ SelfVerify(p) \/ CheckSignature(p) \/ CallFails(p) \/ Crash(p)
    PROVE  Onward(p)
<1>1. UNCHANGED carried
  BY DEF carried, shared, run, settled, ValidateDest, MakeSigner, CheckSpace, CheckPath,
     Preflight, Recheck, MakeDirs, InstallVerifier, WriteManifest, WriteSidecar, WritePage,
     Sign, SelfVerify, CheckSignature, CallFails, Crash
<1>2. CASE ValidateDest(p) \/ MakeSigner(p) \/ CheckSpace(p) \/ CheckPath(p)
  BY <1>1, <1>2, EndsOnward, GoesOnward
     DEF ValidateDest, MakeSigner, CheckSpace, CheckPath, Fresh
<1>3. CASE Preflight(p) \/ Recheck(p) \/ MakeDirs(p) \/ InstallVerifier(p)
  BY <1>1, <1>3, EndsOnward, GoesOnward
     DEF Preflight, Recheck, MakeDirs, InstallVerifier, Assembling
<1>4. CASE WriteManifest(p) \/ WriteSidecar(p) \/ WritePage(p) \/ Sign(p)
  BY <1>1, <1>4, EndsOnward, GoesOnward DEF WriteManifest, WriteSidecar, WritePage, Sign
<1>5. CASE SelfVerify(p) \/ CheckSignature(p)
  BY <1>1, <1>5, EndsOnward, GoesOnward DEF SelfVerify, CheckSignature
<1>6. CASE CallFails(p)
  BY <1>1, <1>6, EndsOnward DEF CallFails
<1>7. CASE Crash(p)
  BY <1>1, <1>7 DEF Crash, TypeInv, ControlType, Onward, Fresh, Assembling
<1> QED BY <1>2, <1>3, <1>4, <1>5, <1>6, <1>7

LEMMA OnwardContent ==
    ASSUME StagedInv, EntriesInv, NEW p \in Procs, Onward(p)
    PROVE  StagedInv' /\ EntriesInv'
<1>1. StagedInv'
  BY DEF StagedInv, Onward, carried, Fresh, Assembling
<1>2. \A q \in Procs : Chunked(q)' <=> Chunked(q)
  BY DEF Onward, carried, Chunked
<1>3. EntriesInv'
  <2> SUFFICES ASSUME NEW q \in Procs
               PROVE  /\ pc'[q] \in Assembling \cup {"manifest"} =>
                           \A k \in DOMAIN entries[q] : Whole(entries[q][k], commit[q])
                      /\ pc'[q] \in Assembling =>
                           todo[q] \cup Paths(entries[q]) = DOMAIN Repo[commit[q]]
                      /\ pc'[q] = "manifest" => Paths(entries[q]) = DOMAIN Repo[commit[q]]
                      /\ pc'[q] = "fill" =>
                           /\ file[q] \in todo[q] /\ src[q] = Repo[commit[q]][file[q]]
                           /\ Chunked(q) => FullParts(parts[q], src[q], opt[q].chunk)
    BY <1>2 DEF EntriesInv, Onward, carried
  <2>1. \/ pc'[q] = pc[q]
        \/ pc'[q] \notin Assembling \cup {"manifest"}
        \/ pc[q] \in Assembling /\ pc'[q] \in Assembling \ {"fill"}
        \/ pc[q] = "write" /\ pc'[q] = "manifest" /\ todo[q] = {}
    BY DEF Onward, Fresh, Assembling
  <2> QED BY <2>1 DEF EntriesInv, Assembling
<1> QED BY <1>1, <1>3

LEMMA RunKeptContent ==
    ASSUME StagedInv, EntriesInv, UNCHANGED carried, UNCHANGED pc
    PROVE  StagedInv' /\ EntriesInv'
<1>1. \A q \in Procs : Chunked(q)' <=> Chunked(q)
  BY DEF carried, Chunked
<1> QED BY <1>1 DEF StagedInv, EntriesInv, carried

\* What p does before it packs does not concern the others.
LEMMA EarlyContent ==
    ASSUME StagedInv, EntriesInv, NEW p \in Procs,
           UNCHANGED staging, pc'[p] \in Fresh, fetched'[p] = {}, entries'[p] = <<>>,
           \A q \in Procs \ {p} :
             /\ pc'[q] = pc[q] /\ opt'[q] = opt[q] /\ commit'[q] = commit[q]
             /\ fetched'[q] = fetched[q] /\ todo'[q] = todo[q] /\ file'[q] = file[q]
             /\ src'[q] = src[q] /\ parts'[q] = parts[q] /\ entries'[q] = entries[q]
    PROVE  StagedInv' /\ EntriesInv'
<1>1. StagedInv'
  BY DEF StagedInv, Fresh, Assembling
<1>2. \A q \in Procs \ {p} : Chunked(q)' <=> Chunked(q)
  BY DEF Chunked
<1>3. EntriesInv'
  BY <1>2 DEF EntriesInv, Fresh, Assembling
<1> QED BY <1>1, <1>3

LEMMA BeginContent ==
    ASSUME TypeInv, StagedInv, EntriesInv, NEW p \in Procs, Begin(p)
    PROVE  StagedInv' /\ EntriesInv'
<1>1. /\ UNCHANGED staging /\ pc'[p] \in Fresh /\ fetched'[p] = {} /\ entries'[p] = <<>>
      /\ \A q \in Procs \ {p} :
           /\ pc'[q] = pc[q] /\ opt'[q] = opt[q] /\ commit'[q] = commit[q]
           /\ fetched'[q] = fetched[q] /\ todo'[q] = todo[q] /\ file'[q] = file[q]
           /\ src'[q] = src[q] /\ parts'[q] = parts[q] /\ entries'[q] = entries[q]
  BY DEF Begin, shared, Fresh, TypeInv, ControlType, ChoiceType, LoopType
<1> QED BY <1>1, EarlyContent

LEMMA ResolveContent ==
    ASSUME TypeInv, StagedInv, EntriesInv, NEW p \in Procs, Resolve(p)
    PROVE  StagedInv' /\ EntriesInv'
<1>1. CASE UNCHANGED commit /\ Exit(p, SourceError, "widen-the-patterns")
  BY <1>1, EndsOnward, OnwardContent DEF Resolve, carried, shared
<1>2. ASSUME NEW c \in Commits, commit' = [commit EXCEPT ![p] = c], Goto(p, "space")
      PROVE  StagedInv' /\ EntriesInv'
  <2>1. /\ UNCHANGED <<staging, opt, fetched, todo, file, src, parts, entries>>
        /\ pc[p] = "resolve"
    BY DEF Resolve, shared
  <2>2. fetched[p] = {} /\ entries[p] = <<>>
    BY <2>1 DEF StagedInv, Fresh
  <2>3. \A q \in Procs \ {p} : pc'[q] = pc[q] /\ commit'[q] = commit[q]
    BY <1>2 DEF Goto, TypeInv, ControlType, ChoiceType
  <2>4. pc'[p] \in Fresh
    BY <1>2 DEF Goto, TypeInv, ControlType, Fresh
  <2> QED BY <2>1, <2>2, <2>3, <2>4, EarlyContent
<1> QED BY <1>1, <1>2 DEF Resolve
LEMMA FetchContent ==
    ASSUME Apart, TypeInv, StagedInv, EntriesInv, NEW p \in Procs, Fetch(p)
    PROVE  StagedInv' /\ EntriesInv'
<1>1. /\ pc[p] = "fetch"
      /\ UNCHANGED <<opt, commit, todo, file, src, parts, entries>>
  BY DEF Fetch
<1>2. commit[p] \in Commits
  BY <1>1, LocatedCommit DEF Located, Running
<1>3. CASE UNCHANGED staging /\ Exit(p, SourceError, "re-run-pack-to-resume")
           /\ UNCHANGED fetched
  BY <1>1, <1>3, EndsOnward, OnwardContent DEF carried
<1>4. CASE /\ DOMAIN Repo[commit[p]] \ fetched[p] = {}
           /\ Goto(p, "collect") /\ UNCHANGED <<staging, fetched>>
  <2>1. pc' = [pc EXCEPT ![p] = "collect"]
    BY <1>4 DEF Goto
  <2>2. \A n \in DOMAIN Repo[commit[p]] : staging[n] = Repo[commit[p]][n]
    BY <1>1, <1>4 DEF StagedInv
  <2>3. pc'[p] = "collect" /\ \A q \in Procs \ {p} : pc'[q] = pc[q]
    BY <2>1 DEF TypeInv, ControlType
  <2>4. StagedInv'
    BY <1>1, <1>4, <2>2, <2>3 DEF StagedInv, Fresh, Assembling
  <2>5. \A q \in Procs : Chunked(q)' <=> Chunked(q)
    BY <1>1 DEF Chunked
  <2>6. EntriesInv'
    BY <1>1, <2>3, <2>5 DEF EntriesInv, Fresh, Assembling
  <2> QED BY <2>4, <2>6
<1>5. ASSUME NEW n \in DOMAIN Repo[commit[p]],
             staging' = [staging EXCEPT ![n] = Repo[commit[p]][n]],
             fetched' = [fetched EXCEPT ![p] = @ \cup {n}],
             UNCHANGED <<pc, exit, said, told>>
      PROVE  StagedInv' /\ EntriesInv'
  <2>1. n \in Names /\ staging'[n] = Repo[commit[p]][n]
        /\ \A m \in Names \ {n} : staging'[m] = staging[m]
    BY <1>2, <1>5, Constants DEF TypeInv, HostType, Files
  <2>2. fetched'[p] = fetched[p] \cup {n} /\ \A q \in Procs \ {p} : fetched'[q] = fetched[q]
    BY <1>5 DEF TypeInv, ChoiceType
  <2>3. ASSUME NEW q \in Procs, pc[q] \in Located, NEW m \in DOMAIN Repo[commit[q]],
               staging[m] = Repo[commit[q]][m] \/ m = n
        PROVE  staging'[m] = Repo[commit[q]][m]
    <3>1. commit[q] \in Commits /\ m \in Names
      BY <2>3, LocatedCommit, Constants
    <3>2. commit[q] = commit[p]
      BY <1>2, <3>1 DEF Apart, OneProcess
    <3> QED BY <2>1, <2>3, <3>1, <3>2
  <2>4. {"fetch", "collect"} \cup Assembling \subseteq Located /\ Fresh \cap {"fetch"} = {}
    BY DEF Assembling, Located, Running, Writing, Fresh
  <2>5. StagedInv'
    <3> SUFFICES ASSUME NEW q \in Procs
                 PROVE  /\ pc[q] \in Fresh => fetched'[q] = {}
                        /\ pc[q] \in Fresh \cup {"fetch", "collect"} => entries[q] = <<>>
                        /\ pc[q] = "fetch" =>
                             \A m \in fetched'[q] \cap DOMAIN Repo[commit[q]] :
                               staging'[m] = Repo[commit[q]][m]
                        /\ pc[q] \in Assembling \cup {"collect"} =>
                             \A m \in DOMAIN Repo[commit[q]] :
                               staging'[m] = Repo[commit[q]][m]
      BY <1>1, <1>5 DEF StagedInv
    <3>1. pc[q] \in Fresh => fetched'[q] = {}
      BY <1>1, <2>2, <2>4 DEF StagedInv
    <3>2. pc[q] \in Fresh \cup {"fetch", "collect"} => entries[q] = <<>>
      BY DEF StagedInv
    <3>3. ASSUME pc[q] = "fetch", NEW m \in fetched'[q] \cap DOMAIN Repo[commit[q]]
          PROVE  staging'[m] = Repo[commit[q]][m]
      <4>1. m \in fetched[q] \/ m = n
        BY <2>2, <3>3
      <4>2. staging[m] = Repo[commit[q]][m] \/ m = n
        BY <3>3, <4>1 DEF StagedInv
      <4> QED BY <2>3, <2>4, <3>3, <4>2
    <3>4. ASSUME pc[q] \in Assembling \cup {"collect"}, NEW m \in DOMAIN Repo[commit[q]]
          PROVE  staging'[m] = Repo[commit[q]][m]
      BY <2>3, <2>4, <3>4 DEF StagedInv
    <3> QED BY <3>1, <3>2, <3>3, <3>4
  <2>6. \A q \in Procs : Chunked(q)' <=> Chunked(q)
    BY <1>1 DEF Chunked
  <2>7. EntriesInv'
    BY <1>1, <1>5, <2>6 DEF EntriesInv
  <2> QED BY <2>5, <2>7
<1> QED BY <1>3, <1>4, <1>5 DEF Fetch

LEMMA CollectContent ==
    ASSUME TypeInv, StagedInv, EntriesInv, NEW p \in Procs, Collect(p)
    PROVE  StagedInv' /\ EntriesInv'
<1>1. /\ pc[p] = "collect"
      /\ UNCHANGED <<staging, opt, commit, fetched, file, src, parts, entries>>
  BY DEF Collect, shared
<1>2. commit[p] \in Commits
  BY <1>1, LocatedCommit DEF Located, Running
<1> DEFINE there == { n \in DOMAIN Repo[commit[p]] : staging[n] # NoFile }
<1>3. CASE UNCHANGED todo /\ Exit(p, SourceError, "nothing-was-downloaded")
  BY <1>1, <1>3, EndsOnward, OnwardContent DEF carried
<1>4. CASE todo' = [todo EXCEPT ![p] = there] /\ Goto(p, "preflight")
  <2>1. \A n \in DOMAIN Repo[commit[p]] : staging[n] = Repo[commit[p]][n]
    BY <1>1 DEF StagedInv
  <2>2. there = DOMAIN Repo[commit[p]]
    BY <1>2, <2>1, Constants
  <2>3. /\ todo'[p] = DOMAIN Repo[commit[p]] /\ pc'[p] = "preflight"
        /\ \A q \in Procs \ {p} : todo'[q] = todo[q] /\ pc'[q] = pc[q]
    BY <1>4, <2>2 DEF Goto, TypeInv, ControlType, LoopType
  <2>4. entries[p] = <<>>
    BY <1>1 DEF StagedInv
  <2>5. StagedInv'
    BY <1>1, <2>1, <2>3 DEF StagedInv, Fresh, Assembling
  <2>6. \A q \in Procs : Chunked(q)' <=> Chunked(q)
    BY <1>1 DEF Chunked
  <2>7. Paths(entries[p]) = {} /\ DOMAIN entries[p] = {}
    BY <2>4 DEF Paths
  <2>8. EntriesInv'
    BY <1>1, <2>3, <2>6, <2>7 DEF EntriesInv, Assembling
  <2> QED BY <2>5, <2>8
<1> QED BY <1>3, <1>4 DEF Collect

LEMMA OpenFileContent ==
    ASSUME TypeInv, StagedInv, EntriesInv, NEW p \in Procs, OpenFile(p)
    PROVE  StagedInv' /\ EntriesInv'
<1>1. /\ pc[p] = "write"
      /\ UNCHANGED <<staging, opt, commit, fetched, todo, entries>>
  BY DEF OpenFile, settled
<1>2. PICK n \in todo[p] :
        /\ file' = [file EXCEPT ![p] = n] /\ src' = [src EXCEPT ![p] = staging[n]]
        /\ parts' = [parts EXCEPT ![p] = <<>>] /\ Goto(p, "fill")
  BY DEF OpenFile
<1>3. /\ file'[p] = n /\ src'[p] = staging[n] /\ parts'[p] = <<>> /\ pc'[p] = "fill"
      /\ \A q \in Procs \ {p} : /\ file'[q] = file[q] /\ src'[q] = src[q]
                                /\ parts'[q] = parts[q] /\ pc'[q] = pc[q]
  BY <1>2 DEF Goto, TypeInv, ControlType, LoopType
<1>4. n \in DOMAIN Repo[commit[p]] /\ staging[n] = Repo[commit[p]][n]
  BY <1>1 DEF StagedInv, EntriesInv, Assembling
<1>5. StagedInv'
  BY <1>1, <1>3 DEF StagedInv, Fresh, Assembling
<1>6. FullParts(parts'[p], src'[p], opt'[p].chunk)
  BY <1>3 DEF FullParts
<1>7. \A q \in Procs \ {p} : Chunked(q)' <=> Chunked(q)
  BY <1>1, <1>3 DEF Chunked
<1>8. EntriesInv'
  BY <1>1, <1>3, <1>4, <1>6, <1>7 DEF EntriesInv, Assembling
<1> QED BY <1>5, <1>8

\* A file is added to what is packed.
LEMMA FinishContent ==
    ASSUME TypeInv, StagedInv, EntriesInv, NEW p \in Procs, pc[p] = "fill",
           UNCHANGED <<staging, opt, commit, fetched, file, src>>, NEW list,
           Finish(p, list), list # <<>> => PartsJoin([path |-> file[p], sha |-> src[p], parts |-> list]),
           list \in Seq(PartType), file[p] \in Names
    PROVE  StagedInv' /\ EntriesInv'
<1> DEFINE e == [path |-> file[p], sha |-> src[p], parts |-> list]
<1>1. /\ entries'[p] = Append(entries[p], e) /\ todo'[p] = todo[p] \ {file[p]}
      /\ pc'[p] = "write"
      /\ \A q \in Procs \ {p} : /\ entries'[q] = entries[q] /\ todo'[q] = todo[q]
                                /\ parts'[q] = parts[q] /\ pc'[q] = pc[q]
  BY DEF Finish, Goto, TypeInv, ControlType, LoopType
<1>2. file[p] \in todo[p] /\ src[p] = Repo[commit[p]][file[p]]
      /\ todo[p] \cup Paths(entries[p]) = DOMAIN Repo[commit[p]]
      /\ \A k \in DOMAIN entries[p] : Whole(entries[p][k], commit[p])
  BY DEF EntriesInv, Assembling
<1>3. e \in EntryType /\ entries[p] \in Seq(EntryType)
  BY DEF EntryType, TypeInv, LoopType
<1>4. Whole(e, commit[p])
  BY <1>2 DEF Whole
<1> HIDE DEF e
<1>5. /\ DOMAIN entries'[p] = 1 .. Len(entries[p]) + 1
      /\ DOMAIN entries[p] = 1 .. Len(entries[p]) /\ Len(entries[p]) \in Nat
      /\ entries'[p][Len(entries[p]) + 1] = e
      /\ \A k \in 1 .. Len(entries[p]) : entries'[p][k] = entries[p][k]
  BY <1>1, <1>3, AppendProperties
<1>6. \A k \in DOMAIN entries'[p] : Whole(entries'[p][k], commit[p])
  BY <1>2, <1>4, <1>5
<1>7. Paths(entries'[p]) = Paths(entries[p]) \cup {file[p]}
  <2>1. e.path = file[p]
    BY DEF e
  <2>2. ASSUME NEW k \in DOMAIN entries'[p]
        PROVE  entries'[p][k].path \in Paths(entries[p]) \cup {file[p]}
    BY <1>5, <2>1 DEF Paths
  <2>3. ASSUME NEW k \in DOMAIN entries[p]
        PROVE  k \in DOMAIN entries'[p] /\ entries'[p][k].path = entries[p][k].path
    BY <1>5
  <2>4. Len(entries[p]) + 1 \in DOMAIN entries'[p]
    BY <1>5
  <2> QED BY <1>5, <2>1, <2>2, <2>3, <2>4, SMTT(60) DEF Paths
<1>8. todo'[p] \cup Paths(entries'[p]) = DOMAIN Repo[commit[p]]
  BY <1>1, <1>2, <1>7
<1>9. StagedInv'
  BY <1>1 DEF StagedInv, Fresh, Assembling
<1>10. \A q \in Procs \ {p} : Chunked(q)' <=> Chunked(q)
  BY DEF Chunked
<1>11. EntriesInv'
  BY <1>1, <1>6, <1>8, <1>10, ZenonT(60) DEF EntriesInv, Assembling
<1> QED BY <1>9, <1>11

\* What a run knows of the file it has open.
LEMMA OpenSource ==
    ASSUME TypeInv, EntriesInv, NEW p \in Procs, pc[p] = "fill", Chunked(p)
    PROVE  /\ src[p] \in Contents /\ parts[p] \in Seq(PartType) /\ Len(parts[p]) \in Nat
           /\ opt[p].chunk \in Nat \ {0} /\ src[p] # <<>>
           /\ FullParts(parts[p], src[p], opt[p].chunk)
           /\ Len(parts[p]) * opt[p].chunk <= Len(src[p])
           /\ Segment(p) = Chunk(src[p], Len(parts[p]), opt[p].chunk)
<1>1. src[p] \in Contents /\ parts[p] \in Seq(PartType) /\ opt[p].chunk \in Nat \ {0}
      /\ Len(parts[p]) \in Nat
  BY ChunkedFile DEF TypeInv, LoopType
<1>2. FullParts(parts[p], src[p], opt[p].chunk)
  BY DEF EntriesInv
<1>3. Segment(p) = Chunk(src[p], Len(parts[p]), opt[p].chunk)
  BY DEF Segment, Chunk, ChunkEnd
<1>4. src[p] # <<>>
  BY <1>1 DEF Chunked, PartCount
<1>5. Len(parts[p]) * opt[p].chunk <= Len(src[p])
  BY <1>1, <1>2, FullPartsEnd
<1> QED BY <1>1, <1>2, <1>3, <1>4, <1>5

LEMMA FillContent ==
    ASSUME TypeInv, StagedInv, EntriesInv, NEW p \in Procs, Fill(p)
    PROVE  StagedInv' /\ EntriesInv'
<1> DEFINE seg  == Segment(p)
           part == [path |-> Object(p), sha |-> seg]
           list == Append(parts[p], part)
<1>1. /\ pc[p] = "fill" /\ (Chunked(p) => seg # <<>>)
      /\ UNCHANGED <<staging, opt, commit, fetched, file, src>>
  BY DEF Fill, settled
<1>2. seg \in Contents /\ file[p] \in Names /\ Object(p) \in Names
  BY <1>1, SegmentType, ObjectNamed
<1>3. part \in PartType /\ parts[p] \in Seq(PartType)
  BY <1>2 DEF PartType, TypeInv, LoopType
<1>4. list \in Seq(PartType)
  <2> HIDE DEF part
  <2> QED BY <1>3, AppendProperties
<1>5. part.sha = seg
  OBVIOUS
<1>6. Chunked(p) => seg = Chunk(src[p], Len(parts[p]), opt[p].chunk)
  BY <1>1, OpenSource
<1> HIDE DEF part, seg
<1>7. CASE Exit(p, LocalFsError, "re-run") /\ UNCHANGED <<parts, entries, todo>>
  BY <1>1, <1>7, EndsOnward, OnwardContent DEF carried
<1>8. CASE /\ Chunked(p) /\ Len(seg) = opt[p].chunk
           /\ parts' = [parts EXCEPT ![p] = list]
           /\ UNCHANGED <<entries, todo, pc, exit, said, told>>
  <2>1. FullParts(list, src[p], opt[p].chunk)
    BY <1>1, <1>3, <1>5, <1>6, <1>8, OpenSource, FullChunk
  <2>2. parts'[p] = list /\ \A q \in Procs \ {p} : parts'[q] = parts[q]
    BY <1>8 DEF TypeInv, LoopType
  <2>3. \A q \in Procs : Chunked(q)' <=> Chunked(q)
    BY <1>1 DEF Chunked
  <2>4. StagedInv'
    BY <1>1, <1>8 DEF StagedInv
  <2> HIDE DEF list
  <2>5. EntriesInv'
    BY <1>1, <1>8, <2>1, <2>2, <2>3 DEF EntriesInv
  <2> QED BY <2>4, <2>5
<1>9. CASE /\ ~ (Chunked(p) /\ Len(seg) = opt[p].chunk)
           /\ Finish(p, IF Chunked(p) THEN list ELSE <<>>)
  <2>1. CASE Chunked(p)
    <3>1. PartsJoin([path |-> file[p], sha |-> src[p], parts |-> list])
      BY <1>1, <1>3, <1>5, <1>6, <1>9, <2>1, OpenSource, LastChunk
    <3> HIDE DEF list
    <3> QED BY <1>1, <1>2, <1>4, <1>9, <2>1, <3>1, FinishContent
  <2>2. CASE ~ Chunked(p)
    <3>1. <<>> \in Seq(PartType)
      OBVIOUS
    <3> QED BY <1>1, <1>2, <1>9, <2>2, <3>1, FinishContent
  <2> QED BY <2>1, <2>2
<1> QED BY <1>7, <1>8, <1>9 DEF Fill, list, part, seg

LEMMA DropTrailingContent ==
    ASSUME TypeInv, StagedInv, EntriesInv, NEW p \in Procs, DropTrailing(p)
    PROVE  StagedInv' /\ EntriesInv'
<1>1. /\ pc[p] = "fill" /\ Chunked(p) /\ Segment(p) = <<>>
      /\ UNCHANGED <<staging, opt, commit, fetched, file, src>>
  BY DEF DropTrailing, settled
<1>2. CASE Exit(p, LocalFsError, "re-run") /\ UNCHANGED <<parts, entries, todo>>
  BY <1>1, <1>2, EndsOnward, OnwardContent DEF carried
<1>3. CASE Finish(p, parts[p])
  <2>1. PartsJoin([path |-> file[p], sha |-> src[p], parts |-> parts[p]])
    BY <1>1, OpenSource, NoChunkLeft
  <2>2. file[p] \in Names /\ parts[p] \in Seq(PartType)
    <3>1. PICK c \in Commits : file[p] \in DOMAIN Repo[c]
      BY <1>1 DEF TypeInv, StagedFromHub, FromHub
    <3> QED BY <3>1, Constants DEF TypeInv, LoopType
  <2> QED BY <1>1, <1>3, <2>1, <2>2, FinishContent
<1> QED BY <1>2, <1>3 DEF DropTrailing
LEMMA RunContentStep ==
    ASSUME Apart, TypeInv, StagedInv, EntriesInv, [Next]_vars
    PROVE  StagedInv' /\ EntriesInv'
<1>1. ASSUME NEW p \in Procs, Step(p) \/ CallFails(p) \/ Crash(p) \/ Begin(p)
      PROVE  StagedInv' /\ EntriesInv'
  BY <1>1, OnwardSteps, OnwardContent, BeginContent, ResolveContent, FetchContent,
     CollectContent, OpenFileContent, FillContent, DropTrailingContent DEF Step
<1>2. ASSUME NEW p \in Procs, DiskFault(p) PROVE StagedInv' /\ EntriesInv'
  BY <1>2, RunKeptContent DEF DiskFault, carried, run
<1>3. ASSUME NEW c \in Commits, RemoveBundle(c) PROVE StagedInv' /\ EntriesInv'
  BY <1>3, RunKeptContent DEF RemoveBundle, carried, run
<1>4. CASE UNCHANGED vars
  BY <1>4, RunKeptContent DEF vars, carried, shared, run
<1> QED BY <1>1, <1>2, <1>3, <1>4 DEF Next

LEMMA ManifestsInvStep ==
    ASSUME TypeInv, EntriesInv, ManifestsInv, [Next]_vars
    PROVE  ManifestsInv'
<1>1. ASSUME \A c \in Commits : bundles'[c].manifest \in
               {bundles[c].manifest, Malformed, Missing}
      PROVE  ManifestsInv'
  BY <1>1 DEF ManifestsInv, IsManifest
<1>2. CASE UNCHANGED vars
  BY <1>1, <1>2 DEF vars, shared
<1>3. ASSUME NEW d \in Commits, RemoveBundle(d) PROVE ManifestsInv'
  BY <1>1, <1>3, RemoveSteps DEF NoBundle
<1>4. ASSUME NEW p \in Procs, \/ Still(p) \/ Begin(p) \/ MakeSigner(p) \/ Resolve(p)
                              \/ MakeDirs(p) \/ SelfVerify(p) \/ CheckSignature(p)
      PROVE  ManifestsInv'
  BY <1>1, <1>4, BeginSteps, ChoiceSteps, MakeSteps, SelfCheckSteps DEF Still, shared
<1>5. ASSUME NEW p \in Procs, DiskFault(p) PROVE ManifestsInv'
  BY <1>1, <1>5, FaultSteps
<1>6. ASSUME NEW p \in Procs, Writes(p) PROVE ManifestsInv'
  <2>1. CASE bundles'[commit[p]].manifest = bundles[commit[p]].manifest
    BY <1>1, <1>6, <2>1 DEF Writes
  <2>2. ASSUME pc[p] = "manifest", NEW now, bundles'[commit[p]].manifest = Manifest(p, now)
        PROVE  ManifestsInv'
    <3> DEFINE m == Manifest(p, now)
    <3>1. m.files = entries[p]
      BY DEF Manifest
    <3> HIDE DEF m
    <3>2. /\ \A k \in DOMAIN entries[p] : Whole(entries[p][k], commit[p])
          /\ Paths(entries[p]) = DOMAIN Repo[commit[p]]
      BY <2>2 DEF EntriesInv
    <3>3. DeclaresCommit(m, commit[p]) /\ HashesAgree(m)
      BY <3>1, <3>2 DEF DeclaresCommit, HashesAgree, Whole, Paths
    <3>4. \A c \in Commits \ {commit[p]} : bundles'[c] = bundles[c]
      BY <1>6 DEF Writes
    <3>5. bundles'[commit[p]].manifest = m
      BY <2>2 DEF m
    <3> QED BY <3>3, <3>4, <3>5 DEF ManifestsInv
  <2> QED BY <1>6, <2>1, <2>2 DEF Writes
<1> QED BY <1>2, <1>3, <1>4, <1>5, <1>6, StepCases

LEMMA InitContent == Init => ContentInv
<1> SUFFICES ASSUME Init PROVE ContentInv
  OBVIOUS
<1>1. \A p \in Procs : pc[p] = "idle"
  BY DEF Init
<1>2. \A c \in Commits : ~ IsManifest(bundles[c].manifest)
  BY DEF Init, NoBundle, IsManifest
<1> QED BY <1>1, <1>2
        DEF ContentInv, StagedInv, EntriesInv, ManifestsInv, Fresh, Assembling

(* Where the runs that share a staging directory pack one commit, or only   *)
(* one of them runs, what passes verify is the whole model, at every moment *)
(* of every run: each file of the commit with its contents, and each split  *)
(* file with parts that join to it (pack.py:137-183, 270-304).              *)
THEOREM PackComplete == ASSUME Apart PROVE Spec => []IntactMeansComplete
<1>1. Init => TypeInv /\ ContentInv
  BY InitTypeInv, InitContent
<1>2. TypeInv /\ ContentInv /\ [Next]_vars => (TypeInv /\ ContentInv)'
  BY StepTypeInv, RunContentStep, ManifestsInvStep DEF ContentInv
<1>3. ContentInv => IntactMeansComplete
  BY DEF ContentInv, ManifestsInv, IntactMeansComplete, Intact
<1> QED BY <1>1, <1>2, <1>3, PTL DEF Spec

(* A run that reports success, where commits are packed apart, leaves the   *)
(* files of the commit it resolved: what SPEC.md:47 asks for fails only     *)
(* between two commits that share staging (hf.py:135-156).                  *)
THEOREM PackPinned == ASSUME OneProcess PROVE Spec => []CommitPinned
<1>1. OneProcess => Apart
  BY DEF Apart
<1>2. Init => TypeInv /\ MediaInv /\ SignerInv /\ AloneInv /\ ContentInv
  BY InitTypeInv, InitSafety, InitContent
<1>3. TypeInv /\ MediaInv /\ SignerInv /\ AloneInv /\ ContentInv /\ [Next]_vars
        => (TypeInv /\ MediaInv /\ SignerInv /\ AloneInv /\ ContentInv)'
  BY <1>1, StepTypeInv, MediaInvStep, SignerInvStep, AloneInvStep, RunContentStep,
     ManifestsInvStep DEF ContentInv
<1>4. SignerInv /\ AloneInv /\ ContentInv => CommitPinned
  BY DEF ContentInv, ManifestsInv, CommitPinned, Intact, AloneInv, SignerInv, Passed
<1> QED BY <1>2, <1>3, <1>4, PTL DEF Spec
=============================================================================
