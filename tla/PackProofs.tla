----------------------------- MODULE PackProofs -----------------------------
(***************************************************************************)
(* Type correctness of pack, for any number of processes, commits, command *)
(* lines and file sizes, and whatever is killed, fails or decays.          *)
(*                                                                         *)
(* The argument: what is staged came from the hub at some commit (Staged-  *)
(* FromHub), so the source file a run has open has a size for which every  *)
(* part has a name, also if another run has staged a larger file of that   *)
(* name since the pre-flight check.                                        *)
(***************************************************************************)
EXTENDS Pack, SequenceTheorems, TLAPS

Located  == Running \ {"dest", "signer", "resolve"}
Recorded == {"sidecar", "page", "sign"}
Plain    == Running \ ({"dest", "fill"} \cup Recorded)
Retries  == {"re-run-pack", "re-run-pack-to-resume"}

\* TypeOK in groups.
HostType ==
    /\ dest \in {"none", "dir", "other"}
    /\ staging \in Files
    /\ secretFile \in Keys \cup {Missing, Malformed, Foreign}

MediaType ==
    /\ bundles \in [Commits -> BundleType]
    /\ signature \in [Commits -> [key : Keys, over : ManifestType]
                                  \cup {Missing, Garbled, Cut}]
    /\ page \in [Commits -> ManifestType \cup {Missing}]
    /\ made \in [Commits -> BOOLEAN]

ChoiceType ==
    /\ opt \in [Procs -> Options]
    /\ signer \in [Procs -> Keys \cup {NoKey}]
    /\ commit \in [Procs -> Commits \cup {NoCommit}]
    /\ fetched \in [Procs -> SUBSET Names]

LoopType ==
    /\ todo \in [Procs -> SUBSET Names]
    /\ file \in [Procs -> Names \cup {NoFile}]
    /\ src \in [Procs -> Contents]
    /\ linked \in [Procs -> BOOLEAN]
    /\ parts \in [Procs -> Seq(PartType)]
    /\ entries \in [Procs -> Seq(EntryType)]

ManType == man \in [Procs -> ManifestType \cup {Missing}]

ControlType ==
    /\ pc \in [Procs -> Running \cup {"idle", "done", "crashed"}]
    /\ exit \in [Procs -> 0 .. 4]
    /\ said \in [Procs -> Advices]
    /\ told \subseteq Commits \X Retries

HistoryType ==
    /\ undisturbed \in [Procs -> BOOLEAN]
    /\ budget \in [runs : Nat, crashes : Nat, errors : Nat, faults : Nat,
                   removals : Nat]

\* The hub has s for the file n of some commit.
FromHub(n, s) == \E c \in Commits : n \in DOMAIN Repo[c] /\ s = Repo[c][n]

StagedFromHub ==
    /\ \A n \in Names : staging[n] # NoFile => FromHub(n, staging[n])
    /\ \A p \in Procs : /\ \A n \in todo[p] : staging[n] # NoFile
                        /\ pc[p] = "fill" => FromHub(file[p], src[p])

Progress ==
    \A p \in Procs :
      /\ pc[p] \in Located => commit[p] \in Commits
      /\ pc[p] \in Recorded => man[p] \in ManifestType
      /\ pc[p] = "sign" => signer[p] # NoKey

TypeInv ==
    /\ HostType /\ MediaType /\ ChoiceType /\ LoopType /\ ManType
    /\ ControlType /\ HistoryType
    /\ StagedFromHub /\ Progress
-----------------------------------------------------------------------------
(* Arithmetic of the parts. *)
LEMMA ProductMonotone ==
    ASSUME NEW a \in Nat, NEW b \in Nat, NEW c \in Nat, a <= b
    PROVE  a * c <= b * c
<1>1. PICK d \in Nat : b = a + d
  <2>1. b - a \in Nat /\ b = a + (b - a)
    OBVIOUS
  <2> QED BY <2>1
<1>2. b * c = a * c + d * c
  BY <1>1
<1>3. d * c \in Nat /\ a * c \in Nat
  OBVIOUS
<1> QED BY <1>2, <1>3

\* A position in a file lies before the end of its last part.
LEMMA CeilingBound ==
    ASSUME NEW k \in Nat, NEW c \in Nat \ {0}, NEW L \in Nat, k * c <= L
    PROVE  k <= (L + c - 1) \div c
<1> DEFINE n == L + c - 1
           q == n \div c
           r == n % c
<1>1. n \in Nat /\ q \in Nat /\ r \in Nat /\ r < c /\ n = q * c + r
  OBVIOUS
<1> HIDE DEF q, r
<1>2. SUFFICES ASSUME k > q PROVE FALSE
  BY <1>1 DEF q
<1>3. (q + 1) * c <= k * c
  BY <1>1, <1>2, ProductMonotone
<1>4. (q + 1) * c = q * c + c
  BY <1>1
<1>5. q * c \in Nat /\ k * c \in Nat
  BY <1>1
<1> QED BY <1>1, <1>3, <1>4, <1>5
-----------------------------------------------------------------------------
LEMMA TypeInvIsType == TypeInv => TypeOK
  BY DEF TypeInv, TypeOK, HostType, MediaType, ChoiceType, LoopType, ManType,
         ControlType, HistoryType, BundleType, Retries

LEMMA Constants ==
    /\ \A c \in Commits : DOMAIN Repo[c] \subseteq Names
    /\ \A c \in Commits : \A n \in DOMAIN Repo[c] : Repo[c][n] \in Contents
    /\ NoFile \notin Contents /\ NoCommit \notin Commits /\ Bad \in Contents
    /\ NoKey \notin Keys
    /\ \A o \in Options : o.chunk \in (Nat \ {0}) \cup {NoChunks}
    /\ NoChunks \notin Nat
  BY RepoAssumption, ChunkAssumption

LEMMA Labels ==
    /\ {"signer", "resolve", "space", "path", "fetch", "collect", "preflight", "recheck",
        "mkdir", "write", "manifest", "verify", "sigcheck"} \subseteq Plain
    /\ Recorded \cup {"fill"} \subseteq Located
    /\ \A l \in {"signer", "resolve"} : l \notin Located
    /\ Plain \cap (Recorded \cup {"fill"}) = {}
    /\ Plain \subseteq Running /\ Located \subseteq Running
    /\ {"done", "idle", "crashed"} \cap Running = {}
  BY DEF Plain, Located, Recorded, Running, Writing

LEMMA InitTypeInv == Init => TypeInv
<1> SUFFICES ASSUME Init PROVE TypeInv
  OBVIOUS
<1>1. HostType /\ HistoryType
  BY RepoAssumption, BoundAssumption DEF Init, HostType, HistoryType, Files
<1>2. MediaType
  BY DEF Init, MediaType, NoBundle, BundleType
<1>3. ChoiceType /\ ManType
  BY DEF Init, ChoiceType, ManType
<1>4. LoopType
  <2>1. <<>> \in Contents /\ <<>> \in Seq(PartType) /\ <<>> \in Seq(EntryType)
    BY DEF Contents
  <2> QED BY <2>1 DEF Init, LoopType
<1>5. ControlType
  BY DEF Init, ControlType, Advices
<1>6. StagedFromHub /\ Progress
  BY Labels DEF Init, StagedFromHub, Progress, Recorded
<1> QED BY <1>1, <1>2, <1>3, <1>4, <1>5, <1>6 DEF TypeInv
-----------------------------------------------------------------------------
(* Steps that move a process on, or end it, and touch no data of a run. *)
Outcome(p) ==
    \/ \E l \in Plain : Goto(p, l) /\ (l \in Located => commit[p] \in Commits)
    \/ \E code \in 0 .. 4, advice \in Advices :
         Exit(p, code, advice) /\ (advice \in Retries => commit[p] \in Commits)

LEMMA OutcomeType ==
    ASSUME TypeInv, NEW p \in Procs, Outcome(p)
    PROVE  /\ ControlType'
           /\ \E l \in Plain \cup {"done"} :
                pc' = [pc EXCEPT ![p] = l] /\ (l \in Located => commit[p] \in Commits)
<1>1. CASE \E l \in Plain : Goto(p, l) /\ (l \in Located => commit[p] \in Commits)
  BY <1>1, Labels DEF TypeInv, ControlType, Goto
<1>2. ASSUME NEW code \in 0 .. 4, NEW advice \in Advices, Exit(p, code, advice),
             advice \in Retries => commit[p] \in Commits
      PROVE  /\ ControlType'
             /\ pc' = [pc EXCEPT ![p] = "done"]
  <2>1. told' \subseteq Commits \X Retries
    BY <1>2 DEF TypeInv, ControlType, Exit, Retries
  <2> QED BY <1>2, <2>1 DEF TypeInv, ControlType, Exit
<1> QED BY <1>1, <1>2, Labels DEF Outcome

LEMMA MoveProgress ==
    ASSUME TypeInv, NEW p \in Procs, NEW l \in Plain \cup {"done", "crashed"},
           pc' = [pc EXCEPT ![p] = l], l \in Located => commit'[p] \in Commits,
           \A q \in Procs \ {p} : /\ commit'[q] = commit[q] /\ man'[q] = man[q]
                                  /\ signer'[q] = signer[q]
    PROVE  Progress'
<1>1. /\ l \notin Recorded /\ l # "sign" /\ pc'[p] = l
      /\ \A q \in Procs \ {p} : pc'[q] = pc[q]
  BY Labels DEF TypeInv, ControlType, Recorded, Plain
<1> QED BY <1>1, Labels DEF TypeInv, Progress

LEMMA MoveStaged ==
    ASSUME TypeInv, NEW p \in Procs, NEW l \in Running \cup {"done", "crashed"},
           l # "fill", pc' = [pc EXCEPT ![p] = l], UNCHANGED <<staging, file, src>>,
           \A q \in Procs : \A n \in todo'[q] : staging[n] # NoFile
    PROVE  StagedFromHub'
<1>1. \A q \in Procs : pc'[q] = "fill" => pc[q] = "fill"
  BY DEF TypeInv, ControlType
<1> QED BY <1>1 DEF TypeInv, StagedFromHub, FromHub

LEMMA QuietType ==
    ASSUME TypeInv, NEW p \in Procs, Outcome(p), UNCHANGED <<staging, run>>,
           HostType', MediaType', HistoryType'
    PROVE  TypeInv'
<1>1. ChoiceType' /\ LoopType' /\ ManType'
  BY DEF TypeInv, run, ChoiceType, LoopType, ManType
<1>2. PICK l \in Plain \cup {"done"} :
        pc' = [pc EXCEPT ![p] = l] /\ (l \in Located => commit[p] \in Commits)
  BY OutcomeType
<1>3. ControlType'
  BY OutcomeType
<1>4. Progress'
  BY <1>2, MoveProgress DEF run
<1>5. StagedFromHub'
  <2>1. \A q \in Procs : \A n \in todo'[q] : staging[n] # NoFile
    BY DEF run, TypeInv, StagedFromHub
  <2> QED BY <1>2, <2>1, MoveStaged, Labels DEF run
<1> QED BY <1>1, <1>3, <1>4, <1>5 DEF TypeInv

LEMMA SharedKept ==
    ASSUME TypeInv, UNCHANGED shared
    PROVE  HostType' /\ MediaType' /\ UNCHANGED staging
  BY DEF TypeInv, shared, HostType, MediaType

LEMMA HistoryKept == TypeInv /\ UNCHANGED <<undisturbed, budget>> => HistoryType'
  BY DEF TypeInv, HistoryType

LEMMA Codes == {UsageError, SourceError, LocalFsError, 0, 1} \subseteq 0 .. 4
  BY DEF UsageError, SourceError, LocalFsError

\* The advice that is no retry may be given before the commit is known.
LEMMA ExitOutcome ==
    ASSUME NEW p, NEW code \in {UsageError, SourceError, LocalFsError, 0, 1},
           NEW advice \in Advices, Exit(p, code, advice),
           advice \notin Retries \/ commit[p] \in Commits
    PROVE  Outcome(p)
  BY Codes DEF Outcome

LEMMA GotoOutcome ==
    ASSUME NEW p, NEW l \in Plain, Goto(p, l), l \notin Located \/ commit[p] \in Commits
    PROVE  Outcome(p)
  BY DEF Outcome

LEMMA OnlyAdvice ==
    /\ {"nothing", "choose-a-directory", "set-a-key", "widen-the-patterns",
        "nothing-was-downloaded", "exclude-it", "remove-it", "free-space", "traceback",
        "check-the-network", "re-run"} \subseteq Advices \ Retries
    /\ Retries \subseteq Advices
  BY DEF Advices, Retries

LEMMA LocatedCommit ==
    ASSUME TypeInv, NEW p \in Procs, pc[p] \in Located
    PROVE  commit[p] \in Commits
  BY DEF TypeInv, Progress
-----------------------------------------------------------------------------
LEMMA BeforeDownloadType ==
    ASSUME TypeInv, NEW p \in Procs,
           ValidateDest(p) \/ CheckSpace(p) \/ CheckPath(p) \/ Preflight(p) \/ Recheck(p)
    PROVE  TypeInv'
<1>1. CASE ValidateDest(p)
  <2>1. UNCHANGED <<staging, run>> /\ MediaType' /\ HistoryType'
    BY <1>1 DEF ValidateDest, TypeInv, MediaType, HistoryType
  <2>2. HostType'
    BY <1>1 DEF ValidateDest, TypeInv, HostType
  <2>3. Outcome(p)
    BY <1>1, ExitOutcome, GotoOutcome, OnlyAdvice, Labels DEF ValidateDest
  <2> QED BY <2>1, <2>2, <2>3, QuietType
<1>2. CASE CheckSpace(p)
  <2>1. pc[p] = "space" /\ UNCHANGED <<shared, run, undisturbed, budget>>
    BY <1>2 DEF CheckSpace
  <2>2. Outcome(p)
    BY <1>2, <2>1, ExitOutcome, GotoOutcome, OnlyAdvice, Labels, LocatedCommit
       DEF CheckSpace, Located, Running
  <2> QED BY <2>1, <2>2, SharedKept, HistoryKept, QuietType
<1>3. CASE CheckPath(p)
  <2>1. pc[p] = "path" /\ UNCHANGED <<shared, run, undisturbed, budget>>
    BY <1>3 DEF CheckPath
  <2>2. Outcome(p)
    BY <1>3, <2>1, ExitOutcome, GotoOutcome, OnlyAdvice, Labels, LocatedCommit
       DEF CheckPath, Located, Running
  <2> QED BY <2>1, <2>2, SharedKept, HistoryKept, QuietType
<1>4. CASE Preflight(p)
  <2>1. pc[p] = "preflight" /\ UNCHANGED <<shared, run, undisturbed, budget>>
    BY <1>4 DEF Preflight
  <2>2. Outcome(p)
    BY <1>4, <2>1, ExitOutcome, GotoOutcome, OnlyAdvice, Labels, LocatedCommit
       DEF Preflight, Located, Running
  <2> QED BY <2>1, <2>2, SharedKept, HistoryKept, QuietType
<1>5. CASE Recheck(p)
  <2>1. pc[p] = "recheck" /\ UNCHANGED <<shared, run, undisturbed, budget>>
    BY <1>5 DEF Recheck
  <2>2. Outcome(p)
    BY <1>5, <2>1, ExitOutcome, GotoOutcome, OnlyAdvice, Labels, LocatedCommit
       DEF Recheck, Located, Running
  <2> QED BY <2>1, <2>2, SharedKept, HistoryKept, QuietType
<1> QED BY <1>1, <1>2, <1>3, <1>4, <1>5

LEMMA SelfCheckType ==
    ASSUME TypeInv, NEW p \in Procs, SelfVerify(p) \/ CheckSignature(p)
    PROVE  TypeInv'
<1>1. /\ pc[p] \in {"verify", "sigcheck"} /\ pc[p] \in Located
      /\ UNCHANGED <<shared, run, undisturbed, budget>>
  BY DEF SelfVerify, CheckSignature, Located, Running, Writing
<1>2. Outcome(p)
  <2>1. \/ Goto(p, "sigcheck")
        \/ \E advice \in {"traceback", "re-run-pack", "nothing"} :
             \E code \in {0, 1, LocalFsError} : Exit(p, code, advice)
    BY DEF SelfVerify, CheckSignature
  <2>2. commit[p] \in Commits
    BY <1>1, LocatedCommit
  <2> QED BY <2>1, <2>2, ExitOutcome, GotoOutcome, OnlyAdvice, Labels DEF Retries
<1> QED BY <1>1, <1>2, SharedKept, HistoryKept, QuietType

LEMMA FailureType ==
    ASSUME TypeInv, NEW p \in Procs, CallFails(p) \/ Crash(p)
    PROVE  TypeInv'
<1>1. CASE CallFails(p)
  <2>1. UNCHANGED <<shared, run>>
    BY <1>1 DEF CallFails
  <2>2. HistoryType'
    <3>1. /\ budget.errors > 0 /\ budget' = [budget EXCEPT !.errors = @ - 1]
          /\ undisturbed' = [undisturbed EXCEPT ![p] = FALSE]
      BY <1>1 DEF CallFails
    <3>2. budget.errors - 1 \in Nat
      BY <3>1 DEF TypeInv, HistoryType
    <3> QED BY <3>1, <3>2 DEF TypeInv, HistoryType
  <2>3. Outcome(p)
    <3>1. \E advice \in Advices, code \in {UsageError, SourceError, LocalFsError} :
             /\ Exit(p, code, advice)
             /\ advice \in Retries => pc[p] \in {"fetch", "sigcheck"}
      BY <1>1, OnlyAdvice DEF CallFails, Retries
    <3>2. pc[p] \in {"fetch", "sigcheck"} => commit[p] \in Commits
      BY LocatedCommit DEF Located, Running, Writing
    <3> QED BY <3>1, <3>2, ExitOutcome
  <2> QED BY <2>1, <2>2, <2>3, SharedKept, QuietType
<1>2. CASE Crash(p)
  <2>1. /\ pc' = [pc EXCEPT ![p] = "crashed"]
        /\ UNCHANGED <<shared, run, exit, said, told, undisturbed>>
        /\ budget.crashes > 0 /\ budget' = [budget EXCEPT !.crashes = @ - 1]
    BY <1>2 DEF Crash
  <2>2. HistoryType'
    <3>1. budget.crashes - 1 \in Nat
      BY <2>1 DEF TypeInv, HistoryType
    <3> QED BY <2>1, <3>1 DEF TypeInv, HistoryType
  <2>3. HostType' /\ MediaType' /\ UNCHANGED staging
    BY <2>1, SharedKept
  <2>4. ChoiceType' /\ LoopType' /\ ManType'
    BY <2>1 DEF TypeInv, run, ChoiceType, LoopType, ManType
  <2>5. ControlType'
    BY <2>1 DEF TypeInv, ControlType
  <2>6. Progress'
    BY <2>1, MoveProgress, Labels DEF run
  <2>7. StagedFromHub'
    <3>1. \A q \in Procs : \A n \in todo'[q] : staging[n] # NoFile
      BY <2>1 DEF run, TypeInv, StagedFromHub
    <3> QED BY <2>1, <2>3, <3>1, MoveStaged DEF run
  <2> QED BY <2>2, <2>3, <2>4, <2>5, <2>6, <2>7 DEF TypeInv
<1> QED BY <1>1, <1>2

LEMMA StartType ==
    ASSUME TypeInv, NEW p \in Procs, Begin(p)
    PROVE  TypeInv'
<1>1. UNCHANGED <<shared, told>>
  BY DEF Begin
<1>2. HostType' /\ MediaType' /\ UNCHANGED staging
  BY <1>1, SharedKept
<1>3. HistoryType'
  <2>1. /\ budget.runs > 0 /\ budget' = [budget EXCEPT !.runs = @ - 1]
        /\ undisturbed' = [undisturbed EXCEPT ![p] = TRUE]
    BY DEF Begin
  <2>2. budget.runs - 1 \in Nat
    BY <2>1 DEF TypeInv, HistoryType
  <2> QED BY <2>1, <2>2 DEF TypeInv, HistoryType
<1>4. ChoiceType' /\ ManType'
  BY DEF TypeInv, ChoiceType, ManType, Begin
<1>5. LoopType'
  <2>1. <<>> \in Contents /\ <<>> \in Seq(PartType) /\ <<>> \in Seq(EntryType)
    BY DEF Contents
  <2> QED BY <2>1 DEF TypeInv, LoopType, Begin
<1>6. ControlType'
  BY <1>1, OnlyAdvice DEF TypeInv, ControlType, Begin, Running
<1>7. pc' = [pc EXCEPT ![p] = "dest"] /\ "dest" \notin Located \cup Recorded \cup {"fill"}
  BY DEF Begin, Located, Recorded
<1>8. Progress'
  BY <1>7, Labels DEF TypeInv, ControlType, ChoiceType, ManType, Progress, Begin
<1>9. StagedFromHub'
  BY <1>2, <1>7 DEF TypeInv, ControlType, LoopType, StagedFromHub, FromHub, Begin
<1> QED BY <1>2, <1>3, <1>4, <1>5, <1>6, <1>8, <1>9 DEF TypeInv
-----------------------------------------------------------------------------
LEMMA MakeSignerType ==
    ASSUME TypeInv, NEW p \in Procs, MakeSigner(p)
    PROVE  TypeInv'
<1>1. UNCHANGED <<shared, opt, commit, fetched, todo, file, src, linked, parts, entries,
                  man, undisturbed, budget>>
  BY DEF MakeSigner
<1>2. HostType' /\ MediaType' /\ HistoryType' /\ UNCHANGED staging
  BY <1>1, SharedKept, HistoryKept
<1>3. /\ signer' \in [Procs -> Keys \cup {NoKey}]
      /\ \A q \in Procs \ {p} : signer'[q] = signer[q]
  BY ChunkAssumption DEF MakeSigner, TypeInv, ChoiceType
<1>4. ChoiceType' /\ LoopType' /\ ManType'
  BY <1>1, <1>3 DEF TypeInv, ChoiceType, LoopType, ManType
<1>5. Outcome(p)
  BY ExitOutcome, GotoOutcome, OnlyAdvice, Labels DEF MakeSigner
<1>6. PICK l \in Plain \cup {"done"} :
        pc' = [pc EXCEPT ![p] = l] /\ (l \in Located => commit[p] \in Commits)
  BY <1>5, OutcomeType
<1>7. Progress'
  BY <1>1, <1>3, <1>6, MoveProgress
<1>8. StagedFromHub'
  <2>1. \A q \in Procs : \A n \in todo'[q] : staging[n] # NoFile
    BY <1>1 DEF TypeInv, StagedFromHub
  <2> QED BY <1>1, <1>2, <1>6, <2>1, MoveStaged, Labels
<1> QED BY <1>2, <1>4, <1>5, <1>7, <1>8, OutcomeType DEF TypeInv

LEMMA ResolveType ==
    ASSUME TypeInv, NEW p \in Procs, Resolve(p)
    PROVE  TypeInv'
<1>1. UNCHANGED <<shared, opt, signer, fetched, todo, file, src, linked, parts, entries,
                  man, undisturbed, budget>>
  BY DEF Resolve
<1>2. HostType' /\ MediaType' /\ HistoryType' /\ UNCHANGED staging
  BY <1>1, SharedKept, HistoryKept
<1>3. CASE UNCHANGED commit /\ Exit(p, SourceError, "widen-the-patterns")
  <2>1. Outcome(p)
    BY <1>3, ExitOutcome, OnlyAdvice
  <2> QED BY <1>1, <1>2, <1>3, <2>1, QuietType DEF run
<1>4. ASSUME NEW c \in Commits, commit' = [commit EXCEPT ![p] = c], Goto(p, "space")
      PROVE  TypeInv'
  <2>1. ChoiceType' /\ LoopType' /\ ManType'
    BY <1>1, <1>4 DEF TypeInv, ChoiceType, LoopType, ManType
  <2>2. ControlType' /\ pc' = [pc EXCEPT ![p] = "space"]
    BY <1>4, Labels DEF Goto, TypeInv, ControlType
  <2>3. Progress'
    <3>1. commit'[p] \in Commits /\ \A q \in Procs \ {p} : commit'[q] = commit[q]
      BY <1>4 DEF TypeInv, ChoiceType
    <3> QED BY <1>1, <2>2, <3>1, MoveProgress, Labels
  <2>4. StagedFromHub'
    <3>1. \A q \in Procs : \A n \in todo'[q] : staging[n] # NoFile
      BY <1>1 DEF TypeInv, StagedFromHub
    <3> QED BY <1>1, <1>2, <2>2, <3>1, MoveStaged, Labels
  <2> QED BY <1>2, <2>1, <2>2, <2>3, <2>4 DEF TypeInv
<1> QED BY <1>3, <1>4 DEF Resolve

LEMMA FetchType ==
    ASSUME TypeInv, NEW p \in Procs, Fetch(p)
    PROVE  TypeInv'
<1>1. /\ pc[p] = "fetch"
      /\ UNCHANGED <<dest, bundles, signature, page, made, secretFile, opt, signer,
                     commit, todo, file, src, linked, parts, entries, man,
                     undisturbed, budget>>
  BY DEF Fetch
<1>2. commit[p] \in Commits
  BY <1>1, LocatedCommit DEF Located, Running
<1>3. MediaType' /\ HistoryType' /\ LoopType' /\ ManType'
  BY <1>1, HistoryKept DEF TypeInv, MediaType, LoopType, ManType
<1>4. CASE /\ Goto(p, "collect") \/ Exit(p, SourceError, "re-run-pack-to-resume")
           /\ UNCHANGED <<staging, fetched>>
  <2>1. Outcome(p)
    BY <1>2, <1>4, ExitOutcome, GotoOutcome, OnlyAdvice, Labels DEF Retries
  <2>2. HostType'
    BY <1>1, <1>4 DEF TypeInv, HostType
  <2> QED BY <1>1, <1>3, <1>4, <2>1, <2>2, QuietType DEF run
<1>5. ASSUME NEW n \in DOMAIN Repo[commit[p]],
             staging' = [staging EXCEPT ![n] = Repo[commit[p]][n]],
             fetched' = [fetched EXCEPT ![p] = @ \cup {n}],
             UNCHANGED <<pc, exit, said, told>>
      PROVE  TypeInv'
  <2>1. n \in Names /\ Repo[commit[p]][n] \in Contents /\ Repo[commit[p]][n] # NoFile
    BY <1>2, Constants
  <2>2. HostType' /\ ChoiceType'
    BY <1>1, <1>5, <2>1 DEF TypeInv, HostType, ChoiceType, Files
  <2>3. ControlType' /\ Progress'
    BY <1>1, <1>5 DEF TypeInv, ControlType, Progress
  <2>4. \A x \in Names : staging[x] # NoFile => staging'[x] # NoFile
    BY <1>5, <2>1 DEF TypeInv, HostType, Files
  <2>5. \A x \in Names : staging'[x] # NoFile => FromHub(x, staging'[x])
    BY <1>2, <1>5, <2>1 DEF TypeInv, HostType, Files, StagedFromHub, FromHub
  <2>6. StagedFromHub'
    BY <1>1, <1>5, <2>4, <2>5 DEF TypeInv, LoopType, StagedFromHub, FromHub
  <2> QED BY <1>3, <2>2, <2>3, <2>6 DEF TypeInv
<1> QED BY <1>4, <1>5 DEF Fetch

LEMMA CollectType ==
    ASSUME TypeInv, NEW p \in Procs, Collect(p)
    PROVE  TypeInv'
<1>1. /\ pc[p] = "collect"
      /\ UNCHANGED <<shared, opt, signer, commit, fetched, file, src, linked, parts,
                     entries, man, undisturbed, budget>>
  BY DEF Collect
<1>2. commit[p] \in Commits
  BY <1>1, LocatedCommit DEF Located, Running
<1>3. HostType' /\ MediaType' /\ HistoryType' /\ UNCHANGED staging
  BY <1>1, SharedKept, HistoryKept
<1> DEFINE there == { n \in DOMAIN Repo[commit[p]] : staging[n] # NoFile }
<1>4. CASE UNCHANGED todo /\ Exit(p, SourceError, "nothing-was-downloaded")
  <2>1. Outcome(p)
    BY <1>4, ExitOutcome, OnlyAdvice
  <2> QED BY <1>1, <1>3, <1>4, <2>1, QuietType DEF run
<1>5. CASE todo' = [todo EXCEPT ![p] = there] /\ Goto(p, "preflight")
  <2>1. there \in SUBSET Names
    BY <1>2, Constants
  <2>2. ChoiceType' /\ LoopType' /\ ManType'
    BY <1>1, <1>5, <2>1 DEF TypeInv, ChoiceType, LoopType, ManType
  <2>3. ControlType' /\ pc' = [pc EXCEPT ![p] = "preflight"]
    BY <1>5, Labels DEF Goto, TypeInv, ControlType
  <2>4. Progress'
    BY <1>1, <1>2, <2>3, MoveProgress, Labels
  <2>5. StagedFromHub'
    <3>1. \A q \in Procs : \A n \in todo'[q] : staging[n] # NoFile
      BY <1>5 DEF TypeInv, LoopType, StagedFromHub
    <3> QED BY <1>1, <1>3, <2>3, <3>1, MoveStaged, Labels
  <2> QED BY <1>3, <2>2, <2>3, <2>4, <2>5 DEF TypeInv
<1> QED BY <1>4, <1>5 DEF Collect

LEMMA MakeDirsType ==
    ASSUME TypeInv, NEW p \in Procs, MakeDirs(p)
    PROVE  TypeInv'
<1>1. /\ pc[p] = "mkdir" /\ Goto(p, "write")
      /\ made' = [made EXCEPT ![commit[p]] = TRUE]
      /\ UNCHANGED <<dest, staging, bundles, signature, page, secretFile, run,
                     undisturbed, budget>>
  BY DEF MakeDirs
<1>2. HostType' /\ MediaType' /\ HistoryType'
  BY <1>1, HistoryKept DEF TypeInv, HostType, MediaType
<1>3. Outcome(p)
  BY <1>1, LocatedCommit, GotoOutcome, Labels DEF Located, Running
<1> QED BY <1>1, <1>2, <1>3, QuietType

LEMMA InstallVerifierType ==
    ASSUME TypeInv, NEW p \in Procs, InstallVerifier(p)
    PROVE  TypeInv'
<1>1. /\ pc[p] = "write" /\ Goto(p, "manifest")
      /\ bundles' = [bundles EXCEPT ![commit[p]].verifier = Verifier]
      /\ UNCHANGED <<dest, staging, signature, page, made, secretFile, run,
                     undisturbed, budget>>
  BY DEF InstallVerifier
<1>2. HostType' /\ MediaType' /\ HistoryType'
  BY <1>1, HistoryKept DEF TypeInv, HostType, MediaType, BundleType
<1>3. Outcome(p)
  BY <1>1, LocatedCommit, GotoOutcome, Labels DEF Located, Running, Writing
<1> QED BY <1>1, <1>2, <1>3, QuietType
-----------------------------------------------------------------------------
(* The manifest and what follows it. *)
LEMMA WriteManifestType ==
    ASSUME TypeInv, NEW p \in Procs, WriteManifest(p)
    PROVE  TypeInv'
<1>1. /\ pc[p] = "manifest"
      /\ UNCHANGED <<settled, todo, file, src, linked, parts, entries, undisturbed,
                     budget>>
  BY DEF WriteManifest
<1>a. commit[p] \in Commits
  BY <1>1, LocatedCommit DEF Located, Running, Writing
<1>b. CASE bundles[commit[p]].verifier = Missing
  <2>1. Exit(p, LocalFsError, "re-run") /\ UNCHANGED <<man, bundles>>
    BY <1>b DEF WriteManifest
  <2>2. Outcome(p)
    BY <2>1, ExitOutcome, OnlyAdvice
  <2>3. HostType' /\ MediaType' /\ HistoryType' /\ UNCHANGED <<staging, run>>
    BY <1>1, <2>1, HistoryKept DEF TypeInv, settled, run, HostType, MediaType
  <2> QED BY <2>2, <2>3, QuietType
<1>c. SUFFICES ASSUME bundles[commit[p]].verifier # Missing PROVE TypeInv'
  BY <1>b
<1>2. PICK now \in Clock :
        /\ man' = [man EXCEPT ![p] = Manifest(p, now)]
        /\ bundles' = [bundles EXCEPT ![commit[p]].manifest = Manifest(p, now)]
        /\ Goto(p, "sidecar")
  BY <1>c DEF WriteManifest
<1>3. Manifest(p, now) \in ManifestType
  <2>1. entries[p] \in Seq(EntryType) /\ signer[p] \in Keys \cup {NoKey}
    BY DEF TypeInv, LoopType, ChoiceType
  <2>2. bundles[commit[p]].verifier \in {Verifier, Bad}
    BY <1>a, <1>c DEF TypeInv, MediaType, BundleType
  <2> QED BY <1>a, <2>1, <2>2 DEF Manifest, ManifestType
<1>4. HostType' /\ HistoryType' /\ ChoiceType' /\ LoopType'
  BY <1>1, HistoryKept DEF TypeInv, settled, HostType, ChoiceType, LoopType
<1>5. MediaType'
  BY <1>1, <1>2, <1>3 DEF TypeInv, settled, MediaType, BundleType
<1>6. ManType' /\ man'[p] \in ManifestType
  BY <1>2, <1>3 DEF TypeInv, ManType
<1>7. ControlType' /\ pc' = [pc EXCEPT ![p] = "sidecar"]
  BY <1>2 DEF TypeInv, ControlType, Goto, Running, Writing
<1>8. Progress'
  <2>1. \A q \in Procs \ {p} : man'[q] = man[q] /\ pc'[q] = pc[q]
    BY <1>2, <1>7 DEF TypeInv, ManType, ControlType
  <2>2. pc'[p] = "sidecar" /\ pc[p] \in Located
    BY <1>1, <1>7 DEF TypeInv, ControlType, Located, Running, Writing
  <2> QED BY <1>1, <1>6, <2>1, <2>2 DEF TypeInv, Progress, settled
<1>9. StagedFromHub'
  <2>1. \A q \in Procs : \A n \in todo'[q] : staging[n] # NoFile
    BY <1>1 DEF TypeInv, StagedFromHub
  <2> QED BY <1>1, <1>7, <2>1, MoveStaged, Labels DEF Recorded, settled
<1> QED BY <1>4, <1>5, <1>6, <1>7, <1>8, <1>9 DEF TypeInv

\* The writes after the manifest: they change the media and nothing of the run.
LEMMA AfterManifestType ==
    ASSUME TypeInv, NEW p \in Procs, pc[p] \in Recorded, NEW l \in {"page", "sign", "verify"},
           l = "sign" => signer[p] # NoKey, l # "verify" => l # pc[p],
           Goto(p, l), UNCHANGED <<dest, staging, secretFile, run, undisturbed, budget>>,
           MediaType'
    PROVE  TypeInv'
<1>1. HostType' /\ HistoryType' /\ ChoiceType' /\ LoopType' /\ ManType'
  BY HistoryKept DEF TypeInv, run, HostType, ChoiceType, LoopType, ManType
<1>2. ControlType' /\ pc' = [pc EXCEPT ![p] = l]
  BY DEF TypeInv, ControlType, Goto, Running, Writing
<1>3. Progress'
  BY <1>2, Labels DEF TypeInv, ControlType, Progress, run
<1>4. StagedFromHub'
  <2>1. \A q \in Procs : \A n \in todo'[q] : staging[n] # NoFile
    BY DEF TypeInv, StagedFromHub, run
  <2> QED BY <1>2, <2>1, MoveStaged, Labels DEF Recorded, run
<1> QED BY <1>1, <1>2, <1>3, <1>4 DEF TypeInv

LEMMA PublishType ==
    ASSUME TypeInv, NEW p \in Procs, WriteSidecar(p) \/ WritePage(p) \/ Sign(p)
    PROVE  TypeInv'
<1>1. CASE WriteSidecar(p)
  <2>1. /\ pc[p] = "sidecar" /\ Goto(p, "page")
        /\ bundles' = [bundles EXCEPT ![commit[p]].sidecar = man[p]]
        /\ UNCHANGED <<dest, staging, signature, page, made, secretFile, run,
                       undisturbed, budget>>
    BY <1>1 DEF WriteSidecar
  <2>2. man[p] \in ManifestType
    BY <2>1 DEF TypeInv, Progress, Recorded
  <2>3. MediaType'
    BY <2>1, <2>2 DEF TypeInv, MediaType, BundleType
  <2> QED BY <2>1, <2>3, AfterManifestType DEF Recorded
<1>2. CASE WritePage(p)
  <2>1. /\ pc[p] = "page" /\ Goto(p, IF signer[p] # NoKey THEN "sign" ELSE "verify")
        /\ page' = [page EXCEPT ![commit[p]] = man[p]]
        /\ UNCHANGED <<dest, staging, bundles, signature, made, secretFile, run,
                       undisturbed, budget>>
    BY <1>2 DEF WritePage
  <2>2. man[p] \in ManifestType
    BY <2>1 DEF TypeInv, Progress, Recorded
  <2>3. MediaType'
    BY <2>1, <2>2 DEF TypeInv, MediaType
  <2> QED BY <2>1, <2>3, AfterManifestType DEF Recorded
<1>3. CASE Sign(p)
  <2>1. /\ pc[p] = "sign" /\ Goto(p, "verify")
        /\ signature' = [signature EXCEPT ![commit[p]] = Signature(signer[p], man[p])]
        /\ UNCHANGED <<dest, staging, bundles, page, made, secretFile, run,
                       undisturbed, budget>>
    BY <1>3 DEF Sign, SigningKey
  <2>2. man[p] \in ManifestType /\ signer[p] \in Keys
    BY <2>1 DEF TypeInv, Progress, Recorded, ChoiceType
  <2>3. Signature(signer[p], man[p]) \in [key : Keys, over : ManifestType]
    BY <2>2 DEF Signature
  <2>4. MediaType'
    BY <2>1, <2>3 DEF TypeInv, MediaType
  <2> QED BY <2>1, <2>4, AfterManifestType DEF Recorded
<1> QED BY <1>1, <1>2, <1>3

LEMMA PayloadType ==
    ASSUME NEW b \in [Commits -> BundleType], NEW c, NEW n,
           NEW s \in Contents \cup {Missing}
    PROVE  [b EXCEPT ![c].payload[n] = s] \in [Commits -> BundleType]
  BY DEF BundleType

LEMMA DiskFaultType ==
    ASSUME TypeInv, NEW p \in Procs, DiskFault(p)
    PROVE  TypeInv'
<1>1. /\ budget.faults > 0 /\ budget' = [budget EXCEPT !.faults = @ - 1]
      /\ undisturbed' = [q \in Procs |-> FALSE]
      /\ UNCHANGED <<dest, staging, page, made, secretFile, pc, run, exit, said, told>>
  BY DEF DiskFault
<1>2. HistoryType'
  <2>1. budget.faults - 1 \in Nat
    BY <1>1 DEF TypeInv, HistoryType
  <2> QED BY <1>1, <2>1 DEF TypeInv, HistoryType
<1>3. MediaType'
  <2>1. ASSUME NEW n, bundles' = [bundles EXCEPT ![commit[p]].payload[n] = Bad],
               UNCHANGED signature
        PROVE  MediaType'
    BY <1>1, <2>1, PayloadType, Constants DEF TypeInv, MediaType
  <2>2. ASSUME \/ bundles' = [bundles EXCEPT ![commit[p]].manifest = Malformed]
               \/ \E tool \in {Missing, Bad} :
                    bundles' = [bundles EXCEPT ![commit[p]].verifier = tool],
               UNCHANGED signature
        PROVE  MediaType'
    <3>1. CASE bundles' = [bundles EXCEPT ![commit[p]].manifest = Malformed]
      BY <1>1, <2>2, <3>1, ZenonT(60) DEF TypeInv, MediaType, BundleType
    <3>2. CASE \E tool \in {Missing, Bad} :
                 bundles' = [bundles EXCEPT ![commit[p]].verifier = tool]
      <4>1. PICK tool \in {Missing, Bad} :
              bundles' = [bundles EXCEPT ![commit[p]].verifier = tool]
        BY <3>2
      <4>2. tool \in {Verifier, Bad, Missing}
        OBVIOUS
      <4>3. bundles' \in [Commits -> BundleType]
        BY <4>1, <4>2, ZenonT(60) DEF TypeInv, MediaType, BundleType
      <4> QED BY <1>1, <2>2, <4>3 DEF TypeInv, MediaType
    <3> QED BY <2>2, <3>1, <3>2
  <2>3. ASSUME NEW bytes \in {Garbled, Cut}, UNCHANGED bundles,
               signature' = [signature EXCEPT ![commit[p]] = bytes]
        PROVE  MediaType'
    BY <1>1, <2>3 DEF TypeInv, MediaType
  <2> QED BY <2>1, <2>2, <2>3 DEF DiskFault
<1>4. HostType' /\ ChoiceType' /\ LoopType' /\ ManType' /\ ControlType'
  BY <1>1 DEF TypeInv, HostType, ChoiceType, LoopType, ManType, ControlType, run
<1>5. StagedFromHub' /\ Progress'
  BY <1>1 DEF TypeInv, StagedFromHub, FromHub, Progress, run
<1> QED BY <1>2, <1>3, <1>4, <1>5 DEF TypeInv

LEMMA RemoveBundleType ==
    ASSUME TypeInv, NEW c \in Commits, RemoveBundle(c)
    PROVE  TypeInv'
<1>1. /\ budget.removals > 0 /\ budget' = [budget EXCEPT !.removals = @ - 1]
      /\ bundles' = [bundles EXCEPT ![c] = NoBundle]
      /\ signature' = [signature EXCEPT ![c] = Missing]
      /\ page' = [page EXCEPT ![c] = Missing]
      /\ made' = [made EXCEPT ![c] = FALSE]
      /\ told' = told \ {<<c, "re-run-pack">>}
      /\ UNCHANGED <<dest, staging, secretFile, pc, run, exit, said, undisturbed>>
  BY DEF RemoveBundle
<1>2. HistoryType'
  <2>1. budget.removals - 1 \in Nat
    BY <1>1 DEF TypeInv, HistoryType
  <2> QED BY <1>1, <2>1 DEF TypeInv, HistoryType
<1>3. MediaType'
  <2>1. NoBundle \in BundleType
    BY DEF NoBundle, BundleType
  <2> QED BY <1>1, <2>1 DEF TypeInv, MediaType
<1>4. HostType' /\ ChoiceType' /\ LoopType' /\ ManType'
  BY <1>1 DEF TypeInv, HostType, ChoiceType, LoopType, ManType, run
<1>5. ControlType'
  BY <1>1 DEF TypeInv, ControlType
<1>6. StagedFromHub' /\ Progress'
  BY <1>1 DEF TypeInv, StagedFromHub, FromHub, Progress, run
<1> QED BY <1>2, <1>3, <1>4, <1>5, <1>6 DEF TypeInv
-----------------------------------------------------------------------------
(* The loop over the files and over the chunks of a file. *)
LEMMA OpenFileType ==
    ASSUME TypeInv, NEW p \in Procs, OpenFile(p)
    PROVE  TypeInv'
<1>1. /\ pc[p] = "write"
      /\ UNCHANGED <<settled, todo, entries, man, undisturbed, budget>>
  BY DEF OpenFile
<1>2. PICK n \in todo[p] :
        /\ file' = [file EXCEPT ![p] = n]
        /\ src' = [src EXCEPT ![p] = staging[n]]
        /\ parts' = [parts EXCEPT ![p] = <<>>]
        /\ \E first : bundles' = Created(commit[p], first)
        /\ linked' = [linked EXCEPT ![p] = TRUE]
        /\ Goto(p, "fill")
  BY DEF OpenFile
<1>3. n \in Names /\ staging[n] # NoFile /\ staging[n] \in Contents /\ FromHub(n, staging[n])
  BY DEF TypeInv, LoopType, StagedFromHub, HostType, Files
<1>4. MediaType'
  <2>1. <<>> \in Contents
    BY DEF Contents
  <2>2. PICK first : bundles' = [bundles EXCEPT ![commit[p]].payload[first] = <<>>]
    BY <1>2 DEF Created
  <2>3. bundles' \in [Commits -> BundleType]
    BY <2>1, <2>2, PayloadType DEF TypeInv, MediaType
  <2> QED BY <1>1, <2>3 DEF TypeInv, MediaType, settled
<1>5. HostType' /\ ChoiceType' /\ ManType' /\ HistoryType'
  BY <1>1, HistoryKept DEF TypeInv, HostType, ChoiceType, ManType, settled
<1>6. LoopType'
  <2>1. <<>> \in Seq(PartType)
    OBVIOUS
  <2> QED BY <1>1, <1>2, <1>3, <2>1 DEF TypeInv, LoopType
<1>7. ControlType' /\ pc' = [pc EXCEPT ![p] = "fill"]
  BY <1>2 DEF TypeInv, ControlType, Goto, Running, Writing
<1>8. Progress'
  <2>1. pc[p] \in Located /\ "fill" \notin Recorded
    BY <1>1 DEF Located, Running, Writing, Recorded
  <2> QED BY <1>1, <1>7, <2>1 DEF TypeInv, ControlType, Progress, settled, Recorded
<1>9. StagedFromHub'
  <2>1. UNCHANGED <<staging, todo>>
    BY <1>1 DEF settled
  <2>2. FromHub(file'[p], src'[p])
    BY <1>2, <1>3 DEF TypeInv, LoopType
  <2>3. \A q \in Procs \ {p} : file'[q] = file[q] /\ src'[q] = src[q] /\ pc'[q] = pc[q]
    BY <1>2, <1>7 DEF TypeInv, LoopType, ControlType
  <2> QED BY <2>1, <2>2, <2>3 DEF TypeInv, StagedFromHub, FromHub
<1> QED BY <1>4, <1>5, <1>6, <1>7, <1>8, <1>9 DEF TypeInv

LEMMA OverType ==
    ASSUME NEW old, NEW s \in Contents
    PROVE  Over(old, s) \in Contents
<1>1. CASE old \in Contents /\ Len(old) > Len(s)
  <2>1. Len(s) + 1 \in Int /\ Len(old) \in Int /\ Len(s) \in Nat
    BY <1>1 DEF Contents
  <2>2. \A k \in Len(s) + 1 .. Len(old) : old[k] \in Blocks
    BY <1>1, <2>1 DEF Contents
  <2>3. SubSeq(old, Len(s) + 1, Len(old)) \in Seq(Blocks)
    BY <2>1, <2>2, SubSeqProperties
  <2> QED BY <1>1, <2>3 DEF Over, Contents
<1>2. CASE ~ (old \in Contents /\ Len(old) > Len(s))
  BY <1>2 DEF Over
<1> QED BY <1>1, <1>2

LEMMA FilledType ==
    ASSUME TypeInv, NEW p \in Procs, NEW s \in Contents
    PROVE  Filled(p, s) \in [Commits -> BundleType]
<1>1. bundles \in [Commits -> BundleType]
  BY DEF TypeInv, MediaType
<1>2. [bundles EXCEPT ![commit[p]].payload[Object(p)] = Over(@, s)]
        \in [Commits -> BundleType]
  <2>1. Over(bundles[commit[p]].payload[Object(p)], s) \in Contents \cup {Missing}
    BY OverType
  <2> QED BY <1>1, <2>1, PayloadType
<1> QED BY <1>1, <1>2 DEF Filled

\* The chunk size and what is left of a file that is split.
LEMMA ChunkedFile ==
    ASSUME TypeInv, NEW p \in Procs, Chunked(p)
    PROVE  /\ opt[p].chunk \in Nat \ {0}
           /\ Len(src[p]) \in Nat /\ Len(parts[p]) \in Nat
           /\ PartCount(Len(src[p]), opt[p].chunk)
                = (Len(src[p]) + opt[p].chunk - 1) \div opt[p].chunk
<1>1. opt[p] \in Options /\ src[p] \in Seq(Blocks) /\ parts[p] \in Seq(PartType)
  BY DEF TypeInv, ChoiceType, LoopType, Contents
<1>2. opt[p].chunk # NoChunks
  BY DEF Chunked, PartCount
<1>3. opt[p].chunk \in Nat \ {0} /\ Len(src[p]) \in Nat /\ Len(parts[p]) \in Nat
  BY <1>1, <1>2, Constants
<1> QED BY <1>3 DEF Chunked, PartCount

LEMMA SegmentType ==
    ASSUME TypeInv, NEW p \in Procs
    PROVE  Segment(p) \in Contents
<1>1. src[p] \in Seq(Blocks)
  BY DEF TypeInv, LoopType, Contents
<1>2. CASE Chunked(p)
  <2> DEFINE c == opt[p].chunk
             m == Len(parts[p]) * c
             n == IF (Len(parts[p]) + 1) * c < Len(src[p])
                  THEN (Len(parts[p]) + 1) * c ELSE Len(src[p])
  <2>1. c \in Nat \ {0} /\ Len(src[p]) \in Nat /\ Len(parts[p]) \in Nat
    BY <1>2, ChunkedFile
  <2>2. m \in Nat /\ (Len(parts[p]) + 1) * c \in Nat
    BY <2>1
  <2>3. n \in Nat /\ n <= Len(src[p])
    BY <2>1, <2>2
  <2>4. Segment(p) = SubSeq(src[p], m + 1, n)
    BY <1>2 DEF Segment
  <2> HIDE DEF m, n, c
  <2>5. \A k \in m + 1 .. n : src[p][k] \in Blocks
    BY <1>1, <2>1, <2>2, <2>3
  <2>6. SubSeq(src[p], m + 1, n) \in Seq(Blocks)
    BY <2>2, <2>3, <2>5, SubSeqProperties
  <2> QED BY <2>4, <2>6 DEF Contents
<1>3. CASE ~ Chunked(p)
  BY <1>1, <1>3 DEF Segment, Contents
<1> QED BY <1>2, <1>3

LEMMA ObjectNamed ==
    ASSUME TypeInv, NEW p \in Procs, pc[p] = "fill", Chunked(p) => Segment(p) # <<>>
    PROVE  file[p] \in Names /\ Object(p) \in Names
<1>1. PICK c \in Commits : file[p] \in DOMAIN Repo[c] /\ src[p] = Repo[c][file[p]]
  BY DEF TypeInv, StagedFromHub, FromHub
<1>2. file[p] \in Names
  BY <1>1, Constants
<1>3. CASE ~ Chunked(p)
  BY <1>2, <1>3 DEF Object
<1>4. CASE Chunked(p)
  <2> DEFINE k == Len(parts[p])
             s == opt[p].chunk
             L == Len(src[p])
             top == IF (k + 1) * s < L THEN (k + 1) * s ELSE L
  <2>1. s \in Nat \ {0} /\ L \in Nat /\ k \in Nat
    BY <1>4, ChunkedFile
  <2>2. k * s \in Nat /\ (k + 1) * s \in Nat
    BY <2>1
  <2>3. top \in Nat /\ top <= L
    BY <2>1, <2>2
  <2>4. k * s <= L
    <3>1. Segment(p) = SubSeq(src[p], k * s + 1, top)
      BY <1>4 DEF Segment
    <3>2. SUFFICES ASSUME k * s > L PROVE FALSE
      BY <2>1, <2>2
    <3>3. top < k * s + 1
      BY <2>1, <2>2, <2>3, <3>2
    <3> HIDE DEF top
    <3>4. SubSeq(src[p], k * s + 1, top) = <<>>
      BY <2>2, <2>3, <3>3, SubSeqEmpty
    <3> QED BY <1>4, <3>1, <3>4
  <2>5. k <= PartCount(L, s)
    BY <1>4, <2>1, <2>4, CeilingBound, ChunkedFile
  <2>6. PartCount(L, s) > 0 /\ opt[p] \in Options
    BY <1>4 DEF Chunked, TypeInv, ChoiceType
  <2>7. PartName(file[p], k) \in Names
    BY <1>1, <2>1, <2>5, <2>6, NamesAssumption
  <2> QED BY <1>2, <1>4, <2>7 DEF Object
<1> QED BY <1>3, <1>4

\* What an ended or a continued file leaves behind.
LEMMA LoopStepType ==
    ASSUME TypeInv, NEW p \in Procs, pc[p] = "fill",
           UNCHANGED <<settled, file, src, man, undisturbed, budget>>,
           bundles' \in [Commits -> BundleType], LoopType',
           \A q \in Procs : todo'[q] \subseteq todo[q],
           Outcome(p) \/ UNCHANGED <<pc, exit, said, told>>
    PROVE  TypeInv'
<1>1. HostType' /\ ChoiceType' /\ ManType' /\ HistoryType'
  BY HistoryKept DEF TypeInv, HostType, ChoiceType, ManType, settled
<1>2. MediaType'
  BY DEF TypeInv, MediaType, settled
<1>3. \A q \in Procs : \A n \in todo'[q] : staging[n] # NoFile
  BY DEF TypeInv, StagedFromHub
<1>4. CASE Outcome(p)
  <2>1. PICK l \in Plain \cup {"done"} :
          pc' = [pc EXCEPT ![p] = l] /\ (l \in Located => commit[p] \in Commits)
    BY <1>4, OutcomeType
  <2>2. Progress'
    BY <2>1, MoveProgress DEF settled
  <2>3. StagedFromHub'
    BY <1>3, <2>1, MoveStaged, Labels DEF settled
  <2> QED BY <1>1, <1>2, <1>4, <2>2, <2>3, OutcomeType DEF TypeInv
<1>5. CASE UNCHANGED <<pc, exit, said, told>>
  <2>1. ControlType' /\ Progress'
    BY <1>5 DEF TypeInv, ControlType, Progress, settled
  <2>2. StagedFromHub'
    BY <1>3, <1>5 DEF TypeInv, StagedFromHub, FromHub, settled
  <2> QED BY <1>1, <1>2, <2>1, <2>2 DEF TypeInv
<1> QED BY <1>4, <1>5

LEMMA FinishType ==
    ASSUME TypeInv, NEW p \in Procs, NEW list \in Seq(PartType), file[p] \in Names,
           Finish(p, list), commit[p] \in Commits, linked' \in [Procs -> BOOLEAN],
           UNCHANGED <<file, src>>
    PROVE  /\ LoopType' /\ Outcome(p)
           /\ \A q \in Procs : todo'[q] \subseteq todo[q]
<1>1. [path |-> file[p], sha |-> src[p], parts |-> list] \in EntryType
  BY DEF EntryType, TypeInv, LoopType
<1>2. Append(entries[p], [path |-> file[p], sha |-> src[p], parts |-> list])
        \in Seq(EntryType)
  BY <1>1, AppendProperties DEF TypeInv, LoopType
<1>3. entries' \in [Procs -> Seq(EntryType)]
  BY <1>2 DEF Finish, TypeInv, LoopType
<1>4. parts' \in [Procs -> Seq(PartType)] /\ todo' \in [Procs -> SUBSET Names]
  BY DEF Finish, TypeInv, LoopType
<1>5. \A q \in Procs : todo'[q] \subseteq todo[q]
  BY DEF Finish, TypeInv, LoopType
<1>6. Outcome(p)
  BY GotoOutcome, Labels DEF Finish
<1> QED BY <1>3, <1>4, <1>5, <1>6 DEF TypeInv, LoopType

LEMMA FillType ==
    ASSUME TypeInv, NEW p \in Procs, Fill(p)
    PROVE  TypeInv'
<1> DEFINE seg == Segment(p)
           list == Append(parts[p], [path |-> Object(p), sha |-> seg])
<1>1. /\ pc[p] = "fill"
      /\ Chunked(p) => seg # <<>>
      /\ UNCHANGED <<settled, file, src, man, undisturbed, budget>>
  BY DEF Fill
<1>2. commit[p] \in Commits
  BY <1>1, LocatedCommit, Labels
<1>3. seg \in Contents /\ file[p] \in Names /\ Object(p) \in Names
  BY <1>1, SegmentType, ObjectNamed
<1>4. list \in Seq(PartType) /\ parts[p] \in Seq(PartType)
  <2>1. [path |-> Object(p), sha |-> seg] \in PartType
    BY <1>3 DEF PartType
  <2> HIDE DEF seg
  <2> QED BY <2>1, AppendProperties DEF TypeInv, LoopType
<1>5. Filled(p, seg) \in [Commits -> BundleType]
  BY <1>3, FilledType
<1> HIDE DEF seg, list
<1>6. CASE /\ Exit(p, LocalFsError, "re-run")
           /\ UNCHANGED <<bundles, linked, parts, entries, todo>>
  <2>1. Outcome(p)
    BY <1>6, ExitOutcome, OnlyAdvice
  <2>2. LoopType' /\ bundles' \in [Commits -> BundleType]
    BY <1>1, <1>6 DEF TypeInv, LoopType, MediaType
  <2> QED BY <1>1, <1>6, <2>1, <2>2, LoopStepType
<1>7. CASE /\ bundles' = [Filled(p, seg) EXCEPT
                           ![commit[p]].payload[PartName(file[p], Len(list))] = <<>>]
           /\ linked' = [linked EXCEPT ![p] = TRUE]
           /\ parts' = [parts EXCEPT ![p] = list]
           /\ UNCHANGED <<entries, todo, pc, exit, said, told>>
  <2>1. bundles' \in [Commits -> BundleType]
    <3>1. <<>> \in Contents
      BY DEF Contents
    <3> QED BY <1>5, <1>7, <3>1, PayloadType
  <2>2. LoopType'
    BY <1>1, <1>4, <1>7 DEF TypeInv, LoopType
  <2> QED BY <1>1, <1>7, <2>1, <2>2, LoopStepType
<1>8. CASE /\ bundles' = Filled(p, seg) /\ UNCHANGED linked
           /\ Finish(p, IF Chunked(p) THEN list ELSE <<>>)
  <2>1. (IF Chunked(p) THEN list ELSE <<>>) \in Seq(PartType)
    BY <1>4
  <2>2. linked' \in [Procs -> BOOLEAN]
    BY <1>8 DEF TypeInv, LoopType
  <2>3. LoopType' /\ Outcome(p) /\ \A q \in Procs : todo'[q] \subseteq todo[q]
    BY <1>1, <1>2, <1>3, <1>8, <2>1, <2>2, FinishType
  <2> QED BY <1>1, <1>5, <1>8, <2>3, LoopStepType
<1> QED BY <1>6, <1>7, <1>8 DEF Fill, seg, list

LEMMA DropTrailingType ==
    ASSUME TypeInv, NEW p \in Procs, DropTrailing(p)
    PROVE  TypeInv'
<1>1. /\ pc[p] = "fill"
      /\ UNCHANGED <<settled, file, src, man, undisturbed, budget>>
  BY DEF DropTrailing
<1>2. commit[p] \in Commits
  BY <1>1, LocatedCommit, Labels
<1>3. CASE /\ Exit(p, LocalFsError, "re-run")
           /\ UNCHANGED <<bundles, linked, parts, entries, todo>>
  <2>1. Outcome(p)
    BY <1>3, ExitOutcome, OnlyAdvice
  <2>2. LoopType' /\ bundles' \in [Commits -> BundleType]
    BY <1>1, <1>3 DEF TypeInv, LoopType, MediaType
  <2> QED BY <1>1, <1>3, <2>1, <2>2, LoopStepType
<1>4. CASE /\ bundles' = WithoutTrailing(p) /\ Finish(p, parts[p])
           /\ linked' \in [Procs -> BOOLEAN]
  <2>1. file[p] \in Names
    <3>1. PICK c \in Commits : file[p] \in DOMAIN Repo[c]
      BY <1>1 DEF TypeInv, StagedFromHub, FromHub
    <3> QED BY <3>1, Constants
  <2>2. LoopType' /\ Outcome(p) /\ \A q \in Procs : todo'[q] \subseteq todo[q]
    <3>1. parts[p] \in Seq(PartType)
      BY DEF TypeInv, LoopType
    <3> QED BY <1>1, <1>2, <1>4, <2>1, <3>1, FinishType
  <2>3. bundles' \in [Commits -> BundleType]
    BY <1>4, PayloadType DEF WithoutTrailing, TypeInv, MediaType
  <2> QED BY <1>1, <2>2, <2>3, LoopStepType
<1>5. [q \in Procs |-> linked[q] /\ ~ (/\ pc[q] = "fill" /\ commit[q] = commit[p]
                                       /\ Object(q) = Object(p))] \in [Procs -> BOOLEAN]
  BY DEF TypeInv, LoopType
<1> QED BY <1>3, <1>4, <1>5 DEF DropTrailing
-----------------------------------------------------------------------------
LEMMA StepTypeInv == TypeInv /\ [Next]_vars => TypeInv'
<1> SUFFICES ASSUME TypeInv, [Next]_vars PROVE TypeInv'
  OBVIOUS
<1>1. ASSUME NEW p \in Procs, Step(p) PROVE TypeInv'
  BY <1>1, BeforeDownloadType, SelfCheckType, MakeSignerType, ResolveType, FetchType,
     CollectType, MakeDirsType, InstallVerifierType, WriteManifestType, PublishType,
     OpenFileType, FillType, DropTrailingType DEF Step
<1>2. ASSUME NEW p \in Procs, Begin(p) \/ CallFails(p) \/ Crash(p) \/ DiskFault(p)
      PROVE  TypeInv'
  BY <1>2, StartType, FailureType, DiskFaultType
<1>3. ASSUME NEW c \in Commits, RemoveBundle(c) PROVE TypeInv'
  BY <1>3, RemoveBundleType
<1>4. CASE UNCHANGED vars
  <2>1. HostType' /\ MediaType' /\ ChoiceType' /\ LoopType' /\ ManType' /\ ControlType'
        /\ HistoryType'
    BY <1>4 DEF vars, shared, run, TypeInv, HostType, MediaType, ChoiceType, LoopType,
       ManType, ControlType, HistoryType
  <2>2. StagedFromHub' /\ Progress'
    BY <1>4 DEF vars, shared, run, TypeInv, StagedFromHub, FromHub, Progress
  <2> QED BY <2>1, <2>2 DEF TypeInv
<1> QED BY <1>1, <1>2, <1>3, <1>4 DEF Next

(* The strengthening, for the other proofs about pack. *)
THEOREM PackTypes == Spec => []TypeInv
  BY InitTypeInv, StepTypeInv, PTL DEF Spec

(* Every value a pack keeps, writes to the media or exits with is one of    *)
(* those the module says it may be, in particular every part it records     *)
(* has a name of the payload, whatever other runs stage meanwhile           *)
(* (pack.py:137-183, 201-207, 265-311).                                     *)
THEOREM PackTypeCorrect == Spec => []TypeOK
  BY PackTypes, TypeInvIsType, PTL
=============================================================================
