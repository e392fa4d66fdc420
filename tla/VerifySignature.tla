-------------------------- MODULE VerifySignature --------------------------
(***************************************************************************)
(* "modelferry verify-signature", cli.py and src/modelferry/               *)
(* verify_signature.py: the public key, manifest.json and the signature    *)
(* are three reads, and packs and key generation write those files         *)
(* meanwhile.                                                              *)
(***************************************************************************)
EXTENDS Authenticity

CONSTANTS
    Commits,  \* bundle directories, see Pack
    NoCommit, \* none of them
    MaxLooks  \* bound: how often the command is run

VARIABLES
    bundles, signature, publicFile, \* what it reads, never written here
    vpc,      \* control
    which,    \* the bundle it is run on
    trusted,  \* the public key it read
    read,     \* the manifest it read
    outcome,  \* the word it prints, "ERROR" for a key it cannot use
    looks     \* runs left

lookVars == <<vpc, which, trusted, read, outcome, looks>>

Looking == {"key", "manifest", "signature"}

Init ==
    /\ vpc = "idle"
    /\ which = NoCommit
    /\ trusted = NoKey
    /\ read = Missing
    /\ outcome = "none"
    /\ looks = MaxLooks

Look ==
    /\ vpc \notin Looking
    /\ looks > 0
    /\ looks' = looks - 1
    /\ \E c \in Commits : which' = c
    /\ vpc' = "key"
    /\ trusted' = NoKey
    /\ read' = Missing
    /\ outcome' = "none"

End(word) == vpc' = "done" /\ outcome' = word

\* load_public_key, which does not catch the error of a file that is not text
LoadPublicKey ==
    /\ vpc = "key"
    /\ IF publicFile \in Keys
       THEN /\ trusted' = publicFile
            /\ vpc' = "manifest"
            /\ UNCHANGED outcome
       ELSE /\ End(IF publicFile = Foreign THEN "RAISED" ELSE "ERROR")
            /\ UNCHANGED trusted
    /\ UNCHANGED <<which, read, looks>>

ReadManifest ==
    /\ vpc = "manifest"
    /\ read' = bundles[which].manifest
    /\ IF Claim(bundles[which].manifest) = "SIGNED"
       THEN vpc' = "signature" /\ UNCHANGED outcome
       ELSE End(Claim(bundles[which].manifest))
    /\ UNCHANGED <<which, trusted, looks>>

ReadSignature ==
    /\ vpc = "signature"
    /\ End(Check(read, signature[which], trusted))
    /\ UNCHANGED <<which, trusted, read, looks>>

LookStep == LoadPublicKey \/ ReadManifest \/ ReadSignature

\* _EXIT, the code for a bad key, and Python's own for an error nobody catches
ExitCode(word) ==
    CASE word = "VALID" -> 0
      [] word \in {"MALFORMED", "ERROR"} -> 2
      [] OTHER -> 1
=============================================================================
