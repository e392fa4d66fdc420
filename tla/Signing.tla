------------------------------ MODULE Signing ------------------------------
(***************************************************************************)
(* Ed25519Signer.generate_keypair of src/modelferry/signing.py, which the  *)
(* operator runs by hand: the secret key, then the public key, each        *)
(* written in place over what the file held.  Packs and signature checks   *)
(* read the two files at any moment.  A key pair is one value, see         *)
(* Authenticity; generation never yields a pair twice.                     *)
(***************************************************************************)
EXTENDS Naturals

CONSTANTS
    Keys,      \* key pairs
    FirstKeys, \* what both files may hold at first
    NoKey,     \* no pair in memory
    Malformed, \* a file that is not a key
    Missing,   \* no file
    MaxKills   \* bound: generations killed half-way

VARIABLES
    secretFile, publicFile, \* the two files
    kpc,                    \* control of the generation
    pair,                   \* the pair it has in memory
    fresh,                  \* pairs not generated yet
    kills

keyVars == <<secretFile, publicFile, kpc, pair, fresh, kills>>

Generating == {"truncate-secret", "write-secret", "truncate-public", "write-public"}

Init ==
    /\ secretFile \in FirstKeys
    /\ publicFile = secretFile
    /\ kpc = "done"
    /\ pair = NoKey
    /\ fresh = Keys \ {secretFile}
    /\ kills = MaxKills

Generate ==
    /\ kpc \notin Generating
    /\ \E k \in fresh : pair' = k /\ fresh' = fresh \ {k}
    /\ kpc' = "truncate-secret"
    /\ UNCHANGED <<secretFile, publicFile, kills>>

\* open(secret_path, "w")
TruncateSecret ==
    /\ kpc = "truncate-secret"
    /\ secretFile' = Malformed
    /\ kpc' = "write-secret"
    /\ UNCHANGED <<publicFile, pair, fresh, kills>>

WriteSecret ==
    /\ kpc = "write-secret"
    /\ secretFile' = pair
    /\ kpc' = "truncate-public"
    /\ UNCHANGED <<publicFile, pair, fresh, kills>>

\* open(public_path, "w")
TruncatePublic ==
    /\ kpc = "truncate-public"
    /\ publicFile' = Malformed
    /\ kpc' = "write-public"
    /\ UNCHANGED <<secretFile, pair, fresh, kills>>

WritePublic ==
    /\ kpc = "write-public"
    /\ publicFile' = pair
    /\ kpc' = "done"
    /\ UNCHANGED <<secretFile, pair, fresh, kills>>

Kill ==
    /\ kpc \in Generating
    /\ kills > 0
    /\ kills' = kills - 1
    /\ kpc' = "killed"
    /\ UNCHANGED <<secretFile, publicFile, pair, fresh>>

Next ==
    \/ Generate \/ TruncateSecret \/ WriteSecret \/ TruncatePublic \/ WritePublic
    \/ Kill

Spec == Init /\ [][Next]_keyVars
=============================================================================
