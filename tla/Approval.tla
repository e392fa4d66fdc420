------------------------------ MODULE Approval ------------------------------
(***************************************************************************)
(* The connected side with all that touches its key files: Pack, Signing   *)
(* and VerifySignature, in any order.  A new key pair may be generated     *)
(* while packs run, and a bundle checked while it is written, the way an   *)
(* admission job watches a share.                                          *)
(***************************************************************************)
EXTENDS Pack

CONSTANTS MaxKills, MaxLooks \* bounds, see Signing and VerifySignature

ASSUME ApprovalAssumption == MaxKills \in Nat /\ MaxLooks \in Nat

VARIABLES
    publicFile, kpc, pair, fresh, kills,        \* see Signing
    vpc, which, trusted, read, outcome, looks,  \* see VerifySignature
    calm,     \* history: what a look reads has not changed since it began
    signings  \* history: <<key, manifest>> of every run that has signed

G == INSTANCE Signing
V == INSTANCE VerifySignature

packVars == <<dest, staging, bundles, signature, page, made, pc, run, exit,
              said, undisturbed, told, budget>>
keygenVars == <<publicFile, kpc, pair, fresh, kills>>
lookVars   == <<vpc, which, trusted, read, outcome, looks>>
approvalVars == <<vars, keygenVars, lookVars, calm, signings>>

ApprovalInit ==
    /\ Init /\ G!Init /\ V!Init
    /\ calm = TRUE
    /\ signings = {}

\* What the operator may have done with the trusted key and the bundle.
History ==
    /\ calm' = IF looks' # looks THEN TRUE
               ELSE calm /\ <<bundles, signature, publicFile>>'
                           = <<bundles, signature, publicFile>>
    /\ signings' = signings \cup
         { <<signer[p], man[p]>> :
             p \in { q \in Procs : pc[q] = "sign" /\ pc'[q] = "verify" } }

ApprovalNext ==
    /\ \/ Next /\ UNCHANGED <<keygenVars, lookVars>>
       \/ G!Next /\ UNCHANGED <<packVars, lookVars>>
       \/ (V!Look \/ V!LookStep) /\ UNCHANGED <<packVars, secretFile, keygenVars>>
    /\ History

ApprovalSpec == ApprovalInit /\ [][ApprovalNext]_approvalVars

-----------------------------------------------------------------------------
(* Properties *)

(* verify-signature exits with 0 only for a manifest that a pack --sign     *)
(* with the trusted key has signed as it is, whatever packs wrote over each *)
(* other's manifest and signature and whichever key was generated between   *)
(* its three reads (verify_signature.py:95-176).                            *)
ValidMeansSigned ==
    vpc = "done" /\ V!ExitCode(outcome) = 0 => <<trusted, read>> \in signings

(* A key that is replaced while a pack runs, between the signing block and  *)
(* the signature, never makes the two disagree (pack.py:286-310,            *)
(* signing.py:80-85): KEY_MISMATCH is always the work of somebody else.     *)
BlockNamesSigner == outcome # "KEY_MISMATCH"

(* The promise to the operator: when every pack that was started has        *)
(* reported success for this bundle, the signing block of the bundle names  *)
(* the key of the last completed generation, and nobody touches the bundle  *)
(* or the key files meanwhile, then verify-signature reports VALID for it,  *)
(* even if several packs, signing or not, wrote into it at once             *)
(* (pack.py:308-328, signing.py:138-159).                                   *)
SignedBundleVerifies ==
    \A c \in Commits :
      /\ \A p \in Procs : /\ pc[p] = "idle" \/ (Ended(p, 0) /\ commit[p] = c)
                          /\ undisturbed[p]
      /\ secretFile \in Keys /\ kpc = "done"
      /\ IsManifest(bundles[c].manifest)
      /\ bundles[c].manifest.signing = KeyId[secretFile]
      /\ vpc = "done" /\ which = c /\ calm
      => outcome = "VALID"
=============================================================================
