---------------------------- MODULE Authenticity ----------------------------
(***************************************************************************)
(* What src/modelferry/verify_signature.py makes of a manifest, of the     *)
(* detached signature beside it and of a trusted public key.               *)
(*                                                                         *)
(* A key pair is one value.  KeyId is the fingerprint of its public key;   *)
(* it is short, so two keys may share one.  A signature is a record        *)
(* [key, over]; it verifies for the key that made it, over what it was     *)
(* made over (ed25519 is taken to be unforgeable).  The field signing of a *)
(* manifest is the key id of its signing block, or Unsigned, or Foreign    *)
(* for a block this program does not write: another algorithm, missing     *)
(* fields, a name that is not a file name.                                 *)
(***************************************************************************)
EXTENDS Bundle

CONSTANTS
    Keys,     \* key pairs
    KeyId,    \* the fingerprint of each of them
    Unsigned, \* no signing block
    Foreign,  \* a signing block of another kind, or a key file that is not text
    NoKey,    \* no key pair
    Cut       \* a signature file that does not have 64 bytes

ASSUME KeyIdAssumption == \A k \in Keys : KeyId[k] \notin {Unsigned, Foreign}

Signature(k, m) == [key |-> k, over |-> m]

\* 64 bytes that are nobody's signature
Garbled == Signature(NoKey, Missing)

\* What the signing block says, before the signature is read.
Claim(m) ==
    CASE ~ IsManifest(m) -> "MALFORMED"
      [] IsManifest(m) /\ m.signing = Unsigned -> "UNSIGNED"
      [] IsManifest(m) /\ m.signing = Foreign -> "MALFORMED"
      [] OTHER -> "SIGNED"

\* A slip: the key id of the signing block is believed.
BelievesId(m, s, k) ==
    CASE s = Missing -> "MISSING_SIG"
      [] s # Missing /\ m.signing # KeyId[k] -> "KEY_MISMATCH"
      [] OTHER -> "VALID"

(* The signature file s of a manifest with a signing block.  The library    *)
(* raises an error nobody catches when the length is wrong.                 *)
Check(m, s, k) ==
    CASE s = Missing -> "MISSING_SIG"
      [] s = Unreadable -> "MALFORMED"
      [] s = Cut -> "RAISED"
      [] s \notin {Missing, Unreadable, Cut} ->
           IF s # Signature(k, m) THEN "BAD_SIGNATURE"
           ELSE IF m.signing # KeyId[k] THEN "KEY_MISMATCH" ELSE "VALID"

\* verify_bundle_signature, when nothing changes meanwhile
Verdict(m, s, k) == IF Claim(m) = "SIGNED" THEN Check(m, s, k) ELSE Claim(m)
=============================================================================
