------------------------------ MODULE HwPairing ------------------------------
(***************************************************************************)
(* The commissioning credentials (hw_pairing.cpp): derived from the chip's *)
(* identity at boot, and the SPAKE2+ verifier that is computed when it is  *)
(* asked for the first time.  Generation and serialisation may fail; the   *)
(* chip stack asks again.                                                  *)
(***************************************************************************)

VARIABLES rawReady,       \* mRawReady
          verifier,       \* what mVerifier holds
          verifierReady,  \* mVerifierReady
          call,           \* where GetSpake2pVerifier stands
          handed          \* what it gave its caller last

pairingVars == <<rawReady, verifier, verifierReady, call, handed>>

Contents == {"none", "part", "whole"}

PairingTypeOK ==
    /\ rawReady \in BOOLEAN
    /\ verifier \in Contents
    /\ verifierReady \in BOOLEAN
    /\ call \in {"idle", "generate", "serialize", "mark", "copy"}
    /\ handed \in Contents

PairingInit == /\ rawReady = FALSE
               /\ verifier = "none"
               /\ verifierReady = FALSE
               /\ call = "idle"
               /\ handed = "none"

PairingReset == /\ rawReady' = FALSE
                /\ verifier' = "none"
                /\ verifierReady' = FALSE
                /\ call' = "idle"
                /\ handed' = "none"

-----------------------------------------------------------------------------
\* HwPairing::Init: discriminator, passcode and salt; it cannot fail.
Derive == /\ rawReady' = TRUE
          /\ UNCHANGED <<verifier, verifierReady, call, handed>>

(* GetSpake2pVerifier *)

\* CHIP_ERROR_INCORRECT_STATE before Init.
Refuse == /\ call = "idle" /\ ~rawReady
          /\ UNCHANGED pairingVars

Ask == /\ call = "idle" /\ rawReady
       /\ call' = IF verifierReady THEN "copy" ELSE "generate"
       /\ handed' = "none"
       /\ UNCHANGED <<rawReady, verifier, verifierReady>>

Generate(ok) == /\ call = "generate"
                /\ call' = IF ok THEN "serialize" ELSE "idle"
                /\ UNCHANGED <<rawReady, verifier, verifierReady, handed>>

Serialize == /\ call = "serialize"
             /\ call' = "mark"
             /\ verifier' = "whole"
             /\ UNCHANGED <<rawReady, verifierReady, handed>>

\* Mutant of SerializeFails: the result is not looked at.
SerializeFailsUnseen == /\ call = "serialize"
                        /\ call' = "mark"
                        /\ verifier' \in {verifier, "part"}
                        /\ UNCHANGED <<rawReady, verifierReady, handed>>

\* It may have written part of the buffer.
SerializeFails == /\ call = "serialize"
                  /\ call' = "idle"
                  /\ verifier' \in {verifier, "part"}
                  /\ UNCHANGED <<rawReady, verifierReady, handed>>

MarkReady == /\ call = "mark"
             /\ call' = "copy"
             /\ verifierReady' = TRUE
             /\ UNCHANGED <<rawReady, verifier, handed>>

CopyOut == /\ call = "copy"
           /\ call' = "idle"
           /\ handed' = verifier
           /\ UNCHANGED <<rawReady, verifier, verifierReady>>

\* CHIP_ERROR_BUFFER_TOO_SMALL, after the work is done.
TooSmall == /\ call = "copy"
            /\ call' = "idle"
            /\ UNCHANGED <<rawReady, verifier, verifierReady, handed>>

GetVerifier == \/ Refuse \/ Ask \/ Generate(TRUE) \/ Generate(FALSE)
               \/ Serialize \/ SerializeFails \/ MarkReady \/ CopyOut \/ TooSmall

-----------------------------------------------------------------------------
\* A commissioner is never given a verifier that was not completely generated and
\* serialised, whatever failed and was tried again before.
VerifierIsWhole == handed # "none" => handed = "whole"
=============================================================================
