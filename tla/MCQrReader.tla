----------------------------- MODULE MCQrReader -----------------------------
(***************************************************************************)
(* TLC instance of QrReader: a Matter payload, the empty text, and texts   *)
(* of each mode up to the 63 characters of qr_str.  41 digits leave one    *)
(* bit for the terminator and 47 characters none; 62 bytes take two        *)
(* blocks, and the short texts are boosted as far as they go.              *)
(***************************************************************************)
EXTENDS QrReader

\* MT:Y.K9042C00KA0648G00
MatterPayload == <<77, 84, 58, 89, 46, 75, 57, 48, 52, 50, 67, 48, 48, 75, 65, 48, 54, 52, 56,
                   71, 48, 48>>

Numbers(n) == [i \in 1 .. n |-> 48 + ((i * i) % 10)]
Words(n)   == [i \in 1 .. n |-> Alphanumeric[((7 * i * i + i) % 45) + 1]]
Bytes(n)   == [i \in 1 .. n |-> 33 + ((11 * i * i + i) % 90)]

SomeTexts == {MatterPayload, << >>, Numbers(17), Numbers(41), Words(25), Words(47),
              Bytes(20), Bytes(33), Bytes(62), Bytes(63)}
=============================================================================
