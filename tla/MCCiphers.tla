----------------------------- MODULE MCCiphers ------------------------------
(* Ciphers for TLC: the first and last letters and one rune that is none. *)
EXTENDS Ciphers

MCRune    == {48, 65, 90, 97, 122}
MCKeyByte == {0, 25, 26, 255}
=============================================================================
