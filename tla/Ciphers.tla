------------------------------ MODULE Ciphers -------------------------------
(***************************************************************************)
(* The encryption service and the two ways a ciphertext reaches a player:  *)
(* an encrypted answer, whose key POST /decode hands out as a hint, and    *)
(* the candidate of a withheld guess in Stage 2, encrypted under a witness *)
(* key the player derives itself.  The machine runs one such exchange.     *)
(*                                                                         *)
(* Runes and bytes are their numbers; a hex string stands for its bytes,   *)
(* so hex encoding is only the tag of the encoding.  AES is external: what *)
(* it seals opens under the key that sealed it.  The nonce and the IV are  *)
(* random and travel with the ciphertext; they are left out.               *)
(***************************************************************************)
EXTENDS Integers, Sequences, FiniteSets

CONSTANTS
    Rune,          \* the runes texts are made of
    KeyByte,       \* the bytes keys are made of
    MaxLength,     \* bound on the length of a text
    KeyLength,     \* 32 in the code: bytes of a session or witness key
    GcmKeyLength,  \* 16 in the code
    BlockSize      \* 16 in the code

ASSUME CiphersAssumption ==
    /\ Rune \subseteq 0 .. 127       \* answers and candidate IDs are ASCII
    /\ KeyByte \subseteq 0 .. 255
    /\ MaxLength \in Nat
    /\ GcmKeyLength \in Nat \ {0}
    /\ KeyLength \in Nat /\ KeyLength >= GcmKeyLength
    /\ BlockSize \in 1 .. 255

VARIABLES kind, cipher, key, text, phase, ciphertext, hint, read

vars == <<kind, cipher, key, text, phase, ciphertext, hint, read>>

Key  == [1 .. KeyLength -> KeyByte]
Text == UNION {[1 .. n -> Rune] : n \in 0 .. MaxLength}

\* What a reader has who cannot decipher.
Unreadable == <<-1>>

\* Mutant: one pool for both stages.
PoolOfStageOne(answering) ==
    {"caesar", "vigenere", "xor", "aes-128-gcm", "aes-256-cbc"}

\* Guesses are withheld only in Stage 2, whose sessions use three ciphers.
CipherPool(answering) ==
    IF answering = "answer"
    THEN {"caesar", "vigenere", "xor", "aes-128-gcm", "aes-256-cbc"}
    ELSE {"xor", "aes-128-gcm", "aes-256-cbc"}

-----------------------------------------------------------------------------
(* Letters.                                                                *)

IsLower(ch)  == ch \in 97 .. 122
IsUpper(ch)  == ch \in 65 .. 90
IsLetter(ch) == IsLower(ch) \/ IsUpper(ch)

Shifted(ch, shift) ==
    IF IsLower(ch) THEN 97 + ((ch - 97 + shift) % 26)
    ELSE IF IsUpper(ch) THEN 65 + ((ch - 65 + shift) % 26)
    ELSE ch

CaesarShift(bytes) == (bytes[1] % 25) + 1

EncryptCaesar(runes, shift) == [i \in DOMAIN runes |-> Shifted(runes[i], shift)]

Keyword(bytes) == [i \in DOMAIN bytes |-> 97 + (bytes[i] % 26)]

\* Only letters use up a letter of the keyword.
LettersBefore(runes, i) == Cardinality({j \in 1 .. (i - 1) : IsLetter(runes[j])})

KeyShift(runes, keyword, i) ==
    keyword[(LettersBefore(runes, i) % Len(keyword)) + 1] - 97

EncryptVigenere(runes, keyword) ==
    [i \in DOMAIN runes |-> Shifted(runes[i], KeyShift(runes, keyword, i))]

DecryptVigenere(runes, keyword) ==
    [i \in DOMAIN runes |-> Shifted(runes[i], 26 - KeyShift(runes, keyword, i))]

-----------------------------------------------------------------------------
(* Bytes.                                                                  *)

Bit(n, weight) == (n \div weight) % 2

XorBit(a, b, weight) == weight * ((Bit(a, weight) + Bit(b, weight)) % 2)

XorByte(a, b) ==
    XorBit(a, b, 128) + XorBit(a, b, 64) + XorBit(a, b, 32) + XorBit(a, b, 16)
    + XorBit(a, b, 8) + XorBit(a, b, 4) + XorBit(a, b, 2) + XorBit(a, b, 1)

XorText(runes, bytes) ==
    [i \in DOMAIN runes |-> XorByte(runes[i], bytes[((i - 1) % Len(bytes)) + 1])]

\* Mutant: a text that fills its last block is not padded.
PaddingToFill(length) == (BlockSize - (length % BlockSize)) % BlockSize

\* At least one byte of padding, a whole block if the text fills its last one.
Padding(length) == BlockSize - (length % BlockSize)

Pad(data) == data \o [i \in 1 .. Padding(Len(data)) |-> Padding(Len(data))]

PaddedRight(data) ==
    /\ Len(data) > 0
    /\ data[Len(data)] \in 1 .. BlockSize
    /\ \A i \in (Len(data) - data[Len(data)] + 1) .. Len(data) : data[i] = data[Len(data)]

Unpad(data) ==
    IF PaddedRight(data) THEN SubSeq(data, 1, Len(data) - data[Len(data)]) ELSE Unreadable

Sealed(bytes, data) == [key |-> bytes, data |-> data]

Opened(bytes, sealed) == IF sealed.key = bytes THEN sealed.data ELSE Unreadable

\* The first 16 of the 32 bytes.
GcmKey(bytes) == SubSeq(bytes, 1, GcmKeyLength)

EncryptAES128GCM(runes, bytes)  == Sealed(GcmKey(bytes), runes)
DecryptAES128GCM(sealed, bytes) == Opened(GcmKey(bytes), sealed)
EncryptAES256CBC(runes, bytes)  == Sealed(bytes, Pad(runes))
DecryptAES256CBC(sealed, bytes) == Unpad(Opened(bytes, sealed))

-----------------------------------------------------------------------------
(* The service.                                                            *)

Encoding(name) == IF name \in {"caesar", "vigenere"} THEN "plaintext" ELSE "hex"

Body(runes, name, bytes) ==
    CASE name = "caesar"      -> EncryptCaesar(runes, CaesarShift(bytes))
      [] name = "vigenere"    -> EncryptVigenere(runes, Keyword(bytes))
      [] name = "xor"         -> XorText(runes, bytes)
      [] name = "aes-128-gcm" -> EncryptAES128GCM(runes, bytes)
      [] name = "aes-256-cbc" -> EncryptAES256CBC(runes, bytes)

Encrypt(runes, name, bytes) ==
    [encoding |-> Encoding(name), body |-> Body(runes, name, bytes)]

Decrypt(sent, name, bytes) ==
    CASE name = "caesar"      -> EncryptCaesar(sent.body, 26 - CaesarShift(bytes))
      [] name = "vigenere"    -> DecryptVigenere(sent.body, Keyword(bytes))
      [] name = "xor"         -> XorText(sent.body, bytes)
      [] name = "aes-128-gcm" -> DecryptAES128GCM(sent.body, bytes)
      [] name = "aes-256-cbc" -> DecryptAES256CBC(sent.body, bytes)

\* The key in the hint of POST /decode: a shift, a keyword or bytes.
HintKey(name, bytes) ==
    CASE name = "caesar"      -> <<CaesarShift(bytes)>>
      [] name = "vigenere"    -> Keyword(bytes)
      [] name = "aes-128-gcm" -> GcmKey(bytes)
      [] OTHER                -> bytes

GetCipherInfo(name, bytes) ==
    [cipher |-> name, key |-> HintKey(name, bytes), encoding |-> Encoding(name)]

\* The response to a withheld guess names the cipher and says "hex"; the key
\* is the one the player derives from its answers.
WithheldInfo(name, bytes) == [cipher |-> name, key |-> bytes, encoding |-> "hex"]

-----------------------------------------------------------------------------
(* The player follows the hint text.                                       *)

ReadByHint(sent, info) ==
    IF sent.encoding # info.encoding THEN Unreadable
    ELSE CASE info.cipher = "caesar"      -> EncryptCaesar(sent.body, 26 - info.key[1])
           [] info.cipher = "vigenere"    -> DecryptVigenere(sent.body, info.key)
           [] info.cipher = "xor"         -> XorText(sent.body, info.key)
           [] info.cipher = "aes-128-gcm" -> DecryptAES128GCM(sent.body, info.key)
           [] info.cipher = "aes-256-cbc" -> DecryptAES256CBC(sent.body, info.key)

-----------------------------------------------------------------------------
NoCiphertext == [encoding |-> "none", body |-> <<>>]
NoInfo       == [cipher |-> "none", key |-> <<>>, encoding |-> "none"]

Init ==
    /\ kind \in {"answer", "guess"}
    /\ cipher \in CipherPool(kind)
    /\ key \in Key
    /\ text \in Text
    /\ phase = "plain"
    /\ ciphertext = NoCiphertext
    /\ hint = NoInfo
    /\ read = Unreadable

Send ==
    /\ phase = "plain"
    /\ phase' = "sent"
    /\ ciphertext' = Encrypt(text, cipher, key)
    /\ UNCHANGED <<kind, cipher, key, text, hint, read>>

Decode ==
    /\ phase = "sent" /\ kind = "answer"
    /\ phase' = "hinted"
    /\ hint' = GetCipherInfo(cipher, key)
    /\ UNCHANGED <<kind, cipher, key, text, ciphertext, read>>

Derive ==
    /\ phase = "sent" /\ kind = "guess"
    /\ phase' = "hinted"
    /\ hint' = WithheldInfo(cipher, key)
    /\ UNCHANGED <<kind, cipher, key, text, ciphertext, read>>

ReadText ==
    /\ phase = "hinted"
    /\ phase' = "read"
    /\ read' = ReadByHint(ciphertext, hint)
    /\ UNCHANGED <<kind, cipher, key, text, ciphertext, hint>>

Next == Send \/ Decode \/ Derive \/ ReadText

Spec == Init /\ [][Next]_vars

-----------------------------------------------------------------------------
(* The player reads what the server wrote, with nothing but the ciphertext *)
(* and the hint, whatever the key, the text and the cipher drawn for the   *)
(* session: the hint's key, its encoding and the cipher fit each other     *)
(* (GetCipherInfo, the cipher pools and the response to a withheld guess). *)
PlayerReads == phase = "read" => read = text

(* Decrypt undoes Encrypt, texts that fill a block and texts of runes that *)
(* are no letters included.                                                *)
RoundTrip == phase = "sent" => Decrypt(ciphertext, cipher, key) = text
=============================================================================
