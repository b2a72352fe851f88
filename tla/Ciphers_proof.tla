--------------------------- MODULE Ciphers_proof ---------------------------
(***************************************************************************)
(* Proofs about Ciphers: for every alphabet of ASCII runes, every key and  *)
(* every length, Decrypt undoes Encrypt and the player's hint is enough to *)
(* read what was sent.  The ciphers work position by position, so no       *)
(* induction over the text is needed.                                      *)
(***************************************************************************)
EXTENDS Ciphers, SequenceTheorems, FiniteSetTheorems, TLAPS

-----------------------------------------------------------------------------
(* Letters *)

\* A letter shifted around the alphabet and on to its end is back.
LEMMA AroundAlphabet ==
    ASSUME NEW x \in 0 .. 25, NEW s \in 0 .. 26
    PROVE  /\ (x + s) % 26 \in 0 .. 25
           /\ (((x + s) % 26) + (26 - s)) % 26 = x
  BY SMT

LEMMA ShiftBack ==
    ASSUME NEW ch \in Int, NEW s \in 0 .. 26
    PROVE  /\ Shifted(ch, s) \in Int
           /\ IsLetter(Shifted(ch, s)) <=> IsLetter(ch)
           /\ Shifted(Shifted(ch, s), 26 - s) = ch
<1>1. CASE IsLower(ch)
  <2> DEFINE y == (ch - 97 + s) % 26
  <2>1. y \in 0 .. 25 /\ (y + (26 - s)) % 26 = ch - 97
    BY <1>1, AroundAlphabet DEF IsLower
  <2>2. Shifted(ch, s) = 97 + y
    BY <1>1 DEF Shifted
  <2> HIDE DEF y
  <2>3. IsLower(97 + y) /\ (97 + y) - 97 = y
    BY <2>1 DEF IsLower
  <2>4. Shifted(97 + y, 26 - s) = 97 + ((y + (26 - s)) % 26)
    BY <2>3 DEF Shifted
  <2> QED BY <1>1, <2>1, <2>2, <2>3, <2>4 DEF IsLetter
<1>2. CASE ~IsLower(ch) /\ IsUpper(ch)
  <2> DEFINE y == (ch - 65 + s) % 26
  <2>1. y \in 0 .. 25 /\ (y + (26 - s)) % 26 = ch - 65
    BY <1>2, AroundAlphabet DEF IsUpper
  <2>2. Shifted(ch, s) = 65 + y
    BY <1>2 DEF Shifted
  <2> HIDE DEF y
  <2>3. ~IsLower(65 + y) /\ IsUpper(65 + y) /\ (65 + y) - 65 = y
    BY <2>1 DEF IsUpper, IsLower
  <2>4. Shifted(65 + y, 26 - s) = 65 + ((y + (26 - s)) % 26)
    BY <2>3 DEF Shifted
  <2> QED BY <1>2, <2>1, <2>2, <2>3, <2>4 DEF IsLetter
<1>3. CASE ~IsLower(ch) /\ ~IsUpper(ch)
  BY <1>3 DEF Shifted
<1> QED BY <1>1, <1>2, <1>3

-----------------------------------------------------------------------------
(* Bits *)

LEMMA BitsOfByte ==
    ASSUME NEW a \in 0 .. 255
    PROVE  /\ \A w \in {1, 2, 4, 8, 16, 32, 64, 128} : Bit(a, w) \in {0, 1}
           /\ a = 128 * Bit(a, 128) + 64 * Bit(a, 64) + 32 * Bit(a, 32) + 16 * Bit(a, 16)
                    + 8 * Bit(a, 8) + 4 * Bit(a, 4) + 2 * Bit(a, 2) + Bit(a, 1)
  BY SMT DEF Bit

LEMMA BitsOfSum ==
    ASSUME NEW a \in {0, 1}, NEW b \in {0, 1}, NEW c \in {0, 1}, NEW d \in {0, 1},
           NEW e \in {0, 1}, NEW f \in {0, 1}, NEW g \in {0, 1}, NEW h \in {0, 1},
           NEW n, n = 128 * a + 64 * b + 32 * c + 16 * d + 8 * e + 4 * f + 2 * g + h
    PROVE  /\ Bit(n, 128) = a /\ Bit(n, 64) = b /\ Bit(n, 32) = c /\ Bit(n, 16) = d
           /\ Bit(n, 8) = e /\ Bit(n, 4) = f /\ Bit(n, 2) = g /\ Bit(n, 1) = h
  BY SMT DEF Bit

\* XOR with a byte twice changes nothing.
LEMMA XorBack ==
    ASSUME NEW a \in 0 .. 255, NEW b \in 0 .. 255
    PROVE  XorByte(XorByte(a, b), b) = a
<1> DEFINE X(w) == (Bit(a, w) + Bit(b, w)) % 2
           Weight == {1, 2, 4, 8, 16, 32, 64, 128}
<1>1. \A w \in Weight : Bit(a, w) \in {0, 1} /\ Bit(b, w) \in {0, 1}
  BY BitsOfByte
<1>2. ASSUME NEW w \in Weight
      PROVE  X(w) \in {0, 1} /\ (X(w) + Bit(b, w)) % 2 = Bit(a, w)
  <2>1. \A x, y \in {0, 1} : (x + y) % 2 \in {0, 1} /\ (((x + y) % 2) + y) % 2 = x
    BY SMT
  <2> QED BY <1>1, <2>1
<1> DEFINE n == XorByte(a, b)
<1>3. n = 128 * X(128) + 64 * X(64) + 32 * X(32) + 16 * X(16)
            + 8 * X(8) + 4 * X(4) + 2 * X(2) + X(1)
  <2>1. 1 * X(1) = X(1)
    BY <1>2
  <2> QED BY <2>1 DEF XorByte, XorBit
<1> HIDE DEF n, X
<1>4. \A w \in Weight : Bit(n, w) = X(w)
  BY <1>2, <1>3, BitsOfSum
<1>5. \A w \in Weight : XorBit(n, b, w) = w * Bit(a, w)
  BY <1>2, <1>4 DEF XorBit
<1>6. XorByte(n, b) = 128 * Bit(a, 128) + 64 * Bit(a, 64) + 32 * Bit(a, 32)
                        + 16 * Bit(a, 16) + 8 * Bit(a, 8) + 4 * Bit(a, 4)
                        + 2 * Bit(a, 2) + 1 * Bit(a, 1)
  BY <1>5 DEF XorByte
<1>7. 1 * Bit(a, 1) = Bit(a, 1)
  BY <1>1
<1> QED BY <1>6, <1>7, BitsOfByte DEF n

-----------------------------------------------------------------------------
(* Texts.  A text is a function on 1 .. n, and so is what a cipher makes of *)
(* it, rune by rune.                                                        *)

Runes(n) == [1 .. n -> 0 .. 127]

LEMMA TextIsSeq ==
    ASSUME NEW n \in Nat, NEW S, NEW f \in [1 .. n -> S]
    PROVE  f \in Seq(S) /\ Len(f) = n
  BY SMT

LEMMA RunesAreInts ==
    ASSUME NEW n \in Nat, NEW t \in Runes(n)
    PROVE  \A i \in 1 .. n : t[i] \in Int /\ t[i] \in 0 .. 255
<1>1. \A i \in 1 .. n : t[i] \in 0 .. 127
  BY DEF Runes
<1> QED BY <1>1

LEMMA CaesarBack ==
    ASSUME NEW n \in Nat, NEW t \in Runes(n), NEW s \in 0 .. 26
    PROVE  EncryptCaesar(EncryptCaesar(t, s), 26 - s) = t
<1>1. \A i \in 1 .. n : t[i] \in Int
  BY RunesAreInts
<1>2. \A i \in 1 .. n : Shifted(Shifted(t[i], s), 26 - s) = t[i]
  BY <1>1, ShiftBack
<1> QED BY <1>2 DEF EncryptCaesar, Runes

\* A letter stays a letter, so both sides use the same letter of the keyword.
LEMMA SameKeyLetters ==
    ASSUME NEW n \in Nat, NEW t \in Runes(n), NEW k, NEW u, DOMAIN u = 1 .. n,
           \A i \in 1 .. n : IsLetter(u[i]) <=> IsLetter(t[i])
    PROVE  \A i \in 1 .. n : KeyShift(u, k, i) = KeyShift(t, k, i)
<1> SUFFICES ASSUME NEW i \in 1 .. n PROVE KeyShift(u, k, i) = KeyShift(t, k, i)
  OBVIOUS
<1>1. {j \in 1 .. (i - 1) : IsLetter(u[j])} = {j \in 1 .. (i - 1) : IsLetter(t[j])}
  OBVIOUS
<1> QED BY <1>1 DEF KeyShift, LettersBefore

LEMMA KeyShiftRange ==
    ASSUME NEW m \in Nat \ {0}, NEW b \in [1 .. m -> 0 .. 255],
           NEW n \in Nat, NEW t \in Runes(n), NEW i \in 1 .. n
    PROVE  KeyShift(t, Keyword(b), i) \in 0 .. 25
<1> DEFINE k == Keyword(b)
           l == LettersBefore(t, i)
<1>1. k \in [1 .. m -> 97 .. 122] /\ Len(k) = m
  <2>1. \A x \in 0 .. 255 : 97 + (x % 26) \in 97 .. 122
    BY SMT
  <2>2. \A j \in 1 .. m : b[j] \in 0 .. 255
    OBVIOUS
  <2>3. k \in [1 .. m -> 97 .. 122]
    BY <2>1, <2>2 DEF Keyword
  <2> QED BY <2>3, TextIsSeq
<1>2. l \in Nat
  <2>1. IsFiniteSet({j \in 1 .. (i - 1) : IsLetter(t[j])})
    BY FS_Interval, FS_Subset
  <2> QED BY <2>1, FS_CardinalityType DEF LettersBefore
<1> HIDE DEF l, k
<1>3. (l % m) + 1 \in 1 .. m
  BY <1>2, SMT
<1>4. k[(l % Len(k)) + 1] \in 97 .. 122
  BY <1>1, <1>3
<1>5. k[(l % Len(k)) + 1] - 97 \in 0 .. 25
  BY <1>4
<1> QED BY <1>5 DEF KeyShift, k, l

LEMMA VigenereBack ==
    ASSUME NEW m \in Nat \ {0}, NEW b \in [1 .. m -> 0 .. 255],
           NEW n \in Nat, NEW t \in Runes(n)
    PROVE  DecryptVigenere(EncryptVigenere(t, Keyword(b)), Keyword(b)) = t
<1> DEFINE k == Keyword(b)
           u == EncryptVigenere(t, k)
<1>1. DOMAIN u = 1 .. n /\ \A i \in 1 .. n : u[i] = Shifted(t[i], KeyShift(t, k, i))
  BY DEF EncryptVigenere, Runes
<1>2. ASSUME NEW i \in 1 .. n
      PROVE  KeyShift(t, k, i) \in 0 .. 26
  <2>1. KeyShift(t, Keyword(b), i) \in 0 .. 25
    BY KeyShiftRange
  <2>2. 0 .. 25 \subseteq 0 .. 26
    OBVIOUS
  <2> QED BY <2>1, <2>2
<1>3. ASSUME NEW i \in 1 .. n
      PROVE  /\ IsLetter(u[i]) <=> IsLetter(t[i])
             /\ Shifted(u[i], 26 - KeyShift(t, k, i)) = t[i]
  <2> DEFINE ch == t[i]
             x  == KeyShift(t, k, i)
  <2>1. ch \in Int /\ x \in 0 .. 26
    BY <1>2, RunesAreInts
  <2>2. u[i] = Shifted(ch, x)
    BY <1>1
  <2> HIDE DEF ch, x, u, k
  <2>3. /\ IsLetter(Shifted(ch, x)) <=> IsLetter(ch)
        /\ Shifted(Shifted(ch, x), 26 - x) = ch
    BY <2>1, ShiftBack
  <2>4. /\ IsLetter(u[i]) <=> IsLetter(ch)
        /\ Shifted(u[i], 26 - x) = ch
    BY <2>2, <2>3
  <2> QED BY <2>4 DEF ch, x
<1> HIDE DEF u, k
<1>4. \A i \in 1 .. n : KeyShift(u, k, i) = KeyShift(t, k, i)
  BY <1>1, <1>3, SameKeyLetters
<1>5. DecryptVigenere(u, k) = t
  BY <1>1, <1>3, <1>4 DEF DecryptVigenere, Runes
<1> QED BY <1>5 DEF u, k

LEMMA XorTextBack ==
    ASSUME NEW m \in Nat \ {0}, NEW b \in [1 .. m -> 0 .. 255],
           NEW n \in Nat, NEW t \in Runes(n)
    PROVE  XorText(XorText(t, b), b) = t
<1>1. Len(b) = m
  BY TextIsSeq
<1>2. \A i \in 1 .. n : ((i - 1) % m) + 1 \in 1 .. m
  BY SMT
<1>3. \A i \in 1 .. n :
        XorByte(XorByte(t[i], b[((i - 1) % Len(b)) + 1]), b[((i - 1) % Len(b)) + 1]) = t[i]
  <2> SUFFICES ASSUME NEW i \in 1 .. n
               PROVE  XorByte(XorByte(t[i], b[((i - 1) % m) + 1]), b[((i - 1) % m) + 1]) = t[i]
    BY <1>1
  <2>1. t[i] \in 0 .. 255 /\ b[((i - 1) % m) + 1] \in 0 .. 255
    BY <1>2, RunesAreInts
  <2> QED BY <2>1, XorBack
<1> QED BY <1>3 DEF XorText, Runes

-----------------------------------------------------------------------------
(* Blocks *)

LEMMA PaddingRange ==
    ASSUME NEW length \in Nat
    PROVE  Padding(length) \in 1 .. BlockSize
<1>1. \A x \in 0 .. (BlockSize - 1) : BlockSize - x \in 1 .. BlockSize
  BY CiphersAssumption
<1>2. length % BlockSize \in 0 .. (BlockSize - 1)
  BY CiphersAssumption
<1> QED BY <1>1, <1>2 DEF Padding

\* The last byte tells how much padding there is, whatever the text ends in.
LEMMA UnpadBack ==
    ASSUME NEW n \in Nat, NEW t \in Runes(n)
    PROVE  Unpad(Pad(t)) = t
<1> DEFINE m    == Padding(n)
           tail == [i \in 1 .. m |-> m]
           d    == t \o tail
<1>1. m \in 1 .. BlockSize /\ m \in Nat /\ m >= 1
  BY PaddingRange, CiphersAssumption
<1> HIDE DEF m
<1>2. t \in Seq(Int) /\ Len(t) = n
  <2>1. t \in [1 .. n -> Int]
    BY RunesAreInts DEF Runes
  <2> QED BY <2>1, TextIsSeq
<1>3. tail \in Seq(Int) /\ Len(tail) = m
  <2>1. tail \in [1 .. m -> Int]
    BY <1>1
  <2> HIDE DEF tail
  <2> QED BY <1>1, <2>1, TextIsSeq
<1>4. \A i \in 1 .. m : tail[i] = m
  OBVIOUS
<1> HIDE DEF tail
<1>5. /\ d \in Seq(Int) /\ Len(d) = n + m
      /\ \A i \in 1 .. n + m : d[i] = IF i <= n THEN t[i] ELSE tail[i - n]
  BY <1>2, <1>3, ConcatProperties
<1>6. Pad(t) = d
  BY <1>2 DEF Pad, tail, m
<1> HIDE DEF d
<1>7. \A i \in (n + 1) .. (n + m) : d[i] = m
  <2> SUFFICES ASSUME NEW i \in (n + 1) .. (n + m) PROVE d[i] = m
    OBVIOUS
  <2>1. i \in 1 .. n + m /\ ~(i <= n) /\ i - n \in 1 .. m
    BY <1>1
  <2> QED BY <1>4, <1>5, <2>1
<1>8. d[Len(d)] = m
  BY <1>1, <1>5, <1>7
<1>9. PaddedRight(d)
  BY <1>1, <1>5, <1>7, <1>8 DEF PaddedRight
<1>10. Unpad(d) = SubSeq(d, 1, n)
  BY <1>1, <1>5, <1>8, <1>9 DEF Unpad
<1>11. SubSeq(d, 1, n) = t
  <2>1. \A i \in 1 .. n : d[i] \in Int /\ d[i] = t[i]
    BY <1>1, <1>5, <1>2
  <2>2. /\ SubSeq(d, 1, n) \in Seq(Int)
        /\ Len(SubSeq(d, 1, n)) = IF 1 <= n THEN n - 1 + 1 ELSE 0
        /\ \A i \in 1 .. n - 1 + 1 : SubSeq(d, 1, n)[i] = d[1 + i - 1]
    BY <2>1, SubSeqProperties
  <2> DEFINE r == SubSeq(d, 1, n)
  <2> HIDE DEF r
  <2>3. Len(r) = n /\ \A i \in 1 .. n : r[i] = d[i]
    BY <2>2 DEF r
  <2>4. r = t
    BY <1>2, <2>1, <2>2, <2>3, SeqEqual DEF r
  <2> QED BY <2>4 DEF r
<1> QED BY <1>6, <1>10, <1>11

-----------------------------------------------------------------------------
(* Keys *)

LEMMA KeyFacts ==
    ASSUME NEW k \in Key
    PROVE  /\ KeyLength \in Nat \ {0}
           /\ k \in [1 .. KeyLength -> 0 .. 255]
           /\ CaesarShift(k) \in 0 .. 26
<1>1. KeyLength \in Nat \ {0} /\ KeyByte \subseteq 0 .. 255
  BY CiphersAssumption
<1>2. k \in [1 .. KeyLength -> 0 .. 255]
  BY <1>1 DEF Key
<1>3. k[1] \in 0 .. 255
  BY <1>1, <1>2
<1>4. \A x \in 0 .. 255 : (x % 25) + 1 \in 0 .. 26
  BY SMT
<1> QED BY <1>1, <1>2, <1>3, <1>4 DEF CaesarShift

\* What the hint holds of the key is all the cipher uses.
LEMMA GcmKeyTwice ==
    ASSUME NEW k \in Key
    PROVE  GcmKey(GcmKey(k)) = GcmKey(k)
<1> DEFINE l == GcmKeyLength
           g == SubSeq(k, 1, l)
<1>1. l \in Nat /\ 1 <= l /\ l <= KeyLength /\ KeyLength \in Nat
  BY CiphersAssumption
<1>2. \A i \in 1 .. l : k[i] \in 0 .. 255
  <2>1. k \in [1 .. KeyLength -> 0 .. 255]
    BY KeyFacts
  <2>2. \A i \in 1 .. l : i \in 1 .. KeyLength
    BY <1>1
  <2> QED BY <2>1, <2>2
<1>3. g \in Seq(0 .. 255) /\ Len(g) = l
  BY <1>1, <1>2, SubSeqProperties
<1> HIDE DEF g
<1>4. SubSeq(g, 1, Len(g)) = g
  BY <1>3, SubSeqFull
<1> QED BY <1>3, <1>4 DEF GcmKey, g

-----------------------------------------------------------------------------
(* The service *)

Name == {"caesar", "vigenere", "xor", "aes-128-gcm", "aes-256-cbc"}

LEMMA DecryptBack ==
    ASSUME NEW t \in Text, NEW c \in Name, NEW k \in Key
    PROVE  Decrypt(Encrypt(t, c, k), c, k) = t
<1>1. PICK n \in Nat : t \in Runes(n)
  <2>1. PICK n \in 0 .. MaxLength : t \in [1 .. n -> Rune]
    BY DEF Text
  <2>2. n \in Nat /\ Rune \subseteq 0 .. 127
    BY CiphersAssumption
  <2>3. t \in Runes(n)
    BY <2>1, <2>2 DEF Runes
  <2> QED BY <2>2, <2>3
<1>2. CASE c = "caesar"
  BY <1>1, <1>2, KeyFacts, CaesarBack DEF Decrypt, Encrypt, Body
<1>3. CASE c = "vigenere"
  BY <1>1, <1>3, KeyFacts, VigenereBack DEF Decrypt, Encrypt, Body
<1>4. CASE c = "xor"
  BY <1>1, <1>4, KeyFacts, XorTextBack DEF Decrypt, Encrypt, Body
<1>5. CASE c = "aes-128-gcm"
  BY <1>5 DEF Decrypt, Encrypt, Body, EncryptAES128GCM, DecryptAES128GCM, Sealed, Opened
<1>6. CASE c = "aes-256-cbc"
  BY <1>1, <1>6, UnpadBack
  DEF Decrypt, Encrypt, Body, EncryptAES256CBC, DecryptAES256CBC, Sealed, Opened
<1> QED BY <1>2, <1>3, <1>4, <1>5, <1>6 DEF Name

\* A hint that names the cipher and its encoding, with the whole key or the
\* part of it that the cipher uses, deciphers like the service does.
LEMMA HintDeciphers ==
    ASSUME NEW e, NEW c \in Name, NEW k \in Key, NEW info,
           e.encoding = Encoding(c),
           \/ info = GetCipherInfo(c, k)
           \/ c \notin {"caesar", "vigenere"} /\ info = WithheldInfo(c, k)
    PROVE  ReadByHint(e, info) = Decrypt(e, c, k)
<1>1. e.encoding = Encoding(c)
  OBVIOUS
<1>2. info.encoding = Encoding(c) /\ info.cipher = c
  BY DEF GetCipherInfo, WithheldInfo, Encoding
<1>3. info.key = HintKey(c, k) \/ (c \notin {"caesar", "vigenere"} /\ info.key = k)
  BY DEF GetCipherInfo, WithheldInfo
<1>4. CASE c = "caesar"
  BY <1>1, <1>2, <1>3, <1>4 DEF ReadByHint, Decrypt, HintKey
<1>5. CASE c = "vigenere"
  BY <1>1, <1>2, <1>3, <1>5 DEF ReadByHint, Decrypt, HintKey
<1>6. CASE c = "xor"
  BY <1>1, <1>2, <1>3, <1>6 DEF ReadByHint, Decrypt, HintKey
<1>7. CASE c = "aes-128-gcm"
  <2>1. GcmKey(info.key) = GcmKey(k)
    BY <1>3, <1>7, GcmKeyTwice DEF HintKey
  <2>2. DecryptAES128GCM(e.body, info.key) = DecryptAES128GCM(e.body, k)
    BY <2>1 DEF DecryptAES128GCM
  <2> QED BY <1>1, <1>2, <1>7, <2>2 DEF ReadByHint, Decrypt
<1>8. CASE c = "aes-256-cbc"
  BY <1>1, <1>2, <1>3, <1>8 DEF ReadByHint, Decrypt, HintKey
<1> QED BY <1>4, <1>5, <1>6, <1>7, <1>8 DEF Name

-----------------------------------------------------------------------------
(* The exchange *)

\* What was sent is the text under the session's cipher and key, and the hint
\* is one that goes with them.
IInv ==
    /\ text \in Text /\ key \in Key /\ cipher \in Name
    /\ kind = "guess" => cipher \notin {"caesar", "vigenere"}
    /\ phase \in {"plain", "sent", "hinted", "read"}
    /\ phase # "plain" => ciphertext = Encrypt(text, cipher, key)
    /\ phase \in {"hinted", "read"} =>
          \/ hint = GetCipherInfo(cipher, key)
          \/ cipher \notin {"caesar", "vigenere"} /\ hint = WithheldInfo(cipher, key)
    /\ phase = "read" => read = ReadByHint(ciphertext, hint)

LEMMA IInvInit == Init => IInv
  BY DEF Init, IInv, CipherPool, Name

LEMMA IInvStep == IInv /\ [Next]_vars => IInv'
<1> SUFFICES ASSUME IInv, [Next]_vars PROVE IInv'
  OBVIOUS
<1>1. CASE Send
  BY <1>1 DEF IInv, Send
<1>2. CASE Decode
  BY <1>2 DEF IInv, Decode
<1>3. CASE Derive
  BY <1>3 DEF IInv, Derive
<1>4. CASE ReadText
  BY <1>4 DEF IInv, ReadText
<1>5. CASE UNCHANGED vars
  BY <1>5 DEF IInv, vars
<1> QED BY <1>1, <1>2, <1>3, <1>4, <1>5 DEF Next

LEMMA IInvHolds == Spec => []IInv
<1> QED BY IInvInit, IInvStep, PTL DEF Spec

(* Decrypt undoes Encrypt for every text, key and cipher, however long the *)
(* text and the key and whatever the block size (encryption_service.go).   *)
THEOREM RoundTripHolds == Spec => []RoundTrip
<1>1. IInv => RoundTrip
  BY DecryptBack DEF IInv, RoundTrip
<1> QED BY <1>1, IInvHolds, PTL

(* A player who follows the hint of POST /decode, or uses the witness key  *)
(* of a withheld guess, reads the text that was sent.                      *)
THEOREM PlayerReadsText == Spec => []PlayerReads
<1>1. IInv => PlayerReads
  <2> SUFFICES ASSUME IInv, phase = "read" PROVE read = text
    BY DEF PlayerReads
  <2>1. ciphertext = Encrypt(text, cipher, key) /\ ciphertext.encoding = Encoding(cipher)
    BY DEF IInv, Encrypt
  <2>2. ReadByHint(ciphertext, hint) = Decrypt(ciphertext, cipher, key)
    BY <2>1, HintDeciphers DEF IInv
  <2> QED BY <2>1, <2>2, DecryptBack DEF IInv
<1> QED BY <1>1, IInvHolds, PTL
=============================================================================
