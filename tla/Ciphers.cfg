SPECIFICATION Spec
CONSTANTS
    Rune <- MCRune
    KeyByte <- MCKeyByte
    MaxLength = 4
    KeyLength = 3
    GcmKeyLength = 2
    BlockSize = 3
CHECK_DEADLOCK FALSE
INVARIANT PlayerReads
INVARIANT RoundTrip
