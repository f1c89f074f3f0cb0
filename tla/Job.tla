-------------------------------- MODULE Job --------------------------------
(***************************************************************************)
(* job.cpp: the difficulty test and the hexadecimal forms, and the two     *)
(* forms a nonce takes: in the bytes that are hashed and in the line that  *)
(* submits it.  A byte is a number below 256, a hex digit one below 16.    *)
(***************************************************************************)
EXTENDS Naturals, Sequences, FiniteSetsExt, SequencesExt

Byte == 0 .. 255

\* The positions of the one bits of a byte: byte & mask is zero iff they share none.
Bits(byte) == {i \in 0 .. 7 : (byte \div 2^i) % 2 = 1}

\* Mutant: the mask keeps one bit too many.
MaskWide(k) == (255 * 2^(7 - k)) % 256

\* static_cast<std::uint8_t>(0xFFU << (8U - k))
Mask(k) == (255 * 2^(8 - k)) % 256

\* The byte may stay if `left' bits of the difficulty are still to be tested.
BytePasses(byte, left) ==
    \/ left = 0
    \/ left >= 8 /\ byte = 0
    \/ left \in 1 .. 7 /\ Bits(byte) \cap Bits(Mask(left)) = {}

\* The loop leaves at the first byte that fails and at the one that is masked,
\* after which no bit is left.
meets_difficulty(hash, bits) ==
    \A i \in DOMAIN hash :
        BytePasses(hash[i], IF bits > 8 * (i - 1) THEN bits - 8 * (i - 1) ELSE 0)

-----------------------------------------------------------------------------
\* Mutant: setw(2) only holds for the first byte.
HexOfByteNarrow(byte) == IF byte < 16 THEN <<byte>> ELSE <<byte \div 16, byte % 16>>

HexOfByte(byte) == <<byte \div 16, byte % 16>>

hash_to_hex(hash) == FlattenSeq([i \in DOMAIN hash |-> HexOfByte(hash[i])])

\* substr(i, 2) is one digit at the end of an odd number of them.
hex_to_bytes(hex) ==
    [i \in 1 .. (Len(hex) + 1) \div 2 |->
        IF 2 * i <= Len(hex) THEN 16 * hex[2 * i - 1] + hex[2 * i] ELSE hex[2 * i - 1]]

\* The lowest byte first, as it is appended to the prefix.
NonceBytes(nonce) == [i \in 1 .. 4 |-> (nonce \div 2^(8 * (i - 1))) % 256]

\* Eight digits, the highest first.
nonce_to_hex(nonce) == [i \in 1 .. 8 |-> (nonce \div 2^(4 * (8 - i))) % 16]

-----------------------------------------------------------------------------
(* What they must compute.                                                 *)

LeadingZeros(hash) ==
    LET ones == UNION {{8 * (i - 1) + 7 - b : b \in Bits(hash[i])} : i \in DOMAIN hash}
    IN IF ones = {} THEN 8 * Len(hash) ELSE Min(ones)

\* At every difficulty, also 0, the multiples of 8 and those above the width
\* of the hash, which only a hash of zeros meets, the test counts the leading
\* zero bits.
CountsLeadingZeros(hash, difficulties) ==
    \A bits \in difficulties :
        meets_difficulty(hash, bits)
            <=> bits <= LeadingZeros(hash) \/ LeadingZeros(hash) = 8 * Len(hash)

\* What is printed of a hash is all of it.
HexIsFaithful(hash) == hex_to_bytes(hash_to_hex(hash)) = hash

\* The eight digits of a submit name the nonce whose bytes were hashed.
SubmitsHashedNonce(nonce) == hex_to_bytes(nonce_to_hex(nonce)) = Reverse(NonceBytes(nonce))
=============================================================================
