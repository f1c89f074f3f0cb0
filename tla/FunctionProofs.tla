--------------------------- MODULE FunctionProofs ---------------------------
(***************************************************************************)
(* Theorems about the pure functions, for every hash, nonce, message and   *)
(* text.                                                                   *)
(***************************************************************************)
EXTENDS PureFunctions, NaturalLemmas, SequenceTheorems

-----------------------------------------------------------------------------
(* meets_difficulty counts leading zero bits.                              *)

\* The one bits of a byte, each by itself.
LEMMA BitsAre ==
    ASSUME NEW byte \in Nat, NEW b \in 0 .. 7
    PROVE  b \in Bits(byte) <=>
              \/ b = 0 /\ byte % 2 = 1
              \/ b = 1 /\ (byte \div 2) % 2 = 1
              \/ b = 2 /\ (byte \div 4) % 2 = 1
              \/ b = 3 /\ (byte \div 8) % 2 = 1
              \/ b = 4 /\ (byte \div 16) % 2 = 1
              \/ b = 5 /\ (byte \div 32) % 2 = 1
              \/ b = 6 /\ (byte \div 64) % 2 = 1
              \/ b = 7 /\ (byte \div 128) % 2 = 1
<1>1. b \in Bits(byte) <=> (byte \div 2^b) % 2 = 1
    BY DEF Bits
<1>2. byte \div 1 = byte
    OBVIOUS
<1>3. CASE b = 0
    BY <1>1, <1>2, <1>3, SmallPowers
<1>4. CASE b = 1
    BY <1>1, <1>4, SmallPowers
<1>5. CASE b = 2
    BY <1>1, <1>5, SmallPowers
<1>6. CASE b = 3
    BY <1>1, <1>6, SmallPowers
<1>7. CASE b = 4
    BY <1>1, <1>7, SmallPowers
<1>8. CASE b = 5
    BY <1>1, <1>8, SmallPowers
<1>9. CASE b = 6
    BY <1>1, <1>9, SmallPowers
<1>10. CASE b = 7
    BY <1>1, <1>10, SmallPowers
<1> QED
    BY <1>3, <1>4, <1>5, <1>6, <1>7, <1>8, <1>9, <1>10

\* A byte without a one bit is zero.
LEMMA NoBits == \A byte \in Byte : Bits(byte) = {} <=> byte = 0
<1>1. ASSUME NEW b \in Bits(0) PROVE FALSE
    <2>1. b \in 0 .. 7
        BY DEF Bits
    <2> QED
        BY <2>1, BitsAre
<1>2. ASSUME NEW byte \in Byte, Bits(byte) = {} PROVE byte = 0
    <2>1. /\ byte % 2 # 1 /\ (byte \div 2) % 2 # 1 /\ (byte \div 4) % 2 # 1
          /\ (byte \div 8) % 2 # 1 /\ (byte \div 16) % 2 # 1 /\ (byte \div 32) % 2 # 1
          /\ (byte \div 64) % 2 # 1 /\ (byte \div 128) % 2 # 1
        BY <1>2, BitsAre DEF Byte
    <2> QED
        BY <2>1 DEF Byte
<1> QED
    BY <1>1, <1>2

\* The mask keeps the highest bits.
LEMMA MaskBits == \A left \in 1 .. 7 : Bits(Mask(left)) = 8 - left .. 7
<1>1. /\ Mask(1) = 128 /\ Mask(2) = 192 /\ Mask(3) = 224 /\ Mask(4) = 240
      /\ Mask(5) = 248 /\ Mask(6) = 252 /\ Mask(7) = 254
    BY SmallPowers DEF Mask
<1>2. ASSUME NEW left \in 1 .. 7, NEW b \in 0 .. 7
      PROVE  b \in Bits(Mask(left)) <=> b >= 8 - left
    <2>1. Mask(left) \in Nat
        BY <1>1
    <2> QED
        BY <1>1, <2>1, BitsAre
<1>3. ASSUME NEW left \in 1 .. 7 PROVE Bits(Mask(left)) = 8 - left .. 7
    <2>1. Bits(Mask(left)) \subseteq 0 .. 7 /\ 8 - left .. 7 \subseteq 0 .. 7
        BY DEF Bits
    <2>2. \A b \in 0 .. 7 : b \in 8 - left .. 7 <=> b >= 8 - left
        OBVIOUS
    <2> QED
        BY <1>2, <2>1, <2>2
<1> QED
    BY <1>3

\* A byte passes if none of its one bits is among those that are still to be zero.
LEMMA PassesIfZeros ==
    ASSUME NEW byte \in Byte, NEW left \in Nat
    PROVE  BytePasses(byte, left) <=> \A b \in Bits(byte) : left <= 7 - b
<1>1. Bits(byte) \subseteq 0 .. 7
    BY DEF Bits
<1>2. CASE left = 0
    BY <1>1, <1>2 DEF BytePasses
<1>3. CASE left >= 8
    <2>1. BytePasses(byte, left) <=> Bits(byte) = {}
        BY <1>3, NoBits DEF BytePasses
    <2>2. \A b \in 0 .. 7 : ~ (left <= 7 - b)
        BY <1>3
    <2> QED
        BY <1>1, <2>1, <2>2
<1>4. CASE left \in 1 .. 7
    <2>1. BytePasses(byte, left) <=> Bits(byte) \cap (8 - left .. 7) = {}
        BY <1>4, MaskBits DEF BytePasses
    <2>2. \A b \in 0 .. 7 : b \in 8 - left .. 7 <=> ~ (left <= 7 - b)
        BY <1>4
    <2> QED
        BY <1>1, <2>1, <2>2
<1> QED
    BY <1>2, <1>3, <1>4

\* The places of the one bits of a hash, its first bit being 0.
OneBits(hash) == UNION {{8 * (i - 1) + 7 - b : b \in Bits(hash[i])} : i \in DOMAIN hash}

\* They are places of the hash.
LEMMA OneBitsAre ==
    ASSUME NEW hash \in Seq(Byte)
    PROVE  \A place \in OneBits(hash) : place \in 0 .. 8 * Len(hash) - 1
<1>1. ASSUME NEW i \in 1 .. Len(hash), NEW b \in Bits(hash[i])
      PROVE  8 * (i - 1) + 7 - b \in 0 .. 8 * Len(hash) - 1
    <2>1. b \in 0 .. 7
        BY DEF Bits
    <2>2. Len(hash) \in Nat
        OBVIOUS
    <2> QED
        BY <2>1, <2>2
<1> QED
    BY <1>1 DEF OneBits

\* The loop over the bytes asks for zeros in the first `bits' places.
LEMMA MeetsIfZeros ==
    ASSUME NEW hash \in Seq(Byte), NEW bits \in Nat
    PROVE  meets_difficulty(hash, bits) <=> \A place \in OneBits(hash) : bits <= place
<1> DEFINE Left(i) == IF bits > 8 * (i - 1) THEN bits - 8 * (i - 1) ELSE 0
<1>1. DOMAIN hash = 1 .. Len(hash) /\ \A i \in 1 .. Len(hash) : hash[i] \in Byte
    OBVIOUS
<1>2. ASSUME NEW i \in 1 .. Len(hash)
      PROVE  BytePasses(hash[i], Left(i))
                <=> \A b \in Bits(hash[i]) : bits <= 8 * (i - 1) + 7 - b
    <2>1. Left(i) \in Nat
        OBVIOUS
    <2>2. ASSUME NEW b \in Bits(hash[i])
          PROVE  Left(i) <= 7 - b <=> bits <= 8 * (i - 1) + 7 - b
        <3>1. b \in 0 .. 7
            BY DEF Bits
        <3> QED
            BY <3>1
    <2> HIDE DEF Left
    <2>3. BytePasses(hash[i], Left(i)) <=> \A b \in Bits(hash[i]) : Left(i) <= 7 - b
        BY <1>1, <2>1, PassesIfZeros
    <2> QED
        BY <2>2, <2>3
<1>3. meets_difficulty(hash, bits) <=> \A i \in 1 .. Len(hash) : BytePasses(hash[i], Left(i))
    BY <1>1 DEF meets_difficulty
<1> HIDE DEF Left
<1>4. (\A place \in OneBits(hash) : bits <= place)
         <=> \A i \in 1 .. Len(hash) : \A b \in Bits(hash[i]) : bits <= 8 * (i - 1) + 7 - b
    BY <1>1 DEF OneBits
<1> QED
    BY <1>2, <1>3, <1>4

\* The difficulty test counts leading zeros, at every difficulty and for every hash.
LEMMA CountingIsRight ==
    ASSUME NEW hash \in Seq(Byte)
    PROVE  CountsLeadingZeros(hash, Nat)
<1> DEFINE zeros == LeadingZeros(hash)
<1>1. zeros = IF OneBits(hash) = {} THEN 8 * Len(hash) ELSE Min(OneBits(hash))
    BY DEF LeadingZeros, OneBits
<1>2. Len(hash) \in Nat
    OBVIOUS
<1>3. CASE OneBits(hash) = {}
    <2>1. zeros = 8 * Len(hash)
        BY <1>1, <1>3
    <2>2. \A bits \in Nat : meets_difficulty(hash, bits)
        BY <1>3, MeetsIfZeros
    <2> QED
        BY <2>1, <2>2 DEF CountsLeadingZeros
<1>4. CASE OneBits(hash) # {}
    <2>1. OneBits(hash) \in SUBSET Nat
        BY <1>2, OneBitsAre
    <2>2. zeros \in OneBits(hash) /\ \A place \in OneBits(hash) : zeros <= place
        <3>1. zeros = CHOOSE x \in OneBits(hash) : \A y \in OneBits(hash) : x <= y
            BY <1>1, <1>4 DEF Min
        <3>2. \E x \in OneBits(hash) : \A y \in OneBits(hash) : x <= y
            BY <1>4, <2>1, LeastElement
        <3> HIDE DEF zeros
        <3> QED
            BY <3>1, <3>2
    <2> HIDE DEF zeros
    <2>3. zeros \in Nat /\ zeros < 8 * Len(hash)
        BY <1>2, <2>2, OneBitsAre
    <2>4. ASSUME NEW bits \in Nat
          PROVE  meets_difficulty(hash, bits) <=> bits <= zeros
        <3>1. meets_difficulty(hash, bits) <=> \A place \in OneBits(hash) : bits <= place
            BY MeetsIfZeros
        <3> QED
            BY <2>1, <2>2, <2>3, <3>1
    <2>5. zeros # 8 * Len(hash)
        BY <1>2, <2>3
    <2> QED
        BY <2>4, <2>5 DEF CountsLeadingZeros, zeros
<1> QED
    BY <1>3, <1>4

-----------------------------------------------------------------------------
(* Pieces put together.                                                    *)

\* FlattenSeq puts one piece after the other: parts[i] is the first i of them.
PartsOf(seqs, parts) ==
    /\ parts[0] = <<>>
    /\ \A i \in 1 .. Len(seqs) : parts[i] = parts[i - 1] \o seqs[i]
    /\ FlattenSeq(seqs) = parts[Len(seqs)]

\* The parts exist.
LEMMA FlattenInParts ==
    ASSUME NEW S, NEW seqs \in Seq(Seq(S))
    PROVE  \E parts \in [0 .. Len(seqs) -> Seq(S)] : PartsOf(seqs, parts)
<1> DEFINE n == Len(seqs)
<1>1. n \in Nat /\ seqs \in [1 .. n -> Seq(S)] /\ <<>> \in Seq(S)
    OBVIOUS
<1> DEFINE step == [i \in 1 .. n |-> [acc \in Seq(S) |-> acc \o seqs[i]]]
<1>2. step \in [1 .. n -> [Seq(S) -> Seq(S)]]
    <2>1. ASSUME NEW i \in 1 .. n, NEW acc \in Seq(S) PROVE acc \o seqs[i] \in Seq(S)
        BY <1>1, ConcatProperties
    <2> QED
        BY <2>1
<1>3. PICK parts \in [0 .. n -> Seq(S)] :
            parts[0] = <<>> /\ \A i \in 1 .. n : parts[i] = step[i][parts[i - 1]]
    <2> DEFINE Values == Seq(S)
               first == <<>>
    <2>1. n \in Nat /\ first \in Values /\ step \in [1 .. n -> [Values -> Values]]
        BY <1>1, <1>2
    <2> HIDE DEF step, n, Values, first
    <2>2. \E f \in [0 .. n -> Values] : Follows(f, n, first, step)
        BY <2>1, PrimitiveRecursion
    <2> QED
        BY <2>2 DEF Values, first, Follows
<1>4. ASSUME NEW i \in 1 .. n PROVE parts[i] = parts[i - 1] \o seqs[i]
    <2>1. i - 1 \in 0 .. n
        BY <1>1
    <2>2. parts[i - 1] \in Seq(S)
        BY <1>3, <2>1
    <2>3. step[i][parts[i - 1]] = parts[i - 1] \o seqs[i]
        BY <2>2
    <2> QED
        BY <1>3, <2>3
<1>5. FlattenSeq(seqs) = parts[n]
    <2>1. CASE n = 0
        <3>1. seqs = <<>> /\ FlattenSeq(seqs) = seqs
            BY <2>1 DEF FlattenSeq
        <3> QED
            BY <1>3, <2>1, <3>1
    <2>2. CASE n # 0
        <3> DEFINE flatten[i \in 1 .. Len(seqs)] ==
                IF i = 1 THEN seqs[i] ELSE flatten[i - 1] \o seqs[i]
        <3>1. FlattenSeq(seqs) = flatten[n]
            BY <2>2, Zenon DEF FlattenSeq
        <3> DEFINE tail == [i \in 1 .. n |-> parts[i]]
        <3>2. tail = [i \in 1 .. n |-> IF i = 1 THEN seqs[i] ELSE tail[i - 1] \o seqs[i]]
            <4>1. ASSUME NEW i \in 1 .. n
                  PROVE  parts[i] = IF i = 1 THEN seqs[i] ELSE tail[i - 1] \o seqs[i]
                <5>1. CASE i = 1
                    <6>1. parts[1] = parts[0] \o seqs[1] /\ seqs[1] \in Seq(S)
                        BY <1>1, <1>4, <5>1
                    <6> QED
                        BY <1>3, <5>1, <6>1, ConcatEmptySeq
                <5>2. CASE i # 1
                    BY <1>1, <1>4, <5>2
                <5> QED
                    BY <5>1, <5>2
            <4> QED
                BY <4>1
        <3> HIDE DEF tail
        <3>3. flatten = [i \in 1 .. n |-> IF i = 1 THEN seqs[i] ELSE flatten[i - 1] \o seqs[i]]
            BY <3>2, Zenon
        <3> HIDE DEF flatten
        <3> DEFINE Same == {i \in 0 .. n : i = 0 \/ flatten[i] = parts[i]}
        <3>4. 0 \in Same
            BY <1>1
        <3>5. ASSUME NEW i \in 0 .. n, i < n, i \in Same PROVE i + 1 \in Same
            <4>1. i + 1 \in 1 .. n /\ i + 1 \in 0 .. n /\ (i + 1) - 1 = i
                BY <1>1, <3>5
            <4>2. parts[i + 1] = parts[i] \o seqs[i + 1]
                BY <1>4, <4>1
            <4>3. flatten[i + 1] = IF i = 0 THEN seqs[i + 1] ELSE flatten[i] \o seqs[i + 1]
                <5> DEFINE j == i + 1
                <5>1. j \in 1 .. n /\ j - 1 = i /\ (j = 1 <=> i = 0)
                    BY <4>1
                <5> HIDE DEF j
                <5>2. flatten[j] = IF j = 1 THEN seqs[j] ELSE flatten[j - 1] \o seqs[j]
                    BY <3>3, <5>1
                <5>3. flatten[j] = IF i = 0 THEN seqs[j] ELSE flatten[i] \o seqs[j]
                    BY <5>1, <5>2
                <5> QED
                    BY <5>3 DEF j
            <4>4. CASE i = 0
                <5>1. parts[1] = seqs[1]
                    <6>1. parts[1] = parts[0] \o seqs[1] /\ seqs[1] \in Seq(S)
                        BY <1>1, <4>1, <4>2, <4>4
                    <6> QED
                        BY <1>3, <6>1, ConcatEmptySeq
                <5> QED
                    BY <4>1, <4>3, <4>4, <5>1
            <4>5. CASE i # 0
                BY <3>5, <4>1, <4>2, <4>3, <4>5
            <4> QED
                BY <4>4, <4>5
        <3>6. n \in Same
            <4>1. n \in Nat /\ n \in 0 .. n
                BY <1>1
            <4> HIDE DEF Same, n
            <4>2. \A i \in 0 .. n : i \in Same
                BY <3>4, <3>5, <4>1, BoundedInduction
            <4> QED
                BY <4>1, <4>2
        <3> QED
            BY <2>2, <3>1, <3>6
    <2> QED
        BY <2>1, <2>2
<1> QED
    BY <1>3, <1>4, <1>5 DEF PartsOf

\* Pieces of two: piece i is at 2i - 1 and 2i.
LEMMA PairsInARow ==
    ASSUME NEW S, NEW seqs \in Seq(Seq(S)), \A i \in 1 .. Len(seqs) : Len(seqs[i]) = 2
    PROVE  /\ FlattenSeq(seqs) \in Seq(S)
           /\ Len(FlattenSeq(seqs)) = 2 * Len(seqs)
           /\ \A i \in 1 .. Len(seqs) : /\ FlattenSeq(seqs)[2 * i - 1] = seqs[i][1]
                                        /\ FlattenSeq(seqs)[2 * i] = seqs[i][2]
<1> DEFINE n == Len(seqs)
<1>1. n \in Nat /\ \A i \in 1 .. n : seqs[i] \in Seq(S) /\ Len(seqs[i]) = 2
    OBVIOUS
<1>2. PICK parts \in [0 .. n -> Seq(S)] : PartsOf(seqs, parts)
    BY FlattenInParts
<1> DEFINE Holds(k) ==
        /\ Len(parts[k]) = 2 * k
        /\ \A i \in 1 .. k : parts[k][2 * i - 1] = seqs[i][1] /\ parts[k][2 * i] = seqs[i][2]
<1> DEFINE Done == {k \in 0 .. n : Holds(k)}
<1>3. 0 \in Done
    <2>1. parts[0] = <<>>
        BY <1>2 DEF PartsOf
    <2> QED
        BY <1>1, <2>1, EmptySeq
<1>4. ASSUME NEW k \in 0 .. n, k < n, k \in Done PROVE k + 1 \in Done
    <2> DEFINE j == k + 1
               old == parts[k]
               new == parts[j]
               piece == seqs[j]
    <2>1. j \in 1 .. n /\ j \in 0 .. n /\ j - 1 = k /\ k \in Nat
        BY <1>1, <1>4
    <2>2. new = old \o piece
        BY <1>2, <2>1 DEF PartsOf
    <2>3. old \in Seq(S) /\ piece \in Seq(S) /\ Len(piece) = 2 /\ Len(old) = 2 * k
        BY <1>1, <1>2, <1>4, <2>1
    <2>4. \A i \in 1 .. k : old[2 * i - 1] = seqs[i][1] /\ old[2 * i] = seqs[i][2]
        BY <1>4
    <2> HIDE DEF old, new, piece, Done, n
    <2>5. /\ Len(new) = Len(old) + 2
          /\ \A i \in 1 .. Len(old) + 2 :
                new[i] = IF i <= Len(old) THEN old[i] ELSE piece[i - Len(old)]
        <3>1. /\ Len(old \o piece) = Len(old) + Len(piece)
              /\ \A i \in 1 .. Len(old) + Len(piece) :
                    (old \o piece)[i] = IF i <= Len(old) THEN old[i] ELSE piece[i - Len(old)]
            BY <2>3, ConcatProperties
        <3> QED
            BY <2>2, <2>3, <3>1
    <2> DEFINE m == 2 * k
    <2>9. m \in Nat /\ Len(old) = m
        BY <2>1, <2>3
    <2>6. ASSUME NEW i \in 1 .. k
          PROVE  new[2 * i - 1] = seqs[i][1] /\ new[2 * i] = seqs[i][2]
        <3> DEFINE first == 2 * i - 1
                   second == 2 * i
        <3>1. first \in 1 .. m /\ second \in 1 .. m
            BY <2>1
        <3>2. old[first] = seqs[i][1] /\ old[second] = seqs[i][2]
            BY <2>4
        <3> HIDE DEF first, second, m
        <3>3. new[first] = old[first] /\ new[second] = old[second]
            BY <2>5, <2>9, <3>1
        <3> QED
            BY <3>2, <3>3 DEF first, second
    <2>7. new[2 * j - 1] = piece[1] /\ new[2 * j] = piece[2]
        <3>1. 2 * j - 1 = m + 1 /\ 2 * j = m + 2
            BY <2>1
        <3> HIDE DEF m
        <3>2. new[m + 1] = piece[1]
            <4> DEFINE i == m + 1
            <4>1. i \in 1 .. Len(old) + 2 /\ ~ (i <= Len(old)) /\ i - Len(old) = 1
                BY <2>9
            <4> HIDE DEF i
            <4>2. new[i] = piece[1]
                BY <2>5, <4>1
            <4> QED
                BY <4>2 DEF i
        <3>3. new[m + 2] = piece[2]
            <4> DEFINE i == m + 2
            <4>1. i \in 1 .. Len(old) + 2 /\ ~ (i <= Len(old)) /\ i - Len(old) = 2
                BY <2>9
            <4> HIDE DEF i
            <4>2. new[i] = piece[2]
                BY <2>5, <4>1
            <4> QED
                BY <4>2 DEF i
        <3> QED
            BY <3>1, <3>2, <3>3
    <2>8. Holds(j)
        <3>1. Len(new) = 2 * j
            BY <2>1, <2>5, <2>9
        <3>2. ASSUME NEW i \in 1 .. j
              PROVE  new[2 * i - 1] = seqs[i][1] /\ new[2 * i] = seqs[i][2]
            <4>1. CASE i \in 1 .. k
                BY <2>6, <4>1
            <4>2. CASE i = j
                BY <2>7, <4>2 DEF piece
            <4> QED
                BY <2>1, <4>1, <4>2
        <3> QED
            BY <3>1, <3>2 DEF new
    <2> QED
        BY <2>1, <2>8 DEF Done
<1>5. n \in Done
    <2>1. n \in Nat /\ n \in 0 .. n
        BY <1>1
    <2> HIDE DEF Done, n
    <2>2. \A k \in 0 .. n : k \in Done
        BY <1>3, <1>4, <2>1, BoundedInduction
    <2> QED
        BY <2>1, <2>2
<1>6. parts[n] \in Seq(S) /\ FlattenSeq(seqs) = parts[n]
    BY <1>1, <1>2 DEF PartsOf
<1> QED
    BY <1>5, <1>6

-----------------------------------------------------------------------------
(* The forms of a hash and of a nonce.                                     *)

\* What is printed of a hash is all of it.
LEMMA PrintingIsFaithful == ASSUME NEW hash \in Seq(Byte) PROVE HexIsFaithful(hash)
<1> DEFINE n == Len(hash)
           seqs == [i \in DOMAIN hash |-> HexOfByte(hash[i])]
           hex == FlattenSeq(seqs)
           back == hex_to_bytes(hash_to_hex(hash))
<1>1. n \in Nat /\ DOMAIN hash = 1 .. n /\ hash = [i \in 1 .. n |-> hash[i]]
    OBVIOUS
<1>2. ASSUME NEW i \in 1 .. n
      PROVE  /\ HexOfByte(hash[i]) \in Seq(0 .. 15) /\ Len(HexOfByte(hash[i])) = 2
             /\ 16 * HexOfByte(hash[i])[1] + HexOfByte(hash[i])[2] = hash[i]
    <2> DEFINE byte == hash[i]
    <2>1. byte \in 0 .. 255
        <3>1. byte \in Byte
            BY <1>1
        <3> QED
            BY <3>1 DEF Byte
    <2> HIDE DEF byte
    <2>2. byte \div 16 \in 0 .. 15 /\ byte % 16 \in 0 .. 15
        BY <2>1
    <2>3. 16 * (byte \div 16) + (byte % 16) = byte
        BY <2>1
    <2> QED
        BY <2>2, <2>3 DEF HexOfByte, byte
<1>3. seqs \in Seq(Seq(0 .. 15)) /\ Len(seqs) = n
    BY <1>1, <1>2
<1>4. \A i \in 1 .. n : seqs[i] = HexOfByte(hash[i]) /\ Len(seqs[i]) = 2
    BY <1>1, <1>2
<1> HIDE DEF seqs
<1>5. /\ hex \in Seq(0 .. 15) /\ Len(hex) = 2 * n
      /\ \A i \in 1 .. n : hex[2 * i - 1] = seqs[i][1] /\ hex[2 * i] = seqs[i][2]
    BY <1>3, <1>4, PairsInARow
<1>6. back = [i \in 1 .. (Len(hex) + 1) \div 2 |->
                 IF 2 * i <= Len(hex) THEN 16 * hex[2 * i - 1] + hex[2 * i] ELSE hex[2 * i - 1]]
    BY DEF hex_to_bytes, hash_to_hex, seqs
<1> HIDE DEF hex, back, n
<1>7. (2 * n + 1) \div 2 = n
    BY <1>1
<1>8. ASSUME NEW i \in 1 .. n PROVE back[i] = hash[i]
    <2>1. i \in 1 .. (Len(hex) + 1) \div 2 /\ 2 * i <= Len(hex)
        BY <1>1, <1>5, <1>7
    <2>2. back[i] = 16 * hex[2 * i - 1] + hex[2 * i]
        BY <1>6, <2>1
    <2> QED
        BY <1>2, <1>4, <1>5, <2>2
<1>9. back = [i \in 1 .. n |-> back[i]]
    BY <1>5, <1>6, <1>7
<1> QED
    BY <1>1, <1>8, <1>9 DEF HexIsFaithful, back

\* Two hexadecimal digits of a number are a byte of it.
LEMMA DigitsOfByte ==
    ASSUME NEW nonce \in Nat, NEW m \in Nat
    PROVE  16 * ((nonce \div 2^(m + 4)) % 16) + ((nonce \div 2^m) % 16)
              = (nonce \div 2^m) % 256
<1> DEFINE x == nonce \div 2^m
<1>1. x \in Nat
    BY PowerPositive, DivisionIs
<1>2. nonce \div 2^(m + 4) = x \div 16
    <2>1. (nonce \div 2^m) \div 2^4 = nonce \div 2^(m + 4)
        BY ShiftTwice
    <2> QED
        BY <2>1, SmallPowers
<1> HIDE DEF x
<1>3. 16 * ((x \div 16) % 16) + (x % 16) = x % 256
    BY <1>1
<1> QED
    BY <1>2, <1>3 DEF x

\* What is submitted of a nonce is the nonce whose bytes were hashed.
LEMMA SubmittingIsFaithful == ASSUME NEW nonce \in Nat PROVE SubmitsHashedNonce(nonce)
<1> DEFINE hex == nonce_to_hex(nonce)
           bytes == NonceBytes(nonce)
<1>1. /\ Len(hex) = 8
      /\ \A i \in 1 .. 8 : hex[i] = (nonce \div 2^(4 * (8 - i))) % 16
    BY DEF nonce_to_hex
<1>2. /\ Len(bytes) = 4
      /\ \A i \in 1 .. 4 : bytes[i] = (nonce \div 2^(8 * (i - 1))) % 256
    BY DEF NonceBytes
<1> HIDE DEF hex, bytes
<1>3. hex_to_bytes(hex) = [i \in 1 .. 4 |-> 16 * hex[2 * i - 1] + hex[2 * i]]
    BY <1>1 DEF hex_to_bytes
<1>4. Reverse(bytes) = [i \in 1 .. 4 |-> bytes[5 - i]]
    BY <1>2 DEF Reverse
<1>5. ASSUME NEW i \in 1 .. 4 PROVE 16 * hex[2 * i - 1] + hex[2 * i] = bytes[5 - i]
    <2> DEFINE m == 8 * (4 - i)
               first == 2 * i - 1
               second == 2 * i
               place == 5 - i
    <2>1. /\ m \in Nat /\ first \in 1 .. 8 /\ second \in 1 .. 8 /\ place \in 1 .. 4
          /\ 4 * (8 - first) = m + 4 /\ 4 * (8 - second) = m /\ 8 * (place - 1) = m
        OBVIOUS
    <2> HIDE DEF m, first, second, place
    <2>2. hex[first] = (nonce \div 2^(m + 4)) % 16
        <3>1. hex[first] = (nonce \div 2^(4 * (8 - first))) % 16
            BY <1>1, <2>1
        <3> QED
            BY <2>1, <3>1, Zenon
    <2>3. hex[second] = (nonce \div 2^m) % 16
        <3>1. hex[second] = (nonce \div 2^(4 * (8 - second))) % 16
            BY <1>1, <2>1
        <3> QED
            BY <2>1, <3>1, Zenon
    <2>4. bytes[place] = (nonce \div 2^m) % 256
        <3>1. bytes[place] = (nonce \div 2^(8 * (place - 1))) % 256
            BY <1>2, <2>1
        <3> QED
            BY <2>1, <3>1, Zenon
    <2>5. 16 * ((nonce \div 2^(m + 4)) % 16) + ((nonce \div 2^m) % 16)
             = (nonce \div 2^m) % 256
        <3>1. m \in Nat
            BY <2>1
        <3> QED
            BY <3>1, DigitsOfByte, Zenon
    <2>6. 16 * hex[first] + hex[second] = bytes[place]
        BY <2>2, <2>3, <2>4, <2>5, Zenon
    <2> QED
        BY <2>6 DEF first, second, place
<1>6. hex_to_bytes(hex) = Reverse(bytes)
    BY <1>3, <1>4, <1>5, Zenon
<1> QED
    BY <1>6 DEF SubmitsHashedNonce, hex, bytes

-----------------------------------------------------------------------------
(* The padding of sha256.                                                  *)

\* The blocks end where the marker, the least number of zeros and the length do.
LEMMA TotalLenIs ==
    ASSUME NEW len \in Nat
    PROVE  /\ TotalLen(len) \in Nat /\ TotalLen(len) % 64 = 0
           /\ TotalLen(len) - len - 9 \in 0 .. 63
           /\ TotalLen(len) - len - 9 = CHOOSE k \in 0 .. 63 : (len + 1 + k) % 64 = 56
<1> DEFINE total == TotalLen(len)
           zeros == total - len - 9
           q == (len + 72) \div 64
<1>1. q \in Nat /\ 64 * q <= len + 72 /\ len + 72 < 64 * q + 64
    OBVIOUS
<1>2. total = 64 * q
    BY DEF TotalLen
<1> HIDE DEF total, q
<1>3. total \in Nat /\ total % 64 = 0 /\ zeros \in 0 .. 63
    BY <1>1, <1>2
<1>4. (len + 1 + zeros) % 64 = 56
    <2>1. len + 1 + zeros = 64 * (q - 1) + 56
        BY <1>1, <1>2
    <2> QED
        BY <1>1, <2>1
<1>5. ASSUME NEW k \in 0 .. 63, (len + 1 + k) % 64 = 56 PROVE k = zeros
    BY <1>3, <1>4, <1>5
<1> HIDE DEF zeros
<1>6. zeros = CHOOSE k \in 0 .. 63 : (len + 1 + k) % 64 = 56
    BY <1>3, <1>4, <1>5
<1> QED
    BY <1>3, <1>6 DEF zeros, total

\* The eight last bytes of a padded message are its number of bits, the highest first.
LEMMA LengthBytesAre ==
    ASSUME NEW len \in Nat, NEW i \in Nat
    PROVE  LengthByte(len, i) = ((8 * len) \div 2^(8 * i)) % 256
<1> DEFINE m == 4 * i
           x == 8 * len
<1>1. m \in Nat /\ x \in Nat /\ m + m = 8 * i
    OBVIOUS
<1>2. LengthByte(len, i) = ((x \div 2^m) \div 2^m) % 256
    BY DEF LengthByte
<1> HIDE DEF m, x
<1>3. (x \div 2^m) \div 2^m = x \div 2^(m + m)
    BY <1>1, ShiftTwice
<1> QED
    BY <1>1, <1>2, <1>3 DEF x

\* A message of less than 2^61 bytes has less than 2^64 bits.
LEMMA BitsFit ==
    ASSUME NEW len \in Nat, (len \div 2^30) \div 2^30 < 2
    PROVE  (8 * len) \div 2^64 = 0
<1> DEFINE p == 2^60
<1>1. (len \div 2^30) \div 2^30 = len \div p
    <2> DEFINE m == 30
               n == 60
    <2>1. m \in Nat /\ m + m = n
        OBVIOUS
    <2> HIDE DEF m, n
    <2>2. (len \div 2^m) \div 2^m = len \div 2^n
        BY <2>1, ShiftTwice
    <2> QED
        BY <2>2, Zenon DEF m, n
<1>2. p \in Nat \ {0}
    BY PowerPositive
<1>3. 2^64 = 16 * p
    <2> DEFINE m == 60
               n == 4
               s == 64
    <2>1. m \in Nat /\ n \in Nat /\ m + n = s
        OBVIOUS
    <2> HIDE DEF m, n, s
    <2>2. 2^s = 2^m * 2^n
        BY <2>1, PowerOfSum
    <2>3. 2^s = p * 2^n
        BY <2>2 DEF m
    <2>4. 2^n = 16
        BY SmallPowers DEF n
    <2>5. 2^s = p * 16
        BY <2>3, <2>4
    <2> HIDE DEF p
    <2>6. p * 16 = 16 * p
        BY <1>2
    <2> QED
        BY <2>5, <2>6, Zenon DEF s
<1> HIDE DEF p
<1>4. len < 2 * p
    <2> DEFINE q == len \div p
    <2>1. q \in Nat /\ q < 2 /\ len < p * q + p
        BY <1>1, <1>2, DivisionIs
    <2> HIDE DEF q
    <2>2. q = 0 \/ q = 1
        BY <2>1
    <2> QED
        BY <1>2, <2>1, <2>2
<1> DEFINE a == 16 * p
           x == 8 * len
<1>5. a \in Nat \ {0} /\ x \in 0 .. a - 1 /\ a * 0 + x = x
    BY <1>2, <1>4
<1> HIDE DEF a, x
<1>6. x \div a = 0
    BY <1>5, DivisionUnique
<1> QED
    BY <1>3, <1>6 DEF a, x

\* What the eight elements behind start are as one number.
ReadsAs(padded, start, number) ==
    LET value[i \in 0 .. 8] == IF i = 0 THEN 0 ELSE 256 * value[i - 1] + padded[start + i]
    IN value[8] = number

\* Put together, those eight bytes are the number of bits.
LEMMA LengthIsRead ==
    ASSUME NEW len \in Nat, (len \div 2^30) \div 2^30 < 2, NEW padded, NEW start,
           \A i \in 1 .. 8 : padded[start + i] = LengthByte(len, 8 - i)
    PROVE  ReadsAs(padded, start, 8 * len)
<1> DEFINE value[i \in 0 .. 8] ==
               IF i = 0 THEN 0 ELSE 256 * value[i - 1] + padded[start + i]
           bits == 8 * len
           known == [i \in 0 .. 8 |-> bits \div 2^(8 * (8 - i))]
<1>1. bits \in Nat
    OBVIOUS
<1>2. bits \div 2^(8 * (8 - 0)) = 0
    <2>1. bits \div 2^64 = 0
        BY BitsFit
    <2>2. 8 * (8 - 0) = 64
        OBVIOUS
    <2> QED
        BY <2>1, <2>2, Zenon
<1>3. bits \div 2^(8 * (8 - 8)) = bits
    <2>1. 8 * (8 - 8) = 0
        OBVIOUS
    <2>2. bits \div 1 = bits
        OBVIOUS
    <2> HIDE DEF bits
    <2> QED
        BY <2>1, <2>2, PowerOfZero, Zenon
<1> HIDE DEF bits
<1>4. ASSUME NEW i \in 1 .. 8
      PROVE  bits \div 2^(8 * (8 - i))
                = 256 * (bits \div 2^(8 * (8 - (i - 1)))) + padded[start + i]
    <2> DEFINE m == 8 * (8 - i)
               n == 8 * (8 - (i - 1))
               x == bits \div 2^m
    <2>1. m \in Nat /\ m + 8 = n /\ 8 - i \in Nat
        OBVIOUS
    <2>2. padded[start + i] = (bits \div 2^m) % 256
        <3>1. LengthByte(len, 8 - i) = ((8 * len) \div 2^(8 * (8 - i))) % 256
            <4> DEFINE k == 8 - i
            <4>1. k \in Nat /\ len \in Nat
                BY <2>1
            <4> HIDE DEF k
            <4>2. LengthByte(len, k) = ((8 * len) \div 2^(8 * k)) % 256
                BY <4>1, LengthBytesAre, ZenonT(20)
            <4> QED
                BY <4>2 DEF k
        <3>2. padded[start + i] = LengthByte(len, 8 - i)
            OBVIOUS
        <3> QED
            BY <3>1, <3>2, Zenon DEF bits
    <2> HIDE DEF m, n
    <2>3. x \div 2^8 = bits \div 2^n
        <3> DEFINE eight == 8
        <3>1. eight \in Nat /\ m + eight = n /\ m \in Nat
            BY <2>1
        <3> HIDE DEF eight
        <3>2. (bits \div 2^m) \div 2^eight = bits \div 2^(m + eight)
            BY <1>1, <3>1, ShiftTwice, Zenon
        <3> QED
            BY <3>1, <3>2, Zenon DEF eight
    <2>4. x \in Nat
        BY <1>1, <2>1, PowerPositive, DivisionIs
    <2> HIDE DEF x
    <2>5. x = 256 * (x \div 256) + (x % 256)
        BY <2>4
    <2>6. x = 256 * (bits \div 2^n) + padded[start + i]
        BY <2>2, <2>3, <2>5, SmallPowers DEF x
    <2> QED
        BY <2>6 DEF x, m, n
<1>5. known = [i \in 0 .. 8 |-> IF i = 0 THEN 0 ELSE 256 * known[i - 1] + padded[start + i]]
    <2>1. ASSUME NEW i \in 0 .. 8
          PROVE  known[i] = IF i = 0 THEN 0 ELSE 256 * known[i - 1] + padded[start + i]
        <3>1. CASE i = 0
            BY <1>2, <3>1
        <3>2. CASE i \in 1 .. 8
            <4>1. i - 1 \in 0 .. 8
                BY <3>2
            <4>2. known[i - 1] = bits \div 2^(8 * (8 - (i - 1)))
                BY <4>1
            <4>3. known[i] = bits \div 2^(8 * (8 - i))
                BY <3>2
            <4>4. bits \div 2^(8 * (8 - i))
                     = 256 * (bits \div 2^(8 * (8 - (i - 1)))) + padded[start + i]
                BY <1>4, <3>2
            <4> HIDE DEF known
            <4>5. i # 0
                BY <3>2
            <4> QED
                BY <4>2, <4>3, <4>4, <4>5, Zenon
        <3> QED
            BY <3>1, <3>2
    <2> QED
        BY <2>1
<1>6. known[8] = bits
    BY <1>3
<1> HIDE DEF known
<1>7. value = [i \in 0 .. 8 |-> IF i = 0 THEN 0 ELSE 256 * value[i - 1] + padded[start + i]]
    BY <1>5, ZenonT(30)
<1> HIDE DEF value
<1> DEFINE Same == {i \in 0 .. 8 : value[i] = known[i]}
<1>8. 0 \in Same
    BY <1>5, <1>7
<1>9. ASSUME NEW i \in 0 .. 8, i < 8, i \in Same PROVE i + 1 \in Same
    <2> DEFINE j == i + 1
    <2>1. j \in 0 .. 8 /\ j # 0 /\ j - 1 = i
        BY <1>9
    <2> HIDE DEF j
    <2>2. /\ value[j] = 256 * value[j - 1] + padded[start + j]
          /\ known[j] = 256 * known[j - 1] + padded[start + j]
        BY <1>5, <1>7, <2>1
    <2>3. value[j] = known[j]
        BY <1>9, <2>1, <2>2
    <2> QED
        BY <2>1, <2>3 DEF j
<1> HIDE DEF Same
<1>10. \A i \in 0 .. 8 : i \in Same
    BY <1>8, <1>9, BoundedInduction
<1>11. value[8] = known[8]
    BY <1>10 DEF Same
<1> QED
    BY <1>6, <1>11, Zenon DEF ReadsAs, bits, value

\* Which of four sequences in a row an element comes from.
FourParts(a, b, c, d, all) ==
    /\ Len(all) = Len(a) + Len(b) + Len(c) + Len(d)
    /\ \A i \in 1 .. Len(a) + Len(b) + Len(c) + Len(d) :
          all[i] = IF i <= Len(a) THEN a[i]
                   ELSE IF i <= Len(a) + Len(b) THEN b[i - Len(a)]
                   ELSE IF i <= Len(a) + Len(b) + Len(c) THEN c[i - (Len(a) + Len(b))]
                   ELSE d[i - (Len(a) + Len(b) + Len(c))]

\* It does come from there.
LEMMA FourInARow ==
    ASSUME NEW S, NEW a \in Seq(S), NEW b \in Seq(S), NEW c \in Seq(S), NEW d \in Seq(S)
    PROVE  a \o b \o c \o d \in Seq(S) /\ FourParts(a, b, c, d, a \o b \o c \o d)
<1> DEFINE ab == a \o b
           abc == ab \o c
           abcd == abc \o d
<1>1. /\ ab \in Seq(S) /\ Len(ab) = Len(a) + Len(b)
      /\ \A i \in 1 .. Len(a) + Len(b) : ab[i] = IF i <= Len(a) THEN a[i] ELSE b[i - Len(a)]
    BY ConcatProperties
<1> HIDE DEF ab
<1>2. /\ abc \in Seq(S) /\ Len(abc) = Len(ab) + Len(c)
      /\ \A i \in 1 .. Len(ab) + Len(c) : abc[i] = IF i <= Len(ab) THEN ab[i] ELSE c[i - Len(ab)]
    <2>1. ab \in Seq(S)
        BY <1>1
    <2> QED
        BY <2>1, ConcatProperties
<1> HIDE DEF abc
<1>3. /\ abcd \in Seq(S) /\ Len(abcd) = Len(abc) + Len(d)
      /\ \A i \in 1 .. Len(abc) + Len(d) :
            abcd[i] = IF i <= Len(abc) THEN abc[i] ELSE d[i - Len(abc)]
    <2>1. abc \in Seq(S)
        BY <1>2
    <2> QED
        BY <2>1, ConcatProperties
<1> HIDE DEF abcd
<1>4. Len(a) \in Nat /\ Len(b) \in Nat /\ Len(c) \in Nat /\ Len(d) \in Nat
    OBVIOUS
<1>5. Len(abc) = Len(a) + Len(b) + Len(c)
    BY <1>1, <1>2
<1>6. ASSUME NEW i \in 1 .. Len(a) + Len(b) + Len(c) + Len(d)
      PROVE  abcd[i] = IF i <= Len(a) THEN a[i]
                       ELSE IF i <= Len(a) + Len(b) THEN b[i - Len(a)]
                       ELSE IF i <= Len(a) + Len(b) + Len(c) THEN c[i - (Len(a) + Len(b))]
                       ELSE d[i - (Len(a) + Len(b) + Len(c))]
    <2>1. abcd[i] = IF i <= Len(abc) THEN abc[i] ELSE d[i - Len(abc)]
        BY <1>3, <1>5
    <2>2. i <= Len(abc) => abc[i] = IF i <= Len(ab) THEN ab[i] ELSE c[i - Len(ab)]
        BY <1>1, <1>2, <1>4, <1>5
    <2>3. i <= Len(ab) => ab[i] = IF i <= Len(a) THEN a[i] ELSE b[i - Len(a)]
        BY <1>1, <1>4
    <2>4. (i <= Len(ab) => i <= Len(abc)) /\ (i <= Len(a) => i <= Len(ab))
        BY <1>1, <1>4, <1>5
    <2>5. Len(ab) = Len(a) + Len(b)
        BY <1>1
    <2> QED
        BY <1>5, <2>1, <2>2, <2>3, <2>4, <2>5, Zenon
<1>7. Len(abcd) = Len(a) + Len(b) + Len(c) + Len(d)
    BY <1>3, <1>5
<1>8. FourParts(a, b, c, d, abcd)
    BY <1>6, <1>7, Zenon DEF FourParts
<1> QED
    BY <1>3, <1>8 DEF abcd, abc, ab

\* A padded message is whole blocks of bytes.
LEMMA PaddedType ==
    ASSUME NEW data \in Seq(Byte)
    PROVE  Padded(data) \in Seq(Byte) /\ Len(Padded(data)) = TotalLen(Len(data))
<1> DEFINE len == Len(data)
           total == TotalLen(len)
           padded == Padded(data)
<1>1. len \in Nat /\ \A j \in 1 .. len : data[j] \in Byte
    OBVIOUS
<1>2. total \in Nat
    BY <1>1, TotalLenIs
<1>3. padded = [j \in 1 .. total |->
                   IF j > total - 8 THEN LengthByte(len, total - j)
                   ELSE IF j = len + 1 THEN 128
                   ELSE IF j <= len THEN data[j]
                   ELSE 0]
    BY DEF Padded
<1> HIDE DEF total, padded, len
<1>4. 0 \in Byte /\ 128 \in Byte
    BY DEF Byte
<1>5. ASSUME NEW j \in 1 .. total PROVE padded[j] \in Byte
    <2>1. CASE j > total - 8
        <3> DEFINE k == total - j
                   x == 8 * len
                   m == 8 * k
                   q == x \div 2^m
        <3>1. k \in Nat /\ m \in Nat /\ x \in Nat
            BY <1>1, <1>2
        <3>2. LengthByte(len, k) = q % 256
            BY <1>1, <3>1, LengthBytesAre
        <3> HIDE DEF k, x, m
        <3>3. q \in Nat
            BY <3>1, PowerPositive, DivisionIs
        <3> HIDE DEF q
        <3>4. q % 256 \in Byte
            BY <3>3 DEF Byte
        <3>5. LengthByte(len, total - j) \in Byte
            BY <3>2, <3>4 DEF k
        <3> QED
            BY <1>3, <2>1, <3>5
    <2>2. CASE ~ (j > total - 8)
        <3>1. j \in Nat
            BY <1>2
        <3> QED
            BY <1>1, <1>3, <1>4, <2>2, <3>1
    <2> QED
        BY <2>1, <2>2
<1>6. padded = [j \in 1 .. total |-> padded[j]] /\ Len(padded) = total
    BY <1>2, <1>3
<1>7. padded \in Seq(Byte)
    BY <1>2, <1>5, <1>6
<1> QED
    BY <1>6, <1>7 DEF padded, total, len

\* Padding is as the standard says, for every message with a bit length of 64 bits.
LEMMA PaddingIsRight ==
    ASSUME NEW data \in Seq(Byte), (Len(data) \div 2^30) \div 2^30 < 2
    PROVE  PaddingIsStandard(data)
<1> DEFINE len == Len(data)
           total == TotalLen(len)
           zeros == total - len - 9
           padded == Padded(data)
           gap == [i \in 1 .. zeros |-> 0]
           tail == SubSeq(padded, total - 7, total)
           joined == data \o <<128>> \o gap \o tail
<1>1. len \in Nat /\ \A j \in 1 .. len : data[j] \in Nat
    <2>1. len \in Nat /\ \A j \in 1 .. len : data[j] \in Byte
        OBVIOUS
    <2>2. Byte \subseteq Nat
        BY DEF Byte
    <2> HIDE DEF len
    <2> QED
        BY <2>1, <2>2
<1>2. total \in Nat /\ total % 64 = 0 /\ zeros \in 0 .. 63
    BY <1>1, TotalLenIs
<1>16. zeros = CHOOSE k \in 0 .. 63 : (len + 1 + k) % 64 = 56
    BY <1>1, TotalLenIs
<1>3. padded = [j \in 1 .. total |->
                   IF j > total - 8 THEN LengthByte(len, total - j)
                   ELSE IF j = len + 1 THEN 128
                   ELSE IF j <= len THEN data[j]
                   ELSE 0]
    BY DEF Padded
<1>4. data \in Seq(Nat)
    <2>1. data = [j \in 1 .. len |-> data[j]]
        OBVIOUS
    <2> HIDE DEF len
    <2> QED
        BY <1>1, <2>1
<1> HIDE DEF total, padded, len
<1>5. ASSUME NEW j \in 1 .. total PROVE padded[j] \in Nat
    <2>1. padded \in Seq(Byte) /\ Len(padded) = total
        BY PaddedType DEF padded, total, len
    <2>2. padded[j] \in Byte
        BY <2>1
    <2>3. Byte \subseteq Nat
        BY DEF Byte
    <2> QED
        BY <2>2, <2>3
<1>6. padded \in Seq(Nat) /\ Len(padded) = total
    BY <1>2, <1>3, <1>5
<1>7. /\ tail \in Seq(Nat) /\ Len(tail) = 8
      /\ \A i \in 1 .. 8 : tail[i] = padded[total - 8 + i]
    <2>1. total - 7 \in 1 .. total /\ total \in Int /\ total - 7 \in Int
        BY <1>1, <1>2
    <2> DEFINE m == total - 7
    <2>2. \A i \in m .. total : padded[i] \in Nat
        BY <1>5, <2>1
    <2>3. total - m + 1 = 8 /\ m <= total /\ m \in Int
        BY <1>2
    <2> HIDE DEF m
    <2>4. /\ SubSeq(padded, m, total) \in Seq(Nat)
          /\ Len(SubSeq(padded, m, total)) = IF m <= total THEN total - m + 1 ELSE 0
          /\ \A i \in 1 .. total - m + 1 : SubSeq(padded, m, total)[i] = padded[m + i - 1]
        BY <2>1, <2>2, <2>3, SubSeqProperties
    <2>5. \A i \in 1 .. 8 : m + i - 1 = total - 8 + i
        BY <1>2 DEF m
    <2> QED
        BY <2>3, <2>4, <2>5 DEF m
<1> HIDE DEF zeros
<1>8. gap \in Seq(Nat) /\ Len(gap) = zeros /\ \A i \in 1 .. zeros : gap[i] = 0
    BY <1>2
<1>9. <<128>> \in Seq(Nat) /\ Len(<<128>>) = 1 /\ <<128>>[1] = 128
    OBVIOUS
<1> HIDE DEF tail, gap
<1>10. len + 1 + zeros + 8 = total
    BY <1>1, <1>2 DEF zeros
<1>11. /\ joined \in Seq(Nat) /\ Len(joined) = len + 1 + zeros + 8
       /\ \A i \in 1 .. len + 1 + zeros + 8 :
             joined[i] = IF i <= len THEN data[i]
                         ELSE IF i <= len + 1 THEN <<128>>[i - len]
                         ELSE IF i <= len + 1 + zeros THEN gap[i - (len + 1)]
                         ELSE tail[i - (len + 1 + zeros)]
    <2> DEFINE one == <<128>>
    <2>1. len = Len(data)
        BY DEF len
    <2>2. one \in Seq(Nat) /\ Len(one) = 1
        OBVIOUS
    <2> HIDE DEF one
    <2>3. data \o one \o gap \o tail \in Seq(Nat) /\ FourParts(data, one, gap, tail, joined)
        <3>1. one \in Seq(Nat) /\ gap \in Seq(Nat) /\ tail \in Seq(Nat)
            BY <1>7, <1>8, <2>2
        <3>2. FourParts(data, one, gap, tail, data \o one \o gap \o tail)
              /\ data \o one \o gap \o tail \in Seq(Nat)
            BY <1>4, <3>1, FourInARow, Zenon
        <3> QED
            BY <3>2, Zenon DEF one
    <2>4. Len(gap) = zeros /\ Len(tail) = 8
        BY <1>7, <1>8
    <2> HIDE DEF joined
    <2>5. /\ Len(joined) = Len(data) + Len(one) + Len(gap) + Len(tail)
          /\ \A i \in 1 .. Len(data) + Len(one) + Len(gap) + Len(tail) :
                joined[i] = IF i <= Len(data) THEN data[i]
                            ELSE IF i <= Len(data) + Len(one) THEN one[i - Len(data)]
                            ELSE IF i <= Len(data) + Len(one) + Len(gap)
                                 THEN gap[i - (Len(data) + Len(one))]
                            ELSE tail[i - (Len(data) + Len(one) + Len(gap))]
        BY <2>3, Zenon DEF FourParts
    <2>6. joined \in Seq(Nat)
        BY <2>3 DEF joined, one
    <2> QED
        BY <2>1, <2>2, <2>4, <2>5, <2>6, Zenon DEF one
<1> HIDE DEF joined
<1>12. ASSUME NEW i \in 1 .. total PROVE padded[i] = joined[i]
    <2>1. i \in 1 .. len + 1 + zeros + 8
        BY <1>10
    <2>2. CASE i <= len
        <3>1. ~ (i > total - 8) /\ i # len + 1
            BY <1>1, <1>2, <1>10, <2>2
        <3> QED
            BY <1>3, <1>11, <2>1, <2>2, <3>1
    <2>3. CASE i = len + 1
        <3>1. ~ (i > total - 8) /\ i <= len + 1 /\ ~ (i <= len) /\ i - len = 1
            BY <1>1, <1>2, <1>10, <2>3
        <3> QED
            BY <1>3, <1>9, <1>11, <2>1, <2>3, <3>1
    <2>4. CASE i > len + 1 /\ i <= len + 1 + zeros
        <3>1. /\ ~ (i > total - 8) /\ i # len + 1 /\ ~ (i <= len) /\ ~ (i <= len + 1)
              /\ i - (len + 1) \in 1 .. zeros
            BY <1>1, <1>2, <1>10, <2>4
        <3>2. padded[i] = 0
            BY <1>3, <3>1
        <3>3. joined[i] = gap[i - (len + 1)]
            BY <1>11, <2>1, <2>4, <3>1
        <3> QED
            BY <1>8, <3>1, <3>2, <3>3
    <2>5. CASE i > len + 1 + zeros
        <3> DEFINE k == i - (len + 1 + zeros)
        <3>1. k \in 1 .. 8 /\ total - 8 + k = i
            BY <1>1, <1>2, <1>10, <2>5
        <3>2. ~ (i <= len) /\ ~ (i <= len + 1) /\ ~ (i <= len + 1 + zeros)
            BY <1>1, <1>2, <2>5
        <3>3. joined[i] = tail[k]
            BY <1>11, <2>1, <3>2
        <3> QED
            BY <1>7, <3>1, <3>3
    <2> QED
        BY <1>1, <1>2, <2>2, <2>3, <2>4, <2>5
<1>13. padded = joined
    BY <1>6, <1>10, <1>11, <1>12, SeqEqual
<1>14. LET value[i \in 0 .. 8] ==
               IF i = 0 THEN 0 ELSE 256 * value[i - 1] + padded[Len(padded) - 8 + i]
       IN value[8] = 8 * len
    <2> DEFINE start == Len(padded) - 8
    <2>1. ASSUME NEW i \in 1 .. 8 PROVE padded[start + i] = LengthByte(len, 8 - i)
        <3> DEFINE j == start + i
        <3>1. j \in 1 .. total /\ j > total - 8 /\ total - j = 8 - i
            BY <1>1, <1>2, <1>6, <1>10
        <3> HIDE DEF j
        <3>2. padded[j] = LengthByte(len, total - j)
            BY <1>3, <3>1
        <3>3. padded[j] = LengthByte(len, 8 - i)
            BY <3>1, <3>2, Zenon
        <3> QED
            BY <3>3 DEF j
    <2> HIDE DEF start
    <2>2. (len \div 2^30) \div 2^30 < 2
        BY DEF len
    <2>3. ReadsAs(padded, start, 8 * len)
        BY <1>1, <2>1, <2>2, LengthIsRead
    <2> QED
        BY <2>3, Zenon DEF ReadsAs, start
<1>15. Len(padded) % 64 = 0
    BY <1>2, <1>6
<1> QED
    BY <1>6, <1>13, <1>14, <1>15, <1>16, Zenon
       DEF PaddingIsStandard, len, total, padded, joined, gap, tail, zeros

-----------------------------------------------------------------------------
(* Escaping, and reading what was escaped.                                 *)

\* What the loop of parse_string has read of a text that it is still in.
TextRead(soFar, taken) == [mode |-> "text", out |-> soFar, taken |-> taken]

\* The symbols that escaping and reading tell apart are different ones.
LEMMA Distinct ==
    /\ Quote # Backslash
    /\ \A symbol \in {"LF", "CR", "TAB", "n", "r", "t"} : symbol # Quote /\ symbol # Backslash
    /\ {Quote, Backslash, "n", "r", "t"} \subseteq DOMAIN Unescaped
    /\ Unescaped[Quote] = Quote /\ Unescaped[Backslash] = Backslash
    /\ Unescaped["n"] = "LF" /\ Unescaped["r"] = "CR" /\ Unescaped["t"] = "TAB"
BY DEF Quote, Backslash, Unescaped

\* A symbol that needs no backslash is taken in one step.
LEMMA ReadPlain ==
    ASSUME NEW soFar, NEW taken, NEW symbol, symbol \notin {Quote, Backslash}
    PROVE  ReadSymbol(TextRead(soFar, taken), symbol) = TextRead(Append(soFar, symbol), taken + 1)
BY Zenon DEF ReadSymbol, TextRead, Takes

\* One that needs it is taken in two.
LEMMA ReadEscaped ==
    ASSUME NEW soFar, NEW taken, NEW symbol \in DOMAIN Unescaped
    PROVE  ReadSymbol(ReadSymbol(TextRead(soFar, taken), Backslash), symbol)
              = TextRead(Append(soFar, Unescaped[symbol]), taken + 1 + 1)
<1> DEFINE behind == [mode |-> "escape", out |-> soFar, taken |-> taken + 1]
<1>1. ReadSymbol(TextRead(soFar, taken), Backslash) = behind
    BY Distinct DEF ReadSymbol, TextRead, Passes
<1>2. ReadSymbol(behind, symbol) = TextRead(Append(soFar, Unescaped[symbol]), taken + 1 + 1)
    BY DEF ReadSymbol, TextRead, Takes
<1> QED
    BY <1>1, <1>2

\* A symbol is escaped into one that reads as it, or two that do.
LEMMA EscapedReads ==
    ASSUME NEW symbol
    PROVE  \/ /\ Escaped(symbol) = <<symbol>>
              /\ symbol \notin {Quote, Backslash}
           \/ \E code \in {Quote, Backslash, "n", "r", "t"} :
                 Escaped(symbol) = <<Backslash, code>> /\ Unescaped[code] = symbol
<1>1. CASE symbol = Backslash
    BY <1>1, Distinct DEF Escaped
<1>2. CASE symbol = Quote
    BY <1>2, Distinct DEF Escaped
<1>3. CASE symbol = "LF"
    BY <1>3, Distinct DEF Escaped
<1>4. CASE symbol = "CR"
    BY <1>4, Distinct DEF Escaped
<1>5. CASE symbol = "TAB"
    BY <1>5, Distinct DEF Escaped
<1>6. CASE symbol \notin {Backslash, Quote, "LF", "CR", "TAB"}
    BY <1>6 DEF Escaped
<1> QED
    BY <1>1, <1>2, <1>3, <1>4, <1>5, <1>6

\* f[i] is where the loop is after i symbols of the text.
Reads(f, text) ==
    f[0] = NothingRead /\ \A i \in 1 .. Len(text) : f[i] = ReadSymbol(f[i - 1], text[i])

\* The reading of a text is where the loop is at its end.
LEMMA ReadingIs ==
    ASSUME NEW S, NEW text \in Seq(S)
    PROVE  \E f : Reads(f, text) /\ Reading(text) = f[Len(text)]
<1> DEFINE n == Len(text)
           All == S \cup {Unescaped[symbol] : symbol \in DOMAIN Unescaped}
           Modes == {"text", "escape", "closed", "refused"}
           Values == [mode : Modes, out : Seq(All), taken : Nat]
           step == [i \in 1 .. n |-> [reading \in Values |-> ReadSymbol(reading, text[i])]]
<1>1. n \in Nat /\ \A i \in 1 .. n : text[i] \in All
    OBVIOUS
<1>2. ASSUME NEW reading \in Values, NEW symbol \in All
      PROVE  ReadSymbol(reading, symbol) \in Values
    <2>1. ASSUME NEW other \in All, NEW mode \in Modes
          PROVE  Takes(reading, other, mode) \in Values
        <3>1. reading.out \in Seq(All) /\ reading.taken \in Nat
            OBVIOUS
        <3> HIDE DEF All, Modes
        <3>2. Append(reading.out, other) \in Seq(All) /\ reading.taken + 1 \in Nat
            BY <2>1, <3>1, AppendProperties
        <3> QED
            BY <2>1, <3>2 DEF Takes
    <2>2. ASSUME NEW mode \in Modes PROVE Passes(reading, mode) \in Values
        <3>1. reading.taken + 1 \in Nat
            OBVIOUS
        <3> HIDE DEF All, Modes
        <3> QED
            BY <2>2, <3>1 DEF Passes
    <2>3. symbol \in DOMAIN Unescaped => Unescaped[symbol] \in All
        OBVIOUS
    <2>4. {"text", "escape", "closed", "refused"} = Modes
        OBVIOUS
    <2> HIDE DEF All, Values
    <2>5. CASE reading.mode = "text" /\ symbol = Quote
        <3>1. ReadSymbol(reading, symbol) = Passes(reading, "closed")
            BY <2>5, Distinct DEF ReadSymbol
        <3> QED
            BY <2>2, <3>1
    <2>6. CASE reading.mode = "text" /\ symbol = Backslash
        <3>1. ReadSymbol(reading, symbol) = Passes(reading, "escape")
            BY <2>6, Distinct DEF ReadSymbol
        <3> QED
            BY <2>2, <3>1
    <2>7. CASE reading.mode = "text" /\ symbol \notin {Quote, Backslash}
        <3>1. ReadSymbol(reading, symbol) = Takes(reading, symbol, "text")
            BY <2>7 DEF ReadSymbol
        <3> QED
            BY <2>1, <3>1
    <2>8. CASE reading.mode = "escape" /\ symbol \in DOMAIN Unescaped
        <3>1. ReadSymbol(reading, symbol) = Takes(reading, Unescaped[symbol], "text")
            BY <2>8 DEF ReadSymbol
        <3> QED
            BY <2>1, <2>3, <2>8, <3>1
    <2>9. CASE reading.mode = "escape" /\ symbol \notin DOMAIN Unescaped
        <3>1. ReadSymbol(reading, symbol) = Passes(reading, "refused")
            BY <2>9 DEF ReadSymbol
        <3> QED
            BY <2>2, <3>1
    <2>10. CASE reading.mode \notin {"text", "escape"}
        <3>1. ReadSymbol(reading, symbol) = reading
            BY <2>10 DEF ReadSymbol
        <3> QED
            BY <3>1
    <2> QED
        BY <2>5, <2>6, <2>7, <2>8, <2>9, <2>10
<1>3. NothingRead \in Values
    BY DEF NothingRead
<1> HIDE DEF Values
<1>4. step \in [1 .. n -> [Values -> Values]]
    BY <1>1, <1>2
<1>5. PICK f \in [0 .. n -> Values] : Follows(f, n, NothingRead, step)
    <2> HIDE DEF step, n
    <2> QED
        BY <1>1, <1>3, <1>4, PrimitiveRecursion
<1>6. ASSUME NEW i \in 1 .. n PROVE f[i] = ReadSymbol(f[i - 1], text[i])
    <2>1. i - 1 \in 0 .. n
        BY <1>1
    <2>2. f[i - 1] \in Values /\ f[i] = step[i][f[i - 1]]
        BY <1>5, <2>1 DEF Follows
    <2> QED
        BY <2>2
<1> DEFINE after[i \in 0 .. Len(text)] ==
               IF i = 0 THEN NothingRead ELSE ReadSymbol(after[i - 1], text[i])
<1>7. f = [i \in 0 .. n |-> IF i = 0 THEN NothingRead ELSE ReadSymbol(f[i - 1], text[i])]
    <2>1. ASSUME NEW i \in 0 .. n
          PROVE  f[i] = IF i = 0 THEN NothingRead ELSE ReadSymbol(f[i - 1], text[i])
        <3>1. CASE i = 0
            BY <1>5, <3>1 DEF Follows
        <3>2. CASE i # 0
            <4>1. i \in 1 .. n
                BY <1>1, <3>2
            <4> QED
                BY <1>6, <3>2, <4>1
        <3> QED
            BY <3>1, <3>2
    <2>2. f = [i \in 0 .. n |-> f[i]]
        BY <1>5
    <2> QED
        BY <2>1, <2>2
<1>8. after = [i \in 0 .. n |-> IF i = 0 THEN NothingRead ELSE ReadSymbol(after[i - 1], text[i])]
    BY <1>7, Zenon
<1>9. Reading(text) = after[n]
    BY Zenon DEF Reading
<1> HIDE DEF after
<1>10. Reads(after, text)
    <2>1. 0 \in 0 .. n /\ \A i \in 1 .. n : i \in 0 .. n /\ i # 0
        BY <1>1
    <2> QED
        BY <1>8, <2>1 DEF Reads
<1> QED
    BY <1>9, <1>10

\* The first k symbols of a text.
FirstOf(text, k) == [i \in 1 .. k |-> text[i]]

\* One symbol more is that symbol appended.
LEMMA FirstOfGrows ==
    ASSUME NEW S, NEW text \in Seq(S), NEW k \in Nat, k < Len(text)
    PROVE  FirstOf(text, k + 1) = Append(FirstOf(text, k), text[k + 1])
<1> DEFINE short == FirstOf(text, k)
           long == FirstOf(text, k + 1)
           elt == text[k + 1]
<1>1. Len(text) \in Nat /\ elt \in S /\ \A i \in 1 .. k + 1 : text[i] \in S
    OBVIOUS
<1>2. short \in Seq(S) /\ Len(short) = k /\ \A i \in 1 .. k : short[i] = text[i]
    BY <1>1 DEF FirstOf
<1>3. long \in Seq(S) /\ Len(long) = k + 1 /\ \A i \in 1 .. k + 1 : long[i] = text[i]
    BY <1>1 DEF FirstOf
<1> HIDE DEF short, long, elt
<1>4. /\ Append(short, elt) \in Seq(S) /\ Len(Append(short, elt)) = k + 1
      /\ \A i \in 1 .. k : Append(short, elt)[i] = short[i]
      /\ Append(short, elt)[k + 1] = elt
    BY <1>1, <1>2, AppendProperties
<1>5. ASSUME NEW i \in 1 .. k + 1 PROVE long[i] = Append(short, elt)[i]
    <2>1. CASE i \in 1 .. k
        BY <1>2, <1>3, <1>4, <2>1
    <2>2. CASE i = k + 1
        BY <1>3, <1>4, <2>2 DEF elt
    <2>3. i \in 1 .. k \/ i = k + 1
        OBVIOUS
    <2> QED
        BY <2>1, <2>2, <2>3, Zenon
<1>6. long = Append(short, elt)
    BY <1>3, <1>4, <1>5, SeqEqual
<1> QED
    BY <1>6 DEF short, long, elt

\* Who reads a text has read its beginning.
LEMMA ReadsBeginning ==
    ASSUME NEW S, NEW begin \in Seq(S), NEW end \in Seq(S), NEW f, Reads(f, begin \o end)
    PROVE  /\ Reads(f, begin)
           /\ \A i \in 1 .. Len(end) :
                 f[Len(begin) + i] = ReadSymbol(f[(Len(begin) + i) - 1], end[i])
<1> DEFINE all == begin \o end
           m == Len(begin)
           n == Len(end)
<1>1. m \in Nat /\ n \in Nat
    OBVIOUS
<1>2. Len(all) = m + n /\ \A i \in 1 .. m + n : all[i] = IF i <= m THEN begin[i] ELSE end[i - m]
    BY ConcatProperties
<1>3. f[0] = NothingRead /\ \A i \in 1 .. Len(all) : f[i] = ReadSymbol(f[i - 1], all[i])
    BY DEF Reads
<1> HIDE DEF all, m, n
<1>4. ASSUME NEW i \in 1 .. m PROVE f[i] = ReadSymbol(f[i - 1], begin[i])
    <2>1. i \in 1 .. m + n /\ i <= m
        BY <1>1
    <2> QED
        BY <1>2, <1>3, <2>1
<1>5. ASSUME NEW i \in 1 .. n PROVE f[m + i] = ReadSymbol(f[(m + i) - 1], end[i])
    <2> DEFINE j == m + i
    <2>1. j \in 1 .. m + n /\ ~ (j <= m) /\ j - m = i
        BY <1>1
    <2> HIDE DEF j
    <2>2. f[j] = ReadSymbol(f[j - 1], end[i])
        BY <1>2, <1>3, <2>1
    <2> QED
        BY <2>2 DEF j
<1> QED
    BY <1>3, <1>4, <1>5 DEF Reads, m, n

\* What escaping adds to the symbols of a text.
LEMMA EscapedType ==
    ASSUME NEW S, NEW symbol \in S
    PROVE  Escaped(symbol) \in Seq(S \cup {Quote, Backslash, "n", "r", "t"})
<1>1. CASE Escaped(symbol) = <<symbol>>
    BY <1>1
<1>2. CASE \E code \in {Quote, Backslash, "n", "r", "t"} : Escaped(symbol) = <<Backslash, code>>
    BY <1>2
<1> QED
    BY <1>1, <1>2, EscapedReads

\* What an escaped text reads as: the text, and the loop is still in it.
LEMMA EscapedTextReads ==
    ASSUME NEW S, NEW text \in Seq(S)
    PROVE  /\ json_escape(text) \in Seq(S \cup {Quote, Backslash, "n", "r", "t"})
           /\ \A f : Reads(f, json_escape(text))
                     => f[Len(json_escape(text))] = TextRead(text, Len(json_escape(text)))
<1> DEFINE n == Len(text)
           All == S \cup {Quote, Backslash, "n", "r", "t"}
           seqs == [i \in DOMAIN text |-> Escaped(text[i])]
<1>1. n \in Nat /\ DOMAIN text = 1 .. n /\ \A i \in 1 .. n : text[i] \in S
    OBVIOUS
<1>2. ASSUME NEW symbol \in S PROVE Escaped(symbol) \in Seq(All)
    BY EscapedType
<1>3. seqs \in Seq(Seq(All)) /\ Len(seqs) = n /\ \A i \in 1 .. n : seqs[i] = Escaped(text[i])
    BY <1>1, <1>2
<1> HIDE DEF seqs, All
<1>4. PICK parts \in [0 .. n -> Seq(All)] : PartsOf(seqs, parts)
    BY <1>3, FlattenInParts
<1>5. /\ parts[0] = <<>> /\ json_escape(text) = parts[n]
      /\ \A i \in 1 .. n : parts[i] = parts[i - 1] \o seqs[i]
    BY <1>3, <1>4 DEF PartsOf, json_escape, seqs
<1>10. json_escape(text) \in Seq(All)
    BY <1>1, <1>4, <1>5
<1> SUFFICES ASSUME NEW f, Reads(f, json_escape(text))
             PROVE  f[Len(json_escape(text))] = TextRead(text, Len(json_escape(text)))
    BY <1>10 DEF All
<1> DEFINE Right(k) ==
        Reads(f, parts[k]) => f[Len(parts[k])] = TextRead(FirstOf(text, k), Len(parts[k]))
           Done == {k \in 0 .. n : Right(k)}
<1>6. 0 \in Done
    <2>1. FirstOf(text, 0) = <<>> /\ Len(parts[0]) = 0
        BY <1>5 DEF FirstOf
    <2>2. Reads(f, parts[0]) => f[0] = NothingRead
        BY DEF Reads
    <2> QED
        BY <1>1, <2>1, <2>2 DEF NothingRead, TextRead
<1>7. ASSUME NEW k \in 0 .. n, k < n, k \in Done PROVE k + 1 \in Done
    <2> DEFINE j == k + 1
               old == parts[k]
               new == parts[j]
               piece == Escaped(text[j])
               symbol == text[j]
               m == Len(old)
    <2>1. j \in 1 .. n /\ j \in 0 .. n /\ j - 1 = k /\ k \in Nat
        BY <1>1, <1>7
    <2>2. new = old \o piece /\ old \in Seq(All) /\ piece \in Seq(All)
        BY <1>1, <1>2, <1>3, <1>4, <1>5, <2>1
    <2>3. Right(k)
        BY <1>7
    <2>4. FirstOf(text, j) = Append(FirstOf(text, k), symbol)
        BY <1>1, <1>7, <2>1, FirstOfGrows
    <2>5. Right(j)
        <3> SUFFICES ASSUME Reads(f, new)
                     PROVE  f[Len(new)] = TextRead(FirstOf(text, j), Len(new))
            OBVIOUS
        <3> HIDE DEF old, new
        <3>1. /\ Reads(f, old) /\ Len(new) = m + Len(piece) /\ m \in Nat
              /\ \A i \in 1 .. Len(piece) : f[m + i] = ReadSymbol(f[(m + i) - 1], piece[i])
            BY <2>2, ReadsBeginning, ConcatProperties
        <3>2. f[m] = TextRead(FirstOf(text, k), m)
            BY <2>3, <3>1 DEF old
        <3> HIDE DEF piece, symbol, j, m
        <3>3. CASE piece = <<symbol>> /\ symbol \notin {Quote, Backslash}
            <4>1. Len(piece) = 1 /\ piece[1] = symbol /\ (m + 1) - 1 = m
                BY <3>1, <3>3
            <4>2. f[m + 1] = ReadSymbol(f[m], symbol)
                BY <3>1, <4>1
            <4>3. f[m + 1] = TextRead(Append(FirstOf(text, k), symbol), m + 1)
                BY <3>2, <3>3, <4>2, ReadPlain
            <4> QED
                BY <2>4, <3>1, <4>1, <4>3
        <3>4. ASSUME NEW code \in {Quote, Backslash, "n", "r", "t"},
                     piece = <<Backslash, code>>, Unescaped[code] = symbol
              PROVE  f[Len(new)] = TextRead(FirstOf(text, j), Len(new))
            <4>1. /\ Len(piece) = 2 /\ piece[1] = Backslash /\ piece[2] = code
                  /\ (m + 1) - 1 = m /\ (m + 2) - 1 = m + 1 /\ m + 1 + 1 = m + 2
                BY <3>1, <3>4
            <4>2. f[m + 1] = ReadSymbol(f[m], Backslash)
                BY <3>1, <4>1
            <4>3. f[m + 2] = ReadSymbol(f[m + 1], code)
                BY <3>1, <4>1
            <4>4. code \in DOMAIN Unescaped
                BY <3>4, Distinct
            <4>5. f[m + 2] = TextRead(Append(FirstOf(text, k), Unescaped[code]), m + 1 + 1)
                BY <3>2, <4>2, <4>3, <4>4, ReadEscaped
            <4> QED
                BY <2>4, <3>1, <3>4, <4>1, <4>5
        <3> QED
            BY <3>3, <3>4, EscapedReads DEF piece, symbol
    <2> QED
        BY <2>1, <2>5
<1>8. n \in Done
    <2>1. n \in Nat /\ n \in 0 .. n
        BY <1>1
    <2> HIDE DEF Done, n
    <2>2. \A k \in 0 .. n : k \in Done
        BY <1>6, <1>7, <2>1, BoundedInduction
    <2> QED
        BY <2>1, <2>2
<1>9. FirstOf(text, n) = text
    BY <1>1 DEF FirstOf
<1> QED
    BY <1>5, <1>8, <1>9

\* A sequence with one more at its end, and two in a row, contain what they are
\* made of.
LEMMA ContainsAppend ==
    ASSUME NEW S, NEW text \in Seq(S), NEW symbol \in S, NEW sought
    PROVE  Contains(Append(text, symbol), sought) <=>
              Contains(text, sought) \/ symbol = sought
<1>1. /\ Len(Append(text, symbol)) = Len(text) + 1 /\ Len(text) \in Nat
      /\ \A i \in 1 .. Len(text) : Append(text, symbol)[i] = text[i]
      /\ Append(text, symbol)[Len(text) + 1] = symbol
    OBVIOUS
<1> QED
    BY <1>1 DEF Contains

LEMMA ContainsConcat ==
    ASSUME NEW S, NEW first \in Seq(S), NEW second \in Seq(S), NEW sought
    PROVE  Contains(first \o second, sought) <=>
              Contains(first, sought) \/ Contains(second, sought)
<1>1. /\ Len(first \o second) = Len(first) + Len(second)
      /\ Len(first) \in Nat /\ Len(second) \in Nat
      /\ \A i \in 1 .. Len(first) + Len(second) :
            (first \o second)[i] = IF i <= Len(first) THEN first[i]
                                   ELSE second[i - Len(first)]
    BY ConcatProperties
<1>2. ASSUME NEW i \in 1 .. Len(first) PROVE (first \o second)[i] = first[i]
    BY <1>1
<1>3. ASSUME NEW i \in 1 .. Len(second)
      PROVE  /\ Len(first) + i \in 1 .. Len(first) + Len(second)
             /\ (first \o second)[Len(first) + i] = second[i]
    BY <1>1
<1>4. ASSUME NEW i \in 1 .. Len(first \o second), (first \o second)[i] = sought
      PROVE  Contains(first, sought) \/ Contains(second, sought)
    <2>1. CASE i <= Len(first)
        BY <1>1, <1>4, <2>1 DEF Contains
    <2>2. CASE ~(i <= Len(first))
        <3>1. i - Len(first) \in 1 .. Len(second) /\ second[i - Len(first)] = sought
            BY <1>1, <1>4, <2>2
        <3> QED
            BY <3>1 DEF Contains
    <2> QED
        BY <2>1, <2>2
<1>5. ASSUME Contains(first, sought) \/ Contains(second, sought)
      PROVE  \E i \in 1 .. Len(first \o second) : (first \o second)[i] = sought
    BY <1>1, <1>2, <1>3, <1>5 DEF Contains
<1> QED
    BY <1>4, <1>5 DEF Contains

\* An escaped symbol contains a control character only if it is that one, and it
\* is one that is not escaped.
LEMMA EscapedControls ==
    ASSUME NEW symbol, NEW control \in Controls
    PROVE  Contains(Escaped(symbol), control) <=> symbol = control /\ control \in {"BS", "FF"}
<1>1. ASSUME NEW a, NEW b
      PROVE  /\ Contains(<<a>>, control) <=> a = control
             /\ Contains(<<a, b>>, control) <=> a = control \/ b = control
    BY DEF Contains
<1>2. /\ control \notin {Backslash, Quote, "n", "r", "t"}
      /\ control \in {"LF", "CR", "TAB"} <=> control \notin {"BS", "FF"}
    BY DEF Controls, Backslash, Quote
<1>3. CASE symbol \in {Backslash, Quote, "LF", "CR", "TAB"}
    <2>1. \E code \in {Backslash, Quote, "n", "r", "t"} :
              Escaped(symbol) = <<Backslash, code>>
        BY <1>3, Distinct DEF Escaped
    <2> QED
        BY <1>1, <1>2, <1>3, <2>1
<1>4. CASE symbol \notin {Backslash, Quote, "LF", "CR", "TAB"}
    <2>1. Escaped(symbol) = <<symbol>>
        BY <1>4 DEF Escaped
    <2> QED
        BY <1>1, <1>2, <1>4, <2>1
<1> QED
    BY <1>3, <1>4

\* The control characters of an escaped text are those of the text that are not
\* escaped.
LEMMA RawControls ==
    ASSUME NEW S, NEW text \in Seq(S), NEW control \in Controls
    PROVE  Contains(json_escape(text), control) <=>
              Contains(text, control) /\ control \in {"BS", "FF"}
<1> DEFINE n == Len(text)
           All == S \cup {Quote, Backslash, "n", "r", "t"}
           seqs == [i \in DOMAIN text |-> Escaped(text[i])]
           kept == control \in {"BS", "FF"}
<1>1. n \in Nat /\ DOMAIN text = 1 .. n /\ \A i \in 1 .. n : text[i] \in S
    OBVIOUS
<1>2. ASSUME NEW symbol \in S PROVE Escaped(symbol) \in Seq(All)
    BY EscapedType
<1>3. seqs \in Seq(Seq(All)) /\ Len(seqs) = n /\ \A i \in 1 .. n : seqs[i] = Escaped(text[i])
    BY <1>1, <1>2
<1> HIDE DEF seqs, All
<1>4. PICK parts \in [0 .. n -> Seq(All)] : PartsOf(seqs, parts)
    BY <1>3, FlattenInParts
<1>5. /\ parts[0] = <<>> /\ json_escape(text) = parts[n]
      /\ \A i \in 1 .. n : parts[i] = parts[i - 1] \o seqs[i]
    BY <1>3, <1>4 DEF PartsOf, json_escape, seqs
<1> DEFINE Right(k) == Contains(parts[k], control) <=> Contains(FirstOf(text, k), control) /\ kept
           Done == {k \in 0 .. n : Right(k)}
<1> HIDE DEF kept
<1>6. 0 \in Done
    <2>1. FirstOf(text, 0) = <<>> /\ Len(parts[0]) = 0 /\ Len(FirstOf(text, 0)) = 0
        BY <1>5 DEF FirstOf
    <2> QED
        BY <1>1, <2>1 DEF Contains
<1>7. ASSUME NEW k \in 0 .. n, k < n, k \in Done PROVE k + 1 \in Done
    <2> DEFINE j == k + 1
               symbol == text[j]
               short == FirstOf(text, k)
    <2>1. j \in 1 .. n /\ j \in 0 .. n /\ j - 1 = k /\ k \in Nat /\ symbol \in S
        BY <1>1, <1>7
    <2>2. /\ parts[j] = parts[k] \o Escaped(symbol)
          /\ parts[k] \in Seq(All) /\ Escaped(symbol) \in Seq(All)
        BY <1>1, <1>2, <1>3, <1>4, <1>5, <2>1
    <2>3. Right(k)
        BY <1>7
    <2>4. FirstOf(text, j) = Append(short, symbol)
        BY <1>1, <1>7, <2>1, FirstOfGrows
    <2>5. short \in Seq(S)
        BY <1>1, <1>7 DEF FirstOf
    <2> HIDE DEF symbol, short, j
    <2>6. Contains(parts[j], control) <=>
              Contains(parts[k], control) \/ Contains(Escaped(symbol), control)
        BY <2>2, ContainsConcat
    <2>7. Contains(FirstOf(text, j), control) <=> Contains(short, control) \/ symbol = control
        BY <2>1, <2>4, <2>5, ContainsAppend
    <2>8. Contains(Escaped(symbol), control) <=> symbol = control /\ kept
        BY EscapedControls DEF kept
    <2> QED
        BY <2>1, <2>3, <2>6, <2>7, <2>8 DEF j, short
<1>8. n \in Done
    <2>1. n \in Nat /\ n \in 0 .. n
        BY <1>1
    <2> HIDE DEF Done, n
    <2>2. \A k \in 0 .. n : k \in Done
        BY <1>6, <1>7, <2>1, BoundedInduction
    <2> QED
        BY <2>1, <2>2
<1>9. FirstOf(text, n) = text
    BY <1>1 DEF FirstOf
<1> QED
    BY <1>5, <1>8, <1>9 DEF kept

\* Behind the closing quote nothing is read any more.
LEMMA NothingBehindQuote ==
    ASSUME NEW S, NEW begin \in Seq(S), NEW after \in Seq(S), NEW f, NEW text,
           Quote \in S, Reads(f, begin \o (<<Quote>> \o after)),
           f[Len(begin)] = TextRead(text, Len(begin))
    PROVE  f[Len(begin \o (<<Quote>> \o after))]
              = [mode |-> "closed", out |-> text, taken |-> Len(begin) + 1]
<1> DEFINE m == Len(begin)
           n == Len(after)
           end == <<Quote>> \o after
           all == begin \o end
           closed == [mode |-> "closed", out |-> text, taken |-> m + 1]
           Closed == {i \in 0 .. n : f[(m + 1) + i] = closed}
<1>1. m \in Nat /\ n \in Nat /\ <<Quote>> \in Seq(S) /\ Len(<<Quote>>) = 1
    OBVIOUS
<1>2. /\ end \in Seq(S) /\ Len(end) = n + 1
      /\ end[1] = Quote /\ \A i \in 1 .. n : end[i + 1] = after[i]
    <2>1. /\ end \in Seq(S) /\ Len(end) = Len(<<Quote>>) + n
          /\ \A i \in 1 .. Len(<<Quote>>) + n :
                end[i] = IF i <= Len(<<Quote>>) THEN <<Quote>>[i] ELSE after[i - Len(<<Quote>>)]
        BY <1>1, ConcatProperties
    <2>2. Len(<<Quote>>) = 1 /\ <<Quote>>[1] = Quote
        OBVIOUS
    <2> HIDE DEF end, n
    <2>3. \A i \in 1 .. 1 + n : end[i] = IF i <= 1 THEN <<Quote>>[i] ELSE after[i - 1]
        BY <2>1, <2>2
    <2>4. ASSUME NEW i \in 1 .. n PROVE end[i + 1] = after[i]
        <3> DEFINE j == i + 1
        <3>1. j \in 1 .. 1 + n /\ ~ (j <= 1) /\ j - 1 = i
            BY <1>1
        <3> HIDE DEF j
        <3>2. end[j] = after[i]
            BY <2>3, <3>1
        <3> QED
            BY <3>2 DEF j
    <2>5. end[1] = Quote
        BY <1>1, <2>2, <2>3
    <2> QED
        BY <1>1, <2>1, <2>2, <2>4, <2>5
<1> HIDE DEF end, m, n
<1>3. \A i \in 1 .. n + 1 : f[m + i] = ReadSymbol(f[(m + i) - 1], end[i])
    <2>1. Reads(f, begin \o end) /\ end \in Seq(S)
        BY <1>2 DEF end
    <2>2. \A i \in 1 .. Len(end) : f[Len(begin) + i] = ReadSymbol(f[(Len(begin) + i) - 1], end[i])
        BY <2>1, ReadsBeginning
    <2> QED
        BY <1>2, <2>2 DEF m
<1>4. f[m] = TextRead(text, m)
    BY DEF m
<1>5. f[m + 1] = closed
    <2>1. f[m + 1] = ReadSymbol(f[m], Quote)
        <3>1. 1 \in 1 .. n + 1 /\ (m + 1) - 1 = m
            BY <1>1
        <3> QED
            BY <1>2, <1>3, <3>1
    <2>2. ReadSymbol(TextRead(text, m), Quote) = closed
        BY Distinct DEF ReadSymbol, TextRead, Passes
    <2> QED
        BY <1>4, <2>1, <2>2
<1>6. \A symbol : ReadSymbol(closed, symbol) = closed
    BY DEF ReadSymbol
<1> HIDE DEF closed
<1>7. 0 \in Closed
    BY <1>1, <1>5
<1>8. ASSUME NEW i \in 0 .. n, i < n, i \in Closed PROVE i + 1 \in Closed
    <2> DEFINE j == (i + 1) + 1
    <2>1. /\ j \in 1 .. n + 1 /\ (m + j) - 1 = (m + 1) + i /\ m + j = (m + 1) + (i + 1)
          /\ i + 1 \in 0 .. n
        BY <1>1, <1>8
    <2> HIDE DEF j
    <2>2. f[m + j] = ReadSymbol(f[(m + 1) + i], end[j])
        BY <1>3, <2>1
    <2>3. f[m + j] = closed
        BY <1>6, <1>8, <2>2
    <2> QED
        BY <2>1, <2>3
<1>9. f[(m + 1) + n] = closed
    <2>1. n \in 0 .. n
        BY <1>1
    <2> HIDE DEF Closed
    <2>2. \A i \in 0 .. n : i \in Closed
        BY <1>1, <1>7, <1>8, BoundedInduction
    <2> QED
        BY <2>1, <2>2 DEF Closed
<1>10. Len(all) = (m + 1) + n
    <2>1. Len(all) = m + Len(end)
        BY <1>2, ConcatProperties DEF m
    <2> QED
        BY <1>1, <1>2, <2>1
<1> QED
    BY <1>9, <1>10 DEF all, end, closed, m

\* The end of a sequence is found behind its beginning.
LEMMA EndOfConcat ==
    ASSUME NEW S, NEW begin \in Seq(S), NEW end \in Seq(S)
    PROVE  SubSeq(begin \o end, Len(begin) + 1, Len(begin \o end)) = end
<1> DEFINE all == begin \o end
           m == Len(begin)
           n == Len(end)
           first == m + 1
           last == m + n
           found == SubSeq(all, first, last)
<1>1. m \in Nat /\ n \in Nat
    OBVIOUS
<1>2. /\ all \in Seq(S) /\ Len(all) = m + n
      /\ \A i \in 1 .. m + n : all[i] = IF i <= m THEN begin[i] ELSE end[i - m]
    BY ConcatProperties
<1> HIDE DEF all, m, n
<1>3. \A i \in first .. last : all[i] \in S
    BY <1>1, <1>2
<1>4. first \in Int /\ last \in Int /\ (last - first) + 1 = n
    BY <1>1
<1> HIDE DEF first, last
<1>5. /\ found \in Seq(S) /\ Len(found) = IF first <= last THEN last - first + 1 ELSE 0
      /\ \A i \in 1 .. last - first + 1 : found[i] = all[first + i - 1]
    BY <1>3, <1>4, SubSeqProperties
<1> HIDE DEF found
<1>6. Len(found) = n
    BY <1>1, <1>4, <1>5 DEF first, last
<1>7. ASSUME NEW i \in 1 .. n PROVE found[i] = end[i]
    <2> DEFINE j == m + i
    <2>1. j \in 1 .. m + n /\ ~ (j <= m) /\ j - m = i /\ first + i - 1 = j
        BY <1>1 DEF first
    <2>2. i \in 1 .. last - first + 1
        BY <1>4
    <2> HIDE DEF j
    <2>3. found[i] = all[j]
        BY <1>5, <2>1, <2>2
    <2> QED
        BY <1>2, <2>1, <2>3
<1>8. found = end
    BY <1>5, <1>6, <1>7, SeqEqual DEF n
<1> QED
    BY <1>2, <1>8 DEF found, first, last, all, m

\* An escaped text ends where it should, reads as what it was and breaks no line.
LEMMA EscapingIsRight ==
    ASSUME NEW S, NEW text \in Seq(S), NEW after \in Seq(S)
    PROVE  SurvivesEscape(text, after)
<1> DEFINE All == S \cup {Quote, Backslash, "n", "r", "t"}
           body == json_escape(text)
           quote == <<Quote>>
           rest == quote \o after
           line == body \o rest
           whole == Quoted(text) \o after
<1>1. /\ body \in Seq(All)
      /\ \A f : Reads(f, body) => f[Len(body)] = TextRead(text, Len(body))
    BY EscapedTextReads
<1>2. after \in Seq(All) /\ quote \in Seq(All) /\ Quote \in All
    OBVIOUS
<1> HIDE DEF All, body
<1>3. rest \in Seq(All) /\ line \in Seq(All)
    <2>1. rest \in Seq(All)
        BY <1>2, ConcatProperties
    <2> HIDE DEF rest
    <2> QED
        BY <1>1, <2>1, ConcatProperties
<1>4. whole = quote \o line
    <2> HIDE DEF quote
    <2>1. quote \o body \in Seq(All)
        BY <1>1, <1>2, ConcatProperties
    <2>2. ((quote \o body) \o quote) \o after = (quote \o body) \o (quote \o after)
        <3> DEFINE opened == quote \o body
        <3>1. opened \in Seq(All) /\ quote \in Seq(All) /\ after \in Seq(All)
            BY <1>2, <2>1
        <3> HIDE DEF opened
        <3>2. (opened \o quote) \o after = opened \o (quote \o after)
            BY <3>1, ConcatAssociative
        <3> QED
            BY <3>2 DEF opened
    <2> HIDE DEF rest
    <2>3. (quote \o body) \o rest = quote \o (body \o rest)
        <3>1. quote \in Seq(All) /\ body \in Seq(All) /\ rest \in Seq(All)
            BY <1>1, <1>2, <1>3
        <3> QED
            BY <3>1, ConcatAssociative, SMTT(20)
    <2>4. whole = ((quote \o body) \o quote) \o after
        BY DEF Quoted, quote, body
    <2> QED
        BY <2>2, <2>3, <2>4 DEF rest
<1>5. StartsWith(whole, Quote) /\ Tail(whole) = line
    <2> HIDE DEF line
    <2>1. /\ quote \o line \in Seq(All) /\ Len(quote \o line) = Len(quote) + Len(line)
          /\ \A i \in 1 .. Len(quote) + Len(line) :
                (quote \o line)[i] = IF i <= Len(quote) THEN quote[i] ELSE line[i - Len(quote)]
        BY <1>2, <1>3, ConcatProperties
    <2>2. Len(quote) = 1 /\ quote[1] = Quote /\ Len(line) \in Nat
        BY <1>3
    <2> HIDE DEF whole, quote
    <2>3. /\ whole \in Seq(All) /\ Len(whole) = 1 + Len(line) /\ whole[1] = Quote
          /\ \A i \in 1 .. Len(line) : whole[i + 1] = line[i]
        <3>1. Len(whole) = 1 + Len(line) /\ whole[1] = Quote
            BY <1>4, <2>1, <2>2
        <3>2. ASSUME NEW i \in 1 .. Len(line) PROVE whole[i + 1] = line[i]
            <4> DEFINE j == i + 1
            <4>1. j \in 1 .. Len(quote) + Len(line) /\ ~ (j <= Len(quote)) /\ j - Len(quote) = i
                BY <2>2
            <4> HIDE DEF j
            <4>2. whole[j] = line[i]
                BY <1>4, <2>1, <4>1
            <4> QED
                BY <4>2 DEF j
        <3> QED
            BY <1>4, <2>1, <3>1, <3>2
    <2>4. whole # <<>>
        BY <2>2, <2>3
    <2>5. Head(whole) = Quote
        BY <2>3, <2>4
    <2>6. Tail(whole) \in Seq(All) /\ Len(Tail(whole)) = Len(line)
          /\ \A i \in 1 .. Len(line) : Tail(whole)[i] = line[i]
        BY <2>2, <2>3, <2>4, HeadTailProperties
    <2>7. Tail(whole) = line
        BY <1>3, <2>6, SeqEqual
    <2> QED
        BY <2>4, <2>5, <2>7 DEF StartsWith
<1>6. Reading(line) = [mode |-> "closed", out |-> text, taken |-> Len(body) + 1]
    <2>1. PICK f : Reads(f, line) /\ Reading(line) = f[Len(line)]
        BY <1>3, ReadingIs
    <2>2. Reads(f, body)
        BY <1>1, <1>3, <2>1, ReadsBeginning
    <2>3. f[Len(body)] = TextRead(text, Len(body))
        BY <1>1, <2>2
    <2> QED
        BY <1>1, <1>2, <2>1, <2>3, NothingBehindQuote
<1>7. From(line, (Len(body) + 1) + 1) = after
    <2> DEFINE begin == body \o quote
    <2>1. begin \in Seq(All) /\ Len(begin) = Len(body) + Len(quote) /\ Len(quote) = 1
        BY <1>1, <1>2, ConcatProperties
    <2>2. begin \o after = line
        BY <1>1, <1>2, ConcatAssociative
    <2> HIDE DEF begin, line
    <2>3. SubSeq(begin \o after, Len(begin) + 1, Len(begin \o after)) = after
        BY <1>2, <2>1, EndOfConcat
    <2> QED
        BY <2>1, <2>2, <2>3 DEF From
<1> HIDE DEF whole, line
<1>8. string_rest(line) = Success([string |-> text], after)
    BY <1>6, <1>7 DEF string_rest
<1> QED
    BY <1>5, <1>8, RawControls DEF SurvivesEscape, parse_string, whole

-----------------------------------------------------------------------------
(* double_sha256 stays inside its buffers.                                 *)

\* sha256.cpp and job.cpp mean the same by a byte.
LEMMA BytesAre == Byte = 0 .. 255
BY DEF Byte

\* A word has bits in the positions 0 to 31 only.
LEMMA WordTypes ==
    /\ \A x, y : Plus(x, y) \in ShaWord
    /\ \A high, low : Word(high, low) \in ShaWord
<1>1. \A x, y : Plus(x, y) \in ShaWord
    BY DEF Plus, ShaWord
<1>2. ASSUME NEW high, NEW low PROVE Word(high, low) \in ShaWord
    <2>1. Ones(high, 16) \subseteq 0 .. 15 /\ Ones(low, 16) \subseteq 0 .. 15
        BY DEF Ones
    <2>2. \A i \in 0 .. 15 : i \in Positions /\ i + 16 \in Positions
        BY DEF Positions
    <2>3. Shifted(Ones(high, 16), 16) \subseteq Positions
        BY <2>1, <2>2 DEF Shifted
    <2> QED
        BY <2>1, <2>2, <2>3 DEF Word, ShaWord
<1> QED
    BY <1>1, <1>2

\* Every set of eight positions is the bits of a byte.
LEMMA EveryByte ==
    ASSUME NEW bits \in SUBSET (0 .. 7)
    PROVE  \E byte \in 0 .. 255 : Ones(byte, 8) = bits
<1> DEFINE b(i) == IF i \in bits THEN 1 ELSE 0
           byte == b(0) + 2 * b(1) + 4 * b(2) + 8 * b(3)
                     + 16 * b(4) + 32 * b(5) + 64 * b(6) + 128 * b(7)
<1>1. /\ b(0) \in 0 .. 1 /\ b(1) \in 0 .. 1 /\ b(2) \in 0 .. 1 /\ b(3) \in 0 .. 1
      /\ b(4) \in 0 .. 1 /\ b(5) \in 0 .. 1 /\ b(6) \in 0 .. 1 /\ b(7) \in 0 .. 1
    OBVIOUS
<1>2. \A i \in 0 .. 7 : i \in bits <=> b(i) = 1
    OBVIOUS
<1> HIDE DEF b
<1>3. byte \in 0 .. 255
    BY <1>1
<1>4. /\ byte % 2 = b(0) /\ (byte \div 2) % 2 = b(1) /\ (byte \div 4) % 2 = b(2)
      /\ (byte \div 8) % 2 = b(3) /\ (byte \div 16) % 2 = b(4) /\ (byte \div 32) % 2 = b(5)
      /\ (byte \div 64) % 2 = b(6) /\ (byte \div 128) % 2 = b(7)
    BY <1>1
<1> HIDE DEF byte
<1>5. ASSUME NEW i \in 0 .. 7 PROVE i \in Bits(byte) <=> i \in bits
    BY <1>2, <1>3, <1>4, BitsAre
<1>6. Ones(byte, 8) = Bits(byte)
    BY DEF Ones, Bits
<1>7. Bits(byte) \subseteq 0 .. 7
    BY DEF Bits
<1>8. Bits(byte) = bits
    BY <1>5, <1>7
<1>9. byte \in 0 .. 255 /\ Ones(byte, 8) = bits
    BY <1>3, <1>6, <1>8
<1> QED
    BY <1>9

\* What a digest takes from a word is a byte, and it has the bits of the word there.
LEMMA ByteOfIs ==
    ASSUME NEW word \in ShaWord, NEW low \in 0 .. 24
    PROVE  /\ ByteOf(word, low) \in 0 .. 255
           /\ Shifted(Ones(ByteOf(word, low), 8), low) = word \cap (low .. low + 7)
<1> DEFINE bits == {i \in 0 .. 7 : i + low \in word}
<1>1. PICK byte \in 0 .. 255 : Ones(byte, 8) = bits
    BY EveryByte
<1>2. Shifted(bits, low) = word \cap (low .. low + 7)
    <2>1. ASSUME NEW j \in word \cap (low .. low + 7) PROVE j \in Shifted(bits, low)
        <3>1. j - low \in 0 .. 7 /\ (j - low) + low = j
            OBVIOUS
        <3> QED
            BY <3>1 DEF Shifted
    <2>2. ASSUME NEW j \in Shifted(bits, low) PROVE j \in word \cap (low .. low + 7)
        BY DEF Shifted
    <2> QED
        BY <2>1, <2>2
<1>3. Shifted(Ones(byte, 8), low) = word \cap (low .. low + 7)
    BY <1>1, <1>2
<1> QED
    BY <1>3, Zenon DEF ByteOf

\* The initial value of the hash is eight words.
LEMMA InitialHashType == InitialHash \in [1 .. 8 -> ShaWord]
<1>1. \A halves : Table(halves) \in [DOMAIN halves -> ShaWord]
    BY WordTypes DEF Table
<1> QED
    BY <1>1 DEF InitialHash

\* sha256 begins with whole blocks.
LEMMA HashType ==
    ASSUME NEW data \in Seq(Byte), Hash(data), passes \in 0 .. 1
    PROVE  ShaTypeOK' /\ stage' = "block"
<1>1. /\ stage' = "block" /\ passes' = passes + 1 /\ msg' = Padded(data)
      /\ offset' = 0 /\ h' = InitialHash
    BY DEF Hash
<1>2. msg' \in Seq(0 .. 255) /\ Len(msg') = TotalLen(Len(data))
    BY <1>1, PaddedType, BytesAre
<1>3. Len(data) \in Nat
    OBVIOUS
<1>4. Len(msg') \in Nat /\ Len(msg') % 64 = 0
    BY <1>2, <1>3, TotalLenIs
<1>5. offset' \in 0 .. Len(msg') /\ offset' % 64 = 0
    BY <1>1, <1>4
<1>6. passes' \in 1 .. 2
    BY <1>1
<1>7. h' \in [1 .. 8 -> ShaWord]
    BY <1>1, InitialHashType
<1> QED
    BY <1>1, <1>2, <1>4, <1>5, <1>6, <1>7 DEF ShaTypeOK

\* Every step of double_sha256 stays inside the buffers.
LEMMA ShaStepType ==
    ASSUME ShaTypeOK, ShaNext
    PROVE  ShaTypeOK' /\ stage # "idle"
<1>1. CASE LoadBlock
    <2>1. /\ stage = "block" /\ offset < Len(msg) /\ stage' = "schedule"
          /\ UNCHANGED <<passes, msg, offset, h, v, round, out>>
        BY <1>1 DEF LoadBlock
    <2>2. /\ Len(msg) \in Nat /\ Len(msg) % 64 = 0 /\ offset \in Nat /\ offset % 64 = 0
        BY DEF ShaTypeOK
    <2>3. offset + 64 <= Len(msg)
        BY <2>1, <2>2
    <2>4. w' \in Seq(ShaWord) /\ Len(w') \in 16 .. 64
        <3>1. w' = [i \in 1 .. 16 |-> MessageWord(offset + 4 * (i - 1))]
            BY <1>1 DEF LoadBlock
        <3>2. \A j : MessageWord(j) \in ShaWord
            BY WordTypes DEF MessageWord
        <3> QED
            BY <3>1, <3>2
    <2> QED
        BY <2>1, <2>3, <2>4 DEF ShaTypeOK
<1>2. CASE ExtendSchedule
    <2>1. /\ stage = "schedule" /\ Len(w) < 64
          /\ UNCHANGED <<stage, passes, msg, offset, h, v, round, out>>
        BY <1>2 DEF ExtendSchedule
    <2>2. w \in Seq(ShaWord) /\ Len(w) \in 16 .. 64
        BY <2>1 DEF ShaTypeOK
    <2>3. PICK word \in ShaWord : w' = Append(w, word)
        BY <1>2, WordTypes DEF ExtendSchedule
    <2>4. w' \in Seq(ShaWord) /\ Len(w') = Len(w) + 1
        BY <2>2, <2>3, AppendProperties
    <2>5. Len(w') \in 16 .. 64
        <3> DEFINE n == Len(w)
                   m == Len(w)'
        <3>1. n \in 16 .. 64 /\ n < 64 /\ m = n + 1
            BY <2>1, <2>2, <2>4, Zenon
        <3> HIDE DEF n, m
        <3>2. m \in 16 .. 64
            BY <3>1
        <3> QED
            BY <3>2 DEF m
    <2> QED
        BY <2>1, <2>4, <2>5 DEF ShaTypeOK
<1>3. CASE BeginRounds
    <2>1. /\ stage = "schedule" /\ Len(w) = 64 /\ v' = h /\ round' = 0 /\ stage' = "rounds"
          /\ UNCHANGED <<passes, msg, offset, h, w, out>>
        BY <1>3 DEF BeginRounds
    <2>2. w \in [1 .. 64 -> ShaWord]
        <3>1. w \in Seq(ShaWord) /\ Len(w) = 64
            BY <2>1 DEF ShaTypeOK
        <3>2. w \in [1 .. Len(w) -> ShaWord]
            BY <3>1, LenProperties
        <3> QED
            BY <3>1, <3>2
    <2>3. h \in [1 .. 8 -> ShaWord]
        BY <2>1 DEF ShaTypeOK
    <2> QED
        BY <2>1, <2>2, <2>3 DEF ShaTypeOK
<1>4. CASE Round
    <2>1. /\ stage = "rounds" /\ round < 64 /\ round' = round + 1
          /\ UNCHANGED <<stage, passes, msg, offset, h, w, out>>
        BY <1>4 DEF Round
    <2>2. v \in [1 .. 8 -> ShaWord] /\ round \in 0 .. 64
        BY <2>1 DEF ShaTypeOK
    <2>3. v' \in [1 .. 8 -> ShaWord]
        <3>1. PICK a \in ShaWord, e \in ShaWord :
                    v' = <<a, v[1], v[2], v[3], e, v[5], v[6], v[7]>>
            BY <1>4, WordTypes DEF Round
        <3>2. /\ v[1] \in ShaWord /\ v[2] \in ShaWord /\ v[3] \in ShaWord
              /\ v[5] \in ShaWord /\ v[6] \in ShaWord /\ v[7] \in ShaWord
            BY <2>2
        <3> QED
            BY <3>1, <3>2
    <2> QED
        BY <2>1, <2>2, <2>3 DEF ShaTypeOK
<1>5. CASE EndBlock
    <2>1. /\ stage = "rounds" /\ offset' = offset + 64 /\ stage' = "block"
          /\ UNCHANGED <<passes, msg, w, v, round, out>>
        BY <1>5 DEF EndBlock
    <2>2. h' \in [1 .. 8 -> ShaWord]
        BY <1>5, WordTypes DEF EndBlock
    <2>3. offset + 64 <= Len(msg) /\ offset \in Nat /\ offset % 64 = 0 /\ Len(msg) \in Nat
        <3>1. offset + 64 <= Len(msg) /\ offset % 64 = 0 /\ offset \in 0 .. Len(msg)
            BY <2>1 DEF ShaTypeOK
        <3>2. Len(msg) \in Nat
            BY DEF ShaTypeOK
        <3> QED
            BY <3>1, <3>2
    <2>4. offset' \in 0 .. Len(msg) /\ offset' % 64 = 0
        BY <2>1, <2>3
    <2> QED
        BY <2>1, <2>2, <2>4 DEF ShaTypeOK
<1>6. CASE ReturnDigest
    <2>1. /\ stage = "block" /\ out' = Digest /\ stage' = "done"
          /\ UNCHANGED <<passes, msg, offset, h, w, v, round>>
        BY <1>6 DEF ReturnDigest
    <2>2. h \in [1 .. 8 -> ShaWord]
        BY <2>1 DEF ShaTypeOK
    <2>3. ASSUME NEW k \in 1 .. 32
          PROVE  ByteOf(h[(k + 3) \div 4], 8 * (3 - ((k - 1) % 4))) \in 0 .. 255
        <3>1. (k + 3) \div 4 \in 1 .. 8 /\ 8 * (3 - ((k - 1) % 4)) \in 0 .. 24
            OBVIOUS
        <3>2. h[(k + 3) \div 4] \in ShaWord
            BY <2>2, <3>1
        <3> QED
            BY <3>1, <3>2, ByteOfIs
    <2>4. out' \in [1 .. 32 -> 0 .. 255]
        BY <2>1, <2>3 DEF Digest
    <2> QED
        BY <2>1, <2>4 DEF ShaTypeOK
<1>7. CASE HashDigest
    <2>1. stage = "done" /\ passes = 1 /\ Hash(out)
        BY <1>7 DEF HashDigest
    <2>2. out \in Seq(Byte)
        <3>1. out \in [1 .. 32 -> 0 .. 255]
            BY <2>1 DEF ShaTypeOK
        <3>2. out \in [1 .. 32 -> Byte]
            BY <3>1, BytesAre
        <3> DEFINE n == 32
        <3>3. n \in Nat /\ out \in [1 .. n -> Byte]
            BY <3>2
        <3> HIDE DEF n
        <3> QED
            BY <3>3, SeqDef
    <2> QED
        BY <2>1, <2>2, HashType
<1>8. stage # "idle"
    BY DEF ShaNext, LoadBlock, ExtendSchedule, BeginRounds, Round, EndBlock, ReturnDigest,
           HashDigest
<1> QED
    BY <1>1, <1>2, <1>3, <1>4, <1>5, <1>6, <1>7, <1>8 DEF ShaNext

-----------------------------------------------------------------------------
(* The addition of words is the one of std::uint32_t.                      *)

\* low[k] is the number of the bits below k.
CountsBits(low, x) ==
    /\ low[0] = 0
    /\ \A k \in 1 .. 32 : low[k] = low[k - 1] + (IF k - 1 \in x THEN 2^(k - 1) ELSE 0)

\* The number whose one bits are at the positions in x.
NumberOf(x) ==
    LET low[k \in 0 .. 32] ==
            IF k = 0 THEN 0 ELSE low[k - 1] + (IF k - 1 \in x THEN 2^(k - 1) ELSE 0)
    IN low[32]

\* The number is the last of the partial numbers.
LEMMA NumberIs ==
    ASSUME NEW x
    PROVE  \E low : CountsBits(low, x) /\ NumberOf(x) = low[32]
<1> DEFINE n == 32
           first == 0
           bit(k) == IF k - 1 \in x THEN 2^(k - 1) ELSE 0
           step == [k \in 1 .. n |-> [number \in Nat |-> number + bit(k)]]
<1>1. n \in Nat /\ first \in Nat
    OBVIOUS
<1>2. ASSUME NEW k \in 1 .. n PROVE bit(k) \in Nat
    <2>1. k - 1 \in Nat
        OBVIOUS
    <2> QED
        BY <2>1, PowerPositive
<1> HIDE DEF bit
<1>3. step \in [1 .. n -> [Nat -> Nat]]
    BY <1>2
<1>4. PICK f \in [0 .. n -> Nat] : Follows(f, n, first, step)
    <2> HIDE DEF step, n, first
    <2> QED
        BY <1>1, <1>3, PrimitiveRecursion
<1>5. ASSUME NEW k \in 1 .. n PROVE f[k] = f[k - 1] + bit(k)
    <2>1. k - 1 \in 0 .. n
        OBVIOUS
    <2>2. f[k - 1] \in Nat /\ f[k] = step[k][f[k - 1]]
        BY <1>4, <2>1 DEF Follows
    <2> QED
        BY <2>2
<1> DEFINE low[k \in 0 .. 32] ==
               IF k = 0 THEN 0 ELSE low[k - 1] + (IF k - 1 \in x THEN 2^(k - 1) ELSE 0)
<1>6. f = [k \in 0 .. 32 |->
              IF k = 0 THEN 0 ELSE f[k - 1] + (IF k - 1 \in x THEN 2^(k - 1) ELSE 0)]
    <2>1. ASSUME NEW k \in 0 .. 32
          PROVE  f[k] = IF k = 0 THEN 0 ELSE f[k - 1] + bit(k)
        <3>1. CASE k = 0
            BY <1>4, <3>1 DEF Follows
        <3>2. CASE k # 0
            <4>1. k \in 1 .. n
                BY <3>2
            <4> QED
                BY <1>5, <3>2, <4>1
        <3> QED
            BY <3>1, <3>2
    <2>2. f = [k \in 0 .. 32 |-> f[k]]
        BY <1>4
    <2>3. f = [k \in 0 .. 32 |-> IF k = 0 THEN 0 ELSE f[k - 1] + bit(k)]
        BY <2>1, <2>2
    <2> QED
        BY <2>3, Zenon DEF bit
<1>7. low = [k \in 0 .. 32 |->
                IF k = 0 THEN 0 ELSE low[k - 1] + (IF k - 1 \in x THEN 2^(k - 1) ELSE 0)]
    BY <1>6, Zenon
<1>8. NumberOf(x) = low[32]
    BY Zenon DEF NumberOf
<1> HIDE DEF low
<1>9. CountsBits(low, x)
    <2>1. low[0] = 0
        BY <1>7
    <2>2. ASSUME NEW k \in 1 .. 32
          PROVE  low[k] = low[k - 1] + (IF k - 1 \in x THEN 2^(k - 1) ELSE 0)
        <3>1. k \in 0 .. 32 /\ k # 0
            OBVIOUS
        <3>2. low[k] = IF k = 0 THEN 0
                       ELSE low[k - 1] + (IF k - 1 \in x THEN 2^(k - 1) ELSE 0)
            BY <1>7, <3>1, Zenon
        <3> QED
            BY <3>1, <3>2, Zenon
    <2> QED
        BY <2>1, <2>2, Zenon DEF CountsBits
<1> QED
    BY <1>8, <1>9

\* The carries of an addition.
Carries(carry, x, y) ==
    \A i \in Positions :
        carry[i] = (/\ i > 0
                    /\ IF i - 1 \in x THEN i - 1 \in y \/ carry[i - 1]
                                      ELSE i - 1 \in y /\ carry[i - 1])

\* The carries of Plus are those of an addition.
LEMMA CarriesAre ==
    ASSUME NEW x, NEW y
    PROVE  \E carry : /\ Carries(carry, x, y)
                      /\ Plus(x, y) = {i \in Positions : (i \in x) # ((i \in y) # carry[i])}
<1> DEFINE n == 31
           first == FALSE
           next(i, c) == IF i - 1 \in x THEN i - 1 \in y \/ c ELSE i - 1 \in y /\ c
           step == [i \in 1 .. n |-> [c \in BOOLEAN |-> next(i, c)]]
<1>1. n \in Nat /\ first \in BOOLEAN
    OBVIOUS
<1>2. ASSUME NEW i, NEW c \in BOOLEAN PROVE next(i, c) \in BOOLEAN
    OBVIOUS
<1> HIDE DEF next
<1>3. step \in [1 .. n -> [BOOLEAN -> BOOLEAN]]
    BY <1>2
<1>4. PICK f \in [0 .. n -> BOOLEAN] : Follows(f, n, first, step)
    <2> HIDE DEF step, n, first
    <2> QED
        BY <1>1, <1>3, PrimitiveRecursion
<1>5. ASSUME NEW i \in 1 .. n PROVE f[i] = next(i, f[i - 1])
    <2>1. i - 1 \in 0 .. n
        OBVIOUS
    <2>2. f[i - 1] \in BOOLEAN /\ f[i] = step[i][f[i - 1]]
        BY <1>4, <2>1 DEF Follows
    <2> QED
        BY <2>2
<1> DEFINE carry[i \in Positions] ==
               i > 0 /\ LET j == i - 1
                        IN IF j \in x THEN j \in y \/ carry[j] ELSE j \in y /\ carry[j]
<1>6. f = [i \in Positions |->
              i > 0 /\ LET j == i - 1
                       IN IF j \in x THEN j \in y \/ f[j] ELSE j \in y /\ f[j]]
    <2>1. Positions = 0 .. n
        BY DEF Positions
    <2>2. ASSUME NEW i \in 0 .. n
          PROVE  f[i] = (i > 0 /\ next(i, f[i - 1]))
        <3>1. CASE i = 0
            <4>1. f[0] = FALSE
                BY <1>4 DEF Follows
            <4>2. ~ (i > 0)
                BY <3>1
            <4> QED
                BY <3>1, <4>1, <4>2, Zenon
        <3>2. CASE i \in 1 .. n
            <4>1. i > 0 /\ i - 1 \in 0 .. n
                BY <3>2
            <4>2. f[i - 1] \in BOOLEAN /\ f[i] = next(i, f[i - 1])
                BY <1>4, <1>5, <3>2, <4>1
            <4>3. next(i, f[i - 1]) \in BOOLEAN
                BY <1>2, <4>2
            <4> QED
                BY <4>1, <4>2, <4>3, Zenon
        <3> QED
            BY <3>1, <3>2
    <2>3. f = [i \in 0 .. n |-> f[i]]
        BY <1>4
    <2>4. f = [i \in 0 .. n |-> i > 0 /\ next(i, f[i - 1])]
        BY <2>2, <2>3, Zenon
    <2> QED
        BY <2>1, <2>4, Zenon DEF next
<1>7. carry = [i \in Positions |->
                  i > 0 /\ LET j == i - 1
                           IN IF j \in x THEN j \in y \/ carry[j] ELSE j \in y /\ carry[j]]
    BY <1>6, Zenon
<1>8. Plus(x, y) = {i \in Positions : (i \in x) # ((i \in y) # carry[i])}
    BY Zenon DEF Plus
<1> HIDE DEF carry
<1>9. Carries(carry, x, y)
    BY <1>7, Zenon DEF Carries
<1> QED
    BY <1>8, <1>9

\* One position of an addition: what the bits and the carry are worth is what the
\* bit of the sum and the next carry are, which is worth two.
LEMMA FullAdder ==
    ASSUME NEW X \in BOOLEAN, NEW Y \in BOOLEAN, NEW C \in BOOLEAN, NEW a \in Nat,
           NEW low \in Nat, NEW f \in Nat, NEW g \in Nat,
           low + (IF C THEN a ELSE 0) = f + g
    PROVE  (low + (IF X # (Y # C) THEN a ELSE 0))
              + (IF (IF X THEN Y \/ C ELSE Y /\ C) THEN 2 * a ELSE 0)
              = (f + (IF X THEN a ELSE 0)) + (g + (IF Y THEN a ELSE 0))
<1> DEFINE Sum == X # (Y # C)
           Out == IF X THEN Y \/ C ELSE Y /\ C
<1>1. X /\ Y /\ C => Sum /\ Out
    BY Zenon
<1>2. X /\ Y /\ ~C => ~Sum /\ Out
    BY Zenon
<1>3. X /\ ~Y /\ C => ~Sum /\ Out
    BY Zenon
<1>4. X /\ ~Y /\ ~C => Sum /\ ~Out
    BY Zenon
<1>5. ~X /\ Y /\ C => ~Sum /\ Out
    BY Zenon
<1>6. ~X /\ Y /\ ~C => Sum /\ ~Out
    BY Zenon
<1>7. ~X /\ ~Y /\ C => Sum /\ ~Out
    BY Zenon
<1>8. ~X /\ ~Y /\ ~C => ~Sum /\ ~Out
    BY Zenon
<1>9. Sum \in BOOLEAN /\ Out \in BOOLEAN
    BY Zenon
<1> HIDE DEF Sum, Out
<1>10. (low + (IF Sum THEN a ELSE 0)) + (IF Out THEN 2 * a ELSE 0)
          = (f + (IF X THEN a ELSE 0)) + (g + (IF Y THEN a ELSE 0))
    BY <1>1, <1>2, <1>3, <1>4, <1>5, <1>6, <1>7, <1>8, <1>9
<1> QED
    BY <1>10 DEF Sum, Out

\* What Sha256 writes with carries is the addition of std::uint32_t: the sum of two
\* words is the sum of their numbers modulo 2^32.
THEOREM PlusIsAddition ==
    ASSUME NEW x, NEW y
    PROVE  NumberOf(Plus(x, y)) = (NumberOf(x) + NumberOf(y)) % 2^32
<1> DEFINE sum == Plus(x, y)
<1>1. PICK carry : /\ Carries(carry, x, y)
                   /\ sum = {i \in Positions : (i \in x) # ((i \in y) # carry[i])}
    BY CarriesAre
<1> HIDE DEF sum
<1>2. PICK f : CountsBits(f, x) /\ NumberOf(x) = f[32]
    BY NumberIs
<1>3. PICK g : CountsBits(g, y) /\ NumberOf(y) = g[32]
    BY NumberIs
<1>4. PICK low : CountsBits(low, sum) /\ NumberOf(sum) = low[32]
    BY NumberIs
<1> DEFINE Out(k) == /\ k > 0
                     /\ IF k - 1 \in x THEN k - 1 \in y \/ carry[k - 1]
                                       ELSE k - 1 \in y /\ carry[k - 1]
           Agrees(k) == /\ f[k] \in Nat /\ g[k] \in Nat /\ low[k] \in Nat /\ low[k] < 2^k
                        /\ low[k] + (IF Out(k) THEN 2^k ELSE 0) = f[k] + g[k]
           Done == {k \in 0 .. 32 : Agrees(k)}
<1>5. 0 \in Done
    <2>1. f[0] = 0 /\ g[0] = 0 /\ low[0] = 0 /\ ~ Out(0)
        BY <1>2, <1>3, <1>4 DEF CountsBits
    <2>2. 0 < 2^0
        BY PowerOfZero
    <2> HIDE DEF Out
    <2> QED
        BY <2>1, <2>2
<1>6. ASSUME NEW k \in 0 .. 32, k < 32, k \in Done PROVE k + 1 \in Done
    <2> DEFINE j == k + 1
               a == 2^k
               X == k \in x
               Y == k \in y
               C == Out(k)
    <2>1. j \in 0 .. 32 /\ j \in 1 .. 32 /\ j - 1 = k /\ k \in Nat /\ k \in Positions /\ j > 0
        BY <1>6 DEF Positions
    <2>2. a \in Nat /\ 2^j = 2 * a
        BY <2>1, PowerDoubles
    <2>3. carry[k] = C
        BY <1>1, <2>1, Zenon DEF Carries
    <2>4. /\ f[k] \in Nat /\ g[k] \in Nat /\ low[k] \in Nat /\ low[k] < a
          /\ low[k] + (IF C THEN a ELSE 0) = f[k] + g[k]
        BY <1>6
    <2> HIDE DEF j
    <2>5. Out(j) <=> IF X THEN Y \/ C ELSE Y /\ C
        BY <2>1, <2>3, Zenon
    <2> HIDE DEF Out
    <2>6. k \in sum <=> (X # (Y # C))
        <3>1. k \in sum <=> (X # (Y # carry[k]))
            BY <1>1, <2>1
        <3> QED
            BY <2>3, <3>1, Zenon
    <2>7. f[j] = f[k] + (IF X THEN a ELSE 0)
        <3>1. f[j] = f[j - 1] + (IF j - 1 \in x THEN 2^(j - 1) ELSE 0)
            BY <1>2, <2>1 DEF CountsBits
        <3> QED
            BY <2>1, <3>1, Zenon
    <2>8. g[j] = g[k] + (IF Y THEN a ELSE 0)
        <3>1. g[j] = g[j - 1] + (IF j - 1 \in y THEN 2^(j - 1) ELSE 0)
            BY <1>3, <2>1 DEF CountsBits
        <3> QED
            BY <2>1, <3>1, Zenon
    <2>9. low[j] = low[k] + (IF X # (Y # C) THEN a ELSE 0)
        <3>1. low[j] = low[j - 1] + (IF j - 1 \in sum THEN 2^(j - 1) ELSE 0)
            BY <1>4, <2>1 DEF CountsBits
        <3>2. low[j] = low[k] + (IF k \in sum THEN a ELSE 0)
            BY <2>1, <3>1, Zenon
        <3> QED
            BY <2>6, <3>2
    <2> HIDE DEF a, X, Y, C
    <2>10. X \in BOOLEAN /\ Y \in BOOLEAN /\ C \in BOOLEAN
        BY DEF X, Y, C, Out
    <2>11. (low[k] + (IF X # (Y # C) THEN a ELSE 0))
              + (IF (IF X THEN Y \/ C ELSE Y /\ C) THEN 2 * a ELSE 0)
              = (f[k] + (IF X THEN a ELSE 0)) + (g[k] + (IF Y THEN a ELSE 0))
        BY <2>2, <2>4, <2>10, FullAdder
    <2>12. low[j] + (IF Out(j) THEN 2^j ELSE 0) = f[j] + g[j]
        <3>1. (IF Out(j) THEN 2^j ELSE 0)
                 = (IF (IF X THEN Y \/ C ELSE Y /\ C) THEN 2 * a ELSE 0)
            BY <2>2, <2>5
        <3> QED
            BY <2>7, <2>8, <2>9, <2>11, <3>1, Zenon
    <2>13. f[j] \in Nat /\ g[j] \in Nat
        BY <2>2, <2>4, <2>7, <2>8
    <2>14. low[j] \in Nat /\ low[j] < 2^j
        BY <2>2, <2>4, <2>9
    <2> QED
        BY <2>1, <2>12, <2>13, <2>14 DEF j
<1>7. Agrees(32)
    <2>1. 32 \in Nat /\ 32 \in 0 .. 32
        OBVIOUS
    <2> HIDE DEF Done
    <2>2. \A k \in 0 .. 32 : k \in Done
        BY <1>5, <1>6, <2>1, BoundedInduction
    <2>3. 32 \in Done
        BY <2>1, <2>2
    <2> HIDE DEF Agrees
    <2> QED
        BY <2>3 DEF Done
<1> DEFINE all == 2^32
           r == low[32]
           t == f[32] + g[32]
<1>8. /\ all \in Nat \ {0} /\ r \in 0 .. all - 1 /\ f[32] \in Nat /\ g[32] \in Nat
      /\ r + (IF Out(32) THEN all ELSE 0) = t
    <2>1. all \in Nat \ {0}
        BY PowerPositive
    <2> HIDE DEF Out, all
    <2> QED
        BY <1>7, <2>1 DEF all
<1> HIDE DEF all, r, t, Out
<1>9. t % all = r
    <2>1. CASE Out(32)
        <3>1. t = all * 1 + r
            BY <1>8, <2>1
        <3> QED
            BY <1>8, <3>1, DivisionUnique
    <2>2. CASE ~ Out(32)
        <3>1. t = all * 0 + r
            BY <1>8, <2>2
        <3> QED
            BY <1>8, <3>1, DivisionUnique
    <2> QED
        BY <2>1, <2>2
<1> QED
    BY <1>2, <1>3, <1>4, <1>9, Zenon DEF sum, all, r, t

-----------------------------------------------------------------------------
(* The properties of the specification.                                    *)

\* Nothing is called yet.
LEMMA TypeInit == FunctionsInit => TypeOK
<1> SUFFICES ASSUME FunctionsInit PROVE TypeOK
    OBVIOUS
<1>1. input = NoInput /\ ShaInit
    BY DEF FunctionsInit
<1>2. /\ Has("none") => input = NoInput /\ stage = "idle"
      /\ Has("hash") => input.hash \in Hashes
      /\ Has("nonce") => input.nonce \in Nonces
      /\ Has("message") => input.message \in Messages
      /\ Has("text") => <<input.text, input.after>> \in Texts
      /\ Has("file") => input.file \in Files
      /\ Has("known") => input.known \in Known
    BY <1>1 DEF Has, NoInput, ShaInit
<1>3. ShaTypeOK
    <2>1. /\ stage = "idle" /\ passes = 0 /\ msg = <<>> /\ offset = 0
        BY <1>1 DEF ShaInit
    <2>2. msg \in Seq(0 .. 255) /\ Len(msg) = 0
        BY <2>1
    <2>3. Len(msg) % 64 = 0 /\ offset \in 0 .. Len(msg) /\ offset % 64 = 0
        BY <2>1, <2>2
    <2> QED
        BY <2>1, <2>2, <2>3 DEF ShaTypeOK
<1> QED
    BY <1>2, <1>3 DEF TypeOK

\* A step of others leaves double_sha256 where it is.
LEMMA ShaStutter == ShaTypeOK /\ UNCHANGED shaVars => ShaTypeOK'
<1> SUFFICES ASSUME ShaTypeOK, UNCHANGED shaVars PROVE ShaTypeOK'
    OBVIOUS
<1>1. /\ stage' = stage /\ passes' = passes /\ msg' = msg /\ offset' = offset /\ h' = h
      /\ w' = w /\ v' = v /\ round' = round /\ out' = out
    BY DEF shaVars
<1>2. /\ stage' \in {"idle", "block", "schedule", "rounds", "done"}
      /\ passes' \in (IF stage' = "idle" THEN {0} ELSE 1 .. 2)
    BY <1>1, Zenon DEF ShaTypeOK
<1>3. /\ msg' \in Seq(0 .. 255) /\ Len(msg') % 64 = 0
      /\ offset' \in 0 .. Len(msg') /\ offset' % 64 = 0
      /\ stage' \in {"schedule", "rounds"} => offset' + 64 <= Len(msg')
    BY <1>1, Zenon DEF ShaTypeOK
<1>4. /\ stage' # "idle" => h' \in [1 .. 8 -> ShaWord]
      /\ stage' = "schedule" => w' \in Seq(ShaWord) /\ Len(w') \in 16 .. 64
    BY <1>1, Zenon DEF ShaTypeOK
<1>5. /\ stage' = "rounds" =>
            w' \in [1 .. 64 -> ShaWord] /\ v' \in [1 .. 8 -> ShaWord] /\ round' \in 0 .. 64
      /\ stage' = "done" => out' \in [1 .. 32 -> 0 .. 255]
    BY <1>1, Zenon DEF ShaTypeOK
<1> QED
    BY <1>2, <1>3, <1>4, <1>5, Zenon DEF ShaTypeOK

\* Each step calls one function, or is one of double_sha256.
LEMMA TypeStep == TypeOK /\ [FunctionsNext]_functionVars => TypeOK'
<1> SUFFICES ASSUME TypeOK, [FunctionsNext]_functionVars PROVE TypeOK'
    OBVIOUS
<1>1. ShaTypeOK
    BY DEF TypeOK
<1>2. ASSUME NEW chosen, Pick(chosen) PROVE ShaTypeOK' /\ stage' = stage /\ input' = chosen
    <2>1. UNCHANGED shaVars /\ input' = chosen
        BY <1>2 DEF Pick
    <2>2. ShaTypeOK'
        BY <1>1, <2>1, ShaStutter
    <2>3. stage' = stage
        BY <2>1 DEF shaVars
    <2> QED
        BY <2>1, <2>2, <2>3
<1>3. CASE input = NoInput /\ PickInput
    <2>1. ASSUME NEW hash \in Hashes, Pick([hash |-> hash]) PROVE TypeOK'
        BY <1>2, <2>1 DEF TypeOK, Has
    <2>2. ASSUME NEW nonce \in Nonces, Pick([nonce |-> nonce]) PROVE TypeOK'
        BY <1>2, <2>2 DEF TypeOK, Has
    <2>3. ASSUME NEW data \in Messages, Pick([message |-> data]) PROVE TypeOK'
        BY <1>2, <2>3 DEF TypeOK, Has
    <2>4. ASSUME NEW line \in Texts, Pick([text |-> line[1], after |-> line[2]]) PROVE TypeOK'
        <3>1. /\ ShaTypeOK' /\ input'.text = line[1] /\ input'.after = line[2]
              /\ DOMAIN input' = {"text", "after"}
            BY <1>2, <2>4
        <3>2. <<line[1], line[2]>> = line
            BY FunctionsAssumption
        <3> QED
            BY <3>1, <3>2 DEF TypeOK, Has
    <2>5. ASSUME NEW known \in Known, input' = [known |-> known], Hash(known.message)
          PROVE  TypeOK'
        <3>1. known.message \in Seq(Byte)
            BY FunctionsAssumption
        <3>2. passes \in 0 .. 1
            BY <1>1, <1>3 DEF TypeOK, Has, NoInput, ShaTypeOK
        <3>3. ShaTypeOK'
            BY <2>5, <3>1, <3>2, HashType
        <3> QED
            BY <2>5, <3>3 DEF TypeOK, Has
    <2>6. ASSUME NEW file \in Files, Pick([file |-> file]) PROVE TypeOK'
        BY <1>2, <2>6 DEF TypeOK, Has
    <2> QED
        BY <1>3, <2>1, <2>2, <2>3, <2>4, <2>5, <2>6
        DEF PickInput, PickHash, PickNonce, PickMessage, PickText, PickFile, HashKnown
<1>4. CASE ShaNext /\ UNCHANGED input
    <2>1. ShaTypeOK' /\ ~ Has("none")
        BY <1>1, <1>4, ShaStepType DEF TypeOK
    <2> QED
        BY <1>4, <2>1 DEF TypeOK, Has
<1>5. CASE UNCHANGED functionVars
    <2>1. UNCHANGED <<input, stage>> /\ UNCHANGED shaVars
        BY <1>5 DEF functionVars, shaVars
    <2>2. ShaTypeOK'
        BY <1>1, <2>1, ShaStutter
    <2> QED
        BY <2>1, <2>2 DEF TypeOK, Has
<1> QED
    BY <1>3, <1>4, <1>5 DEF FunctionsNext

\* double_sha256 never leaves its buffers, whatever it hashes: a whole block is left
\* where one is loaded, the schedule is complete in the rounds and the digest has 32
\* bytes.
THEOREM BuffersHold == FunctionsSpec => []TypeOK
<1>1. FunctionsInit => TypeOK
    BY TypeInit
<1>2. TypeOK /\ [FunctionsNext]_functionVars => TypeOK'
    BY TypeStep
<1> QED
    BY <1>1, <1>2, PTL DEF FunctionsSpec

\* The difficulty test counts leading zero bits, for every hash of bytes and every
\* difficulty.
THEOREM DifficultyIsCounted == FunctionsSpec => []DifficultyCounts
<1>1. TypeOK => DifficultyCounts
    <2> SUFFICES ASSUME TypeOK, Has("hash") PROVE CountsLeadingZeros(input.hash, Difficulties)
        BY DEF DifficultyCounts
    <2>1. input.hash \in Seq(Byte)
        BY FunctionsAssumption DEF TypeOK
    <2>2. CountsLeadingZeros(input.hash, Nat)
        BY <2>1, CountingIsRight
    <2> QED
        BY <2>2, FunctionsAssumption DEF CountsLeadingZeros
<1> QED
    BY <1>1, BuffersHold, PTL

\* Every hash is printed as it is, and every nonce is submitted as it was hashed.
THEOREM FormsAgree == FunctionsSpec => []HexAgrees
<1>1. TypeOK => HexAgrees
    <2> SUFFICES ASSUME TypeOK PROVE HexAgrees
        OBVIOUS
    <2>1. Has("hash") => HexIsFaithful(input.hash)
        BY FunctionsAssumption, PrintingIsFaithful DEF TypeOK
    <2>2. Has("nonce") => SubmitsHashedNonce(input.nonce)
        BY FunctionsAssumption, SubmittingIsFaithful DEF TypeOK
    <2> QED
        BY <2>1, <2>2 DEF HexAgrees
<1> QED
    BY <1>1, BuffersHold, PTL

\* Every message of less than 2^61 bytes is padded as the standard says.
THEOREM EveryPaddingStandard == FunctionsSpec => []PaddingStandard
<1>1. TypeOK => PaddingStandard
    BY FunctionsAssumption, PaddingIsRight DEF TypeOK, PaddingStandard
<1> QED
    BY <1>1, BuffersHold, PTL

\* Every text survives its escaping, whatever follows it in the line, and what
\* is written has no control character but those that are not escaped.
THEOREM EveryTextSurvives == FunctionsSpec => []EscapeSurvives
<1>1. TypeOK => EscapeSurvives
    <2> SUFFICES ASSUME TypeOK, Has("text") PROVE SurvivesEscape(input.text, input.after)
        BY DEF EscapeSurvives
    <2>1. <<input.text, input.after>> \in Seq(Symbols) \X Seq(Symbols)
        BY FunctionsAssumption DEF TypeOK
    <2> QED
        BY <2>1, EscapingIsRight
<1> QED
    BY <1>1, BuffersHold, PTL
=============================================================================
