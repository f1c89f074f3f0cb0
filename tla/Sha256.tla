------------------------------- MODULE Sha256 -------------------------------
(***************************************************************************)
(* sha256.cpp.  A word is the set of the positions, 0 to 31, of its one    *)
(* bits: the logical functions are set operations, and only the addition   *)
(* modulo 2^32 needs its carries.  A message is a sequence of bytes.       *)
(***************************************************************************)
EXTENDS Naturals, Sequences

Positions == 0 .. 31

Ones(number, width) == {i \in 0 .. (width - 1) : (number \div 2^i) % 2 = 1}
Shifted(bits, by) == {i + by : i \in bits}

\* The word of two halves.
Word(high, low) == Shifted(Ones(high, 16), 16) \cup Ones(low, 16)

Xor(x, y) == (x \ y) \cup (y \ x)
And(x, y) == x \cap y
Not(x) == Positions \ x
Shr(x, n) == {i - n : i \in {j \in x : j >= n}}

\* The carry into each position of a sum, and the sum modulo 2^32.
Plus(x, y) ==
    LET carry[i \in Positions] ==
            i > 0 /\ LET j == i - 1
                     IN IF j \in x THEN j \in y \/ carry[j] ELSE j \in y /\ carry[j]
    IN {i \in Positions : (i \in x) # ((i \in y) # carry[i])}

rotr(x, n) == {(i + 32 - n) % 32 : i \in x}
ch(x, y, z) == Xor(And(x, y), And(Not(x), z))
maj(x, y, z) == Xor(Xor(And(x, y), And(x, z)), And(y, z))
big_sigma0(x) == Xor(Xor(rotr(x, 2), rotr(x, 13)), rotr(x, 22))
big_sigma1(x) == Xor(Xor(rotr(x, 6), rotr(x, 11)), rotr(x, 25))
small_sigma0(x) == Xor(Xor(rotr(x, 7), rotr(x, 18)), Shr(x, 3))
small_sigma1(x) == Xor(Xor(rotr(x, 17), rotr(x, 19)), Shr(x, 10))

Table(halves) == [i \in DOMAIN halves |-> Word(halves[i][1], halves[i][2])]

K == Table(<<
    <<\h428a, \h2f98>>, <<\h7137, \h4491>>, <<\hb5c0, \hfbcf>>, <<\he9b5, \hdba5>>,
    <<\h3956, \hc25b>>, <<\h59f1, \h11f1>>, <<\h923f, \h82a4>>, <<\hab1c, \h5ed5>>,
    <<\hd807, \haa98>>, <<\h1283, \h5b01>>, <<\h2431, \h85be>>, <<\h550c, \h7dc3>>,
    <<\h72be, \h5d74>>, <<\h80de, \hb1fe>>, <<\h9bdc, \h06a7>>, <<\hc19b, \hf174>>,
    <<\he49b, \h69c1>>, <<\hefbe, \h4786>>, <<\h0fc1, \h9dc6>>, <<\h240c, \ha1cc>>,
    <<\h2de9, \h2c6f>>, <<\h4a74, \h84aa>>, <<\h5cb0, \ha9dc>>, <<\h76f9, \h88da>>,
    <<\h983e, \h5152>>, <<\ha831, \hc66d>>, <<\hb003, \h27c8>>, <<\hbf59, \h7fc7>>,
    <<\hc6e0, \h0bf3>>, <<\hd5a7, \h9147>>, <<\h06ca, \h6351>>, <<\h1429, \h2967>>,
    <<\h27b7, \h0a85>>, <<\h2e1b, \h2138>>, <<\h4d2c, \h6dfc>>, <<\h5338, \h0d13>>,
    <<\h650a, \h7354>>, <<\h766a, \h0abb>>, <<\h81c2, \hc92e>>, <<\h9272, \h2c85>>,
    <<\ha2bf, \he8a1>>, <<\ha81a, \h664b>>, <<\hc24b, \h8b70>>, <<\hc76c, \h51a3>>,
    <<\hd192, \he819>>, <<\hd699, \h0624>>, <<\hf40e, \h3585>>, <<\h106a, \ha070>>,
    <<\h19a4, \hc116>>, <<\h1e37, \h6c08>>, <<\h2748, \h774c>>, <<\h34b0, \hbcb5>>,
    <<\h391c, \h0cb3>>, <<\h4ed8, \haa4a>>, <<\h5b9c, \hca4f>>, <<\h682e, \h6ff3>>,
    <<\h748f, \h82ee>>, <<\h78a5, \h636f>>, <<\h84c8, \h7814>>, <<\h8cc7, \h0208>>,
    <<\h90be, \hfffa>>, <<\ha450, \h6ceb>>, <<\hbef9, \ha3f7>>, <<\hc671, \h78f2>>>>)

InitialHash == Table(<<
    <<\h6a09, \he667>>, <<\hbb67, \hae85>>, <<\h3c6e, \hf372>>, <<\ha54f, \hf53a>>,
    <<\h510e, \h527f>>, <<\h9b05, \h688c>>, <<\h1f83, \hd9ab>>, <<\h5be0, \hcd19>>>>)

-----------------------------------------------------------------------------
(* Padding.                                                                *)

\* Mutant: the length field is forgotten when the blocks are counted.
TotalLenShort(len) == ((len + 1 + 63) \div 64) * 64

\* The marker and the length need 9 bytes; std::size_t has 64 bits.
TotalLen(len) == ((len + 9 + 63) \div 64) * 64

\* (bit_len >> (i * 8)) & 0xFF, in two shifts: TLC's numbers end below 2^31.
LengthByte(len, i) == (((8 * len) \div 2^(4 * i)) \div 2^(4 * i)) % 256

Padded(data) ==
    LET len == Len(data)
        total_len == TotalLen(len)
    IN [j \in 1 .. total_len |->
            IF j > total_len - 8 THEN LengthByte(len, total_len - j)
            ELSE IF j = len + 1 THEN 128
            ELSE IF j <= len THEN data[j]
            ELSE 0]

-----------------------------------------------------------------------------
(* double_sha256, one step per round of its loops.                         *)

VARIABLES
    stage,          \* which loop it is in
    passes,         \* how many messages it has begun to hash: at most two
    msg,            \* the padded message
    offset,         \* the bytes of it that have been compressed
    h,              \* the hash so far
    w,              \* the schedule of the block
    v,              \* the working variables a to hh
    round,          \* how many of the 64 rounds they have seen
    out             \* the digest

shaVars == <<stage, passes, msg, offset, h, w, v, round, out>>

ShaInit ==
    /\ stage = "idle"
    /\ passes = 0
    /\ msg = <<>>
    /\ offset = 0
    /\ h = <<>>
    /\ w = <<>>
    /\ v = <<>>
    /\ round = 0
    /\ out = <<>>

\* sha256(data) is called.
Hash(data) ==
    /\ stage' = "block"
    /\ passes' = passes + 1
    /\ msg' = Padded(data)
    /\ offset' = 0
    /\ h' = InitialHash
    /\ UNCHANGED <<w, v, round, out>>

\* Four bytes of the message, the highest first.
MessageWord(j) == Word(256 * msg[j + 1] + msg[j + 2], 256 * msg[j + 3] + msg[j + 4])

LoadBlock ==
    /\ stage = "block"
    /\ offset < Len(msg)
    /\ w' = [i \in 1 .. 16 |-> MessageWord(offset + 4 * (i - 1))]
    /\ stage' = "schedule"
    /\ UNCHANGED <<passes, msg, offset, h, v, round, out>>

\* Mutant: one word of the schedule is taken from the wrong place.
ExtendScheduleWrong ==
    /\ stage = "schedule"
    /\ Len(w) < 64
    /\ LET i == Len(w) + 1
       IN w' = Append(w, Plus(Plus(small_sigma1(w[i - 2]), w[i - 6]),
                              Plus(small_sigma0(w[i - 15]), w[i - 16])))
    /\ UNCHANGED <<stage, passes, msg, offset, h, v, round, out>>

ExtendSchedule ==
    /\ stage = "schedule"
    /\ Len(w) < 64
    /\ LET i == Len(w) + 1
       IN w' = Append(w, Plus(Plus(small_sigma1(w[i - 2]), w[i - 7]),
                              Plus(small_sigma0(w[i - 15]), w[i - 16])))
    /\ UNCHANGED <<stage, passes, msg, offset, h, v, round, out>>

\* Mutant: the rounds begin before the schedule is complete.
BeginRoundsEarly ==
    /\ stage = "schedule"
    /\ v' = h
    /\ round' = 0
    /\ stage' = "rounds"
    /\ UNCHANGED <<passes, msg, offset, h, w, out>>

BeginRounds ==
    /\ stage = "schedule"
    /\ Len(w) = 64
    /\ v' = h
    /\ round' = 0
    /\ stage' = "rounds"
    /\ UNCHANGED <<passes, msg, offset, h, w, out>>

Round ==
    /\ stage = "rounds"
    /\ round < 64
    /\ LET t1 == Plus(Plus(Plus(v[8], big_sigma1(v[5])), ch(v[5], v[6], v[7])),
                      Plus(K[round + 1], w[round + 1]))
           t2 == Plus(big_sigma0(v[1]), maj(v[1], v[2], v[3]))
       IN v' = <<Plus(t1, t2), v[1], v[2], v[3], Plus(v[4], t1), v[5], v[6], v[7]>>
    /\ round' = round + 1
    /\ UNCHANGED <<stage, passes, msg, offset, h, w, out>>

EndBlock ==
    /\ stage = "rounds"
    /\ round = 64
    /\ h' = [i \in 1 .. 8 |-> Plus(h[i], v[i])]
    /\ offset' = offset + 64
    /\ stage' = "block"
    /\ UNCHANGED <<passes, msg, w, v, round, out>>

\* The eight bits of a word from position `low' on, as a number.
ByteOf(word, low) ==
    CHOOSE byte \in 0 .. 255 : Shifted(Ones(byte, 8), low) = word \cap (low .. low + 7)

Digest ==
    [k \in 1 .. 32 |-> ByteOf(h[(k + 3) \div 4], 8 * (3 - ((k - 1) % 4)))]

ReturnDigest ==
    /\ stage = "block"
    /\ offset = Len(msg)
    /\ out' = Digest
    /\ stage' = "done"
    /\ UNCHANGED <<passes, msg, offset, h, w, v, round>>

\* double_sha256 hashes the digest.
HashDigest ==
    /\ stage = "done"
    /\ passes = 1
    /\ Hash(out)

ShaNext ==
    \/ LoadBlock
    \/ ExtendSchedule
    \/ BeginRounds
    \/ Round
    \/ EndBlock
    \/ ReturnDigest
    \/ HashDigest

-----------------------------------------------------------------------------
(* What it must compute.                                                   *)

ShaWord == SUBSET Positions

\* Every index of the loops is inside what it indexes: a whole block of the message
\* is left where one is loaded or being hashed, the schedule is complete in the
\* rounds, and the digest has its 32 bytes.
ShaTypeOK ==
    /\ stage \in {"idle", "block", "schedule", "rounds", "done"}
    /\ passes \in (IF stage = "idle" THEN {0} ELSE 1 .. 2)
    /\ msg \in Seq(0 .. 255) /\ Len(msg) % 64 = 0
    /\ offset \in 0 .. Len(msg) /\ offset % 64 = 0
    /\ stage \in {"schedule", "rounds"} => offset + 64 <= Len(msg)
    /\ stage # "idle" => h \in [1 .. 8 -> ShaWord]
    /\ stage = "schedule" => w \in Seq(ShaWord) /\ Len(w) \in 16 .. 64
    /\ stage = "rounds" =>
          w \in [1 .. 64 -> ShaWord] /\ v \in [1 .. 8 -> ShaWord] /\ round \in 0 .. 64
    /\ stage = "done" => out \in [1 .. 32 -> 0 .. 255]

\* FIPS 180-4, 5.1.1: the message, a one bit, the least number of zero bits
\* that leaves room for the 64-bit length at the end of a block, the length.
PaddingIsStandard(data) ==
    LET len == Len(data)
        zeros == CHOOSE k \in 0 .. 63 : (len + 1 + k) % 64 = 56
        padded == Padded(data)
    IN /\ padded = data \o <<128>> \o [i \in 1 .. zeros |-> 0]
                     \o SubSeq(padded, Len(padded) - 7, Len(padded))
       /\ Len(padded) % 64 = 0
       /\ LET value[i \in 0 .. 8] ==
                  IF i = 0 THEN 0 ELSE 256 * value[i - 1] + padded[Len(padded) - 8 + i]
          IN value[8] = 8 * len
=============================================================================
