--------------------------- MODULE PureFunctions ---------------------------
(***************************************************************************)
(* The functions that mine() and the client call and that keep no state:   *)
(* the difficulty test, the forms of a hash and of a nonce, SHA-256, the   *)
(* escaping of a text and the parser of the configuration (whose operators *)
(* are in JsonText).  The first step calls one of them with one of the     *)
(* inputs; double_sha256 then takes its steps.                             *)
(***************************************************************************)
EXTENDS Job, Sha256, JsonString

CONSTANTS
    Hashes,         \* the hashes that are tested and printed
    Difficulties,   \* the numbers of leading zero bits that are asked for
    Nonces,         \* std::uint32_t
    Messages,       \* what is padded
    Known,          \* messages with their digests and double digests
    Symbols,        \* what a text is made of
    Texts,          \* texts that are escaped, and what follows them in the line
    Files           \* what the parser is given

\* A longer message has no bit length of 64 bits.
ASSUME FunctionsAssumption ==
    /\ Hashes \subseteq Seq(Byte)
    /\ Difficulties \subseteq Nat
    /\ Nonces \subseteq Nat
    /\ \A nonce \in Nonces : nonce \div 2^16 < 2^16
    /\ Messages \subseteq Seq(Byte)
    /\ \A data \in Messages : (Len(data) \div 2^30) \div 2^30 < 2
    /\ \A known \in Known : known.message \in Messages
    /\ Texts \subseteq Seq(Symbols) \X Seq(Symbols)

VARIABLE input

NoInput == [none |-> TRUE]
Has(kind) == kind \in DOMAIN input

FunctionsInit == input = NoInput /\ ShaInit

Pick(chosen) == input' = chosen /\ UNCHANGED shaVars

PickHash == \E hash \in Hashes : Pick([hash |-> hash])
PickNonce == \E nonce \in Nonces : Pick([nonce |-> nonce])
PickMessage == \E data \in Messages : Pick([message |-> data])
PickText == \E line \in Texts : Pick([text |-> line[1], after |-> line[2]])
PickFile == \E file \in Files : Pick([file |-> file])

HashKnown ==
    \E known \in Known :
        /\ input' = [known |-> known]
        /\ Hash(known.message)

PickInput ==
    \/ PickHash
    \/ PickNonce
    \/ PickMessage
    \/ PickText
    \/ PickFile
    \/ HashKnown

FunctionsNext ==
    \/ input = NoInput /\ PickInput
    \/ ShaNext /\ UNCHANGED input

functionVars == <<input, shaVars>>

FunctionsSpec == FunctionsInit /\ [][FunctionsNext]_functionVars

-----------------------------------------------------------------------------
(* Properties.                                                             *)

\* What was called, and that double_sha256 stays inside its buffers.
TypeOK ==
    /\ Has("none") => input = NoInput /\ stage = "idle"
    /\ Has("hash") => input.hash \in Hashes
    /\ Has("nonce") => input.nonce \in Nonces
    /\ Has("message") => input.message \in Messages
    /\ Has("text") => <<input.text, input.after>> \in Texts
    /\ Has("file") => input.file \in Files
    /\ Has("known") => input.known \in Known
    /\ ShaTypeOK

\* meets_difficulty counts leading zero bits, for whole bytes, the masked one
\* and difficulties of 0 and beyond the width of a hash.
DifficultyCounts == Has("hash") => CountsLeadingZeros(input.hash, Difficulties)

\* What is printed of a hash is that hash, and what is submitted of a nonce is
\* the nonce whose four bytes were hashed.
HexAgrees ==
    /\ Has("hash") => HexIsFaithful(input.hash)
    /\ Has("nonce") => SubmitsHashedNonce(input.nonce)

\* sha256 pads as the standard says, at every place in a block.
PaddingStandard == Has("message") => PaddingIsStandard(input.message)

\* sha256 and double_sha256 compute the known digests.
KnownDigests ==
    Has("known") /\ stage = "done" =>
        out = IF passes = 1 THEN input.known.single ELSE input.known.double

\* Whatever a name, a job id or a message holds, the string it is written as ends
\* where it should, says it, and does not break the line it is in.  Well-formed
\* in the strict sense of RFC 8259 it is exactly if the text has no control
\* character but line ends and tabs.
EscapeSurvives == Has("text") => SurvivesEscape(input.text, input.after)
=============================================================================
