---------------------------- MODULE MCFunctions ----------------------------
(***************************************************************************)
(* The inputs of PureFunctions for TLC, and the properties of the parser.  *)
(***************************************************************************)
EXTENDS PureFunctions, JsonText

\* Hashes of 32 bytes with every number of leading zero bytes, bytes at the powers
\* of two and rests of zeros and of ones; every difficulty up to above the width.
FirstBytes == {2^k : k \in 0 .. 7} \cup {2^k - 1 : k \in 2 .. 8}
MCHashes ==
    {[i \in 1 .. 32 |-> IF i <= zeros THEN 0 ELSE IF i = zeros + 1 THEN first ELSE rest] :
        zeros \in 0 .. 32, first \in FirstBytes, rest \in {0, 255}}
MCDifficulties == 0 .. 264

\* Nonces around the byte boundaries (TLC's integers end at 2^31 - 1).
MCNonces ==
    UNION {{m * 2^k - 1, m * 2^k, m * 2^k + 1} : m \in 1 .. 15, k \in 0 .. 26}
        \cup {2147483646, 2147483647}

\* Messages with their digests and double digests: FIPS 180 gives the first, "abc"
\* and the one of 56 bytes; 55 and 64 bytes are the lengths where the padding just
\* fits and where it fills a block.
MCKnown == {
    [message |-> <<>>,
     single |-> <<227, 176, 196, 66, 152, 252, 28, 20, 154, 251, 244, 200, 153, 111, 185, 36,
                 39, 174, 65, 228, 100, 155, 147, 76, 164, 149, 153, 27, 120, 82, 184, 85>>,
     double |-> <<93, 246, 224, 226, 118, 19, 89, 211, 10, 130, 117, 5, 142, 41, 159, 204,
                 3, 129, 83, 69, 69, 245, 92, 244, 62, 65, 152, 63, 93, 76, 148, 86>>],
    [message |-> <<97, 98, 99>>,
     single |-> <<186, 120, 22, 191, 143, 1, 207, 234, 65, 65, 64, 222, 93, 174, 34, 35,
                 176, 3, 97, 163, 150, 23, 122, 156, 180, 16, 255, 97, 242, 0, 21, 173>>,
     double |-> <<79, 139, 66, 194, 45, 211, 114, 155, 81, 155, 166, 246, 141, 45, 167, 204,
                 91, 45, 96, 109, 5, 218, 237, 90, 213, 18, 140, 192, 62, 108, 99, 88>>],
    [message |-> [i \in 1 .. 56 |-> 97 + ((i - 1) \div 4) + ((i - 1) % 4)],
     single |-> <<36, 141, 106, 97, 210, 6, 56, 184, 229, 192, 38, 147, 12, 62, 96, 57,
                 163, 60, 228, 89, 100, 255, 33, 103, 246, 236, 237, 212, 25, 219, 6, 193>>,
     double |-> <<12, 255, 225, 127, 104, 149, 77, 172, 58, 132, 251, 20, 88, 189, 94, 201,
                 146, 9, 68, 151, 73, 178, 179, 8, 183, 203, 85, 129, 47, 149, 99, 175>>],
    [message |-> [i \in 1 .. 55 |-> 97],
     single |-> <<159, 67, 144, 248, 211, 12, 45, 217, 46, 201, 240, 149, 182, 94, 43, 154,
                 233, 176, 169, 37, 165, 37, 142, 36, 28, 159, 30, 145, 15, 115, 67, 24>>,
     double |-> <<86, 109, 187, 127, 15, 18, 148, 130, 212, 73, 183, 164, 185, 113, 177, 48,
                 47, 19, 161, 165, 225, 250, 238, 144, 74, 10, 39, 11, 43, 111, 90, 125>>],
    [message |-> [i \in 1 .. 64 |-> 97],
     single |-> <<255, 224, 84, 254, 122, 224, 203, 109, 198, 92, 58, 249, 182, 29, 82, 9,
                 244, 57, 133, 29, 180, 61, 11, 165, 153, 115, 55, 223, 21, 70, 104, 235>>,
     double |-> <<100, 210, 132, 36, 114, 90, 111, 33, 158, 251, 23, 214, 248, 228, 3, 103,
                 25, 191, 158, 26, 142, 194, 56, 140, 34, 207, 181, 252, 65, 45, 70, 188>>]}

\* Messages of up to four blocks whose bytes look like padding, and the known ones.
MCMessages ==
    {[i \in 1 .. len |-> byte] : len \in 0 .. 200, byte \in {0, 128, 255}}
        \cup {known.message : known \in MCKnown}

\* Texts with everything that is escaped and letters that an escape may be made of,
\* and what follows them in the line.
MCSymbols == {Quote, Backslash, "LF", "CR", "TAB", "BS", "FF", "n", "/", ",", "a"}
UpTo(n, S) == UNION {[1 .. k -> S] : k \in 0 .. n}
MCTexts == UpTo(4, MCSymbols \ {",", "a"}) \X {<<>>, <<Quote>>, <<",", Quote, "a">>}

-----------------------------------------------------------------------------
(* What the parser is given.  All symbols up to four in a row, those that  *)
(* make the structure of an object up to six; every document of two        *)
(* objects, with and without blanks; and a document with an edit.          *)

MCDigitValue == "0" :> 0 @@ "1" :> 1 @@ "9" :> 9
MCMaxNumber == 99

FileSymbols == {"{", "}", ":", ",", Quote, Backslash, " ", "1", "9", "null", "n", "a"}
Structure == {"{", "}", ":", ",", Quote, "1"}
ShortTexts == UpTo(4, FileSymbols) \cup UpTo(6, Structure)

\* Objects with up to two members, one of them possibly an object, each with a
\* second one that may repeat its keys.
Keys == {<<>>, <<"a">>, <<Quote, Backslash>>}
Scalars == {[null |-> TRUE], [bool |-> TRUE], [number |-> 9], [string |-> <<Backslash, "LF">>]}
Objects(values) == UNION {[keys -> values] : keys \in {{}, {<<"a">>}, Keys \ {<<>>}}}
Values == Scalars \cup {[object |-> o] : o \in Objects({[bool |-> FALSE], [number |-> 1]})}
Documents == [first : Objects(Values), second : Objects(Scalars), gap : {<<>>, <<" ", "LF">>}]

\* A document of three members with a symbol dropped, inserted or replaced.
Sample ==
    Document(<<"a">> :> [object |-> <<>> :> [number |-> 1]] @@ <<"n">> :> [null |-> TRUE],
             <<Quote>> :> [string |-> <<"a", Backslash>>], <<>>)
EditedTexts ==
    {SubSeq(Sample, 1, i - 1) \o put \o From(Sample, i + dropped) :
        i \in DOMAIN Sample, dropped \in {0, 1}, put \in UpTo(1, FileSymbols)}

IsText(file) == "text" \in DOMAIN file
MCFiles == [text : ShortTexts \cup EditedTexts] \cup Documents

-----------------------------------------------------------------------------
(* Properties of the parser.                                               *)

\* JsonParser accepts its grammar and nothing else.
ParserAccepts == Has("file") /\ IsText(input.file) => AcceptsTheGrammar(input.file.text)

\* JsonParser reads what a document says, the later of two equal keys counting.
ParserReads ==
    Has("file") /\ ~ IsText(input.file) =>
        ReadsBack(input.file.first, input.file.second, input.file.gap)

\* load_config refuses every beginning of a document, as a write that was cut
\* off leaves it.
TruncatedRefused ==
    Has("file") /\ ~ IsText(input.file) =>
        RefusesTruncated(input.file.first, input.file.second, input.file.gap)
=============================================================================
