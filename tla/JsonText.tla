------------------------------ MODULE JsonText ------------------------------
(***************************************************************************)
(* JsonParser, the recursive descent that reads the configuration.  A text *)
(* is a sequence of symbols as in JsonString; the words true, false and    *)
(* null, which the parser compares as a whole, are symbols too.            *)
(***************************************************************************)
EXTENDS TLC, JsonString

CONSTANTS
    DigitValue,     \* the digits the model uses, each with its value
    MaxNumber       \* 2^64 - 1: std::stoull throws above

ASSUME JsonAssumption ==
    /\ \A d \in DOMAIN DigitValue : DigitValue[d] \in 0 .. 9
    /\ MaxNumber \in Nat

Blank == {" ", "LF", "CR", "TAB"}

\* The longest beginning of text whose symbols are all in S.
Leading(text, S) ==
    CHOOSE n \in 0 .. Len(text) :
        /\ \A i \in 1 .. n : text[i] \in S
        /\ n < Len(text) => text[n + 1] \notin S

skip_ws(text) == From(text, Leading(text, Blank) + 1)

-----------------------------------------------------------------------------
(* JsonParser                                                              *)

Number(digits) ==
    LET value[i \in 0 .. Len(digits)] ==
            IF i = 0 THEN 0 ELSE 10 * value[i - 1] + DigitValue[digits[i]]
    IN value[Len(digits)]

parse_number(text) ==
    LET digits == SubSeq(text, 1, Leading(text, DOMAIN DigitValue))
    IN IF Number(digits) > MaxNumber THEN Failure
       ELSE Success([number |-> Number(digits)], From(text, Len(digits) + 1))

\* A letter that begins one of these words but not the word is an error.
parse_bool(text) ==
    IF Head(text) \in {"true", "false"}
    THEN Success([bool |-> Head(text) = "true"], Tail(text))
    ELSE Failure

parse_null(text) ==
    IF Head(text) = "null" THEN Success([null |-> TRUE], Tail(text)) ELSE Failure

\* Mutant: the first value of a key stays.
AssignOnce(object, key, value) == object @@ key :> value

\* The last value of a key stays.
Assign(object, key, value) == key :> value @@ object

RECURSIVE parse_value(_), members(_, _)

\* Mutants: the text may end after a member; a comma may be the last thing in
\* an object.
AfterMemberUnclosed(text, object) ==
    IF text = <<>> \/ Head(text) = "}" THEN Success([object |-> object], From(text, 2))
    ELSE IF Head(text) = "," THEN members(Tail(text), object)
    ELSE Failure

AfterMemberLenient(text, object) ==
    IF StartsWith(text, "}") THEN Success([object |-> object], Tail(text))
    ELSE IF ~StartsWith(text, ",") THEN Failure
    ELSE IF StartsWith(skip_ws(Tail(text)), "}")
         THEN Success([object |-> object], Tail(skip_ws(Tail(text))))
    ELSE members(Tail(text), object)

AfterMember(text, object) ==
    IF StartsWith(text, "}") THEN Success([object |-> object], Tail(text))
    ELSE IF StartsWith(text, ",") THEN members(Tail(text), object)
    ELSE Failure

\* The loop of parse_object: a member, then a comma and the next, or the end.
members(text, object) ==
    LET key == parse_string(skip_ws(text))
        colon == skip_ws(key.rest)
        value == parse_value(Tail(colon))
    IN IF ~key.ok THEN Failure
       ELSE IF ~StartsWith(colon, ":") THEN Failure
       ELSE IF ~value.ok THEN Failure
       ELSE AfterMember(skip_ws(value.rest), Assign(object, key.value.string, value.value))

NoMembers == [key \in {} |-> [null |-> TRUE]]

parse_object(text) ==
    LET inside == skip_ws(Tail(text))
    IN IF StartsWith(inside, "}") THEN Success([object |-> NoMembers], Tail(inside))
       ELSE members(inside, NoMembers)

parse_value(spaced) ==
    LET text == skip_ws(spaced)
    IN IF text = <<>> THEN Failure
       ELSE CASE Head(text) = "{" -> parse_object(text)
              [] Head(text) = Quote -> parse_string(text)
              [] Head(text) \in {"t", "f", "true", "false"} -> parse_bool(text)
              [] Head(text) \in {"n", "null"} -> parse_null(text)
              [] Head(text) \in DOMAIN DigitValue -> parse_number(text)
              [] OTHER -> Failure

\* JsonParser::parse: one value and nothing after it.
parse(text) ==
    LET value == parse_value(text)
    IN IF value.ok THEN IF skip_ws(value.rest) = <<>> THEN value ELSE Failure
       ELSE Failure

\* load_config goes on only with an object.
Loads(text) == parse(text).ok /\ "object" \in DOMAIN parse(text).value

-----------------------------------------------------------------------------
(* The language, as a grammar.                                             *)

Strip(text) == Reverse(skip_ws(Reverse(skip_ws(text))))

IsNumber(text) ==
    /\ text # <<>>
    /\ \A i \in DOMAIN text : text[i] \in DOMAIN DigitValue
    /\ Number(text) <= MaxNumber

\* A backslash escapes what follows unless it is escaped itself.
IsString(text) ==
    LET last == Len(text)
        escapes[i \in 0 .. last] ==
            i > 1 /\ text[i] = Backslash /\ ~escapes[i - 1]
    IN /\ last >= 2
       /\ text[1] = Quote /\ text[last] = Quote /\ ~escapes[last - 1]
       /\ \A i \in 2 .. (last - 1) :
             /\ text[i] = Quote => escapes[i - 1]
             /\ escapes[i] => text[i + 1] \in DOMAIN Unescaped

RECURSIVE IsValue(_), AreMembers(_)

IsMember(text) ==
    \E i \in DOMAIN text :
        /\ text[i] = ":"
        /\ IsString(Strip(SubSeq(text, 1, i - 1)))
        /\ IsValue(Strip(From(text, i + 1)))

AreMembers(text) ==
    \/ IsMember(text)
    \/ \E i \in DOMAIN text :
          /\ text[i] = ","
          /\ IsMember(SubSeq(text, 1, i - 1))
          /\ AreMembers(From(text, i + 1))

IsObject(text) ==
    /\ Len(text) >= 2
    /\ text[1] = "{" /\ text[Len(text)] = "}"
    /\ LET inside == SubSeq(text, 2, Len(text) - 1)
       IN Strip(inside) = <<>> \/ AreMembers(inside)

IsValue(text) ==
    \/ text \in {<<"true">>, <<"false">>, <<"null">>}
    \/ IsNumber(text)
    \/ IsString(text)
    \/ IsObject(text)

\* The text of a value, with a gap wherever blanks may stand; an object is
\* written as the members of one object and then those of another.
RECURSIVE Rendered(_, _)

MemberTexts(object, gap) ==
    LET keys == SetToSeq(DOMAIN object)
    IN [i \in DOMAIN keys |->
            gap \o Quoted(keys[i]) \o gap \o <<":">> \o Rendered(object[keys[i]], gap)]

Document(first, second, gap) ==
    LET texts == MemberTexts(first, gap) \o MemberTexts(second, gap)
        Separated(i) == IF i = 1 THEN texts[i] ELSE <<",">> \o texts[i]
    IN gap \o <<"{">> \o FlattenSeq([i \in DOMAIN texts |-> Separated(i)]) \o gap \o <<"}">>

Rendered(value, gap) ==
    IF "object" \in DOMAIN value THEN Document(NoMembers, value.object, gap)
    ELSE gap \o (IF "string" \in DOMAIN value THEN Quoted(value.string)
                 ELSE IF "bool" \in DOMAIN value
                      THEN IF value.bool THEN <<"true">> ELSE <<"false">>
                 ELSE IF "null" \in DOMAIN value THEN <<"null">>
                 ELSE <<CHOOSE d \in DOMAIN DigitValue : DigitValue[d] = value.number>>)
             \o gap

-----------------------------------------------------------------------------
(* What the parser must do.                                                *)

\* The parser accepts the language of the grammar and nothing else.
AcceptsTheGrammar(text) == parse(text).ok <=> IsValue(Strip(text))

\* What was written is read back, whatever blanks stand between; of two
\* members with the same key the later one counts.
ReadsBack(first, second, gap) ==
    LET result == parse(Document(first, second, gap))
    IN result.ok /\ result.value = [object |-> second @@ first]

\* A configuration that was cut off anywhere does not load.
RefusesTruncated(first, second, gap) ==
    LET text == Document(first, second, gap)
    IN \A n \in 0 .. (Len(text) - 1) : ~Loads(SubSeq(text, 1, n))
=============================================================================
