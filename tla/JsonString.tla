----------------------------- MODULE JsonString -----------------------------
(***************************************************************************)
(* Strings in JSON: JsonParser::parse_string, and the escaping that puts a *)
(* text into a log line, a request or the health file.                     *)
(*                                                                         *)
(* A text is a sequence of symbols: characters, the control characters by  *)
(* their names.  Where the code moves pos_, a parse here returns the rest  *)
(* of the text.                                                            *)
(***************************************************************************)
EXTENDS Naturals, Sequences, SequencesExt

Quote == "\""
Backslash == "\\"

\* What a backslash and one of these stand for.
Unescaped ==
    [symbol \in {Quote, Backslash, "/", "b", "f", "n", "r", "t"} |->
        CASE symbol = "b" -> "BS"
          [] symbol = "f" -> "FF"
          [] symbol = "n" -> "LF"
          [] symbol = "r" -> "CR"
          [] symbol = "t" -> "TAB"
          [] OTHER -> symbol]

From(text, i) == SubSeq(text, i, Len(text))

StartsWith(text, symbol) == text # <<>> /\ Head(text) = symbol

Failure == [ok |-> FALSE]
Success(value, rest) == [ok |-> TRUE, value |-> value, rest |-> rest]

-----------------------------------------------------------------------------
(* parse_string                                                            *)

\* Where the loop is after a symbol: in the text, behind a backslash, behind the
\* closing quote, or it has returned false; oss, and how much of the text it took.
NothingRead == [mode |-> "text", out |-> <<>>, taken |-> 0]

Takes(reading, symbol, mode) ==
    [mode |-> mode, out |-> Append(reading.out, symbol), taken |-> reading.taken + 1]

Passes(reading, mode) == [reading EXCEPT !.mode = mode, !.taken = @ + 1]

ReadSymbol(reading, symbol) ==
    CASE reading.mode = "text" /\ symbol = Quote -> Passes(reading, "closed")
      [] reading.mode = "text" /\ symbol = Backslash -> Passes(reading, "escape")
      [] reading.mode = "text" /\ symbol \notin {Quote, Backslash} ->
             Takes(reading, symbol, "text")
      [] reading.mode = "escape" /\ symbol \in DOMAIN Unescaped ->
             Takes(reading, Unescaped[symbol], "text")
      [] reading.mode = "escape" /\ symbol \notin DOMAIN Unescaped ->
             Passes(reading, "refused")
      [] OTHER -> reading

\* The text behind the opening quote, once it has all been offered to the loop.
Reading(text) ==
    LET after[i \in 0 .. Len(text)] ==
            IF i = 0 THEN NothingRead ELSE ReadSymbol(after[i - 1], text[i])
    IN after[Len(text)]

string_rest(text) ==
    LET reading == Reading(text)
    IN IF reading.mode = "closed"
       THEN Success([string |-> reading.out], From(text, reading.taken + 1))
       ELSE Failure

parse_string(text) ==
    IF StartsWith(text, Quote) THEN string_rest(Tail(text)) ELSE Failure

-----------------------------------------------------------------------------
(* escape_json_string, and the two json_escape.                            *)

\* Mutant: a backslash is left as it is.
EscapedSimply(symbol) ==
    CASE symbol = Quote -> <<Backslash, Quote>>
      [] symbol = "LF" -> <<Backslash, "n">>
      [] symbol = "CR" -> <<Backslash, "r">>
      [] symbol = "TAB" -> <<Backslash, "t">>
      [] OTHER -> <<symbol>>

Escaped(symbol) ==
    CASE symbol = Backslash -> <<Backslash, Backslash>>
      [] symbol = Quote -> <<Backslash, Quote>>
      [] symbol = "LF" -> <<Backslash, "n">>
      [] symbol = "CR" -> <<Backslash, "r">>
      [] symbol = "TAB" -> <<Backslash, "t">>
      [] OTHER -> <<symbol>>

json_escape(text) == FlattenSeq([i \in DOMAIN text |-> Escaped(text[i])])

Quoted(text) == <<Quote>> \o json_escape(text) \o <<Quote>>

-----------------------------------------------------------------------------
(* What the two halves must do.                                            *)

\* The control characters, which RFC 8259 wants escaped in a string.  The others
\* that have no name here are treated as "BS" and "FF" are.
Controls == {"LF", "CR", "TAB", "BS", "FF"}

\* Quotes and escapes are read as parse_string reads them, which is what RFC 8259
\* says of those that are written: the string ends where it should and is the
\* text, whatever follows it in the line.  No line end or tab is left in it, and
\* nothing else that RFC 8259 forbids but what the text itself held of the other
\* control characters: those stay raw, and a strict reader refuses them.
SurvivesEscape(text, after) ==
    /\ parse_string(Quoted(text) \o after) = Success([string |-> text], after)
    /\ \A control \in Controls :
          Contains(json_escape(text), control) <=>
              Contains(text, control) /\ control \in {"BS", "FF"}
=============================================================================
