------------------------------ MODULE CsvLine ------------------------------
(***************************************************************************)
(* CsvParser (src/src/utils/CsvParser.{h,cpp}) on a buffer: the cursor that *)
(* takes NMEA sentences apart, field by field, for a caller who says what   *)
(* each field should be.  A character stands for its class, where the code  *)
(* tells no more apart: "A" for whatever is above '.' and no digit, "*" for *)
(* whatever is below and neither blank, comma, sign nor line end.           *)
(*                                                                          *)
(* The cursor is past the last character exactly when `left` is 0; then     *)
(* `current` is the null pointer, and reading through it ends the program.  *)
(* Values are kept as mantissa and number of decimals; rounding and the     *)
(* width of int are left out.                                               *)
(***************************************************************************)
EXTENDS Integers, Sequences, SequencesExt, FiniteSetsExt

CONSTANTS
  Alphabet,  \* characters of the texts
  Texts,     \* the buffers given to set()
  Sizes,     \* buffer sizes of the callers' strings
  MaxCalls   \* bound: calls

ASSUME CsvLineAssumption ==
  MaxCalls \in Nat /\ Sizes \subseteq Nat /\ Texts \subseteq Seq(Alphabet)

Comma == ","
Digits == {"0", "1", "2"}
DigitValue == [c \in Digits |-> CASE c = "0" -> 0 [] c = "1" -> 1 [] c = "2" -> 2]
Endlines == {"LF", "CR"}          \* isEndline
Blanks == {" ", "NUL"}            \* what moveToNonWhitespace skips
Above == {".", "A"}               \* c >= '.', no digit

VARIABLES
  text,     \* the buffer
  pos,      \* where `current` points; Len(text) + 1: nowhere
  eol,      \* endLineDetected
  end,      \* endDetected
  any,      \* wasAnyValue
  value,    \* the caller's number, which the next call is given again
  crashed,  \* the null pointer was read
  asked,    \* calls so far
  last      \* history: the latest call, where it read from and what it gave;
            \* the line it is on and the fields read there

csvVars == <<text, pos, eol, end, any, value, crashed, asked, last>>

TextEnd == Len(text)

\* Where a loop that runs while the character is outside `stops` stops.
Scan(from, stops) ==
  LET hits == {q \in from..TextEnd : text[q] \in stops}
  IN IF hits = {} THEN TextEnd + 1 ELSE CHOOSE q \in hits : \A r \in hits : q <= r

\* Fault: a line end is passed over.
NextStopAnywhere == Scan(pos, {Comma})
\* Where moveToNextValue stops looking for the next value.
NextStop == Scan(pos, Endlines \cup {Comma})
LineEnds == any /\ NextStop <= TextEnd /\ text[NextStop] \in Endlines
\* Where it leaves `current`: nothing is passed before the first value.
ValueFrom == IF any THEN NextStop + 1 ELSE pos

\* moveToNonWhitespace
NonBlank(p) == Scan(p, Alphabet \ Blanks)

DigitTaken(acc, c) == IF c \in Digits THEN 10 * acc + DigitValue[c] ELSE acc
Dig(s) == FoldLeft(DigitTaken, 0, s)
Negated(v) == [v EXCEPT !.m = -@]

\* spacesCount of nextString
Trimmed(s) ==
  LET solid == {i \in DOMAIN s : s[i] # " "}
  IN IF solid = {} THEN <<>> ELSE SubSeq(s, 1, CHOOSE i \in solid : \A j \in solid : j <= i)

(***************************************************************************)
(* The value at `from`: where the call leaves `current`, and what it gives. *)
(***************************************************************************)
TakeString(from, size) ==
  LET stop == Scan(from, Endlines \cup {Comma, "NUL"})
      to == IF stop < from + size THEN stop ELSE from + size
  IN [to |-> to, found |-> TRUE, string |-> Trimmed(SubSeq(text, from, to - 1)), value |-> value,
      eol |-> to < from + size /\ to <= TextEnd /\ text[to] \in Endlines]

Sign(from) == text[from] = "-"
Unsigned(from) == from + IF Sign(from) THEN 1 ELSE 0

\* Fault: the caller's value is set to zero first.
NumberFromZero(from, to, found, v) ==
  [to |-> to, found |-> found, string |-> <<>>, eol |-> FALSE, value |-> IF Sign(from) THEN Negated(v) ELSE v]
\* The caller's value is set once a digit is found; the sign is applied anyway.
Number(from, to, found, v) ==
  LET w == IF found THEN v ELSE value
  IN [to |-> to, found |-> found, string |-> <<>>, eol |-> FALSE,
      value |-> IF Sign(from) THEN Negated(w) ELSE w]

\* nextInt
TakeInt(from) ==
  LET to == Scan(Unsigned(from), Alphabet \ Digits)
  IN Number(from, to, to > Unsigned(from), [m |-> Dig(SubSeq(text, Unsigned(from), to - 1)), d |-> 0])

\* Fault: the point counts as a decimal.
TakeDoubleOff(from) ==
  LET point == Scan(Unsigned(from), Alphabet \ Digits)
      to == IF point <= TextEnd /\ text[point] \in Above THEN Scan(point + 1, Alphabet \ Digits) ELSE point
  IN Number(from, to, to > Unsigned(from),
            [m |-> Dig(SubSeq(text, Unsigned(from), to - 1)), d |-> to - point])
\* nextFloat, nextDouble: the first character from '.' up is the decimal point.
TakeDouble(from) ==
  LET point == Scan(Unsigned(from), Alphabet \ Digits)
      to == IF point <= TextEnd /\ text[point] \in Above THEN Scan(point + 1, Alphabet \ Digits) ELSE point
  IN Number(from, to, to > Unsigned(from),
            [m |-> Dig(SubSeq(text, Unsigned(from), to - 1)),
             d |-> IF to > point THEN to - point - 1 ELSE 0])

(***************************************************************************)
(* The calls.                                                               *)
(***************************************************************************)
Calls == {[kind |-> "string", size |-> s] : s \in Sizes} \cup {[kind |-> k, size |-> 0] : k \in {"int", "double"}}

CsvInit ==
  /\ text \in Texts
  /\ pos = 1 /\ eol = FALSE /\ end = (TextEnd = 0) /\ any = FALSE
  /\ value = [m |-> 12, d |-> 0]
  /\ crashed = FALSE /\ asked = 0
  /\ last = [call |-> [kind |-> "none", size |-> 0], from |-> 0, string |-> <<>>, found |-> FALSE,
             before |-> value, line |-> 1, field |-> 0]

Take(c, from) ==
  CASE c.kind = "string" -> TakeString(from, c.size)
    [] c.kind = "int" -> TakeInt(from)
    [] c.kind = "double" -> TakeDouble(from)

\* Nothing is given.
Nothing(c) ==
  /\ last' = [last EXCEPT !.call = c, !.from = 0, !.before = value]
  /\ UNCHANGED <<any, value, crashed>>

\* Fault: the end of the text is not noticed when a value stops at it.
GivenOn(c, from) ==
  LET t == Take(c, from) IN
    /\ pos' = t.to /\ eol' = t.eol /\ end' = FALSE
    /\ any' = TRUE
    /\ value' = t.value
    /\ last' = [last EXCEPT !.call = c, !.from = from, !.string = t.string, !.found = t.found,
                            !.before = value, !.field = @ + 1]
    /\ UNCHANGED crashed
\* A value is given, and `current` left where its reading stopped.
Given(c, from) ==
  LET t == Take(c, from) IN
    /\ pos' = t.to /\ eol' = (t.eol \/ t.to > TextEnd) /\ end' = (t.to > TextEnd)
    /\ any' = TRUE
    /\ value' = t.value
    /\ last' = [last EXCEPT !.call = c, !.from = from, !.string = t.string, !.found = t.found,
                            !.before = value, !.field = @ + 1]
    /\ UNCHANGED crashed

\* nextString, nextInt, nextFloat and nextDouble (moveToNextNonWhitespaceValue).
Call(c) ==
  /\ asked < MaxCalls /\ ~crashed
  /\ asked' = asked + 1
  /\ UNCHANGED text
  /\ \/ (eol \/ end) /\ Nothing(c) /\ UNCHANGED <<pos, eol, end>>
     \/ ~eol /\ ~end /\ LineEnds /\ Nothing(c) /\ pos' = NextStop /\ eol' = TRUE /\ UNCHANGED end
     \/ /\ ~eol /\ ~end /\ ~LineEnds
        /\ \/ ValueFrom > TextEnd /\ crashed' = TRUE /\ UNCHANGED <<pos, eol, end, any, value, last>>
           \/ /\ ValueFrom <= TextEnd
              /\ LET from == NonBlank(ValueFrom)
                 IN IF from > TextEnd
                    THEN Nothing(c) /\ pos' = from /\ eol' = TRUE /\ end' = TRUE
                    ELSE Given(c, from)

\* nextLine: past the line's end, "\r\n" and "\n\r" being one.
NextLine ==
  /\ asked < MaxCalls /\ ~crashed /\ ~end
  /\ asked' = asked + 1
  /\ LET q == Scan(pos, Endlines \cup {"NUL"})
         two == q < TextEnd /\ text[q] \in Endlines /\ text[q + 1] \in Endlines \ {text[q]}
         to == IF q > TextEnd THEN TextEnd + 1 ELSE IF two THEN q + 2 ELSE q + 1
     IN /\ pos' = to
        /\ eol' = (to > TextEnd) /\ end' = (to > TextEnd)
        /\ last' = [last EXCEPT !.from = 0, !.before = value, !.line = to, !.field = 0]
  /\ any' = FALSE
  /\ UNCHANGED <<text, value, crashed>>

CsvNext == NextLine \/ \E c \in Calls : Call(c)

CsvSpec == CsvInit /\ [][CsvNext]_csvVars

(***************************************************************************)
(* Reference: the fields of a line.                                         *)
(***************************************************************************)
LineEnd == Scan(last.line, Endlines)
CommasBefore(p) == Cardinality({q \in last.line..(p - 1) : text[q] = Comma})
Fields == CommasBefore(LineEnd) + 1
\* The positions of the k-th field, which follow one another.
FieldAt(k) == {q \in last.line..(LineEnd - 1) : text[q] # Comma /\ CommasBefore(q) = k - 1}
FieldText(k) ==
  IF FieldAt(k) = {} THEN <<>> ELSE SubSeq(text, Min(FieldAt(k)), Max(FieldAt(k)))

\* What is before a NUL.
BeforeNul(s) ==
  LET nuls == {i \in DOMAIN s : s[i] = "NUL"}
  IN IF nuls = {} THEN s ELSE SubSeq(s, 1, (CHOOSE i \in nuls : \A j \in nuls : i <= j) - 1)
\* Without the blanks in front.
Stripped(s) ==
  LET solid == {i \in DOMAIN s : s[i] \notin Blanks}
  IN IF solid = {} THEN <<>> ELSE SubSeq(s, CHOOSE i \in solid : \A j \in solid : i <= j, Len(s))
Plain(s) == IF s # <<>> /\ s[1] = "-" THEN Tail(s) ELSE s

\* A decimal number: digits with at most one point among them.
IsNumber(s, points) ==
  /\ \A i \in DOMAIN s : s[i] \in Digits \cup {"."}
  /\ \E i \in DOMAIN s : s[i] \in Digits
  /\ Cardinality({i \in DOMAIN s : s[i] = "."}) <= points
\* What a number is worth: the sum of its digits, each worth ten times as much as one
\* in the next place.  worth[k] is about its last k characters.
NumberOf(s) ==
  LET n == Len(s)
      worth[k \in 0..n] ==
        IF k = 0 THEN [sum |-> 0, place |-> 1]
        ELSE LET c == s[n - k + 1]
                 behind == worth[k - 1]
             IN IF c = "." THEN behind
                ELSE [sum |-> behind.sum + DigitValue[c] * behind.place, place |-> 10 * behind.place]
      points == {i \in DOMAIN s : s[i] = "."}
  IN [m |-> worth[n].sum, d |-> IF points = {} THEN 0 ELSE n - (CHOOSE i \in points : TRUE)]

-----------------------------------------------------------------------------
CsvTypeOK ==
  /\ pos \in 1..(TextEnd + 1)
  /\ eol \in BOOLEAN /\ end \in BOOLEAN /\ any \in BOOLEAN /\ crashed \in BOOLEAN
  /\ end = (pos = TextEnd + 1)
  /\ value.m \in Int /\ value.d \in 0..TextEnd

Reads == last.from > 0

\* The k-th call that gives a value reads field k of its line, whatever the
\* calls before it took their fields for and however much they left behind.
FieldByField ==
  Reads => CommasBefore(last.from) = last.field - 1 /\ last.from <= LineEnd

\* s is what a buffer of this size takes of f, without the blanks behind.
IsCutOf(s, f, size) ==
  LET room == IF Len(f) < size THEN Len(f) ELSE size
      length == Len(s)
  IN /\ length <= room /\ s = SubSeq(f, 1, length)
     /\ length > 0 => f[length] # " "
     /\ \A i \in (length + 1)..room : f[i] = " "

\* A string is its field without the blanks around it, up to a NUL and to the
\* buffer's size.
StringIsField ==
  Reads /\ last.call.kind = "string" =>
    IsCutOf(last.string, BeforeNul(Stripped(FieldText(last.field))), last.call.size)

\* And a field that is a number gives that number, sign and decimals included.
NumberIsField ==
  Reads /\ last.call.kind \in {"int", "double"} =>
    LET f == Trimmed(BeforeNul(Stripped(FieldText(last.field))))
    IN IsNumber(Plain(f), IF last.call.kind = "int" THEN 0 ELSE 1) =>
         last.found /\ value = IF f[1] = "-" THEN Negated(NumberOf(Plain(f))) ELSE NumberOf(f)

\* The values given are what the fields say.
ValueIsField == StringIsField /\ NumberIsField

\* A call that finds no number leaves the caller's value alone (the callers
\* count on it for defaults), except that a lone '-' turns its sign round.
NothingFoundKeepsValue ==
  last.call.kind \in {"int", "double"} /\ (Reads => ~last.found) =>
    value = last.before \/ (Reads /\ Sign(last.from) /\ value = Negated(last.before))

\* The null pointer is read only by a caller who asks for more than the line
\* has, where the call before left characters behind: for a field after the last
\* one, or for a last field that is empty.  A line end protects every caller.
SafeWithinLine ==
  crashed =>
    /\ pos <= TextEnd /\ LineEnd = TextEnd + 1
    /\ last.field >= Fields \/ (last.field = Fields - 1 /\ FieldText(Fields) = <<>>)
=============================================================================
