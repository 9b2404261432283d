------------------------------- MODULE Escape -------------------------------
(***************************************************************************)
(* dns_snescape (common.c), which writes bytes into a field of a CSV line. *)
(* Characters are numbers: their codes.                                    *)
(***************************************************************************)
EXTENDS Integers, Sequences, SequencesExt

Nul == 0
Newline == 10
Comma == 44
Zero == 48
LowerN == 110
UpperN == 78
Backslash == 92

\* isgraph
IsGraph(c) == c \in 33..126

\* sprintf with %03o
Octal(c) == <<Zero + (c \div 64), Zero + ((c \div 8) % 8), Zero + (c % 8)>>

\* Faulty: the backslash itself is not escaped.
EscapedNotBackslash(c, separator) ==
    CASE c = Nul -> <<Backslash, Zero>>
      [] c = Newline -> <<Backslash, LowerN>>
      [] c = separator -> <<Backslash>> \o (IF IsGraph(c) THEN <<c>> ELSE Octal(c))
      [] OTHER -> <<c>>

\* The branches of the loop.
Escaped(c, separator) ==
    CASE c = Nul -> <<Backslash, Zero>>
      [] c = Backslash -> <<Backslash, Backslash>>
      [] c = Newline -> <<Backslash, LowerN>>
      [] c = separator -> <<Backslash>> \o (IF IsGraph(c) THEN <<c>> ELSE Octal(c))
      [] OTHER -> <<c>>

\* One round of the loop, and WRITESTR, which leaves it when there is no room.
EscapeNext(acc, c, strsize, separator) ==
    LET str == acc.str \o Escaped(c, separator)
    IN  IF acc.stopped \/ Len(str) > strsize - 1
        THEN [acc EXCEPT !.stopped = TRUE] ELSE [acc EXCEPT !.str = str]

\* dns_snescape: what is in str before the final NUL.
Snescape(strsize, separator, data) ==
    FoldLeft(LAMBDA acc, c : EscapeNext(acc, c, strsize, separator),
             [str |-> << >>, stopped |-> FALSE], data).str

-----------------------------------------------------------------------------
\* What a reader makes of escaped text: a backslash and the next character are
\* one character.
ReadNext(acc, c) ==
    IF ~acc.escape
    THEN IF c = Backslash THEN [acc EXCEPT !.escape = TRUE] ELSE [acc EXCEPT !.text = Append(@, c)]
    ELSE [escape |-> FALSE,
          text |-> Append(acc.text, IF c = Zero THEN Nul ELSE IF c = LowerN THEN Newline ELSE c)]

Reading(str) == FoldLeft(ReadNext, [escape |-> FALSE, text |-> << >>], str)
Unescape(str) == Reading(str).text
=============================================================================
