------------------------------ MODULE Printfmt ------------------------------
(***************************************************************************)
(* Formatted output: kern/lib/printfmt.c, and user/lib/printfmt.c, which   *)
(* differs from it only in octal numbers.  A string is a sequence of       *)
(* characters without its terminating zero, an argument a number or a      *)
(* string.  An int and a long have Bits bits, a long long twice as many.   *)
(***************************************************************************)
EXTENDS Integers, Sequences, SequencesExt

CONSTANT Bits

NULL == <<"NULL">>

Digit == <<"0", "1", "2", "3", "4", "5", "6", "7", "8", "9", "a", "b", "c", "d", "e", "f">>
Times(n, c) == IF n <= 0 THEN <<>> ELSE [i \in 1 .. n |-> c]

\* The digits of num, most significant first, behind the padding that is left
\* of width.
RECURSIVE printnum(_, _, _, _)
printnum(num, base, width, padc) ==
  (IF num >= base THEN printnum(num \div base, base, width - 1, padc)
   ELSE Times(width - 1, padc))
  \o <<Digit[(num % base) + 1]>>

Width(lflag) == IF lflag >= 2 THEN 2 * Bits ELSE Bits
getuint(arg, lflag) == arg % 2^Width(lflag)
getint(arg, lflag) ==
  LET u == getuint(arg, lflag)
  IN  IF u >= 2^(Width(lflag) - 1) THEN u - 2^Width(lflag) ELSE u

\* The state between a % and the end of its escape sequence.
NoFlags == [padc |-> " ", width |-> -1, precision |-> -1, lflag |-> 0, altflag |-> FALSE]

strnlen(p, n) == IF n >= 0 /\ n < Len(p) THEN n ELSE Len(p)

Control == {"\n", "\t", "DEL"}

string(arg, s) ==
  LET p == IF arg = NULL THEN <<"(", "n", "u", "l", "l", ")">> ELSE arg
      n == strnlen(p, s.precision)
      shown == [i \in 1 .. n |-> IF s.altflag /\ p[i] \in Control THEN "?" ELSE p[i]]
  IN  IF s.padc # "-" THEN Times(s.width - n, s.padc) \o shown
      ELSE shown \o Times(s.width - n, " ")

decimal(arg, s) ==
  LET num == getint(arg, s.lflag)
  IN  IF num < 0 THEN <<"-">> \o printnum(-num, 10, s.width, s.padc)
      ELSE printnum(num, 10, s.width, s.padc)

\* What an escape sequence with the state s and the last character ch prints.
Conversion(ch, arg, s, octal) ==
  CASE ch = "c" -> <<arg>>
    [] ch = "s" -> string(arg, s)
    [] ch = "d" -> decimal(arg, s)
    [] ch = "u" -> printnum(getuint(arg, s.lflag), 10, s.width, s.padc)
    [] ch = "o" -> IF octal THEN printnum(getuint(arg, s.lflag), 8, s.width, s.padc)
                   ELSE <<"X", "X", "X">>
    [] ch = "p" -> <<"0", "x">> \o printnum(getuint(arg, 0), 16, s.width, s.padc)
    [] ch = "x" -> printnum(getuint(arg, s.lflag), 16, s.width, s.padc)

Number(ds) == FoldLeft(LAMBDA n, d : 10 * n + SelectInSeq(Digit, LAMBDA c : c = d) - 1, 0, ds)
IsDigit(ch) == \E i \in 1 .. 10 : Digit[i] = ch

\* process_precision: the first number is the width.
Precision(s, n) == IF s.width < 0 THEN [s EXCEPT !.width = n, !.precision = -1]
                   ELSE [s EXCEPT !.precision = n]

\* The loop of vprintfmt on the rest of the format.
RECURSIVE format(_, _, _), escape(_, _, _, _, _)
format(fmt, ap, octal) ==
  IF fmt = <<>> THEN <<>>
  ELSE IF Head(fmt) # "%" THEN <<Head(fmt)>> \o format(Tail(fmt), ap, octal)
  ELSE escape(Tail(fmt), Tail(fmt), NoFlags, ap, octal)

\* The switch, with fmt where it is read and start behind the %.
escape(start, fmt, s, ap, octal) ==
  LET ch == IF fmt = <<>> THEN "NUL" ELSE Head(fmt)
      more(t) == escape(start, Tail(fmt), t, ap, octal)
      n == SelectInSeq(fmt, LAMBDA c : ~IsDigit(c))
      last == IF n = 0 THEN Len(fmt) ELSE n - 1
  IN  CASE ch = "-" -> more([s EXCEPT !.padc = "-"])
        [] ch = "0" -> more([s EXCEPT !.padc = "0"])
        [] IsDigit(ch) /\ ch # "0" ->
             escape(start, SubSeq(fmt, last + 1, Len(fmt)),
                    Precision(s, Number(SubSeq(fmt, 1, last))), ap, octal)
        [] ch = "*" -> escape(start, Tail(fmt), Precision(s, Head(ap)), Tail(ap), octal)
        [] ch = "." -> more([s EXCEPT !.width = IF s.width < 0 THEN 0 ELSE s.width])
        [] ch = "#" -> more([s EXCEPT !.altflag = TRUE])
        [] ch = "l" -> more([s EXCEPT !.lflag = @ + 1])
        [] ch \in {"c", "s", "d", "u", "o", "p", "x"} ->
             Conversion(ch, Head(ap), s, octal) \o format(Tail(fmt), Tail(ap), octal)
        [] ch = "%" -> <<"%">> \o format(Tail(fmt), ap, octal)
        [] OTHER -> <<"%">> \o format(start, ap, octal)

\* The characters that vprintfmt hands to putch: the kernel's and the user's.
vprintfmt(fmt, ap) == format(fmt, ap, TRUE)
user_vprintfmt(fmt, ap) == format(fmt, ap, FALSE)

\* sprintputch leaves the last of the n places free; the count is of all
\* characters.
sprintputch(b, n, ch) ==
  [cnt |-> b.cnt + 1, buf |-> IF Len(b.buf) < n - 1 THEN Append(b.buf, ch) ELSE b.buf]

vsnprintf(n, fmt, ap) ==
  FoldLeft(LAMBDA b, ch : sprintputch(b, n, ch), [cnt |-> 0, buf |-> <<>>],
           user_vprintfmt(fmt, ap))

----------------------------------------------------------------------------
(* What the formats mean.  A directive is plain characters or a record of  *)
(* its flags, width and precision (-1 for none), conversion and argument.  *)

\* The text of a directive in a format; a width may be an argument.
Decimal(n) == printnum(n, 10, 0, " ")

Text(d) ==
  IF d.conv = "text" THEN d.arg
  ELSE <<"%">> \o d.flags
       \o (IF d.width < 0 THEN <<>> ELSE IF d.star THEN <<"*">> ELSE Decimal(d.width))
       \o (IF d.precision < 0 THEN <<>> ELSE <<".">> \o Decimal(d.precision))
       \o Times(d.longs, "l") \o <<d.conv>>

\* The digits of n, by definition.
Digits(n, base) ==
  LET len == CHOOSE k \in 1 .. 33 : /\ n < base^k
                                    /\ k > 1 => n >= base^(k - 1)
  IN  [i \in 1 .. len |-> Digit[((n \div base^(len - i)) % base) + 1]]

Base(conv) == CASE conv \in {"d", "u"} -> 10 [] conv = "o" -> 8 [] OTHER -> 16

\* What a directive stands for: padded on the left, or on the right with the
\* flag -; a string is cut to its precision.
Meaning(d) ==
  LET size == IF d.longs >= 2 THEN 2 * Bits ELSE Bits
      body == CASE d.conv \in {"text", "c"} -> IF d.conv = "c" THEN <<d.arg>> ELSE d.arg
                [] d.conv = "s" -> IF d.precision < 0 THEN d.arg
                                   ELSE SubSeq(d.arg, 1, IF d.precision < Len(d.arg)
                                                         THEN d.precision ELSE Len(d.arg))
                [] d.conv = "d" -> IF d.arg < 0 THEN <<"-">> \o Digits(-d.arg, 10)
                                   ELSE Digits(d.arg, 10)
                [] d.conv = "p" -> <<"0", "x">> \o Digits(d.arg, 16)
                [] d.conv \in {"u", "o", "x"} ->
                     Digits(IF d.arg < 0 THEN d.arg + 2^size ELSE d.arg, Base(d.conv))
      pad == IF d.conv = "text" THEN <<>>
             ELSE Times(d.width - Len(body), IF d.flags = <<"0">> THEN "0" ELSE " ")
  IN  IF d.conv # "text" /\ d.flags = <<"-">> THEN body \o pad ELSE pad \o body

Format(ds) == FlattenSeq([i \in DOMAIN ds |-> Text(ds[i])])
Args(ds) ==
  FlattenSeq([i \in DOMAIN ds |->
    LET d == ds[i] IN
    IF d.conv = "text" THEN <<>>
    ELSE (IF d.width >= 0 /\ d.star THEN <<d.width>> ELSE <<>>) \o <<d.arg>>])
Expected(ds) == FlattenSeq([i \in DOMAIN ds |-> Meaning(ds[i])])
=============================================================================
