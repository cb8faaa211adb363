------------------------------- MODULE Printf -------------------------------
(***************************************************************************)
(* printf of the C library, printf.c: the characters it sends through      *)
(* putchar to the terminal, and the number it returns.  A format is a      *)
(* sequence of characters; the characters that printf looks at, or prints  *)
(* of its own, are strings of length 1.  int and unsigned int have WORD    *)
(* values.                                                                 *)
(***************************************************************************)
EXTENDS Terminal

INT_MAX == WORD \div 2 - 1

digits == <<"0", "1", "2", "3", "4", "5", "6", "7",
            "8", "9", "A", "B", "C", "D", "E", "F">>

\* The loop of printint, the last digit first, and buf from its end.
Numeral(num, base) ==
    LET buf[n \in Nat] ==
            IF n \div base = 0 THEN <<digits[(n % base) + 1]>>
            ELSE <<digits[(n % base) + 1]>> \o buf[n \div base]
    IN  Reverse(buf[num])

\* Mutant of printint: the sign is not looked at.
printint_unsigned(number, tgt_base, sign) == Numeral(number % WORD, tgt_base)

printint(number, tgt_base, sign) ==
    IF sign /\ number < 0 THEN <<"-">> \o Numeral(-number, tgt_base)
    ELSE Numeral(number % WORD, tgt_base)

\* The number of characters from i on that are no directive, the first
\* included.
Amount(format, i) ==
    LET stops == {j \in (i + 1) .. Len(format) : format[j] = "%"}
    IN  IF stops = {} THEN Len(format) - i + 1 ELSE Min(stops) - i

\* What a directive shows of its argument.
Converted(directive, arg) ==
    CASE directive = "d" -> printint(arg, 10, TRUE)
      [] directive = "u" -> printint(arg, 10, FALSE)
      [] directive = "x" -> <<"0", "x">> \o printint(arg, 16, FALSE)
      [] directive = "c" -> <<arg>>
      [] directive = "s" -> arg

\* Numbers are printed before the limit is tested, text after.
PrintedAtLimit(directive) == directive \in {"d", "u", "x"}

\* A character of the format, or its terminator.
CharAt(format, i) == IF i <= Len(format) THEN format[i] ELSE NUL

\* The end of a round, which prints text: the limit of what has been written,
\* then the rounds from position i and argument a on, which loop has.
printf_put(loop, text, shown, i, a, written) ==
    IF Len(text) \notin 0 .. (INT_MAX - written)
    THEN [out |-> IF shown THEN text ELSE <<>>, ret |-> -1]
    ELSE LET rest == loop[<<i, a, written + Len(text)>>]
         IN  [out |-> text \o rest.out, ret |-> rest.ret]

\* A round of the loop of printf, at position i of the format, argument a and
\* "written": the characters printed and the value returned from there on.
printf_round(format, args, loop, i, a, written) ==
    LET first  == CharAt(format, i)
        second == CharAt(format, i + 1)
        from   == IF first = "%" THEN i + 1 ELSE i
        end    == from + Amount(format, from)
    IN  IF i > Len(format) THEN [out |-> <<>>, ret |-> written]
        ELSE IF first # "%" \/ second = "%"
        THEN printf_put(loop, SubSeq(format, from, end - 1), FALSE, end, a, written)
        ELSE IF second \in {"d", "u", "x", "c", "s"}
        THEN printf_put(loop, Converted(second, args[a]), PrintedAtLimit(second),
                        i + 2, a + 1, written)
        ELSE printf_put(loop, SubSeq(format, i, Len(format)), FALSE,
                        Len(format) + 1, a, written)

printf(format, args) ==
    LET loop[at \in Nat \X Nat \X Nat] ==
            printf_round(format, args, loop, at[1], at[2], at[3])
    IN  loop[<<1, 1, 0>>]

\* puts prints its string and a newline.
puts(string) == printf(<<"%", "s", NEWLINE>>, <<string>>)

(***************************************************************************)
(* Reference: a numeral denotes a number, and a format is a row of pieces. *)
(***************************************************************************)
DigitOf(ch) == (CHOOSE d \in 1 .. 16 : digits[d] = ch) - 1

Denotes(numeral, base) ==
    LET value[i \in 0 .. Len(numeral)] ==
            IF i = 0 THEN 0 ELSE value[i - 1] * base + DigitOf(numeral[i])
    IN  value[Len(numeral)]

\* Pieces of a format: the characters, the arguments and what is to be shown.
Piece(form, args, show) == [form |-> form, args |-> args, show |-> show]

LongText == [i \in 1 .. (INT_MAX \div 2 + 1) |-> "v"]

Pieces ==
    <<Piece(<<"t">>, <<>>, <<"t">>), Piece(<<"%", "%">>, <<>>, <<"%">>),
      Piece(<<"%", "c">>, <<"q">>, <<"q">>),
      Piece(<<"%", "s">>, <<LongText>>, LongText),
      Piece(<<"%", "s">>, <<<<>>>>, <<>>),
      Piece(<<"%", "d">>, <<-5>>, <<"-", "5">>),
      Piece(<<"%", "u">>, <<7>>, <<"7">>),
      Piece(<<"%", "x">>, <<6>>, <<"0", "x", "6">>)>>

Field(row, f) == FlattenSeq([i \in DOMAIN row |-> Pieces[row[i]][f]])

\* The numeral of a signed number denotes it, that of an unsigned
\* one its value modulo 2^32, without leading zeros, 0 and INT_MIN included.
IntegersPrinted ==
    \A n \in -(INT_MAX + 1) .. INT_MAX :
       /\ LET text == printint(n, 10, TRUE)
          IN  IF n < 0 THEN Head(text) = "-" /\ Denotes(Tail(text), 10) = -n
              ELSE Denotes(text, 10) = n
       /\ \A base \in {10, 16} :
             LET text == printint(n, base, FALSE)
             IN  /\ Denotes(text, base) = n % WORD
                 /\ Head(text) = "0" => Len(text) = 1

\* For every row of up to four directives, "%%" and texts, what is
\* printed is what the pieces show, in order and each with its own argument,
\* and the value returned is the number of characters, or -1 beyond INT_MAX.
PrintfMatches ==
    /\ IntegersPrinted
    /\ \A n \in 0 .. 4 : \A row \in [1 .. n -> DOMAIN Pieces] :
          LET result == printf(Field(row, "form"), Field(row, "args"))
              show   == Field(row, "show")
          IN  /\ Len(show) <= INT_MAX => result.out = show /\ result.ret = Len(show)
              /\ Len(show) > INT_MAX => result.ret = -1
=============================================================================
