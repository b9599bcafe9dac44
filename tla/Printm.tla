------------------------------- MODULE Printm -------------------------------
(***************************************************************************)
(* printm.c: the interpreter of format strings, one character per step.    *)
(* It serves one call with one or more directives; the lock around it is   *)
(* part of Harts.  Characters are strings of length one.                   *)
(*                                                                         *)
(* The types of C are as wide as Bits says, which keeps their order.       *)
(***************************************************************************)
EXTENDS Integers, Sequences, SequencesExt

CONSTANTS
  BufSize,     \* characters in buf
  Bits,        \* bits of the C types, a function of the length modifiers
  Directives,  \* what a call may be asked to print, with the text before it
  Followers    \* what it may be asked to print after that

Flags   == {"#", "0", "-", " ", "+"}
Lengths == {"", "hh", "h", "l", "ll", "z"}
Unsupported == {"e", "E", "f", "F", "g", "G", "a", "A", "C", "S", "n", "M"}
Conversions == {"d", "i", "u", "o", "x", "p", "X", "c", "s", "%"} \cup Unsupported
Digits  == <<"0", "1", "2", "3", "4", "5", "6", "7", "8", "9", "a", "b", "c", "d", "e", "f">>
Capital == [Digits EXCEPT ![11] = "A", ![12] = "B", ![13] = "C", ![14] = "D", ![15] = "E",
                          ![16] = "F"]

Bases   == {8, 10, 16}

\* A number to a base, without leading zeros, if buf has room for it.
Places(n, base) ==
  CHOOSE p \in 1..BufSize : n < base^p /\ (p > 1 => base^(p-1) <= n)
Numeral(n, base, digits) ==
  [p \in 1..Places(n, base) |-> digits[((n \div base^(Places(n, base) - p)) % base) + 1]]

\* Powers, as far as numerals and types need them.
Powers ==
  /\ \A base \in Bases : /\ base^0 = 1
                        /\ \A p \in 0..(BufSize - 1) : base^(p + 1) = base * base^p
  /\ \A length \in Lengths :
       2^(Bits[length] - 1) \in Nat \ {0} /\ 2^Bits[length] = 2 * 2^(Bits[length] - 1)

\* A directive that printm knows, with a width of up to two digits.  Its text does
\* not begin another one.  The lowest long long is out: C cannot negate it.
IsDirective(d) ==
  /\ d.text \in Seq(STRING) /\ \A n \in DOMAIN d.text : d.text[n] # "%"
  /\ d.flags \in Seq(Flags)
  /\ d.width = <<>> \/ \E n \in 1..99 : d.width = Numeral(n, 10, Digits)
  /\ d.length \in Lengths /\ d.conversion \in Conversions
  /\ d.number \in Int /\ d.string \in Seq(STRING)
  /\ d.conversion = "c" => d.string # <<>>
  /\ d.conversion \in {"d", "i"} /\ Bits[d.length] = Bits["ll"] =>
       d.number % 2^Bits["ll"] # 2^(Bits["ll"] - 1)

\* Assumed of the constants, where the module is instantiated.  The buffer holds
\* the digits of every number.  The modifier z is skipped: what it modifies is an int.
PrintmAssumption ==
  /\ BufSize \in Nat /\ BufSize > 1
  /\ Bits \in [Lengths -> Nat \ {0}] /\ Bits["z"] = Bits[""]
  /\ \A length \in Lengths, base \in Bases : 2^Bits[length] <= base^BufSize
  /\ Powers
  /\ \A d \in Directives \cup Followers : IsDirective(d)

VARIABLES
  line,        \* the directives of the call, with the texts before them
  format,      \* the format string that spells them
  i,           \* place in the format string
  buf,         \* the j characters in the buffer
  flags, fdwidth,
  ap,          \* the number of arguments taken
  out          \* what was written to the UART

vars == <<line, format, i, buf, flags, fdwidth, ap, out>>

(***************************************************************************)
(* A directive is a record: the text before it, its flags in some order,   *)
(* its width as digits, a length modifier, a conversion, and the argument  *)
(* that is passed for it, a number or a string.                            *)
(***************************************************************************)
Modifier(length) ==
  CASE length = ""   -> <<>>
    [] length = "h"  -> <<"h">>
    [] length = "hh" -> <<"h", "h">>
    [] length = "l"  -> <<"l">>
    [] length = "ll" -> <<"l", "l">>
    [] length = "z"  -> <<"z">>

Spelled(d) == d.text \o <<"%">> \o d.flags \o d.width \o Modifier(d.length) \o <<d.conversion>>
Format(ds) == FlattenSeq([n \in DOMAIN ds |-> Spelled(ds[n])])

Running == i <= Len(format)
char    == format[i]
Special == Running /\ "special" \in flags

-----------------------------------------------------------------------------
(* _itoa: the digits come out low first and are reversed in place. *)
_itoa(number, base, digits) ==
  LET digit[n \in 0..number] ==
        IF n = 0 THEN <<>> ELSE <<digits[(n % base) + 1]>> \o digit[n \div base]
      all == digit[number]
  IN  IF all = <<>> THEN <<"0">> ELSE Reverse(SubSeq(all, 1, IF Len(all) < BufSize THEN Len(all) ELSE BufSize))

\* va_arg: the arguments of the directives that take one, in order.
Taken(d)  == IF d.conversion \in {"%"} \cup Unsupported THEN <<>> ELSE <<d>>
Arguments == FlattenSeq([n \in DOMAIN line |-> Taken(line[n])])
Argument  == Arguments[ap + 1].number

\* The type that the length modifiers select, in the order of the tests.
LengthRead ==
  CASE "hh" \in flags -> "hh"
    [] "hh" \notin flags /\ "ll" \in flags -> "ll"
    [] flags \cap {"hh", "ll"} = {} /\ "h" \in flags -> "h"
    [] flags \cap {"hh", "ll", "h"} = {} /\ "l" \in flags -> "l"
    [] OTHER -> ""

AsUnsigned(n, length) == n % 2^Bits[length]
AsSigned(n, length) ==
  LET u == AsUnsigned(n, length)
  IN  IF u >= 2^(Bits[length] - 1) THEN u - 2^Bits[length] ELSE u

\* The calls of _printm around a number, in their order: prefix and number
\* in front of the padding, or the padding in front of what is left of them.
Layout(prefix, number) ==
  LET left  == "-" \in flags
      zero  == ~left /\ "0" \in flags
      width == Len(prefix) + Len(number)
      pad   == [n \in 1..(IF fdwidth > width THEN fdwidth - width ELSE 0) |->
                  IF zero THEN "0" ELSE " "]
  IN  (IF left \/ zero THEN prefix ELSE <<>>)
        \o (IF left THEN number ELSE <<>>)
        \o pad
        \o (IF left \/ zero THEN <<>> ELSE prefix)
        \o (IF left THEN <<>> ELSE number)

-----------------------------------------------------------------------------
Advance == i' = i + 1 /\ UNCHANGED <<line, format>>

Text ==
  /\ Running /\ char # "%" /\ flags = {}
  /\ Advance
  /\ IF Len(buf) + 1 = BufSize
     THEN out' = out \o Append(buf, char) /\ buf' = <<>>
     ELSE buf' = Append(buf, char) /\ UNCHANGED out
  /\ UNCHANGED <<flags, fdwidth, ap>>

EnterSpecial ==
  /\ Running /\ char = "%" /\ flags = {}
  /\ Advance
  /\ out' = out \o buf
  /\ buf' = <<>>
  /\ fdwidth' = 0
  /\ flags' = {"special"}
  /\ UNCHANGED ap

IsWidth == \E n \in 1..10 : char = Digits[n] /\ (n = 1 => "fdwidth" \in flags)

FieldWidth ==
  /\ Special /\ IsWidth
  /\ Advance
  /\ fdwidth' = fdwidth * 10 + (CHOOSE n \in 1..10 : char = Digits[n]) - 1
  /\ flags' = flags \cup {"fdwidth"}
  /\ UNCHANGED <<buf, ap, out>>

FlagModifier ==
  /\ Special /\ ~IsWidth /\ char \in Flags
  /\ Advance
  /\ flags' = (flags \ {"fdwidth"}) \cup {char}
  /\ UNCHANGED <<buf, fdwidth, ap, out>>

LengthModifier ==
  /\ Special /\ char \in {"h", "l"}
  /\ Advance
  /\ flags' = (flags \ {"fdwidth"}) \cup {char}
                \cup (IF char \notin flags THEN {} ELSE IF char = "h" THEN {"hh"} ELSE {"ll"})
  /\ UNCHANGED <<buf, fdwidth, ap, out>>

\* Mutation: a conversion does not reset the flags.
EndSpecial_keeps_flags(printed, taken) ==
  /\ Advance
  /\ out' = out \o printed
  /\ ap' = ap + taken
  /\ buf' = <<>>
  /\ UNCHANGED <<flags, fdwidth>>

\* A conversion prints, and ends the special section.
EndSpecial(printed, taken) ==
  /\ Advance
  /\ out' = out \o printed
  /\ ap' = ap + taken
  /\ flags' = {}
  /\ buf' = <<>>
  /\ UNCHANGED fdwidth

SignedDecimal ==
  /\ Special /\ char \in {"d", "i"}
  /\ LET num    == AsSigned(Argument, LengthRead)
         number == IF num < 0 THEN -num ELSE num
         prefix == CASE num < 0 -> <<"-">>
                     [] num >= 0 /\ "+" \in flags -> <<"+">>
                     [] num >= 0 /\ "+" \notin flags /\ " " \in flags -> <<" ">>
                     [] OTHER -> <<>>
     IN  EndSpecial(Layout(prefix, _itoa(number, 10, Digits)), 1)

UnsignedDecimal ==
  /\ Special /\ char = "u"
  /\ EndSpecial(Layout(<<>>, _itoa(AsUnsigned(Argument, LengthRead), 10, Digits)), 1)

\* The alternative form of a number, whatever the number is.
Prefix(mark) == IF "#" \in flags THEN mark ELSE <<>>

Octal ==
  /\ Special /\ char = "o"
  /\ EndSpecial(Layout(Prefix(<<"0">>), _itoa(AsUnsigned(Argument, LengthRead), 8, Digits)), 1)

\* A pointer is as wide as a long, whatever the modifiers say.
LowerHexadecimal ==
  /\ Special /\ char \in {"x", "p"}
  /\ LET num == AsUnsigned(Argument, IF char = "p" THEN "l" ELSE LengthRead)
     IN  EndSpecial(Layout(Prefix(<<"0", "x">>), _itoa(num, 16, Digits)), 1)

UpperHexadecimal ==
  /\ Special /\ char = "X"
  /\ LET num == AsUnsigned(Argument, LengthRead)
     IN  EndSpecial(Layout(Prefix(<<"0", "X">>), _itoa(num, 16, Capital)), 1)

Character == Special /\ char = "c" /\ EndSpecial(<<Arguments[ap + 1].string[1]>>, 1)

\* A width cuts a string off (strnlen) and does not pad it.
CString ==
  /\ Special /\ char = "s"
  /\ LET string == Arguments[ap + 1].string
     IN  EndSpecial(IF fdwidth > 0 /\ fdwidth < Len(string) THEN SubSeq(string, 1, fdwidth)
                    ELSE string, 1)

Percent == Special /\ char = "%" /\ EndSpecial(<<"%">>, 0)

\* Conversions that are known and not supported: nothing printed or taken.
NotSupported == Special /\ char \in Unsupported /\ EndSpecial(<<>>, 0)

\* Any other character is skipped.
Skip ==
  /\ Special /\ ~IsWidth /\ char \notin Flags \cup {"h", "l"} \cup Conversions
  /\ Advance
  /\ flags' = flags \ {"fdwidth"}
  /\ UNCHANGED <<buf, fdwidth, ap, out>>

\* The end of the string flushes the buffer.
LastFlush ==
  /\ i = Len(format) + 1
  /\ i' = i + 1
  /\ out' = out \o buf
  /\ buf' = <<>>
  /\ UNCHANGED <<line, format, flags, fdwidth, ap>>

-----------------------------------------------------------------------------
Call(directives) ==
  /\ line = directives
  /\ format = Format(directives)
  /\ i = 1
  /\ buf = <<>>
  /\ flags = {}
  /\ fdwidth = 0
  /\ ap = 0
  /\ out = <<>>

Init == \E d \in Directives, e \in Followers : Call(<<d, e>>)

Next ==
  \/ Text \/ EnterSpecial
  \/ FieldWidth \/ FlagModifier \/ LengthModifier
  \/ SignedDecimal \/ UnsignedDecimal \/ Octal \/ LowerHexadecimal \/ UpperHexadecimal
  \/ Character \/ CString \/ Percent \/ NotSupported \/ Skip
  \/ LastFlush

Spec == Init /\ [][Next]_vars

-----------------------------------------------------------------------------
(* What a directive is to print, without flags, buffer or loops. *)

Has(d, flag) == \E n \in DOMAIN d.flags : d.flags[n] = flag

Sign(d, n) ==
  CASE n < 0 -> <<"-">>
    [] n >= 0 /\ Has(d, "+") -> <<"+">>
    [] n >= 0 /\ ~Has(d, "+") /\ Has(d, " ") -> <<" ">>
    [] OTHER -> <<>>

Columns(d) ==
  IF d.width = <<>> THEN 0 ELSE CHOOSE n \in 1..99 : Numeral(n, 10, Digits) = d.width

\* A number fills its columns: to the right of blanks, to the left of them, or
\* with zeros between its prefix and its digits.
Field(d, prefix, digits) ==
  LET body == prefix \o digits
      fill == [n \in 1..(Columns(d) - Len(body)) |-> IF Has(d, "0") /\ ~Has(d, "-") THEN "0" ELSE " "]
  IN  CASE Has(d, "-") -> body \o fill
        [] ~Has(d, "-") /\ Has(d, "0") -> prefix \o fill \o digits
        [] OTHER -> fill \o body

Truncated(n, bits) ==
  CHOOSE m \in -2^(bits - 1) .. 2^(bits - 1) - 1 : (n - m) % 2^bits = 0

Printed(d) ==
  LET bits    == Bits[IF d.conversion = "p" THEN "l" ELSE d.length]
      natural == d.number % 2^bits
      integer == Truncated(d.number, bits)
      mark(m) == IF Has(d, "#") THEN m ELSE <<>>
  IN  CASE d.conversion \in {"d", "i"} ->
             Field(d, Sign(d, integer),
                   Numeral(IF integer < 0 THEN -integer ELSE integer, 10, Digits))
        [] d.conversion = "u" -> Field(d, <<>>, Numeral(natural, 10, Digits))
        [] d.conversion = "o" -> Field(d, mark(<<"0">>), Numeral(natural, 8, Digits))
        [] d.conversion \in {"x", "p"} ->
             Field(d, mark(<<"0", "x">>), Numeral(natural, 16, Digits))
        [] d.conversion = "X" -> Field(d, mark(<<"0", "X">>), Numeral(natural, 16, Capital))
        [] d.conversion = "c" -> <<Head(d.string)>>
        [] d.conversion = "s" ->
             SubSeq(d.string, 1, IF Columns(d) \in 1..Len(d.string) THEN Columns(d) ELSE Len(d.string))
        [] d.conversion = "%" -> <<"%">>
        [] d.conversion \in Unsupported -> <<>>

\* A call prints every text and every directive, in order, completely and
\* once: text that waits in the buffer comes before the number whose digits
\* need the buffer, and neither flags nor width nor length of a directive
\* reach the next one.
Finished    == i = Len(format) + 2
PrintsRight ==
  Finished =>
    out = FlattenSeq([n \in DOMAIN line |-> line[n].text \o Printed(line[n])])

=============================================================================
