------------------------------- MODULE Printk -------------------------------
(***************************************************************************)
(* printk (stdio.c): what a format string and its arguments become on the  *)
(* console.  Strings are sequences of characters, the arguments a sequence *)
(* in which %s finds a string, %c a character, a number a word of the      *)
(* stack, and a long long number two of them, the low one first.           *)
(***************************************************************************)
EXTENDS Integers, Sequences, SequencesExt

CONSTANT UINT  \* an unsigned int, and an unsigned long, wraps here

ASSUME UintAssumption == UINT \in Nat /\ UINT > 1

g_HexChars ==
    <<"0", "1", "2", "3", "4", "5", "6", "7", "8", "9", "a", "b", "c", "d", "e", "f">>

\* The conversion letters and the radix of each.
SignedConversions == {"d", "i"}
RadixOf(letter) ==
    CASE letter \in SignedConversions \cup {"u"} -> 10
      [] letter \in {"X", "x", "p"} -> 16
      [] letter = "o" -> 8
NumberConversions == SignedConversions \cup {"u", "X", "x", "p", "o"}

\* The remainders come last digit first, and the buffer is printed from its end.
printk_unsigned(number, radix) ==
    LET digits[n \in Nat] ==
            (IF n \div radix > 0 THEN digits[n \div radix] ELSE <<>>)
                \o <<g_HexChars[(n % radix) + 1]>>
    IN  digits[number]

printk_signed(number, radix) ==
    IF number < 0 THEN <<"-">> \o printk_unsigned(- number, radix)
    ELSE printk_unsigned(number, radix)

\* The argument a number is read from, and how many words it takes.
Words(length) == IF length = "ll" THEN 2 ELSE 1
Unsigned(args, at, length) ==
    IF length = "ll" THEN args[at] + UINT * args[at + 1] ELSE args[at]
Signed(args, at, length) ==
    LET wraps == UINT ^ Words(length)
        n == Unsigned(args, at, length)
    IN  IF n >= wraps \div 2 THEN n - wraps ELSE n

-----------------------------------------------------------------------------
(* The loop over the format string.  Its state: which of PRINTF_STATE_* it   *)
(* is in, the length read, the next argument, what was printed.              *)

Start == [state |-> "NORMAL", length |-> "", at |-> 1, out |-> <<>>]

Converted(m, args, c) ==
    IF c = "c" THEN <<args[m.at]>>
    ELSE IF c = "s" THEN args[m.at]
    ELSE IF c = "%" THEN <<"%">>
    ELSE IF c \in SignedConversions THEN printk_signed(Signed(args, m.at, m.length), RadixOf(c))
    ELSE IF c \in NumberConversions THEN printk_unsigned(Unsigned(args, m.at, m.length), RadixOf(c))
    ELSE <<>>
WordsRead(m, c) ==
    IF c \in {"c", "s"} THEN 1 ELSE IF c \in NumberConversions THEN Words(m.length) ELSE 0

\* PRINTF_STATE_SPEC_; an unknown letter is swallowed with what came before it.
Specifier_LengthKept(m, args, c) ==
    [m EXCEPT !.state = "NORMAL", !.at = @ + WordsRead(m, c), !.out = @ \o Converted(m, args, c)]
Specifier(m, args, c) ==
    [m EXCEPT !.state = "NORMAL", !.length = "",
              !.at = @ + WordsRead(m, c), !.out = @ \o Converted(m, args, c)]

Iteration(m, args, c) ==
    CASE m.state = "NORMAL" /\ c = "%" -> [m EXCEPT !.state = "LENGTH"]
      [] m.state = "NORMAL" /\ c # "%" -> [m EXCEPT !.out = Append(@, c)]
      [] m.state = "LENGTH" /\ c = "h" -> [m EXCEPT !.state = "LENGTH_SHORT", !.length = "h"]
      [] m.state = "LENGTH" /\ c = "l" -> [m EXCEPT !.state = "LENGTH_LONG", !.length = "l"]
      [] m.state = "LENGTH_SHORT" /\ c = "h" -> [m EXCEPT !.state = "SPEC", !.length = "hh"]
      [] m.state = "LENGTH_LONG" /\ c = "l" -> [m EXCEPT !.state = "SPEC", !.length = "ll"]
      [] OTHER -> Specifier(m, args, c)

printk(fmt, args) == FoldLeft(LAMBDA m, c : Iteration(m, args, c), Start, fmt).out

-----------------------------------------------------------------------------
(* What printk is to print: each directive of the format by itself.          *)

\* The numeral of n: the digits of its places, from the highest that is not 0.
Places(n, radix) ==
    CHOOSE k \in 1 .. 64 : radix ^ k > n /\ \A j \in 1 .. k - 1 : radix ^ j <= n
Numeral(n, radix) ==
    LET k == Places(n, radix)
    IN  [i \in 1 .. k |-> g_HexChars[((n \div radix ^ (k - i)) % radix) + 1]]

\* The length modifier that stands at place i of the format.
Modifiers == {<<>>, <<"h">>, <<"l">>, <<"h", "h">>, <<"l", "l">>}
ModifierAt(fmt, i) ==
    CHOOSE m \in Modifiers :
        /\ IsPrefix(m, SubSeq(fmt, i, Len(fmt)))
        /\ \A other \in Modifiers : IsPrefix(other, SubSeq(fmt, i, Len(fmt))) => Len(other) <= Len(m)

\* What a conversion is to print of the arguments from place at on.
Rendering(letter, long, args, at) ==
    LET wraps == IF long THEN UINT * UINT ELSE UINT
        n == IF long THEN args[at] + UINT * args[at + 1] ELSE args[at]
        negative == letter \in SignedConversions /\ 2 * n >= wraps
    IN  CASE letter = "%" -> <<"%">>
          [] letter = "c" -> <<args[at]>>
          [] letter = "s" -> args[at]
          [] letter \in NumberConversions ->
                 IF negative THEN <<"-">> \o Numeral(wraps - n, 10) ELSE Numeral(n, RadixOf(letter))
          [] OTHER -> <<>>
Used(letter, long) ==
    IF letter \in NumberConversions /\ long THEN 2
    ELSE IF letter \in NumberConversions \cup {"c", "s"} THEN 1 ELSE 0

\* The whole text, from place i of the format on.
Rendered(fmt, args) ==
    LET from[i \in Nat, at \in Nat] ==
            IF i > Len(fmt) THEN <<>>
            ELSE IF fmt[i] # "%" THEN <<fmt[i]>> \o from[i + 1, at]
            ELSE LET modifier == ModifierAt(fmt, i + 1)
                     k == i + 1 + Len(modifier)
                     long == modifier = <<"l", "l">>
                 IN  IF k > Len(fmt) THEN <<>>
                     ELSE Rendering(fmt[k], long, args, at)
                              \o from[k + 1, at + Used(fmt[k], long)]
    IN  from[1, 1]
=============================================================================
