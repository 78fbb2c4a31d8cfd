---------------------------- MODULE PrintFormat ----------------------------
(***************************************************************************)
(* What myprintf of lib/printk.c makes of one directive: which part of the *)
(* argument it takes, and how number lays sign, prefix, padding and digits *)
(* out.  A directive is given as it is after its flags, width, precision   *)
(* and length are read; the texts between directives are copied as they    *)
(* are.  A long has LongBits bits here, an int IntBits, a short ShortBits. *)
(***************************************************************************)
EXTENDS Integers, Sequences, SequencesExt

CONSTANTS LongBits, IntBits, ShortBits,
          Directives, \* conv, flags, width, precision, qualifier
          Args,       \* the words that are printed
          Strings     \* the strings that are printed

VARIABLES directive, arg, text  \* a directive, its argument, what is printed

vars == <<directive, arg, text>>

Pow2[n \in 0 .. LongBits] == IF n = 0 THEN 1 ELSE 2 * Pow2[n - 1]
Most(m, n) == IF m >= n THEN m ELSE n
Times(c, n) == [i \in 1 .. Most(n, 0) |-> c]
Digits(small) == IF small THEN <<"0","1","2","3","4","5","6","7","8","9","a","b","c","d","e","f">>
                 ELSE <<"0","1","2","3","4","5","6","7","8","9","A","B","C","D","E","F">>

(* The digits of num, the first one first; "0" for 0.                      *)
DigitsOf(num, base, small) ==
  LET of[n \in 0 .. num] == IF n = 0 THEN <<>>
                            ELSE Append(of[n \div base], Digits(small)[(n % base) + 1])
  IN  IF num = 0 THEN <<"0">> ELSE of[num]

(* Mutant: the zeros go in front of the sign.                              *)
X_Layout(spaces, zeros, sign, prefix, tmp, trailing) ==
  Times(" ", spaces) \o Times("0", zeros) \o sign \o prefix \o tmp \o Times(" ", trailing)

Layout(spaces, zeros, sign, prefix, tmp, trailing) ==
  Times(" ", spaces) \o sign \o prefix \o Times("0", zeros) \o tmp \o Times(" ", trailing)

(* number: a '-' takes no place of the field width, a '+' or ' ' does.     *)
number(word, base, size, precision, type) ==
  LET negative == "SIGN" \in type /\ word >= Pow2[LongBits - 1]
      num == IF negative THEN Pow2[LongBits] - word ELSE word
      sign == IF "SIGN" \notin type THEN <<>>
              ELSE IF negative THEN <<"-">>
              ELSE IF "PLUS" \in type THEN <<"+">>
              ELSE IF "SPACE" \in type THEN <<" ">> ELSE <<>>
      prefix == IF "SPECIAL" \notin type THEN <<>>
                ELSE CASE base = 16 -> <<"0", IF "SMALL" \in type THEN "x" ELSE "X">>
                       [] base = 8 -> <<"0">>
                       [] OTHER -> <<>>
      tmp == DigitsOf(num, base, "SMALL" \in type)
      digits == Most(Len(tmp), precision)
      left == size - (IF negative THEN 0 ELSE Len(sign)) - Len(prefix) - digits
      padded == "ZEROPAD" \in type /\ "LEFT" \notin type
  IN  Layout(IF padded \/ "LEFT" \in type THEN 0 ELSE left,
             (IF padded THEN Most(left, 0) ELSE 0) + digits - Len(tmp),
             sign, prefix, tmp,
             IF "LEFT" \in type THEN left ELSE 0)

(* va_arg and the casts: the low bits the length names, sign extended to a
   long when the conversion is signed.                                     *)
Fetch(w, qualifier, signed) ==
  LET bits == CASE qualifier \in {"l", "L"} -> LongBits
                [] qualifier = "h" -> ShortBits
                [] OTHER -> IntBits
      low == w % Pow2[bits]
  IN  IF signed /\ low >= Pow2[bits - 1] THEN low + Pow2[LongBits] - Pow2[bits] ELSE low

Base(conv) == CASE conv = "o" -> 8 [] conv \in {"x", "X", "p"} -> 16 [] OTHER -> 10
Signed(conv) == conv \in {"d", "i"}

(* %s: at most precision characters, %c one, padded to the width.          *)
Padded(s, d) == IF "LEFT" \in d.flags THEN s \o Times(" ", d.width - Len(s))
                ELSE Times(" ", d.width - Len(s)) \o s

Printed(d, a) ==
  CASE d.conv = "c" -> Padded(<<a>>, d)
    [] d.conv = "s" -> Padded(IF d.precision < 0 THEN a
                              ELSE SubSeq(a, 1, IF Len(a) > d.precision THEN d.precision
                                                ELSE Len(a)), d)
    [] d.conv = "p" -> IF d.width = -1
                       THEN number(a, 16, LongBits \div 4, d.precision, d.flags \cup {"ZEROPAD"})
                       ELSE number(a, 16, d.width, d.precision, d.flags)
    [] OTHER -> number(Fetch(a, d.qualifier, Signed(d.conv)), Base(d.conv), d.width,
                       d.precision,
                       d.flags \cup (IF d.conv = "x" THEN {"SMALL"} ELSE {})
                               \cup (IF Signed(d.conv) THEN {"SIGN"} ELSE {}))

Numeric(d) == d.conv \notin {"c", "s"}
ArgsOf(d) == CASE d.conv = "s" -> Strings [] d.conv = "c" -> {"A"} [] OTHER -> Args

Init == directive = <<>> /\ arg = <<>> /\ text = <<>>
myprintf == \E d \in Directives : \E a \in ArgsOf(d) :
              /\ directive = <<>>
              /\ directive' = <<d>> /\ arg' = <<a>> /\ text' = Printed(d, a)
Next == myprintf
Spec == Init /\ [][Next]_vars

-----------------------------------------------------------------------------
(* Reading a field: the text without the spaces around it, and the number
   that a sign, a prefix and digits make.                                  *)
Blank(i, j) == \A k \in i .. j : text[k] = " "
First == CHOOSE i \in 1 .. Len(text) + 1 :
           Blank(1, i - 1) /\ (i <= Len(text) => text[i] # " ")
Core == LET last == CHOOSE j \in 0 .. Len(text) :
                      Blank(j + 1, Len(text)) /\ (j > 0 => text[j] # " ")
        IN  SubSeq(text, First, last)
Unsigned(s) == IF s # <<>> /\ Head(s) \in {"-", "+"} THEN Tail(s) ELSE s
Bare(s, d) == IF "SPECIAL" \in d.flags /\ Base(d.conv) = 16 THEN SubSeq(s, 3, Len(s)) ELSE s
AreDigits(s) == s # <<>> /\ ToSet(s) \subseteq ToSet(Digits(TRUE) \o Digits(FALSE))
DigitValue(c) ==
  CHOOSE n \in 0 .. 15 : c \in {Digits(TRUE)[n + 1], Digits(FALSE)[n + 1]}
ReadsAs(s, base) ==
  LET upto[n \in 0 .. Len(s)] == IF n = 0 THEN 0 ELSE upto[n - 1] * base + DigitValue(s[n])
  IN  upto[Len(s)]
Low(w, bits, signed) == LET n == w % Pow2[bits]
                        IN  IF signed /\ n >= Pow2[bits - 1] THEN n - Pow2[bits] ELSE n
Meant(d, w) == Low(w, IF d.conv = "p" \/ d.qualifier \in {"l", "L"} THEN LongBits
                      ELSE IF d.qualifier = "h" THEN ShortBits ELSE IntBits,
                   Signed(d.conv))

(* What is printed reads back as the value that the length and the sign of
   the directive select, at least as wide as asked and at most one wider,
   padded on the side asked for; a string is cut to its precision only.    *)
FieldReadsBack ==
  \A k \in DOMAIN directive :
    LET d == directive[k]
        a == arg[k]
        value == Meant(d, a)
        width == IF d.conv = "p" /\ d.width = -1 THEN LongBits \div 4 ELSE d.width
        spaced == "SPACE" \in d.flags /\ Signed(d.conv)
    IN  /\ Len(text) >= width
        /\ "LEFT" \in d.flags /\ ~spaced =>
             First = 1 \/ Core = <<>>
        /\ "LEFT" \notin d.flags /\ Core # <<>> => Last(text) # " "
        /\ Numeric(d) =>
             /\ AreDigits(Bare(Unsigned(Core), d))
             /\ ReadsAs(Bare(Unsigned(Core), d), Base(d.conv)) = (IF value < 0 THEN -value ELSE value)
             /\ (Head(Core) = "-") = (value < 0)
             /\ Len(Bare(Unsigned(Core), d)) >= d.precision
             /\ Len(Core) < Len(text) /\ ~spaced => Len(text) <= width + 1
        /\ d.conv = "s" => Core = (IF d.precision >= 0 /\ d.precision < Len(a)
                                   THEN SubSeq(a, 1, d.precision) ELSE a)
=============================================================================
