-------------------------------- MODULE Log ---------------------------------
(***************************************************************************)
(* log (debug/log.c) and the conversions it uses (libkern/string.c).       *)
(*                                                                         *)
(* A format is written as tokens, so that what it means is known apart     *)
(* from how log reads its characters: literals, and conversions with their *)
(* arguments.  Memory holds the characters, a NUL, and then whatever the   *)
(* linker put there.  One step is one iteration of log's loop; the output  *)
(* is the sequence of strings given to kwrite.                             *)
(***************************************************************************)
EXTENDS Integers, SequencesExt

CONSTANTS
  IntMod,   \* number of values of int (2^32)
  Formats,  \* formats, as sequences of tokens
  Behind    \* the characters that may follow a format in memory

Literal(c) == [is |-> "literal", char |-> c]
Conversion(c, a) == [is |-> "conversion", char |-> c, arg |-> a]

IsConversion(token) == token.is = "conversion"
IntRange == -(IntMod \div 2) .. IntMod \div 2 - 1

ASSUME LogAssumption ==
  /\ IntMod \in Nat \ {0} /\ IntMod % 2 = 0
  /\ \A tokens \in Formats : \A k \in DOMAIN tokens :
       IsConversion(tokens[k]) /\ tokens[k].char \in {"d", "x"} => tokens[k].arg \in Int

VARIABLES
  tokens,  \* the format
  memory,  \* its characters and what follows them
  ptr,
  pos,
  used,    \* arguments that va_arg has returned
  output

vars == <<tokens, memory, ptr, pos, used, output>>

Characters == FlattenSeq([k \in DOMAIN tokens |->
                IF IsConversion(tokens[k]) THEN <<"%", tokens[k].char>>
                ELSE <<tokens[k].char>>])

Args == SelectSeq(tokens, IsConversion)

-----------------------------------------------------------------------------
Digits == <<"0", "1", "2", "3", "4", "5", "6", "7", "8", "9",
            "A", "B", "C", "D", "E", "F">>

(* The loops of dec2str and hex2str, which leave the last digit first. *)
Backwards(number, base) ==
  LET digits[n \in Nat] ==
        IF n = 0 THEN <<>> ELSE <<Digits[(n % base) + 1]>> \o digits[n \div base]
  IN  digits[number]

dec2str_NoZero(number) ==
  LET magnitude == IF number < 0 THEN -number ELSE number
  IN  Reverse(Backwards(magnitude, 10) \o (IF number < 0 THEN <<"-">> ELSE <<>>))

(* The smallest int is its own negation: no digit is written for it.       *)
dec2str(number) ==
  LET magnitude == IF number < 0 THEN -number ELSE number
  IN  IF number = 0 THEN <<"0">>
      ELSE IF magnitude \notin IntRange THEN <<"-">>
      ELSE Reverse(Backwards(magnitude, 10) \o (IF number < 0 THEN <<"-">> ELSE <<>>))

(* hex_num is unsigned.  One digit is padded to two. *)
hex2str(number) ==
  LET hex_num == number % IntMod
  IN  Reverse((IF hex_num = 0 THEN <<"0">> ELSE Backwards(hex_num, 16))
              \o (IF hex_num < 16 THEN <<"0">> ELSE <<>>) \o <<"x", "0">>)

(* va_arg(int) of an argument, which may be wider than an int. *)
AsInt(arg) == ((arg + IntMod \div 2) % IntMod) - IntMod \div 2

(* A conversion given the argument of another prints something.            *)
Converted(c, token) ==
  IF c # token.char THEN <<"?">>
  ELSE CASE c = "s" -> token.arg
         [] c = "d" -> dec2str(AsInt(token.arg))
         [] c = "x" -> hex2str(AsInt(token.arg))
         [] c = "c" -> <<token.arg>>

CharAt(p) == IF p \in DOMAIN memory THEN memory[p] ELSE "NUL"

(* char terminated[2], as kwrite prints it. *)
Terminated(c) == IF c = "NUL" THEN <<>> ELSE <<c>>

More_NoCount == CharAt(ptr) # "NUL"
More == CharAt(ptr) # "NUL" /\ pos < Len(Characters)

AfterConversion_Extra(p) == p + 3

(* Past the percent sign and the letter. *)
AfterConversion(p) == p + 2

Advance(p) ==
  /\ ptr' = p + 1
  /\ pos' = pos + 1
  /\ UNCHANGED <<tokens, memory>>

PrintLiteral ==
  /\ More
  /\ CharAt(ptr) # "%"
  /\ output' = Append(output, Terminated(CharAt(ptr)))
  /\ Advance(ptr)
  /\ UNCHANGED used

(* The character after a conversion is printed without being looked at. *)
PrintConversion ==
  /\ More
  /\ CharAt(ptr) = "%"
  /\ CharAt(ptr + 1) \in {"s", "d", "x", "c"}
  /\ used' = used + 1
  /\ output' = output \o <<Converted(CharAt(ptr + 1), Args[used'])>>
                      \o <<Terminated(CharAt(AfterConversion(ptr)))>>
  /\ Advance(AfterConversion(ptr))

(* The switch has no default. *)
SkipUnknown ==
  /\ More
  /\ CharAt(ptr) = "%"
  /\ CharAt(ptr + 1) \notin {"s", "d", "x", "c"}
  /\ output' = Append(output, Terminated(CharAt(AfterConversion(ptr))))
  /\ Advance(AfterConversion(ptr))
  /\ UNCHANGED used

Init ==
  /\ tokens \in Formats
  /\ memory \in {Append(Characters, "NUL") \o b : b \in Behind}
  /\ ptr = 1
  /\ pos = 0
  /\ used = 0
  /\ output = <<>>

Next == PrintLiteral \/ PrintConversion \/ SkipUnknown

Spec == Init /\ [][Next]_vars

-----------------------------------------------------------------------------
TypeOK ==
  /\ tokens \in Formats
  /\ ptr \in 1 .. Len(memory) + 1
  /\ pos \in 0 .. Len(Characters)
  /\ used \in 0 .. Len(Args)
  /\ output \in Seq(Seq(STRING))

(* A string of digits, most significant first. *)
Value(digits, base) ==
  FoldLeft(LAMBDA v, d : base * v + (CHOOSE n \in 0 .. base - 1 : Digits[n + 1] = d),
           0, digits)

Numeral(s, base) ==
  s # <<>> /\ \A k \in DOMAIN s : \E n \in 1 .. base : Digits[n] = s[k]

IsDecimal(s, n) ==
  LET digits == IF n < 0 THEN Tail(s) ELSE s
  IN  /\ n < 0 => s[1] = "-"
      /\ Numeral(digits, 10)
      /\ Len(digits) > 1 => digits[1] # "0"
      /\ Value(digits, 10) = IF n < 0 THEN -n ELSE n

IsHexadecimal(s, n) ==
  /\ SubSeq(s, 1, 2) = <<"0", "x">>
  /\ Numeral(SubSeq(s, 3, Len(s)), 16)
  /\ Len(s) >= 4
  /\ Len(s) > 4 => s[3] # "0"
  /\ Value(SubSeq(s, 3, Len(s)), 16) = n % IntMod

Means(s, token) ==
  IF ~IsConversion(token) THEN s = <<token.char>>
  ELSE CASE token.char = "s" -> s = token.arg
         [] token.char = "d" -> IsDecimal(s, token.arg)
         [] token.char = "x" -> IsHexadecimal(s, token.arg)
         [] token.char = "c" -> s = <<token.arg>>

(* Each conversion is a known one with a literal behind it, and each       *)
(* number an int but not the smallest one.  So are the kernel's formats,   *)
(* but for the addresses in pmm.c, lines 87 to 90, which are 64-bit words: *)
(* log prints their low half.                                              *)
Regular ==
  \A k \in DOMAIN tokens : IsConversion(tokens[k]) =>
    /\ k < Len(tokens) /\ ~IsConversion(tokens[k + 1])
    /\ tokens[k].char \in {"s", "d", "x", "c"}
    /\ tokens[k].char \in {"d", "x"} => tokens[k].arg \in IntRange
    /\ tokens[k].char = "d" => tokens[k].arg # -(IntMod \div 2)

(* log prints a regular format as it is meant: every literal once and      *)
(* every argument in its place, in numerals that read back as its value,   *)
(* although it counts characters and iterations in one loop and prints the *)
(* character behind a conversion unseen.                                   *)
PrintsWhatIsMeant ==
  (Regular /\ ~More) =>
    /\ Len(output) = Len(tokens)
    /\ \A k \in DOMAIN tokens : Means(output[k], tokens[k])

(* Only a format that ends in a conversion makes log read past its end;    *)
(* adjacent or unknown conversions print badly but stay inside.            *)
StaysInside ==
  (tokens # <<>> /\ ~IsConversion(Last(tokens))) => ptr <= Len(Characters) + 1
=============================================================================
