------------------------------- MODULE MCLog --------------------------------
(* Every format of up to four of these tokens, and one number of each kind *)
(* for every value of an 8-bit int and for some that are wider.            *)
EXTENDS Log

Tokens == {
  Literal("a"), Literal("b"), Conversion("s", <<"t", "u">>), Conversion("s", <<>>),
  Conversion("d", -10), Conversion("x", 10), Conversion("c", "v"), Conversion("q", 0)}

MCFormats ==
  UNION {[1 .. n -> Tokens] : n \in 0 .. 4}
    \union {<<Conversion(c, n), Literal("a")>> : c \in {"d", "x"}, n \in -128 .. 300}

MCBehind == {<<"y", "z", "y", "z", "NUL">>, <<"NUL">>}
=============================================================================
