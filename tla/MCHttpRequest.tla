---------------------------- MODULE MCHttpRequest ----------------------------
(* Model-checking instance of HttpRequest: every list of up to two specs with *)
(* small numbers, the first ones that an int, its bits and a long do not      *)
(* hold, and every form of up to two parts with data that is empty,           *)
(* plain, has the characters at which the parser cuts, a blank line, or text  *)
(* like that of a header.                                                     *)
EXTENDS HttpRequest

Numerals == {0, 1, 2, 3, 4, 8, 9, 16, None, Junk}
MCSpecs == [first : Numerals, last : Numerals] \cup [first : {None}, last : {-1}]
MCRangeStrs == BoundedSeq(MCSpecs, 2)

MCData ==
  {<<>>, <<"word">>, <<"semicolon", "quote", "word">>, <<"CRLF", "CRLF", "word">>,
   <<"filename=", "word", "quote">>, <<"Content-Type", "word", "CRLF", "word">>}

Parts == [file : BOOLEAN, type : BOOLEAN, data : MCData]
MCForms == [parts : BoundedSeq(Parts, 2) \ {<<>>}, crlf : BOOLEAN]
=============================================================================
