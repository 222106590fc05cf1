---------------------------- MODULE MCLineReader ----------------------------
EXTENDS LineReader

FilesWith(enc, bom, chars, n) ==
  {[encoding |-> enc, chars |-> bom \o s] : s \in SeqOf(chars, n) \ {<<>>}}

\* A line of text, its end of two characters, and the next line.
TwoLines == {[encoding |-> "UTF8", chars |-> <<"text", "cr", "lf", "text", "lf">>]}

SomeFiles ==
  TwoLines
    \cup FilesWith("UTF8", <<>>, {"text", "lf", "cr"}, 3)
    \cup FilesWith("UTF8", <<>>, {"text", "lf", "wide"}, 2)
    \cup FilesWith("UTF8", <<"bom">>, {"text", "lf", "wide"}, 2)
    \cup FilesWith("ANSI", <<>>, {"text", "lf", "wide"}, 2)
    \cup FilesWith("UTF16LE", <<"bom">>, {"text", "lf", "cr"}, 2)
    \cup FilesWith("UTF16BE", <<"bom">>, {"text", "lf"}, 2)
=============================================================================
