--------------------------- MODULE MCFunctionBody ---------------------------
(***************************************************************************)
(* The bodies the parser is checked on: statements of every kind, alone    *)
(* and in pairs, as they should be and with one token taken out, put in,   *)
(* or put in the place of another, or with the rest of the file missing.   *)
(***************************************************************************)
EXTENDS FunctionBody

MCIdentifiers == {"a", "T", "E", "A", "x"}

\* a is a variable, T a type, E an enumeration with the constant A; x is new.
MCGlobals ==
  [n \in {"T", "E"} |-> IF n = "T" THEN Entry("type", {}) ELSE Entry("enum", {"A"})]
MCParameters == [n \in {"a"} |-> Entry("variable", {})]

WellFormed ==
    { <<"a", "=", "a", "+", "1", "*", "a", "-", "a", ";">>,
      <<"a", "+=", "-", "a", "++", "[", "1", "]", ",", "a", "=~", ";">>,
      <<"a", ">>", "a", "<", "a", "==", "a", "&", "a", "|", "a", ";">>,
      <<"a", "&&", "a", "||", "a", ";">>,
      <<"a", "?", "a", ",", "a", ":", "a", "?", "1", ":", "s", ";">>,
      <<"a", "->", "x", ".", "a", "(", ")", "(", "1", ",", "a", "=", "s", ")", ";">>,
      <<"(", "a", ")", "&&", "E", "::", "A", ";">>,
      <<"cast", "<", "T", "*", "const", ">", "(", "a", "+", "1", ")", ";">>,
      <<"sizeof", "(", "byte", ")", ";">>,
      <<"sizeof", "(", "*", "a", ")", ";">>,
      <<"sizeof", "(", "int", "[", "1", "]", ")", ";">>,
      <<"[", "1", ",", "s", ",", "[", "]", ",", "E", "::", "A", ",", "]", ";">>,
      <<"cast", "<", "int", "(", "T", "x", ",", "byte", "volatile", ")", ">", "(", "a", ")", ";">>,
      <<"int", "x", ";">>,
      <<"T", "x", "=", "1", ",", "a", "=", "s", ";">>,
      <<"T", "(", "int", ",", "E", ")", "x", ",", "A", ";">>,
      <<"E", "[", "E", "::", "A", "]", "x", "=", "a", ";">>,
      <<"if", "(", "a", ")", "a", ";", "else", "{", "byte", "x", ";", "}">>,
      <<"if", "(", "a", ",", "a", ")", "if", "(", "1", ")", ";", "else", ";">>,
      <<"while", "(", "a", ")", "{", "a", ";", "}">>,
      <<"do", "{", "continue", ";", "}", "while", "(", "a", ")">>,
      <<"for", "(", "int", "x", "=", "1", ";", "x", "<", "a", ";", "x", "++", ")", "x", ";">>,
      <<"for", "(", ";", "a", ";", ")", "break", ";">>,
      <<"for", "(", "a", "=", "1", ";", "1", ";", "a", ")", "int", "x", ";">>,
      <<"switch", "(", "a", ")", "{", "case", "1", ":", "case", "E", "::", "A", ":", "break", ";", "default", ":", "{", "}", "}">>,
      <<"switch", "(", "a", ")", "{", "default", ":", ";", "case", "1", ":", "int", "x", ";", "}">>,
      <<"return", ";">>,
      <<"return", "a", ",", "1", ";">>,
      <<"{", "int", "x", ";", "{", "int", "x", ";", "x", "=", "a", ";", "}", "x", ";", "}">>,
      <<"opaque", "x", ";">>,
      <<"struct", "x", "{", "int", "a", ",", "x", ";", "T", "*", "A", ";", "}", ";">>,
      <<"union", "x", "{", "E", "x", ";", "byte", "a", ";", "}", ";">>,
      <<"enum", "x", "{", "A", ",", "a", "=", "1", ",", "E", ",", "}", ";">>,
      <<"enum", "x", "{", "A", "}", ";">>,
      <<"typedef", "T", "*", "x", ";">>,
      <<";">> }

\* Declaring x twice in one scope would be an error.
Declaring == {s \in WellFormed : s[1] \in KeywordTypes \cup {"T", "E"} \cup DeclarationKeywords}

Body(s, t) == <<"{">> \o s \o t \o <<"}">>

Good ==
  {[text |-> Body(s, t), edited |-> FALSE] :
     s \in WellFormed, t \in (WellFormed \ Declaring) \cup {<<>>}}

EditTokens ==
  {"{", "}", "(", ")", "]", ";", ",", ":", "::", "=", "a", "T", "x", "int", "byte", "1", "9",
   "if", "else", "case", "break", "struct", "sizeof"}

Spliced(s, i, middle, j) == SubSeq(s, 1, i) \o middle \o SubSeq(s, j, Len(s))

EditsOf(s) ==
       {Spliced(s, i - 1, <<>>, i + 1) : i \in DOMAIN s}
  \cup {Spliced(s, i - 1, <<t>>, i + 1) : i \in DOMAIN s, t \in EditTokens}
  \cup {Spliced(s, i - 1, <<t>>, i) : i \in DOMAIN s, t \in EditTokens}

\* An edited statement with one after it, in a function with others after it or at the
\* end of the file.
Edited ==
  UNION {{[text |-> Body(e, <<"a", ";">>), edited |-> TRUE] : e \in EditsOf(s)} :
           s \in WellFormed}
  \cup {[text |-> <<"{">> \o SubSeq(s, 1, i), edited |-> TRUE] :
           s \in {t \in WellFormed : Len(t) > 3}, i \in 0 .. 3}
  \cup {[text |-> <<"{">> \o s, edited |-> TRUE] : s \in WellFormed}

MCBodies == Good \cup Edited
=============================================================================
