------------------------------- MODULE MCWords -------------------------------
(* The settings, texts and meanings of words that TLC tries.               *)
EXTENDS Words

WordHeader ==
  [word |-> {"a", "b", "c", "1", "-", "+", "_"}, begin |-> {"a", "b", "c", "1"},
   end |-> {"a", "b", "c", "1", "+"}, first |-> {"-"}, last |-> {"-", "."},
   bump |-> {"|"}, number |-> {}, translate |-> [c \in {} |-> c],
   buzz |-> {}, use |-> {}, stop |-> {<<"c">>}, min |-> 1, max |-> 4,
   codes |-> [w \in {} |-> w], economic |-> FALSE]
Stems ==
  [w \in {<<"a">>, <<"a", "b">>, <<"b", "a">>} |->
     CASE w = <<"a">> -> <<<<"b">>>>
       [] w = <<"a", "b">> -> <<<<"a", "a">>, <<"b", "b">>>>
       [] w = <<"b", "a">> -> <<<<"a">>>>]

MCSettings ==
  {WordHeader,
   [WordHeader EXCEPT !.buzz = {<<"a", "+", "+">>, <<"b", "/", "a">>}, !.last = {"-", ".", "/"}],
   [WordHeader EXCEPT !.codes = Stems],
   [WordHeader EXCEPT !.codes = Stems, !.economic = TRUE, !.number = {"1", "-"}, !.min = 2],
   [WordHeader EXCEPT !.translate = [c \in {"_", "."} |-> IF c = "_" THEN "-" ELSE "b"]],
   [WordHeader EXCEPT !.use = {<<"a", "b">>, <<"a", "/", "b">>}]}

MCTexts ==
  BoundedSeq({"a", "b", "-", "/", " "}, 4)
  \cup {<<"A", "b", " ", "a", "B">>, <<"a", "|", "b">>, <<"a", " ", "|", " ", "b">>,
        <<"a", "|", " ", "b", "a">>, <<"a", "b", " ", "a", "b", " ", "a", "b">>,
        <<"a", "+", "+", "/", " ", "a", "+">>, <<"-", "a", "+", "+", "-", ".">>,
        <<"a", "_", ".", " ", "_", "a">>, <<"b", "/", "a", "/">>, <<"1", "1", " ", "1", "a">>,
        <<"a", "1", "-", "/", "1">>, <<"a", "=", "b">>, <<"(", "a", ")">>, <<"a", "\"", "b">>,
        <<"a", "\\", "b">>, <<"a", "b", "\\", "-">>, <<"\\", "-", "a">>,
        <<"a", "*", " ", "b">>, <<"a", "?", "b">>, <<"?", "a">>, <<"a", " ", "*">>, <<"*", "a">>,
        <<"a", "*", "*">>, <<"c", " ", "a">>, <<"a", " ", "c", " ", "b">>, <<"a", "c", " ", "b", "c">>,
        <<"o", "r", " ", "a">>, <<"\\", " ", "a">>,
        <<"a", "b", "a", "b", "a">>, <<"a", "a", "a", "a">>, <<"b", "a", "1", "c">>}

MCLower == [c \in {"A", "B"} |-> IF c = "A" THEN "a" ELSE "b"]
MCRules == {<<"o", "r">>}
MCVowels == {"a"}
MCDigits == {"1"}
MCPuncts == {"-", "+", "_", ".", "/", "|"}
=============================================================================
