------------------------------ MODULE MCOracle ------------------------------
(* Oracle on small instances: what cases declare, and what engines print. *)
EXTENDS Oracle

\* All that the normalizers tell apart, and two words they do not.
AnyWord == Numbers \cup Timestamps \cup DOMAIN Rank \cup {"t", "f", "", " ", "NULL", "a", "b"}

Case(mode, normalizers, missing) == [mode |-> mode, normalizers |-> normalizers, missing |-> missing]

\* The chains of the corpus, each pair whose order matters, and some more.
Chains ==
  { <<>>, <<"boolean_tf_to_int">>, <<"error_first_line_only">>,
    <<"pg_array_brace_to_bracket", "json_string_array_unquote">>,
    <<"json_string_array_unquote", "pg_array_brace_to_bracket">>,
    <<"json_string_array_unquote", "json_string_array_unquote">>,
    <<"pg_array_brace_to_bracket", "jsonb_canonical">>,
    <<"jsonb_canonical", "pg_array_brace_to_bracket">>,
    <<"jsonb_canonical", "json_string_array_unquote">>,
    <<"pg_null_blank_to_null", "boolean_tf_to_int", "numeric_normalize">>,
    <<"strip_trailing_ws", "pg_null_blank_to_null">>,
    <<"pg_null_blank_to_null", "strip_trailing_ws">>,
    <<"timestamp_iso_to_seconds", "numeric_normalize">>,
    <<"jsonb_canonical", "timestamp_iso_to_seconds">> }

AnyCase ==
  {Case("ordered_rows", chain, FALSE) : chain \in Chains}
    \cup {Case("sorted_rows", <<>>, FALSE), Case("set", <<"boolean_tf_to_int">>, FALSE)}

Quoted(quotes, words) == [quotes |-> quotes, words |-> words, key |-> FALSE]

Pair(key, value) == [quotes |-> 1, words |-> <<key, value>>, key |-> TRUE]

Cell(bracket, items) == [bracket |-> bracket, items |-> items]

One(cell) == <<<<cell>>>>

OneEach(words) == {One(Scalar(w)) : w \in words}

\* Texts one declared normalizer, or a compare mode, tells apart from others.
Shows(declared) ==
  CASE declared = "boolean_tf_to_int" -> OneEach({"t", "1"})
    [] declared = "pg_null_blank_to_null" -> OneEach({"", "NULL"})
    [] declared = "strip_trailing_ws" -> OneEach({"", " "})
    [] declared = "numeric_normalize" -> OneEach({"1.50", "9007199254740993", "9007199254740992"})
    [] declared = "timestamp_iso_to_seconds" ->
         {<<<<Scalar("12:00:00.5"), Scalar("1.5")>>>>, <<<<Scalar("12:00:00"), Scalar("1")>>>>}
    [] declared = "jsonb_canonical" ->
         {One(Cell("{", <<Pair("k1", "1.50"), Pair("k2", "b")>>)),
          One(Cell("{", <<Pair("k2", "b"), Pair("k1", "1.5")>>)),
          One(Cell("[", <<Bare("1.50"), Quoted(1, <<"b">>)>>))}
    [] declared = "pg_array_brace_to_bracket" ->
         {One(Cell("{", <<Bare("a"), Bare("b")>>)), One(Cell("{", <<Quoted(1, <<"a">>), Bare("b")>>)),
          One(Cell("{", <<>>))}
    [] declared = "json_string_array_unquote" ->
         {One(Cell("[", <<Quoted(1, <<"a">>), Quoted(1, <<"b">>)>>)), One(Cell("[", <<Quoted(1, <<"a", "b">>)>>)),
          One(Cell("[", <<Quoted(2, <<"a">>), Quoted(1, <<"b">>)>>)), One(Cell("[", <<Quoted(1, <<"b">>)>>)),
          One(Cell("[", <<Bare("1.50"), Quoted(1, <<"b">>)>>)), One(Cell("[", <<Quoted(1, <<"">>)>>)),
          One(Cell("[", <<>>))}
    [] OTHER -> {<<<<Scalar("1")>>, <<Scalar("t")>>>>, <<<<Scalar("t")>>, <<Scalar("1")>>>>,
                 <<<<Scalar("1")>>, <<Scalar("1")>>>>}

\* Besides, any case may print nothing, an empty row or a word.
AnyPrints ==
  [c \in AnyCase |->
     {<<>>} \cup OneEach({"", "1", "t"})
       \cup UNION {Shows(d) : d \in ToSet(c.normalizers) \cup ({c.mode} \ {"ordered_rows"})}]

\* For the runs that look at one case only.
MissingCase == {Case("ordered_rows", <<>>, TRUE)}
TimestampCase == {Case("ordered_rows", <<"timestamp_iso_to_seconds">>, FALSE)}
TwoNumbers ==
  [c \in MissingCase \cup TimestampCase |-> {<<<<Scalar("12:00:00.5"), Scalar(w)>>>> : w \in {"1.5", "1"}}]
=============================================================================
