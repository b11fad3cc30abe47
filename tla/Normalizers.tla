----------------------------- MODULE Normalizers ----------------------------
(***************************************************************************)
(* src/beyond_sqlite/normalize.rs and normalize_for_compare of oracle.rs:  *)
(* what a case has done to the output of psql and of the target before the *)
(* two are compared.                                                       *)
(*                                                                         *)
(* A text is a sequence of rows, a row a sequence of cells: what stands    *)
(* between two separators.  A cell is a word, or brackets around items; an *)
(* item is a word or several with commas between them, bare or in up to    *)
(* two layers of quotes, or the key and the value of a JSON object.  Words *)
(* not mentioned here are left as they are by every normalizer.  Each line *)
(* ends with a newline, no value holds a separator, no array mixes         *)
(* timestamps and numbers, no object has a key twice, and white space is   *)
(* left out but for a cell of nothing else.  Brackets with nothing in them *)
(* hold no item: one bare item of no characters would print the same.      *)
(***************************************************************************)
EXTENDS Naturals, Sequences, SequencesExt, FiniteSets

CONSTANT Words    \* what stands between the separators, brackets, commas and quotes

Bare(word) == [quotes |-> 0, words |-> <<word>>, key |-> FALSE]

Scalar(word) == [bracket |-> "", items |-> <<Bare(word)>>]

IsScalar(cell) == cell.bracket = ""

Word(cell) == cell.items[1].words[1]

\* The keys of objects, as serde_json orders them.
Rank == [k1 |-> 1, k2 |-> 2]

Items ==
  {item \in [quotes : 0 .. 2, words : Seq(Words), key : BOOLEAN] :
     /\ item.words # <<>>
     /\ item.quotes = 0 => Len(item.words) = 1
     /\ item.key => Len(item.words) = 2 /\ item.words[1] \in DOMAIN Rank}

Keyed(cell) == \E i \in DOMAIN cell.items : cell.items[i].key

Cells ==
  {cell \in [bracket : {"", "[", "{"}, items : Seq(Items)] :
     /\ IsScalar(cell) => Len(cell.items) = 1 /\ cell = Scalar(Word(cell))
     /\ ~IsScalar(cell) => cell.items # <<Bare("")>>
     /\ ~IsScalar(cell) => \A i \in DOMAIN cell.items : " " \notin ToSet(cell.items[i].words)
     /\ Keyed(cell) =>
          /\ cell.bracket = "{"
          /\ \A i \in DOMAIN cell.items : cell.items[i].key
          /\ \A i, j \in DOMAIN cell.items :
               i # j => cell.items[i].words[1] # cell.items[j].words[1]}

-----------------------------------------------------------------------------
(* What becomes of words *)

Bits == [t |-> "1", f |-> "0"]

Nulls == [w \in {""} |-> "NULL"]

Blanks == [w \in {" "} |-> ""]

\* Numbers, and the shortest digits that give the same double.
Doubles ==
  [w \in {"0", "1", "1.5", "1.50", "9007199254740992", "9007199254740993"} |->
     CASE w = "1.50" -> "1.5" [] w = "9007199254740993" -> "9007199254740992" [] OTHER -> w]

Numbers == DOMAIN Doubles

\* serde_json keeps integers exact.
Jsons == [w \in Numbers |-> IF w = "1.50" THEN "1.5" ELSE w]

Timestamps == {"12:00:00.5", "12:00:00"}

\* A point with digits on both sides, and what is left without its fraction.
Cuts == [w \in {"12:00:00.5", "1.5", "1.50"} |-> IF w \in Timestamps THEN "12:00:00" ELSE "1"]

ASSUME WordsAssumption ==
  Numbers \cup Timestamps \cup DOMAIN Rank \cup {"t", "f", "", " ", "NULL"} \subseteq Words

Mapped(map, word) == IF word \in DOMAIN map THEN map[word] ELSE word

MapScalar(map, cell) == IF IsScalar(cell) THEN Scalar(Mapped(map, Word(cell))) ELSE cell

MapItem(map, item) == [item EXCEPT !.words = [k \in DOMAIN @ |-> Mapped(map, @[k])]]

MapWords(map, cell) == [cell EXCEPT !.items = [i \in DOMAIN @ |-> MapItem(map, @[i])]]

-----------------------------------------------------------------------------
(* What becomes of brackets *)

IsNumber(item) == item.quotes = 0 /\ item.words[1] \in Numbers

\* What serde_json parses.
IsArray(cell) ==
  cell.bracket = "[" /\ \A i \in DOMAIN cell.items : LET item == cell.items[i] IN
    ~item.key /\ (item.quotes > 0 \/ IsNumber(item))

IsObject(cell) == cell.bracket = "{" /\ \A i \in DOMAIN cell.items : cell.items[i].key

ByKey(items) ==
  CHOOSE sorted \in [DOMAIN items -> ToSet(items)] :
    /\ ToSet(sorted) = ToSet(items)
    /\ \A i, j \in DOMAIN items : i < j => Rank[sorted[i].words[1]] < Rank[sorted[j].words[1]]

JsonbCanonical(cell) ==
  CASE IsObject(cell) -> MapWords(Jsons, [cell EXCEPT !.items = ByKey(@)])
    [] IsArray(cell) ->
         [cell EXCEPT !.items = [i \in DOMAIN @ |->
            IF IsNumber(@[i]) THEN Bare(Jsons[@[i].words[1]]) ELSE @[i]]]
    [] OTHER -> cell

PgArrayBraceToBracket(cell) == IF cell.bracket = "{" THEN [cell EXCEPT !.bracket = "["] ELSE cell

\* A string without its quotes: what was quoted inside stays so.
Unquoted(item) ==
  IF item.quotes = 2 THEN <<[item EXCEPT !.quotes = 1]>>
  ELSE [k \in DOMAIN item.words |-> Bare(item.words[k])]

\* The parts between the brackets: of one empty part nothing is to be seen.
Joined(items) == IF items = <<Bare("")>> THEN <<>> ELSE items

\* Variant: elements that are no strings are dropped.
UnquoteStringsOnly(cell) ==
  IF IsArray(cell)
    THEN [cell EXCEPT !.items = Joined(
            FlattenSeq([i \in DOMAIN @ |-> IF IsNumber(@[i]) THEN <<>> ELSE Unquoted(@[i])]))]
    ELSE cell

JsonStringArrayUnquote(cell) ==
  IF IsArray(cell) /\ \A i \in DOMAIN cell.items : cell.items[i].quotes > 0
    THEN [cell EXCEPT !.items = Joined(FlattenSeq([i \in DOMAIN @ |-> Unquoted(@[i])]))]
    ELSE cell

-----------------------------------------------------------------------------
(* What becomes of a text *)

HasColon(cell) ==
  \E i \in DOMAIN cell.items :
    cell.items[i].key \/ \E k \in DOMAIN cell.items[i].words : cell.items[i].words[k] \in Timestamps

\* Whether a colon was put out before the cell, in any row, or is in it.
AfterColon(text, r, c) ==
  \E q \in 1 .. r : \E d \in DOMAIN text[q] : (q < r \/ d <= c) /\ HasColon(text[q][d])

TimestampIsoToSeconds(text) ==
  [r \in DOMAIN text |-> [c \in DOMAIN text[r] |->
     IF AfterColon(text, r, c) THEN MapWords(Cuts, text[r][c]) ELSE text[r][c]]]

StripTrailingWs(text) ==
  [r \in DOMAIN text |-> [c \in DOMAIN text[r] |->
     IF c = Len(text[r]) THEN MapScalar(Blanks, text[r][c]) ELSE text[r][c]]]

ErrorFirstLineOnly(text) == [r \in DOMAIN text \cap {1} |-> text[r]]

\* What the code declares with enum Normalizer and enum CompareMode.
Normalizer ==
  {"boolean_tf_to_int", "pg_null_blank_to_null", "timestamp_iso_to_seconds", "numeric_normalize",
   "jsonb_canonical", "pg_array_brace_to_bracket", "strip_trailing_ws", "error_first_line_only",
   "json_string_array_unquote"}

CompareMode == {"ordered_rows", "sorted_rows", "set"}

OfCell(normalizer, cell) ==
  CASE normalizer = "boolean_tf_to_int" -> MapScalar(Bits, cell)
    [] normalizer = "pg_null_blank_to_null" -> MapScalar(Nulls, cell)
    [] normalizer = "numeric_normalize" -> MapScalar(Doubles, cell)
    [] normalizer = "jsonb_canonical" -> JsonbCanonical(cell)
    [] normalizer = "pg_array_brace_to_bracket" -> PgArrayBraceToBracket(cell)
    [] normalizer = "json_string_array_unquote" -> JsonStringArrayUnquote(cell)

Apply(text, normalizer) ==
  CASE normalizer = "timestamp_iso_to_seconds" -> TimestampIsoToSeconds(text)
    [] normalizer = "strip_trailing_ws" -> StripTrailingWs(text)
    [] normalizer = "error_first_line_only" -> ErrorFirstLineOnly(text)
    [] OTHER -> [r \in DOMAIN text |-> [c \in DOMAIN text[r] |-> OfCell(normalizer, text[r][c])]]

ApplyChain(text, normalizers) ==
  LET After[n \in 0 .. Len(normalizers)] ==
        IF n = 0 THEN text ELSE Apply(After[n - 1], normalizers[n])
  IN  After[Len(normalizers)]

Times(row, text) == Cardinality({r \in DOMAIN text : text[r] = row})

\* What compare_mode makes of the rows: their sequence, their bag, their set.
InMode(mode, text) ==
  CASE mode = "ordered_rows" -> text
    [] mode = "sorted_rows" -> [row \in ToSet(text) |-> Times(row, text)]
    [] mode = "set" -> ToSet(text)

NormalizeForCompare(text, case) == InMode(case.mode, ApplyChain(text, case.normalizers))

-----------------------------------------------------------------------------
(* The reference the properties use: a text up to all that its normalizers *)
(* are there to ignore, whatever their order.  NoFractions is what the one *)
(* for timestamps may cut.                                                 *)

Without(word, normalizer, map, declared) ==
  IF normalizer \in declared THEN Mapped(map, word) ELSE word

EssenceOfWord(word, declared, NoFractions) ==
  LET Stripped == Without(word, "strip_trailing_ws", Blanks, declared)
      Filled   == Without(Stripped, "pg_null_blank_to_null", Nulls, declared)
      Digit    == Without(Filled, "boolean_tf_to_int", Bits, declared)
      Cut      == Without(Digit, "timestamp_iso_to_seconds", NoFractions, declared)
      Double   == Without(Cut, "numeric_normalize", Doubles, declared)
  IN  Without(Double, "jsonb_canonical", Jsons, declared)

EssenceOfItem(item, declared, NoFractions) ==
  [item EXCEPT !.words = [k \in DOMAIN @ |-> EssenceOfWord(@[k], declared, NoFractions)]]

EssenceOfItems(items, declared, NoFractions) ==
  [i \in DOMAIN items |-> EssenceOfItem(items[i], declared, NoFractions)]

\* Between brackets, one empty string is nothing once strings lose their quotes.
EssenceOfCell(cell, declared, NoFractions) ==
  LET Sorted == IF "jsonb_canonical" \in declared /\ IsObject(cell)
                  THEN ByKey(cell.items) ELSE cell.items
      Whole  == EssenceOfItems(Sorted, declared, NoFractions)
      Flat   == FlattenSeq([i \in DOMAIN Whole |-> Whole[i].words])
      Empty  == <<EssenceOfWord("", declared, NoFractions)>>
  IN  [bracket |-> IF "pg_array_brace_to_bracket" \in declared /\ ~IsScalar(cell)
                     THEN "[" ELSE cell.bracket,
       items |-> IF "json_string_array_unquote" \notin declared THEN Whole
                 ELSE IF Flat = Empty THEN <<>> ELSE Flat]

Essence(text, case, NoFractions) ==
  LET Named == ToSet(case.normalizers)
      Seen == IF "error_first_line_only" \in Named THEN ErrorFirstLineOnly(text) ELSE text
  IN  InMode(case.mode, [r \in DOMAIN Seen |-> [c \in DOMAIN Seen[r] |->
        EssenceOfCell(Seen[r][c], Named, NoFractions)]])
=============================================================================
