---- MODULE MCScanning ----
(***************************************************************************)
(* The files for TLC: one per group of features that scanners can confuse. *)
(***************************************************************************)
EXTENDS Scanning

MCWords == {"x", "fn", "import", "sql", "jq", "from", "number", "insert", "returning", "null"}
MCKeyword == [fn |-> "KW_FN", import |-> "KW_IMPORT", null |-> "KW_NULL"]
MCSqlKeywords == {"from", "insert", "returning"}

File(before, chars, after, most) == [before |-> before, typed |-> chars, after |-> after, most |-> most]
InSql(chars, most) == File(<<"sql", "!", "{">>, chars, <<"}">>, most)
MCFiles ==
  { File(<<"x">>, {"x", "/", "*", "\"", "\\", NL}, <<>>, 4),
    File(<<"/", "*">>, {"x", "/", "*", "\"", "\\", NL}, <<>>, 3),
    File(<<>>, {"fn", "x", ":", "(", NL, " ", "@", "0"}, <<>>, 4),
    File(<<"import", " ">>, {"x", "number", ":", ";", NL}, <<>>, 4),
    File(<<>>, {".", "=", "0", "-", ">", Backtick}, <<>>, 4),
    File(<<>>, {"sql", "jq", "!", "{", "}", NL}, <<"}">>, 4),
    File(<<"sql", "!">>, {"sql", "jq", "!", "{", "}", NL}, <<"}">>, 3),
    File(<<>>, {"null", "x", ":", "=", " "}, <<>>, 3),
    File(<<"@">>, {"sql", "!", "{", "}", "x"}, <<"}">>, 4),
    InSql({"x", ":", "'", "\"", "-", NL, "\\"}, 4),
    InSql({":", "x", "/", "*", "}", "'"}, 4),
    File(<<"sql", "!", "{", "/", "*">>, {":", "x", "/", "*", "}", "'"}, <<"}">>, 4),
    InSql({"insert", "returning", " ", "'", "-", NL}, 3),
    File(<<"sql", "!", "{", "insert">>, {"returning", " ", "'", "-", NL}, <<"}">>, 4),
    InSql({"insert", ":", "x", "/", "*", " "}, 3),
    InSql({"from", " ", "x", "'", "-", NL}, 3),
    File(<<"sql", "!", "{", "-", "-">>, {"from", " ", "x", NL}, <<"}">>, 4),
    File(<<"sql", "!", "{", "from", " ", "x">>, {".", "@", "from", " ", "x"}, <<"}">>, 4),
    File(<<"sql", "!", "{", "'">>, {"from", " ", "x", "/", "*", "'"}, <<"}">>, 4) }
====
