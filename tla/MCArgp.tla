-------------------------------- MODULE MCArgp --------------------------------
(***************************************************************************)
(* The parser on the options of argp_test.c and on one option of every     *)
(* other type, with every short line of words that matter to them, several *)
(* lines to a parser.                                                      *)
(***************************************************************************)
EXTENDS Argp, SequencesExt

\* What the program sees of its variables and of the errors: nothing of a
\* parse until it returns.
VARIABLE seen

mcvars == <<opts, parser, vals, call, returned, exited, seen>>

Reports(p) == IF p = NULL THEN <<>> ELSE [k \in 1..Len(p.errors) |-> p.errors[k].argv]
Seen(p, v) == [vals |-> v, reports |-> Reports(p)]

MCInit == Init /\ seen = Seen(NULL, Defaults)
MCNext == Next /\ seen' = IF call' = NULL THEN Seen(parser', vals') ELSE seen
MCSpec == MCInit /\ [][MCNext]_mcvars

Promise == INSTANCE CommandLine
             WITH table <- opts, ready <- parser # NULL,
                  line <- IF call = NULL THEN NULL ELSE call.argv,
                  vals <- seen.vals, reports <- seen.reports, count <- returned

\* The parser keeps the promise of CommandLine: when adc_argp_parse returns,
\* the variables hold what the whole line means, as if it had been read at
\* once, the line's errors are behind those of the lines before, as far as
\* there is room, and the return value is 0 only if the line had none.
ParserSpec == Promise!Spec

\* adc_argp.h, of adc_argp_parse: "Returns the number of errors. Will be 0 if
\* there were no errors."
ReturnsItsErrors ==
  [][Return => returned' = Len(parser.errors) - Len(seen.reports)]_mcvars

-----------------------------------------------------------------------------
(* Values for the runs.                                                     *)

Plain(text) == [dash |-> 0, text |-> text]
Dashed(text) == [dash |-> 1, text |-> text]
Long(text) == [dash |-> 2, text |-> text]

Numbers == {"1", "5", "6", "7", "14", "15", "9-5"}
Negatives == {"6", "7", "60"}
Fractions == {"0.5", "0.1", "1e99", "1e-99", "1e999", "1e-999"}

MCWord == {Plain(t) : t \in Numbers \cup Fractions \cup {"true", "false", "abc"}}
            \cup {Dashed(t) : t \in Negatives \cup {"h", "f", "d", "v", "q"}}
            \cup {Long(t) : t \in {"help", "fullscreen", "f"}}
            \cup {Plain(t) : t \in {"help", "h", "fullscreen", "f", "configdir",
                                    "d", "value", "v", "argp_test"}}

IntegerOf ==
  [t \in Numbers |-> CASE t = "1" -> 1 [] t = "5" -> 5
     [] t = "6" -> 6 [] t = "7" -> 7 [] t = "14" -> 14 [] t = "15" -> 15
     [] t = "9-5" -> 9]
MCNumber ==
  [w \in MCWord |-> IF w.dash = 0 /\ w.text \in Numbers THEN IntegerOf[w.text]
                    ELSE IF w.dash = 1 /\ w.text \in {"6", "7"} THEN -IntegerOf[w.text]
                    ELSE IF w = Dashed("60") THEN -60 ELSE NoNumber]
MCMinus == {w \in MCWord : w.dash > 0 \/ w.text \in {"9-5", "1e-99", "1e-999"}}

Ranged(t, over, under) ==
  [value |-> t, range |-> IF t \in over THEN "over" ELSE IF t \in under THEN "under"
                          ELSE "ok"]
MCstrtof ==
  [w \in MCWord |-> IF w.dash = 0 /\ w.text \in Fractions
                    THEN Ranged(w.text, {"1e99", "1e999"}, {"1e-99", "1e-999"})
                    ELSE NoNumber]
MCstrtod ==
  [w \in MCWord |-> IF w.dash = 0 /\ w.text \in Fractions
                    THEN Ranged(w.text, {"1e999"}, {"1e-999"}) ELSE NoNumber]
MCToFloat ==
  [t \in Fractions |-> CASE t = "1e99" -> "inf" [] t = "1e-99" -> "0"
                         [] t = "0.1" -> "0.100000001" [] OTHER -> t]

Opt(name, shortname, type, val) ==
  [name |-> Plain(name), shortname |-> Plain(shortname), valtype |-> type, val |-> val]

\* The table of argp_test.c, and a table for each type.
TestTable == <<Opt("help", "h", "HELP", NULL),
               Opt("fullscreen", "f", "FLAG", "fullscreen"),
               Opt("configdir", "d", "STRING", "configdir")>>
TableOf(type) == <<Opt("value", "v", type, type)>>

Converted == {"BOOL", "INT", "UINT", "FLOAT", "DOUBLE"}
MCTables == {<<>>, TestTable} \cup {TableOf(type) : type \in Converted}

MCVars == {"fullscreen", "configdir"} \cup Converted
MCDefaults == [v \in MCVars |->
                 CASE v = "configdir" -> Plain("value") [] v \in {"FLOAT", "DOUBLE"} -> "0.5"
                   [] v = "UINT" -> 1 [] OTHER -> 0]

Arguments(type) ==
  CASE type = "BOOL" -> {Plain(t) : t \in {"true", "false", "1", "5", "abc"}}
    [] type = "INT" -> {Plain("6"), Plain("7"), Dashed("6"), Dashed("7"), Plain("abc")}
    [] type = "UINT" -> {Plain("14"), Plain("15"), Dashed("60"), Plain("9-5")}
    [] type = "FLOAT" -> {Plain(t) : t \in {"0.1", "1e99", "1e-99", "abc"}}
    [] type = "DOUBLE" -> {Plain(t) : t \in Fractions \ {"0.5"}}

\* The lines of the words of a table, up to n after the program's name, and the
\* one without a name.
LinesOf(words, n) ==
  {<<>>} \cup {<<Plain("argp_test")>> \o line : line \in BoundedSeq(words, n)}

MCLines ==
  [t \in MCTables |->
     IF t = <<>> THEN {<<Plain("argp_test")>>}
     ELSE IF t = TestTable
     THEN LinesOf({Long("fullscreen"), Dashed("d"), Dashed("q")}, 3)
            \cup LinesOf({Long("help"), Dashed("h"), Dashed("f"), Long("f"), Dashed("d")}, 2)
     ELSE LinesOf({Dashed("v")} \cup Arguments(t[1].valtype), 2)]
=============================================================================
