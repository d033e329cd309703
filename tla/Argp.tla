--------------------------------- MODULE Argp ---------------------------------
(***************************************************************************)
(* adc_argp.c: a parser that goes through a command line word by word,     *)
(* stores what the options are given and keeps the errors it meets.        *)
(*                                                                         *)
(* A word is the number of dashes it begins with and the text after them.  *)
(* What strtol and the like make of a word is given by constants, and the  *)
(* widths of the C types are scaled.                                       *)
(***************************************************************************)
EXTENDS Integers, Sequences

CONSTANTS Word,
          Tables,     \* The option tables a program may pass.
          Lines,      \* The command lines each table is tried on.
          Vars,       \* The variables the options store to, and
          Defaults,   \* what they hold before.
          Number,     \* The integer a word begins with, or NoNumber,
          Minus,      \* the words with a '-' in them,
          strtof,     \* the float and the double it begins with, or NoNumber:
          strtod,     \* a value, and "ok", or for ERANGE "over" or "under",
          ToFloat,    \* the float nearest to the value of a double.
          NoNumber,
          NULL,
          IntMax, UintMax, LongMax,  \* INT_MAX, UINT_MAX, LONG_MAX
          MaxErrors                  \* ADC_ARGP_MAX_ERRORS

Types == {"HELP", "FLAG", "BOOL", "STRING", "INT", "UINT", "FLOAT", "DOUBLE"}

\* An adc_argp_option; val is the variable behind its pointer.
Option == [name : Word, shortname : Word, valtype : Types,
           val : Vars \cup {NULL}]

\* An adc_argp_error, by its ADC_ARGP_ERROR_*.
Error == [type : 0..6, opt : Option \cup {NULL}, argv : Word]

Parser == [progname : Word \cup {NULL}, errors : Seq(Error)]

\* The argv and the index of a parse in progress.
Call == [argv : Seq(Word), i : Nat]

ASSUME ArgpAssumption ==
  /\ Word \subseteq [dash : Nat, text : STRING]
  /\ Tables \subseteq Seq(Option)
  /\ \A t \in Tables : Lines[t] \subseteq Seq(Word)
  /\ \A w \in Word : \A number \in {strtof[w], strtod[w]} :
       number # NoNumber => number.range \in {"ok", "over", "under"}
  /\ \A w \in Word : Number[w] # NoNumber =>
       Number[w] \in Int /\ (Number[w] < 0 => w \in Minus)
  /\ Defaults = [v \in Vars |-> Defaults[v]]
  /\ NULL \notin Word \cup Option \cup Parser \cup Seq(Word) \cup Call
  /\ MaxErrors \in Nat \ {0}
  /\ {IntMax, UintMax, LongMax} \subseteq Nat
  /\ IntMax <= LongMax /\ UintMax <= 2 * LongMax + 1

VARIABLES opts,      \* The table of the program.
          parser,    \* NULL, or the adc_argp_parser; its opts are these.
          vals,      \* What the variables hold.
          call,      \* NULL, or a parse in progress.
          returned,  \* What the last parse returned.
          exited     \* Has print_help been followed by exit?

vars == <<opts, parser, vals, call, returned, exited>>

ERROR_NONE == -1
ERROR_OPT_UNKNOWN == 0
ERROR_ARG_MISSING == 1
ERROR_ARG_INVALID == 2
ERROR_ARG_INVALID_BOOL == 3
ERROR_ARG_NEGATIVE_UINT == 4
ERROR_ARG_OUT_OF_RANGE == 5
ERROR_ARG_UNDERFLOW == 6

-----------------------------------------------------------------------------
(* Conversions: what is stored, and the error.                              *)

Stored(x) == [val |-> x, err |-> ERROR_NONE]
Refused(old, err) == [val |-> old, err |-> err]

\* strtol and strtoul of the C library on a word with a number: the first
\* stays within a long, the second takes a negative number modulo its width.
strtol(w) == IF Number[w] > LongMax THEN LongMax
             ELSE IF Number[w] < -LongMax THEN -LongMax - 1 ELSE Number[w]
strtoul(w) == IF Number[w] > 2 * LongMax THEN 2 * LongMax + 1
              ELSE IF Number[w] < 0 THEN Number[w] + 2 * (LongMax + 1) ELSE Number[w]

parse_int(old, w) ==
  IF Number[w] = NoNumber THEN Refused(old, ERROR_ARG_INVALID)
  ELSE IF strtol(w) >= IntMax \/ strtol(w) <= -IntMax
  THEN Refused(old, ERROR_ARG_OUT_OF_RANGE)
  ELSE Stored(strtol(w))

\* slip: strtoul is trusted with the sign.
parse_uintSigned(old, w) ==
  IF Number[w] = NoNumber THEN Refused(old, ERROR_ARG_INVALID)
  ELSE IF strtoul(w) >= UintMax THEN Refused(old, ERROR_ARG_OUT_OF_RANGE)
  ELSE Stored(strtoul(w))
parse_uint(old, w) ==
  IF w \in Minus THEN Refused(old, ERROR_ARG_NEGATIVE_UINT)
  ELSE IF Number[w] = NoNumber THEN Refused(old, ERROR_ARG_INVALID)
  ELSE IF strtoul(w) >= UintMax THEN Refused(old, ERROR_ARG_OUT_OF_RANGE)
  ELSE Stored(strtoul(w))

\* The variable is passed on to parse_int, and what parse_int returns, an
\* error or none, is taken for the number.
parse_bool(old, w) ==
  LET number == parse_int(old, w) IN
  IF w = [dash |-> 0, text |-> "true"] THEN Stored(1)
  ELSE IF w = [dash |-> 0, text |-> "false"] THEN Stored(0)
  ELSE IF number.err \notin {0, 1} THEN Refused(number.val, ERROR_ARG_INVALID_BOOL)
  ELSE Stored(number.err)

\* A floating point number in range is stored, in a variable of type float
\* first, also when it was a double.
Floating(old, number, stored) ==
  CASE number = NoNumber -> Refused(old, ERROR_ARG_INVALID)
    [] number # NoNumber /\ number.range = "over" -> Refused(old, ERROR_ARG_OUT_OF_RANGE)
    [] number # NoNumber /\ number.range = "under" -> Refused(old, ERROR_ARG_UNDERFLOW)
    [] number # NoNumber /\ number.range = "ok" -> Stored(stored)

parse_float(old, w) == Floating(old, strtof[w], strtof[w].value)
parse_double(old, w) == Floating(old, strtod[w], ToFloat[strtod[w].value])

Convert(valtype, old, w) ==
  CASE valtype = "STRING" -> Stored(w)
    [] valtype = "BOOL" -> parse_bool(old, w)
    [] valtype = "INT" -> parse_int(old, w)
    [] valtype = "UINT" -> parse_uint(old, w)
    [] valtype = "FLOAT" -> parse_float(old, w)
    [] valtype = "DOUBLE" -> parse_double(old, w)

-----------------------------------------------------------------------------
(* The parser.                                                              *)

\* The word without its first n dashes.
Skip(w, n) == [w EXCEPT !.dash = @ - n]

Matches(w, opt) == \/ w.dash >= 2 /\ Skip(w, 2) = opt.name
                   \/ w.dash >= 1 /\ Skip(w, 1) = opt.shortname

\* find_opt: the first match, or 0.
find_opt(w) ==
  LET found == {k \in 1..Len(opts) : Matches(w, opts[k])}
  IN IF found = {} THEN 0 ELSE CHOOSE k \in found : \A j \in found : k <= j

\* slip: one error too many.
add_errorLate(p, type, opt, w) ==
  IF Len(p.errors) > MaxErrors THEN p
  ELSE [p EXCEPT !.errors = Append(@, [type |-> type, opt |-> opt, argv |-> w])]
add_error(p, type, opt, w) ==
  IF Len(p.errors) >= MaxErrors THEN p
  ELSE [p EXCEPT !.errors = Append(@, [type |-> type, opt |-> opt, argv |-> w])]

Init == /\ opts \in Tables
        /\ parser = NULL
        /\ vals = Defaults
        /\ call = NULL
        /\ returned = 0
        /\ exited = FALSE

\* malloc may fail.
adc_argp_new_parser ==
  /\ ~exited /\ parser = NULL
  /\ parser' \in {NULL, [progname |-> NULL, errors |-> <<>>]}
  /\ UNCHANGED <<opts, vals, call, returned, exited>>

adc_argp_destroy_parser ==
  /\ ~exited /\ parser # NULL /\ call = NULL
  /\ parser' = NULL
  /\ UNCHANGED <<opts, vals, call, returned, exited>>

\* An empty table is no reason to look at the words.
ParseNothing ==
  /\ ~exited /\ parser # NULL /\ call = NULL
  /\ opts = <<>>
  /\ returned' = 0
  /\ UNCHANGED <<opts, parser, vals, call, exited>>

\* argv[i] is argv[i + 1] here.  A program started without even a name has an
\* empty argv, whose argv[0] is null.
adc_argp_parse(argv) ==
  /\ ~exited /\ parser # NULL /\ call = NULL
  /\ opts # <<>>
  /\ parser' = [parser EXCEPT !.progname = IF argv = <<>> THEN @ ELSE argv[1]]
  /\ call' = [argv |-> argv, i |-> 1]
  /\ UNCHANGED <<opts, vals, returned, exited>>

Arg(i) == call.argv[i + 1]

\* The loop is at a word; opt is the option it names, or NULL.
At(opt) ==
  /\ ~exited /\ call # NULL /\ call.i < Len(call.argv)
  /\ LET k == find_opt(Arg(call.i))
     IN opt = IF k = 0 THEN NULL ELSE opts[k]

\* The options of the table; the loop tries no other.
Opts == {opts[k] : k \in 1..Len(opts)}
Takes(opt) == opt.valtype \notin {"HELP", "FLAG"}
Move(n) == call' = [call EXCEPT !.i = @ + n]

Unknown == /\ At(NULL)
           /\ parser' = add_error(parser, ERROR_OPT_UNKNOWN, NULL, Arg(call.i))
           /\ Move(1)
           /\ UNCHANGED <<opts, vals, returned, exited>>

Help(opt) == /\ At(opt)
             /\ opt.valtype = "HELP"
             /\ exited' = TRUE
             /\ UNCHANGED <<opts, parser, vals, call, returned>>

Flag(opt) == /\ At(opt)
             /\ opt.valtype = "FLAG"
             /\ vals' = [vals EXCEPT ![opt.val] = 1]
             /\ Move(1)
             /\ UNCHANGED <<opts, parser, returned, exited>>

\* ARGV_NEXT at the end of the line.
Missing(opt) ==
  /\ At(opt) /\ Takes(opt)
  /\ call.i + 1 >= Len(call.argv)
  /\ parser' = add_error(parser, ERROR_ARG_MISSING, opt, Arg(call.i))
  /\ Move(2)
  /\ UNCHANGED <<opts, vals, returned, exited>>

\* slip: the option is left out of the error.
GivenNoOption(opt) ==
  /\ At(opt) /\ Takes(opt)
  /\ call.i + 1 < Len(call.argv)
  /\ LET w == Arg(call.i + 1)
         r == Convert(opt.valtype, vals[opt.val], w)
     IN /\ vals' = [vals EXCEPT ![opt.val] = r.val]
        /\ parser' = IF r.err = ERROR_NONE THEN parser
                     ELSE add_error(parser, r.err, NULL, w)
  /\ Move(2)
  /\ UNCHANGED <<opts, returned, exited>>
Given(opt) ==
  /\ At(opt) /\ Takes(opt)
  /\ call.i + 1 < Len(call.argv)
  /\ LET w == Arg(call.i + 1)
         r == Convert(opt.valtype, vals[opt.val], w)
     IN /\ vals' = [vals EXCEPT ![opt.val] = r.val]
        /\ parser' = IF r.err = ERROR_NONE THEN parser
                     ELSE add_error(parser, r.err, opt, w)
  /\ Move(2)
  /\ UNCHANGED <<opts, returned, exited>>

Return == /\ ~exited /\ call # NULL /\ call.i >= Len(call.argv)
          /\ returned' = Len(parser.errors)
          /\ call' = NULL
          /\ UNCHANGED <<opts, parser, vals, exited>>

ParseStep == \/ Unknown
             \/ \E opt \in Opts : Help(opt) \/ Flag(opt) \/ Missing(opt) \/ Given(opt)
             \/ Return

Next == \/ adc_argp_new_parser
        \/ adc_argp_destroy_parser
        \/ ParseNothing
        \/ \E argv \in Lines[opts] : adc_argp_parse(argv)
        \/ ParseStep

Spec == Init /\ [][Next]_vars

-----------------------------------------------------------------------------
(* Properties.                                                              *)

\* Every member is of its type, the errors fit the array, and the return value
\* is a number of errors it can hold.
TypeOK == /\ opts \in Tables
          /\ parser # NULL => /\ parser \in Parser
                              /\ Len(parser.errors) <= MaxErrors
          /\ call # NULL => /\ parser # NULL
                            /\ call.argv \in Lines[opts]
                            /\ call.i \in Nat
          /\ returned \in 0..MaxErrors
          /\ exited \in BOOLEAN

\* What adc_argp_print_errors asserts of every error: all but those of an
\* unknown option name the option they are about.
ErrorsPrintable ==
  parser # NULL => \A k \in 1..Len(parser.errors) :
    parser.errors[k].type # ERROR_OPT_UNKNOWN => parser.errors[k].opt # NULL

\* adc_argp.c, in the message for an invalid bool: "expected 'true', 'false',
\* '1' or '0'".
BoolAcceptsDigits ==
  parser # NULL => \A k \in 1..Len(parser.errors) :
    parser.errors[k].type = ERROR_ARG_INVALID_BOOL
      => parser.errors[k].argv.text \notin {"true", "false", "1", "0"}
=============================================================================
