------------------------------ MODULE CommandLine ------------------------------
(***************************************************************************)
(* What a parser of command lines promises, without its loop: a line is    *)
(* read at once, every variable gets the last good argument the line has   *)
(* for it, and every word the parser could make nothing of is reported, in *)
(* order, until there is no room for another.  The reports are the errors  *)
(* adc_argp_print_errors prints, "any errors encountered during parsing"   *)
(* since the parser was made.                                              *)
(*                                                                         *)
(* Where the code and what is said of it are at odds, nothing is promised: *)
(* '1' and '0' for a bool, the precision of a double, and the return value *)
(* of a line with more errors than there is room for or behind one that    *)
(* had errors.                                                             *)
(***************************************************************************)
EXTENDS Integers, Sequences, FiniteSetsExt

CONSTANTS Tables, Lines, Vars, Defaults, Number, Minus, strtof, strtod, ToFloat,
          NoNumber, NULL, IntMax, UintMax, MaxErrors

VARIABLES table,   \* The options of the program.
          ready,   \* Is there a parser?
          line,    \* The line it has been given, or NULL.
          vals,    \* What the variables hold.
          reports, \* The words that were reported.
          count,   \* What the last parse returned.
          exited

vars == <<table, ready, line, vals, reports, count, exited>>

\* The option a word names: a long name after two dashes, a short one after
\* one, the first of the table that fits.
Named(w) ==
  LET fits == {k \in 1..Len(table) :
                 \/ [table[k].name EXCEPT !.dash = @ + 2] = w
                 \/ [table[k].shortname EXCEPT !.dash = @ + 1] = w}
  IN IF fits = {} THEN NULL ELSE table[Min(fits)]

Alone(w) == Named(w) = NULL \/ Named(w).valtype \in {"HELP", "FLAG"}

\* Does the word at p stand where an option is expected?  Behind an option
\* with an argument it does not.
InOptionPlace ==
  LET place[p \in 0..Len(line)] == p > 1 /\ (~place[p - 1] \/ Alone(line[p - 1]))
  IN {p \in 2..Len(line) : place[p]}

\* The arguments an option of a type has to take.
Good(valtype, w) ==
  CASE valtype = "STRING" -> TRUE
    [] valtype = "BOOL" -> w.dash = 0 /\ w.text \in {"true", "false"}
    [] valtype = "INT" -> /\ Number[w] # NoNumber
                          /\ -IntMax < Number[w] /\ Number[w] < IntMax
    [] valtype = "UINT" -> /\ w \notin Minus
                           /\ Number[w] # NoNumber
                           /\ Number[w] < UintMax
    [] valtype = "FLOAT" -> strtof[w] # NoNumber /\ strtof[w].range = "ok"
    [] valtype = "DOUBLE" -> strtod[w] # NoNumber /\ strtod[w].range = "ok"

\* A bool given '1' or '0': the message for an invalid bool has them among
\* what is expected.  The parser may take them or not.
Contested ==
  {p \in InOptionPlace :
     /\ p < Len(line) /\ Named(line[p]) # NULL /\ Named(line[p]).valtype = "BOOL"
     /\ line[p + 1].dash = 0 /\ line[p + 1].text \in {"1", "0"}}

\* What an argument may be stored as; a double may lose what a float has no
\* room for.
Means(valtype, w) ==
  CASE valtype = "STRING" -> {w}
    [] valtype = "BOOL" -> {IF w.text \in {"true", "1"} THEN 1 ELSE 0}
    [] valtype \in {"INT", "UINT"} -> {Number[w]}
    [] valtype = "FLOAT" -> {strtof[w].value}
    [] valtype = "DOUBLE" -> {strtod[w].value, ToFloat[strtod[w].value]}

\* The places of a line where an option stores to v, and those where it is
\* given something good, the contested ones of taken among them.
For(v) == {p \in InOptionPlace : Named(line[p]) # NULL /\ Named(line[p]).val = v}
GoodFor(taken, v) ==
  {p \in For(v) : \/ Named(line[p]).valtype = "FLAG"
                  \/ p \in taken
                  \/ /\ p < Len(line)
                     /\ Good(Named(line[p]).valtype, line[p + 1])}

Gives(p) == IF Named(line[p]).valtype = "FLAG" THEN {1}
            ELSE Means(Named(line[p]).valtype, line[p + 1])
Gets(taken, v) == IF GoodFor(taken, v) = {} THEN {vals[v]} ELSE Gives(Max(GoodFor(taken, v)))

\* A bool is spoilt by a refused argument behind the last good one: it holds
\* nothing to rely on.
Spoilt(taken, v) ==
  \E p \in For(v) \ GoodFor(taken, v) :
    /\ Named(line[p]).valtype = "BOOL"
    /\ \A q \in GoodFor(taken, v) : q < p

\* The words reported of a line, of its first p words for each p.
Bad(taken, p) ==
  \/ Named(line[p]) = NULL
  \/ ~Alone(line[p]) /\ p \notin GoodFor(taken, Named(line[p]).val)
Report(p) == IF Named(line[p]) = NULL \/ p = Len(line) THEN line[p] ELSE line[p + 1]
ReportedUpTo(taken) ==
  LET upto[p \in 0..Len(line)] ==
        IF p = 0 THEN <<>>
        ELSE IF p \in InOptionPlace /\ Bad(taken, p) THEN Append(upto[p - 1], Report(p))
             ELSE upto[p - 1]
  IN upto
Reported(taken) == ReportedUpTo(taken)[Len(line)]

\* What a parse may return of a line with these words reported: never 0 when
\* there are any, and their number when there is room for them and no others
\* were reported before.
Returns(n, bad) ==
  /\ n = 0 => bad = <<>>
  /\ reports = <<>> /\ Len(bad) <= MaxErrors => n = Len(bad)

AsksForHelp ==
  \E p \in InOptionPlace : Named(line[p]) # NULL /\ Named(line[p]).valtype = "HELP"

-----------------------------------------------------------------------------
Init == /\ table \in Tables
        /\ ~ready
        /\ line = NULL
        /\ vals = Defaults
        /\ reports = <<>>
        /\ count = 0
        /\ ~exited

New == /\ ~ready
       /\ ready' = TRUE
       /\ UNCHANGED <<table, line, vals, reports, count, exited>>

Destroy == /\ ready /\ line = NULL
           /\ ready' = FALSE
           /\ reports' = <<>>
           /\ UNCHANGED <<table, line, vals, count, exited>>

Give == /\ ready /\ line = NULL /\ table # <<>>
        /\ line' \in Lines[table]
        /\ UNCHANGED <<table, ready, vals, reports, count, exited>>

Parse == /\ line # NULL
         /\ ~AsksForHelp
         /\ \E taken \in SUBSET Contested :
              /\ \A v \in Vars : Spoilt(taken, v) \/ vals'[v] \in Gets(taken, v)
              /\ LET all == reports \o Reported(taken)
                 IN reports' = IF Len(all) <= MaxErrors THEN all
                               ELSE SubSeq(all, 1, MaxErrors)
              /\ Returns(count', Reported(taken))
         /\ line' = NULL
         /\ UNCHANGED <<table, ready, exited>>

ParseNothing == /\ ready /\ table = <<>>
                /\ count' = 0
                /\ UNCHANGED <<table, ready, line, vals, reports, exited>>

Exit == /\ line # NULL
        /\ AsksForHelp
        /\ exited' = TRUE
        /\ UNCHANGED <<table, ready, line, vals, reports, count>>

Next == ~exited /\ (New \/ Destroy \/ Give \/ Parse \/ ParseNothing \/ Exit)

Spec == Init /\ [][Next]_vars
=============================================================================
