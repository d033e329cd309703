------------------------------ MODULE Argp_proofs ------------------------------
(***************************************************************************)
(* The parser of command lines, for every table of options, every line and *)
(* whatever the C library makes of a word: the errors fit the array, each  *)
(* can be printed, and the loop does what CommandLine promises.            *)
(***************************************************************************)
EXTENDS MCArgp, NatInduction

-----------------------------------------------------------------------------
(* The conversions.                                                         *)

\* A conversion reports nothing, or one of the errors adc_argp_print_errors
\* knows, and never that the option is unknown.
LEMMA ConvertErrors ==
  ASSUME NEW valtype \in Types \ {"HELP", "FLAG"}, NEW old, NEW w \in Word
  PROVE  Convert(valtype, old, w).err \in {ERROR_NONE} \cup (1..6)
<1> USE DEF Stored, Refused, ERROR_NONE, ERROR_ARG_INVALID, ERROR_ARG_INVALID_BOOL,
            ERROR_ARG_NEGATIVE_UINT, ERROR_ARG_OUT_OF_RANGE, ERROR_ARG_UNDERFLOW
<1>1. parse_bool(old, w).err \in {-1} \cup (1..6)
  BY DEF parse_bool
<1>2. parse_int(old, w).err \in {-1} \cup (1..6)
  BY DEF parse_int
<1>3. parse_uint(old, w).err \in {-1} \cup (1..6)
  BY DEF parse_uint
<1>4. ASSUME NEW number \in {strtof[w], strtod[w]}, NEW stored
      PROVE  Floating(old, number, stored).err \in {-1} \cup (1..6)
  <2>1. number # NoNumber => number.range \in {"ok", "over", "under"}
    BY ArgpAssumption
  <2> QED BY <2>1 DEF Floating
<1>5. /\ parse_float(old, w).err \in {-1} \cup (1..6)
      /\ parse_double(old, w).err \in {-1} \cup (1..6)
  BY <1>4 DEF parse_float, parse_double
<1>6. CASE valtype \in {"BOOL", "INT", "UINT", "FLOAT", "DOUBLE"}
  BY <1>1, <1>2, <1>3, <1>5, <1>6 DEF Convert
<1>7. CASE valtype = "STRING"
  BY <1>7 DEF Convert
<1> QED
  BY <1>6, <1>7 DEF Types

-----------------------------------------------------------------------------
(* The invariant.                                                           *)

\* A parser whose errors fit the array and can be printed.
Good(p) == /\ p \in Parser
           /\ Len(p.errors) <= MaxErrors
           /\ \A k \in 1..Len(p.errors) :
                p.errors[k].type # ERROR_OPT_UNKNOWN => p.errors[k].opt # NULL

IInv == TypeOK /\ ErrorsPrintable

LEMMA ParserGood == IInv => (parser # NULL => Good(parser))
  BY DEF IInv, TypeOK, ErrorsPrintable, Good

\* add_error keeps it so, when the option is left out of an unknown option only.
LEMMA AddError ==
  ASSUME NEW p, Good(p), NEW type \in 0..6, NEW opt \in Option \cup {NULL}, NEW w \in Word,
         type # ERROR_OPT_UNKNOWN => opt # NULL
  PROVE  Good(add_error(p, type, opt, w))
<1> DEFINE error == [type |-> type, opt |-> opt, argv |-> w]
<1>1. CASE Len(p.errors) >= MaxErrors
  BY <1>1 DEF add_error
<1>2. CASE ~(Len(p.errors) >= MaxErrors)
  <2> DEFINE more == Append(p.errors, error)
  <2>1. p.errors \in Seq(Error) /\ error \in Error
    BY DEF Good, Parser, Error
  <2>2. /\ more \in Seq(Error) /\ Len(more) = Len(p.errors) + 1
        /\ more[Len(p.errors) + 1] = error
        /\ \A k \in 1..Len(p.errors) : more[k] = p.errors[k]
        /\ Len(p.errors) \in Nat
    BY <2>1
  <2>3. error.type = type /\ error.opt = opt
    OBVIOUS
  <2>4. add_error(p, type, opt, w) = [p EXCEPT !.errors = more]
    BY <1>2 DEF add_error
  <2> HIDE DEF more, error
  <2>5. /\ [p EXCEPT !.errors = more] \in Parser
        /\ [p EXCEPT !.errors = more].errors = more
    BY <2>2 DEF Good, Parser
  <2>6. Len(more) <= MaxErrors
    BY <1>2, <2>2, ArgpAssumption
  <2>7. \A k \in 1..Len(more) : more[k].type # ERROR_OPT_UNKNOWN => more[k].opt # NULL
    <3> TAKE k \in 1..Len(more)
    <3>1. CASE k = Len(p.errors) + 1
      BY <2>2, <2>3, <3>1
    <3>2. CASE k # Len(p.errors) + 1
      <4>1. k \in 1..Len(p.errors)
        BY <2>2, <3>2
      <4> QED BY <2>2, <4>1 DEF Good
    <3> QED BY <3>1, <3>2
  <2> QED BY <2>4, <2>5, <2>6, <2>7 DEF Good
<1> QED
  BY <1>1, <1>2

\* What a step of a parse has to keep.
LEMMA StillGood ==
  ASSUME IInv, call # NULL, Good(parser'), opts' = opts,
         call' = NULL \/ (call'.argv = call.argv /\ call'.i \in Nat),
         returned' \in 0..MaxErrors, exited' \in BOOLEAN
  PROVE  IInv'
<1>1. parser' # NULL
  BY ArgpAssumption DEF Good
<1>2. opts' \in Tables /\ call.argv \in Lines[opts]
  BY DEF IInv, TypeOK
<1>3. TypeOK'
  BY <1>1, <1>2 DEF TypeOK, Good
<1>4. ErrorsPrintable'
  BY DEF ErrorsPrintable, Good
<1> QED
  BY <1>3, <1>4 DEF IInv

LEMMA IInvInit == Init => IInv
<1> SUFFICES ASSUME Init
             PROVE  TypeOK /\ ErrorsPrintable
  BY DEF IInv
<1>1. opts \in Tables /\ parser = NULL /\ call = NULL /\ returned = 0 /\ exited = FALSE
  BY DEF Init
<1>2. 0 \in 0..MaxErrors
  BY ArgpAssumption
<1> QED
  BY <1>1, <1>2 DEF TypeOK, ErrorsPrintable

LEMMA IInvNext == IInv /\ [Next]_vars => IInv'
<1> SUFFICES ASSUME IInv, [Next]_vars
             PROVE  IInv'
  OBVIOUS
<1>0. /\ opts \in Tables /\ opts \in Seq(Option) /\ returned \in 0..MaxErrors
      /\ exited \in BOOLEAN
  BY ArgpAssumption DEF IInv, TypeOK
<1>1. CASE adc_argp_new_parser
  <2>1. parser' # NULL => parser' = [progname |-> NULL, errors |-> <<>>]
    BY <1>1 DEF adc_argp_new_parser
  <2>2. parser' # NULL => parser' \in Parser /\ Len(parser'.errors) = 0
    <3>1. <<>> \in Seq(Error) /\ Len(<<>>) = 0
      OBVIOUS
    <3> DEFINE none == <<>>
    <3> HIDE DEF none
    <3>2. /\ [progname |-> NULL, errors |-> none] \in Parser
          /\ [progname |-> NULL, errors |-> none].errors = none
      BY <3>1 DEF Parser, none
    <3> QED BY <2>1, <3>1, <3>2 DEF none
  <2>3. call' = NULL
    BY <1>1 DEF adc_argp_new_parser, IInv, TypeOK
  <2>4. UNCHANGED <<opts, returned, exited>>
    BY <1>1 DEF adc_argp_new_parser
  <2>5. TypeOK'
    BY <1>0, <2>2, <2>3, <2>4, ArgpAssumption DEF TypeOK
  <2>6. ErrorsPrintable'
    BY <2>2 DEF ErrorsPrintable
  <2> QED BY <2>5, <2>6 DEF IInv
<1>2. CASE adc_argp_destroy_parser
  BY <1>0, <1>2 DEF adc_argp_destroy_parser, IInv, TypeOK, ErrorsPrintable
<1>3. CASE ParseNothing
  BY <1>0, <1>3, ArgpAssumption DEF ParseNothing, IInv, TypeOK, ErrorsPrintable
<1>4. ASSUME NEW argv \in Lines[opts], adc_argp_parse(argv)
      PROVE  IInv'
  <2> DEFINE name == IF argv = <<>> THEN parser.progname ELSE argv[1]
  <2>1. argv \in Seq(Word)
    BY <1>0, ArgpAssumption
  <2>3. parser # NULL /\ Good(parser)
    BY <1>4, ParserGood DEF adc_argp_parse
  <2>2. name \in Word \cup {NULL}
    BY <2>1, <2>3 DEF Good, Parser
  <2>4. parser' = [parser EXCEPT !.progname = name]
    BY <1>4 DEF adc_argp_parse
  <2> HIDE DEF name
  <2>5. parser' \in Parser /\ parser'.errors = parser.errors
    BY <2>2, <2>3, <2>4 DEF Good, Parser
  <2>6. parser' # NULL
    BY <2>5, ArgpAssumption
  <2>7. call'.argv = argv /\ call'.i = 1
    BY <1>4 DEF adc_argp_parse
  <2>8. UNCHANGED <<opts, returned, exited>>
    BY <1>4 DEF adc_argp_parse
  <2>9. TypeOK'
    BY <1>0, <2>3, <2>5, <2>6, <2>7, <2>8 DEF TypeOK, Good
  <2>10. ErrorsPrintable'
    BY <2>3, <2>5 DEF ErrorsPrintable, Good
  <2> QED BY <2>9, <2>10 DEF IInv
<1>5. CASE ParseStep
  <2>1. ASSUME call # NULL
        PROVE  /\ Good(parser) /\ call.argv \in Seq(Word) /\ call.i \in Nat
    BY <1>0, <2>1, ParserGood, ArgpAssumption DEF IInv, TypeOK
  <2>2. ASSUME NEW i \in Nat, call # NULL, i < Len(call.argv)
        PROVE  Arg(i) \in Word
    <3>1. i + 1 \in 1..Len(call.argv)
      BY <2>1, <2>2
    <3> QED BY <2>1, <2>2, <3>1 DEF Arg
  <2>3. ASSUME NEW n \in Nat, call # NULL, Move(n)
        PROVE  call'.argv = call.argv /\ call'.i \in Nat
    <3>1. call'.argv = call.argv /\ call'.i = call.i + n
      BY <2>3 DEF Move
    <3> QED BY <2>1, <2>3, <3>1
  <2>4. CASE Unknown
    <3>1. call # NULL /\ call.i < Len(call.argv)
      BY <2>4 DEF Unknown, At
    <3>2. parser' = add_error(parser, ERROR_OPT_UNKNOWN, NULL, Arg(call.i))
      BY <2>4 DEF Unknown
    <3>3. Good(parser')
      <4>1. Arg(call.i) \in Word /\ Good(parser)
        BY <2>1, <2>2, <3>1
      <4>2. ERROR_OPT_UNKNOWN \in 0..6
        BY DEF ERROR_OPT_UNKNOWN
      <4> QED BY <3>2, <4>1, <4>2, AddError
    <3>4. Move(1) /\ opts' = opts /\ returned' = returned /\ exited' = exited
      BY <2>4 DEF Unknown
    <3> QED BY <1>0, <2>3, <3>1, <3>3, <3>4, StillGood
  <2>5. ASSUME NEW opt \in Opts, Help(opt) \/ Flag(opt) \/ Missing(opt) \/ Given(opt)
        PROVE  IInv'
    <3>1. call # NULL /\ call.i < Len(call.argv) /\ Good(parser) /\ call.i \in Nat
      BY <2>1, <2>5 DEF Help, Flag, Missing, Given, At
    <3>2. opt \in Option /\ opt # NULL
      BY <1>0, ArgpAssumption DEF Opts
    <3>3. CASE Help(opt)
      BY <1>0, <3>1, <3>3, StillGood, ArgpAssumption DEF Help, IInv, TypeOK
    <3>4. CASE Flag(opt)
      BY <1>0, <2>3, <3>1, <3>4, StillGood DEF Flag
    <3>5. CASE Missing(opt)
      <4>1. parser' = add_error(parser, ERROR_ARG_MISSING, opt, Arg(call.i))
        BY <3>5 DEF Missing
      <4>2. Good(parser')
        BY <2>2, <3>1, <3>2, <4>1, AddError DEF ERROR_ARG_MISSING
      <4>3. Move(2) /\ opts' = opts /\ returned' = returned /\ exited' = exited
        BY <3>5 DEF Missing
      <4> QED BY <1>0, <2>3, <3>1, <4>2, <4>3, StillGood
    <3>6. CASE Given(opt)
      <4> DEFINE w == Arg(call.i + 1)
      <4> DEFINE r == Convert(opt.valtype, vals[opt.val], w)
      <4>1. w \in Word
        BY <2>2, <3>1, <3>6 DEF Given
      <4>2. opt.valtype \in Types \ {"HELP", "FLAG"}
        BY <3>2, <3>6 DEF Given, Takes, Option
      <4>3. r.err # ERROR_NONE => r.err \in 1..6
        BY <4>1, <4>2, ConvertErrors
      <4>4. parser' = IF r.err = ERROR_NONE THEN parser
                      ELSE add_error(parser, r.err, opt, w)
        BY <3>6 DEF Given
      <4>5. Move(2) /\ opts' = opts /\ returned' = returned /\ exited' = exited
        BY <3>6 DEF Given
      <4> HIDE DEF w, r
      <4>6. r.err # ERROR_NONE => Good(add_error(parser, r.err, opt, w))
        BY <3>1, <3>2, <4>1, <4>3, AddError
      <4>7. Good(parser')
        BY <3>1, <4>4, <4>6
      <4> QED BY <1>0, <2>3, <3>1, <4>5, <4>7, StillGood
    <3> QED BY <2>5, <3>3, <3>4, <3>5, <3>6
  <2>6. CASE Return
    <3>1. call # NULL /\ parser' = parser /\ opts' = opts /\ exited' = exited
          /\ call' = NULL /\ returned' = Len(parser.errors)
      BY <2>6 DEF Return
    <3>2. Good(parser)
      BY <2>1, <3>1
    <3>3. Len(parser.errors) \in 0..MaxErrors
      BY <3>2, ArgpAssumption DEF Good, Parser
    <3>4. Good(parser')
      BY <3>1, <3>2
    <3>5. returned' \in 0..MaxErrors
      BY <3>1, <3>3
    <3>6. call # NULL /\ opts' = opts /\ call' = NULL /\ exited' \in BOOLEAN
      BY <1>0, <3>1
    <3> QED BY <3>4, <3>5, <3>6, StillGood
  <2> QED BY <1>5, <2>4, <2>5, <2>6 DEF ParseStep
<1>6. CASE UNCHANGED vars
  BY <1>6 DEF vars, IInv, TypeOK, ErrorsPrintable
<1> QED
  BY <1>1, <1>2, <1>3, <1>4, <1>5, <1>6 DEF Next

-----------------------------------------------------------------------------
(* The theorems.                                                            *)

THEOREM Inductive == Spec => []IInv
  BY IInvInit, IInvNext, PTL DEF Spec

\* adc_argp.c keeps at most ADC_ARGP_MAX_ERRORS errors and returns how many.
THEOREM ErrorsFit == Spec => []TypeOK
<1>1. IInv => TypeOK
  BY DEF IInv
<1> QED
  BY <1>1, Inductive, PTL

\* The assertions of adc_argp_print_errors hold of every error that is kept.
THEOREM EveryErrorPrintable == Spec => []ErrorsPrintable
<1>1. IInv => ErrorsPrintable
  BY DEF IInv
<1> QED
  BY <1>1, Inductive, PTL
-----------------------------------------------------------------------------
(* What a line means: the conversions and the options.                      *)

\* CommandLine about the table t and the line s.
Of(t, s) == INSTANCE CommandLine
              WITH table <- t, line <- s, ready <- TRUE, vals <- Defaults,
                   reports <- <<>>, count <- 0

\* What a conversion takes is what CommandLine calls good, it stores what that
\* means, and what it refuses leaves the variable alone, but for a bool.
LEMMA ConvertIs ==
  ASSUME NEW valtype \in Types \ {"HELP", "FLAG"}, NEW old, NEW w \in Word,
         NEW t, NEW s
  PROVE  LET r == Convert(valtype, old, w) IN
         /\ r.err = ERROR_NONE <=> Of(t, s)!Good(valtype, w)
         /\ r.err = ERROR_NONE => r.val \in Of(t, s)!Means(valtype, w)
         /\ r.err # ERROR_NONE => r.val = old \/ valtype = "BOOL"
<1> DEFINE r == Convert(valtype, old, w)
           Means == /\ r.err = ERROR_NONE <=> Of(t, s)!Good(valtype, w)
                    /\ r.err = ERROR_NONE => r.val \in Of(t, s)!Means(valtype, w)
                    /\ r.err # ERROR_NONE => r.val = old \/ valtype = "BOOL"
<1> USE DEF Stored, Refused, ERROR_NONE, ERROR_ARG_INVALID, ERROR_ARG_INVALID_BOOL,
            ERROR_ARG_NEGATIVE_UINT, ERROR_ARG_OUT_OF_RANGE, ERROR_ARG_UNDERFLOW,
            Of!Good, Of!Means
<1>1. /\ IntMax \in Nat /\ UintMax \in Nat /\ LongMax \in Nat
      /\ IntMax <= LongMax /\ UintMax <= 2 * LongMax + 1
      /\ Number[w] # NoNumber => Number[w] \in Int /\ (Number[w] < 0 => w \in Minus)
      /\ w \in [dash : Nat, text : STRING]
  BY ArgpAssumption
<1>2. CASE valtype = "STRING"
  BY <1>2 DEF Convert
<1>3. CASE valtype = "BOOL"
  <2>1. parse_int(old, w).err \in {-1, 2, 5}
    BY DEF parse_int
  <2>2. /\ w = [dash |-> 0, text |-> "true"] <=> w.dash = 0 /\ w.text = "true"
        /\ w = [dash |-> 0, text |-> "false"] <=> w.dash = 0 /\ w.text = "false"
    BY <1>1
  <2>3. r = IF w = [dash |-> 0, text |-> "true"] THEN [val |-> 1, err |-> -1]
            ELSE IF w = [dash |-> 0, text |-> "false"] THEN [val |-> 0, err |-> -1]
            ELSE [val |-> parse_int(old, w).val, err |-> 3]
    BY <1>3, <2>1 DEF Convert, parse_bool
  <2> QED BY <1>3, <2>2, <2>3
<1>4. CASE valtype = "INT"
  <2>1. r = parse_int(old, w)
    BY <1>4 DEF Convert
  <2>2. CASE Number[w] = NoNumber
    BY <1>4, <2>1, <2>2 DEF parse_int
  <2>3. CASE Number[w] # NoNumber
    <3> DEFINE n == Number[w]
    <3>1. n \in Int /\ (strtol(w) >= IntMax \/ strtol(w) <= -IntMax <=> ~ (-IntMax < n /\ n < IntMax))
      BY <1>1, <2>3 DEF strtol
    <3>2. -IntMax < n /\ n < IntMax => strtol(w) = n
      BY <1>1, <3>1 DEF strtol
    <3> QED BY <1>4, <2>1, <2>3, <3>1, <3>2 DEF parse_int
  <2> QED BY <2>2, <2>3
<1>5. CASE valtype = "UINT"
  <2>1. r = parse_uint(old, w)
    BY <1>5 DEF Convert
  <2>2. CASE w \in Minus \/ Number[w] = NoNumber
    BY <1>5, <2>1, <2>2 DEF parse_uint
  <2>3. CASE ~ (w \in Minus \/ Number[w] = NoNumber)
    <3> DEFINE n == Number[w]
    <3>1. n \in Int /\ n >= 0
      BY <1>1, <2>3
    <3>2. strtoul(w) >= UintMax <=> ~ (n < UintMax)
      BY <1>1, <3>1 DEF strtoul
    <3>3. n < UintMax => strtoul(w) = n
      BY <1>1, <3>1 DEF strtoul
    <3> QED BY <1>5, <2>1, <2>3, <3>1, <3>2, <3>3 DEF parse_uint
  <2> QED BY <2>2, <2>3
<1>6. ASSUME NEW number \in {strtof[w], strtod[w]}, NEW stored
      PROVE  LET f == Floating(old, number, stored) IN
             /\ f.err = -1 <=> number # NoNumber /\ number.range = "ok"
             /\ f.err = -1 => f.val = stored
             /\ f.err # -1 => f.val = old
  <2>1. number = NoNumber \/ number.range \in {"ok", "over", "under"}
    BY ArgpAssumption
  <2>2. CASE number = NoNumber
    <3>1. Floating(old, number, stored) = [val |-> old, err |-> 2]
      BY <2>2 DEF Floating
    <3> QED BY <2>2, <3>1
  <2>3. CASE number # NoNumber /\ number.range = "over"
    <3>1. Floating(old, number, stored) = [val |-> old, err |-> 5]
      BY <2>3 DEF Floating
    <3> QED BY <2>3, <3>1
  <2>4. CASE number # NoNumber /\ number.range = "under"
    <3>1. Floating(old, number, stored) = [val |-> old, err |-> 6]
      BY <2>4 DEF Floating
    <3> QED BY <2>4, <3>1
  <2>5. CASE number # NoNumber /\ number.range = "ok"
    <3>1. Floating(old, number, stored) = [val |-> stored, err |-> -1]
      BY <2>5 DEF Floating
    <3> QED BY <2>5, <3>1
  <2> QED BY <2>1, <2>2, <2>3, <2>4, <2>5
<1>7. CASE valtype = "FLOAT"
  <2>1. r = Floating(old, strtof[w], strtof[w].value)
    BY <1>7 DEF Convert, parse_float
  <2> HIDE DEF r
  <2>2. /\ r.err = -1 <=> strtof[w] # NoNumber /\ strtof[w].range = "ok"
        /\ r.err = -1 => r.val = strtof[w].value
        /\ r.err # -1 => r.val = old
    BY <1>6, <2>1
  <2> QED BY <1>7, <2>2 DEF r
<1>8. CASE valtype = "DOUBLE"
  <2>1. r = Floating(old, strtod[w], ToFloat[strtod[w].value])
    BY <1>8 DEF Convert, parse_double
  <2> HIDE DEF r
  <2>2. /\ r.err = -1 <=> strtod[w] # NoNumber /\ strtod[w].range = "ok"
        /\ r.err = -1 => r.val = ToFloat[strtod[w].value]
        /\ r.err # -1 => r.val = old
    BY <1>6, <2>1
  <2> QED BY <1>8, <2>2 DEF r
<1> QED
  BY <1>2, <1>3, <1>4, <1>5, <1>7, <1>8 DEF Types


\* The option CommandLine names is the one find_opt finds.
LEMMA NamedIs ==
  ASSUME opts \in Seq(Option), NEW w \in Word, NEW s
  PROVE  /\ Of(opts, s)!Named(w) = IF find_opt(w) = 0 THEN NULL ELSE opts[find_opt(w)]
         /\ Of(opts, s)!Named(w) # NULL => Of(opts, s)!Named(w) \in Option
<1> DEFINE found == {k \in 1..Len(opts) : Matches(w, opts[k])}
           fits == {k \in 1..Len(opts) :
                      \/ [opts[k].name EXCEPT !.dash = @ + 2] = w
                      \/ [opts[k].shortname EXCEPT !.dash = @ + 1] = w}
           least == CHOOSE k \in found : \A j \in found : k <= j
<1>1. ASSUME NEW k \in 1..Len(opts)
      PROVE  Matches(w, opts[k]) <=> \/ [opts[k].name EXCEPT !.dash = @ + 2] = w
                                     \/ [opts[k].shortname EXCEPT !.dash = @ + 1] = w
  <2>1. opts[k] \in Option
    OBVIOUS
  <2>2. /\ opts[k].name \in [dash : Nat, text : STRING]
        /\ opts[k].shortname \in [dash : Nat, text : STRING]
        /\ w \in [dash : Nat, text : STRING]
    BY <2>1, ArgpAssumption DEF Option
  <2>3. ASSUME NEW x \in [dash : Nat, text : STRING], NEW n \in Nat
        PROVE  w.dash >= n /\ Skip(w, n) = x <=> [x EXCEPT !.dash = @ + n] = w
    BY <2>2 DEF Skip
  <2> QED BY <2>2, <2>3 DEF Matches
<1>2. found = fits
  BY <1>1
<1>3. found # {} => least \in found
  <2> SUFFICES ASSUME found # {}
               PROVE  \E k \in found : \A j \in found : k <= j
    OBVIOUS
  <2>1. found \subseteq Nat
    OBVIOUS
  <2> HIDE DEF found
  <2> QED BY <2>1, NatMin
<1>4. find_opt(w) = IF found = {} THEN 0 ELSE least
  BY DEF find_opt
<1>5. Of(opts, s)!Named(w) = IF fits = {} THEN NULL ELSE opts[Of(opts, s)!Min(fits)]
  BY DEF Of!Named
<1>6. found # {} => least \in 1..Len(opts) /\ opts[least] \in Option
  BY <1>3
<1>7. NULL \notin Option
  BY ArgpAssumption
<1> HIDE DEF found, fits
<1>8. Of(opts, s)!Min(fits) = least
  BY <1>2 DEF Of!Min
<1> HIDE DEF least
<1> QED
  BY <1>2, <1>4, <1>5, <1>6, <1>7, <1>8

-----------------------------------------------------------------------------
(* The recursions of CommandLine, as facts about each word of a line.       *)

\* An option is expected at the first word, and at every other but behind an
\* option with an argument.
LEMMA PlaceIs ==
  ASSUME NEW t, NEW s \in Seq(Word)
  PROVE  LET places == Of(t, s)!InOptionPlace IN
         /\ places \subseteq 2..Len(s)
         /\ \A p \in 2..Len(s) :
              p \in places <=> p = 2 \/ p - 1 \notin places \/ Of(t, s)!Alone(s[p - 1])
<1> DEFINE N == Len(s)
           alone(n) == Of(t, s)!Alone(s[n])
           next(n, b) == n > 1 /\ (~b \/ alone(n - 1))
           step == [n \in 1..N |-> [b \in BOOLEAN |-> next(n, b)]]
           Is(f) == f = [n \in 0..N |-> n > 1 /\ (~f[n - 1] \/ alone(n - 1))]
<1>1. N \in Nat
  OBVIOUS
<1>2. \A n \in 1..N, b \in BOOLEAN : next(n, b) \in BOOLEAN
  OBVIOUS
<1>3. step \in Steps(N, BOOLEAN)
  BY <1>2 DEF Steps
<1>4. \A n \in 1..N, b \in BOOLEAN : step[n][b] = next(n, b)
  OBVIOUS
<1> HIDE DEF N, alone, step
<1>5. PICK f : Solves(f, N, BOOLEAN, FALSE, step)
  BY <1>1, <1>3, RecursionExists, Zenon
<1>6. \A n \in 0..N : f[n] = (n > 1 /\ (~f[n - 1] \/ alone(n - 1)))
  <2> SUFFICES ASSUME NEW n \in 0..N
               PROVE  f[n] = (n > 1 /\ (~f[n - 1] \/ alone(n - 1)))
    OBVIOUS
  <2>1. CASE n = 0
    BY <1>5, <2>1 DEF Solves
  <2>2. CASE n # 0
    <3>1. n \in 1..N /\ n - 1 \in 0..N
      BY <1>1, <2>2
    <3>2. f[n - 1] \in BOOLEAN /\ f[n] = step[n][f[n - 1]]
      BY <1>5, <3>1 DEF Solves
    <3> QED BY <1>4, <3>1, <3>2
  <2> QED BY <2>1, <2>2
<1>7. Is(f)
  BY <1>5, <1>6 DEF Solves
<1> DEFINE place == CHOOSE g : Is(g)
<1>8. Is(place)
  BY <1>7
<1>9. Of(t, s)!InOptionPlace = {p \in 2..N : place[p]}
  BY Zenon DEF Of!InOptionPlace, N, alone
<1> HIDE DEF place
<1>10. \A n \in 0..N : place[n] <=> n > 1 /\ (~place[n - 1] \/ alone(n - 1))
  BY <1>8
<1> HIDE DEF Is
<1>11. ~place[1] \/ N = 0
  BY <1>1, <1>10
<1>12. ASSUME NEW p \in 2..N
       PROVE  place[p] <=> p = 2 \/ p - 1 \notin {q \in 2..N : place[q]} \/ alone(p - 1)
  <2>1. p \in 0..N /\ p - 1 \in 1..N /\ p > 1 /\ N # 0
    BY <1>1
  <2>2. place[p] <=> ~place[p - 1] \/ alone(p - 1)
    BY <1>10, <2>1
  <2>3. CASE p = 2
    BY <1>11, <2>1, <2>2, <2>3
  <2>4. CASE p # 2
    <3>1. p - 1 \in 2..N
      BY <1>1, <2>4
    <3> QED BY <2>2, <2>4, <3>1
  <2> QED BY <2>3, <2>4
<1> QED
  BY <1>9, <1>12 DEF N, alone

\* What is reported of the first p words, from what is of one word less.
LEMMA UpToIs ==
  ASSUME NEW t \in Seq(Option), NEW s \in Seq(Word)
  PROVE  LET upto == Of(t, s)!ReportedUpTo({}) IN
         /\ \A p \in 0..Len(s) : upto[p] \in Seq(Word)
         /\ upto[0] = <<>>
         /\ \A p \in 1..Len(s) :
              upto[p] = IF p \in Of(t, s)!InOptionPlace /\ Of(t, s)!Bad({}, p)
                        THEN Append(upto[p - 1], Of(t, s)!Report(p)) ELSE upto[p - 1]
<1> DEFINE N == Len(s)
           bad(n) == n \in Of(t, s)!InOptionPlace /\ Of(t, s)!Bad({}, n)
           report(n) == Of(t, s)!Report(n)
           add(n, x) == IF bad(n) THEN Append(x, report(n)) ELSE x
           step == [n \in 1..N |-> [x \in Seq(Word) |-> add(n, x)]]
           Is(f) == f = [n \in 0..N |-> IF n = 0 THEN <<>>
                                        ELSE IF bad(n) THEN Append(f[n - 1], report(n))
                                             ELSE f[n - 1]]
<1>1. N \in Nat /\ <<>> \in Seq(Word)
  OBVIOUS
<1>2. \A n \in 1..N : report(n) \in Word
  BY DEF Of!Report
<1> HIDE DEF N, bad, report
<1>3. \A n \in 1..N, x \in Seq(Word) : add(n, x) \in Seq(Word)
  BY <1>2
<1> HIDE DEF add
<1>4. step \in [1..N -> [Seq(Word) -> Seq(Word)]]
  BY <1>3
<1>5. \A n \in 1..N, x \in Seq(Word) : step[n][x] = add(n, x)
  OBVIOUS
<1> HIDE DEF step
<1> DEFINE none == <<>>
<1> HIDE DEF none
<1>6. PICK f : Solves(f, N, Seq(Word), none, step)
  <2>1. step \in Steps(N, Seq(Word)) /\ none \in Seq(Word)
    BY <1>1, <1>4 DEF Steps, none
  <2> QED BY <1>1, <2>1, RecursionExists, Zenon
<1>7. \A n \in 0..N : f[n] = IF n = 0 THEN none ELSE add(n, f[n - 1])
  <2> SUFFICES ASSUME NEW n \in 0..N
               PROVE  f[n] = IF n = 0 THEN none ELSE add(n, f[n - 1])
    OBVIOUS
  <2>1. CASE n = 0
    BY <1>6, <2>1 DEF Solves
  <2>2. CASE n # 0
    <3>1. n \in 1..N /\ n - 1 \in 0..N
      BY <1>1, <2>2
    <3>2. f[n - 1] \in Seq(Word) /\ f[n] = step[n][f[n - 1]]
      BY <1>6, <3>1 DEF Solves
    <3> QED BY <1>5, <2>2, <3>1, <3>2
  <2> QED BY <2>1, <2>2
<1>8. Is(f)
  BY <1>6, <1>7 DEF Solves, add, none
<1> DEFINE upto == Of(t, s)!ReportedUpTo({})
<1>9. upto = CHOOSE g : Is(g)
  BY Zenon DEF Of!ReportedUpTo, N, bad, report
<1> HIDE DEF upto
<1>10. Is(upto)
  BY <1>8, <1>9, Zenon
<1>11. \A n \in 0..N : upto[n] = IF n = 0 THEN none ELSE add(n, upto[n - 1])
  BY <1>10, Zenon DEF add, none
<1> HIDE DEF Is
<1>12. upto[0] = none /\ \A n \in 1..N : upto[n] = add(n, upto[n - 1])
  <2>1. \A n \in 1..N : n \in 0..N /\ n # 0
    BY <1>1
  <2>2. 0 \in 0..N
    BY <1>1
  <2> QED BY <1>11, <2>1, <2>2
<1> DEFINE T == {n \in 0..N : upto[n] \in Seq(Word)}
<1>13. 0 \in T
  <2>1. none \in Seq(Word)
    BY DEF none
  <2> QED BY <1>1, <1>12, <2>1
<1>14. ASSUME NEW n \in 0..(N - 1), n \in T
       PROVE  n + 1 \in T
  <2>1. n + 1 \in 1..N /\ n + 1 \in 0..N /\ n + 1 - 1 = n
    BY <1>1
  <2> QED BY <1>3, <1>12, <1>14, <2>1
<1> HIDE DEF T
<1>15. 0..N \subseteq T
  BY <1>1, <1>13, <1>14, UpFrom
<1> QED
  BY <1>12, <1>15 DEF T, add, upto, none, N, bad, report
-----------------------------------------------------------------------------
(* A line is read word by word.                                             *)

\* The words reported before p.
Before(t, s, p) == Of(t, s)!ReportedUpTo({})[IF p <= Len(s) THEN p - 1 ELSE Len(s)]

\* How many words an option is, with its argument.
Width(t, s, p) == IF Of(t, s)!Alone(s[p]) THEN 1 ELSE 2

\* What is left of the reports x, and what another report makes of them.
Cut(x) == IF Len(x) <= MaxErrors THEN x ELSE SubSeq(x, 1, MaxErrors)
Grow(x, w) == IF Len(x) >= MaxErrors THEN x ELSE Append(x, w)

\* From one option to the next: only the first is read on the way.
LEMMA Onward ==
  ASSUME NEW t \in Seq(Option), NEW s \in Seq(Word), NEW p \in Of(t, s)!InOptionPlace
  PROVE  LET n == p + Width(t, s, p) IN
         /\ n \in (p + 1)..(Len(s) + 2)
         /\ n <= Len(s) => n \in Of(t, s)!InOptionPlace
         /\ \A q \in Of(t, s)!InOptionPlace : q < n <=> q < p \/ q = p
         /\ Before(t, s, p) \in Seq(Word)
         /\ Before(t, s, n) = IF Of(t, s)!Bad({}, p)
                              THEN Append(Before(t, s, p), Of(t, s)!Report(p))
                              ELSE Before(t, s, p)
<1> DEFINE places == Of(t, s)!InOptionPlace
           alone(q) == Of(t, s)!Alone(s[q])
           upto == Of(t, s)!ReportedUpTo({})
           bad(q) == Of(t, s)!Bad({}, q)
           report(q) == Of(t, s)!Report(q)
           n == p + Width(t, s, p)
<1>0. Len(s) \in Nat
  OBVIOUS
<1>1. /\ places \subseteq 2..Len(s)
      /\ \A q \in 2..Len(s) : q \in places <=> q = 2 \/ q - 1 \notin places \/ alone(q - 1)
  BY PlaceIs
<1>2. /\ \A q \in 0..Len(s) : upto[q] \in Seq(Word)
      /\ \A q \in 1..Len(s) :
           upto[q] = IF q \in places /\ bad(q)
                     THEN Append(upto[q - 1], report(q)) ELSE upto[q - 1]
  BY UpToIs
<1>3. /\ n = IF alone(p) THEN p + 1 ELSE p + 2
      /\ Before(t, s, p) = upto[IF p <= Len(s) THEN p - 1 ELSE Len(s)]
      /\ Before(t, s, n) = upto[IF n <= Len(s) THEN n - 1 ELSE Len(s)]
      /\ p \in places
  BY DEF Width, Before
<1> HIDE DEF places, alone, upto, bad, report, n
<1>4. p \in 2..Len(s) /\ p - 1 \in 0..Len(s) /\ p \in 1..Len(s)
  BY <1>0, <1>1, <1>3
<1>5. n \in (p + 1)..(Len(s) + 2)
  BY <1>0, <1>3, <1>4
<1>6. ~alone(p) /\ p + 1 <= Len(s) => p + 1 \notin places
  <2>1. p + 1 <= Len(s) => p + 1 \in 2..Len(s) /\ p + 1 # 2 /\ (p + 1) - 1 = p
    BY <1>0, <1>4
  <2> QED BY <1>1, <1>3, <2>1
<1>7. n <= Len(s) => n \in places
  <2>1. CASE alone(p)
    <3>1. n <= Len(s) => n \in 2..Len(s) /\ n - 1 = p
      BY <1>0, <1>3, <1>4, <2>1
    <3> QED BY <1>1, <2>1, <3>1
  <2>2. CASE ~alone(p)
    <3>1. n <= Len(s) => n \in 2..Len(s) /\ n - 1 = p + 1 /\ p + 1 <= Len(s)
      BY <1>0, <1>3, <1>4, <2>2
    <3> QED BY <1>1, <1>6, <2>2, <3>1
  <2> QED BY <2>1, <2>2
<1>8. ASSUME NEW q \in places
      PROVE  q < n <=> q < p \/ q = p
  <2>1. q \in 2..Len(s)
    BY <1>1
  <2>2. ~alone(p) => q # p + 1
    BY <1>6, <2>1
  <2> QED BY <1>3, <1>4, <2>1, <2>2
<1>9. Before(t, s, p) = upto[p - 1] /\ upto[p - 1] \in Seq(Word)
  BY <1>2, <1>3, <1>4
<1>10. upto[p] = IF bad(p) THEN Append(upto[p - 1], report(p)) ELSE upto[p - 1]
  BY <1>2, <1>3, <1>4
<1>11. Before(t, s, n) = upto[p]
  <2>1. CASE alone(p) \/ p = Len(s)
    <3>1. (IF n <= Len(s) THEN n - 1 ELSE Len(s)) = p
      BY <1>0, <1>3, <1>4, <2>1
    <3> QED BY <1>3, <3>1
  <2>2. CASE ~(alone(p) \/ p = Len(s))
    <3>1. /\ (IF n <= Len(s) THEN n - 1 ELSE Len(s)) = p + 1
          /\ p + 1 \in 1..Len(s) /\ p + 1 <= Len(s) /\ (p + 1) - 1 = p
      BY <1>0, <1>3, <1>4, <2>2
    <3>2. upto[p + 1] = upto[p]
      BY <1>2, <1>6, <2>2, <3>1
    <3> QED BY <1>3, <3>1, <3>2
  <2> QED BY <2>1, <2>2
<1> QED
  BY <1>5, <1>7, <1>8, <1>9, <1>10, <1>11 DEF places, n, bad, report

\* Reports that are cut before another is added are the ones cut after it.
LEMMA CutGrows ==
  ASSUME NEW x \in Seq(Word), NEW w \in Word
  PROVE  /\ Cut(Append(x, w)) = Grow(Cut(x), w)
         /\ Cut(x) \in Seq(Word) /\ Len(Cut(x)) <= MaxErrors
<1>1. MaxErrors \in Nat /\ Len(x) \in Nat
  BY ArgpAssumption
<1>2. CASE Len(x) < MaxErrors
  BY <1>1, <1>2 DEF Cut, Grow
<1>3. CASE Len(x) >= MaxErrors
  <2> DEFINE c == Cut(x)
             d == Cut(Append(x, w))
  <2>1. c \in Seq(Word) /\ Len(c) = MaxErrors /\ \A k \in 1..MaxErrors : c[k] = x[k]
    BY <1>1, <1>3 DEF Cut
  <2>2. d \in Seq(Word) /\ Len(d) = MaxErrors /\ \A k \in 1..MaxErrors : d[k] = x[k]
    BY <1>1, <1>3 DEF Cut
  <2> HIDE DEF c, d
  <2>3. c = d
    BY <2>1, <2>2
  <2>4. Grow(c, w) = c
    BY <1>1, <2>1 DEF Grow
  <2> QED BY <1>1, <2>1, <2>3, <2>4 DEF c, d
<1> QED
  BY <1>1, <1>2, <1>3
Helps(t, s, p) ==
  /\ Of(t, s)!Named(s[p]) # NULL
  /\ Of(t, s)!Named(s[p]).valtype = "HELP"

\* A variable v that held old holds new: what the last good argument before p
\* means, if there is one and v is not spoilt.
Told(t, s, v, p, old, new) ==
  \/ \E q \in Of(t, s)!For(v) \ Of(t, s)!GoodFor({}, v) :
       /\ q < p /\ Of(t, s)!Named(s[q]).valtype = "BOOL"
       /\ \A g \in Of(t, s)!GoodFor({}, v) : g < p => g < q
  \/ /\ new = old
     /\ \A q \in Of(t, s)!GoodFor({}, v) : ~(q < p)
  \/ \E m \in Of(t, s)!GoodFor({}, v) :
       /\ m < p /\ new \in Of(t, s)!Gives(m)
       /\ \A q \in Of(t, s)!GoodFor({}, v) : q < p => q <= m

\* What the option at p makes of a variable v that held new.
Tells(t, s, v, p, new, next) ==
  \/ p \notin Of(t, s)!For(v) /\ next = new
  \/ p \in Of(t, s)!GoodFor({}, v) /\ next \in Of(t, s)!Gives(p)
  \/ /\ p \in Of(t, s)!For(v) \ Of(t, s)!GoodFor({}, v)
     /\ next = new \/ Of(t, s)!Named(s[p]).valtype = "BOOL"

LEMMA ToldOn ==
  ASSUME NEW t \in Seq(Option), NEW s \in Seq(Word), NEW p \in Of(t, s)!InOptionPlace,
         NEW v, NEW old, NEW new, NEW next,
         Told(t, s, v, p, old, new), Tells(t, s, v, p, new, next)
  PROVE  Told(t, s, v, p + Width(t, s, p), old, next)
<1> DEFINE for == Of(t, s)!For(v)
           good == Of(t, s)!GoodFor({}, v)
           gives(q) == Of(t, s)!Gives(q)
           isBool(q) == Of(t, s)!Named(s[q]).valtype = "BOOL"
           n == p + Width(t, s, p)
           spoilt(m) == \E q \in for \ good : /\ q < m /\ isBool(q)
                                             /\ \A g \in good : g < m => g < q
           told(m, x) == \/ spoilt(m)
                         \/ /\ x = old
                            /\ \A q \in good : ~(q < m)
                         \/ \E k \in good : /\ k < m /\ x \in gives(k)
                                            /\ \A q \in good : q < m => q <= k
<1>1. for \subseteq Of(t, s)!InOptionPlace /\ good \subseteq for
  BY DEF Of!For, Of!GoodFor
<1>2. /\ n > p /\ p \in Nat
      /\ \A q \in for : q \in Nat /\ (q < n <=> q < p \/ q = p)
  <2>1. Of(t, s)!InOptionPlace \subseteq 2..Len(s) /\ Len(s) \in Nat
    BY PlaceIs
  <2>2. /\ n \in (p + 1)..(Len(s) + 2)
        /\ \A q \in Of(t, s)!InOptionPlace : q < n <=> q < p \/ q = p
    BY Onward
  <2> HIDE DEF n
  <2> QED BY <1>1, <2>1, <2>2
<1>3. /\ told(p, new)
      /\ \/ p \notin for /\ next = new
         \/ p \in good /\ next \in gives(p)
         \/ p \in for \ good /\ (next = new \/ isBool(p))
  BY DEF Told, Tells
<1>4. told(n, next) => Told(t, s, v, n, old, next)
  BY DEF Told
<1> HIDE DEF for, good, gives, isBool, n
<1>5. CASE spoilt(p) /\ p \notin good
  <2>1. \A q \in good : q < n <=> q < p
    BY <1>1, <1>2, <1>5
  <2>2. spoilt(n)
    BY <1>2, <1>5, <2>1
  <2> QED BY <1>4, <2>2 DEF n
<1>6. CASE p \in good /\ next \in gives(p)
  <2>1. p < n /\ \A q \in good : q < n => q <= p
    BY <1>1, <1>2
  <2> QED BY <1>4, <1>6, <2>1 DEF n
<1>7. CASE p \notin good /\ next = new /\ ~spoilt(p)
  <2>1. \A q \in good : q < n <=> q < p
    BY <1>1, <1>2, <1>7
  <2> QED BY <1>3, <1>4, <1>7, <2>1 DEF n
<1>8. CASE p \in for \ good /\ isBool(p)
  <2>1. \A q \in good : q < n => q < p
    BY <1>1, <1>2, <1>8
  <2>2. spoilt(n)
    BY <1>2, <1>8, <2>1
  <2> QED BY <1>4, <2>2 DEF n
<1> QED
  BY <1>1, <1>3, <1>5, <1>6, <1>7, <1>8

\* The loop is at p: what the variables and the reports are, of old and before.
Reading(t, s, p, old, new, before, now) ==
  /\ p \in 2..(Len(s) + 2)
  /\ p <= Len(s) => p \in Of(t, s)!InOptionPlace
  /\ \A q \in Of(t, s)!InOptionPlace : q < p => ~Helps(t, s, q)
  /\ \A v \in Vars : Told(t, s, v, p, old[v], new[v])
  /\ now = Cut(before \o Before(t, s, p))

LEMMA ReadingStarts ==
  ASSUME NEW t \in Seq(Option), NEW s \in Seq(Word), NEW old,
         NEW before \in Seq(Word), Len(before) <= MaxErrors
  PROVE  Reading(t, s, 2, old, old, before, before)
<1>1. Len(s) \in Nat
  OBVIOUS
<1>2. /\ Of(t, s)!InOptionPlace \subseteq 2..Len(s)
      /\ 2 \in 2..Len(s) => 2 \in Of(t, s)!InOptionPlace
  BY PlaceIs
<1>3. Before(t, s, 2) = <<>>
  <2> DEFINE k == IF 2 <= Len(s) THEN 2 - 1 ELSE Len(s)
             upto == Of(t, s)!ReportedUpTo({})
  <2>1. k \in {0, 1} /\ k <= Len(s)
    <3> DEFINE N == Len(s)
    <3> HIDE DEF N
    <3>1. N \in Nat
      BY <1>1 DEF N
    <3>2. k = IF 2 <= N THEN 1 ELSE N
      BY DEF N
    <3>3. (IF 2 <= N THEN 1 ELSE N) \in {0, 1} /\ (IF 2 <= N THEN 1 ELSE N) <= N
      BY <3>1
    <3> QED BY <3>2, <3>3 DEF N
  <2>2. Before(t, s, 2) = upto[k]
    BY DEF Before
  <2>3. 1 \notin Of(t, s)!InOptionPlace /\ 1 - 1 = 0
    BY <1>1, <1>2
  <2>4. upto[0] = <<>> /\ (1 \in 1..Len(s) => upto[1] = upto[0])
    BY <2>3, UpToIs
  <2> HIDE DEF k, upto
  <2>5. k = 1 => 1 \in 1..Len(s)
    BY <1>1, <2>1
  <2> QED BY <2>1, <2>2, <2>4, <2>5
<1>4. before \o <<>> = before
  OBVIOUS
<1>5. Cut(before \o Before(t, s, 2)) = before
  BY <1>3, <1>4 DEF Cut
<1>6. \A q \in Of(t, s)!InOptionPlace : ~(q < 2)
  BY <1>1, <1>2
<1>7. \A v \in Vars : Told(t, s, v, 2, old[v], old[v])
  BY <1>6 DEF Told, Of!GoodFor, Of!For
<1> QED
  BY <1>1, <1>2, <1>5, <1>6, <1>7 DEF Reading

LEMMA ReadingOn ==
  ASSUME NEW t \in Seq(Option), NEW s \in Seq(Word), NEW p,
         NEW old, NEW new, NEW next, NEW before \in Seq(Word), NEW now, NEW then,
         Reading(t, s, p, old, new, before, now), p <= Len(s), ~Helps(t, s, p),
         \A v \in Vars : Tells(t, s, v, p, new[v], next[v]),
         then = IF Of(t, s)!Bad({}, p) THEN Grow(now, Of(t, s)!Report(p)) ELSE now
  PROVE  Reading(t, s, p + Width(t, s, p), old, next, before, then)
<1> DEFINE n == p + Width(t, s, p)
<1>1. p \in Of(t, s)!InOptionPlace /\ p \in 2..Len(s) /\ Len(s) \in Nat
  BY DEF Reading
<1>2. /\ n \in (p + 1)..(Len(s) + 2)
      /\ n <= Len(s) => n \in Of(t, s)!InOptionPlace
      /\ \A q \in Of(t, s)!InOptionPlace : q < n <=> q < p \/ q = p
      /\ Before(t, s, p) \in Seq(Word)
      /\ Before(t, s, n) = IF Of(t, s)!Bad({}, p)
                           THEN Append(Before(t, s, p), Of(t, s)!Report(p))
                           ELSE Before(t, s, p)
  BY <1>1, Onward
<1>3. \A v \in Vars : Told(t, s, v, n, old[v], next[v])
  BY <1>1, ToldOn DEF Reading
<1> HIDE DEF n
<1>4. \A q \in Of(t, s)!InOptionPlace : q < n => ~Helps(t, s, q)
  BY <1>2 DEF Reading
<1>5. then = Cut(before \o Before(t, s, n))
  <2>1. now = Cut(before \o Before(t, s, p))
    BY DEF Reading
  <2>2. CASE ~Of(t, s)!Bad({}, p)
    BY <1>2, <2>1, <2>2
  <2>3. CASE Of(t, s)!Bad({}, p)
    <3> DEFINE x == Before(t, s, p)
               w == Of(t, s)!Report(p)
    <3>1. w \in Word
      BY <1>1 DEF Of!Report
    <3>2. x \in Seq(Word)
      BY <1>2
    <3>3. then = Grow(Cut(before \o x), w) /\ Before(t, s, n) = Append(x, w)
      BY <1>2, <2>1, <2>3
    <3> HIDE DEF x, w
    <3>4. before \o Append(x, w) = Append(before \o x, w) /\ before \o x \in Seq(Word)
      BY <3>1, <3>2
    <3> QED BY <3>1, <3>3, <3>4, CutGrows
  <2> QED BY <2>2, <2>3
<1>6. n \in 2..(Len(s) + 2)
  BY <1>1, <1>2
<1> QED
  BY <1>2, <1>3, <1>4, <1>5, <1>6 DEF Reading, n
-----------------------------------------------------------------------------
(* The loop of adc_argp_parse reads the line so.                            *)

\* What the program has seen is what there was before the parse, and what the
\* variables and the reports are now is of the words read since.
RInv ==
  /\ vals = [v \in Vars |-> vals[v]]
  /\ seen.reports \in Seq(Word) /\ Len(seen.reports) <= MaxErrors
  /\ call = NULL => seen = Seen(parser, vals)
  /\ call # NULL => /\ call \in Call
                    /\ Reading(opts, call.argv, call.i + 1, seen.vals, vals,
                               seen.reports, Reports(parser))

LEMMA ReportsFit ==
  ASSUME NEW p, p # NULL => Good(p)
  PROVE  /\ Reports(p) \in Seq(Word) /\ Len(Reports(p)) <= MaxErrors
         /\ p # NULL => Len(Reports(p)) = Len(p.errors)
<1>1. CASE p = NULL
  <2>1. Reports(p) = <<>>
    BY <1>1 DEF Reports
  <2> QED BY <1>1, <2>1, ArgpAssumption
<1>2. CASE p # NULL
  <2> DEFINE errors == p.errors
  <2>1. errors \in Seq(Error) /\ Len(errors) <= MaxErrors
    BY <1>2 DEF Good, Parser
  <2>2. Reports(p) = [k \in 1..Len(errors) |-> errors[k].argv]
    BY <1>2 DEF Reports
  <2> HIDE DEF errors
  <2>3. \A k \in 1..Len(errors) : errors[k].argv \in Word
    <3> SUFFICES ASSUME NEW k \in 1..Len(errors)
                 PROVE  errors[k].argv \in Word
      OBVIOUS
    <3>1. errors[k] \in Error
      BY <2>1
    <3> QED BY <3>1 DEF Error
  <2>4. Len(errors) \in Nat
    BY <2>1
  <2> QED BY <2>1, <2>2, <2>3, <2>4 DEF errors
<1> QED
  BY <1>1, <1>2

\* add_error adds a report of its word, if there is room.
LEMMA AddErrorReports ==
  ASSUME NEW p, Good(p), p # NULL, NEW type, NEW opt, NEW w \in Word,
         add_error(p, type, opt, w) # NULL
  PROVE  Reports(add_error(p, type, opt, w)) = Grow(Reports(p), w)
<1> DEFINE error == [type |-> type, opt |-> opt, argv |-> w]
           errors == p.errors
           more == Append(errors, error)
<1>1. errors \in Seq(Error) /\ p \in Parser /\ Len(Reports(p)) = Len(errors)
  BY ReportsFit DEF Good, Parser
<1>2. CASE Len(errors) >= MaxErrors
  BY <1>1, <1>2 DEF add_error, Grow
<1>3. CASE ~(Len(errors) >= MaxErrors)
  <2>1. add_error(p, type, opt, w) = [p EXCEPT !.errors = more]
    BY <1>3 DEF add_error
  <2>2. error.argv = w
    OBVIOUS
  <2> HIDE DEF error
  <2>3. [p EXCEPT !.errors = more].errors = more
    BY <1>1 DEF Parser
  <2>4. /\ Len(more) = Len(errors) + 1 /\ Len(errors) \in Nat
        /\ more[Len(errors) + 1] = error
        /\ \A k \in 1..Len(errors) : more[k] = errors[k]
    BY <1>1
  <2>5. Reports(add_error(p, type, opt, w)) = [k \in 1..Len(more) |-> more[k].argv]
    BY <2>1, <2>3, Zenon DEF Reports
  <2> DEFINE x == Reports(p)
  <2>6. x = [k \in 1..Len(errors) |-> errors[k].argv] /\ x \in Seq(Word)
    BY ReportsFit DEF Reports
  <2> HIDE DEF more, errors, x
  <2>7. [k \in 1..Len(more) |-> more[k].argv] = Append(x, w)
    <3> DEFINE z == Append(x, w)
    <3>1. z \in Seq(Word) /\ Len(z) = Len(more) /\ z[Len(more)] = w
          /\ \A k \in 1..Len(errors) : z[k] = errors[k].argv
      BY <2>4, <2>6
    <3> HIDE DEF z
    <3>2. z = [k \in 1..Len(z) |-> z[k]]
      BY <3>1
    <3>3. \A k \in 1..Len(more) : z[k] = more[k].argv
      BY <2>2, <2>4, <3>1
    <3> QED BY <3>1, <3>2, <3>3 DEF z
  <2>8. Grow(x, w) = Append(x, w)
    BY <1>1, <1>3 DEF Grow, x, errors
  <2> QED BY <2>5, <2>7, <2>8 DEF x
<1> QED
  BY <1>2, <1>3

\* The loop is where an option is expected, and finds the one the word names.
LEMMA AtMeans ==
  ASSUME IInv, RInv, NEW opt, At(opt)
  PROVE  LET s == call.argv
             p == call.i + 1
         IN /\ opts \in Seq(Option) /\ s \in Seq(Word) /\ Good(parser) /\ parser # NULL
            /\ p \in 2..Len(s) /\ p \in Of(opts, s)!InOptionPlace
            /\ Arg(call.i) = s[p] /\ s[p] \in Word
            /\ Of(opts, s)!Named(s[p]) = opt
            /\ opt # NULL => opt \in Option
<1> DEFINE s == call.argv
           p == call.i + 1
<1>1. call # NULL /\ call.i < Len(s)
  BY DEF At
<1>2. opts \in Seq(Option) /\ parser # NULL /\ Good(parser)
  BY <1>1, ParserGood, ArgpAssumption DEF IInv, TypeOK
<1>3. s \in Seq(Word) /\ call.i \in Nat /\ p \in 2..(Len(s) + 2)
      /\ (p <= Len(s) => p \in Of(opts, s)!InOptionPlace)
  BY <1>1 DEF RInv, Call, Reading
<1>4. p \in 2..Len(s) /\ p \in Of(opts, s)!InOptionPlace
  BY <1>1, <1>3
<1>5. s[p] \in Word /\ Arg(call.i) = s[p]
  BY <1>3, <1>4 DEF Arg
<1>6. opt = IF find_opt(s[p]) = 0 THEN NULL ELSE opts[find_opt(s[p])]
  BY <1>5 DEF At
<1>7. Of(opts, s)!Named(s[p]) = opt /\ (opt # NULL => opt \in Option)
  BY <1>2, <1>5, <1>6, NamedIs
<1> QED
  BY <1>2, <1>3, <1>4, <1>5, <1>7

\* What is left to show of a step that reads an option.
LEMMA StepReads ==
  ASSUME IInv, RInv, NEW opt, At(opt), opts' = opts, seen' = seen,
         vals' = [v \in Vars |-> vals'[v]],
         Move(Width(opts, call.argv, call.i + 1)),
         opt = NULL \/ opt.valtype # "HELP",
         \A v \in Vars : Tells(opts, call.argv, v, call.i + 1, vals[v], vals'[v]),
         Reports(parser') = IF Of(opts, call.argv)!Bad({}, call.i + 1)
                            THEN Grow(Reports(parser), Of(opts, call.argv)!Report(call.i + 1))
                            ELSE Reports(parser)
  PROVE  RInv' /\ call' # NULL /\ call'.argv = call.argv
<1> DEFINE s == call.argv
           p == call.i + 1
           k == Width(opts, s, p)
<1>1. /\ opts \in Seq(Option) /\ s \in Seq(Word) /\ p \in 2..Len(s)
      /\ Of(opts, s)!Named(s[p]) = opt
  BY AtMeans
<1>2. ~Helps(opts, s, p)
  BY <1>1 DEF Helps
<1>3. call # NULL /\ call \in Call
      /\ Reading(opts, s, p, seen.vals, vals, seen.reports, Reports(parser))
  BY DEF RInv, At
<1>4. k \in 1..2
  BY DEF Width
<1> DEFINE before == seen.reports
           then == Reports(parser')
<1>5. before \in Seq(Word) /\ Len(before) <= MaxErrors
  BY DEF RInv
<1> HIDE DEF before, then
<1>6. Reading(opts, s, p + k, seen.vals, vals', before, then)
  <2>1. p <= Len(s)
    BY <1>1
  <2> HIDE DEF s, p
  <2> QED BY <1>1, <1>2, <1>3, <1>5, <2>1, ReadingOn, Zenon DEF before, then, s, p
<1> HIDE DEF k
<1>7. call' = [call EXCEPT !.i = @ + k]
  BY DEF Move, k
<1>8. call' \in Call /\ call'.argv = call.argv /\ call'.i = call.i + k
  BY <1>3, <1>4, <1>7 DEF Call
<1>9. call' # NULL
  BY <1>8, ArgpAssumption
<1>10. call'.i + 1 = p + k
  BY <1>3, <1>4, <1>8 DEF Call
<1>11. Reading(opts, call.argv, call.i + 1, seen.vals, vals, seen.reports, Reports(parser))'
  BY <1>6, <1>8, <1>10 DEF before, then
<1> QED
  BY <1>5, <1>8, <1>9, <1>11 DEF RInv, before
\* What CommandLine says of the place of an option.
LEMMA OptionReads ==
  ASSUME NEW t, NEW s, NEW p \in Of(t, s)!InOptionPlace, NEW opt,
         Of(t, s)!Named(s[p]) = opt, opt # NULL
  PROVE  LET fits == p < Len(s) /\ Of(t, s)!Good(opt.valtype, s[p + 1]) IN
         /\ \A v : p \in Of(t, s)!For(v) <=> opt.val = v
         /\ \A v : p \in Of(t, s)!GoodFor({}, v) <=> opt.val = v /\ (opt.valtype = "FLAG" \/ fits)
         /\ Of(t, s)!Alone(s[p]) <=> opt.valtype \in {"HELP", "FLAG"}
         /\ Of(t, s)!Bad({}, p) <=> opt.valtype \notin {"HELP", "FLAG"} /\ ~fits
         /\ Of(t, s)!Gives(p) = IF opt.valtype = "FLAG" THEN {1}
                                ELSE Of(t, s)!Means(opt.valtype, s[p + 1])
         /\ Of(t, s)!Report(p) = IF p = Len(s) THEN s[p] ELSE s[p + 1]
<1> DEFINE fits == p < Len(s) /\ Of(t, s)!Good(opt.valtype, s[p + 1])
<1> HIDE DEF fits
<1>1. \A v : p \in Of(t, s)!For(v) <=> opt.val = v
  BY DEF Of!For
<1>2. \A v : p \in Of(t, s)!GoodFor({}, v) <=> opt.val = v /\ (opt.valtype = "FLAG" \/ fits)
  BY <1>1 DEF Of!GoodFor, fits
<1>3. Of(t, s)!Alone(s[p]) <=> opt.valtype \in {"HELP", "FLAG"}
  BY DEF Of!Alone
<1>4. Of(t, s)!Bad({}, p) <=> opt.valtype \notin {"HELP", "FLAG"} /\ ~fits
  BY <1>2, <1>3 DEF Of!Bad
<1>5. Of(t, s)!Gives(p) = IF opt.valtype = "FLAG" THEN {1}
                          ELSE Of(t, s)!Means(opt.valtype, s[p + 1])
  BY DEF Of!Gives
<1>6. Of(t, s)!Report(p) = IF p = Len(s) THEN s[p] ELSE s[p + 1]
  BY DEF Of!Report
<1> QED
  BY <1>1, <1>2, <1>3, <1>4, <1>5, <1>6 DEF fits

LEMMA StillParsing ==
  ASSUME IInv', RInv, call # NULL, NEW n \in Nat, Move(n)
  PROVE  call' # NULL /\ parser' # NULL
<1>1. call' = [call EXCEPT !.i = @ + n] /\ call \in Call
  BY DEF Move, RInv
<1>2. call' \in Call
  BY <1>1 DEF Call
<1>3. call' # NULL
  BY <1>2, ArgpAssumption
<1> QED
  BY <1>3 DEF IInv, TypeOK

\* Each way to read an option is what CommandLine says of its place.
LEMMA UnknownReads ==
  ASSUME IInv, IInv', RInv, Unknown, seen' = seen
  PROVE  RInv' /\ call' # NULL /\ call'.argv = call.argv
<1> DEFINE s == call.argv
           p == call.i + 1
<1>1. At(NULL) /\ parser' = add_error(parser, ERROR_OPT_UNKNOWN, NULL, Arg(call.i))
      /\ Move(1) /\ opts' = opts /\ vals' = vals
  BY DEF Unknown
<1>2. /\ Good(parser) /\ parser # NULL /\ Arg(call.i) = s[p] /\ s[p] \in Word
      /\ Of(opts, s)!Named(s[p]) = NULL
  BY <1>1, AtMeans
<1>3. parser' # NULL
  BY <1>1, StillParsing DEF At
<1>4. Reports(parser') = Grow(Reports(parser), s[p])
  BY <1>1, <1>2, <1>3, AddErrorReports
<1>5. Width(opts, s, p) = 1 /\ Of(opts, s)!Bad({}, p) /\ Of(opts, s)!Report(p) = s[p]
  BY <1>2 DEF Width, Of!Alone, Of!Bad, Of!Report
<1>6. \A v \in Vars : Tells(opts, s, v, p, vals[v], vals'[v])
  BY <1>1, <1>2 DEF Tells, Of!For
<1>7. vals' = [v \in Vars |-> vals'[v]]
  BY <1>1 DEF RInv
<1> QED
  BY <1>1, <1>4, <1>5, <1>6, <1>7, StepReads

LEMMA FlagReads ==
  ASSUME IInv, IInv', RInv, NEW opt \in Option, Flag(opt), seen' = seen
  PROVE  RInv' /\ call' # NULL /\ call'.argv = call.argv
<1> DEFINE s == call.argv
           p == call.i + 1
<1>1. At(opt) /\ opt.valtype = "FLAG" /\ vals' = [vals EXCEPT ![opt.val] = 1]
      /\ Move(1) /\ opts' = opts /\ parser' = parser
  BY DEF Flag
<1>2. opt # NULL
  BY ArgpAssumption
<1>3. /\ p \in Of(opts, s)!InOptionPlace
      /\ Of(opts, s)!Named(s[p]) = opt
  BY <1>1, AtMeans
<1>4. /\ \A v : p \in Of(opts, s)!For(v) <=> opt.val = v
      /\ \A v : p \in Of(opts, s)!GoodFor({}, v) <=> opt.val = v
      /\ Of(opts, s)!Alone(s[p]) /\ ~Of(opts, s)!Bad({}, p) /\ Of(opts, s)!Gives(p) = {1}
  BY <1>1, <1>2, <1>3, OptionReads
<1>5. Width(opts, s, p) = 1
  BY <1>4 DEF Width
<1>6. /\ vals' = [v \in Vars |-> vals'[v]]
      /\ \A v \in Vars : vals'[v] = IF v = opt.val THEN 1 ELSE vals[v]
  BY <1>1 DEF RInv
<1>7. \A v \in Vars : Tells(opts, s, v, p, vals[v], vals'[v])
  BY <1>4, <1>6 DEF Tells
<1>8. Reports(parser') = Reports(parser)
  BY <1>1
<1> QED
  BY <1>1, <1>4, <1>5, <1>6, <1>7, <1>8, StepReads

LEMMA MissingReads ==
  ASSUME IInv, IInv', RInv, NEW opt \in Option, Missing(opt), seen' = seen
  PROVE  RInv' /\ call' # NULL /\ call'.argv = call.argv
<1> DEFINE s == call.argv
           p == call.i + 1
<1>1. At(opt) /\ Takes(opt) /\ call.i + 1 >= Len(call.argv)
      /\ parser' = add_error(parser, ERROR_ARG_MISSING, opt, Arg(call.i))
      /\ Move(2) /\ opts' = opts /\ vals' = vals
  BY DEF Missing
<1>2. opt # NULL
  BY ArgpAssumption
<1>3. /\ p \in Of(opts, s)!InOptionPlace /\ p \in 2..Len(s) /\ s \in Seq(Word)
      /\ Of(opts, s)!Named(s[p]) = opt
      /\ Good(parser) /\ parser # NULL /\ Arg(call.i) = s[p] /\ s[p] \in Word
  BY <1>1, AtMeans
<1>4. p = Len(s) /\ ~(p < Len(s))
  BY <1>1, <1>3
<1>5. opt.valtype \notin {"HELP", "FLAG"}
  BY <1>1 DEF Takes
<1>6. /\ \A v : p \in Of(opts, s)!For(v) <=> opt.val = v
      /\ \A v : p \notin Of(opts, s)!GoodFor({}, v)
      /\ ~Of(opts, s)!Alone(s[p]) /\ Of(opts, s)!Bad({}, p) /\ Of(opts, s)!Report(p) = s[p]
  BY <1>2, <1>3, <1>4, <1>5, OptionReads
<1>7. Width(opts, s, p) = 2
  BY <1>6 DEF Width
<1>8. parser' # NULL
  BY <1>1, StillParsing DEF At
<1>9. Reports(parser') = Grow(Reports(parser), s[p])
  BY <1>1, <1>3, <1>8, AddErrorReports
<1>10. \A v \in Vars : Tells(opts, s, v, p, vals[v], vals'[v])
  BY <1>1, <1>6 DEF Tells
<1>11. vals' = [v \in Vars |-> vals'[v]]
  BY <1>1 DEF RInv
<1> QED
  BY <1>1, <1>5, <1>6, <1>7, <1>9, <1>10, <1>11, StepReads

LEMMA GivenReads ==
  ASSUME IInv, IInv', RInv, NEW opt \in Option, Given(opt), seen' = seen
  PROVE  RInv' /\ call' # NULL /\ call'.argv = call.argv
<1> DEFINE s == call.argv
           p == call.i + 1
           w == s[p + 1]
           r == Convert(opt.valtype, vals[opt.val], w)
<1>1. At(opt) /\ Takes(opt) /\ call.i + 1 < Len(call.argv)
      /\ Move(2) /\ opts' = opts
  BY DEF Given
<1>2. opt # NULL
  BY ArgpAssumption
<1>3. /\ p \in Of(opts, s)!InOptionPlace /\ p \in 2..Len(s) /\ s \in Seq(Word)
      /\ Of(opts, s)!Named(s[p]) = opt /\ Good(parser) /\ parser # NULL
  BY <1>1, AtMeans
<1>4. p < Len(s) /\ p # Len(s) /\ w \in Word
  BY <1>1, <1>3
<1>5. opt.valtype \in Types \ {"HELP", "FLAG"} /\ opt.valtype # "FLAG" /\ opt.valtype # "HELP"
  BY <1>1 DEF Takes, Option
<1>6. /\ vals' = [vals EXCEPT ![opt.val] = r.val]
      /\ parser' = IF r.err = ERROR_NONE THEN parser ELSE add_error(parser, r.err, opt, w)
  BY DEF Given, Arg
<1>7. /\ r.err = ERROR_NONE <=> Of(opts, s)!Good(opt.valtype, w)
      /\ r.err = ERROR_NONE => r.val \in Of(opts, s)!Means(opt.valtype, w)
      /\ r.err # ERROR_NONE => r.val = vals[opt.val] \/ opt.valtype = "BOOL"
  BY <1>4, <1>5, ConvertIs
<1>8. /\ \A v : p \in Of(opts, s)!For(v) <=> opt.val = v
      /\ \A v : p \in Of(opts, s)!GoodFor({}, v)
                  <=> opt.val = v /\ Of(opts, s)!Good(opt.valtype, w)
      /\ ~Of(opts, s)!Alone(s[p])
      /\ Of(opts, s)!Bad({}, p) <=> ~Of(opts, s)!Good(opt.valtype, w)
      /\ Of(opts, s)!Gives(p) = Of(opts, s)!Means(opt.valtype, w)
      /\ Of(opts, s)!Report(p) = w
  BY <1>2, <1>3, <1>4, <1>5, OptionReads
<1>9. Width(opts, s, p) = 2
  BY <1>8 DEF Width
<1>10. parser' # NULL
  BY <1>1, StillParsing DEF At
<1> HIDE DEF r, w
<1>11. Reports(parser') = IF Of(opts, s)!Bad({}, p) THEN Grow(Reports(parser), w)
                          ELSE Reports(parser)
  <2>1. CASE r.err = ERROR_NONE
    BY <1>6, <1>7, <1>8, <2>1
  <2>2. CASE r.err # ERROR_NONE
    <3>1. parser' = add_error(parser, r.err, opt, w)
      BY <1>6, <2>2
    <3>2. Reports(parser') = Grow(Reports(parser), w)
      BY <1>3, <1>4, <1>10, <3>1, AddErrorReports
    <3> QED BY <1>7, <1>8, <2>2, <3>2
  <2> QED BY <2>1, <2>2
<1>12. /\ vals' = [v \in Vars |-> vals'[v]]
       /\ \A v \in Vars : vals'[v] = IF v = opt.val THEN r.val ELSE vals[v]
  BY <1>6 DEF RInv
<1>13. ASSUME NEW v \in Vars
       PROVE  Tells(opts, s, v, p, vals[v], vals'[v])
  BY <1>3, <1>7, <1>8, <1>12 DEF Tells
<1> QED
  BY <1>1, <1>5, <1>8, <1>9, <1>11, <1>12, <1>13, StepReads
-----------------------------------------------------------------------------
(* Every step is one of CommandLine, or changes nothing it shows.           *)

LEMMA PlacesSame ==
  ASSUME call # NULL
  PROVE  Promise!InOptionPlace = Of(opts, call.argv)!InOptionPlace
<1> DEFINE line == IF call = NULL THEN NULL ELSE call.argv
<1>1. Promise!InOptionPlace = Of(opts, line)!InOptionPlace
  BY DEF Promise!InOptionPlace, Of!InOptionPlace, Promise!Alone, Of!Alone,
         Promise!Named, Of!Named, Promise!Min, Of!Min
<1>2. line = call.argv
  OBVIOUS
<1> QED
  BY <1>1, <1>2

\* What a parse in progress stands for in CommandLine.
LEMMA PromiseIs ==
  ASSUME call # NULL
  PROVE  LET s == call.argv IN
         /\ Promise!AsksForHelp <=> \E p \in Of(opts, s)!InOptionPlace : Helps(opts, s, p)
         /\ \A v : Promise!For(v) = Of(opts, s)!For(v)
         /\ \A v : Promise!GoodFor({}, v) = Of(opts, s)!GoodFor({}, v)
         /\ \A p : Promise!Gives(p) = Of(opts, s)!Gives(p)
         /\ \A p : Promise!Named(s[p]) = Of(opts, s)!Named(s[p])
         /\ Promise!Reported({}) = Of(opts, s)!ReportedUpTo({})[Len(s)]
<1> DEFINE s == call.argv
<1>1. \A w : Promise!Named(w) = Of(opts, s)!Named(w)
  BY DEF Promise!Named, Of!Named, Promise!Min, Of!Min
<1>2. \A w : Promise!Alone(w) <=> Of(opts, s)!Alone(w)
  BY <1>1 DEF Promise!Alone, Of!Alone
<1>3. Promise!InOptionPlace = Of(opts, s)!InOptionPlace
  BY PlacesSame
<1>4. \A v : Promise!For(v) = Of(opts, s)!For(v)
  BY <1>1, <1>3 DEF Promise!For, Of!For
<1>5. \A valtype, w : /\ Promise!Good(valtype, w) <=> Of(opts, s)!Good(valtype, w)
                      /\ Promise!Means(valtype, w) = Of(opts, s)!Means(valtype, w)
  BY DEF Promise!Good, Of!Good, Promise!Means, Of!Means
<1>6. \A v : Promise!GoodFor({}, v) = Of(opts, s)!GoodFor({}, v)
  BY <1>1, <1>4, <1>5 DEF Promise!GoodFor, Of!GoodFor
<1>7. \A p : Promise!Gives(p) = Of(opts, s)!Gives(p)
  BY <1>1, <1>5 DEF Promise!Gives, Of!Gives
<1>8. Promise!AsksForHelp <=> \E p \in Of(opts, s)!InOptionPlace : Helps(opts, s, p)
  BY <1>1, <1>3 DEF Promise!AsksForHelp, Helps
<1>9. \A p : /\ Promise!Bad({}, p) <=> Of(opts, s)!Bad({}, p)
             /\ Promise!Report(p) = Of(opts, s)!Report(p)
  BY <1>1, <1>2, <1>6 DEF Promise!Bad, Of!Bad, Promise!Report, Of!Report
<1>10. Promise!ReportedUpTo({}) = Of(opts, s)!ReportedUpTo({})
  BY <1>3, <1>9 DEF Promise!ReportedUpTo, Of!ReportedUpTo
<1>11. Promise!Reported({}) = Of(opts, s)!ReportedUpTo({})[Len(s)]
  BY <1>10 DEF Promise!Reported
<1> QED
  BY <1>1, <1>4, <1>6, <1>7, <1>8, <1>11

LEMMA ReadStutters ==
  ASSUME IInv, IInv', call # NULL, call' # NULL, call'.argv = call.argv,
         UNCHANGED <<opts, returned, exited, seen>>
  PROVE  UNCHANGED Promise!vars
<1>1. parser # NULL /\ parser' # NULL
  BY DEF IInv, TypeOK
<1> QED
  BY <1>1 DEF Promise!vars

LEMMA StartGives ==
  ASSUME IInv, IInv', RInv, NEW argv \in Lines[opts], adc_argp_parse(argv),
         seen' = IF call' = NULL THEN Seen(parser', vals') ELSE seen
  PROVE  RInv' /\ Promise!Next
<1>1. /\ ~exited /\ parser # NULL /\ call = NULL /\ opts # <<>>
      /\ parser' = [parser EXCEPT !.progname = IF argv = <<>> THEN @ ELSE argv[1]]
      /\ call' = [argv |-> argv, i |-> 1]
      /\ UNCHANGED <<opts, vals, returned, exited>>
  BY DEF adc_argp_parse
<1>2. opts \in Seq(Option) /\ argv \in Seq(Word)
  BY ArgpAssumption DEF IInv, TypeOK
<1>3. call' \in Call /\ call'.argv = argv /\ call'.i = 1
  BY <1>1, <1>2 DEF Call
<1>4. call' # NULL /\ parser' # NULL
  BY <1>3, ArgpAssumption DEF IInv, TypeOK
<1>5. seen' = seen /\ seen = Seen(parser, vals)
  BY <1>1, <1>4 DEF RInv
<1>6. Reports(parser') = Reports(parser)
  <2>1. parser'.errors = parser.errors
    BY <1>1, ParserGood DEF Good, Parser
  <2> QED BY <1>1, <1>4, <2>1 DEF Reports
<1>7. seen.vals = vals /\ seen.reports = Reports(parser)
  BY <1>5 DEF Seen
<1> DEFINE before == Reports(parser)
<1>8. before \in Seq(Word) /\ Len(before) <= MaxErrors
  BY <1>7 DEF RInv
<1> HIDE DEF before
<1>9. Reading(opts, argv, 2, vals, vals, before, before)
  BY <1>2, <1>8, ReadingStarts
<1>10. Reading(opts, call.argv, call.i + 1, seen.vals, vals, seen.reports, Reports(parser))'
  <2>1. call'.i + 1 = 2
    BY <1>3
  <2> QED BY <1>1, <1>3, <1>5, <1>6, <1>7, <1>9, <2>1 DEF before
<1>11. RInv'
  BY <1>1, <1>3, <1>4, <1>5, <1>10 DEF RInv
<1>12. Promise!Give
  BY <1>1, <1>3, <1>4, <1>5 DEF Promise!Give
<1> QED
  BY <1>1, <1>11, <1>12 DEF Promise!Next

LEMMA HelpExits ==
  ASSUME IInv, IInv', RInv, NEW opt \in Option, Help(opt),
         seen' = IF call' = NULL THEN Seen(parser', vals') ELSE seen
  PROVE  RInv' /\ Promise!Next
<1>1. At(opt) /\ opt.valtype = "HELP" /\ exited' = TRUE /\ ~exited /\ call # NULL
      /\ UNCHANGED <<opts, parser, vals, call, returned, seen>>
  BY DEF Help, At
<1>2. opt # NULL
  BY ArgpAssumption
<1>3. /\ call.i + 1 \in Of(opts, call.argv)!InOptionPlace
      /\ Of(opts, call.argv)!Named(call.argv[call.i + 1]) = opt
  BY <1>1, AtMeans
<1>4. Promise!AsksForHelp
  BY <1>1, <1>2, <1>3, PromiseIs DEF Helps
<1>5. call.argv # NULL
  BY <1>1, ArgpAssumption DEF RInv, Call
<1>6. Promise!Exit
  BY <1>1, <1>4, <1>5 DEF Promise!Exit
<1>7. Reports(parser') = Reports(parser)
  BY <1>1
<1>8. RInv'
  BY <1>1, <1>7 DEF RInv
<1> QED
  BY <1>1, <1>6, <1>8 DEF Promise!Next

LEMMA ReturnParses ==
  ASSUME IInv, IInv', RInv, Return,
         seen' = IF call' = NULL THEN Seen(parser', vals') ELSE seen
  PROVE  RInv' /\ Promise!Next
<1> DEFINE s == call.argv
           p == call.i + 1
<1>1. /\ ~exited /\ call # NULL /\ call.i >= Len(s)
      /\ returned' = Len(parser.errors) /\ call' = NULL
      /\ UNCHANGED <<opts, parser, vals, exited>>
      /\ seen' = Seen(parser', vals')
  BY DEF Return
<1>2. /\ parser # NULL /\ Good(parser) /\ opts \in Seq(Option)
      /\ s \in Seq(Word) /\ s # NULL /\ call.i \in Nat
      /\ Reading(opts, s, p, seen.vals, vals, seen.reports, Reports(parser))
  BY <1>1, ParserGood, ArgpAssumption DEF IInv, TypeOK, RInv, Call
<1>3. /\ Reports(parser) \in Seq(Word) /\ Len(Reports(parser)) <= MaxErrors
      /\ Len(Reports(parser)) = Len(parser.errors)
  BY <1>2, ReportsFit
<1>4. seen'.vals = vals' /\ vals' = vals /\ seen'.reports = Reports(parser)
      /\ parser' # NULL
  BY <1>1, <1>2 DEF Seen
<1>5. RInv'
  <2>1. vals' = [v \in Vars |-> vals'[v]]
    BY <1>1 DEF RInv
  <2> QED BY <1>1, <1>3, <1>4, <2>1 DEF RInv
<1>6. /\ Of(opts, s)!InOptionPlace \subseteq 2..Len(s) /\ Len(s) \in Nat
      /\ \A q \in Of(opts, s)!InOptionPlace : q < p
  BY <1>1, <1>2, PlaceIs
<1>7. ~Promise!AsksForHelp
  BY <1>1, <1>2, <1>6, PromiseIs DEF Reading
<1>8. Reports(parser) = LET all == seen.reports \o Promise!Reported({})
                        IN IF Len(all) <= MaxErrors THEN all
                           ELSE SubSeq(all, 1, MaxErrors)
  <2>1. Before(opts, s, p) = Of(opts, s)!ReportedUpTo({})[Len(s)]
    <3>1. ~(p <= Len(s))
      BY <1>1, <1>2, <1>6
    <3> QED BY <3>1 DEF Before
  <2>2. Before(opts, s, p) = Promise!Reported({})
    BY <1>1, <2>1, PromiseIs
  <2> QED BY <1>2, <2>2 DEF Reading, Cut
<1>9. ASSUME NEW v \in Vars
      PROVE  Promise!Spoilt({}, v) \/ vals[v] \in Promise!Gets({}, v)
  <2> DEFINE for == Of(opts, s)!For(v)
             good == Of(opts, s)!GoodFor({}, v)
  <2>1. Told(opts, s, v, p, seen.vals[v], vals[v])
    BY <1>2 DEF Reading
  <2>2. for \subseteq Of(opts, s)!InOptionPlace /\ good \subseteq for
    BY DEF Of!For, Of!GoodFor
  <2>3. good \subseteq 2..Len(s) /\ \A q \in good : q < p
    BY <1>6, <2>2
  <2>4. /\ Promise!For(v) = for /\ Promise!GoodFor({}, v) = good
        /\ \A q : Promise!Gives(q) = Of(opts, s)!Gives(q)
        /\ \A q : Promise!Named(s[q]) = Of(opts, s)!Named(s[q])
    BY <1>1, PromiseIs
  <2>5. CASE \E q \in for \ good :
               /\ q < p /\ Of(opts, s)!Named(s[q]).valtype = "BOOL"
               /\ \A g \in good : g < p => g < q
    BY <1>1, <2>3, <2>4, <2>5 DEF Promise!Spoilt
  <2>6. CASE vals[v] = seen.vals[v] /\ \A q \in good : ~(q < p)
    <3>1. good = {}
      BY <2>3, <2>6
    <3> QED BY <2>4, <2>6, <3>1 DEF Promise!Gets
  <2>7. ASSUME NEW m \in good, vals[v] \in Of(opts, s)!Gives(m),
               \A q \in good : q < p => q <= m
        PROVE  vals[v] \in Promise!Gets({}, v)
    <3> HIDE DEF good
    <3>1. m \in good /\ \A q \in good : q <= m /\ q \in Nat
      BY <1>6, <2>3, <2>7
    <3>2. Promise!Max(good) = m
      BY <3>1 DEF Promise!Max
    <3>3. good # {}
      OBVIOUS
    <3> QED BY <2>4, <2>7, <3>2, <3>3 DEF Promise!Gets
  <2> QED BY <2>1, <2>5, <2>6, <2>7 DEF Told
<1>10. Promise!Returns(returned', Promise!Reported({}))
  <2> DEFINE before == seen.reports
             bad == Promise!Reported({})
             all == before \o bad
             n == Len(parser.errors)
  <2>1. bad \in Seq(Word)
    BY <1>1, <1>2, PromiseIs, UpToIs
  <2>2. before \in Seq(Word) /\ MaxErrors \in Nat /\ MaxErrors > 0
    BY ArgpAssumption DEF RInv
  <2>3. n = Len(IF Len(all) <= MaxErrors THEN all ELSE SubSeq(all, 1, MaxErrors))
    BY <1>3, <1>8
  <2> HIDE DEF before, bad, n
  <2>4. n = 0 => bad = <<>>
    BY <2>1, <2>2, <2>3
  <2>5. before = <<>> /\ Len(bad) <= MaxErrors => n = Len(bad)
    BY <2>1, <2>2, <2>3
  <2> QED BY <1>1, <2>4, <2>5 DEF Promise!Returns, before, bad, n
<1>11. Promise!Parse
  <2> DEFINE taken == {}
  <2>1. taken \in SUBSET Promise!Contested
    OBVIOUS
  <2>2. \A v \in Vars : Promise!Spoilt(taken, v) \/ seen'.vals[v] \in Promise!Gets(taken, v)
    BY <1>4, <1>9
  <2>3. seen'.reports = LET all == seen.reports \o Promise!Reported(taken)
                        IN IF Len(all) <= MaxErrors THEN all
                           ELSE SubSeq(all, 1, MaxErrors)
    BY <1>4, <1>8
  <2>4. Promise!Returns(returned', Promise!Reported(taken))
    BY <1>10
  <2> HIDE DEF taken
  <2>5. call # NULL /\ (IF call = NULL THEN NULL ELSE call.argv) # NULL
    BY <1>1, <1>2
  <2> QED BY <1>1, <1>2, <1>4, <1>7, <2>1, <2>2, <2>3, <2>4, <2>5 DEF Promise!Parse
<1> QED
  BY <1>1, <1>5, <1>11 DEF Promise!Next

LEMMA MCStep ==
  ASSUME IInv, IInv', RInv, MCNext
  PROVE  RInv' /\ (Promise!Next \/ UNCHANGED Promise!vars)
<1>0. Next /\ seen' = IF call' = NULL THEN Seen(parser', vals') ELSE seen
  BY DEF MCNext
<1>1. CASE adc_argp_new_parser
  <2>1. /\ ~exited /\ parser = NULL /\ UNCHANGED <<opts, vals, call, returned, exited>>
        /\ parser' \in {NULL, [progname |-> NULL, errors |-> <<>>]}
    BY <1>1 DEF adc_argp_new_parser
  <2>2. call = NULL /\ call' = NULL
    BY <2>1 DEF IInv, TypeOK
  <2>3. Reports(parser) = <<>> /\ Reports(parser') = <<>>
    BY <2>1 DEF Reports
  <2>4. seen = Seen(parser, vals) /\ seen' = Seen(parser', vals')
    BY <1>0, <2>2 DEF RInv
  <2>5. seen' = seen
    BY <2>1, <2>3, <2>4 DEF Seen
  <2>6. RInv'
    BY <2>1, <2>2, <2>4, <2>5 DEF RInv
  <2>0. ~exited /\ parser = NULL /\ UNCHANGED <<opts, call, returned, exited>>
    BY <2>1
  <2>7. CASE parser' = NULL
    BY <2>0, <2>2, <2>5, <2>6, <2>7 DEF Promise!vars
  <2>8. CASE parser' # NULL
    BY <2>0, <2>2, <2>5, <2>6, <2>8 DEF Promise!Next, Promise!New
  <2> QED BY <2>6, <2>7, <2>8
<1>2. CASE adc_argp_destroy_parser
  <2>1. /\ ~exited /\ parser # NULL /\ call = NULL /\ parser' = NULL
        /\ UNCHANGED <<opts, vals, call, returned, exited>>
    BY <1>2 DEF adc_argp_destroy_parser
  <2>2. seen = Seen(parser, vals) /\ seen' = Seen(parser', vals')
    BY <1>0, <2>1 DEF RInv
  <2>3. seen'.vals = seen.vals /\ seen'.reports = <<>>
    BY <2>1, <2>2 DEF Seen, Reports
  <2>4. RInv'
    <3>1. <<>> \in Seq(Word) /\ Len(<<>>) <= MaxErrors
      BY ArgpAssumption
    <3> QED BY <2>1, <2>2, <2>3, <3>1 DEF RInv
  <2>5. Promise!Destroy
    BY <2>1, <2>3 DEF Promise!Destroy
  <2> QED BY <2>1, <2>4, <2>5 DEF Promise!Next
<1>3. CASE ParseNothing
  <2>1. /\ ~exited /\ parser # NULL /\ call = NULL /\ opts = <<>> /\ returned' = 0
        /\ UNCHANGED <<opts, parser, vals, call, exited>>
    BY <1>3 DEF ParseNothing
  <2>2. seen = Seen(parser, vals) /\ seen' = Seen(parser', vals')
    BY <1>0, <2>1 DEF RInv
  <2>3. seen' = seen
    BY <2>1, <2>2
  <2>4. RInv'
    BY <2>1, <2>2, <2>3 DEF RInv
  <2>5. Promise!ParseNothing
    BY <2>1, <2>3 DEF Promise!ParseNothing
  <2> QED BY <2>1, <2>4, <2>5 DEF Promise!Next
<1>4. ASSUME NEW argv \in Lines[opts], adc_argp_parse(argv)
      PROVE  RInv' /\ Promise!Next
  BY <1>0, <1>4, StartGives
<1>5. CASE Unknown
  <2>1. call # NULL /\ UNCHANGED <<opts, returned, exited>>
    BY <1>5 DEF Unknown, At
  <2>2. seen' = seen
    BY <1>0, <1>5, <2>1, StillParsing DEF Unknown
  <2> QED BY <1>5, <2>1, <2>2, UnknownReads, ReadStutters
<1>6. ASSUME NEW opt \in Opts, Help(opt)
      PROVE  RInv' /\ Promise!Next
  <2>1. opt \in Option
    BY ArgpAssumption DEF Opts, IInv, TypeOK
  <2> QED BY <1>0, <1>6, <2>1, HelpExits
<1>7. ASSUME NEW opt \in Opts, Flag(opt) \/ Missing(opt) \/ Given(opt)
      PROVE  RInv' /\ UNCHANGED Promise!vars
  <2>1. opt \in Option
    BY ArgpAssumption DEF Opts, IInv, TypeOK
  <2>2. call # NULL /\ UNCHANGED <<opts, returned, exited>> /\ (Move(1) \/ Move(2))
    BY <1>7 DEF Flag, Missing, Given, At
  <2>3. seen' = seen
    BY <1>0, <2>2, StillParsing
  <2>4. RInv' /\ call' # NULL /\ call'.argv = call.argv
    BY <1>7, <2>1, <2>3, FlagReads, MissingReads, GivenReads
  <2> QED BY <2>2, <2>3, <2>4, ReadStutters
<1>8. CASE Return
  BY <1>0, <1>8, ReturnParses
<1> QED
  BY <1>0, <1>1, <1>2, <1>3, <1>4, <1>5, <1>6, <1>7, <1>8 DEF Next, ParseStep

LEMMA MCStart == MCInit => IInv /\ RInv /\ Promise!Init
<1> SUFFICES ASSUME MCInit
             PROVE  IInv /\ RInv /\ Promise!Init
  OBVIOUS
<1>1. Init /\ seen = Seen(NULL, Defaults)
  BY DEF MCInit
<1>2. /\ opts \in Tables /\ parser = NULL /\ vals = Defaults /\ call = NULL
      /\ returned = 0 /\ exited = FALSE
  BY <1>1 DEF Init
<1>3. seen.vals = Defaults /\ seen.reports = <<>>
  BY <1>1 DEF Seen, Reports
<1>4. RInv
  <2>1. <<>> \in Seq(Word) /\ Len(<<>>) <= MaxErrors
    BY ArgpAssumption
  <2>2. vals = [v \in Vars |-> vals[v]]
    BY <1>2, ArgpAssumption
  <2> QED BY <1>1, <1>2, <1>3, <2>1, <2>2 DEF RInv
<1>5. Promise!Init
  BY <1>2, <1>3 DEF Promise!Init
<1> QED
  BY <1>1, <1>4, <1>5, IInvInit

\* adc_argp_parse, which goes through argv word by word, shows its caller what
\* the whole line means, as if it had been read at once: the variables, the
\* errors there was room for since the parser was made, and a return value
\* that is 0 only for a line without errors, and their number on a new parser.
THEOREM ParserImplementsCommandLine == MCSpec => ParserSpec
<1>1. MCInit => IInv /\ RInv /\ Promise!Init
  BY MCStart
<1>2. IInv /\ RInv /\ [MCNext]_mcvars => IInv' /\ RInv' /\ [Promise!Next]_(Promise!vars)
  <2>1. CASE UNCHANGED mcvars
    <3>1. IInv => IInv'
      BY <2>1, IInvNext DEF mcvars, vars
    <3>2. RInv => RInv'
      BY <2>1 DEF mcvars, RInv
    <3>3. UNCHANGED Promise!vars
      BY <2>1 DEF mcvars, Promise!vars
    <3> QED BY <3>1, <3>2, <3>3
  <2>2. ASSUME IInv, RInv, MCNext
        PROVE  IInv' /\ RInv' /\ [Promise!Next]_(Promise!vars)
    <3>1. IInv'
      BY <2>2, IInvNext DEF MCNext
    <3> QED BY <2>2, <3>1, MCStep
  <2> QED BY <2>1, <2>2
<1>3. MCSpec => []IInv /\ []RInv
  BY <1>1, <1>2, PTL DEF MCSpec
<1> QED
  BY <1>1, <1>2, <1>3, PTL DEF MCSpec, ParserSpec, Promise!Spec
=============================================================================
