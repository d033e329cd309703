SPECIFICATION MCSpec
CONSTANTS
  Word <- MCWord
  Tables <- MCTables
  Lines <- MCLines
  Vars <- MCVars
  Defaults <- MCDefaults
  Number <- MCNumber
  Minus <- MCMinus
  strtof <- MCstrtof
  strtod <- MCstrtod
  ToFloat <- MCToFloat
  NoNumber = NoNumber
  NULL = NULL
  IntMax = 7
  UintMax = 15
  LongMax = 31
  MaxErrors = 2
PROPERTIES ReturnsItsErrors
\* exit ends the program.
CHECK_DEADLOCK FALSE
