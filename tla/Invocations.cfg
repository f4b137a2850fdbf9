SPECIFICATION Spec
CONSTANTS
  Calls <- Everything
  Tokens <- Token
  Placeholders <- Variable
  DefaultURL = "u0"
INVARIANTS DoesAsTold RefusedForAReason GoesWhereNamed SpecSubstituted ExitTellsOutcome
CHECK_DEADLOCK FALSE
