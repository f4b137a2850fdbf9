SPECIFICATION Spec
CONSTANTS
  Requests <- Everything
  BodyLimit = 2
  MaxName = 2
INVARIANTS MsbReadsTheRequest TerminatorHolds ClaimsAreTheMounts ShownAsAsked
