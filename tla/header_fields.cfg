\* Every type of database, and headers with each part out of range.
CONSTANTS
  WordMod = 100000
  Headers <- MCHeaders
  Masks <- MCMasks
SPECIFICATION Spec
INVARIANTS TypeOK AcceptedFits FieldsInRow AnswersAgree NothingLeftOut
CHECK_DEADLOCK FALSE
