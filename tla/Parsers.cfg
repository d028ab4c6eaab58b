SPECIFICATION Spec
INVARIANTS
  TypeOK
  Agree
  ActionsAgree
  MarksFit
  FinishedAtDone
\* Parsing ends: at an error, at the end of a head, at the end of a string.
CHECK_DEADLOCK FALSE
