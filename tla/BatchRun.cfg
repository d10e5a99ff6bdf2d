SPECIFICATION LiveSpec
CONSTANTS
  s = s
  c1 = c1
  c2 = c2
  vol1 = vol1
  vol2 = vol2
  None = None
  SaveErrors = FALSE
  Tasks = {s, c1, c2}
  Summary = s
  SubOf <- MCSubOf
  Label <- MCLabel
  PlainItems <- MCPlainItems
INVARIANTS BatchInv SummaryTellsTruth
PROPERTIES NoItemAfterCancel CancelledSummaryEnds
CHECK_DEADLOCK FALSE
