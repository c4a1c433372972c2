CONSTANTS
  Writer = {w1, w2}
  Main = Main
  Entry = {e1, e2, e3}
  NoEntry = NoEntry
  MaxTries = 2
SPECIFICATION Spec
INVARIANTS NoSilentLoss OneReportId WritesInsideReport
CHECK_DEADLOCK FALSE
