SPECIFICATION Spec
CONSTANTS
  Sessions = {asker}
  Workers = {w1, w2}
  Nothing = Nothing
  MaxFaults = 1
  MaxChanges = 1
  Notes = {n1, n2}
  Texts = {blank, before, after}
  Blank = {blank}
  MaxHits = 1
  Filings <- WhenAllWereAlike
SYMMETRY Symmetry
INVARIANTS NothingLeftBehind PaidForIsFiled
PROPERTIES AnswersKeepUp PaidOnce
CHECK_DEADLOCK FALSE
