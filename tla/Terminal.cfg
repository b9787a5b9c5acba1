SPECIFICATION Spec
CONSTANTS
  n1 = n1
  n2 = n2
  empty = empty
  words = words
  wordsLine = wordsLine
  Notes = {n1, n2}
  Texts = {empty, words, wordsLine}
  Canonical <- CanonicalValue
  Nothing = Nothing
  MaxRevision = 1
  Clicks = {"trash", "row", "task"}
SYMMETRY Symmetry
PROPERTIES DraftOnItsNote TextKept NothingUnseen
