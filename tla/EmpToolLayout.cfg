SPECIFICATION Spec
CONSTANTS
  Width = 8
  DiagBits = 3
  Ratio = 2
  KTop = 2
  MaxRows = 18
  Bs = 4
  Draws = {}
  RandomUsers = {}
  RandomMatrices = {}
  Examples = {"merge_sorted", "full_sort", "loop_join"}
  Sizes = {1}
  MixedSizes = {}
  Tables = {}
  TableSizes = {}
  Ids = {}
INVARIANT MatchesExpected
