SPECIFICATION Spec
CONSTANTS
  Width = 8
  DiagBits = 3
  Ratio = 2
  KTop = 2
  MaxRows = 18
  Bs = 4
  Draws = {}
  RandomUsers = {}
  RandomMatrices = {}
  Examples = {"comorbidity"}
  Sizes = {6}
  MixedSizes = {}
  Tables = {}
  TableSizes = {}
  Ids = {}
INVARIANT MatchesExpected
