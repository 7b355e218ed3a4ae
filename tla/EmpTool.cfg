SPECIFICATION Spec
CONSTANTS
  Width = 8
  DiagBits = 3
  Ratio = 2
  KTop = 2
  MaxRows = 18
  Bs = 3
  Draws = {0, 1, 2, 3}
  RandomUsers = {1, 2, 3, 4, 5, 6}
  RandomMatrices = {1, 2}
  Examples = {"password", "aspirin", "matrix_vector_multiply"}
  Sizes = {1, 2, 3, 4}
  MixedSizes = {1, 2, 4}
  Tables = {"merge_sorted", "password", "aspirin"}
  TableSizes = {1, 2}
  Ids = {1, 2, 3, 4}
INVARIANTS SameFeeds MatchesExpected AnswersQuery
