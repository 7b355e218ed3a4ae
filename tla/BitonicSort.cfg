SPECIFICATION Spec
CONSTANTS
  Keys = {0, 1}
  SortSizes = {0, 1, 2, 3, 4, 5, 6, 7, 8, 9}
  MergeSizes = {1, 2, 4, 8, 16}
INVARIANTS TypeOK Sorts MergeSorts RowsWhole
