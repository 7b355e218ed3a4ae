SPECIFICATION Spec
CONSTANTS
  Keys = {0, 1, 2, 3}
  SortSizes = {}
  MergeSizes = {2, 4, 6, 8}
INVARIANT MergeSorts
