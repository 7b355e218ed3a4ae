SPECIFICATION Spec
CONSTANTS
  w1 = w1
  w2 = w2
  t1 = t1
  t2 = t2
  t3 = t3
  Owner = owner
  Nothing = nothing
  Workers = {w1, w2}
  Tasks = {t1, t2, t3}
  Children = {t3}
INVARIANT EachOnce
PROPERTY Returns
CHECK_DEADLOCK FALSE
