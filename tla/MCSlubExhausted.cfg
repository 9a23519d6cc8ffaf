SPECIFICATION Spec
CONSTANTS
  c1 = c1  c2 = c2  n1 = n1  n2 = n2  p1 = p1  p2 = p2  p3 = p3  p4 = p4
  CPU = {c1, c2}
  Node = {n1, n2}
  Page = {p1, p2, p3, p4}
  N = 3
  NULL = NULL
  NodeOf <- OneElsewhere
  MinPartial = 1
  Confs <- ExhaustedConfs
INVARIANT TidUnique
SYMMETRY PageSymmetry
