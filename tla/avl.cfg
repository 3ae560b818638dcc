SPECIFICATION Spec
CONSTANTS
  Node <- SixNodes
  Value <- OneToFour
  Percentiles <- Fractions
  Null = Null
  n1 = n1
  n2 = n2
  n3 = n3
  n4 = n4
  n5 = n5
  n6 = n6
SYMMETRY Symmetry
INVARIANTS
  WellFormed
  QueriesExact
PROPERTIES
  ImplementsBag
