SPECIFICATION Spec
CONSTANT N = 5
INVARIANTS
  TypeOK
  Coherent
PROPERTY ImplementsFreeQueue
