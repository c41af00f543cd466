\* One worker and the AST thread: a process of Classic.
CONSTANTS
  Pages = {a,b}
  Workers = {w}
  Ast = ast
  Nobody = Nobody
  Exclusive = FALSE
  PRE_SEARCH_LIMIT = 2
  MaxChanges = 3
  MaxRequests = 1
SPECIFICATION Spec
SYMMETRY Symmetry
INVARIANTS
  TypeOK
  CarefulWrite
  CleanOnDisk
  DirtyLocked
  Acyclic
  NeverForgotten
