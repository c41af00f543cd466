\* Two threads share the cache, as in SuperServer.
CONSTANTS
  Pages = {a, b, c}
  Workers = {v, w}
  Ast = ast
  Nobody = Nobody
  Exclusive = TRUE
  PRE_SEARCH_LIMIT = 4
  MaxChanges = 4
  MaxRequests = 0
SPECIFICATION Spec
SYMMETRY Symmetry
INVARIANTS
  CarefulWrite
