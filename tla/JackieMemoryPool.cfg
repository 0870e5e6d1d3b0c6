CONSTANTS
  Page = {p1, p2, p3, p4}
  NoPage = NoPage
  CELLS_SIZE_PER_PAGE = 3
  MAX_FREE_PAGES = 1
SYMMETRY PageSymmetry
SPECIFICATION Spec
INVARIANTS
  CellsAccounted
  RingsExact
  SparePagesBounded
PROPERTY ImplementsPool
