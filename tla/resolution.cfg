SPECIFICATION FairSpec
CONSTANTS
  Apps = {1, 2, 3}
  Catalogues <- SmallCatalogues
  ErrorPages = TRUE
  MaxDepth = 4
CHECK_DEADLOCK FALSE
INVARIANTS ResolvesAll ResolvesDirect NoDuplicates StackSuffices
PROPERTIES EndsWithoutCycles
