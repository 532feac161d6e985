---------------------------- MODULE MCResolution ----------------------------
EXTENDS DependencyResolution

\* Applications are numbers here, and list up to two others, themselves or one twice.
SmallCatalogues ==
  LET pairs == {pair \in Apps \X Apps : pair[1] <= pair[2]}
  IN  [Apps -> {<<>>} \cup {<<d>> : d \in Apps} \cup pairs]
=============================================================================
