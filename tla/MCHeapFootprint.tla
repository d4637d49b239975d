--------------------------- MODULE MCHeapFootprint ---------------------------
EXTENDS HeapFootprint

CONSTANTS t1, t2

\* new int[2], new int[1][1], new int[0][1], new int[1][1][1] and
\* new int[-1][1]: one, two and three levels, an empty level, and a
\* dimension that throws.
MCDimChoices == {<<2>>, <<1, 1>>, <<0, 1>>, <<1, 1, 1>>, <<-1, 1>>}
=============================================================================
