----------------------------- MODULE MCCatalog -----------------------------
EXTENDS Catalog
CONSTANTS none, short, middle, long

MCSoundsIn == [c \in Contents |-> CASE c = none -> 0 [] c = short -> 1 [] c = middle -> 2 [] c = long -> 3]
=============================================================================
