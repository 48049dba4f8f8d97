--------------------------- MODULE MCSequenceItems ---------------------------
EXTENDS SequenceItems, TLC

CONSTANTS x, y   \* columns

\* Enough to tell the order, with columns that are equal among them.
AllColumns == {x, y}
Inserts    == <<x, y, x, y>>

\* The sequences may be renamed; no property is about time.
Alike == Permutations(Seqs)
=============================================================================
