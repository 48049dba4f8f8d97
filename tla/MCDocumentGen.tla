--------------------------- MODULE MCDocumentGen ---------------------------
EXTENDS DocumentGen

\* All trees of up to max nodes, built by one node at a time, with suffixes of
\* as many digits as the set digits has.
TreesOf(max, kinds, digits) ==
  LET roots == {<<[kind |-> "NODE", parent |-> 0, oid |-> w]>> : w \in digits}
      more(t) == {Append(t, [kind |-> k, parent |-> p, oid |-> t[p].oid + 1 + w]) :
                    k \in kinds, p \in 1..Len(t), w \in digits}
      longer(ts) == {u \in UNION {more(t) : t \in ts} : IsTree(u)}
      upTo[n \in 1..max] ==
        IF n = 1 THEN roots
        ELSE upTo[n - 1] \cup longer({t \in upTo[n - 1] : Len(t) = n - 1})
  IN  upTo[max]

\* Rows and sections, and sections with long suffixes.
AllTrees == TreesOf(6, {"NODE", "TABLE", "ENTRY", "LEAF"}, {1})
              \cup TreesOf(4, {"NODE", "TABLE"}, {1, 2})
=============================================================================
