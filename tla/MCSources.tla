----------------------------- MODULE MCSources -----------------------------
EXTENDS Sources

\* Page a is the page the file gives source c1; b is another page of that site
\* and d the one page of the second site.
CONSTANTS a, b, d, s1, s2, c1, u2
MCSiteOf == [p \in {a, b, d} |-> IF p = d THEN s2 ELSE s1]
MCKeySite == [k \in Keys |-> IF k = u2 THEN s2 ELSE s1]
MCConfigPages == [k \in {c1} |-> {a}]
=============================================================================
