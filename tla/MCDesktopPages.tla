--------------------------- MODULE MCDesktopPages ---------------------------
\* Two cost groups; the first holds two of the candidates.
EXTENDS DesktopPages, TLC

CONSTANTS c1, c2, c3, g1, g2
Grouped == (c1 :> g1) @@ (c2 :> g1) @@ (c3 :> g2)
=============================================================================
