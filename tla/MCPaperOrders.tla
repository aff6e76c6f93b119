---------------------------- MODULE MCPaperOrders ----------------------------
\* Two commands at a time, two intention ids, room for a second order.
EXTENDS PaperOrders, TLC

Symmetry == Permutations(Processes) \union Permutations(Intents)
=============================================================================
