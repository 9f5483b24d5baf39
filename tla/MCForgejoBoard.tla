--------------------------- MODULE MCForgejoBoard ---------------------------
(* Small instances of ForgejoBoard.                                        *)
EXTENDS ForgejoBoard, TLC
CONSTANTS c1, c2
Symmetry == Permutations(Clients)
============================================================================
