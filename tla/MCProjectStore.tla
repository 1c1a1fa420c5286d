--------------------------- MODULE MCProjectStore ----------------------------
(* Three slugs, enough for a grandparent, and two requests at a time. The  *)
(* runs check only safety, so slugs and requests may be interchanged.      *)
EXTENDS ProjectStore, TLC

Symmetry == Permutations(Slugs) \cup Permutations(Writers)
=============================================================================
