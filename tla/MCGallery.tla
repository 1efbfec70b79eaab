----------------------------- MODULE MCGallery -----------------------------
EXTENDS Gallery, TLC

\* The servers are alike.
Alike == Permutations(Hosts)
=============================================================================
