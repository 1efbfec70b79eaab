----------------------------- MODULE MCReview -----------------------------
EXTENDS Review, TLC

\* Elements are alike, and so are captures.
Alike == Permutations(Elements) \cup Permutations(Crops)
=============================================================================
