------------------------------- MODULE MCRst -------------------------------
\* RstSections with characters that no definition tells apart.
EXTENDS RstSections, TLC

CharSymmetry == Permutations(Chars)
=============================================================================
