--------------------------- MODULE MCBestCandidate ---------------------------
(* Two identities, shortlists of two entries, the default thresholds.      *)
EXTENDS BestCandidate, TLC

\* A negative similarity, the name threshold, a face between the partial and the
\* match threshold, one between the match and the duplicate threshold, the
\* duplicate threshold, and identity.
MCScoreValues == {-100, 7000, 7900, 8100, 8200, 10000}

Symmetry == Permutations(Ids)
=============================================================================
