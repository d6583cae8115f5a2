----------------------------- MODULE MCLiveCheck -----------------------------
\* Model-checking instance of LiveCheck.
EXTENDS LiveCheck, TLC

Alike == Permutations(Namespaces) \cup Permutations(Sessions)

AtMostOneFile == {WithParents(files) : files \in {fs \in SUBSET Files : Cardinality(fs) <= 1}}
=============================================================================
