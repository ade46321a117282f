--------------------------- MODULE MCSafetyInterlock ---------------------------
EXTENDS SafetyInterlock, TLC

\* Invocations are interchangeable, and so are request files.
Symmetry == Permutations(Runs) \cup Permutations(Resolvers) \cup Permutations(Requests)
=============================================================================
