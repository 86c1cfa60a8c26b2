--------------------------- MODULE MCMemoryCache ----------------------------
EXTENDS MemoryCache, TLC

\* Goroutines and keys are interchangeable; used by the run of safety properties.
Symmetry == Permutations(Clients) \cup Permutations(Keys)
=============================================================================
