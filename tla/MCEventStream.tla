--------------------------- MODULE MCEventStream ---------------------------
EXTENDS EventStream, TLC

\* Entries that are no callbacks are interchangeable.
Symmetry == Permutations(Entries \ Callbacks)

=============================================================================
