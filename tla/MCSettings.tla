----------------------------- MODULE MCSettings -----------------------------
\* Three names, two of them seeded, two requests at a time, four row ids.
EXTENDS Settings, TLC

Symmetry == Permutations(Uuids) \cup Permutations(Workers)
=============================================================================
