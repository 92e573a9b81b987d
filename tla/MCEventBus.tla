---------------------------- MODULE MCEventBus ----------------------------
\* The event bus with a buffer smaller than the number of events published.
EXTENDS EventBus, TLC

\* Clients are interchangeable; so are topics.
Symmetry == Permutations(Clients) \cup Permutations(Topics)
=============================================================================
