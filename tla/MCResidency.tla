---------------------------- MODULE MCResidency ----------------------------
\* The residency manager on small sets of keys, users and administrators.
EXTENDS Residency, TLC

\* Users are interchangeable; so are administrators.
Symmetry == Permutations(Users) \cup Permutations(Admins)
=============================================================================
