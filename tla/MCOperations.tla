---------------------------- MODULE MCOperations ----------------------------
\* Drain operations and the residency manager on small sets.
EXTENDS Operations
=============================================================================
