--------------------------- MODULE MCCancellation ---------------------------
\* Cancellation handles on small sets.
EXTENDS Cancellation
=============================================================================
