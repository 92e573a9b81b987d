---------------------------- MODULE MCConversion ----------------------------
\* Three calls of submit() for one key: a request, its retry, and a forced one.
EXTENDS Conversion, TLC
CONSTANTS c1, c2, c3
Keyed == [force |-> FALSE, keyed |-> TRUE]
Force == [force |-> TRUE, keyed |-> TRUE]
Ask(x, y, z) == (c1 :> x) @@ (c2 :> y) @@ (c3 :> z)
MCRequests == {Ask(Keyed, Keyed, Force)}
=============================================================================
