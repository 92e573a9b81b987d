-------------------------- MODULE MCChatExecution --------------------------
\* Three chat requests: alone, in frontier batches, and mixed.
EXTENDS ChatExecution, TLC
CONSTANTS r1, r2, r3
Kind(a, b, c) == (r1 :> a) @@ (r2 :> b) @@ (r3 :> c)
MCKinds == {Kind("stream", "stream", "absent"), Kind("complete", "stream", "absent"),
            Kind("bstream", "stream", "absent"), Kind("bstream", "bstream", "absent"),
            Kind("bcomplete", "bcomplete", "bcomplete")}
=============================================================================
