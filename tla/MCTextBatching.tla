--------------------------- MODULE MCTextBatching ---------------------------
\* Three requests that share pages; the first prompt repeats a chunk.
EXTENDS TextBatching, TLC
CONSTANTS r1, r2, r3, m1
MCModelOf   == (r1 :> m1) @@ (r2 :> m1) @@ (r3 :> m1)
MCPrompt    == (r1 :> <<1, 1, 1, 1>>) @@ (r2 :> <<1, 1, 2>>) @@ (r3 :> <<2, 3>>)
MCMaxTokens == (r1 :> 2) @@ (r2 :> 1) @@ (r3 :> 2)
MCKinds     == {(r1 :> "generate") @@ (r2 :> "generate") @@ (r3 :> "generate"),
                (r1 :> "stream") @@ (r2 :> "stream") @@ (r3 :> "direct"),
                (r1 :> "batch") @@ (r2 :> "batch") @@ (r3 :> "generate"),
                (r1 :> "generate") @@ (r2 :> "generate") @@ (r3 :> "direct")}
\* Only in the last mix do the first two ask for different temperatures.
MCTemperatureIn == [k \in MCKinds |->
    [r \in Requests |-> IF k[r1] = "generate" /\ k[r3] = "direct" /\ r = r2 THEN 2 ELSE 1]]
MCLaneOf    == (r1 :> "prefill") @@ (r2 :> "decode") @@ (r3 :> "prefill")
=============================================================================
