-------------------------- MODULE MCStaticPipeline --------------------------
(***************************************************************************)
(* Three requests over two stages, for TLC: one the model ends at once and *)
(* would go on with after its end-of-text token, one of a single token and *)
(* one of two.                                                             *)
(***************************************************************************)
EXTENDS StaticPipeline, TLC

CONSTANTS r1, r2, r3

Vocabulary == 0 .. 2

Target(h) == (h[1] + 2 * Len(h) + h[Len(h)]) % 3

Prompts == (r1 :> <<0>>) @@ (r2 :> <<1>>) @@ (r3 :> <<1, 1>>)

Caps == (r1 :> 2) @@ (r2 :> 1) @@ (r3 :> 2)

In(mode, n, faults) ==
  [mode |-> mode, lanes |-> IF mode = "gate" THEN n ELSE 1,
   maxBatch |-> IF mode = "gate" THEN 1 ELSE n, faults |-> faults]

Serving == {In("batch", 2, f) : f \in {{}, {"die"}, {"hang"}}}
      \cup {In("gate", 2, f) : f \in {{}, {"die"}, {"leave"}}}
      \cup {In("gate", 1, {"die", "hang"})}

=============================================================================
