-------------------------- MODULE MCPipelineSession --------------------------
(***************************************************************************)
(* Small pipelines for TLC: two stages, the first of them replicated,      *)
(* prompts that share a prefix or extend each other, and the settings each *)
(* run explores.                                                           *)
(***************************************************************************)
EXTENDS PipelineSession, TLC

CONSTANTS h1, h2, h3

FirstReplicated == (h1 :> 0) @@ (h2 :> 0) @@ (h3 :> 1)

SingleHolder == (h1 :> 0)

\* The replicas of the first stage serve alike, and so do session ids.
Interchangeable == Permutations({h1, h2}) \cup Permutations(Session)

OnePrompt == {<<"sys">>}

LongPrompt == {<<"sys", "ask">>}

RelatedPrompts == {<<"sys", "ask">>, <<"sys", "ask", "more">>, <<"sys", "other">>}

In(chained, kinds, prompts, maxNew, faults) ==
  [chained |-> chained, kinds |-> kinds, prompts |-> prompts, maxNew |-> maxNew,
   faults |-> faults]

\* Greedy requests over a star under crashes and holders that answer too late,
\* and under lost sockets and replies; over a chain that keeps its coordinator;
\* speculative ones over a chain that may lose it; reuse and resumption while
\* nobody dies.
Failover == {In(FALSE, {"greedy"}, OnePrompt, 1, {"restart", "refuse", "late"}),
             In(FALSE, {"greedy"}, OnePrompt, 1, {"drop", "refuse"})}
Chained == {In(TRUE, {"greedy"}, OnePrompt, 1, {"restart", "break", "refuse"}),
            In(TRUE, {"draft"}, OnePrompt, 1, {"drop"})}
Reusing == {In(FALSE, {"draft", "keep", "resume"}, RelatedPrompts, 2, {"replace"})}

Pipelines == Failover \cup Chained \cup Reusing

Ending == {In(FALSE, {"greedy", "draft"}, LongPrompt, 1,
              {"restart", "drop", "refuse", "expire", "die"}),
           In(FALSE, {"greedy"}, LongPrompt, 1, {"restart", "drop", "expire", "leave"})}

Rehoming == {In(FALSE, {"keep", "resume"}, OnePrompt, 1, {"restart", "replace"})}

\* Speculation over a chain, where nothing fails.
RollingBack == {In(TRUE, {"draft"}, OnePrompt, 2, {})}

\* Settings for a look at what else goes wrong (README, "Beyond the runs"):
\* DraftingIsExact fails in the first two, GreedyIsExact in the third.
Refusing == {In(FALSE, {"draft"}, OnePrompt, 2, {"drop", "refuse"})}
Leaving == {In(FALSE, {"draft"}, RelatedPrompts, 2, {"leave"})}
Deserting == {In(TRUE, {"greedy"}, OnePrompt, 1, {"drop"})}

=============================================================================
