----------------------------- MODULE SpecDecode -----------------------------
(***************************************************************************)
(* Speculative decoding: the linear loop of engine/specdecode.py, which    *)
(* Coordinator.generate_speculative_stream runs, and the tree loop of      *)
(* Coordinator.generate_tree_stream.  Per round a draft proposes a line of *)
(* K tokens, or a tree of tokens; the target verifies them in one pass;    *)
(* the line, or the branch, it agrees with is committed along with its own *)
(* next token, and the KV is cut back to what was committed.               *)
(*                                                                         *)
(* The draft is any line or tree: it may be wrong everywhere.  A KV is the *)
(* sequence of tokens it was fed, and what the target says at a position   *)
(* is Argmax of the tokens in its KV that the position attends to.  Losing *)
(* a KV is the subject of module PipelineSession.  A closed stream just    *)
(* stops.                                                                  *)
(***************************************************************************)
EXTENDS Naturals, Sequences

CONSTANTS
  Token,      \* the vocabulary
  Eos,        \* end-of-text tokens
  Argmax(_),  \* the token the target model says after a history
  Prompt,     \* prompts, as sequences of tokens
  MaxNew,     \* tokens to show at most (n_new)
  K,          \* drafted tokens per round, in a line
  TreeSize    \* drafted tokens per round at most, in a tree

ASSUME SpecDecodeAssumption ==
  /\ Prompt \subseteq Seq(Token) \ {<<>>}
  /\ MaxNew \in Nat \ {0}
  /\ K \in Nat /\ TreeSize \in Nat

\* The theorems assume this of the target; Seq(Token) is beyond TLC.
TargetSpeaks == \A h \in Seq(Token) : Argmax(h) \in Token

VARIABLES
  decoder, \* "linear" or "tree"
  prompt,  \* the prompt
  text,    \* the prompt and the tokens committed so far
  shown,   \* how much of text has been shown
  kv,      \* the target's KV
  draftKv, \* the draft's KV; a tree is drafted from a fresh one each round
  drafts,  \* the tokens proposed in this round
  parent,  \* of a tree: the draft each draft follows, 0 for the head
  phase    \* "prefill", "show", "verify" or "done"

vars == <<decoder, prompt, text, shown, kv, draftKv, drafts, parent, phase>>

Init ==
  /\ decoder \in {"linear", "tree"}
  /\ prompt \in Prompt
  /\ text = prompt
  /\ shown = Len(prompt)
  /\ kv = <<>> /\ draftKv = <<>> /\ drafts = <<>> /\ parent = <<>>
  /\ phase = "prefill"

\* Fault: the limit is checked too late.
FullLate == shown > Len(prompt) + MaxNew

Full == shown >= Len(prompt) + MaxNew

\* The last committed token heads the next round and is in no KV yet.
Fed == SubSeq(text, 1, Len(text) - 1)

Head0 == text[Len(text)]

(***************************************************************************)
(* The prompt's pass gives the first token.                                *)
(***************************************************************************)
Prefill ==
  /\ phase = "prefill"
  /\ kv' = prompt
  /\ draftKv' = IF decoder = "linear" THEN prompt ELSE draftKv
  /\ IF Argmax(prompt) \in Eos
     THEN phase' = "done" /\ UNCHANGED <<text, shown>>
     ELSE /\ phase' = "show"
          /\ text' = Append(prompt, Argmax(prompt))
          /\ shown' = Len(prompt) + 1
  /\ UNCHANGED <<decoder, prompt, drafts, parent>>

(***************************************************************************)
(* Committed tokens are shown one by one.                                  *)
(***************************************************************************)
Show ==
  /\ phase = "show" /\ shown < Len(text)
  /\ ~Full /\ text[shown + 1] \notin Eos
  /\ shown' = shown + 1
  /\ UNCHANGED <<decoder, prompt, text, kv, draftKv, drafts, parent, phase>>

End ==
  /\ phase = "show"
  /\ \/ Full
     \/ shown < Len(text) /\ text[shown + 1] \in Eos
  /\ phase' = "done"
  /\ UNCHANGED <<decoder, prompt, text, shown, kv, draftKv, drafts, parent>>

(***************************************************************************)
(* GreedyDraft.propose and the verification pass: both KVs take the head   *)
(* and the K drafts.                                                       *)
(***************************************************************************)
Propose(d) ==
  /\ decoder = "linear"
  /\ phase = "show" /\ shown = Len(text) /\ ~Full
  /\ drafts' = d
  /\ kv' = Append(kv, Head0) \o d
  /\ draftKv' = Append(draftKv, Head0) \o d
  /\ phase' = "verify"
  /\ UNCHANGED <<decoder, prompt, text, shown, parent>>

\* What the target says after the head and the first j drafts.
Says(j) == Argmax(SubSeq(kv, 1, Len(text) + j))

\* Fault: a later draft may be accepted over a rejected one.
AcceptsLast(m) == m > 0 => Says(m - 1) = drafts[m]

\* The first m drafts are exactly those accepted.
Accepts(m) ==
  /\ \A j \in 1 .. m : Says(j - 1) = drafts[j]
  /\ m < K => Says(m) # drafts[m + 1]

\* Fault: the correction is not committed.
CommitDraftsOnly(m) == text' = text \o SubSeq(drafts, 1, m)

Commit(m) == text' = text \o Append(SubSeq(drafts, 1, m), Says(m))

\* Fault: only the target is rolled back.
RollBackTarget(length) ==
  /\ kv' = SubSeq(kv, 1, length)
  /\ UNCHANGED draftKv

RollBack(length) ==
  /\ kv' = SubSeq(kv, 1, length)
  /\ draftKv' = SubSeq(draftKv, 1, length)

Verify(m) ==
  /\ decoder = "linear" /\ phase = "verify"
  /\ Accepts(m)
  /\ Commit(m)
  /\ RollBack(Len(text) + m)
  /\ drafts' = <<>>
  /\ phase' = "show"
  /\ UNCHANGED <<decoder, prompt, shown, parent>>

(***************************************************************************)
(* A round of tree drafting: the target's KV takes the head and all nodes  *)
(* of the tree in the order they were drafted.                             *)
(***************************************************************************)
\* Every node follows the head or an earlier node, and no two nodes that
\* follow the same one are the same token.
IsTree(d, up) ==
  /\ \A i \in DOMAIN d : up[i] \in 0 .. i - 1
  /\ \A i, j \in DOMAIN d : up[i] = up[j] /\ d[i] = d[j] => i = j

Grow(d, up) ==
  /\ decoder = "tree"
  /\ phase = "show" /\ shown = Len(text) /\ ~Full
  /\ IsTree(d, up)
  /\ drafts' = d /\ parent' = up
  /\ kv' = Append(kv, Head0) \o d
  /\ phase' = "verify"
  /\ UNCHANGED <<decoder, prompt, text, shown, draftKv>>

\* A branch is the sequence of its nodes, from a child of the head on.
IsBranch(p) ==
  \A j \in DOMAIN p : parent[p[j]] = IF j = 1 THEN 0 ELSE p[j - 1]

\* What the KV holds for the nodes of a branch.
Branch(p) == [j \in 1 .. Len(p) |-> kv[Len(text) + p[j]]]

\* The tree mask: a node attends to the prefix, the head and its ancestors.
SaysAfter(p) == Argmax(SubSeq(kv, 1, Len(text)) \o Branch(p))

\* Fault: only the last node of the branch is compared.
AcceptsTip(p) ==
  LET n == Len(p)
  IN  n > 0 => drafts[p[n]] = SaysAfter(SubSeq(p, 1, n - 1))

\* The branch follows what the target says as far as the tree goes.
AcceptsBranch(p) ==
  /\ \A j \in 1 .. Len(p) : drafts[p[j]] = SaysAfter(SubSeq(p, 1, j - 1))
  /\ \A i \in DOMAIN drafts :
       parent[i] = (IF p = <<>> THEN 0 ELSE p[Len(p)]) => drafts[i] # SaysAfter(p)

\* Fault: the KV is cut to the right length, whichever nodes were accepted.
KeepFront(p) == kv' = SubSeq(kv, 1, Len(text) + Len(p))

KeepBranch(p) == kv' = SubSeq(kv, 1, Len(text)) \o Branch(p)

VerifyTree(p) ==
  /\ decoder = "tree" /\ phase = "verify"
  /\ IsBranch(p) /\ AcceptsBranch(p)
  /\ text' = text \o Append([j \in 1 .. Len(p) |-> drafts[p[j]]], SaysAfter(p))
  /\ KeepBranch(p)
  /\ drafts' = <<>> /\ parent' = <<>>
  /\ phase' = "show"
  /\ UNCHANGED <<decoder, prompt, shown, draftKv>>

-----------------------------------------------------------------------------
Linear ==
  \/ \E d \in [1 .. K -> Token] : Propose(d)
  \/ \E m \in 0 .. K : Verify(m)

Tree ==
  \/ \E n \in 0 .. TreeSize :
       \E d \in [1 .. n -> Token], up \in [1 .. n -> 0 .. n] : Grow(d, up)
  \/ \E n \in 0 .. Len(drafts) : \E p \in [1 .. n -> DOMAIN drafts] : VerifyTree(p)

Next == Prefill \/ Show \/ End \/ Linear \/ Tree

Spec == Init /\ [][Next]_vars

\* The loop runs as long as its consumer asks for the next token.
FairSpec == Spec /\ WF_vars(Next)

-----------------------------------------------------------------------------
(***************************************************************************)
(* Properties.                                                             *)
(***************************************************************************)
TypeOK ==
  /\ decoder \in {"linear", "tree"}
  /\ prompt \in Prompt
  /\ text \in Seq(Token) /\ kv \in Seq(Token) /\ draftKv \in Seq(Token)
  /\ shown \in Nat /\ shown <= Len(prompt) + MaxNew
  /\ drafts \in Seq(Token) /\ parent \in Seq(Nat)
  /\ phase \in {"prefill", "show", "verify", "done"}

Greedy == INSTANCE GreedyDecode
            WITH text <- SubSeq(text, 1, shown), done <- phase = "done"

\* coordinator.py:1179: "Output is token-identical to greedy; the draft only
\* affects speed".  Every step shows what greedy decoding would show next,
\* whatever the draft proposed, or nothing.
IsGreedy == Greedy!Spec

\* Between rounds the target's KV holds all committed tokens but the last, in
\* their order, and so does a draft that keeps one, which asserts it before
\* it proposes (specdecode.py:152-154, 227; kv.py:64-85).
KvsInStep ==
  phase = "show" => kv = Fed /\ (decoder = "linear" => draftKv = Fed)

\* A stream that is read to the end ends: every round commits a token, even
\* if the draft is always wrong (specdecode.py:137-162,
\* coordinator.py:911-935).
Terminates == <>(phase = "done")

=============================================================================
