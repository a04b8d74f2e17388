---------------------------- MODULE GreedyDecode ----------------------------
(***************************************************************************)
(* What decoding promises: from a prompt, the tokens shown are those the   *)
(* target model says one after the other, up to MaxNew of them or to an    *)
(* end-of-text token, which is not shown.  The loop of                     *)
(* Coordinator.generate_stream, engine/coordinator.py, without its mesh.   *)
(***************************************************************************)
EXTENDS Naturals, Sequences

CONSTANTS
  Token,      \* the vocabulary
  Eos,        \* end-of-text tokens
  Argmax(_),  \* the token the target model says after a history
  Prompt,     \* prompts, as sequences of tokens
  MaxNew      \* tokens to show at most (n_new)

VARIABLES
  prompt,  \* the prompt
  text,    \* the prompt and the tokens shown so far
  done     \* the stream has ended

vars == <<prompt, text, done>>

Init ==
  /\ prompt \in Prompt
  /\ text = prompt
  /\ done = FALSE

Full == Len(text) >= Len(prompt) + MaxNew

Show ==
  /\ ~done /\ ~Full
  /\ Argmax(text) \notin Eos
  /\ text' = Append(text, Argmax(text))
  /\ UNCHANGED <<prompt, done>>

End ==
  /\ ~done
  /\ Full \/ Argmax(text) \in Eos
  /\ done' = TRUE
  /\ UNCHANGED <<prompt, text>>

Next == Show \/ End

Spec == Init /\ [][Next]_vars

=============================================================================
