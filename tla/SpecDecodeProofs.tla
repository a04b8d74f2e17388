-------------------------- MODULE SpecDecodeProofs --------------------------
(***************************************************************************)
(* Speculative decoding is greedy decoding, for every vocabulary, target,  *)
(* prompt, number of drafts and draft, in a line or in a tree.             *)
(***************************************************************************)
EXTENDS SpecDecode, Integers, SequenceTheorems, TLAPS

-----------------------------------------------------------------------------
(***************************************************************************)
(* Prefixes.                                                               *)
(***************************************************************************)
\* A prefix of a sequence, element by element.
LEMMA Prefix ==
  ASSUME NEW S, NEW s \in Seq(S), NEW n \in 0 .. Len(s)
  PROVE  /\ SubSeq(s, 1, n) \in Seq(S)
         /\ Len(SubSeq(s, 1, n)) = n
         /\ \A i \in 1 .. n : SubSeq(s, 1, n)[i] = s[i]
<1>1. \A i \in 1 .. n : s[i] \in S
  BY ElementOfSeq, LenProperties
<1> QED
  BY <1>1, SubSeqProperties, LenProperties

\* A prefix grows by the next element.
LEMMA PrefixGrows ==
  ASSUME NEW S, NEW s \in Seq(S), NEW n \in 0 .. Len(s) - 1
  PROVE  SubSeq(s, 1, n + 1) = Append(SubSeq(s, 1, n), s[n + 1])
<1>1. Len(s) \in Nat
  BY LenProperties
<1> DEFINE p == SubSeq(s, 1, n)
           q == SubSeq(s, 1, n + 1)
<1>2. p \in Seq(S) /\ Len(p) = n /\ \A i \in 1 .. n : p[i] = s[i]
  BY <1>1, Prefix
<1>3. q \in Seq(S) /\ Len(q) = n + 1 /\ \A i \in 1 .. n + 1 : q[i] = s[i]
  BY <1>1, Prefix
<1>4. s[n + 1] \in S
  BY <1>1, ElementOfSeq
<1> HIDE DEF p, q
<1>5. /\ Append(p, s[n + 1]) \in Seq(S)
      /\ Len(Append(p, s[n + 1])) = n + 1
      /\ \A i \in 1 .. n + 1 : Append(p, s[n + 1])[i] = q[i]
  BY <1>2, <1>3, <1>4
<1> QED
  BY <1>3, <1>5, SeqEqual DEF p, q

\* A prefix of the first part of a concatenation is one of the whole.
LEMMA PrefixOfConcat ==
  ASSUME NEW S, NEW s \in Seq(S), NEW t \in Seq(S), NEW n \in 0 .. Len(s)
  PROVE  SubSeq(s \o t, 1, n) = SubSeq(s, 1, n)
<1> DEFINE u == s \o t
<1>1. Len(s) \in Nat /\ Len(t) \in Nat
  BY LenProperties
<1>2. u \in Seq(S) /\ Len(u) = Len(s) + Len(t) /\ \A i \in 1 .. Len(s) : u[i] = s[i]
  BY <1>1, ConcatProperties
<1> HIDE DEF u
<1>3. /\ SubSeq(u, 1, n) \in Seq(S) /\ Len(SubSeq(u, 1, n)) = n
      /\ \A i \in 1 .. n : SubSeq(u, 1, n)[i] = u[i]
  BY <1>1, <1>2, Prefix
<1>4. /\ SubSeq(s, 1, n) \in Seq(S) /\ Len(SubSeq(s, 1, n)) = n
      /\ \A i \in 1 .. n : SubSeq(s, 1, n)[i] = s[i]
  BY Prefix
<1>5. \A i \in 1 .. n : SubSeq(u, 1, n)[i] = SubSeq(s, 1, n)[i]
  BY <1>1, <1>2, <1>3, <1>4
<1> QED
  BY <1>3, <1>4, <1>5, SeqEqual DEF u

\* All but the last element, and the last, are the sequence.
LEMMA FrontAndLast ==
  ASSUME NEW S, NEW s \in Seq(S), s # <<>>
  PROVE  Append(SubSeq(s, 1, Len(s) - 1), s[Len(s)]) = s
<1>1. Len(s) \in Nat \ {0}
  BY EmptySeq
<1> DEFINE n == Len(s) - 1
<1>a. n \in 0 .. Len(s) - 1
  BY <1>1
<1> HIDE DEF n
<1>b. SubSeq(s, 1, n + 1) = Append(SubSeq(s, 1, n), s[n + 1])
  BY <1>a, PrefixGrows
<1>2. SubSeq(s, 1, Len(s) - 1 + 1) = Append(SubSeq(s, 1, Len(s) - 1), s[Len(s) - 1 + 1])
  BY <1>b DEF n
<1>3. Len(s) - 1 + 1 = Len(s)
  BY <1>1
<1> QED
  BY <1>2, <1>3, SubSeqFull

\* The elements of a concatenation with an element put last.
LEMMA ConcatOfAppend ==
  ASSUME NEW S, NEW s \in Seq(S), NEW e \in Seq(S), NEW x \in S
  PROVE  /\ s \o Append(e, x) \in Seq(S)
         /\ Len(s \o Append(e, x)) = Len(s) + Len(e) + 1
         /\ \A i \in 1 .. Len(s) : (s \o Append(e, x))[i] = s[i]
         /\ \A j \in 1 .. Len(e) : (s \o Append(e, x))[Len(s) + j] = e[j]
         /\ (s \o Append(e, x))[Len(s) + Len(e) + 1] = x
<1> DEFINE c == Append(e, x)
           v == s \o c
<1>1. Len(s) \in Nat /\ Len(e) \in Nat
  BY LenProperties
<1>2. /\ c \in Seq(S) /\ Len(c) = Len(e) + 1 /\ c[Len(e) + 1] = x
      /\ \A j \in 1 .. Len(e) : c[j] = e[j]
  OBVIOUS
<1> HIDE DEF c
<1>3. /\ v \in Seq(S) /\ Len(v) = Len(s) + Len(c)
      /\ \A i \in 1 .. Len(s) + Len(c) : v[i] = IF i <= Len(s) THEN s[i] ELSE c[i - Len(s)]
  BY <1>2, ConcatProperties
<1> HIDE DEF v
<1>4. Len(v) = Len(s) + Len(e) + 1
  BY <1>1, <1>2, <1>3
<1>5. \A i \in 1 .. Len(s) : v[i] = s[i]
  BY <1>1, <1>2, <1>3
<1>6. ASSUME NEW j \in 1 .. Len(e) + 1 PROVE v[Len(s) + j] = c[j]
  <2>1. /\ Len(s) + j \in 1 .. Len(s) + Len(c) /\ ~(Len(s) + j <= Len(s))
        /\ Len(s) + j - Len(s) = j
    BY <1>1, <1>2
  <2> QED
    BY <1>3, <2>1
<1>7. v[Len(s) + Len(e) + 1] = x
  <2>1. Len(e) + 1 \in 1 .. Len(e) + 1 /\ Len(s) + (Len(e) + 1) = Len(s) + Len(e) + 1
    BY <1>1
  <2> QED
    BY <1>2, <1>6, <2>1
<1>8. \A j \in 1 .. Len(e) : v[Len(s) + j] = e[j]
  BY <1>1, <1>2, <1>6
<1> QED
  BY <1>3, <1>4, <1>5, <1>7, <1>8 DEF v, c

\* Sequences that agree element by element have the same prefixes.
LEMMA SamePrefixes ==
  ASSUME NEW S, NEW u \in Seq(S), NEW v \in Seq(S), NEW n \in Nat,
         n <= Len(u), n <= Len(v), \A i \in 1 .. n : u[i] = v[i]
  PROVE  SubSeq(u, 1, n) = SubSeq(v, 1, n)
<1>1. n \in 0 .. Len(u) /\ n \in 0 .. Len(v)
  BY LenProperties
<1>2. /\ SubSeq(u, 1, n) \in Seq(S) /\ Len(SubSeq(u, 1, n)) = n
      /\ \A i \in 1 .. n : SubSeq(u, 1, n)[i] = u[i]
  BY <1>1, Prefix
<1>3. /\ SubSeq(v, 1, n) \in Seq(S) /\ Len(SubSeq(v, 1, n)) = n
      /\ \A i \in 1 .. n : SubSeq(v, 1, n)[i] = v[i]
  BY <1>1, Prefix
<1>4. \A i \in 1 .. n : SubSeq(u, 1, n)[i] = SubSeq(v, 1, n)[i]
  BY <1>2, <1>3
<1> QED
  BY <1>2, <1>3, <1>4, SeqEqual

-----------------------------------------------------------------------------
(***************************************************************************)
(* The inductive invariant: what is committed and not shown yet is what    *)
(* the target says after what comes before it, and the KVs hold exactly    *)
(* what they were fed.                                                     *)
(***************************************************************************)
UnshownIsGreedy ==
  \A i \in shown + 1 .. Len(text) : text[i] = Argmax(SubSeq(text, 1, i - 1))

Bounds ==
  /\ text # <<>>
  /\ shown <= Len(text)
  /\ phase = "prefill" => text = prompt /\ shown = Len(prompt)
  /\ phase = "verify" => shown = Len(text) /\ ~Full
  /\ phase = "verify" /\ decoder = "linear" => Len(drafts) = K

KvsWereFed ==
  phase = "verify" =>
    /\ kv = text \o drafts
    /\ decoder = "linear" => draftKv = text \o drafts

Inv == TypeOK /\ Bounds /\ UnshownIsGreedy /\ KvsInStep /\ KvsWereFed

LEMMA InitInv == Init => Inv
<1> SUFFICES ASSUME Init PROVE Inv
  OBVIOUS
<1>1. prompt \in Seq(Token) /\ prompt # <<>> /\ Len(prompt) \in Nat
  BY SpecDecodeAssumption, LenProperties DEF Init
<1>2. <<>> \in Seq(Token)
  BY EmptySeq
<1>3. TypeOK
  BY <1>1, <1>2, SpecDecodeAssumption DEF Init, TypeOK
<1>4. Bounds /\ UnshownIsGreedy
  BY <1>1 DEF Init, Bounds, UnshownIsGreedy
<1>5. KvsInStep /\ KvsWereFed
  BY DEF Init, KvsInStep, KvsWereFed
<1> QED
  BY <1>3, <1>4, <1>5 DEF Inv

LEMMA Lengths == Inv => /\ Len(text) \in Nat \ {0} /\ Len(prompt) \in Nat \ {0}
                        /\ Len(drafts) \in Nat
                        /\ prompt \in Seq(Token) /\ prompt # <<>>
BY SpecDecodeAssumption, EmptySeq, LenProperties DEF Inv, TypeOK, Bounds

LEMMA PrefillInv == ASSUME TargetSpeaks, Inv, Prefill PROVE Inv'
<1>1. /\ prompt \in Seq(Token) /\ prompt # <<>> /\ Len(prompt) \in Nat \ {0}
      /\ text = prompt /\ shown = Len(prompt)
      /\ prompt' = prompt /\ drafts' = drafts
      /\ drafts \in Seq(Token) /\ prompt \in Prompt
      /\ kv' = prompt /\ draftKv' \in Seq(Token)
      /\ decoder = "linear" => draftKv' = prompt
      /\ decoder' = decoder /\ decoder \in {"linear", "tree"}
      /\ parent' = parent /\ parent \in Seq(Nat)
  BY Lengths DEF Inv, Bounds, TypeOK, Prefill
<1>2. CASE Argmax(prompt) \in Eos
  <2>1. phase' = "done" /\ text' = prompt /\ shown' = Len(prompt)
    BY <1>1, <1>2 DEF Prefill
  <2> QED
    BY <1>1, <2>1
    DEF Inv, TypeOK, Bounds, UnshownIsGreedy, KvsInStep, KvsWereFed
<1>3. CASE Argmax(prompt) \notin Eos
  <2> DEFINE x == Argmax(prompt)
  <2>1. phase' = "show" /\ text' = Append(prompt, x) /\ shown' = Len(prompt) + 1
    BY <1>1, <1>3 DEF Prefill
  <2>2. x \in Token
    BY <1>1 DEF TargetSpeaks
  <2> HIDE DEF x
  <2>3. /\ text' \in Seq(Token) /\ Len(text') = Len(prompt) + 1
        /\ \A i \in 1 .. Len(prompt) : text'[i] = prompt[i]
    BY <1>1, <2>1, <2>2
  <2>4. SubSeq(text', 1, Len(text') - 1) = prompt
    <3> DEFINE p == SubSeq(text', 1, Len(prompt))
    <3>1. Len(prompt) \in 0 .. Len(text') /\ Len(text') - 1 = Len(prompt)
      BY <1>1, <2>3
    <3>2. p \in Seq(Token) /\ Len(p) = Len(prompt) /\ \A i \in 1 .. Len(prompt) : p[i] = text'[i]
      BY <2>3, <3>1, Prefix
    <3> HIDE DEF p
    <3>3. p = prompt
      BY <1>1, <2>3, <3>2, SeqEqual
    <3> QED
      BY <3>1, <3>3 DEF p
  <2>5. TypeOK'
    BY <1>1, <2>1, <2>3, SpecDecodeAssumption DEF TypeOK
  <2>6. Bounds' /\ UnshownIsGreedy'
    BY <1>1, <2>1, <2>3 DEF Bounds, UnshownIsGreedy
  <2>7. KvsInStep' /\ KvsWereFed'
    BY <1>1, <2>1, <2>4 DEF KvsInStep, Fed, KvsWereFed
  <2> QED
    BY <2>5, <2>6, <2>7 DEF Inv
<1> QED
  BY <1>2, <1>3

LEMMA ShowInv == ASSUME Inv, Show PROVE Inv'
<1>1. Len(text) \in Nat \ {0}
  BY Lengths
<1>2. TypeOK'
  <2>1. shown \in Nat /\ ~(shown >= Len(prompt) + MaxNew) /\ shown' = shown + 1
    BY DEF Inv, TypeOK, Show, Full
  <2>2. shown' \in Nat /\ shown' <= Len(prompt) + MaxNew
    BY <2>1, Lengths, SpecDecodeAssumption
  <2> QED
    BY <2>2 DEF Inv, TypeOK, Show
<1>3. Bounds'
  BY <1>1 DEF Inv, TypeOK, Bounds, Show
<1>4. UnshownIsGreedy'
  BY <1>1 DEF Inv, TypeOK, UnshownIsGreedy, Show
<1>5. KvsInStep' /\ KvsWereFed'
  BY DEF Inv, KvsInStep, Fed, KvsWereFed, Show
<1> QED
  BY <1>2, <1>3, <1>4, <1>5 DEF Inv

LEMMA EndInv == ASSUME Inv, End PROVE Inv'
<1>2. TypeOK'
  BY DEF Inv, TypeOK, End
<1>3. Bounds' /\ UnshownIsGreedy'
  BY DEF Inv, Bounds, UnshownIsGreedy, End
<1>5. KvsInStep' /\ KvsWereFed'
  BY DEF Inv, KvsInStep, KvsWereFed, End
<1> QED
  BY <1>2, <1>3, <1>5 DEF Inv

LEMMA ProposeInv ==
  ASSUME Inv, NEW d \in [1 .. K -> Token], Propose(d) PROVE Inv'
<1>1. Len(text) \in Nat \ {0} /\ text \in Seq(Token) /\ text # <<>>
  BY Lengths DEF Inv, TypeOK, Bounds
<1>2. d \in Seq(Token) /\ Len(d) = K
  BY SpecDecodeAssumption
<1>3. Append(Fed, Head0) = text
  BY <1>1, FrontAndLast DEF Fed, Head0
<1>4. /\ kv' = text \o d /\ draftKv' = text \o d /\ drafts' = d
      /\ phase' = "verify" /\ text' = text /\ shown' = shown /\ prompt' = prompt
      /\ shown = Len(text) /\ ~Full /\ decoder' = decoder /\ parent' = parent
  BY <1>3 DEF Inv, KvsInStep, Propose
<1>5. text \o d \in Seq(Token)
  BY <1>1, <1>2, ConcatProperties
<1>6. TypeOK'
  BY <1>2, <1>4, <1>5 DEF Inv, TypeOK
<1>7. Bounds' /\ UnshownIsGreedy'
  BY <1>1, <1>2, <1>4 DEF Inv, Bounds, UnshownIsGreedy, Full
<1>8. KvsInStep' /\ KvsWereFed'
  BY <1>4 DEF KvsInStep, KvsWereFed
<1> QED
  BY <1>6, <1>7, <1>8 DEF Inv

LEMMA VerifyInv ==
  ASSUME TargetSpeaks, Inv, NEW m \in 0 .. K, Verify(m) PROVE Inv'
<1> DEFINE x == Says(m)
<1>1. /\ Len(text) \in Nat \ {0} /\ text \in Seq(Token)
      /\ drafts \in Seq(Token) /\ Len(drafts) = K /\ m \in 0 .. Len(drafts)
      /\ shown = Len(text) /\ kv = text \o drafts /\ draftKv = text \o drafts
      /\ Len(drafts) \in Nat
  BY Lengths DEF Inv, TypeOK, Bounds, KvsWereFed, Verify
<1>2. kv \in Seq(Token) /\ Len(kv) = Len(text) + Len(drafts)
  BY <1>1, ConcatProperties
<1>3. x \in Token
  <2>1. Len(text) + m \in 0 .. Len(kv)
    BY <1>1, <1>2
  <2>2. SubSeq(kv, 1, Len(text) + m) \in Seq(Token)
    BY <1>2, <2>1, Prefix
  <2> QED
    BY <2>2 DEF Says, TargetSpeaks
<1>4. /\ text' = text \o Append(SubSeq(drafts, 1, m), x)
      /\ kv' = SubSeq(kv, 1, Len(text) + m)
      /\ draftKv' = SubSeq(kv, 1, Len(text) + m)
      /\ drafts' = <<>> /\ phase' = "show" /\ prompt' = prompt /\ shown' = shown
      /\ decoder' = decoder /\ parent' = parent
      /\ \A j \in 1 .. m : drafts[j] = Argmax(SubSeq(kv, 1, Len(text) + (j - 1)))
      /\ x = Argmax(SubSeq(kv, 1, Len(text) + m))
  BY <1>1 DEF Verify, Accepts, Commit, RollBack, Says
<1> HIDE DEF x
<1>a. /\ text' \in Seq(Token) /\ Len(text') = Len(text) + m + 1
      /\ \A i \in 1 .. Len(text) : text'[i] = text[i]
      /\ \A j \in 1 .. m : text'[Len(text) + j] = drafts[j]
      /\ text'[Len(text) + m + 1] = x
  <2> DEFINE e == SubSeq(drafts, 1, m)
             v == text \o Append(e, x)
  <2>1. e \in Seq(Token) /\ Len(e) = m /\ \A i \in 1 .. m : e[i] = drafts[i]
    BY <1>1, Prefix
  <2>2. text' = v
    BY <1>4
  <2> HIDE DEF e
  <2>3. /\ v \in Seq(Token) /\ Len(v) = Len(text) + Len(e) + 1
        /\ \A i \in 1 .. Len(text) : v[i] = text[i]
        /\ \A j \in 1 .. Len(e) : v[Len(text) + j] = e[j]
        /\ v[Len(text) + Len(e) + 1] = x
    <3>1. text \in Seq(Token) /\ e \in Seq(Token) /\ x \in Token
      BY <1>1, <1>3, <2>1
    <3> QED
      BY ONLY <3>1, ConcatOfAppend
  <2> HIDE DEF v
  <2> QED
    BY <2>1, <2>2, <2>3
<1>b. \A i \in 1 .. Len(text) + m : kv[i] = text'[i]
  <2> SUFFICES ASSUME NEW i \in 1 .. Len(text) + m PROVE kv[i] = text'[i]
    OBVIOUS
  <2>1. kv[i] = IF i <= Len(text) THEN text[i] ELSE drafts[i - Len(text)]
    BY <1>1, ConcatProperties
  <2>2. CASE i <= Len(text)
    BY <1>1, <1>a, <2>1, <2>2
  <2>3. CASE ~(i <= Len(text))
    <3>1. i - Len(text) \in 1 .. m /\ Len(text) + (i - Len(text)) = i
      BY <1>1, <2>3
    <3>2. text'[Len(text) + (i - Len(text))] = drafts[i - Len(text)]
      BY <1>a, <3>1
    <3> QED
      BY <2>1, <2>3, <3>1, <3>2
  <2> QED
    BY <2>2, <2>3
<1>c. \A n \in 0 .. Len(text) + m : SubSeq(kv, 1, n) = SubSeq(text', 1, n)
  <2> SUFFICES ASSUME NEW n \in 0 .. Len(text) + m
               PROVE  SubSeq(kv, 1, n) = SubSeq(text', 1, n)
    OBVIOUS
  <2>1. /\ n \in Nat /\ n <= Len(kv) /\ n <= Len(text')
        /\ \A i \in 1 .. n : i \in 1 .. Len(text) + m
    BY <1>1, <1>2, <1>a
  <2>2. \A i \in 1 .. n : kv[i] = text'[i]
    BY <1>b, <2>1
  <2> QED
    BY <1>2, <1>a, <2>1, <2>2, SamePrefixes
<1>5. /\ text' \in Seq(Token) /\ Len(text') = Len(text) + m + 1
      /\ \A i \in 1 .. Len(text) : text'[i] = text[i]
      /\ \A j \in 1 .. m : text'[Len(text) + j] = drafts[j]
      /\ text'[Len(text) + m + 1] = x
      /\ \A n \in 0 .. Len(text) + m : SubSeq(kv, 1, n) = SubSeq(text', 1, n)
  BY <1>a, <1>c
<1>6. ASSUME NEW i \in shown' + 1 .. Len(text')
      PROVE  text'[i] = Argmax(SubSeq(text', 1, i - 1))
  <2>1. CASE i = Len(text) + m + 1
    <3>1. Len(text) + m \in 0 .. Len(text) + m /\ i - 1 = Len(text) + m
      BY <1>1, <2>1
    <3> QED
      BY <1>4, <1>5, <2>1, <3>1
  <2>2. CASE i # Len(text) + m + 1
    <3> DEFINE j == i - Len(text)
    <3>a. /\ i \in Len(text) + 1 .. Len(text) + m + 1
          /\ Len(text) \in Nat /\ m \in Nat
      <4>1. shown' = Len(text) /\ Len(text') = Len(text) + m + 1
        BY <1>1, <1>4, <1>5
      <4> QED
        BY <1>1, <4>1
    <3>1. /\ j \in 1 .. m /\ i = Len(text) + j /\ i - 1 = Len(text) + (j - 1)
          /\ i - 1 \in 0 .. Len(text) + m
      BY <3>a, <2>2
    <3> HIDE DEF j
    <3>2. text'[i] = Argmax(SubSeq(kv, 1, i - 1))
      BY <1>4, <1>5, <3>1
    <3> QED
      BY <1>5, <3>1, <3>2
  <2> QED
    BY <2>1, <2>2
<1>7. kv' = Fed' /\ draftKv' = Fed'
  <2>1. Len(text') - 1 = Len(text) + m /\ Len(text) + m \in 0 .. Len(text) + m
    BY <1>1, <1>5
  <2> QED
    BY <1>4, <1>5, <2>1 DEF Fed
<1>8. TypeOK'
  <2>1. Len(text) + m \in 0 .. Len(kv)
    BY <1>1, <1>2
  <2>2. SubSeq(kv, 1, Len(text) + m) \in Seq(Token)
    BY <1>2, <2>1, Prefix
  <2>3. <<>> \in Seq(Token)
    BY EmptySeq
  <2> QED
    BY <1>4, <1>5, <2>2, <2>3 DEF Inv, TypeOK
<1>9. Bounds'
  <2>1. text' # <<>>
    BY <1>1, <1>5, EmptySeq
  <2>2. shown' <= Len(text')
    BY <1>1, <1>4, <1>5
  <2> QED
    BY <1>4, <2>1, <2>2 DEF Bounds
<1>10. UnshownIsGreedy'
  BY <1>6 DEF UnshownIsGreedy
<1>11. KvsInStep' /\ KvsWereFed'
  BY <1>4, <1>7 DEF KvsInStep, KvsWereFed
<1> QED
  BY <1>8, <1>9, <1>10, <1>11 DEF Inv

\* Drafts that the target says one after the other, after a text.
AreSaid(t, e) == \A j \in 1 .. Len(e) : e[j] = Argmax(t \o SubSeq(e, 1, j - 1))

\* What a round commits is what the target says after what comes before it,
\* if the accepted drafts are and the last token is.
LEMMA CommittedIsGreedy ==
  ASSUME NEW t \in Seq(Token), NEW e \in Seq(Token), NEW x \in Token,
         AreSaid(t, e),
         x = Argmax(t \o e), NEW v \in {t \o Append(e, x)}
  PROVE  /\ v \in Seq(Token) /\ Len(v) = Len(t) + Len(e) + 1
         /\ SubSeq(v, 1, Len(v) - 1) = t \o e
         /\ \A i \in Len(t) + 1 .. Len(v) : v[i] = Argmax(SubSeq(v, 1, i - 1))
<1>1. Len(t) \in Nat /\ Len(e) \in Nat
  BY LenProperties
<1>2. /\ v \in Seq(Token) /\ Len(v) = Len(t) + Len(e) + 1
      /\ \A i \in 1 .. Len(t) : v[i] = t[i]
      /\ \A j \in 1 .. Len(e) : v[Len(t) + j] = e[j]
      /\ v[Len(t) + Len(e) + 1] = x
  <2>1. v = t \o Append(e, x)
    OBVIOUS
  <2> QED
    BY ONLY <2>1, t \in Seq(Token), e \in Seq(Token), x \in Token, ConcatOfAppend
<1>3. ASSUME NEW n \in 0 .. Len(e)
      PROVE  SubSeq(v, 1, Len(t) + n) = t \o SubSeq(e, 1, n)
  <2> DEFINE u == SubSeq(e, 1, n)
             w == t \o u
             q == SubSeq(v, 1, Len(t) + n)
  <2>1. u \in Seq(Token) /\ Len(u) = n /\ \A i \in 1 .. n : u[i] = e[i]
    BY Prefix
  <2> HIDE DEF u
  <2>2. /\ w \in Seq(Token) /\ Len(w) = Len(t) + n
        /\ \A i \in 1 .. Len(t) + n : w[i] = IF i <= Len(t) THEN t[i] ELSE u[i - Len(t)]
    BY <2>1, ConcatProperties
  <2>3. Len(t) + n \in 0 .. Len(v)
    BY <1>1, <1>2
  <2>4. /\ q \in Seq(Token) /\ Len(q) = Len(t) + n
        /\ \A i \in 1 .. Len(t) + n : q[i] = v[i]
    BY <1>2, <2>3, Prefix
  <2> HIDE DEF w, q
  <2>5. ASSUME NEW i \in 1 .. Len(t) + n PROVE q[i] = w[i]
    <3>1. CASE i <= Len(t)
      BY <1>1, <1>2, <2>2, <2>4, <3>1
    <3>2. CASE ~(i <= Len(t))
      <4> DEFINE k == i - Len(t)
      <4>1. k \in 1 .. n /\ k \in 1 .. Len(e) /\ i = Len(t) + k
        BY <1>1, <3>2
      <4>2. w[i] = u[k]
        BY <2>2, <3>2
      <4> HIDE DEF k
      <4>3. v[i] = e[k] /\ u[k] = e[k]
        BY <1>2, <2>1, <4>1
      <4> QED
        BY <2>4, <4>2, <4>3
    <3> QED
      BY <3>1, <3>2
  <2>6. q = w
    BY <2>2, <2>4, <2>5, SeqEqual
  <2> QED
    BY <2>6 DEF q, w, u
<1>4. SubSeq(v, 1, Len(t) + Len(e)) = t \o e
  BY <1>1, <1>3, SubSeqFull
<1>5. ASSUME NEW i \in Len(t) + 1 .. Len(v) PROVE v[i] = Argmax(SubSeq(v, 1, i - 1))
  <2>1. CASE i = Len(t) + Len(e) + 1
    <3>1. i - 1 = Len(t) + Len(e)
      BY <1>1, <2>1
    <3> QED
      BY <1>2, <1>4, <2>1, <3>1
  <2>2. CASE i # Len(t) + Len(e) + 1
    <3> DEFINE j == i - Len(t)
    <3>0. i \in Len(t) + 1 .. Len(t) + Len(e)
      BY <1>1, <1>2, <2>2
    <3>1. /\ j \in 1 .. Len(e) /\ i = Len(t) + j /\ i - 1 = Len(t) + (j - 1)
          /\ j - 1 \in 0 .. Len(e)
      BY ONLY <1>1, <3>0 DEF j
    <3> HIDE DEF j
    <3>2. v[i] = e[j] /\ SubSeq(v, 1, i - 1) = t \o SubSeq(e, 1, j - 1)
      BY <1>2, <1>3, <3>1
    <3> QED
      BY <3>1, <3>2 DEF AreSaid
  <2> QED
    BY <2>1, <2>2
<1>6. Len(v) - 1 = Len(t) + Len(e)
  BY <1>1, <1>2
<1> QED
  BY <1>2, <1>4, <1>5, <1>6

\* A round of tree drafting.
LEMMA GrowInv ==
  ASSUME Inv, NEW n \in 0 .. TreeSize, NEW d \in [1 .. n -> Token],
         NEW up \in [1 .. n -> 0 .. n], Grow(d, up)
  PROVE  Inv'
<1>1. Len(text) \in Nat \ {0} /\ text \in Seq(Token) /\ text # <<>>
  BY Lengths DEF Inv, TypeOK, Bounds
<1>2. d \in Seq(Token) /\ up \in Seq(Nat)
  BY SpecDecodeAssumption
<1>3. Append(Fed, Head0) = text
  BY <1>1, FrontAndLast DEF Fed, Head0
<1>4. /\ kv' = text \o d /\ draftKv' = draftKv /\ drafts' = d /\ parent' = up
      /\ phase' = "verify" /\ text' = text /\ shown' = shown /\ prompt' = prompt
      /\ shown = Len(text) /\ ~Full /\ decoder = "tree" /\ decoder' = decoder
  BY <1>3 DEF Inv, KvsInStep, Grow
<1>5. text \o d \in Seq(Token)
  BY <1>1, <1>2, ConcatProperties
<1>6. TypeOK'
  BY <1>2, <1>4, <1>5 DEF Inv, TypeOK
<1>7. Bounds' /\ UnshownIsGreedy'
  BY <1>1, <1>4 DEF Inv, Bounds, UnshownIsGreedy, Full
<1>8. KvsInStep' /\ KvsWereFed'
  BY <1>4 DEF KvsInStep, KvsWereFed
<1> QED
  BY <1>6, <1>7, <1>8 DEF Inv

\* What is accepted, in terms of the text and the tokens of the branch.
LEMMA BranchCommitted ==
  ASSUME TargetSpeaks, Inv, NEW n \in 0 .. Len(drafts), NEW p \in [1 .. n -> DOMAIN drafts],
         VerifyTree(p),
         NEW e, e = [j \in 1 .. Len(p) |-> drafts[p[j]]]
  PROVE  /\ text \in Seq(Token) /\ e \in Seq(Token) /\ Argmax(text \o e) \in Token
         /\ text' = text \o Append(e, Argmax(text \o e))
         /\ kv' = text \o e
         /\ AreSaid(text, e)
<1>1. /\ Len(text) \in Nat \ {0} /\ text \in Seq(Token)
      /\ drafts \in Seq(Token) /\ Len(drafts) \in Nat /\ kv = text \o drafts
  BY Lengths DEF Inv, TypeOK, KvsWereFed, VerifyTree
<1>2. /\ n \in Nat /\ Len(p) = n /\ DOMAIN drafts = 1 .. Len(drafts)
      /\ \A j \in 1 .. n : p[j] \in 1 .. Len(drafts) /\ drafts[p[j]] \in Token
  BY <1>1
<1>3. e \in Seq(Token) /\ Len(e) = n /\ \A j \in 1 .. n : e[j] = drafts[p[j]]
  BY <1>2
<1>4. \A i \in 1 .. Len(drafts) : kv[Len(text) + i] = drafts[i]
  <2> SUFFICES ASSUME NEW i \in 1 .. Len(drafts) PROVE kv[Len(text) + i] = drafts[i]
    OBVIOUS
  <2>1. /\ Len(text) + i \in 1 .. Len(text) + Len(drafts) /\ ~(Len(text) + i <= Len(text))
        /\ Len(text) + i - Len(text) = i
    BY <1>1
  <2> QED
    BY <1>1, <2>1, ConcatProperties
<1>5. SubSeq(kv, 1, Len(text)) = text
  <2>1. Len(text) \in 0 .. Len(text)
    BY <1>1
  <2> QED
    BY <1>1, <2>1, PrefixOfConcat, SubSeqFull
<1>6. Branch(p) = e
  BY <1>2, <1>4, e = [j \in 1 .. Len(p) |-> drafts[p[j]]] DEF Branch
<1>7. ASSUME NEW j \in 1 .. n PROVE Branch(SubSeq(p, 1, j - 1)) = SubSeq(e, 1, j - 1)
  <2> DEFINE q == SubSeq(p, 1, j - 1)
             u == SubSeq(e, 1, j - 1)
  <2>0. j - 1 \in 0 .. n /\ \A i \in 1 .. j - 1 : i \in 1 .. n
    BY <1>2
  <2>1. p \in Seq(DOMAIN drafts)
    BY <1>2
  <2>2. Len(q) = j - 1 /\ \A i \in 1 .. j - 1 : q[i] = p[i]
    BY <1>2, <2>0, <2>1, Prefix
  <2>3. u \in Seq(Token) /\ Len(u) = j - 1 /\ \A i \in 1 .. j - 1 : u[i] = e[i]
    BY <1>3, <2>0, Prefix
  <2> HIDE DEF q, u
  <2>6. ASSUME NEW i \in 1 .. j - 1 PROVE kv[Len(text) + q[i]] = u[i]
    <3>1. i \in 1 .. n /\ q[i] = p[i] /\ u[i] = e[i]
      BY <2>0, <2>2, <2>3
    <3>2. p[i] \in 1 .. Len(drafts) /\ e[i] = drafts[p[i]]
      BY <1>2, <1>3, <3>1
    <3>3. kv[Len(text) + p[i]] = drafts[p[i]]
      BY <1>4, <3>2
    <3> QED
      BY <3>1, <3>2, <3>3
  <2>4. Branch(q) = [i \in 1 .. j - 1 |-> u[i]]
    BY <2>2, <2>6 DEF Branch
  <2>5. u = [i \in 1 .. j - 1 |-> u[i]]
    BY <2>3
  <2> QED
    BY <2>4, <2>5 DEF q, u
<1>8. /\ \A j \in 1 .. n : drafts[p[j]] = SaysAfter(SubSeq(p, 1, j - 1))
      /\ text' = text \o Append(e, SaysAfter(p))
      /\ kv' = SubSeq(kv, 1, Len(text)) \o Branch(p)
  BY <1>2, e = [j \in 1 .. Len(p) |-> drafts[p[j]]]
  DEF VerifyTree, AcceptsBranch, KeepBranch
<1>9. SaysAfter(p) = Argmax(text \o e)
  BY <1>5, <1>6 DEF SaysAfter
<1>10. text \o e \in Seq(Token)
  BY <1>1, <1>3, ConcatProperties
<1>11. ASSUME NEW j \in 1 .. Len(e) PROVE e[j] = Argmax(text \o SubSeq(e, 1, j - 1))
  BY <1>3, <1>5, <1>7, <1>8 DEF SaysAfter
<1> QED
  BY <1>1, <1>3, <1>5, <1>6, <1>8, <1>9, <1>10, <1>11 DEF TargetSpeaks, AreSaid

LEMMA VerifyTreeInv ==
  ASSUME TargetSpeaks, Inv, NEW n \in 0 .. Len(drafts), NEW p \in [1 .. n -> DOMAIN drafts],
         VerifyTree(p)
  PROVE  Inv'
<1> DEFINE e == [j \in 1 .. Len(p) |-> drafts[p[j]]]
           x == Argmax(text \o e)
<1>1. /\ text \in Seq(Token) /\ e \in Seq(Token) /\ x \in Token
      /\ text' = text \o Append(e, x) /\ kv' = text \o e
      /\ AreSaid(text, e)
  BY BranchCommitted
<1>2. /\ Len(text) \in Nat \ {0} /\ shown = Len(text) /\ shown' = shown
      /\ decoder = "tree" /\ decoder' = decoder /\ prompt' = prompt
      /\ drafts' = <<>> /\ parent' = <<>> /\ phase' = "show" /\ draftKv' = draftKv
  BY Lengths DEF Inv, Bounds, VerifyTree
<1> HIDE DEF e, x
<1>3. /\ text' \in Seq(Token) /\ Len(text') = Len(text) + Len(e) + 1
      /\ SubSeq(text', 1, Len(text') - 1) = text \o e
      /\ \A i \in Len(text) + 1 .. Len(text') : text'[i] = Argmax(SubSeq(text', 1, i - 1))
  <2>1. x = Argmax(text \o e)
    BY DEF x
  <2>2. text' \in {text \o Append(e, x)}
    BY <1>1
  <2> QED
    BY ONLY <1>1, <2>1, <2>2, CommittedIsGreedy
<1>4. Len(e) \in Nat /\ text \o e \in Seq(Token) /\ <<>> \in Seq(Token) /\ <<>> \in Seq(Nat)
  BY <1>1, LenProperties, ConcatProperties, EmptySeq
<1>5. TypeOK'
  BY <1>1, <1>2, <1>3, <1>4 DEF Inv, TypeOK
<1>6. Bounds'
  <2>1. text' # <<>>
    BY <1>2, <1>3, <1>4, EmptySeq
  <2>2. shown' <= Len(text')
    BY <1>2, <1>3, <1>4
  <2> QED
    BY <1>2, <2>1, <2>2 DEF Bounds
<1>7. UnshownIsGreedy'
  BY <1>2, <1>3 DEF UnshownIsGreedy
<1>8. KvsInStep' /\ KvsWereFed'
  BY <1>1, <1>2, <1>3 DEF KvsInStep, KvsWereFed, Fed
<1> QED
  BY <1>5, <1>6, <1>7, <1>8 DEF Inv

LEMMA NextInv == ASSUME TargetSpeaks, Inv, [Next]_vars PROVE Inv'
<1>1. CASE Prefill
  BY <1>1, PrefillInv
<1>2. CASE Show
  BY <1>2, ShowInv
<1>3. CASE End
  BY <1>3, EndInv
<1>4. ASSUME NEW d \in [1 .. K -> Token], Propose(d) PROVE Inv'
  BY <1>4, ProposeInv
<1>5. ASSUME NEW m \in 0 .. K, Verify(m) PROVE Inv'
  BY <1>5, VerifyInv
<1>7. ASSUME NEW n \in 0 .. TreeSize, NEW d \in [1 .. n -> Token],
             NEW up \in [1 .. n -> 0 .. n], Grow(d, up)
      PROVE  Inv'
  BY <1>7, GrowInv
<1>8. ASSUME NEW n \in 0 .. Len(drafts), NEW p \in [1 .. n -> DOMAIN drafts], VerifyTree(p)
      PROVE  Inv'
  BY <1>8, VerifyTreeInv
<1>6. CASE UNCHANGED vars
  BY <1>6 DEF vars, Inv, TypeOK, Bounds, Full, UnshownIsGreedy, KvsInStep, Fed, KvsWereFed
<1> QED
  BY <1>1, <1>2, <1>3, <1>4, <1>5, <1>6, <1>7, <1>8 DEF Next, Linear, Tree

-----------------------------------------------------------------------------
(***************************************************************************)
(* The theorems.                                                           *)
(***************************************************************************)
\* Every reachable state is well typed (specdecode.py:107-162).
THEOREM TypeCorrect == ASSUME TargetSpeaks PROVE Spec => []TypeOK
<1>1. Init => Inv
  BY InitInv
<1>2. Inv /\ [Next]_vars => Inv'
  BY NextInv
<1>3. Inv => TypeOK
  BY DEF Inv
<1> QED
  BY <1>1, <1>2, <1>3, PTL DEF Spec

\* Between rounds the target's and the draft's KV hold all committed tokens
\* but the last (specdecode.py:152-154, 227).
THEOREM KvsCorrect == ASSUME TargetSpeaks PROVE Spec => []KvsInStep
<1>1. Init => Inv
  BY InitInv
<1>2. Inv /\ [Next]_vars => Inv'
  BY NextInv
<1>3. Inv => KvsInStep
  BY DEF Inv
<1> QED
  BY <1>1, <1>2, <1>3, PTL DEF Spec

\* What is shown, as a text.
Shown == SubSeq(text, 1, shown)

LEMMA ShownProperties ==
  ASSUME Inv PROVE /\ Shown \in Seq(Token) /\ Len(Shown) = shown
                   /\ shown \in 0 .. Len(text)
<1>1. shown \in 0 .. Len(text) /\ text \in Seq(Token)
  BY Lengths DEF Inv, TypeOK, Bounds
<1> QED
  BY <1>1, Prefix DEF Shown

\* The next token to be shown is the one greedy decoding shows next.
LEMMA NextShown ==
  ASSUME Inv, shown < Len(text)
  PROVE  /\ text[shown + 1] = Argmax(Shown)
         /\ SubSeq(text, 1, shown + 1) = Append(Shown, Argmax(Shown))
<1>1. /\ text \in Seq(Token) /\ Len(text) \in Nat /\ shown \in Nat
      /\ shown + 1 \in shown + 1 .. Len(text) /\ shown \in 0 .. Len(text) - 1
      /\ shown + 1 - 1 = shown
  BY Lengths DEF Inv, TypeOK
<1>2. text[shown + 1] = Argmax(SubSeq(text, 1, shown + 1 - 1))
  BY <1>1 DEF Inv, UnshownIsGreedy
<1>3. SubSeq(text, 1, shown + 1) = Append(SubSeq(text, 1, shown), text[shown + 1])
  BY <1>1, PrefixGrows
<1> QED
  BY <1>1, <1>2, <1>3 DEF Shown

LEMMA PrefillIsGreedy == ASSUME TargetSpeaks, Inv, Prefill PROVE Greedy!Next
<1>1. /\ prompt \in Seq(Token) /\ Len(prompt) \in Nat \ {0} /\ prompt' = prompt
      /\ text = prompt /\ shown = Len(prompt) /\ phase = "prefill"
  BY Lengths DEF Inv, Bounds, Prefill
<1>2. SubSeq(text, 1, shown) = prompt
  BY <1>1, SubSeqFull
<1>3. ~(Len(prompt) >= Len(prompt) + MaxNew)
  BY <1>1, SpecDecodeAssumption
<1>4. CASE Argmax(prompt) \in Eos
  <2>1. phase' = "done" /\ text' = text /\ shown' = shown
    BY <1>4 DEF Prefill
  <2>2. Greedy!End
    BY <1>1, <1>2, <1>4, <2>1 DEF Greedy!End
  <2> QED
    BY <2>2 DEF Greedy!Next
<1>5. CASE Argmax(prompt) \notin Eos
  <2> DEFINE x == Argmax(prompt)
  <2>1. phase' = "show" /\ text' = Append(prompt, x) /\ shown' = Len(prompt) + 1
    BY <1>5 DEF Prefill
  <2>2. x \in Token
    BY <1>1 DEF TargetSpeaks
  <2> HIDE DEF x
  <2>3. text' \in Seq(Token) /\ Len(text') = shown'
    BY <1>1, <2>1, <2>2
  <2>4. SubSeq(text', 1, shown') = Append(SubSeq(text, 1, shown), Argmax(SubSeq(text, 1, shown)))
    BY <1>2, <2>1, <2>3, SubSeqFull DEF x
  <2>5. Greedy!Show
    BY <1>1, <1>2, <1>3, <1>5, <2>1, <2>4 DEF Greedy!Show, Greedy!Full
  <2> QED
    BY <2>5 DEF Greedy!Next
<1> QED
  BY <1>4, <1>5

LEMMA ShowIsGreedy == ASSUME Inv, Show PROVE Greedy!Next
<1>1. /\ phase = "show" /\ phase' = "show" /\ prompt' = prompt /\ text' = text
      /\ shown' = shown + 1 /\ shown < Len(text) /\ text[shown + 1] \notin Eos /\ ~Full
  BY DEF Show
<1>2. Len(Shown) = shown
  BY ShownProperties
<1>3. /\ text[shown + 1] = Argmax(Shown)
      /\ SubSeq(text, 1, shown + 1) = Append(Shown, Argmax(Shown))
  BY <1>1, NextShown
<1>4. SubSeq(text', 1, shown') = Append(Shown, Argmax(Shown))
  BY <1>1, <1>3
<1>5. Greedy!Show
  BY <1>1, <1>2, <1>3, <1>4 DEF Greedy!Show, Greedy!Full, Full, Shown
<1> QED
  BY <1>5 DEF Greedy!Next

LEMMA EndIsGreedy == ASSUME Inv, End PROVE Greedy!Next
<1>1. /\ phase = "show" /\ phase' = "done" /\ prompt' = prompt /\ text' = text
      /\ shown' = shown
      /\ Full \/ (shown < Len(text) /\ text[shown + 1] \in Eos)
  BY DEF End
<1>2. Len(Shown) = shown
  BY ShownProperties
<1>3. Greedy!Full \/ Argmax(Shown) \in Eos
  BY <1>1, <1>2, NextShown DEF Full, Greedy!Full, Shown
<1>4. Greedy!End
  BY <1>1, <1>3 DEF Greedy!End, Shown
<1> QED
  BY <1>4 DEF Greedy!Next

LEMMA VerifyIsSilent ==
  ASSUME TargetSpeaks, Inv, NEW m \in 0 .. K, Verify(m)
  PROVE  Shown' = Shown /\ phase # "done" /\ phase' # "done" /\ prompt' = prompt
<1> DEFINE c == Append(SubSeq(drafts, 1, m), Says(m))
<1>1. /\ text \in Seq(Token) /\ text' = text \o c /\ shown' = shown
      /\ phase = "verify" /\ phase' = "show" /\ prompt' = prompt
      /\ drafts \in Seq(Token) /\ m \in 0 .. Len(drafts)
      /\ kv = text \o drafts /\ Len(drafts) \in Nat /\ Len(text) \in Nat
  BY Lengths DEF Inv, TypeOK, Bounds, KvsWereFed, Verify, Commit
<1>2. Says(m) \in Token
  <2>1. kv \in Seq(Token) /\ Len(kv) = Len(text) + Len(drafts)
    BY <1>1, ConcatProperties
  <2>2. Len(text) + m \in 0 .. Len(kv)
    BY <1>1, <2>1
  <2>3. SubSeq(kv, 1, Len(text) + m) \in Seq(Token)
    BY <2>1, <2>2, Prefix
  <2> QED
    BY <2>3 DEF Says, TargetSpeaks
<1>3. SubSeq(drafts, 1, m) \in Seq(Token)
  BY <1>1, Prefix
<1>4. c \in Seq(Token)
  BY <1>2, <1>3
<1>5. shown \in 0 .. Len(text)
  BY ShownProperties
<1> HIDE DEF c
<1>6. SubSeq(text \o c, 1, shown) = SubSeq(text, 1, shown)
  BY <1>1, <1>4, <1>5, PrefixOfConcat
<1> QED
  BY <1>1, <1>6 DEF Shown

LEMMA VerifyTreeIsSilent ==
  ASSUME TargetSpeaks, Inv, NEW n \in 0 .. Len(drafts), NEW p \in [1 .. n -> DOMAIN drafts],
         VerifyTree(p)
  PROVE  Shown' = Shown /\ phase # "done" /\ phase' # "done" /\ prompt' = prompt
<1> DEFINE e == [j \in 1 .. Len(p) |-> drafts[p[j]]]
           x == Argmax(text \o e)
           c == Append(e, x)
<1>0. text \in Seq(Token) /\ e \in Seq(Token) /\ x \in Token /\ text' = text \o c
  BY BranchCommitted
<1> HIDE DEF e, x
<1>1. text \in Seq(Token) /\ c \in Seq(Token) /\ text' = text \o c
  BY <1>0
<1>2. shown' = shown /\ phase = "verify" /\ phase' = "show" /\ prompt' = prompt
  BY DEF VerifyTree
<1>3. shown \in 0 .. Len(text)
  BY ShownProperties
<1> HIDE DEF c
<1>4. SubSeq(text \o c, 1, shown) = SubSeq(text, 1, shown)
  BY <1>1, <1>3, PrefixOfConcat
<1> QED
  BY <1>1, <1>2, <1>4 DEF Shown

LEMMA StepIsGreedy ==
  ASSUME TargetSpeaks, Inv, [Next]_vars PROVE [Greedy!Next]_Greedy!vars
<1>1. CASE Prefill
  BY <1>1, PrefillIsGreedy
<1>2. CASE Show
  BY <1>2, ShowIsGreedy
<1>3. CASE End
  BY <1>3, EndIsGreedy
<1>4. ASSUME NEW d \in [1 .. K -> Token], Propose(d) PROVE UNCHANGED Greedy!vars
  BY <1>4 DEF Propose, Greedy!vars
<1>5. ASSUME NEW m \in 0 .. K, Verify(m) PROVE UNCHANGED Greedy!vars
  BY <1>5, VerifyIsSilent DEF Greedy!vars, Shown
<1>7. ASSUME NEW n \in 0 .. TreeSize, NEW d \in [1 .. n -> Token],
             NEW up \in [1 .. n -> 0 .. n], Grow(d, up)
      PROVE  UNCHANGED Greedy!vars
  BY <1>7 DEF Grow, Greedy!vars
<1>8. ASSUME NEW n \in 0 .. Len(drafts), NEW p \in [1 .. n -> DOMAIN drafts], VerifyTree(p)
      PROVE  UNCHANGED Greedy!vars
  BY <1>8, VerifyTreeIsSilent DEF Greedy!vars, Shown
<1>6. CASE UNCHANGED vars
  BY <1>6 DEF vars, Greedy!vars
<1> QED
  BY <1>1, <1>2, <1>3, <1>4, <1>5, <1>6, <1>7, <1>8 DEF Next, Linear, Tree

\* Speculative decoding implements greedy decoding: it shows the same tokens
\* and ends where greedy decoding ends, whatever the draft proposes
\* (coordinator.py:1157, 1179, specdecode.py:107-120).
THEOREM SpeculationIsGreedy == ASSUME TargetSpeaks PROVE Spec => IsGreedy
<1>1. Init => Inv
  BY InitInv
<1>2. Inv /\ [Next]_vars => Inv'
  BY NextInv
<1>3. Init => Greedy!Init
  <2> SUFFICES ASSUME Init PROVE Greedy!Init
    OBVIOUS
  <2>1. prompt \in Seq(Token) /\ text = prompt /\ shown = Len(prompt)
    BY SpecDecodeAssumption DEF Init
  <2>2. SubSeq(text, 1, shown) = prompt
    BY <2>1, SubSeqFull
  <2> QED
    BY <2>2 DEF Init, Greedy!Init
<1>4. Inv /\ [Next]_vars => [Greedy!Next]_Greedy!vars
  BY StepIsGreedy
<1> QED
  BY <1>1, <1>2, <1>3, <1>4, PTL DEF Spec, IsGreedy, Greedy!Spec

=============================================================================
