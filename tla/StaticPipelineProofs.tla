------------------------ MODULE StaticPipelineProofs ------------------------
(***************************************************************************)
(* What holds of the static pipeline for every set of requests, any number *)
(* of stages, lanes and rows, and every fault.                             *)
(***************************************************************************)
EXTENDS StaticPipeline, SequenceTheorems, FiniteSetTheorems, TLAPS

-----------------------------------------------------------------------------
(***************************************************************************)
(* Sequences without duplicates.                                           *)
(***************************************************************************)
LEMMA SetOf ==
  ASSUME NEW S, NEW s \in Seq(S)
  PROVE  /\ Len(s) \in Nat /\ DOMAIN s = 1 .. Len(s)
         /\ \A x : x \in ToSet(s) <=> \E i \in 1 .. Len(s) : s[i] = x
         /\ IsInjective(s) <=> \A i, j \in 1 .. Len(s) : s[i] = s[j] => i = j
         /\ \A i \in 1 .. Len(s) : s[i] \in S
BY LenProperties, ElementOfSeq DEF ToSet, IsInjective

LEMMA AppendedSet ==
  ASSUME NEW S, NEW s \in Seq(S), NEW x \in S, IsInjective(s), x \notin ToSet(s)
  PROVE  /\ Append(s, x) \in Seq(S) /\ IsInjective(Append(s, x))
         /\ \A y : y \in ToSet(Append(s, x)) <=> y \in ToSet(s) \/ y = x
<1> DEFINE a == Append(s, x)
<1>1. a \in Seq(S) /\ Len(a) = Len(s) + 1 /\ a[Len(s) + 1] = x /\ \A i \in 1 .. Len(s) : a[i] = s[i]
  BY AppendProperties
<1> HIDE DEF a
<1>2. Len(s) \in Nat /\ \A i \in 1 .. Len(a) : i \in 1 .. Len(s) \/ i = Len(s) + 1
  BY <1>1, LenProperties
<1>3. \A i, j \in 1 .. Len(a) : a[i] = a[j] => i = j
  <2> SUFFICES ASSUME NEW i \in 1 .. Len(a), NEW j \in 1 .. Len(a), a[i] = a[j] PROVE i = j
    OBVIOUS
  <2>1. CASE i \in 1 .. Len(s) /\ j \in 1 .. Len(s)
    BY <1>1, <2>1, SetOf
  <2>2. \A k \in 1 .. Len(s) : s[k] # x
    BY SetOf
  <2> QED
    BY <1>1, <1>2, <2>1, <2>2
<1>4. \A y : (\E i \in 1 .. Len(a) : a[i] = y) <=> (\E i \in 1 .. Len(s) : s[i] = y) \/ y = x
  BY <1>1, <1>2
<1> QED
  BY <1>1, <1>3, <1>4, SetOf DEF a

LEMMA Divided ==
  ASSUME NEW S, NEW s \in Seq(S), NEW n \in 1 .. Len(s), IsInjective(s)
  PROVE  LET a == SubSeq(s, 1, n)
             b == SubSeq(s, n + 1, Len(s))
         IN  /\ a \in Seq(S) /\ IsInjective(a) /\ Len(a) = n /\ a[1] = s[1]
             /\ b \in Seq(S) /\ IsInjective(b)
             /\ \A y : y \in ToSet(a) => y \in ToSet(s)
             /\ \A y : y \in ToSet(b) <=> y \in ToSet(s) /\ y \notin ToSet(a)
<1> DEFINE a == SubSeq(s, 1, n)
           b == SubSeq(s, n + 1, Len(s))
<1>1. Len(s) \in Nat /\ n \in Nat /\ \A i \in 1 .. Len(s) : s[i] \in S
  BY SetOf
<1>2. a \in Seq(S) /\ Len(a) = n /\ \A i \in 1 .. n : a[i] = s[i]
  BY <1>1, SubSeqProperties
<1>3. b \in Seq(S) /\ Len(b) = Len(s) - n /\ \A i \in 1 .. Len(s) - n : b[i] = s[n + i]
  <2>1. \A i \in n + 1 .. Len(s) : s[i] \in S
    BY <1>1
  <2> HIDE DEF b
  <2>2. /\ b \in Seq(S)
        /\ Len(b) = IF n + 1 <= Len(s) THEN Len(s) - (n + 1) + 1 ELSE 0
        /\ \A i \in 1 .. Len(s) - (n + 1) + 1 : b[i] = s[n + 1 + i - 1]
    BY <1>1, <2>1, SubSeqProperties DEF b
  <2> QED
    BY <1>1, <2>2
<1> HIDE DEF a, b
<1>4. \A i, j \in 1 .. Len(s) : s[i] = s[j] => i = j
  BY SetOf
<1>5. IsInjective(a)
  BY <1>1, <1>2, <1>4, SetOf
<1>6. \A i \in 1 .. Len(b) : n + i \in 1 .. Len(s)
  BY <1>1, <1>3
<1>7. \A i, j \in 1 .. Len(b) : b[i] = b[j] => i = j
  <2> SUFFICES ASSUME NEW i \in 1 .. Len(b), NEW j \in 1 .. Len(b), b[i] = b[j] PROVE i = j
    OBVIOUS
  <2>1. n + i = n + j
    BY <1>1, <1>3, <1>4, <1>6
  <2> QED
    BY <1>1, <1>3, <2>1
<1>8. ASSUME NEW y PROVE y \in ToSet(a) => y \in ToSet(s)
  BY <1>1, <1>2, SetOf
<1>9. ASSUME NEW y PROVE y \in ToSet(b) <=> y \in ToSet(s) /\ y \notin ToSet(a)
  <2>1. ASSUME y \in ToSet(b) PROVE y \in ToSet(s) /\ y \notin ToSet(a)
    <3>1. PICK i \in 1 .. Len(b) : b[i] = y
      BY <1>3, <2>1, SetOf
    <3>2. n + i \in 1 .. Len(s) /\ s[n + i] = y
      BY <1>1, <1>3, <1>6, <3>1
    <3>3. \A j \in 1 .. n : s[j] # y
      BY <1>1, <1>4, <3>2
    <3> QED
      BY <1>2, <3>2, <3>3, SetOf
  <2>2. ASSUME y \in ToSet(s), y \notin ToSet(a) PROVE y \in ToSet(b)
    <3>1. PICK i \in 1 .. Len(s) : s[i] = y
      BY <2>2, SetOf
    <3>2. ~(i \in 1 .. n)
      BY <1>2, <2>2, <3>1, SetOf
    <3>3. i - n \in 1 .. Len(b) /\ n + (i - n) = i
      BY <1>1, <1>3, <3>1, <3>2
    <3>4. b[i - n] = y
      BY <1>3, <3>1, <3>3
    <3> QED
      BY <1>3, <3>3, <3>4, SetOf
  <2> QED
    BY <2>1, <2>2
<1>10. a[1] = s[1]
  BY <1>1, <1>2
<1> QED
  BY <1>2, <1>3, <1>5, <1>7, <1>8, <1>9, <1>10, SetOf DEF a, b

LEMMA RemovedFromSet ==
  ASSUME NEW S, NEW s \in Seq(S), NEW k \in 1 .. Len(s), IsInjective(s)
  PROVE  /\ RemoveAt(s, k) \in Seq(S) /\ IsInjective(RemoveAt(s, k))
         /\ \A y : y \in ToSet(RemoveAt(s, k)) <=> y \in ToSet(s) /\ y # s[k]
<1> DEFINE a == SubSeq(s, 1, k - 1)
           b == SubSeq(s, k + 1, Len(s))
           c == a \o b
<1>1. Len(s) \in Nat /\ k \in Nat /\ \A i \in 1 .. Len(s) : s[i] \in S
  BY SetOf
<1>2. a \in Seq(S) /\ Len(a) = k - 1 /\ \A i \in 1 .. k - 1 : a[i] = s[i]
  <2>1. \A i \in 1 .. k - 1 : s[i] \in S
    BY <1>1
  <2>2. k - 1 \in Int
    BY <1>1
  <2> HIDE DEF a
  <2>3. /\ a \in Seq(S)
        /\ Len(a) = IF 1 <= k - 1 THEN k - 1 - 1 + 1 ELSE 0
        /\ \A i \in 1 .. k - 1 - 1 + 1 : a[i] = s[1 + i - 1]
    BY <2>1, <2>2, SubSeqProperties DEF a
  <2> QED
    BY <1>1, <2>3
<1>3. b \in Seq(S) /\ Len(b) = Len(s) - k /\ \A i \in 1 .. Len(s) - k : b[i] = s[k + i]
  <2>1. \A i \in k + 1 .. Len(s) : s[i] \in S
    BY <1>1
  <2> HIDE DEF b
  <2>2. /\ b \in Seq(S)
        /\ Len(b) = IF k + 1 <= Len(s) THEN Len(s) - (k + 1) + 1 ELSE 0
        /\ \A i \in 1 .. Len(s) - (k + 1) + 1 : b[i] = s[k + 1 + i - 1]
    BY <1>1, <2>1, SubSeqProperties DEF b
  <2> QED
    BY <1>1, <2>2
<1> HIDE DEF a, b
<1>4. /\ c \in Seq(S) /\ Len(c) = Len(s) - 1
      /\ \A i \in 1 .. Len(c) : c[i] = IF i < k THEN s[i] ELSE s[i + 1]
  <2>1. /\ c \in Seq(S) /\ Len(c) = Len(a) + Len(b)
        /\ \A i \in 1 .. Len(a) + Len(b) : c[i] = IF i <= Len(a) THEN a[i] ELSE b[i - Len(a)]
    BY <1>2, <1>3, ConcatProperties
  <2> HIDE DEF c
  <2>2. Len(c) = Len(s) - 1
    BY <1>1, <1>2, <1>3, <2>1
  <2>3. ASSUME NEW i \in 1 .. Len(c) PROVE c[i] = IF i < k THEN s[i] ELSE s[i + 1]
    <3>1. CASE i < k
      BY <1>1, <1>2, <1>3, <2>1, <2>2, <3>1
    <3>2. CASE ~(i < k)
      <4>1. i - (k - 1) \in 1 .. Len(s) - k /\ k + (i - (k - 1)) = i + 1 /\ ~(i <= k - 1)
        BY <1>1, <2>2, <3>2
      <4> QED
        BY <1>2, <1>3, <2>1, <3>2, <4>1
    <3> QED
      BY <3>1, <3>2
  <2> QED
    BY <2>1, <2>2, <2>3
<1>5. RemoveAt(s, k) = c
  BY DEF RemoveAt, a, b
<1> HIDE DEF c
<1>6. \A i, j \in 1 .. Len(s) : s[i] = s[j] => i = j
  BY SetOf
<1> DEFINE Old(i) == IF i < k THEN i ELSE i + 1
<1>7. \A i \in 1 .. Len(c) : Old(i) \in 1 .. Len(s) /\ Old(i) # k /\ c[i] = s[Old(i)]
  BY <1>1, <1>4
<1>8. \A i, j \in 1 .. Len(c) : Old(i) = Old(j) => i = j
  BY <1>1, <1>4
<1>9. \A i \in 1 .. Len(s) : i # k => \E j \in 1 .. Len(c) : Old(j) = i
  <2> SUFFICES ASSUME NEW i \in 1 .. Len(s), i # k PROVE \E j \in 1 .. Len(c) : Old(j) = i
    OBVIOUS
  <2>1. CASE i < k
    BY <1>1, <1>4, <2>1
  <2>2. CASE ~(i < k)
    <3>1. i - 1 \in 1 .. Len(c) /\ Old(i - 1) = i
      BY <1>1, <1>4, <2>2
    <3> QED
      BY <3>1
  <2> QED
    BY <2>1, <2>2
<1> HIDE DEF Old
<1>10. IsInjective(c)
  BY <1>4, <1>6, <1>7, <1>8, SetOf
<1>11. ASSUME NEW y PROVE y \in ToSet(c) <=> y \in ToSet(s) /\ y # s[k]
  <2>1. y \in ToSet(c) <=> \E i \in 1 .. Len(c) : c[i] = y
    BY <1>4, SetOf
  <2>2. y \in ToSet(s) <=> \E i \in 1 .. Len(s) : s[i] = y
    BY SetOf
  <2> QED
    BY <1>6, <1>7, <1>9, <2>1, <2>2
<1> QED
  BY <1>4, <1>5, <1>10, <1>11

LEMMA WithoutLast ==
  ASSUME NEW S, NEW s \in Seq(S), s # <<>>
  PROVE  /\ Len(s) \in Nat /\ Len(s) > 0 /\ Last(s) = s[Len(s)] /\ Last(s) \in S
         /\ Front(s) \in Seq(S) /\ Len(Front(s)) = Len(s) - 1
         /\ \A i \in 1 .. Len(s) - 1 : Front(s)[i] = s[i]
<1>1. Len(s) \in Nat /\ Len(s) > 0 /\ \A i \in 1 .. Len(s) : s[i] \in S
  BY SetOf, EmptySeq
<1>2. \A i \in 1 .. Len(s) - 1 : s[i] \in S
  BY <1>1
<1>3. Len(s) - 1 \in Int
  BY <1>1
<1>4. /\ Front(s) \in Seq(S)
      /\ Len(Front(s)) = IF 1 <= Len(s) - 1 THEN Len(s) - 1 - 1 + 1 ELSE 0
      /\ \A i \in 1 .. Len(s) - 1 - 1 + 1 : Front(s)[i] = s[1 + i - 1]
  BY <1>2, <1>3, SubSeqProperties DEF Front
<1>5. Last(s) = s[Len(s)] /\ Last(s) \in S
  BY <1>1 DEF Last
<1> DEFINE f == Front(s)
<1> HIDE DEF f
<1>6. Len(f) = Len(s) - 1 /\ \A i \in 1 .. Len(s) - 1 : f[i] = s[i]
  <2>1. /\ Len(f) = IF 1 <= Len(s) - 1 THEN Len(s) - 1 - 1 + 1 ELSE 0
        /\ \A i \in 1 .. Len(s) - 1 - 1 + 1 : f[i] = s[1 + i - 1]
    BY <1>4 DEF f
  <2> DEFINE n == Len(s)
  <2> HIDE DEF n
  <2>2. n \in Nat /\ n > 0 /\ n = Len(s)
    BY <1>1 DEF n
  <2>3. (IF 1 <= n - 1 THEN n - 1 - 1 + 1 ELSE 0) = n - 1
    BY <2>2
  <2>4. \A i \in 1 .. n - 1 : i \in 1 .. n - 1 - 1 + 1 /\ 1 + i - 1 = i
    BY <2>2
  <2> QED
    BY <2>1, <2>2, <2>3, <2>4
<1> QED
  BY <1>1, <1>4, <1>5, <1>6 DEF f

-----------------------------------------------------------------------------
(***************************************************************************)
(* Types.                                                                  *)
(***************************************************************************)
History == Seq(Token)

KvOf == Seq(Cell) \cup {None}

StateTyped ==
  /\ setting \in Setting /\ deaths \in 0 .. MaxDeaths
  /\ state \in [Req -> {"new", "waiting", "running"} \cup Ended]
  /\ out \in [Req -> History] /\ \A r \in Req : Len(out[r]) <= Cap[r]
  /\ kv \in [Stage -> [Id -> KvOf]]

SocketsTyped == sock \in [Lane -> [Stage -> Channel] \cup {None}]

\* A job has as many rows as histories.
JobTyped ==
  /\ job \in [Lane -> Job \cup {None}]
  /\ \A l \in Lane : job[l] # None =>
       /\ IsInjective(job[l].rows) /\ Len(job[l].rows) \in 1 .. setting.maxBatch
       /\ Len(job[l].hist) = Len(job[l].rows)

\* Who waits is on the list, once.
WaitingTyped ==
  /\ waiting \in Seq(Req) /\ IsInjective(waiting)
  /\ \A r \in Req : state[r] = "waiting" <=> r \in ToSet(waiting)

\* A lane is lent, or idle, or was never made.  The scheduler has lane 1.
LanesTyped ==
  /\ made \in Nat /\ made <= setting.lanes /\ (Batching => made = 0)
  /\ idle \in Seq(Lane) /\ IsInjective(idle)
  /\ \A i \in 1 .. Len(idle) : idle[i] \in 1 .. made /\ job[idle[i]] = None
  /\ \A l \in Lane : job[l] # None => IF Batching THEN l = 1 ELSE l <= made

\* A running request has exactly one lane.
OneLane ==
  \A r \in Req : IF state[r] = "running" THEN \E l \in Lane : Holding(r) = {l} ELSE Holding(r) = {}

\* Ids are given to requests that no longer wait, so they do not run out.
Begun == {r \in Req : state[r] \notin {"new", "waiting"}}

IdsTyped ==
  /\ nextId \in Nat \ {0} /\ nextId - 1 <= Cardinality(Begun)
  /\ \A l \in Lane : job[l] # None =>
       /\ job[l].id < nextId
       /\ \A m \in Lane : job[m] # None /\ job[m].id = job[l].id => l = m

\* A job without sockets has done nothing yet.
FirstConnects ==
  \A l \in Lane : job[l] # None /\ sock[l] = None =>
    job[l].start /\ job[l].hop = 1 /\ job[l].phase = "write"

Typed ==
  /\ StateTyped /\ SocketsTyped /\ JobTyped /\ WaitingTyped /\ LanesTyped /\ OneLane /\ IdsTyped
  /\ FirstConnects

-----------------------------------------------------------------------------
(***************************************************************************)
(* What is computed.  A batch that may have timed out reads answers to     *)
(* others; elsewhere a socket carries, besides frees of ids that are over, *)
(* only the question and the answer of the pass under way.                 *)
(***************************************************************************)
Exact == ~(Batching /\ "hang" \in setting.faults)

Retired(i) == i < nextId /\ \A l \in Lane : job[l] # None => job[l].id # i

Awaited(l, k) == At(l, "read") /\ job[l].hop = k

\* A frame frees what is over, or is the last one and the question of the pass.
FrameInOrder(l, k, n) ==
  LET c == sock[l][k]
  IN  \/ c.frames[n].op = "free" /\ Retired(c.frames[n].id)
      \/ Awaited(l, k) /\ n = Len(c.frames) /\ c.frames[n] = Run(l)

ChannelInOrder(l, k) ==
  LET c == sock[l][k]
  IN  /\ ~c.open => c.frames = <<>>
      /\ c.replies # <<>> =>
           Awaited(l, k) /\ c.frames = <<>> /\ c.replies = <<job[l].hist>>
      /\ \A n \in 1 .. Len(c.frames) : FrameInOrder(l, k, n)

\* Stage k has done its part of the pass.
Passed(l, k) ==
  \/ job[l].phase \in {"emit", "finish"} \/ k < job[l].hop
  \/ Awaited(l, k) /\ sock[l][k].replies # <<>>

Befores(l) == [b \in RowsOf(l) |-> Front(job[l].hist[b])]

\* What stage k holds for the job is its history, or all but the last tokens.
KvInOrder(l, k) ==
  sock[l][k].open =>
    IF Passed(l, k) THEN kv[k][job[l].id] = job[l].hist
    ELSE job[l].start \/ kv[k][job[l].id] = Befores(l)

\* What r's client was given so far, after its prompt.
Text(r) == PromptOf[r] \o out[r]

\* Nothing more is to be shown to r's client.
Settled(r) == Len(out[r]) >= Cap[r] \/ Argmax(Text(r)) \in Eos

RowInOrder(l, b) ==
  LET r == job[l].rows[b]
  IN  IF b \in job[l].over THEN Settled(r)
      ELSE job[l].phase # "finish" /\ job[l].hist[b] = Text(r)

JobInOrder(l) ==
  /\ job[l].phase # "finish" => job[l].hid = job[l].hist
  /\ job[l].phase \in {"emit", "finish"} => job[l].hop = 1
  /\ \A b \in RowsOf(l) : RowInOrder(l, b)

LaneInOrder(l) ==
  /\ sock[l] # None => \A k \in Stage : ChannelInOrder(l, k)
  /\ job[l] # None => JobInOrder(l)
  /\ job[l] # None /\ sock[l] # None => \A k \in Stage : KvInOrder(l, k)

Unbegun == \A r \in Req : state[r] \in {"new", "waiting"} => out[r] = <<>>

InOrder == Unbegun /\ \A l \in Lane : LaneInOrder(l)

RowsInv == Typed /\ (Exact => InOrder)

-----------------------------------------------------------------------------
(***************************************************************************)
(* What the types say, and what a step does.                               *)
(***************************************************************************)
LEMMA SettingFacts ==
  ASSUME setting \in Setting
  PROVE  /\ setting.mode \in {"gate", "batch"} /\ setting.faults \subseteq {"hang", "die", "leave"}
         /\ setting.lanes \in Lane /\ setting.lanes \in Nat /\ setting.lanes >= 1
         /\ setting.maxBatch \in Nat /\ setting.maxBatch >= 1
         /\ Batching => setting.lanes = 1
         /\ ~Batching => setting.maxBatch = 1
         /\ 1 \in Lane
<1>1. /\ IsFiniteSet(Lane) /\ Lane = 1 .. Cardinality(Lane) /\ setting.lanes \in Lane
      /\ setting.mode \in {"gate", "batch"} /\ setting.faults \subseteq {"hang", "die", "leave"}
      /\ setting.maxBatch \in Nat \ {0}
      /\ setting.mode = "batch" => setting.lanes = 1
      /\ setting.mode = "gate" => setting.maxBatch = 1
  BY StaticAssumption
<1>2. Cardinality(Lane) \in Nat
  BY <1>1, FS_CardinalityType
<1>3. Lane \subseteq Nat /\ \A l \in Lane : l >= 1
  BY <1>1, <1>2
<1>6. setting.lanes \in Nat /\ setting.lanes >= 1
  <2>1. setting.lanes \in Lane
    BY <1>1
  <2> QED
    BY <1>3, <2>1
<1>4. setting.lanes \in Nat /\ setting.lanes >= 1 /\ setting.maxBatch >= 1 /\ 1 \in Lane
  <2>1. setting.maxBatch \in Nat \ {0}
    BY <1>1
  <2>2. setting.maxBatch >= 1
    BY <2>1
  <2>3. setting.lanes \in 1 .. Cardinality(Lane)
    BY <1>1
  <2>4. 1 \in 1 .. Cardinality(Lane)
    BY <1>2, <2>3
  <2> QED
    BY <1>1, <1>6, <2>2, <2>4
<1> QED
  BY <1>1, <1>4 DEF Batching

LEMMA StageFacts == NumStages \in Nat /\ 1 \in Stage /\ \A k \in Stage : k \in Nat /\ k >= 1 /\ k <= NumStages
BY StaticAssumption DEF Stage

LEMMA IdFacts == Cardinality(Req) \in Nat /\ \A i : i \in Id <=> i \in Nat /\ i >= 1 /\ i <= Cardinality(Req)
BY StaticAssumption, FS_CardinalityType DEF Id

LEMMA CellFacts == /\ Junk \in Cell /\ \A h \in History : h \in Cell /\ h # Junk
                   /\ \A s \in Seq(History) : s \in Seq(Cell)
<1>1. History \subseteq Cell /\ Junk \in Cell /\ Junk \notin History
  BY StaticAssumption DEF Cell, History
<1> QED
  BY <1>1, SeqMonotonic

LEMMA JobFacts ==
  ASSUME NEW j \in Job
  PROVE  /\ j # None
         /\ j.rows \in Seq(Req) /\ j.id \in Id /\ j.start \in BOOLEAN /\ j.hop \in Stage
         /\ j.phase \in {"write", "read", "emit", "finish"}
         /\ j.hist \in Seq(History) /\ j.hid \in Seq(Cell) /\ j.over \in SUBSET Nat
         /\ Len(j.rows) \in Nat /\ Len(j.hist) \in Nat /\ Len(j.hid) \in Nat
<1>1. j # None
  BY StaticAssumption
<1>2. /\ j.rows \in Seq(Req) /\ j.id \in Id /\ j.start \in BOOLEAN /\ j.hop \in Stage
      /\ j.phase \in {"write", "read", "emit", "finish"}
      /\ j.hist \in Seq(History) /\ j.hid \in Seq(Cell) /\ j.over \in SUBSET Nat
  BY DEF Job, History
<1> QED
  BY <1>1, <1>2, LenProperties

LEMMA JobOn ==
  ASSUME JobTyped, NEW l \in Lane, job[l] # None
  PROVE  /\ job[l] \in Job /\ IsInjective(job[l].rows)
         /\ Len(job[l].rows) \in 1 .. setting.maxBatch /\ Len(job[l].hist) = Len(job[l].rows)
BY DEF JobTyped

LEMMA ChannelFacts ==
  ASSUME NEW c \in Channel
  PROVE  /\ c.open \in BOOLEAN /\ c.frames \in Seq(Frame) /\ c.replies \in Seq(Seq(Cell))
         /\ \A o \in BOOLEAN, f \in Seq(Frame), r \in Seq(Seq(Cell)) :
              [open |-> o, frames |-> f, replies |-> r] \in Channel
BY DEF Channel

LEMMA FrameFacts ==
  /\ \A i \in Id, s \in BOOLEAN, n \in Nat, h \in Seq(Cell) :
       [op |-> "run", id |-> i, start |-> s, rows |-> n, hid |-> h] \in Frame
  /\ \A i \in Id : [op |-> "free", id |-> i] \in Frame
  /\ \A f \in Frame : f.id \in Id /\ f.op \in {"run", "free"}
  /\ \A f \in Frame : f.op = "run" => f.start \in BOOLEAN /\ f.rows \in Nat /\ f.hid \in Seq(Cell)
BY DEF Frame

LEMMA Socket ==
  ASSUME SocketsTyped, NEW l \in Lane, sock[l] # None
  PROVE  sock[l] \in [Stage -> Channel] /\ \A k \in Stage : sock[l][k] \in Channel
BY DEF SocketsTyped

\* Nothing happens on other lanes.
OnlyOn(l) == \A m \in Lane : m # l => job'[m] = job[m] /\ sock'[m] = sock[m]

\* The job of lane l goes on.
GoesOn(l) ==
  /\ job[l] # None /\ job'[l] # None /\ job'[l] \in Job
  /\ job' \in [Lane -> Job \cup {None}]
  /\ job'[l].rows = job[l].rows /\ job'[l].id = job[l].id

LEMMA GoesOnTyped ==
  ASSUME Typed, NEW l \in Lane, GoesOn(l), \A m \in Lane : m # l => job'[m] = job[m],
         Len(job'[l].hist) = Len(job[l].rows),
         UNCHANGED <<setting, state, waiting, lanes>>
  PROVE  JobTyped' /\ WaitingTyped' /\ LanesTyped' /\ OneLane' /\ IdsTyped'
<1>0. UNCHANGED <<setting, state, waiting, idle, made, nextId>>
  BY DEF lanes
<1>1. \A m \in Lane : (job'[m] # None <=> job[m] # None) /\ (job[m] # None =>
        job'[m].rows = job[m].rows /\ job'[m].id = job[m].id)
  BY DEF GoesOn
<1>2. \A m \in Lane : m # l /\ job'[m] # None => Len(job'[m].hist) = Len(job'[m].rows)
  BY JobOn DEF Typed
<1>3. JobTyped'
  BY <1>0, <1>1, <1>2 DEF Typed, JobTyped, GoesOn
<1>4. \A r \in Req : Holding(r)' = Holding(r)
  BY <1>1 DEF Holding
<1>5. OneLane'
  BY <1>0, <1>4 DEF Typed, OneLane
<1>6. WaitingTyped'
  BY <1>0 DEF Typed, WaitingTyped
<1>7. LanesTyped'
  <2>1. Batching' = Batching
    BY <1>0 DEF Batching
  <2>2. \A i \in 1 .. Len(idle) : idle[i] \in Lane
    BY ElementOfSeq DEF Typed, LanesTyped
  <2> QED
    BY <1>0, <1>1, <2>1, <2>2 DEF Typed, LanesTyped
<1>8. IdsTyped'
  BY <1>0, <1>1 DEF Typed, IdsTyped, Begun
<1> QED
  BY <1>3, <1>5, <1>6, <1>7, <1>8

LEMMA ConnectSteps ==
  ASSUME Typed, NEW l \in Lane, Connect(l)
  PROVE  /\ job[l] # None /\ job[l].phase = "write" /\ sock[l] = None /\ SocketsTyped' /\ OnlyOn(l)
         /\ sock'[l] # None /\ \A k \in Stage : sock'[l][k] = Fresh
         /\ UNCHANGED <<setting, requests, lanes, job, kv, deaths>>
<1>1. /\ job[l] # None /\ job[l].phase = "write" /\ sock[l] = None
      /\ sock' = [sock EXCEPT ![l] = [k \in Stage |-> Fresh]]
      /\ UNCHANGED <<setting, requests, lanes, job, kv, deaths>>
  BY DEF Connect, At
<1>2. <<>> \in Seq(Frame) /\ <<>> \in Seq(Seq(Cell))
  BY EmptySeq
<1>3. Fresh \in Channel
  BY <1>2 DEF Fresh, Channel
<1> DEFINE s == [k \in Stage |-> Fresh]
<1>4. s \in [Stage -> Channel] /\ s # None /\ \A k \in Stage : s[k] = Fresh
  BY <1>3, StaticAssumption
<1> HIDE DEF s
<1>5. sock' = [sock EXCEPT ![l] = s]
  BY <1>1 DEF s
<1>6. sock'[l] = s /\ \A m \in Lane : m # l => sock'[m] = sock[m]
  BY <1>5 DEF Typed, SocketsTyped
<1>7. SocketsTyped'
  BY <1>4, <1>5 DEF Typed, SocketsTyped
<1> QED
  BY <1>1, <1>4, <1>6, <1>7 DEF OnlyOn

LEMMA RunFacts == ASSUME JobTyped, NEW l \in Lane, job[l] # None PROVE Run(l) \in Frame
<1>1. /\ job[l].id \in Id /\ job[l].start \in BOOLEAN /\ Len(job[l].rows) \in Nat
      /\ job[l].hid \in Seq(Cell)
  BY JobOn, JobFacts
<1> QED
  BY <1>1, FrameFacts DEF Run

LEMMA ChannelChanged ==
  ASSUME SocketsTyped, NEW l \in Lane, sock[l] # None, NEW k \in Stage, NEW c \in Channel,
         sock' = [sock EXCEPT ![l] = [sock[l] EXCEPT ![k] = c]]
  PROVE  /\ SocketsTyped' /\ sock'[l] # None /\ sock'[l][k] = c
         /\ \A m \in Lane : m # l => sock'[m] = sock[m]
         /\ \A i \in Stage : i # k => sock'[l][i] = sock[l][i]
<1> DEFINE s == [sock[l] EXCEPT ![k] = c]
<1>1. s \in [Stage -> Channel] /\ s[k] = c /\ \A i \in Stage : i # k => s[i] = sock[l][i]
  BY Socket
<1>2. s # None
  BY <1>1, StaticAssumption
<1>3. sock' = [sock EXCEPT ![l] = s]
  OBVIOUS
<1> HIDE DEF s
<1> QED
  BY <1>1, <1>2, <1>3 DEF SocketsTyped

LEMMA WriteSteps ==
  ASSUME Typed, NEW l \in Lane, Write(l)
  PROVE  LET k == job[l].hop
         IN  /\ k \in Stage /\ job[l].phase = "write" /\ sock[l] # None /\ sock[l][k].open
             /\ SocketsTyped' /\ OnlyOn(l) /\ GoesOn(l) /\ sock'[l] # None
             /\ job'[l].start = job[l].start /\ job'[l].hop = k /\ job'[l].phase = "read"
             /\ job'[l].hist = job[l].hist /\ job'[l].hid = job[l].hid /\ job'[l].over = job[l].over
             /\ \A i \in Stage : i # k => sock'[l][i] = sock[l][i]
             /\ sock'[l][k].open /\ sock'[l][k].replies = sock[l][k].replies
             /\ sock'[l][k].frames = Append(sock[l][k].frames, Run(l))
             /\ UNCHANGED <<setting, requests, lanes, kv, deaths>>
<1> DEFINE k == job[l].hop
           c == [sock[l][k] EXCEPT !.frames = Append(@, Run(l))]
           j == [job[l] EXCEPT !.phase = "read"]
<1>1. /\ job[l] # None /\ job[l].phase = "write" /\ sock[l] # None /\ sock[l][k].open
      /\ sock' = [sock EXCEPT ![l] = [sock[l] EXCEPT ![k] = c]]
      /\ job' = [job EXCEPT ![l] = j]
      /\ UNCHANGED <<setting, requests, lanes, kv, deaths>>
  BY DEF Write, At, Link
<1>2. job[l] \in Job
  BY <1>1, JobOn DEF Typed
<1>3. k \in Stage
  BY <1>2, JobFacts
<1>4. sock[l][k] \in Channel
  BY <1>1, <1>3, Socket DEF Typed
<1>5. Append(sock[l][k].frames, Run(l)) \in Seq(Frame)
  BY <1>1, <1>4, RunFacts, ChannelFacts, AppendProperties DEF Typed
<1>6. /\ c \in Channel /\ c.open = sock[l][k].open /\ c.replies = sock[l][k].replies
      /\ c.frames = Append(sock[l][k].frames, Run(l))
  BY <1>4, <1>5 DEF Channel
<1>7. /\ j \in Job /\ j.rows = job[l].rows /\ j.id = job[l].id
      /\ j.start = job[l].start /\ j.hop = k /\ j.phase = "read"
      /\ j.hist = job[l].hist /\ j.hid = job[l].hid /\ j.over = job[l].over
  BY <1>2 DEF Job
<1>8. j # None
  BY <1>7, StaticAssumption
<1> HIDE DEF c, j
<1>9. /\ job'[l] = j /\ (\A m \in Lane : m # l => job'[m] = job[m])
      /\ job' \in [Lane -> Job \cup {None}]
  BY <1>1, <1>7 DEF Typed, JobTyped
<1>10. /\ SocketsTyped' /\ sock'[l] # None /\ sock'[l][k] = c
       /\ \A m \in Lane : m # l => sock'[m] = sock[m]
       /\ \A i \in Stage : i # k => sock'[l][i] = sock[l][i]
  BY <1>1, <1>3, <1>6, ChannelChanged DEF Typed
<1> HIDE DEF k
<1>11. OnlyOn(l)
  BY <1>9, <1>10 DEF OnlyOn
<1>12. GoesOn(l)
  BY <1>1, <1>7, <1>8, <1>9 DEF GoesOn
<1> QED
  BY <1>1, <1>3, <1>6, <1>7, <1>9, <1>10, <1>11, <1>12 DEF k

LEMMA ReadSteps ==
  ASSUME Typed, NEW l \in Lane, Read(l), sock[l] # None
  PROVE  LET k == job[l].hop
         IN  /\ k \in Stage /\ job[l].phase = "read"
             /\ sock[l][k].replies # <<>>
             /\ SocketsTyped' /\ OnlyOn(l) /\ GoesOn(l) /\ sock'[l] # None
             /\ job'[l].start = job[l].start
             /\ job'[l].hop = (IF k < NumStages THEN k + 1 ELSE 1)
             /\ job'[l].phase = (IF k < NumStages THEN "write" ELSE "emit")
             /\ job'[l].hist = job[l].hist /\ job'[l].over = job[l].over
             /\ job'[l].hid = Head(sock[l][k].replies)
             /\ \A i \in Stage : i # k => sock'[l][i] = sock[l][i]
             /\ sock'[l][k].open = sock[l][k].open /\ sock'[l][k].frames = sock[l][k].frames
             /\ sock'[l][k].replies = Tail(sock[l][k].replies)
             /\ UNCHANGED <<setting, requests, lanes, kv, deaths>>
<1> DEFINE k == job[l].hop
           c == [sock[l][k] EXCEPT !.replies = Tail(@)]
           h == Head(sock[l][k].replies)
           n == IF k < NumStages THEN k + 1 ELSE 1
           p == IF k < NumStages THEN "write" ELSE "emit"
           j == [job[l] EXCEPT !.hid = h, !.hop = n, !.phase = p]
<1>1. /\ job[l] # None /\ job[l].phase = "read" /\ sock[l][k].replies # <<>>
      /\ sock' = [sock EXCEPT ![l] = [sock[l] EXCEPT ![k] = c]]
      /\ job' = [job EXCEPT ![l] = j]
      /\ UNCHANGED <<setting, requests, lanes, kv, deaths>>
  BY DEF Read, At, Link
<1>2. job[l] \in Job
  BY <1>1, JobOn DEF Typed
<1>3. k \in Stage
  BY <1>2, JobFacts
<1>4. sock[l][k] \in Channel
  BY <1>3, Socket DEF Typed
<1>5. h \in Seq(Cell) /\ Tail(sock[l][k].replies) \in Seq(Seq(Cell))
  BY <1>1, <1>4, ChannelFacts, HeadTailProperties
<1>6. /\ c \in Channel /\ c.open = sock[l][k].open /\ c.frames = sock[l][k].frames
      /\ c.replies = Tail(sock[l][k].replies)
  BY <1>4, <1>5 DEF Channel
<1>7. n \in Stage /\ p \in {"write", "read", "emit", "finish"}
  BY <1>3, StageFacts DEF Stage
<1> HIDE DEF h, n, p
<1>8. /\ j \in Job /\ j.rows = job[l].rows /\ j.id = job[l].id
      /\ j.start = job[l].start /\ j.hop = n /\ j.phase = p
      /\ j.hist = job[l].hist /\ j.hid = h /\ j.over = job[l].over
  BY <1>2, <1>5, <1>7 DEF Job
<1>9. j # None
  BY <1>8, StaticAssumption
<1> HIDE DEF c, j
<1>10. /\ job'[l] = j /\ (\A m \in Lane : m # l => job'[m] = job[m])
       /\ job' \in [Lane -> Job \cup {None}]
  BY <1>1, <1>8 DEF Typed, JobTyped
<1>11. /\ SocketsTyped' /\ sock'[l] # None /\ sock'[l][k] = c
       /\ \A m \in Lane : m # l => sock'[m] = sock[m]
       /\ \A i \in Stage : i # k => sock'[l][i] = sock[l][i]
  BY <1>1, <1>3, <1>6, ChannelChanged DEF Typed
<1> HIDE DEF k
<1>12. OnlyOn(l)
  BY <1>10, <1>11 DEF OnlyOn
<1>13. GoesOn(l)
  BY <1>1, <1>8, <1>9, <1>10 DEF GoesOn
<1>14. job'[l].hop = n /\ job'[l].phase = p /\ job'[l].hid = h
  BY <1>8, <1>10
<1> QED
  BY <1>1, <1>3, <1>6, <1>8, <1>10, <1>11, <1>12, <1>13, <1>14 DEF k, n, p, h

\* Row b's client is shown t, or not.
ShowsRow(l, b, t) ==
  out'[job[l].rows[b]] = IF IsShown(l, b, t) THEN Append(out[job[l].rows[b]], t)
                         ELSE out[job[l].rows[b]]

Overs(l, nxt) == {b \in RowsOf(l) : IsOver(l, b, nxt[b])}

Nexts(l, nxt) == [b \in RowsOf(l) |-> Append(job[l].hist[b], nxt[b])]

LEMMA RowFacts ==
  ASSUME Typed, NEW l \in Lane, job[l] # None
  PROVE  /\ \A b \in RowsOf(l) : job[l].rows[b] \in Req /\ job[l].hist[b] \in History
                                 /\ job[l].rows[b] \in ToSet(job[l].rows)
         /\ \A r \in ToSet(job[l].rows) : \E b \in RowsOf(l) : job[l].rows[b] = r
         /\ \A b, c \in RowsOf(l) : job[l].rows[b] = job[l].rows[c] => b = c
         /\ Len(job[l].rows) \in Nat /\ Len(job[l].rows) >= 1
<1>1. /\ job[l].rows \in Seq(Req) /\ job[l].hist \in Seq(History)
      /\ Len(job[l].hist) = Len(job[l].rows) /\ IsInjective(job[l].rows)
      /\ Len(job[l].rows) \in 1 .. setting.maxBatch
  BY JobOn, JobFacts DEF Typed
<1>2. \A b \in RowsOf(l) : job[l].rows[b] \in Req /\ job[l].hist[b] \in History
  BY <1>1, ElementOfSeq DEF RowsOf
<1>3. /\ \A r : r \in ToSet(job[l].rows) <=> \E b \in RowsOf(l) : job[l].rows[b] = r
      /\ \A b, c \in RowsOf(l) : job[l].rows[b] = job[l].rows[c] => b = c
  BY <1>1, SetOf DEF RowsOf
<1>4. Len(job[l].rows) \in Nat /\ Len(job[l].rows) >= 1
  BY <1>1
<1> QED
  BY <1>2, <1>3, <1>4

LEMMA EmitSteps ==
  ASSUME Typed, NEW l \in Lane, Emit(l)
  PROVE  /\ job[l].phase = "emit" /\ OnlyOn(l) /\ GoesOn(l)
         /\ job'[l].start = FALSE /\ job'[l].hop = job[l].hop
         /\ Len(job'[l].hist) = Len(job[l].rows)
         /\ UNCHANGED <<setting, state, waiting, lanes, sock, kv, deaths>>
         /\ \E nxt \in [RowsOf(l) -> Token] :
              LET O == Overs(l, nxt)
              IN  /\ \A b \in RowsOf(l) : nxt[b] \in Says(job[l].hid[b])
                  /\ \A r \in Req : r \notin ToSet(job[l].rows) => out'[r] = out[r]
                  /\ \A b \in RowsOf(l) : ShowsRow(l, b, nxt[b])
                  /\ out' = [r \in Req |-> out'[r]]
                  /\ job'[l].over = O
                  /\ O = RowsOf(l) => job'[l].hist = job[l].hist /\ job'[l].phase = "finish"
                  /\ O # RowsOf(l) => /\ job'[l].hist = Nexts(l, nxt) /\ job'[l].phase = "write"
                                      /\ job'[l].hid = Nexts(l, nxt)
<1>1. PICK nxt \in [RowsOf(l) -> Token] :
       /\ \A b \in RowsOf(l) : nxt[b] \in Says(job[l].hid[b])
       /\ out' = [r \in Req |->
            IF \E b \in RowsOf(l) : job[l].rows[b] = r /\ IsShown(l, b, nxt[b])
            THEN Append(out[r], nxt[CHOOSE b \in RowsOf(l) : job[l].rows[b] = r])
            ELSE out[r]]
       /\ LET over == {b \in RowsOf(l) : IsOver(l, b, nxt[b])}
              next == [b \in RowsOf(l) |-> Append(job[l].hist[b], nxt[b])]
          IN  job' = [job EXCEPT ![l].over = over,
                        ![l].start = FALSE,
                        ![l].hist = IF over = RowsOf(l) THEN @ ELSE next,
                        ![l].hid = IF over = RowsOf(l) THEN <<>> ELSE next,
                        ![l].phase = IF over = RowsOf(l) THEN "finish" ELSE "write"]
  BY DEF Emit
<1> DEFINE O == Overs(l, nxt)
           N == Nexts(l, nxt)
           g == IF O = RowsOf(l) THEN job[l].hist ELSE N
           h == IF O = RowsOf(l) THEN <<>> ELSE N
           p == IF O = RowsOf(l) THEN "finish" ELSE "write"
           j == [job[l] EXCEPT !.over = O, !.start = FALSE, !.hist = g, !.hid = h, !.phase = p]
<1>2. /\ job[l] # None /\ job[l].phase = "emit"
      /\ UNCHANGED <<setting, state, waiting, lanes, sock, kv, deaths>>
  BY DEF Emit, At
<1>3. job' = [job EXCEPT ![l] = j]
  BY <1>1 DEF Overs, Nexts
<1>4. job[l] \in Job
  BY <1>2, JobOn DEF Typed
<1>5. N \in Seq(History) /\ Len(N) = Len(job[l].rows)
  <2>1. \A b \in RowsOf(l) : Append(job[l].hist[b], nxt[b]) \in History
    BY <1>2, RowFacts, AppendProperties DEF History
  <2>2. N \in [1 .. Len(job[l].rows) -> History] /\ Len(job[l].rows) \in Nat
    BY <1>2, <2>1, RowFacts DEF Nexts, RowsOf
  <2> QED
    BY <2>2
<1>6. g \in Seq(History) /\ Len(g) = Len(job[l].rows) /\ h \in Seq(Cell)
  <2>1. job[l].hist \in Seq(History) /\ Len(job[l].hist) = Len(job[l].rows)
    BY <1>2, JobOn, JobFacts DEF Typed
  <2>2. <<>> \in Seq(Cell) /\ N \in Seq(Cell)
    BY <1>5, CellFacts
  <2> QED
    BY <1>5, <2>1, <2>2
<1>7. O \in SUBSET Nat
  BY <1>2, RowFacts DEF Overs, RowsOf
<1> HIDE DEF O, N
<1>8. p \in {"write", "read", "emit", "finish"}
  OBVIOUS
<1>9. /\ j \in Job /\ j.rows = job[l].rows /\ j.id = job[l].id
      /\ j.start = FALSE /\ j.hop = job[l].hop /\ j.phase = p
      /\ j.hist = g /\ j.hid = h /\ j.over = O
  <2> HIDE DEF g, h, p
  <2> QED
    BY <1>4, <1>6, <1>7, <1>8 DEF Job, History
<1>10. j # None
  BY <1>9, StaticAssumption
<1> HIDE DEF j
<1>11. /\ job'[l] = j /\ (\A m \in Lane : m # l => job'[m] = job[m])
       /\ job' \in [Lane -> Job \cup {None}]
  BY <1>3, <1>9 DEF Typed, JobTyped
<1>12. OnlyOn(l) /\ GoesOn(l)
  BY <1>2, <1>9, <1>10, <1>11 DEF OnlyOn, GoesOn
<1> DEFINE Gets(r) == \E b \in RowsOf(l) : job[l].rows[b] = r /\ IsShown(l, b, nxt[b])
           Its(r) == CHOOSE b \in RowsOf(l) : job[l].rows[b] = r
           To(r) == IF Gets(r) THEN Append(out[r], nxt[Its(r)]) ELSE out[r]
<1>20. out' = [r \in Req |-> To(r)]
  BY <1>1
<1>21. \A r \in Req : r \notin ToSet(job[l].rows) => ~Gets(r)
  BY <1>2, RowFacts
<1>22. ASSUME NEW b \in RowsOf(l)
       PROVE  /\ job[l].rows[b] \in Req
              /\ Its(job[l].rows[b]) = b
              /\ Gets(job[l].rows[b]) <=> IsShown(l, b, nxt[b])
  <2> DEFINE r == job[l].rows[b]
  <2>1. r \in Req /\ \A c \in RowsOf(l) : job[l].rows[c] = r <=> c = b
    BY <1>2, RowFacts
  <2> HIDE DEF r
  <2>2. (CHOOSE c \in RowsOf(l) : job[l].rows[c] = r) = b
    BY <2>1
  <2>3. (\E c \in RowsOf(l) : job[l].rows[c] = r /\ IsShown(l, c, nxt[c])) <=> IsShown(l, b, nxt[b])
    BY <2>1
  <2> QED
    BY <2>1, <2>2, <2>3 DEF r
<1> HIDE DEF Gets, Its
<1>13. \A r \in Req : r \notin ToSet(job[l].rows) => out'[r] = out[r]
  BY <1>20, <1>21
<1>14. \A b \in RowsOf(l) : ShowsRow(l, b, nxt[b])
  BY <1>20, <1>22 DEF ShowsRow
<1>15. out' = [r \in Req |-> out'[r]]
  BY <1>20
<1>16. /\ job'[l].start = FALSE /\ job'[l].hop = job[l].hop /\ Len(job'[l].hist) = Len(job[l].rows)
       /\ job'[l].over = O
       /\ O = RowsOf(l) => job'[l].hist = job[l].hist /\ job'[l].phase = "finish"
       /\ O # RowsOf(l) => job'[l].hist = N /\ job'[l].phase = "write" /\ job'[l].hid = N
  BY <1>6, <1>9, <1>11
<1>17. /\ \A b \in RowsOf(l) : nxt[b] \in Says(job[l].hid[b])
       /\ \A r \in Req : r \notin ToSet(job[l].rows) => out'[r] = out[r]
       /\ \A b \in RowsOf(l) : ShowsRow(l, b, nxt[b])
       /\ out' = [r \in Req |-> out'[r]]
       /\ job'[l].over = Overs(l, nxt)
       /\ Overs(l, nxt) = RowsOf(l) => job'[l].hist = job[l].hist /\ job'[l].phase = "finish"
       /\ Overs(l, nxt) # RowsOf(l) =>
            /\ job'[l].hist = Nexts(l, nxt) /\ job'[l].phase = "write"
            /\ job'[l].hid = Nexts(l, nxt)
  BY <1>1, <1>13, <1>14, <1>15, <1>16 DEF O, N
<1> QED
  BY <1>2, <1>12, <1>16, <1>17

LEMMA LaneFacts ==
  /\ \A l \in Lane : l \in Nat /\ l >= 1
  /\ \A n \in Nat, m \in Lane : n >= 1 /\ n <= m => n \in Lane
<1>1. IsFiniteSet(Lane) /\ Lane = 1 .. Cardinality(Lane)
  BY StaticAssumption
<1>2. Cardinality(Lane) \in Nat
  BY <1>1, FS_CardinalityType
<1> QED
  BY <1>1, <1>2

LEMMA RowsRun ==
  ASSUME Typed, NEW l \in Lane, job[l] # None, NEW r \in ToSet(job[l].rows)
  PROVE  r \in Req /\ state[r] = "running" /\ Holding(r) = {l}
<1>1. r \in Req
  <2>1. PICK b \in RowsOf(l) : job[l].rows[b] = r
    BY RowFacts
  <2> QED
    BY <2>1, RowFacts
<1>2. l \in Holding(r)
  BY DEF Holding
<1> QED
  BY <1>1, <1>2 DEF Typed, OneLane

LEMMA BegunFacts == /\ IsFiniteSet(Begun) /\ Cardinality(Begun) \in Nat
                    /\ Cardinality(Begun) <= Cardinality(Req)
<1>1. Begun \subseteq Req /\ IsFiniteSet(Req)
  BY StaticAssumption DEF Begun
<1> QED
  BY <1>1, FS_Subset, FS_CardinalityType

LEMMA LeaveSteps ==
  ASSUME Typed, NEW l \in Lane, job[l] # None, NEW how \in Ended, Leave(l, how)
  PROVE  /\ UNCHANGED <<setting, out, waiting, made, nextId, kv, deaths>>
         /\ job'[l] = None /\ \A m \in Lane : m # l => job'[m] = job[m]
         /\ \A r \in Req : state'[r] = IF r \in ToSet(job[l].rows) THEN how ELSE state[r]
         /\ StateTyped' /\ JobTyped' /\ WaitingTyped' /\ LanesTyped' /\ OneLane' /\ IdsTyped'
<1>1. /\ state' = [r \in Req |-> IF r \in ToSet(job[l].rows) THEN how ELSE state[r]]
      /\ job' = [job EXCEPT ![l] = None]
      /\ idle' = IF Batching THEN idle ELSE Append(idle, l)
      /\ UNCHANGED <<setting, out, waiting, made, nextId, kv, deaths>>
  BY DEF Leave
<1>2. /\ job'[l] = None /\ (\A m \in Lane : m # l => job'[m] = job[m])
      /\ job' \in [Lane -> Job \cup {None}]
  BY <1>1 DEF Typed, JobTyped
<1>3. \A r \in Req : state'[r] = IF r \in ToSet(job[l].rows) THEN how ELSE state[r]
  BY <1>1
<1>4. how \in {"done", "failed", "left"}
  BY DEF Ended
<1>5. state' \in [Req -> {"new", "waiting", "running"} \cup Ended]
  BY <1>1 DEF Typed, StateTyped
<1>6. StateTyped'
  BY <1>1, <1>5 DEF Typed, StateTyped
<1>7. JobTyped'
  BY <1>1, <1>2 DEF Typed, JobTyped
<1>8. \A r \in ToSet(job[l].rows) : r \in Req /\ state[r] = "running" /\ Holding(r) = {l}
  BY RowsRun
<1>9. WaitingTyped'
  <2>1. \A r \in Req : state'[r] = "waiting" <=> state[r] = "waiting"
    BY <1>3, <1>4, <1>8
  <2> QED
    BY <1>1, <2>1 DEF Typed, WaitingTyped
<1>10. OneLane'
  <2>1. \A r \in Req : Holding(r)' = Holding(r) \ {l}
    BY <1>2 DEF Holding
  <2>2. ASSUME NEW r \in Req, state'[r] = "running" PROVE Holding(r)' = Holding(r) /\ state[r] = "running"
    <3>1. r \notin ToSet(job[l].rows) /\ state[r] = "running"
      BY <1>3, <1>4, <2>2
    <3>2. l \notin Holding(r)
      BY <3>1 DEF Holding
    <3> QED
      BY <2>1, <3>1, <3>2
  <2>3. ASSUME NEW r \in Req, state'[r] # "running" PROVE Holding(r)' = {}
    <3>1. CASE r \in ToSet(job[l].rows)
      BY <1>8, <2>1, <3>1
    <3>2. CASE r \notin ToSet(job[l].rows)
      <4>1. state[r] # "running"
        BY <1>3, <2>3, <3>2
      <4>2. Holding(r) = {}
        BY <4>1 DEF Typed, OneLane
      <4> QED
        BY <2>1, <4>2
    <3> QED
      BY <3>1, <3>2
  <2>4. ASSUME NEW r \in Req
        PROVE IF state'[r] = "running" THEN \E m \in Lane : Holding(r)' = {m} ELSE Holding(r)' = {}
    <3>1. CASE state'[r] = "running"
      <4>1. \E m \in Lane : Holding(r) = {m}
        BY <2>2, <3>1 DEF Typed, OneLane
      <4> QED
        BY <2>2, <3>1, <4>1
    <3> QED
      BY <2>3, <3>1
  <2> QED
    BY <2>4 DEF OneLane
<1>11. IdsTyped'
  <2>1. Begun' = Begun
    BY <1>3, <1>4, <1>8 DEF Begun
  <2> QED
    BY <1>1, <1>2, <2>1 DEF Typed, IdsTyped
<1>12. LanesTyped'
  <2>1. Batching' = Batching /\ setting' = setting /\ made' = made
    BY <1>1 DEF Batching
  <2>2. \A m \in Lane : job'[m] # None => job[m] # None
    BY <1>2
  <2>3. CASE Batching
    <3>1. idle' = idle /\ \A i \in 1 .. Len(idle) : idle[i] \in Lane
      BY <1>1, <2>3, ElementOfSeq DEF Typed, LanesTyped
    <3> QED
      BY <2>1, <2>2, <3>1 DEF Typed, LanesTyped
  <2>4. CASE ~Batching
    <3>1. idle' = Append(idle, l)
      BY <1>1, <2>4
    <3>2. idle \in Seq(Lane) /\ IsInjective(idle) /\ l \notin ToSet(idle)
      BY SetOf DEF Typed, LanesTyped
    <3>3. idle' \in Seq(Lane) /\ IsInjective(idle')
      BY <3>1, <3>2, AppendedSet
    <3>4. l \in 1 .. made
      BY <2>4, LaneFacts DEF Typed, LanesTyped
    <3>5. Len(idle') = Len(idle) + 1 /\ idle'[Len(idle) + 1] = l
          /\ \A i \in 1 .. Len(idle) : idle'[i] = idle[i]
      BY <3>1, <3>2, AppendProperties
    <3>6. Len(idle) \in Nat /\ \A i \in 1 .. Len(idle') : i \in 1 .. Len(idle) \/ i = Len(idle) + 1
      BY <3>2, <3>5, LenProperties
    <3>7. \A i \in 1 .. Len(idle) : idle[i] \in 1 .. made /\ job[idle[i]] = None /\ idle[i] \in Lane
      BY <3>2, ElementOfSeq DEF Typed, LanesTyped
    <3>8. ASSUME NEW i \in 1 .. Len(idle') PROVE idle'[i] \in 1 .. made /\ job'[idle'[i]] = None
      <4>1. CASE i \in 1 .. Len(idle)
        BY <1>2, <3>5, <3>7, <4>1
      <4>2. CASE i = Len(idle) + 1
        BY <1>2, <3>4, <3>5, <4>2
      <4> QED
        BY <3>6, <4>1, <4>2
    <3> QED
      BY <2>1, <2>2, <3>3, <3>8 DEF Typed, LanesTyped
  <2> QED
    BY <2>3, <2>4
<1> QED
  BY <1>1, <1>2, <1>3, <1>6, <1>7, <1>9, <1>10, <1>11, <1>12

\* The job that starts on lane l.
Starts(l, rows) ==
  /\ job'[l] # None /\ job'[l] \in Job /\ job'[l].rows = rows /\ job'[l].id = nextId
  /\ job'[l].start = TRUE /\ job'[l].hop = 1 /\ job'[l].phase = "write"
  /\ Len(job'[l].hist) = Len(rows) /\ job'[l].hid = job'[l].hist
  /\ \A b \in 1 .. Len(rows) : job'[l].hist[b] = PromptOf[rows[b]]
  /\ job'[l].over = {}

LEMMA BeginSteps ==
  ASSUME Typed, NEW l \in Lane, job[l] = None, NEW rows \in Seq(Req), IsInjective(rows),
         Len(rows) \in 1 .. setting.maxBatch, \A r \in ToSet(rows) : state[r] = "waiting",
         Begin(l, rows)
  PROVE  /\ UNCHANGED <<setting, out, sock, kv, deaths>>
         /\ Starts(l, rows) /\ \A m \in Lane : m # l => job'[m] = job[m]
         /\ nextId' = nextId + 1
         /\ \A r \in Req : state'[r] = IF r \in ToSet(rows) THEN "running" ELSE state[r]
         /\ StateTyped' /\ JobTyped' /\ OneLane' /\ IdsTyped' /\ FirstConnects'
<1> DEFINE h == [b \in 1 .. Len(rows) |-> PromptOf[rows[b]]]
           j == [rows |-> rows, id |-> nextId, start |-> TRUE, hop |-> 1, phase |-> "write",
                 hist |-> h, hid |-> h, over |-> {}]
<1>1. /\ job' = [job EXCEPT ![l] = j] /\ nextId' = nextId + 1
      /\ state' = [r \in Req |-> IF r \in ToSet(rows) THEN "running" ELSE state[r]]
      /\ UNCHANGED <<setting, out, sock, kv, deaths>>
  BY DEF Begin
<1>2. \A r \in Req : state'[r] = IF r \in ToSet(rows) THEN "running" ELSE state[r]
  BY <1>1
<1>3. /\ Len(rows) \in Nat /\ Len(rows) >= 1 /\ rows[1] \in Req /\ rows[1] \in ToSet(rows)
      /\ \A b \in 1 .. Len(rows) : rows[b] \in Req /\ rows[b] \in ToSet(rows)
      /\ \A r \in ToSet(rows) : r \in Req
  <2>1. Len(rows) \in Nat /\ Len(rows) >= 1 /\ 1 \in 1 .. Len(rows)
    BY SettingFacts DEF Typed, StateTyped
  <2>2. \A b \in 1 .. Len(rows) : rows[b] \in Req /\ rows[b] \in ToSet(rows)
    BY SetOf
  <2>3. \A r \in ToSet(rows) : \E b \in 1 .. Len(rows) : rows[b] = r
    BY SetOf
  <2> QED
    BY <2>1, <2>2, <2>3
<1>4. h \in Seq(History) /\ Len(h) = Len(rows) /\ h \in Seq(Cell)
  <2>1. \A b \in 1 .. Len(rows) : PromptOf[rows[b]] \in History
    BY <1>3, StaticAssumption DEF History
  <2>2. h \in [1 .. Len(rows) -> History]
    BY <2>1
  <2>3. h \in Seq(History) /\ Len(h) = Len(rows)
    BY <1>3, <2>2
  <2> QED
    BY <2>3, CellFacts
<1>5. nextId \in Nat /\ nextId >= 1 /\ nextId <= Cardinality(Req)
      /\ Begun \cup {rows[1]} \subseteq Begun' /\ nextId <= Cardinality(Begun')
  <2>1. rows[1] \notin Begun
    BY <1>3 DEF Begun
  <2>2. Begun \cup {rows[1]} \subseteq Begun'
    BY <1>2, <1>3 DEF Begun
  <2>3. IsFiniteSet(Begun) /\ Cardinality(Begun) \in Nat
    BY BegunFacts
  <2>4. /\ IsFiniteSet(Begun \cup {rows[1]})
        /\ Cardinality(Begun \cup {rows[1]}) = Cardinality(Begun) + 1
    BY <2>1, <2>3, FS_AddElement
  <2>5. IsFiniteSet(Begun') /\ Begun' \subseteq Req
    BY StaticAssumption, FS_Subset DEF Begun
  <2>6. Cardinality(Begun \cup {rows[1]}) <= Cardinality(Begun')
    BY <2>2, <2>5, FS_Subset
  <2>7. Cardinality(Begun') <= Cardinality(Req) /\ Cardinality(Begun') \in Nat
        /\ Cardinality(Req) \in Nat
    BY <2>5, StaticAssumption, FS_Subset, FS_CardinalityType
  <2>8. nextId \in Nat \ {0} /\ nextId - 1 <= Cardinality(Begun)
    BY DEF Typed, IdsTyped
  <2>9. nextId \in Nat /\ nextId >= 1
    BY <2>8
  <2>10. nextId <= Cardinality(Begun') /\ nextId <= Cardinality(Req)
    <3>1. nextId <= Cardinality(Begun) + 1
      BY <2>3, <2>8, <2>9
    <3>2. Cardinality(Begun) + 1 <= Cardinality(Begun')
      BY <2>4, <2>6
    <3> HIDE DEF Begun
    <3> QED
      BY <2>3, <2>7, <2>9, <3>1, <3>2
  <2> QED
    BY <2>2, <2>9, <2>10
<1>6. nextId \in Id
  BY <1>5, IdFacts
<1> HIDE DEF h
<1>7. j \in Job
  BY <1>4, <1>6, StageFacts DEF Job, History
<1>8. /\ j.rows = rows /\ j.id = nextId /\ j.start = TRUE /\ j.hop = 1 /\ j.phase = "write"
      /\ j.hist = h /\ j.hid = h /\ j.over = {}
  OBVIOUS
<1>9. j # None
  BY <1>7, StaticAssumption
<1> HIDE DEF j
<1>10. /\ job'[l] = j /\ (\A m \in Lane : m # l => job'[m] = job[m])
       /\ job' \in [Lane -> Job \cup {None}]
  BY <1>1, <1>7 DEF Typed, JobTyped
<1>11. Starts(l, rows)
  BY <1>4, <1>7, <1>8, <1>9, <1>10 DEF Starts, h
<1>12. StateTyped'
  <2>1. state' \in [Req -> {"new", "waiting", "running"} \cup Ended]
    BY <1>1 DEF Typed, StateTyped
  <2> QED
    BY <1>1, <2>1 DEF Typed, StateTyped
<1>13. JobTyped'
  BY <1>1, <1>4, <1>8, <1>10 DEF Typed, JobTyped
<1>14. OneLane'
  <2>1. \A r \in Req : r \notin ToSet(rows) => Holding(r)' = Holding(r)
    BY <1>8, <1>10 DEF Holding
  <2>2. ASSUME NEW r \in ToSet(rows) PROVE r \in Req /\ state'[r] = "running" /\ Holding(r)' = {l}
    <3>1. r \in Req /\ Holding(r) = {} /\ state'[r] = "running"
      BY <1>2, <1>3 DEF Typed, OneLane
    <3>2. Holding(r)' = {l}
      BY <1>8, <1>9, <1>10, <3>1 DEF Holding
    <3> QED
      BY <3>1, <3>2
  <2>3. ASSUME NEW r \in Req
        PROVE IF state'[r] = "running" THEN \E m \in Lane : Holding(r)' = {m} ELSE Holding(r)' = {}
    <3>1. CASE r \in ToSet(rows)
      BY <2>2, <3>1
    <3>2. CASE r \notin ToSet(rows)
      <4>1. state'[r] = state[r] /\ Holding(r)' = Holding(r)
        BY <1>2, <2>1, <3>2
      <4> QED
        BY <4>1 DEF Typed, OneLane
    <3> QED
      BY <3>1, <3>2
  <2> QED
    BY <2>3 DEF OneLane
<1>15. IdsTyped'
  <2>1. nextId' \in Nat \ {0} /\ nextId' - 1 <= Cardinality(Begun')
    <3>1. nextId' = nextId + 1
      BY <1>1
    <3> HIDE DEF Begun
    <3> QED
      BY <1>5, <3>1
  <2>2. \A m \in Lane : m # l /\ job[m] # None => job[m].id \in Nat /\ job[m].id < nextId
    BY JobOn, JobFacts, IdFacts DEF Typed, IdsTyped
  <2>3. \A m \in Lane : job'[m] # None => job'[m].id < nextId' /\ (m # l => job'[m].id # nextId)
    BY <1>1, <1>5, <1>8, <1>10, <2>2
  <2>4. \A m, n \in Lane : job'[m] # None /\ job'[n] # None /\ job'[n].id = job'[m].id => m = n
    BY <1>8, <1>10, <2>3 DEF Typed, IdsTyped
  <2> QED
    BY <2>1, <2>3, <2>4 DEF IdsTyped
<1>16. FirstConnects'
  BY <1>1, <1>8, <1>10 DEF Typed, FirstConnects
<1> QED
  BY <1>1, <1>2, <1>10, <1>11, <1>12, <1>13, <1>14, <1>15, <1>16

\* The sockets of lane l carry a free of its id.
Freed(l) ==
  /\ sock[l] # None /\ sock'[l] # None
  /\ \A k \in Stage :
       /\ sock'[l][k].open = sock[l][k].open /\ sock'[l][k].replies = sock[l][k].replies
       /\ sock'[l][k].frames =
            IF sock[l][k].open
            THEN Append(sock[l][k].frames, [op |-> "free", id |-> job[l].id])
            ELSE sock[l][k].frames

LEMMA FreeingSteps ==
  ASSUME Typed, NEW l \in Lane, job[l] # None, sock[l] # None,
         sock' = [sock EXCEPT ![l] = Freeing(l, Stage)]
  PROVE  SocketsTyped' /\ Freed(l) /\ \A m \in Lane : m # l => sock'[m] = sock[m]
<1> DEFINE f == [op |-> "free", id |-> job[l].id]
           c(k) == IF sock[l][k].open THEN [sock[l][k] EXCEPT !.frames = Append(@, f)]
                   ELSE sock[l][k]
           s == [k \in Stage |-> c(k)]
<1>1. sock' = [sock EXCEPT ![l] = s]
  BY DEF Freeing
<1>2. f \in Frame
  BY JobOn, JobFacts, FrameFacts DEF Typed
<1> HIDE DEF f
<1>3. ASSUME NEW k \in Stage
      PROVE  /\ c(k) \in Channel
             /\ c(k).open = sock[l][k].open /\ c(k).replies = sock[l][k].replies
             /\ c(k).frames = IF sock[l][k].open THEN Append(sock[l][k].frames, f)
                              ELSE sock[l][k].frames
  <2>1. sock[l][k] \in Channel /\ Append(sock[l][k].frames, f) \in Seq(Frame)
    BY <1>2, Socket, ChannelFacts, AppendProperties DEF Typed
  <2> QED
    BY <2>1 DEF Channel
<1> HIDE DEF c
<1>4. s \in [Stage -> Channel] /\ s # None /\ \A k \in Stage : s[k] = c(k)
  BY <1>3, StaticAssumption
<1> HIDE DEF s
<1>5. sock'[l] = s /\ \A m \in Lane : m # l => sock'[m] = sock[m]
  BY <1>1 DEF Typed, SocketsTyped
<1>6. SocketsTyped'
  BY <1>1, <1>4 DEF Typed, SocketsTyped
<1>7. Freed(l)
  BY <1>3, <1>4, <1>5 DEF Freed, f
<1> QED
  BY <1>5, <1>6, <1>7

\* The connection set of lane l is given up.
Dropped(l) == sock'[l] = None /\ SocketsTyped' /\ \A m \in Lane : m # l => sock'[m] = sock[m]

LEMMA DropSteps ==
  ASSUME Typed, NEW l \in Lane, sock' = [sock EXCEPT ![l] = None]
  PROVE  Dropped(l)
BY DEF Dropped, Typed, SocketsTyped

LEMMA FinishSteps ==
  ASSUME Typed, NEW l \in Lane, Finish(l)
  PROVE  /\ job[l] # None /\ job[l].phase = "finish" /\ sock[l] # None
         /\ Leave(l, "done") /\ "done" \in Ended
         /\ SocketsTyped' /\ \A m \in Lane : m # l => sock'[m] = sock[m]
         /\ Freed(l) \/ (~Batching /\ ~AllOpen(l) /\ sock'[l] = None)
<1>1. job[l] # None /\ job[l].phase = "finish" /\ Leave(l, "done")
  BY DEF Finish, At
<1>2. sock[l] # None
  BY <1>1 DEF Typed, FirstConnects
<1>3. CASE sock' = [sock EXCEPT ![l] = Freeing(l, Stage)]
  BY <1>1, <1>2, <1>3, FreeingSteps DEF Ended
<1>4. CASE ~Batching /\ ~AllOpen(l) /\ sock' = [sock EXCEPT ![l] = None]
  BY <1>1, <1>2, <1>4, DropSteps DEF Dropped, Ended
<1> QED
  BY <1>3, <1>4 DEF Finish

LEMMA FailSteps ==
  ASSUME Typed, NEW l \in Lane, Fail(l)
  PROVE  /\ job[l] # None /\ sock[l] # None /\ Fails(l)
         /\ Leave(l, "failed") /\ "failed" \in Ended
         /\ SocketsTyped' /\ \A m \in Lane : m # l => sock'[m] = sock[m]
         /\ IF Batching THEN Freed(l) ELSE sock'[l] = None
<1>1. Fails(l) /\ Leave(l, "failed")
      /\ sock' = [sock EXCEPT ![l] = IF Batching THEN Freeing(l, Stage) ELSE None]
  BY DEF Fail
<1>2. job[l] # None /\ sock[l] # None
  BY <1>1 DEF Fails, At, Typed, FirstConnects
<1>3. CASE Batching
  BY <1>1, <1>2, <1>3, FreeingSteps DEF Ended
<1>4. CASE ~Batching
  BY <1>1, <1>2, <1>4, DropSteps DEF Dropped, Ended
<1> QED
  BY <1>3, <1>4

LEMMA ClientLeavesSteps ==
  ASSUME Typed, NEW l \in Lane, ClientLeaves(l)
  PROVE  /\ job[l] # None /\ job[l].phase = "write" /\ ~Batching /\ "leave" \in setting.faults
         /\ job[l].hop = 1
         /\ Leave(l, "left") /\ "left" \in Ended /\ sock' = sock /\ SocketsTyped'
BY DEF ClientLeaves, At, Ended, Typed, SocketsTyped

\* What stage k answers to frame f.
Answer(k, f) ==
  [b \in 1 .. f.rows |->
     Computed(IF kv[k][f.id] = None THEN <<>> ELSE kv[k][f.id][b], f.start, f.hid[b])]

LEMMA ServeSteps ==
  ASSUME Typed, NEW k \in Stage, NEW l \in Lane, StageServes(k, l)
  PROVE  LET c == sock[l][k]
             f == Head(c.frames)
             d == sock'[l][k]
         IN  /\ sock[l] # None /\ c.open /\ c.frames # <<>> /\ f \in Frame
             /\ SocketsTyped' /\ sock'[l] # None
             /\ \A m \in Lane : m # l => sock'[m] = sock[m]
             /\ \A i \in Stage : i # k => sock'[l][i] = sock[l][i]
             /\ kv' \in [Stage -> [Id -> KvOf]]
             /\ \A i \in Stage, n \in Id : i # k \/ n # f.id => kv'[i][n] = kv[i][n]
             /\ UNCHANGED <<setting, requests, lanes, job, deaths>>
             /\ \/ f.op = "free" /\ kv'[k][f.id] = None
                   /\ d.open /\ d.frames = Tail(c.frames) /\ d.replies = c.replies
                \/ f.op = "run" /\ Len(f.hid) # f.rows /\ kv' = kv
                   /\ ~d.open /\ d.frames = <<>> /\ d.replies = c.replies
                \/ f.op = "run" /\ Len(f.hid) = f.rows /\ kv'[k][f.id] = Answer(k, f)
                   /\ d.open /\ d.frames = Tail(c.frames)
                   /\ d.replies = Append(c.replies, Answer(k, f))
<1> DEFINE c == sock[l][k]
           f == Head(c.frames)
           a == Answer(k, f)
<1>1. /\ sock[l] # None /\ c.open /\ c.frames # <<>>
      /\ UNCHANGED <<setting, requests, lanes, job, deaths>>
  BY DEF StageServes
<1>2. c \in Channel
  BY <1>1, Socket DEF Typed
<1>3. /\ c.open \in BOOLEAN /\ c.frames \in Seq(Frame) /\ c.replies \in Seq(Seq(Cell))
      /\ f \in Frame /\ Tail(c.frames) \in Seq(Frame) /\ <<>> \in Seq(Frame)
  BY <1>1, <1>2, ChannelFacts, HeadTailProperties, EmptySeq
<1>4. IF f.op = "free" THEN
        /\ kv' = [kv EXCEPT ![k] = [kv[k] EXCEPT ![f.id] = None]]
        /\ sock' = [sock EXCEPT ![l] = [sock[l] EXCEPT ![k] = [c EXCEPT !.frames = Tail(@)]]]
      ELSE IF Len(f.hid) # f.rows THEN
        /\ sock' = [sock EXCEPT ![l] =
             [sock[l] EXCEPT ![k] = [[c EXCEPT !.open = FALSE] EXCEPT !.frames = <<>>]]]
        /\ kv' = kv
      ELSE
        /\ kv' = [kv EXCEPT ![k] = [kv[k] EXCEPT ![f.id] = a]]
        /\ sock' = [sock EXCEPT ![l] = [sock[l] EXCEPT ![k] =
             [[c EXCEPT !.frames = Tail(@)] EXCEPT !.replies = Append(@, a)]]]
  <2>1. IF f.op = "free" THEN
          /\ kv' = [kv EXCEPT ![k][f.id] = None]
          /\ sock' = [sock EXCEPT ![l][k].frames = Tail(@)]
        ELSE IF Len(f.hid) # f.rows THEN
          /\ sock' = [sock EXCEPT ![l][k].open = FALSE, ![l][k].frames = <<>>]
          /\ UNCHANGED kv
        ELSE
          /\ kv' = [kv EXCEPT ![k][f.id] = a]
          /\ sock' = [sock EXCEPT ![l][k].frames = Tail(@), ![l][k].replies = Append(@, a)]
    BY DEF StageServes, Answer
  <2> HIDE DEF a
  <2>2. sock \in [Lane -> [Stage -> Channel] \cup {None}] /\ sock[l] \in [Stage -> Channel]
    BY <1>1, Socket DEF Typed, SocketsTyped
  <2>3. [sock EXCEPT ![l][k].open = FALSE, ![l][k].frames = <<>>]
          = [sock EXCEPT ![l] = [sock[l] EXCEPT ![k] = [[c EXCEPT !.open = FALSE] EXCEPT !.frames = <<>>]]]
    BY <2>2
  <2>4. [sock EXCEPT ![l][k].frames = Tail(@), ![l][k].replies = Append(@, a)]
          = [sock EXCEPT ![l] = [sock[l] EXCEPT ![k] =
               [[c EXCEPT !.frames = Tail(@)] EXCEPT !.replies = Append(@, a)]]]
    BY <2>2
  <2>5. [sock EXCEPT ![l][k].frames = Tail(@)]
          = [sock EXCEPT ![l] = [sock[l] EXCEPT ![k] = [c EXCEPT !.frames = Tail(@)]]]
    BY <2>2
  <2>6. \A v : [kv EXCEPT ![k][f.id] = v] = [kv EXCEPT ![k] = [kv[k] EXCEPT ![f.id] = v]]
    OBVIOUS
  <2> HIDE DEF f, c
  <2> QED
    BY <2>1, <2>3, <2>4, <2>5, <2>6 DEF c
<1>5. f.id \in Id /\ f.op \in {"run", "free"}
      /\ (f.op = "run" => f.start \in BOOLEAN /\ f.rows \in Nat /\ f.hid \in Seq(Cell))
  BY <1>3, FrameFacts
<1> HIDE DEF f
<1>6. ASSUME f.op = "run", Len(f.hid) = f.rows PROVE a \in Seq(Cell)
  <2>1. \A b \in 1 .. f.rows : f.hid[b] \in Cell
    BY <1>5, <1>6, ElementOfSeq
  <2>2. a \in [1 .. f.rows -> Cell]
    BY <2>1, CellFacts DEF Answer, Computed
  <2> QED
    BY <1>5, <1>6, <2>2
<1>7. \A v \in KvOf : LET w == [kv EXCEPT ![k] = [kv[k] EXCEPT ![f.id] = v]]
                      IN  /\ w \in [Stage -> [Id -> KvOf]] /\ w[k][f.id] = v
                          /\ \A i \in Stage, n \in Id : i # k \/ n # f.id => w[i][n] = kv[i][n]
  BY <1>5 DEF Typed, StateTyped
<1> HIDE DEF a
<1>8. CASE f.op = "free"
  <2> DEFINE d == [c EXCEPT !.frames = Tail(@)]
  <2>1. d \in Channel /\ d.open = c.open /\ d.frames = Tail(c.frames) /\ d.replies = c.replies
    BY <1>2, <1>3 DEF Channel
  <2> HIDE DEF d
  <2>2. sock' = [sock EXCEPT ![l] = [sock[l] EXCEPT ![k] = d]]
    BY <1>4, <1>8 DEF d
  <2>3. /\ SocketsTyped' /\ sock'[l] # None /\ sock'[l][k] = d
        /\ \A m \in Lane : m # l => sock'[m] = sock[m]
        /\ \A i \in Stage : i # k => sock'[l][i] = sock[l][i]
    BY <1>1, <2>1, <2>2, ChannelChanged DEF Typed
  <2>4. None \in KvOf
    BY DEF KvOf
  <2>5. /\ kv' \in [Stage -> [Id -> KvOf]] /\ kv'[k][f.id] = None
        /\ \A i \in Stage, n \in Id : i # k \/ n # f.id => kv'[i][n] = kv[i][n]
    BY <1>4, <1>7, <1>8, <2>4
  <2> HIDE DEF c
  <2> QED
    BY <1>1, <1>3, <1>8, <2>1, <2>3, <2>5 DEF c, f
<1>9. CASE f.op = "run" /\ Len(f.hid) # f.rows
  <2> DEFINE d == [[c EXCEPT !.open = FALSE] EXCEPT !.frames = <<>>]
  <2>1. d \in Channel /\ ~d.open /\ d.frames = <<>> /\ d.replies = c.replies
    BY <1>2, <1>3 DEF Channel
  <2> HIDE DEF d
  <2>2. sock' = [sock EXCEPT ![l] = [sock[l] EXCEPT ![k] = d]] /\ kv' = kv
    BY <1>4, <1>9 DEF d
  <2>3. /\ SocketsTyped' /\ sock'[l] # None /\ sock'[l][k] = d
        /\ \A m \in Lane : m # l => sock'[m] = sock[m]
        /\ \A i \in Stage : i # k => sock'[l][i] = sock[l][i]
    BY <1>1, <2>1, <2>2, ChannelChanged DEF Typed
  <2>4. kv' \in [Stage -> [Id -> KvOf]]
    BY <2>2 DEF Typed, StateTyped
  <2> HIDE DEF c
  <2> QED
    BY <1>1, <1>3, <1>9, <2>1, <2>2, <2>3, <2>4 DEF c, f
<1>10. CASE f.op = "run" /\ Len(f.hid) = f.rows
  <2> DEFINE d == [[c EXCEPT !.frames = Tail(@)] EXCEPT !.replies = Append(@, a)]
  <2>1. a \in Seq(Cell)
    BY <1>6, <1>10
  <2>2. Append(c.replies, a) \in Seq(Seq(Cell))
    BY <1>3, <2>1, AppendProperties
  <2>3. /\ d \in Channel /\ d.open = c.open /\ d.frames = Tail(c.frames)
        /\ d.replies = Append(c.replies, a)
    BY <1>2, <1>3, <2>2 DEF Channel
  <2> HIDE DEF d
  <2>4. sock' = [sock EXCEPT ![l] = [sock[l] EXCEPT ![k] = d]]
    BY <1>4, <1>10 DEF d
  <2>5. /\ SocketsTyped' /\ sock'[l] # None /\ sock'[l][k] = d
        /\ \A m \in Lane : m # l => sock'[m] = sock[m]
        /\ \A i \in Stage : i # k => sock'[l][i] = sock[l][i]
    BY <1>1, <2>3, <2>4, ChannelChanged DEF Typed
  <2>6. a \in KvOf
    BY <2>1 DEF KvOf
  <2>7. /\ kv' \in [Stage -> [Id -> KvOf]] /\ kv'[k][f.id] = a
        /\ \A i \in Stage, n \in Id : i # k \/ n # f.id => kv'[i][n] = kv[i][n]
    BY <1>4, <1>7, <1>10, <2>6
  <2> HIDE DEF c
  <2> QED
    BY <1>1, <1>3, <1>10, <2>3, <2>5, <2>7 DEF c, f, a
<1> QED
  BY <1>5, <1>8, <1>9, <1>10

LEMMA DieSteps ==
  ASSUME Typed, NEW k \in Stage, StageDies(k)
  PROVE  /\ "die" \in setting.faults /\ deaths < MaxDeaths /\ deaths' = deaths + 1
         /\ UNCHANGED <<setting, requests, lanes, job>>
         /\ SocketsTyped' /\ kv' \in [Stage -> [Id -> KvOf]]
         /\ \A i \in Stage, n \in Id : kv'[i][n] = IF i = k THEN None ELSE kv[i][n]
         /\ \A l \in Lane : (sock'[l] = None <=> sock[l] = None)
         /\ \A l \in Lane : sock[l] # None =>
              /\ \A i \in Stage : i # k => sock'[l][i] = sock[l][i]
              /\ ~sock'[l][k].open /\ sock'[l][k].frames = <<>>
              /\ sock'[l][k].replies = sock[l][k].replies
<1> DEFINE d(l) == [[sock[l][k] EXCEPT !.open = FALSE] EXCEPT !.frames = <<>>]
           s(l) == [sock[l] EXCEPT ![k] = d(l)]
<1>1. /\ "die" \in setting.faults /\ deaths < MaxDeaths /\ deaths' = deaths + 1
      /\ kv' = [kv EXCEPT ![k] = [i \in Id |-> None]]
      /\ UNCHANGED <<setting, requests, lanes, job>>
  BY DEF StageDies
<1>2. ASSUME NEW l \in Lane, sock[l] # None
      PROVE  [sock[l] EXCEPT ![k].open = FALSE, ![k].frames = <<>>] = s(l)
  BY <1>2 DEF Typed, SocketsTyped
<1>3. sock' = [l \in Lane |->
        IF sock[l] = None THEN None
        ELSE [sock[l] EXCEPT ![k].open = FALSE, ![k].frames = <<>>]]
  BY DEF StageDies
<1>4. sock' \in [Lane -> {sock'[l] : l \in Lane}]
      /\ \A l \in Lane : sock'[l] = IF sock[l] = None THEN None ELSE s(l)
  <2> HIDE DEF s, d
  <2> QED
    BY <1>2, <1>3
<1>5. ASSUME NEW l \in Lane, sock[l] # None
      PROVE  /\ d(l) \in Channel /\ ~d(l).open /\ d(l).frames = <<>>
             /\ d(l).replies = sock[l][k].replies
  <2>1. sock[l][k] \in Channel /\ <<>> \in Seq(Frame)
    BY <1>5, Socket, EmptySeq DEF Typed
  <2> QED
    BY <2>1 DEF Channel
<1> HIDE DEF d
<1>6. ASSUME NEW l \in Lane, sock[l] # None
      PROVE  /\ s(l) \in [Stage -> Channel] /\ s(l)[k] = d(l)
             /\ \A i \in Stage : i # k => s(l)[i] = sock[l][i]
  BY <1>5, <1>6, Socket DEF Typed
<1> HIDE DEF s
<1>7. \A l \in Lane : sock[l] # None => s(l) # None
  BY <1>6, StaticAssumption
<1>8. SocketsTyped'
  BY <1>4, <1>6 DEF SocketsTyped
<1>9. kv' \in [Stage -> [Id -> KvOf]]
      /\ \A i \in Stage, n \in Id : kv'[i][n] = IF i = k THEN None ELSE kv[i][n]
  <2>1. [i \in Id |-> None] \in [Id -> KvOf]
    BY DEF KvOf
  <2> QED
    BY <1>1, <2>1 DEF Typed, StateTyped
<1> QED
  BY <1>1, <1>4, <1>5, <1>6, <1>7, <1>8, <1>9

-----------------------------------------------------------------------------
(***************************************************************************)
(* Types are kept.                                                         *)
(***************************************************************************)
LEMMA EmptySet ==
  ASSUME NEW S
  PROVE  <<>> \in Seq(S) /\ Len(<<>>) = 0 /\ IsInjective(<<>>) /\ \A r : r \notin ToSet(<<>>)
<1>1. <<>> \in Seq(S) /\ Len(<<>>) = 0
  BY EmptySeq
<1> DEFINE e == <<>>
<1> HIDE DEF e
<1>2. e \in Seq(S) /\ Len(e) = 0
  BY <1>1 DEF e
<1>3. \A i : i \notin 1 .. Len(e)
  BY <1>2
<1>4. IsInjective(e) /\ \A r : r \notin ToSet(e)
  BY <1>2, <1>3, SetOf
<1> QED
  BY <1>1, <1>4 DEF e

LEMMA InitTyped == Init => Typed
<1> SUFFICES ASSUME Init PROVE Typed
  OBVIOUS
<1>1. setting \in Setting /\ deaths = 0 /\ waiting = <<>> /\ idle = <<>> /\ made = 0 /\ nextId = 1
  BY DEF Init
<1>2. /\ state \in [Req -> {"new", "waiting", "running"} \cup Ended]
      /\ \A r \in Req : state[r] = "new"
  BY DEF Init
<1>3. out \in [Req -> History] /\ \A r \in Req : Len(out[r]) <= Cap[r]
  <2>1. <<>> \in History /\ Len(<<>>) = 0
    BY EmptySeq DEF History
  <2>2. \A r \in Req : Cap[r] \in Nat /\ 0 <= Cap[r]
    BY StaticAssumption
  <2>3. out = [r \in Req |-> <<>>]
    BY DEF Init
  <2> QED
    BY <2>1, <2>2, <2>3
<1>4. kv \in [Stage -> [Id -> KvOf]]
  BY DEF Init, KvOf
<1>5. deaths \in 0 .. MaxDeaths
  BY <1>1, StaticAssumption
<1>6. StateTyped
  BY <1>1, <1>2, <1>3, <1>4, <1>5 DEF StateTyped
<1>7. SocketsTyped /\ JobTyped /\ FirstConnects /\ \A l \in Lane : job[l] = None
  BY DEF Init, SocketsTyped, JobTyped, FirstConnects
<1>8. WaitingTyped
  <2>1. <<>> \in Seq(Req) /\ IsInjective(<<>>) /\ \A r : r \notin ToSet(<<>>)
    BY EmptySet
  <2> QED
    BY <1>1, <1>2, <2>1 DEF WaitingTyped
<1>9. LanesTyped
  <2>1. <<>> \in Seq(Lane) /\ IsInjective(<<>>) /\ Len(<<>>) = 0
    BY EmptySet
  <2>2. setting.lanes \in Nat /\ 0 <= setting.lanes
    BY <1>1, SettingFacts
  <2> QED
    BY <1>1, <1>7, <2>1, <2>2 DEF LanesTyped
<1>10. OneLane
  BY <1>2, <1>7 DEF OneLane, Holding
<1>11. IdsTyped
  <2>1. Cardinality(Begun) \in Nat
    BY BegunFacts
  <2>2. nextId \in Nat \ {0} /\ nextId - 1 <= Cardinality(Begun)
    <3> HIDE DEF Begun
    <3> QED
      BY <1>1, <2>1
  <2> QED
    BY <1>7, <2>2 DEF IdsTyped
<1> QED
  BY <1>6, <1>7, <1>8, <1>9, <1>10, <1>11 DEF Typed

LEMMA SubmitTyped ==
  ASSUME Typed, NEW r \in Req, Submit(r) PROVE Typed'
<1>1. /\ state[r] = "new" /\ state' = [state EXCEPT ![r] = "waiting"]
      /\ waiting' = Append(waiting, r)
      /\ UNCHANGED <<setting, out, lanes, job, sock, kv, deaths>>
  BY DEF Submit
<1>2. UNCHANGED <<idle, made, nextId>>
  BY <1>1 DEF lanes
<1>3. StateTyped'
  BY <1>1 DEF Typed, StateTyped
<1>4. \A q \in Req : state'[q] = IF q = r THEN "waiting" ELSE state[q]
  BY <1>1 DEF Typed, StateTyped
<1>5. WaitingTyped'
  <2>1. waiting \in Seq(Req) /\ IsInjective(waiting) /\ r \notin ToSet(waiting)
    BY <1>1 DEF Typed, WaitingTyped
  <2>2. /\ waiting' \in Seq(Req) /\ IsInjective(waiting')
        /\ \A y : y \in ToSet(waiting') <=> y \in ToSet(waiting) \/ y = r
    BY <1>1, <2>1, AppendedSet
  <2>3. \A q \in Req : state'[q] = "waiting" <=> q \in ToSet(waiting')
    BY <1>4, <2>2 DEF Typed, WaitingTyped
  <2> QED
    BY <2>2, <2>3 DEF WaitingTyped
<1>6. OneLane'
  <2>1. \A q \in Req : Holding(q)' = Holding(q)
    BY <1>1 DEF Holding
  <2>2. \A q \in Req : state'[q] = "running" <=> state[q] = "running"
    BY <1>1, <1>4
  <2> QED
    BY <2>1, <2>2 DEF Typed, OneLane
<1>7. IdsTyped'
  <2>1. Begun' = Begun
    BY <1>1, <1>4 DEF Begun
  <2> QED
    BY <1>1, <1>2, <2>1 DEF Typed, IdsTyped
<1>8. LanesTyped' /\ SocketsTyped' /\ JobTyped' /\ FirstConnects'
  BY <1>1, <1>2 DEF Typed, LanesTyped, SocketsTyped, JobTyped, FirstConnects, Batching
<1> QED
  BY <1>3, <1>5, <1>6, <1>7, <1>8 DEF Typed

\* What Collect begins.
LEMMA CollectSteps ==
  ASSUME Typed, NEW n \in 1 .. Cardinality(Req), Collect(n)
  PROVE  /\ job[1] = None /\ Batching
         /\ UNCHANGED <<idle, made>>
         /\ \E rows \in Seq(Req) :
              /\ IsInjective(rows) /\ Len(rows) \in 1 .. setting.maxBatch
              /\ \A r \in ToSet(rows) : r \in Req /\ state[r] = "waiting"
              /\ Begin(1, rows)
              /\ waiting' \in Seq(Req) /\ IsInjective(waiting')
              /\ \A y : y \in ToSet(waiting') <=> y \in ToSet(waiting) /\ y \notin ToSet(rows)
<1> DEFINE a == SubSeq(waiting, 1, n)
<1>1. /\ Batching /\ job[1] = None /\ n \in 1 .. Len(waiting) /\ n <= setting.maxBatch
      /\ Begin(1, a) /\ waiting' = SubSeq(waiting, n + 1, Len(waiting))
      /\ UNCHANGED <<idle, made>>
  BY DEF Collect
<1>2. waiting \in Seq(Req) /\ IsInjective(waiting)
  BY DEF Typed, WaitingTyped
<1>3. /\ a \in Seq(Req) /\ IsInjective(a) /\ Len(a) = n
      /\ waiting' \in Seq(Req) /\ IsInjective(waiting')
      /\ \A y : y \in ToSet(a) => y \in ToSet(waiting)
      /\ \A y : y \in ToSet(waiting') <=> y \in ToSet(waiting) /\ y \notin ToSet(a)
  BY <1>1, <1>2, Divided
<1> HIDE DEF a
<1>4. \A y \in ToSet(waiting) : y \in Req /\ state[y] = "waiting"
  <2>1. \A y \in ToSet(waiting) : \E i \in 1 .. Len(waiting) : waiting[i] = y
    BY <1>2, SetOf
  <2>2. \A y \in ToSet(waiting) : y \in Req
    BY <1>2, <2>1, SetOf
  <2> QED
    BY <2>2 DEF Typed, WaitingTyped
<1>5. Len(a) \in 1 .. setting.maxBatch
  <2>1. n \in Nat /\ n >= 1 /\ setting.maxBatch \in Nat
    BY IdFacts, SettingFacts DEF Typed, StateTyped
  <2> QED
    BY <1>1, <1>3, <2>1
<1> QED
  BY <1>1, <1>3, <1>4, <1>5

LEMMA CollectTyped ==
  ASSUME Typed, NEW n \in 1 .. Cardinality(Req), Collect(n) PROVE Typed'
<1>1. PICK rows \in Seq(Req) :
        /\ IsInjective(rows) /\ Len(rows) \in 1 .. setting.maxBatch
        /\ \A r \in ToSet(rows) : r \in Req /\ state[r] = "waiting"
        /\ Begin(1, rows)
        /\ waiting' \in Seq(Req) /\ IsInjective(waiting')
        /\ \A y : y \in ToSet(waiting') <=> y \in ToSet(waiting) /\ y \notin ToSet(rows)
  BY CollectSteps
<1>2. job[1] = None /\ Batching /\ UNCHANGED <<idle, made>>
  BY CollectSteps
<1>3. 1 \in Lane
  BY SettingFacts DEF Typed, StateTyped
<1>4. /\ UNCHANGED <<setting, out, sock, kv, deaths>>
      /\ Starts(1, rows) /\ (\A m \in Lane : m # 1 => job'[m] = job[m])
      /\ \A r \in Req : state'[r] = IF r \in ToSet(rows) THEN "running" ELSE state[r]
      /\ StateTyped' /\ JobTyped' /\ OneLane' /\ IdsTyped' /\ FirstConnects'
  BY <1>1, <1>2, <1>3, BeginSteps
<1>5. WaitingTyped'
  <2>1. \A r \in Req : state'[r] = "waiting" <=> r \in ToSet(waiting')
    BY <1>1, <1>4 DEF Typed, WaitingTyped
  <2> QED
    BY <1>1, <2>1 DEF WaitingTyped
<1>6. LanesTyped'
  <2>1. Batching' /\ made' = 0 /\ \A i \in 1 .. Len(idle) : FALSE
    BY <1>2, <1>4 DEF Batching, Typed, LanesTyped
  <2>2. \A m \in Lane : job'[m] # None => m = 1
    BY <1>2, <1>4 DEF Typed, LanesTyped
  <2> QED
    BY <1>2, <1>4, <2>1, <2>2 DEF Typed, LanesTyped
<1>7. SocketsTyped'
  BY <1>4 DEF Typed, SocketsTyped
<1> QED
  BY <1>4, <1>5, <1>6, <1>7 DEF Typed

\* What Enter begins, on which lane.
LEMMA EnterSteps ==
  ASSUME Typed, NEW r \in Req, Enter(r)
  PROVE  /\ ~Batching /\ state[r] = "waiting"
         /\ waiting' \in Seq(Req) /\ IsInjective(waiting')
         /\ \A y : y \in ToSet(waiting') <=> y \in ToSet(waiting) /\ y # r
         /\ \E l \in Lane :
              /\ job[l] = None /\ Begin(l, <<r>>) /\ l <= made'
              /\ made' \in Nat /\ made <= made' /\ made' <= setting.lanes
              /\ idle' \in Seq(Lane) /\ IsInjective(idle')
              /\ \A i \in 1 .. Len(idle') :
                   idle'[i] \in 1 .. made' /\ job[idle'[i]] = None /\ idle'[i] # l
<1>1. PICK w \in 1 .. Len(waiting) : waiting[w] = r /\ waiting' = RemoveAt(waiting, w)
  BY DEF Enter
<1>2. waiting \in Seq(Req) /\ IsInjective(waiting)
  BY DEF Typed, WaitingTyped
<1>3. /\ waiting' \in Seq(Req) /\ IsInjective(waiting')
      /\ \A y : y \in ToSet(waiting') <=> y \in ToSet(waiting) /\ y # r
  BY <1>1, <1>2, RemovedFromSet
<1>4. state[r] = "waiting"
  BY <1>1, <1>2, SetOf DEF Typed, WaitingTyped
<1> DEFINE l == IF idle # <<>> THEN Last(idle) ELSE made + 1
<1>5. /\ ~Batching /\ (idle # <<>> \/ made < setting.lanes) /\ Begin(l, <<r>>)
      /\ IF idle # <<>> THEN idle' = Front(idle) /\ made' = made
                        ELSE made' = l /\ idle' = idle
  BY DEF Enter
<1>6. /\ made \in Nat /\ made <= setting.lanes /\ idle \in Seq(Lane) /\ IsInjective(idle)
      /\ \A k \in 1 .. Len(idle) : idle[k] \in 1 .. made /\ job[idle[k]] = None
      /\ \A m \in Lane : job[m] # None => m <= made
  BY <1>5 DEF Typed, LanesTyped
<1>7. setting.lanes \in Nat /\ setting.lanes \in Lane
  BY SettingFacts DEF Typed, StateTyped
<1>8. CASE idle # <<>>
  <2> DEFINE f == Front(idle)
             n == Len(idle)
  <2>1. /\ n \in Nat /\ n > 0 /\ l = idle[n] /\ l \in Lane
        /\ f \in Seq(Lane) /\ Len(f) = n - 1 /\ \A k \in 1 .. n - 1 : f[k] = idle[k]
    BY <1>6, <1>8, WithoutLast
  <2>2. \A j, k \in 1 .. n : idle[j] = idle[k] => j = k
    BY <1>6, SetOf
  <2>3. idle' = f /\ made' = made /\ Begin(l, <<r>>)
    BY <1>5, <1>8
  <2> HIDE DEF f, n, l
  <2>4. n \in 1 .. n /\ \A k \in 1 .. n - 1 : k \in 1 .. n /\ k # n
    BY <2>1
  <2>5. \A k \in 1 .. Len(f) : idle[k] \in 1 .. made /\ job[idle[k]] = None
    BY <1>6, <2>1, <2>4 DEF n
  <2>6. \A k \in 1 .. Len(f) : f[k] \in 1 .. made /\ job[f[k]] = None /\ f[k] # l
    BY <2>1, <2>2, <2>4, <2>5
  <2>7. l \in 1 .. made /\ job[l] = None
    BY <1>6, <2>1, <2>4 DEF n
  <2>8. IsInjective(f)
    BY <2>1, <2>2, <2>4, SetOf
  <2>9. l <= made
    BY <1>6, <2>7
  <2>10. made' \in Nat /\ made <= made' /\ made' <= setting.lanes /\ l <= made'
    BY <1>6, <2>3, <2>9
  <2>11. /\ idle' \in Seq(Lane) /\ IsInjective(idle')
         /\ \A i \in 1 .. Len(idle') :
              idle'[i] \in 1 .. made' /\ job[idle'[i]] = None /\ idle'[i] # l
    BY <2>1, <2>3, <2>6, <2>8
  <2> QED
    BY <1>3, <1>4, <1>5, <2>1, <2>3, <2>7, <2>10, <2>11
<1>9. CASE idle = <<>>
  <2>1. l = made + 1 /\ made' = made + 1 /\ idle' = idle /\ made < setting.lanes /\ Begin(l, <<r>>)
    BY <1>5, <1>9
  <2>2. Len(idle) = 0
    BY <1>9
  <2> HIDE DEF l
  <2>3. l \in Nat /\ l >= 1 /\ l <= setting.lanes /\ ~(l <= made) /\ l <= made'
    BY <1>6, <1>7, <2>1
  <2>4. l \in Lane /\ job[l] = None
    BY <1>6, <1>7, <2>3, LaneFacts
  <2>5. made' \in Nat /\ made <= made' /\ made' <= setting.lanes
    BY <1>6, <1>7, <2>1
  <2>6. \A k : k \notin 1 .. Len(idle)
    BY <2>2
  <2> QED
    BY <1>3, <1>4, <1>5, <1>6, <2>1, <2>3, <2>4, <2>5, <2>6
<1> QED
  BY <1>8, <1>9

LEMMA One == ASSUME NEW r \in Req
             PROVE  /\ <<r>> \in Seq(Req) /\ IsInjective(<<r>>) /\ Len(<<r>>) = 1 /\ <<r>>[1] = r
                    /\ \A y : y \in ToSet(<<r>>) <=> y = r
<1> DEFINE e == <<r>>
<1>1. e \in Seq(Req) /\ Len(e) = 1 /\ e[1] = r
  OBVIOUS
<1> HIDE DEF e
<1>2. \A i \in 1 .. Len(e) : i = 1
  BY <1>1
<1>3. 1 \in 1 .. Len(e)
  BY <1>1
<1>4. IsInjective(e) /\ \A y : y \in ToSet(e) <=> y = r
  BY <1>1, <1>2, <1>3, SetOf
<1> QED
  BY <1>1, <1>4 DEF e

LEMMA EnterTyped ==
  ASSUME Typed, NEW r \in Req, Enter(r) PROVE Typed'
<1>1. /\ ~Batching /\ state[r] = "waiting"
      /\ waiting' \in Seq(Req) /\ IsInjective(waiting')
      /\ \A y : y \in ToSet(waiting') <=> y \in ToSet(waiting) /\ y # r
  BY EnterSteps
<1>2. PICK l \in Lane :
        /\ job[l] = None /\ Begin(l, <<r>>) /\ l <= made'
        /\ made' \in Nat /\ made <= made' /\ made' <= setting.lanes
        /\ idle' \in Seq(Lane) /\ IsInjective(idle')
        /\ \A i \in 1 .. Len(idle') :
             idle'[i] \in 1 .. made' /\ job[idle'[i]] = None /\ idle'[i] # l
  BY EnterSteps
<1>3. /\ <<r>> \in Seq(Req) /\ IsInjective(<<r>>) /\ Len(<<r>>) \in 1 .. setting.maxBatch
      /\ \A y : y \in ToSet(<<r>>) <=> y = r
  <2>1. setting.maxBatch = 1
    BY <1>1, SettingFacts DEF Typed, StateTyped
  <2>2. 1 \in 1 .. 1
    OBVIOUS
  <2> QED
    BY <2>1, <2>2, One
<1>4. /\ UNCHANGED <<setting, out, sock, kv, deaths>>
      /\ Starts(l, <<r>>) /\ (\A m \in Lane : m # l => job'[m] = job[m])
      /\ \A q \in Req : state'[q] = IF q \in ToSet(<<r>>) THEN "running" ELSE state[q]
      /\ StateTyped' /\ JobTyped' /\ OneLane' /\ IdsTyped' /\ FirstConnects'
  <2>1. \A q \in ToSet(<<r>>) : state[q] = "waiting"
    BY <1>1, <1>3
  <2> QED
    BY <1>2, <1>3, <2>1, BeginSteps
<1>5. WaitingTyped'
  <2>1. \A q \in Req : state'[q] = "waiting" <=> q \in ToSet(waiting')
    BY <1>1, <1>3, <1>4 DEF Typed, WaitingTyped
  <2> QED
    BY <1>1, <2>1 DEF WaitingTyped
<1>6. LanesTyped'
  <2>1. ~Batching' /\ setting' = setting
    BY <1>1, <1>4 DEF Batching
  <2>2. \A m \in Lane : job'[m] # None => m <= made'
    <3>1. \A m \in Lane : job[m] # None => m <= made
      BY <1>1 DEF Typed, LanesTyped
    <3>2. made \in Nat /\ \A m \in Lane : m \in Nat
      BY LaneFacts DEF Typed, LanesTyped
    <3>3. \A m \in Lane : m <= made => m <= made'
      BY <1>2, <3>2
    <3> QED
      BY <1>2, <1>4, <3>1, <3>3
  <2>3. \A i \in 1 .. Len(idle') : idle'[i] \in Lane
    BY <1>2, ElementOfSeq
  <2>4. \A i \in 1 .. Len(idle') : idle'[i] \in 1 .. made' /\ job'[idle'[i]] = None
    BY <1>2, <1>4, <2>3
  <2> QED
    BY <1>2, <2>1, <2>2, <2>4 DEF LanesTyped
<1>7. SocketsTyped'
  BY <1>4 DEF Typed, SocketsTyped
<1> QED
  BY <1>4, <1>5, <1>6, <1>7 DEF Typed

LEMMA RunTyped ==
  ASSUME Typed, NEW l \in Lane,
         Connect(l) \/ Write(l) \/ Read(l) \/ Emit(l)
  PROVE  Typed'
<1>1. CASE Connect(l)
  <2>1. /\ job[l] # None /\ sock[l] = None /\ SocketsTyped' /\ OnlyOn(l)
        /\ sock'[l] # None /\ UNCHANGED <<setting, requests, lanes, job, kv, deaths>>
    BY <1>1, ConnectSteps
  <2>2. UNCHANGED <<state, out, waiting, idle, made, nextId>>
    BY <2>1 DEF requests, lanes
  <2>3. StateTyped' /\ JobTyped' /\ WaitingTyped' /\ LanesTyped' /\ OneLane' /\ IdsTyped'
    BY <2>1, <2>2 DEF Typed, StateTyped, JobTyped, WaitingTyped, LanesTyped, OneLane, Holding,
                      IdsTyped, Begun, Batching
  <2>4. FirstConnects'
    BY <2>1 DEF Typed, FirstConnects, OnlyOn
  <2> QED
    BY <2>1, <2>3, <2>4 DEF Typed
<1>2. CASE Write(l)
  <2>1. /\ SocketsTyped' /\ OnlyOn(l) /\ GoesOn(l) /\ sock'[l] # None
        /\ job'[l].hist = job[l].hist
        /\ UNCHANGED <<setting, requests, lanes, kv, deaths>>
    BY <1>2, WriteSteps
  <2>2. UNCHANGED <<state, out, waiting, idle, made, nextId>>
    BY <2>1 DEF requests, lanes
  <2>3. JobTyped' /\ WaitingTyped' /\ LanesTyped' /\ OneLane' /\ IdsTyped'
    <3>1. Len(job'[l].hist) = Len(job[l].rows)
      BY <2>1, JobOn DEF GoesOn, Typed
    <3> QED
      BY <2>1, <2>2, <3>1, GoesOnTyped DEF OnlyOn, lanes
  <2>4. StateTyped' /\ FirstConnects'
    BY <2>1, <2>2 DEF Typed, StateTyped, FirstConnects, OnlyOn
  <2> QED
    BY <2>1, <2>3, <2>4 DEF Typed
<1>3. CASE Read(l)
  <2>0. sock[l] # None
    BY <1>3 DEF Read, At, Typed, FirstConnects
  <2>1. /\ SocketsTyped' /\ OnlyOn(l) /\ GoesOn(l) /\ sock'[l] # None
        /\ job'[l].hist = job[l].hist
        /\ UNCHANGED <<setting, requests, lanes, kv, deaths>>
    BY <1>3, <2>0, ReadSteps
  <2>2. UNCHANGED <<state, out, waiting, idle, made, nextId>>
    BY <2>1 DEF requests, lanes
  <2>3. JobTyped' /\ WaitingTyped' /\ LanesTyped' /\ OneLane' /\ IdsTyped'
    <3>1. Len(job'[l].hist) = Len(job[l].rows)
      BY <2>1, JobOn DEF GoesOn, Typed
    <3> QED
      BY <2>1, <2>2, <3>1, GoesOnTyped DEF OnlyOn, lanes
  <2>4. StateTyped' /\ FirstConnects'
    BY <2>1, <2>2 DEF Typed, StateTyped, FirstConnects, OnlyOn
  <2> QED
    BY <2>1, <2>3, <2>4 DEF Typed
<1>4. CASE Emit(l)
  <2>1. /\ job[l].phase = "emit" /\ OnlyOn(l) /\ GoesOn(l)
        /\ Len(job'[l].hist) = Len(job[l].rows)
        /\ UNCHANGED <<setting, state, waiting, lanes, sock, kv, deaths>>
    BY <1>4, EmitSteps
  <2>2. JobTyped' /\ WaitingTyped' /\ LanesTyped' /\ OneLane' /\ IdsTyped'
    BY <2>1, GoesOnTyped DEF OnlyOn
  <2>3. sock[l] # None
    BY <2>1 DEF GoesOn, Typed, FirstConnects
  <2>4. SocketsTyped' /\ FirstConnects'
    BY <2>1, <2>3 DEF Typed, SocketsTyped, FirstConnects, OnlyOn
  <2>5. PICK nxt \in [RowsOf(l) -> Token] :
          /\ \A r \in Req : r \notin ToSet(job[l].rows) => out'[r] = out[r]
          /\ \A b \in RowsOf(l) : ShowsRow(l, b, nxt[b])
          /\ out' = [r \in Req |-> out'[r]]
    BY <1>4, EmitSteps
  <2>6. ASSUME NEW r \in Req PROVE out'[r] \in History /\ Len(out'[r]) <= Cap[r]
    <3>0. out[r] \in History /\ Len(out[r]) <= Cap[r]
      BY DEF Typed, StateTyped
    <3>1. CASE r \notin ToSet(job[l].rows)
      BY <2>5, <3>0, <3>1
    <3>2. CASE r \in ToSet(job[l].rows)
      <4>1. PICK b \in RowsOf(l) : job[l].rows[b] = r
        BY <2>1, <3>2, RowFacts DEF GoesOn
      <4>2. CASE IsShown(l, b, nxt[b])
        <5>1. out'[r] = Append(out[r], nxt[b]) /\ Len(out[r]) < Cap[r] /\ nxt[b] \in Token
          BY <2>5, <4>1, <4>2 DEF ShowsRow, IsShown, Shown, Limit
        <5>2. out'[r] \in History /\ Len(out'[r]) = Len(out[r]) + 1
          BY <3>0, <5>1, AppendProperties DEF History
        <5>3. Len(out[r]) \in Nat /\ Cap[r] \in Nat
          BY <3>0, StaticAssumption, LenProperties DEF History
        <5>4. Len(out'[r]) <= Cap[r]
          BY <5>1, <5>2, <5>3
        <5> QED
          BY <5>2, <5>4
      <4>3. CASE ~IsShown(l, b, nxt[b])
        BY <2>5, <3>0, <4>1, <4>3 DEF ShowsRow
      <4> QED
        BY <4>2, <4>3
    <3> QED
      BY <3>1, <3>2
  <2>7. StateTyped'
    <3>1. out' \in [Req -> History]
      BY <2>5, <2>6
    <3> QED
      BY <2>1, <2>6, <3>1 DEF Typed, StateTyped
  <2> QED
    BY <2>2, <2>4, <2>7 DEF Typed
<1> QED
  BY <1>1, <1>2, <1>3, <1>4

LEMMA EndTyped ==
  ASSUME Typed, NEW l \in Lane, Finish(l) \/ Fail(l) \/ ClientLeaves(l) PROVE Typed'
<1>1. /\ job[l] # None /\ SocketsTyped' /\ (\A m \in Lane : m # l => sock'[m] = sock[m])
      /\ \E how \in Ended : Leave(l, how)
  <2>1. CASE Finish(l)
    BY <2>1, FinishSteps
  <2>2. CASE Fail(l)
    BY <2>2, FailSteps
  <2>3. CASE ClientLeaves(l)
    BY <2>3, ClientLeavesSteps
  <2> QED
    BY <2>1, <2>2, <2>3
<1>2. /\ job'[l] = None /\ (\A m \in Lane : m # l => job'[m] = job[m])
      /\ StateTyped' /\ JobTyped' /\ WaitingTyped' /\ LanesTyped' /\ OneLane' /\ IdsTyped'
  BY <1>1, LeaveSteps
<1>3. FirstConnects'
  BY <1>1, <1>2 DEF Typed, FirstConnects
<1> QED
  BY <1>1, <1>2, <1>3 DEF Typed

LEMMA StageTyped ==
  ASSUME Typed, NEW k \in Stage, StageDies(k) \/ \E l \in Lane : StageServes(k, l) PROVE Typed'
<1> DEFINE Kept == /\ SocketsTyped' /\ kv' \in [Stage -> [Id -> KvOf]] /\ deaths' \in 0 .. MaxDeaths
                   /\ \A l \in Lane : sock'[l] = None <=> sock[l] = None
                   /\ UNCHANGED <<setting, requests, lanes, job>>
<1>1. Kept
  <2>1. ASSUME NEW l \in Lane, StageServes(k, l) PROVE Kept
    BY <2>1, ServeSteps DEF Typed, StateTyped
  <2>2. CASE StageDies(k)
    <3>1. deaths \in 0 .. MaxDeaths /\ MaxDeaths \in Nat
      BY StaticAssumption DEF Typed, StateTyped
    <3>2. deaths' = deaths + 1 /\ deaths < MaxDeaths
      BY <2>2, DieSteps
    <3>3. deaths' \in 0 .. MaxDeaths
      BY <3>1, <3>2
    <3> QED
      BY <2>2, <3>3, DieSteps
  <2> QED
    BY <2>1, <2>2
<1>2. UNCHANGED <<state, out, waiting, idle, made, nextId>>
  BY <1>1 DEF requests, lanes
<1>3. StateTyped' /\ JobTyped' /\ WaitingTyped' /\ LanesTyped' /\ OneLane' /\ IdsTyped'
  BY <1>1, <1>2 DEF Typed, StateTyped, JobTyped, WaitingTyped, LanesTyped, OneLane, Holding,
                    IdsTyped, Begun, Batching
<1>4. FirstConnects'
  BY <1>1 DEF Typed, FirstConnects
<1> QED
  BY <1>1, <1>3, <1>4 DEF Typed

LEMMA NextTyped == Typed /\ [Next]_vars => Typed'
<1> SUFFICES ASSUME Typed, [Next]_vars PROVE Typed'
  OBVIOUS
<1>1. ASSUME NEW r \in Req, Submit(r) PROVE Typed'
  BY <1>1, SubmitTyped
<1>2. CASE Admit
  BY <1>2, CollectTyped, EnterTyped DEF Admit
<1>3. ASSUME NEW l \in Lane, LaneRuns(l) \/ ClientLeaves(l) PROVE Typed'
  BY <1>3, RunTyped, EndTyped DEF LaneRuns
<1>4. ASSUME NEW k \in Stage, NEW l \in Lane, StageServes(k, l) PROVE Typed'
  BY <1>4, StageTyped
<1>5. ASSUME NEW k \in Stage, StageDies(k) PROVE Typed'
  BY <1>5, StageTyped
<1>6. CASE UNCHANGED vars
  BY <1>6 DEF vars, requests, lanes, Typed, StateTyped, SocketsTyped, JobTyped, WaitingTyped,
              LanesTyped, OneLane, Holding, IdsTyped, Begun, Batching, FirstConnects
<1> QED
  BY <1>1, <1>2, <1>3, <1>4, <1>5, <1>6 DEF Next

\* Lanes, requests and their lists fit together whatever fails: a request has
\* a lane exactly while it runs, no lane is lent twice, no client gets more
\* than it asked for (coordinator.py:113-128, scheduler.py:58-75).
THEOREM TypeCorrect == Spec => []TypeOK
<1>1. Typed => TypeOK
  <2> SUFFICES ASSUME Typed PROVE TypeOK
    OBVIOUS
  <2>1. ASSUME NEW r \in Req
        PROVE  Cardinality(Holding(r)) = IF state[r] = "running" THEN 1 ELSE 0
    <3>1. CASE state[r] = "running"
      BY <3>1, FS_Singleton DEF Typed, OneLane
    <3>2. CASE state[r] # "running"
      BY <3>2, FS_EmptySet DEF Typed, OneLane
    <3> QED
      BY <3>1, <3>2
  <2>2. \A l \in Lane : job[l] # None =>
          /\ Len(job[l].rows) \in 1 .. setting.maxBatch
          /\ job[l].id < nextId /\ job[l].hop \in Stage
          /\ job[l].phase \in {"write", "read", "emit", "finish"}
    BY JobOn, JobFacts DEF Typed, IdsTyped
  <2> QED
    BY <2>1, <2>2 DEF Typed, StateTyped, WaitingTyped, LanesTyped, TypeOK
<1> QED
  BY <1>1, InitTyped, NextTyped, PTL DEF Spec

-----------------------------------------------------------------------------
(***************************************************************************)
(* What is computed stays in order.                                        *)
(***************************************************************************)
\* An id that is over stays over.
RetiredStay == \A i \in Id : Retired(i) => Retired(i)'

LEMMA FreeStays ==
  ASSUME RetiredStay, NEW l, NEW k, NEW m, NEW n,
         sock[l][k].frames[m].op = "free", Retired(sock[l][k].frames[m].id),
         sock[l][k].frames[m].id \in Id, sock'[l][k].frames[n] = sock[l][k].frames[m]
  PROVE  FrameInOrder(l, k, n)'
<1>1. PICK e \in Id : e = sock[l][k].frames[m].id
  OBVIOUS
<1>2. Retired(e)
  BY <1>1
<1>3. Retired(e)'
  BY <1>2 DEF RetiredStay
<1>4. e = sock'[l][k].frames[n].id /\ sock'[l][k].frames[n].op = "free"
  BY <1>1
<1>5. Retired(sock[l][k].frames[n].id)'
  BY <1>3, <1>4 DEF Retired
<1> QED
  BY <1>4, <1>5 DEF FrameInOrder

LEMMA OtherLane ==
  ASSUME Typed, NEW m \in Lane, LaneInOrder(m), job'[m] = job[m], sock'[m] = sock[m], RetiredStay,
         job[m] # None => \A k \in Stage : kv'[k][job[m].id] = kv[k][job[m].id],
         job[m] # None => \A r \in ToSet(job[m].rows) : out'[r] = out[r]
  PROVE  LaneInOrder(m)'
<1>1. ASSUME sock[m] # None, NEW k \in Stage PROVE ChannelInOrder(m, k)'
  <2>1. sock[m][k] \in Channel /\ ChannelInOrder(m, k)
    BY <1>1, Socket DEF Typed, LaneInOrder
  <2>2. \A n \in 1 .. Len(sock[m][k].frames) : sock[m][k].frames[n].id \in Id
    BY <2>1, ChannelFacts, ElementOfSeq, FrameFacts
  <2>3. (Awaited(m, k)' <=> Awaited(m, k)) /\ Run(m)' = Run(m)
    BY DEF Awaited, At, Run
  <2>4. ASSUME NEW n \in 1 .. Len(sock[m][k].frames) PROVE FrameInOrder(m, k, n)'
    <3>1. FrameInOrder(m, k, n)
      BY <2>1 DEF ChannelInOrder
    <3>2. CASE sock[m][k].frames[n].op = "free" /\ Retired(sock[m][k].frames[n].id)
      BY <2>2, <3>2, FreeStays
    <3>3. CASE Awaited(m, k) /\ n = Len(sock[m][k].frames) /\ sock[m][k].frames[n] = Run(m)
      BY <2>3, <3>3 DEF FrameInOrder
    <3> QED
      BY <3>1, <3>2, <3>3 DEF FrameInOrder
  <2> QED
    BY <2>1, <2>3, <2>4 DEF ChannelInOrder
<1>2. ASSUME job[m] # None PROVE JobInOrder(m)'
  <2>1. \A b \in RowsOf(m) : job[m].rows[b] \in ToSet(job[m].rows)
    BY <1>2, RowFacts
  <2>2. \A b \in RowsOf(m) : RowInOrder(m, b)'
    BY <1>2, <2>1 DEF LaneInOrder, JobInOrder, RowInOrder, Settled, Text
  <2> QED
    BY <1>2, <2>2 DEF LaneInOrder, JobInOrder, RowsOf
<1>3. ASSUME job[m] # None, sock[m] # None, NEW k \in Stage PROVE KvInOrder(m, k)'
  BY <1>3 DEF LaneInOrder, KvInOrder, Passed, Awaited, At, Befores, RowsOf
<1> QED
  BY <1>1, <1>2, <1>3 DEF LaneInOrder

\* Nobody waits for stage k: what is on its way to it is the end of jobs.
LEMMA Unawaited ==
  ASSUME Typed, NEW l \in Lane, LaneInOrder(l), sock[l] # None, NEW k \in Stage, ~Awaited(l, k)
  PROVE  /\ sock[l][k] \in Channel /\ Len(sock[l][k].frames) \in Nat
         /\ sock[l][k].replies = <<>>
         /\ ~sock[l][k].open => sock[l][k].frames = <<>>
         /\ \A n \in 1 .. Len(sock[l][k].frames) :
              /\ sock[l][k].frames[n].op = "free" /\ Retired(sock[l][k].frames[n].id)
              /\ sock[l][k].frames[n].id \in Id
<1>1. sock[l][k] \in Channel /\ ChannelInOrder(l, k)
  BY Socket DEF Typed, LaneInOrder
<1>2. Len(sock[l][k].frames) \in Nat /\ \A n \in 1 .. Len(sock[l][k].frames) : sock[l][k].frames[n].id \in Id
  BY <1>1, ChannelFacts, ElementOfSeq, FrameFacts, LenProperties
<1> QED
  BY <1>1, <1>2 DEF ChannelInOrder, FrameInOrder

\* Nobody is given anything, or begins, or ends.
LEMMA SameRequests ==
  ASSUME UNCHANGED <<state, out>>, Unbegun PROVE Unbegun'
BY DEF Unbegun

LEMMA SameIds ==
  ASSUME nextId' = nextId,
         \A m \in Lane : job'[m] # None => job[m] # None /\ job'[m].id = job[m].id
  PROVE  RetiredStay
BY DEF RetiredStay, Retired

LEMMA ConnectInOrder ==
  ASSUME Typed, InOrder, NEW l \in Lane, Connect(l) PROVE InOrder'
<1>1. /\ job[l] # None /\ sock[l] = None /\ OnlyOn(l)
      /\ sock'[l] # None /\ (\A k \in Stage : sock'[l][k] = Fresh)
      /\ UNCHANGED <<setting, requests, lanes, job, kv, deaths>>
  BY ConnectSteps
<1>2. UNCHANGED <<state, out, nextId>>
  BY <1>1 DEF requests, lanes
<1>3. job[l].start /\ job[l].hop = 1 /\ job[l].phase = "write"
  BY <1>1 DEF Typed, FirstConnects
<1>4. RetiredStay
  BY <1>1, <1>2, SameIds
<1>5. ASSUME NEW m \in Lane, m # l PROVE LaneInOrder(m)'
  BY <1>1, <1>2, <1>4, <1>5, OtherLane DEF InOrder, OnlyOn
<1>6. ASSUME NEW k \in Stage PROVE ChannelInOrder(l, k)' /\ KvInOrder(l, k)'
  <2>1. sock'[l][k].frames = <<>> /\ sock'[l][k].replies = <<>> /\ Len(<<>>) = 0
    BY <1>1 DEF Fresh
  <2>2. ChannelInOrder(l, k)'
    BY <2>1 DEF ChannelInOrder
  <2>3. ~(k < 1)
    BY StageFacts
  <2>4. KvInOrder(l, k)'
    BY <1>1, <1>3, <2>1, <2>3 DEF KvInOrder, Passed
  <2> QED
    BY <2>2, <2>4
<1>7. JobInOrder(l)'
  BY <1>1, <1>2 DEF InOrder, LaneInOrder, JobInOrder, RowInOrder, Settled, Text, RowsOf
<1>8. LaneInOrder(l)'
  BY <1>1, <1>6, <1>7 DEF LaneInOrder
<1> QED
  BY <1>2, <1>5, <1>8, SameRequests DEF InOrder

LEMMA WriteInOrder ==
  ASSUME Typed, InOrder, NEW l \in Lane, Write(l) PROVE InOrder'
<1> DEFINE k == job[l].hop
<1>1. /\ k \in Stage /\ job[l].phase = "write" /\ sock[l] # None /\ sock[l][k].open
      /\ OnlyOn(l) /\ GoesOn(l) /\ sock'[l] # None
      /\ job'[l].start = job[l].start /\ job'[l].hop = k /\ job'[l].phase = "read"
      /\ job'[l].hist = job[l].hist /\ job'[l].hid = job[l].hid /\ job'[l].over = job[l].over
      /\ \A i \in Stage : i # k => sock'[l][i] = sock[l][i]
      /\ sock'[l][k].open /\ sock'[l][k].replies = sock[l][k].replies
      /\ sock'[l][k].frames = Append(sock[l][k].frames, Run(l))
      /\ UNCHANGED <<setting, requests, lanes, kv, deaths>>
  BY WriteSteps
<1>2. UNCHANGED <<state, out, nextId>>
  BY <1>1 DEF requests, lanes
<1>3. job[l] # None /\ job'[l] # None /\ job'[l].rows = job[l].rows /\ job'[l].id = job[l].id
  BY <1>1 DEF GoesOn
<1> HIDE DEF k
<1>4. RetiredStay
  BY <1>1, <1>2, <1>3, SameIds DEF OnlyOn
<1>5. ASSUME NEW m \in Lane, m # l PROVE LaneInOrder(m)'
  BY <1>1, <1>2, <1>4, <1>5, OtherLane DEF InOrder, OnlyOn
<1>6. LaneInOrder(l) /\ Run(l)' = Run(l) /\ RowsOf(l)' = RowsOf(l)
  BY <1>1, <1>3 DEF InOrder, Run, RowsOf
<1>7. ASSUME NEW i \in Stage
      PROVE  /\ ~Awaited(l, i) /\ (Awaited(l, i)' <=> i = k)
             /\ sock[l][i].replies = <<>> /\ sock'[l][i].replies = <<>>
             /\ sock'[l][i].open <=> sock[l][i].open
  <2>1. ~Awaited(l, i) /\ (Awaited(l, i)' <=> i = k)
    BY <1>1, <1>3 DEF Awaited, At
  <2>2. sock[l][i].replies = <<>>
    BY <1>1, <1>6, <2>1, Unawaited
  <2> QED
    BY <1>1, <2>1, <2>2
<1>8. ASSUME NEW i \in Stage PROVE ChannelInOrder(l, i)'
  <2>1. /\ sock[l][i] \in Channel /\ Len(sock[l][i].frames) \in Nat
        /\ ~sock[l][i].open => sock[l][i].frames = <<>>
        /\ \A n \in 1 .. Len(sock[l][i].frames) :
             /\ sock[l][i].frames[n].op = "free" /\ Retired(sock[l][i].frames[n].id)
             /\ sock[l][i].frames[n].id \in Id
    BY <1>1, <1>6, <1>7, Unawaited
  <2>3. CASE i # k
    <3>1. sock'[l][i] = sock[l][i]
      BY <1>1, <2>3
    <3>2. \A n \in 1 .. Len(sock[l][i].frames) : FrameInOrder(l, i, n)'
      BY <1>4, <2>1, <3>1, FreeStays
    <3> QED
      BY <1>7, <2>1, <3>1, <3>2 DEF ChannelInOrder
  <2>4. CASE i = k
    <3> DEFINE c == sock[l][i].frames
               d == sock'[l][i].frames
    <3>1. /\ Len(d) = Len(c) + 1 /\ d[Len(c) + 1] = Run(l)
          /\ \A n \in 1 .. Len(c) : d[n] = c[n]
      <4>1. d = Append(c, Run(l)) /\ c \in Seq(Frame) /\ Run(l) \in Frame
        BY <1>1, <1>3, <2>1, <2>4, RunFacts, ChannelFacts DEF Typed
      <4> HIDE DEF c, d
      <4> QED
        BY <4>1, AppendProperties
    <3>2. \A n \in 1 .. Len(d) : n \in 1 .. Len(c) \/ n = Len(c) + 1
      BY <2>1, <3>1
    <3>3. ASSUME NEW n \in 1 .. Len(d) PROVE FrameInOrder(l, i, n)'
      <4>1. CASE n \in 1 .. Len(c)
        <5>1. d[n] = c[n] /\ c[n].op = "free" /\ Retired(c[n].id) /\ c[n].id \in Id
          BY <2>1, <3>1, <4>1
        <5> QED
          BY <1>4, <5>1, FreeStays
      <4>2. CASE n = Len(c) + 1
        <5>1. d[n] = Run(l)' /\ Awaited(l, i)' /\ n = Len(d)
          BY <1>6, <1>7, <2>4, <3>1, <4>2
        <5> QED
          BY <5>1 DEF FrameInOrder
      <4> QED
        BY <3>2, <4>1, <4>2
    <3> QED
      BY <1>1, <1>7, <2>4, <3>3 DEF ChannelInOrder
  <2> QED
    BY <2>3, <2>4
<1>9. ASSUME NEW i \in Stage PROVE KvInOrder(l, i)'
  <2>1. KvInOrder(l, i)
    BY <1>1, <1>3, <1>6 DEF LaneInOrder
  <2>2. Passed(l, i)' <=> Passed(l, i)
    <3>1. job[l].phase = "write" /\ job'[l].phase = "read" /\ job'[l].hop = job[l].hop
      BY <1>1 DEF k
    <3> QED
      BY <1>7, <3>1 DEF Passed
  <2>3. Befores(l)' = Befores(l)
    BY <1>1, <1>6 DEF Befores
  <2> QED
    BY <1>1, <1>3, <1>7, <2>1, <2>2, <2>3 DEF KvInOrder
<1>10. JobInOrder(l)'
  BY <1>1, <1>2, <1>3, <1>6 DEF LaneInOrder, JobInOrder, RowInOrder, Settled, Text
<1>11. LaneInOrder(l)'
  BY <1>8, <1>9, <1>10 DEF LaneInOrder
<1> QED
  BY <1>2, <1>5, <1>11, SameRequests DEF InOrder

LEMMA ReadInOrder ==
  ASSUME Typed, InOrder, NEW l \in Lane, Read(l) PROVE InOrder'
<1> DEFINE k == job[l].hop
<1>0. sock[l] # None /\ job[l] # None
  BY DEF Read, At, Typed, FirstConnects
<1>1. /\ k \in Stage /\ job[l].phase = "read" /\ sock[l][k].replies # <<>>
      /\ OnlyOn(l) /\ GoesOn(l) /\ sock'[l] # None
      /\ job'[l].start = job[l].start
      /\ job'[l].hop = (IF k < NumStages THEN k + 1 ELSE 1)
      /\ job'[l].phase = (IF k < NumStages THEN "write" ELSE "emit")
      /\ job'[l].hist = job[l].hist /\ job'[l].over = job[l].over
      /\ job'[l].hid = Head(sock[l][k].replies)
      /\ \A i \in Stage : i # k => sock'[l][i] = sock[l][i]
      /\ (sock'[l][k].open <=> sock[l][k].open) /\ sock'[l][k].frames = sock[l][k].frames
      /\ sock'[l][k].replies = Tail(sock[l][k].replies)
      /\ UNCHANGED <<setting, requests, lanes, kv, deaths>>
  BY <1>0, ReadSteps
<1>2. UNCHANGED <<state, out, nextId>>
  BY <1>1 DEF requests, lanes
<1>3. job'[l] # None /\ job'[l].rows = job[l].rows /\ job'[l].id = job[l].id
  BY <1>1 DEF GoesOn
<1>4. /\ LaneInOrder(l) /\ RowsOf(l)' = RowsOf(l)
      /\ Awaited(l, k) /\ sock[l][k].frames = <<>> /\ sock[l][k].replies = <<job[l].hist>>
  BY <1>0, <1>1, <1>3 DEF InOrder, RowsOf, LaneInOrder, ChannelInOrder, Awaited, At
<1>5. k \in Nat /\ k <= NumStages /\ NumStages \in Nat
  BY <1>1, StageFacts
<1>6. ASSUME NEW i \in Stage
      PROVE  (i < job'[l].hop \/ job'[l].phase = "emit") <=> (i < k \/ i = k \/ job'[l].phase = "emit")
  <2>1. i \in Nat
    BY StageFacts
  <2>2. CASE k < NumStages
    <3>1. job'[l].hop = k + 1
      BY <1>1, <2>2
    <3>2. i < k + 1 <=> i < k \/ i = k
      BY <1>5, <2>1
    <3> QED
      BY <3>1, <3>2
  <2>3. CASE ~(k < NumStages)
    BY <1>1, <2>3
  <2> QED
    BY <2>2, <2>3
<1>7. job'[l].phase = "emit" => \A i \in Stage : i < k \/ i = k
  <2> SUFFICES ASSUME job'[l].phase = "emit", NEW i \in Stage PROVE i < k \/ i = k
    OBVIOUS
  <2>1. ~(k < NumStages)
    BY <1>1
  <2>2. i \in Nat /\ i <= NumStages
    BY StageFacts
  <2> QED
    BY <1>5, <2>1, <2>2
<1>8. job'[l].phase \in {"write", "emit"} /\ (job'[l].phase = "emit" => job'[l].hop = 1)
  BY <1>1
<1>9. RetiredStay
  BY <1>1, <1>0, <1>2, <1>3, SameIds DEF OnlyOn
<1> HIDE DEF k
<1>10. ASSUME NEW m \in Lane, m # l PROVE LaneInOrder(m)'
  BY <1>1, <1>2, <1>9, <1>10, OtherLane DEF InOrder, OnlyOn
<1>11. ASSUME NEW i \in Stage
       PROVE  /\ ~Awaited(l, i)' /\ (Awaited(l, i) <=> i = k)
              /\ sock'[l][i].replies = <<>>
              /\ sock'[l][i].frames = sock[l][i].frames
              /\ sock'[l][i].open <=> sock[l][i].open
              /\ sock[l][i].replies # <<>> <=> i = k
  <2>1. ~Awaited(l, i)' /\ (Awaited(l, i) <=> i = k)
    BY <1>0, <1>1, <1>3, <1>8 DEF Awaited, At, k
  <2>2. CASE i = k
    <3>1. sock'[l][i].replies = <<>>
      BY <1>1, <1>4, <2>2
    <3> QED
      BY <1>1, <2>1, <2>2, <3>1
  <2>3. CASE i # k
    <3>1. sock[l][i].replies = <<>> /\ sock'[l][i] = sock[l][i]
      BY <1>0, <1>1, <1>4, <2>1, <2>3, Unawaited
    <3> QED
      BY <2>1, <2>3, <3>1
  <2> QED
    BY <2>2, <2>3
<1>12. ASSUME NEW i \in Stage PROVE ChannelInOrder(l, i)'
  <2>1. CASE i = k
    <3>1. sock'[l][i].frames = <<>> /\ Len(<<>>) = 0
      BY <1>4, <1>11, <2>1
    <3> QED
      BY <1>11, <3>1 DEF ChannelInOrder
  <2>2. CASE i # k
    <3>1. /\ ~sock[l][i].open => sock[l][i].frames = <<>>
          /\ \A n \in 1 .. Len(sock[l][i].frames) :
               /\ sock[l][i].frames[n].op = "free" /\ Retired(sock[l][i].frames[n].id)
               /\ sock[l][i].frames[n].id \in Id
      BY <1>0, <1>4, <1>11, <2>2, Unawaited
    <3>2. \A n \in 1 .. Len(sock[l][i].frames) : FrameInOrder(l, i, n)'
      BY <1>9, <1>11, <3>1, FreeStays
    <3> QED
      BY <1>11, <3>1, <3>2 DEF ChannelInOrder
  <2> QED
    BY <2>1, <2>2
<1>13. ASSUME NEW i \in Stage PROVE KvInOrder(l, i)'
  <2>1. KvInOrder(l, i)
    BY <1>0, <1>4 DEF LaneInOrder
  <2>2. Passed(l, i)' <=> Passed(l, i)
    <3>1. Passed(l, i) <=> i < k \/ i = k
      BY <1>1, <1>11 DEF Passed, k
    <3>2. Passed(l, i)' <=> job'[l].phase = "emit" \/ i < job'[l].hop
      BY <1>8, <1>11 DEF Passed
    <3>3. Passed(l, i)' <=> i < k \/ i = k \/ job'[l].phase = "emit"
      BY <1>6, <3>2
    <3> QED
      BY <1>7, <3>1, <3>3
  <2>3. Befores(l)' = Befores(l)
    BY <1>1, <1>4 DEF Befores
  <2> QED
    BY <1>1, <1>3, <1>11, <2>1, <2>2, <2>3 DEF KvInOrder
<1>14. JobInOrder(l)'
  <2>1. job'[l].hid = job'[l].hist
    BY <1>1, <1>4
  <2>2. \A b \in RowsOf(l) : RowInOrder(l, b)'
    BY <1>0, <1>1, <1>2, <1>3, <1>4, <1>8 DEF LaneInOrder, JobInOrder, RowInOrder, Settled, Text
  <2> QED
    BY <1>4, <1>8, <2>1, <2>2 DEF JobInOrder
<1>15. LaneInOrder(l)'
  BY <1>12, <1>13, <1>14 DEF LaneInOrder
<1> QED
  BY <1>2, <1>10, <1>15, SameRequests DEF InOrder

LEMMA FrontOfAppend ==
  ASSUME NEW S, NEW s \in Seq(S), NEW x \in S
  PROVE  Front(Append(s, x)) = s
<1> DEFINE a == Append(s, x)
           f == Front(a)
<1>1. a \in Seq(S) /\ a # <<>> /\ Len(a) = Len(s) + 1 /\ \A i \in 1 .. Len(s) : a[i] = s[i]
  BY AppendProperties
<1> HIDE DEF a
<1>2. f \in Seq(S) /\ Len(f) = Len(a) - 1 /\ \A i \in 1 .. Len(a) - 1 : f[i] = a[i]
  BY <1>1, WithoutLast
<1> HIDE DEF f
<1>3. Len(s) \in Nat /\ Len(a) - 1 = Len(s)
  BY <1>1, LenProperties
<1>4. Len(f) = Len(s) /\ \A i \in 1 .. Len(f) : f[i] = s[i]
  BY <1>1, <1>2, <1>3
<1>5. f = s
  BY <1>2, <1>4, SeqEqual
<1> QED
  BY <1>5 DEF f, a

LEMMA ConcatAppend ==
  ASSUME NEW S, NEW p \in Seq(S), NEW s \in Seq(S), NEW x \in S
  PROVE  p \o Append(s, x) = Append(p \o s, x)
<1>1. Append(s, x) = s \o <<x>> /\ <<x>> \in Seq(S)
  BY AppendIsConcat
<1>2. p \o s \in Seq(S)
  BY ConcatProperties
<1>3. Append(p \o s, x) = (p \o s) \o <<x>>
  BY <1>2, AppendIsConcat
<1>4. (p \o s) \o <<x>> = p \o (s \o <<x>>)
  BY <1>1, ConcatAssociative
<1> QED
  BY <1>1, <1>3, <1>4

LEMMA TextFacts ==
  ASSUME Typed, NEW r \in Req
  PROVE  /\ PromptOf[r] \in History /\ out[r] \in History /\ Text(r) \in History
         /\ Len(out[r]) \in Nat /\ Len(PromptOf[r]) \in Nat /\ Cap[r] \in Nat /\ Cap[r] >= 1
         /\ Len(Text(r)) = Len(PromptOf[r]) + Len(out[r])
<1>1. PromptOf[r] \in History /\ out[r] \in History /\ Cap[r] \in Nat \ {0}
  BY StaticAssumption DEF History, Typed, StateTyped
<1>2. Text(r) \in History /\ Len(Text(r)) = Len(PromptOf[r]) + Len(out[r])
  BY <1>1, ConcatProperties DEF Text, History
<1>3. Len(out[r]) \in Nat /\ Len(PromptOf[r]) \in Nat
  BY <1>1, LenProperties DEF History
<1>4. Cap[r] \in Nat /\ Cap[r] >= 1
  BY <1>1
<1> QED
  BY <1>1, <1>2, <1>3, <1>4

\* What a pass says to row b, and what becomes of it.
Said(l, b, t) == t = Argmax(job[l].hist[b]) /\ t \in Token

LEMMA EmitSays ==
  ASSUME Typed, NEW l \in Lane, LaneInOrder(l), job[l] # None, job[l].phase = "emit",
         NEW nxt \in [RowsOf(l) -> Token], NEW b \in RowsOf(l), nxt[b] \in Says(job[l].hid[b])
  PROVE  /\ Said(l, b, nxt[b]) /\ job[l].hist[b] \in History
         /\ b \notin job[l].over => job[l].hist[b] = Text(job[l].rows[b])
         /\ b \in job[l].over => Settled(job[l].rows[b])
<1>1. job[l].hid = job[l].hist
  BY DEF LaneInOrder, JobInOrder
<1>2. job[l].hist[b] \in History
  BY RowFacts
<1>3. nxt[b] = Argmax(job[l].hist[b])
  BY <1>1, <1>2, CellFacts DEF Says
<1>4. nxt[b] \in Token
  OBVIOUS
<1> QED
  BY <1>2, <1>3, <1>4 DEF Said, LaneInOrder, JobInOrder, RowInOrder

\* A row after its token: over and settled, or shown it.
LEMMA RowAdvances ==
  ASSUME Typed, NEW l \in Lane, job[l] # None, NEW b \in RowsOf(l), NEW t, Said(l, b, t),
         NEW r \in Req, r = job[l].rows[b], ShowsRow(l, b, t),
         b \notin job[l].over => job[l].hist[b] = Text(r),
         b \in job[l].over => Settled(r)
  PROVE  /\ IsOver(l, b, t) => Settled(r)'
         /\ ~IsOver(l, b, t) => Text(r)' = Append(job[l].hist[b], t)
<1>1. /\ out[r] \in History /\ Len(out[r]) \in Nat /\ Cap[r] \in Nat /\ PromptOf[r] \in History
      /\ t \in Token /\ t = Argmax(job[l].hist[b])
  BY TextFacts DEF Said
<1>2. /\ Shown(l, b) = Len(out[r]) /\ Limit(l, b) = Cap[r]
      /\ out'[r] = IF IsShown(l, b, t) THEN Append(out[r], t) ELSE out[r]
  BY DEF Shown, Limit, ShowsRow
<1>3. Len(Append(out[r], t)) = Len(out[r]) + 1
  BY <1>1, AppendProperties DEF History
<1>4. CASE b \in job[l].over
  BY <1>2, <1>4 DEF IsShown, IsOver, Settled, Text
<1>5. CASE b \notin job[l].over /\ t \in Eos
  <2>1. out'[r] = out[r] /\ Argmax(Text(r)) \in Eos
    BY <1>1, <1>2, <1>5 DEF IsShown
  <2>2. IsOver(l, b, t)
    BY <1>5 DEF IsOver
  <2> QED
    BY <2>1, <2>2 DEF Settled, Text
<1>6. CASE b \notin job[l].over /\ t \notin Eos /\ Len(out[r]) >= Cap[r]
  <2>1. ~(Len(out[r]) < Cap[r])
    BY <1>1, <1>6
  <2>2. out'[r] = out[r] /\ IsOver(l, b, t)
    BY <1>2, <1>6, <2>1 DEF IsShown, IsOver
  <2> QED
    BY <1>6, <2>2 DEF Settled
<1>7. CASE b \notin job[l].over /\ t \notin Eos /\ ~(Len(out[r]) >= Cap[r])
  <2>1. Len(out[r]) < Cap[r]
    BY <1>1, <1>7
  <2>2. out'[r] = Append(out[r], t)
    BY <1>2, <1>7, <2>1 DEF IsShown
  <2>3. ASSUME IsOver(l, b, t) PROVE Settled(r)'
    <3>1. Len(out[r]) + 1 >= Cap[r]
      BY <1>2, <1>7, <2>3 DEF IsOver
    <3>2. Len(out'[r]) >= Cap[r]
      BY <1>3, <2>2, <3>1
    <3> QED
      BY <3>2 DEF Settled
  <2>4. Text(r)' = Append(job[l].hist[b], t)
    <3>1. PromptOf[r] \o Append(out[r], t) = Append(PromptOf[r] \o out[r], t)
      <4>1. PromptOf[r] \in Seq(Token) /\ out[r] \in Seq(Token) /\ t \in Token
        BY <1>1 DEF History
      <4> DEFINE p == PromptOf[r]
                 o == out[r]
      <4> HIDE DEF p, o
      <4>2. p \in Seq(Token) /\ o \in Seq(Token) /\ t \in Token
        BY <4>1 DEF p, o
      <4>3. p \o Append(o, t) = Append(p \o o, t)
        BY <4>2, ConcatAppend
      <4> QED
        BY <4>3 DEF p, o
    <3> QED
      BY <1>7, <2>2, <3>1 DEF Text
  <2> QED
    BY <2>3, <2>4
<1> QED
  BY <1>4, <1>5, <1>6, <1>7

LEMMA EmitInOrder ==
  ASSUME Typed, InOrder, NEW l \in Lane, Emit(l) PROVE InOrder'
<1>1. /\ job[l].phase = "emit" /\ OnlyOn(l) /\ GoesOn(l)
      /\ job'[l].start = FALSE /\ job'[l].hop = job[l].hop
      /\ UNCHANGED <<setting, state, waiting, lanes, sock, kv, deaths>>
  BY EmitSteps
<1>2. PICK nxt \in [RowsOf(l) -> Token] :
        LET O == Overs(l, nxt)
        IN  /\ \A b \in RowsOf(l) : nxt[b] \in Says(job[l].hid[b])
            /\ \A r \in Req : r \notin ToSet(job[l].rows) => out'[r] = out[r]
            /\ \A b \in RowsOf(l) : ShowsRow(l, b, nxt[b])
            /\ out' = [r \in Req |-> out'[r]]
            /\ job'[l].over = O
            /\ O = RowsOf(l) => job'[l].hist = job[l].hist /\ job'[l].phase = "finish"
            /\ O # RowsOf(l) => /\ job'[l].hist = Nexts(l, nxt) /\ job'[l].phase = "write"
                                /\ job'[l].hid = Nexts(l, nxt)
  BY EmitSteps
<1>3. /\ job[l] # None /\ job'[l] # None /\ job'[l].rows = job[l].rows /\ job'[l].id = job[l].id
      /\ nextId' = nextId /\ RowsOf(l)' = RowsOf(l) /\ sock' = sock /\ kv' = kv
  BY <1>1 DEF GoesOn, lanes, RowsOf
<1>4. LaneInOrder(l) /\ job[l].hop = 1 /\ job[l].hid = job[l].hist
  BY <1>1, <1>3 DEF InOrder, LaneInOrder, JobInOrder
<1>5. RetiredStay
  BY <1>1, <1>3, SameIds DEF OnlyOn
<1>6. ASSUME NEW m \in Lane, m # l PROVE LaneInOrder(m)'
  <2>1. ASSUME job[m] # None, NEW r \in ToSet(job[m].rows) PROVE out'[r] = out[r]
    <3>1. r \in Req /\ Holding(r) = {m}
      BY <2>1, RowsRun
    <3>2. r \notin ToSet(job[l].rows)
      BY <1>3, <1>6, <3>1 DEF Holding
    <3> QED
      BY <1>2, <3>1, <3>2
  <2>2. job'[m] = job[m] /\ sock'[m] = sock[m] /\ LaneInOrder(m)
    BY <1>1, <1>6 DEF OnlyOn, InOrder
  <2> QED
    BY <1>3, <1>5, <2>1, <2>2, OtherLane
<1>7. ASSUME NEW b \in RowsOf(l)
      PROVE  /\ Said(l, b, nxt[b]) /\ job[l].hist[b] \in History
             /\ b \notin job[l].over => job[l].hist[b] = Text(job[l].rows[b])
             /\ b \in job[l].over => Settled(job[l].rows[b])
  BY <1>1, <1>2, <1>3, <1>4, EmitSays
<1>8. ASSUME NEW b \in RowsOf(l) PROVE RowInOrder(l, b)'
  <2>1. PICK r \in Req : r = job[l].rows[b]
    BY <1>3, RowFacts
  <2>2. /\ IsOver(l, b, nxt[b]) => Settled(r)'
        /\ ~IsOver(l, b, nxt[b]) => Text(r)' = Append(job[l].hist[b], nxt[b])
    BY <1>2, <1>3, <1>7, <2>1, RowAdvances
  <2>3. r = job'[l].rows[b]
    BY <1>3, <2>1
  <2>4. CASE b \in Overs(l, nxt)
    <3>1. Settled(r)' /\ b \in job'[l].over
      BY <1>2, <2>2, <2>4 DEF Overs
    <3> QED
      BY <2>3, <3>1 DEF RowInOrder, Settled, Text
  <2>5. CASE b \notin Overs(l, nxt)
    <3>1. Overs(l, nxt) # RowsOf(l) /\ ~IsOver(l, b, nxt[b])
      BY <2>5 DEF Overs
    <3>2. /\ b \notin job'[l].over /\ job'[l].phase = "write"
          /\ job'[l].hist = Nexts(l, nxt)
      BY <1>2, <2>5, <3>1
    <3>3. job'[l].hist[b] = Append(job[l].hist[b], nxt[b])
      BY <3>2 DEF Nexts
    <3>4. job'[l].hist[b] = Text(r)'
      BY <2>2, <3>1, <3>3
    <3> QED
      BY <2>3, <3>2, <3>4 DEF RowInOrder, Text
  <2> QED
    BY <2>4, <2>5
<1>9. JobInOrder(l)'
  <2>1. job'[l].phase # "finish" => job'[l].hid = job'[l].hist
    BY <1>2
  <2>2. job'[l].hop = 1
    BY <1>1, <1>4
  <2> QED
    BY <1>3, <1>8, <2>1, <2>2 DEF JobInOrder
<1>10. ASSUME sock[l] # None, NEW k \in Stage PROVE ChannelInOrder(l, k)' /\ KvInOrder(l, k)'
  <2>1. ~Awaited(l, k) /\ ~Awaited(l, k)'
    <3>1. job'[l].phase \in {"write", "finish"}
      BY <1>2
    <3> QED
      BY <1>1, <3>1 DEF Awaited, At
  <2>2. /\ sock[l][k].replies = <<>> /\ (~sock[l][k].open => sock[l][k].frames = <<>>)
        /\ \A n \in 1 .. Len(sock[l][k].frames) :
             /\ sock[l][k].frames[n].op = "free" /\ Retired(sock[l][k].frames[n].id)
             /\ sock[l][k].frames[n].id \in Id
    BY <1>4, <1>10, <2>1, Unawaited
  <2>3. \A n \in 1 .. Len(sock[l][k].frames) : FrameInOrder(l, k, n)'
    BY <1>3, <1>5, <2>2, FreeStays
  <2>4. ChannelInOrder(l, k)'
    BY <1>3, <2>2, <2>3 DEF ChannelInOrder
  <2>5. sock[l][k].open => kv[k][job[l].id] = job[l].hist
    BY <1>1, <1>3, <1>4, <1>10 DEF LaneInOrder, KvInOrder, Passed
  <2>6. CASE Overs(l, nxt) = RowsOf(l)
    <3>1. job'[l].phase = "finish" /\ job'[l].hist = job[l].hist
      BY <1>2, <2>6
    <3> QED
      BY <1>3, <2>4, <2>5, <3>1 DEF KvInOrder, Passed
  <2>7. CASE Overs(l, nxt) # RowsOf(l)
    <3>1. job'[l].phase = "write" /\ job'[l].hist = Nexts(l, nxt) /\ job'[l].hop = 1
      BY <1>1, <1>2, <1>4, <2>7
    <3>2. ~(k < 1)
      BY StageFacts
    <3>3. ~Passed(l, k)'
      BY <2>1, <3>1, <3>2 DEF Passed
    <3>4. Befores(l)' = job[l].hist
      <4>1. \A b \in RowsOf(l) : Front(Append(job[l].hist[b], nxt[b])) = job[l].hist[b]
        <5> SUFFICES ASSUME NEW b \in RowsOf(l) PROVE Front(Append(job[l].hist[b], nxt[b])) = job[l].hist[b]
          OBVIOUS
        <5>1. job[l].hist[b] \in Seq(Token) /\ nxt[b] \in Token
          BY <1>7 DEF History, Said
        <5> QED
          BY <5>1, FrontOfAppend
      <4>2. \A b \in RowsOf(l) : job'[l].hist[b] = Append(job[l].hist[b], nxt[b])
        BY <3>1 DEF Nexts
      <4>3. Befores(l)' = [b \in RowsOf(l) |-> job[l].hist[b]]
        <5>1. Befores(l)' = [b \in RowsOf(l) |-> Front(job'[l].hist[b])]
          BY <1>3 DEF Befores
        <5> QED
          BY <4>1, <4>2, <5>1
      <4>4. job[l].hist \in Seq(History) /\ Len(job[l].hist) = Len(job[l].rows)
        BY <1>3, JobOn, JobFacts DEF Typed
      <4>5. job[l].hist \in [RowsOf(l) -> History]
        BY <4>4, LenProperties DEF RowsOf
      <4> QED
        BY <4>3, <4>5
    <3> QED
      BY <1>3, <2>4, <2>5, <3>3, <3>4 DEF KvInOrder
  <2> QED
    BY <2>6, <2>7
<1>11. LaneInOrder(l)'
  BY <1>3, <1>9, <1>10 DEF LaneInOrder
<1>12. Unbegun'
  <2>1. ASSUME NEW r \in Req, state'[r] \in {"new", "waiting"} PROVE out'[r] = <<>>
    <3>1. state[r] \in {"new", "waiting"} /\ out[r] = <<>>
      BY <1>1, <2>1 DEF InOrder, Unbegun
    <3>2. r \notin ToSet(job[l].rows)
      BY <1>3, <3>1, RowsRun
    <3> QED
      BY <1>2, <3>1, <3>2
  <2> QED
    BY <2>1 DEF Unbegun
<1> QED
  BY <1>6, <1>11, <1>12 DEF InOrder

\* Nothing is on its way on lane l but the end of jobs.
Still(l) ==
  sock[l] # None => \A k \in Stage :
    /\ sock[l][k].replies = <<>> /\ (~sock[l][k].open => sock[l][k].frames = <<>>)
    /\ \A n \in 1 .. Len(sock[l][k].frames) :
         /\ sock[l][k].frames[n].op = "free" /\ Retired(sock[l][k].frames[n].id)
         /\ sock[l][k].frames[n].id \in Id

LEMMA EndingLane ==
  ASSUME Typed, NEW l \in Lane, job[l] # None, job'[l] = None, Still(l), RetiredStay,
         NEW i \in Id, i = job[l].id, Retired(i)',
         Freed(l) \/ sock'[l] = None \/ sock'[l] = sock[l]
  PROVE  LaneInOrder(l)'
<1>1. ASSUME sock'[l] # None, NEW k \in Stage PROVE ChannelInOrder(l, k)'
  <2>1. CASE sock'[l] = sock[l]
    <3>1. /\ sock[l][k].replies = <<>> /\ (~sock[l][k].open => sock[l][k].frames = <<>>)
          /\ \A n \in 1 .. Len(sock[l][k].frames) :
               /\ sock[l][k].frames[n].op = "free" /\ Retired(sock[l][k].frames[n].id)
               /\ sock[l][k].frames[n].id \in Id
      BY <1>1, <2>1 DEF Still
    <3>2. \A n \in 1 .. Len(sock[l][k].frames) : FrameInOrder(l, k, n)'
      BY <2>1, <3>1, FreeStays
    <3> QED
      BY <2>1, <3>1, <3>2 DEF ChannelInOrder
  <2>2. CASE Freed(l)
    <3> DEFINE c == sock[l][k].frames
               d == sock'[l][k].frames
               f == [op |-> "free", id |-> job[l].id]
    <3>1. /\ sock[l] # None /\ sock[l][k] \in Channel /\ sock'[l][k].replies = <<>>
          /\ (~sock[l][k].open => c = <<>>)
          /\ \A n \in 1 .. Len(c) : c[n].op = "free" /\ Retired(c[n].id) /\ c[n].id \in Id
      BY <2>2, Socket DEF Freed, Still, Typed
    <3>2. sock'[l][k].open <=> sock[l][k].open
      BY <2>2 DEF Freed
    <3>3. CASE ~sock[l][k].open
      <4>1. sock'[l][k].frames = <<>> /\ Len(<<>>) = 0
        BY <2>2, <3>1, <3>3 DEF Freed
      <4> QED
        BY <3>1, <4>1 DEF ChannelInOrder
    <3>4. CASE sock[l][k].open
      <4>1. c \in Seq(Frame) /\ f \in Frame /\ d = Append(c, f) /\ f.op = "free" /\ f.id = i
        BY <2>2, <3>1, <3>4, ChannelFacts, FrameFacts DEF Freed
      <4>2. /\ Len(d) = Len(c) + 1 /\ d[Len(c) + 1] = f /\ \A n \in 1 .. Len(c) : d[n] = c[n]
            /\ Len(c) \in Nat
        <5> HIDE DEF c, d, f
        <5> QED
          BY <4>1, AppendProperties, LenProperties
      <4>3. \A n \in 1 .. Len(d) : n \in 1 .. Len(c) \/ n = Len(c) + 1
        BY <4>2
      <4>4. ASSUME NEW n \in 1 .. Len(d) PROVE FrameInOrder(l, k, n)'
        <5>1. CASE n \in 1 .. Len(c)
          <6>1. d[n] = c[n] /\ c[n].op = "free" /\ Retired(c[n].id) /\ c[n].id \in Id
            BY <3>1, <4>2, <5>1
          <6> QED
            BY <6>1, FreeStays
        <5>2. CASE n = Len(c) + 1
          <6>1. d[n].op = "free" /\ d[n].id = i
            BY <4>1, <4>2, <5>2
          <6>2. Retired(sock[l][k].frames[n].id)'
            BY <6>1 DEF Retired
          <6> QED
            BY <6>1, <6>2 DEF FrameInOrder
        <5> QED
          BY <4>3, <5>1, <5>2
      <4> QED
        BY <3>1, <3>2, <3>4, <4>4 DEF ChannelInOrder
    <3> QED
      BY <3>3, <3>4
  <2> QED
    BY <1>1, <2>1, <2>2
<1> QED
  BY <1>1 DEF LaneInOrder

LEMMA EndInOrder ==
  ASSUME Typed, Exact, InOrder, NEW l \in Lane, Finish(l) \/ Fail(l) \/ ClientLeaves(l)
  PROVE  InOrder'
<1>1. LaneInOrder(l)
  BY DEF InOrder
<1>2. /\ job[l] # None /\ (\A m \in Lane : m # l => sock'[m] = sock[m])
      /\ Freed(l) \/ sock'[l] = None \/ sock'[l] = sock[l]
      /\ \E how \in Ended : Leave(l, how)
  <2>1. CASE Finish(l)
    BY <2>1, FinishSteps
  <2>2. CASE Fail(l)
    BY <2>2, FailSteps
  <2>3. CASE ClientLeaves(l)
    BY <2>3, ClientLeavesSteps
  <2> QED
    BY <2>1, <2>2, <2>3
<1>3. Still(l) \/ sock'[l] = None
  <2>1. ASSUME job[l].phase # "read" PROVE Still(l)
    <3>1. \A k \in Stage : ~Awaited(l, k)
      BY <2>1 DEF Awaited, At
    <3> QED
      BY <1>1, <3>1, Unawaited DEF Still
  <2>2. CASE Finish(l) \/ ClientLeaves(l)
    <3>1. job[l].phase # "read"
      BY <2>2, FinishSteps, ClientLeavesSteps
    <3> QED
      BY <2>1, <3>1
  <2>3. CASE Fail(l) /\ ~Batching
    BY <2>3, FailSteps
  <2>4. CASE Fail(l) /\ Batching /\ job[l].phase = "read"
    <3>1. sock[l] # None /\ "hang" \notin setting.faults
      BY <2>4, FailSteps DEF Exact
    <3>2. Link(l).replies = <<>> /\ ~Link(l).open
      BY <2>4, <3>1, FailSteps DEF Fails, At
    <3>3. ASSUME NEW k \in Stage
          PROVE  /\ sock[l][k].replies = <<>> /\ (~sock[l][k].open => sock[l][k].frames = <<>>)
                 /\ \A n \in 1 .. Len(sock[l][k].frames) :
                      /\ sock[l][k].frames[n].op = "free" /\ Retired(sock[l][k].frames[n].id)
                      /\ sock[l][k].frames[n].id \in Id
      <4>1. CASE k = job[l].hop
        <5>1. sock[l][k].replies = <<>> /\ ~sock[l][k].open
          BY <3>2, <4>1 DEF Link
        <5>2. sock[l][k].frames = <<>> /\ Len(<<>>) = 0
          BY <1>1, <3>1, <5>1 DEF LaneInOrder, ChannelInOrder
        <5> QED
          BY <5>1, <5>2
      <4>2. CASE k # job[l].hop
        <5>1. ~Awaited(l, k)
          BY <4>2 DEF Awaited
        <5> QED
          BY <1>1, <3>1, <5>1, Unawaited
      <4> QED
        BY <4>1, <4>2
    <3> QED
      BY <3>3 DEF Still
  <2> QED
    BY <2>1, <2>2, <2>3, <2>4
<1>4. /\ UNCHANGED <<setting, out, waiting, made, nextId, kv, deaths>>
      /\ job'[l] = None /\ (\A m \in Lane : m # l => job'[m] = job[m])
      /\ \E how \in Ended : \A r \in Req :
           state'[r] = IF r \in ToSet(job[l].rows) THEN how ELSE state[r]
  BY <1>2, LeaveSteps
<1>5. RetiredStay
  BY <1>4, SameIds
<1>6. ASSUME NEW m \in Lane, m # l PROVE LaneInOrder(m)'
  BY <1>2, <1>4, <1>5, <1>6, OtherLane DEF InOrder
<1>7. PICK i \in Id : i = job[l].id
  BY <1>2, JobOn, JobFacts DEF Typed
<1>8. Retired(i)'
  <2>1. i < nextId'
    BY <1>2, <1>4, <1>7 DEF Typed, IdsTyped
  <2>2. \A m \in Lane : job'[m] # None => job'[m].id # i
    BY <1>2, <1>4, <1>7 DEF Typed, IdsTyped
  <2> QED
    BY <2>1, <2>2 DEF Retired
<1>9. LaneInOrder(l)'
  <2>1. CASE Still(l)
    BY <1>2, <1>4, <1>5, <1>7, <1>8, <2>1, EndingLane
  <2>2. CASE sock'[l] = None
    BY <1>4, <2>2 DEF LaneInOrder
  <2> QED
    BY <1>3, <2>1, <2>2
<1>10. Unbegun'
  BY <1>4 DEF InOrder, Unbegun, Ended
<1> QED
  BY <1>6, <1>9, <1>10 DEF InOrder

LEMMA BeginInOrder ==
  ASSUME Typed, InOrder, NEW l \in Lane, job[l] = None, NEW rows \in Seq(Req), IsInjective(rows),
         Len(rows) \in 1 .. setting.maxBatch,
         \A r \in ToSet(rows) : r \in Req /\ state[r] = "waiting", Begin(l, rows)
  PROVE  InOrder'
<1>1. /\ UNCHANGED <<setting, out, sock, kv, deaths>>
      /\ Starts(l, rows) /\ (\A m \in Lane : m # l => job'[m] = job[m])
      /\ nextId' = nextId + 1
      /\ \A r \in Req : state'[r] = IF r \in ToSet(rows) THEN "running" ELSE state[r]
  BY BeginSteps
<1>2. nextId \in Nat
  BY DEF Typed, IdsTyped
<1>3. RetiredStay
  <2> SUFFICES ASSUME NEW i \in Id, Retired(i) PROVE Retired(i)'
    BY DEF RetiredStay
  <2>1. i \in Nat /\ i < nextId /\ i # nextId /\ i < nextId'
    BY <1>1, <1>2, IdFacts DEF Retired
  <2>2. \A m \in Lane : job'[m] # None => job'[m].id # i
    BY <1>1, <2>1 DEF Retired, Starts
  <2> QED
    BY <2>1, <2>2 DEF Retired
<1>4. ASSUME NEW m \in Lane, m # l PROVE LaneInOrder(m)'
  BY <1>1, <1>3, <1>4, OtherLane DEF InOrder
<1>5. \A k \in Stage : ~Awaited(l, k) /\ ~Awaited(l, k)'
  BY <1>1 DEF Awaited, At, Starts
<1>6. ASSUME sock[l] # None, NEW k \in Stage PROVE ChannelInOrder(l, k)' /\ KvInOrder(l, k)'
  <2>1. /\ sock[l][k].replies = <<>> /\ (~sock[l][k].open => sock[l][k].frames = <<>>)
        /\ \A n \in 1 .. Len(sock[l][k].frames) :
             /\ sock[l][k].frames[n].op = "free" /\ Retired(sock[l][k].frames[n].id)
             /\ sock[l][k].frames[n].id \in Id
    BY <1>5, <1>6, Unawaited DEF InOrder
  <2>2. \A n \in 1 .. Len(sock[l][k].frames) : FrameInOrder(l, k, n)'
    BY <1>1, <1>3, <2>1, FreeStays
  <2>3. ChannelInOrder(l, k)'
    BY <1>1, <2>1, <2>2 DEF ChannelInOrder
  <2>4. ~(k < 1)
    BY StageFacts
  <2>5. KvInOrder(l, k)'
    BY <1>1, <1>5, <2>4 DEF KvInOrder, Passed, Starts
  <2> QED
    BY <2>3, <2>5
<1>7. JobInOrder(l)'
  <2>1. ASSUME NEW b \in 1 .. Len(rows) PROVE RowInOrder(l, b)'
    <3>1. PICK r \in Req : r = rows[b] /\ state[r] = "waiting"
      <4>1. rows[b] \in ToSet(rows)
        BY SetOf
      <4> QED
        BY <4>1
    <3>2. out'[r] = <<>> /\ job'[l].hist[b] = PromptOf[r] /\ job'[l].rows[b] = r
      BY <1>1, <3>1 DEF InOrder, Unbegun, Starts
    <3>3. PromptOf[r] \o <<>> = PromptOf[r]
      BY TextFacts, ConcatEmptySeq DEF History
    <3> QED
      BY <1>1, <3>2, <3>3 DEF RowInOrder, Text, Starts
  <2>2. RowsOf(l)' = 1 .. Len(rows)
    BY <1>1 DEF RowsOf, Starts
  <2> QED
    BY <1>1, <2>1, <2>2 DEF JobInOrder, Starts
<1>8. LaneInOrder(l)'
  BY <1>1, <1>6, <1>7 DEF LaneInOrder
<1>9. Unbegun'
  BY <1>1 DEF InOrder, Unbegun
<1> QED
  BY <1>4, <1>8, <1>9 DEF InOrder

LEMMA AdmitInOrder == ASSUME Typed, InOrder, Admit PROVE InOrder'
<1>1. ASSUME NEW n \in 1 .. Cardinality(Req), Collect(n) PROVE InOrder'
  <2>1. PICK rows \in Seq(Req) :
          /\ IsInjective(rows) /\ Len(rows) \in 1 .. setting.maxBatch
          /\ \A r \in ToSet(rows) : r \in Req /\ state[r] = "waiting"
          /\ Begin(1, rows)
    BY <1>1, CollectSteps
  <2>2. job[1] = None /\ 1 \in Lane
    BY <1>1, CollectSteps, SettingFacts DEF Typed, StateTyped
  <2> QED
    BY <2>1, <2>2, BeginInOrder
<1>2. ASSUME NEW r \in Req, Enter(r) PROVE InOrder'
  <2>1. ~Batching /\ state[r] = "waiting"
    BY <1>2, EnterSteps
  <2>2. PICK l \in Lane : job[l] = None /\ Begin(l, <<r>>)
    BY <1>2, EnterSteps
  <2>3. Len(<<r>>) \in 1 .. setting.maxBatch
    <3>1. setting.maxBatch = 1
      BY <2>1, SettingFacts DEF Typed, StateTyped
    <3>2. 1 \in 1 .. 1
      OBVIOUS
    <3> QED
      BY <3>1, <3>2, One
  <2>4. <<r>> \in Seq(Req) /\ IsInjective(<<r>>) /\ \A q \in ToSet(<<r>>) : q \in Req /\ state[q] = "waiting"
    BY <2>1, One
  <2> QED
    BY <2>2, <2>3, <2>4, BeginInOrder
<1> QED
  BY <1>1, <1>2 DEF Admit

LEMMA SubmitInOrder == ASSUME Typed, InOrder, NEW r \in Req, Submit(r) PROVE InOrder'
<1>1. /\ state[r] = "new" /\ state' = [state EXCEPT ![r] = "waiting"]
      /\ UNCHANGED <<setting, out, lanes, job, sock, kv, deaths>>
  BY DEF Submit
<1>2. RetiredStay
  BY <1>1, SameIds DEF lanes
<1>3. ASSUME NEW m \in Lane PROVE LaneInOrder(m)'
  BY <1>1, <1>2, OtherLane DEF InOrder
<1>4. Unbegun'
  BY <1>1 DEF InOrder, Unbegun, Typed, StateTyped
<1> QED
  BY <1>3, <1>4 DEF InOrder

LEMMA DieInOrder == ASSUME Typed, InOrder, NEW k \in Stage, StageDies(k) PROVE InOrder'
<1>1. /\ UNCHANGED <<setting, requests, lanes, job>>
      /\ \A i \in Stage, n \in Id : kv'[i][n] = IF i = k THEN None ELSE kv[i][n]
      /\ \A l \in Lane : (sock'[l] = None <=> sock[l] = None)
      /\ \A l \in Lane : sock[l] # None =>
           /\ \A i \in Stage : i # k => sock'[l][i] = sock[l][i]
           /\ ~sock'[l][k].open /\ sock'[l][k].frames = <<>>
           /\ sock'[l][k].replies = sock[l][k].replies
  BY DieSteps
<1>2. UNCHANGED <<state, out, nextId>>
  BY <1>1 DEF requests, lanes
<1>3. RetiredStay
  BY <1>1, <1>2, SameIds
<1>4. ASSUME NEW l \in Lane PROVE LaneInOrder(l)'
  <2>1. LaneInOrder(l)
    BY DEF InOrder
  <2>2. ASSUME sock[l] # None, NEW i \in Stage PROVE ChannelInOrder(l, i)'
    <3>0. Awaited(l, i)' <=> Awaited(l, i)
      BY <1>1 DEF Awaited, At
    <3>1. ChannelInOrder(l, i) /\ sock[l][i] \in Channel
      BY <2>1, <2>2, Socket DEF LaneInOrder, Typed
    <3>2. CASE i = k
      <4>1. sock'[l][i].frames = <<>> /\ sock'[l][i].replies = sock[l][i].replies /\ Len(<<>>) = 0
        BY <1>1, <2>2, <3>2
      <4> QED
        BY <1>1, <3>0, <3>1, <4>1 DEF ChannelInOrder
    <3>3. CASE i # k
      <4>1. sock'[l][i] = sock[l][i] /\ Run(l)' = Run(l)
        BY <1>1, <2>2, <3>3 DEF Run
      <4>2. ASSUME NEW n \in 1 .. Len(sock[l][i].frames) PROVE FrameInOrder(l, i, n)'
        <5>1. FrameInOrder(l, i, n) /\ sock[l][i].frames[n].id \in Id
          BY <3>1, ChannelFacts, ElementOfSeq, FrameFacts DEF ChannelInOrder
        <5>2. CASE sock[l][i].frames[n].op = "free" /\ Retired(sock[l][i].frames[n].id)
          BY <1>3, <4>1, <5>1, <5>2, FreeStays
        <5>3. CASE Awaited(l, i) /\ n = Len(sock[l][i].frames) /\ sock[l][i].frames[n] = Run(l)
          BY <3>0, <4>1, <5>3 DEF FrameInOrder
        <5> QED
          BY <5>1, <5>2, <5>3 DEF FrameInOrder
      <4> QED
        BY <1>1, <3>0, <3>1, <4>1, <4>2 DEF ChannelInOrder
    <3> QED
      BY <3>2, <3>3
  <2>3. ASSUME job[l] # None PROVE JobInOrder(l)'
    BY <1>1, <1>2, <2>1, <2>3 DEF LaneInOrder, JobInOrder, RowInOrder, Settled, Text, RowsOf
  <2>4. ASSUME job[l] # None, sock[l] # None, NEW i \in Stage PROVE KvInOrder(l, i)'
    <3>1. CASE i = k
      BY <1>1, <2>4, <3>1 DEF KvInOrder
    <3>2. CASE i # k
      <4>1. sock'[l][i] = sock[l][i] /\ job[l].id \in Id
        BY <1>1, <2>4, <3>2, JobOn, JobFacts DEF Typed
      <4>2. kv'[i][job[l].id] = kv[i][job[l].id]
        BY <1>1, <3>2, <4>1
      <4> QED
        BY <1>1, <2>1, <2>4, <4>1, <4>2
           DEF LaneInOrder, KvInOrder, Passed, Awaited, At, Befores, RowsOf
    <3> QED
      BY <3>1, <3>2
  <2> QED
    BY <1>1, <2>2, <2>3, <2>4 DEF LaneInOrder
<1> QED
  BY <1>2, <1>4, SameRequests DEF InOrder

\* The forward of the pass under way is computed on the right KV.
LEMMA AnswerIsHistory ==
  ASSUME Typed, NEW l \in Lane, NEW k \in Stage, job[l] # None, sock[l] # None, sock[l][k].open,
         LaneInOrder(l), Awaited(l, k), sock[l][k].replies = <<>>
  PROVE  /\ Run(l).id = job[l].id /\ Run(l).rows = Len(job[l].rows) /\ Run(l).op = "run"
         /\ Len(Run(l).hid) = Len(job[l].rows)
         /\ Answer(k, Run(l)) = job[l].hist
<1>1. /\ Run(l).id = job[l].id /\ Run(l).rows = Len(job[l].rows) /\ Run(l).op = "run"
      /\ Run(l).hid = job[l].hid /\ Run(l).start = job[l].start
  BY DEF Run
<1>2. job[l].phase = "read" /\ job[l].hop = k /\ job[l].hid = job[l].hist
  BY DEF LaneInOrder, JobInOrder, Awaited, At
<1>3. job[l].hist \in Seq(History) /\ Len(job[l].hist) = Len(job[l].rows)
  BY JobOn, JobFacts DEF Typed
<1>4. job[l].start \/ kv[k][job[l].id] = Befores(l)
  <2>1. ~(k < k)
    BY StageFacts
  <2>2. ~Passed(l, k)
    BY <1>2, <2>1 DEF Passed
  <2> QED
    BY <2>2 DEF LaneInOrder, KvInOrder
<1>5. ASSUME NEW b \in RowsOf(l)
      PROVE  Computed(IF kv[k][job[l].id] = None THEN <<>> ELSE kv[k][job[l].id][b],
                      job[l].start, job[l].hist[b]) = job[l].hist[b]
  <2>1. job[l].hist[b] # Junk /\ job[l].hist[b] \in History
    BY <1>5, RowFacts, CellFacts
  <2>2. CASE job[l].start
    BY <2>2 DEF Computed
  <2>3. CASE ~job[l].start
    <3>1. kv[k][job[l].id] = Befores(l)
      BY <1>4, <2>3
    <3>2. Befores(l)[b] = Front(job[l].hist[b])
      BY DEF Befores
    <3>3. Befores(l) # None
      <4>1. \A c \in RowsOf(l) : Front(job[l].hist[c]) \in Cell
        <5> SUFFICES ASSUME NEW c \in RowsOf(l) PROVE Front(job[l].hist[c]) \in Cell
          OBVIOUS
        <5>1. job[l].hist[c] \in Seq(Token)
          BY RowFacts DEF History
        <5>2. job[l].hist[c] # <<>> => Front(job[l].hist[c]) \in History
          BY <5>1, WithoutLast DEF History
        <5>3. job[l].hist[c] = <<>> => Front(job[l].hist[c]) \in History
          <6>1. Len(<<>>) - 1 < 1 /\ Len(<<>>) - 1 \in Int
            OBVIOUS
          <6>2. Front(<<>>) = <<>>
            BY <6>1, SubSeqEmpty DEF Front
          <6> QED
            BY <6>2, EmptySeq DEF History
        <5> QED
          BY <5>2, <5>3, CellFacts
      <4>2. Befores(l) \in [1 .. Len(job[l].rows) -> Cell] /\ Len(job[l].rows) \in Nat
        BY <4>1, RowFacts DEF Befores, RowsOf
      <4>3. Befores(l) \in Seq(Cell)
        BY <4>2
      <4> QED
        BY <4>3, StaticAssumption
    <3> QED
      BY <2>1, <3>1, <3>2, <3>3 DEF Computed
  <2> QED
    BY <2>2, <2>3
<1>6. Answer(k, Run(l)) = [b \in RowsOf(l) |-> job[l].hist[b]]
  <2> DEFINE r == Run(l)
  <2> HIDE DEF r
  <2>1. /\ r.id = job[l].id /\ r.rows = Len(job[l].rows)
        /\ r.hid = job[l].hist /\ r.start = job[l].start
    BY <1>1, <1>2 DEF r
  <2>2. Answer(k, r) = [b \in RowsOf(l) |->
          Computed(IF kv[k][job[l].id] = None THEN <<>> ELSE kv[k][job[l].id][b],
                   job[l].start, job[l].hist[b])]
    BY <2>1 DEF Answer, RowsOf
  <2>3. Answer(k, r) = [b \in RowsOf(l) |-> job[l].hist[b]]
    BY <1>5, <2>2
  <2> QED
    BY <2>3 DEF r
<1>7. job[l].hist \in [RowsOf(l) -> History]
  BY <1>3, LenProperties DEF RowsOf
<1>8. [b \in RowsOf(l) |-> job[l].hist[b]] = job[l].hist
  BY <1>7
<1> QED
  BY <1>1, <1>2, <1>3, <1>6, <1>8

LEMMA ServeInOrder ==
  ASSUME Typed, InOrder, NEW k \in Stage, NEW l \in Lane, StageServes(k, l) PROVE InOrder'
<1> DEFINE c == sock[l][k]
           f == Head(c.frames)
           d == sock'[l][k]
<1>1. /\ sock[l] # None /\ c.open /\ c.frames # <<>> /\ f \in Frame
      /\ sock'[l] # None /\ (\A m \in Lane : m # l => sock'[m] = sock[m])
      /\ (\A i \in Stage : i # k => sock'[l][i] = sock[l][i])
      /\ (\A i \in Stage, n \in Id : i # k \/ n # f.id => kv'[i][n] = kv[i][n])
      /\ UNCHANGED <<setting, requests, lanes, job, deaths>>
      /\ \/ f.op = "free" /\ kv'[k][f.id] = None
            /\ d.open /\ d.frames = Tail(c.frames) /\ d.replies = c.replies
         \/ f.op = "run" /\ Len(f.hid) # f.rows /\ kv' = kv
            /\ ~d.open /\ d.frames = <<>> /\ d.replies = c.replies
         \/ f.op = "run" /\ Len(f.hid) = f.rows /\ kv'[k][f.id] = Answer(k, f)
            /\ d.open /\ d.frames = Tail(c.frames)
            /\ d.replies = Append(c.replies, Answer(k, f))
  BY ServeSteps
<1>2. UNCHANGED <<state, out, nextId>>
  BY <1>1 DEF requests, lanes
<1>3. RetiredStay
  BY <1>1, <1>2, SameIds
<1>4. LaneInOrder(l) /\ ChannelInOrder(l, k) /\ c \in Channel
  BY <1>1, Socket DEF InOrder, LaneInOrder, Typed
<1>5. /\ Len(c.frames) \in Nat /\ 1 \in 1 .. Len(c.frames) /\ f = c.frames[1]
      /\ Len(Tail(c.frames)) = Len(c.frames) - 1
      /\ \A n \in 1 .. Len(Tail(c.frames)) : Tail(c.frames)[n] = c.frames[n + 1]
      /\ \A n \in 1 .. Len(c.frames) : c.frames[n].id \in Id
      /\ f.id \in Id
  <2> DEFINE s == c.frames
  <2>1. s \in Seq(Frame) /\ s # <<>> /\ \A n \in 1 .. Len(s) : s[n].id \in Id
    BY <1>1, <1>4, ChannelFacts, FrameFacts, ElementOfSeq
  <2> HIDE DEF s
  <2>2. Len(s) \in Nat /\ Len(s) > 0
    BY <2>1, EmptySeq
  <2>3. Head(s) = s[1] /\ Len(Tail(s)) = Len(s) - 1 /\ \A n \in 1 .. Len(Tail(s)) : Tail(s)[n] = s[n + 1]
    BY <2>1, HeadTailProperties
  <2>4. 1 \in 1 .. Len(s)
    BY <2>2
  <2> QED
    BY <2>1, <2>2, <2>3, <2>4 DEF s
<1>6. c.replies = <<>> /\ FrameInOrder(l, k, 1)
  BY <1>1, <1>4, <1>5 DEF ChannelInOrder
<1>7. \A i \in Stage : (Awaited(l, i)' <=> Awaited(l, i)) /\ Run(l)' = Run(l)
  BY <1>1 DEF Awaited, At, Run
<1> HIDE DEF c, f, d
<1>8. ASSUME f.op = "free"
      PROVE  /\ Retired(f.id) /\ kv'[k][f.id] = None
             /\ ChannelInOrder(l, k)' /\ d.open /\ d.replies = <<>>
  <2>1. Retired(f.id)
    <3>1. Run(l).op = "run"
      BY DEF Run
    <3> QED
      BY <1>5, <1>6, <1>8, <3>1 DEF FrameInOrder, c
  <2>2. d.open /\ d.frames = Tail(c.frames) /\ d.replies = <<>> /\ kv'[k][f.id] = None
    BY <1>1, <1>6, <1>8
  <2>3. ASSUME NEW n \in 1 .. Len(d.frames) PROVE FrameInOrder(l, k, n)'
    <3>1. n + 1 \in 1 .. Len(c.frames) /\ (n + 1 = Len(c.frames) <=> n = Len(d.frames))
      BY <1>5, <2>2
    <3>2. FrameInOrder(l, k, n + 1) /\ d.frames[n] = c.frames[n + 1] /\ c.frames[n + 1].id \in Id
      BY <1>4, <1>5, <2>2, <3>1 DEF ChannelInOrder, c
    <3>3. CASE c.frames[n + 1].op = "free" /\ Retired(c.frames[n + 1].id)
      BY <1>3, <3>2, <3>3, FreeStays DEF c, d
    <3>4. CASE Awaited(l, k) /\ n + 1 = Len(c.frames) /\ c.frames[n + 1] = Run(l)
      <4>1. Awaited(l, k)' /\ n = Len(d.frames) /\ d.frames[n] = Run(l)'
        BY <1>7, <3>1, <3>2, <3>4
      <4> QED
        BY <4>1 DEF FrameInOrder, d
    <3> QED
      BY <3>2, <3>3, <3>4 DEF FrameInOrder, c
  <2>4. ChannelInOrder(l, k)'
    BY <2>2, <2>3 DEF ChannelInOrder, d
  <2> QED
    BY <2>1, <2>2, <2>4
<1>9. ASSUME f.op = "run"
      PROVE  /\ job[l] # None /\ Awaited(l, k) /\ f.id = job[l].id
             /\ kv'[k][f.id] = job[l].hist
             /\ ChannelInOrder(l, k)' /\ d.open /\ d.replies # <<>>
  <2>1. Awaited(l, k) /\ Len(c.frames) = 1 /\ f = Run(l)
    BY <1>5, <1>6, <1>9 DEF FrameInOrder, c
  <2>2. job[l] # None
    BY <2>1 DEF Awaited, At
  <2>3. /\ f.id = job[l].id /\ f.rows = Len(job[l].rows) /\ Len(f.hid) = f.rows
        /\ Answer(k, f) = job[l].hist
    BY <1>1, <1>4, <1>6, <2>1, <2>2, AnswerIsHistory DEF c
  <2>4. /\ kv'[k][f.id] = job[l].hist /\ d.open /\ d.frames = Tail(c.frames)
        /\ d.replies = Append(<<>>, job[l].hist)
    BY <1>1, <1>6, <1>9, <2>3
  <2>5. d.replies = <<job[l].hist>>
    BY <2>4
  <2>6. d.frames = <<>>
    <3>1. Tail(c.frames) \in Seq(Frame)
      BY <1>1, <1>4, ChannelFacts, HeadTailProperties
    <3>2. Len(Tail(c.frames)) = 0
      BY <1>5, <2>1
    <3> QED
      BY <2>4, <3>1, <3>2, EmptySeq
  <2>7. Len(<<>>) = 0 /\ <<job[l].hist>> # <<>>
    OBVIOUS
  <2>8. job'[l] = job[l]
    BY <1>1
  <2>9. ChannelInOrder(l, k)'
    <3>1. /\ sock'[l][k].replies = <<job'[l].hist>> /\ sock'[l][k].frames = <<>>
          /\ Awaited(l, k)'
      BY <1>7, <2>1, <2>5, <2>6, <2>8 DEF d
    <3>2. Len(sock'[l][k].frames) = 0
      BY <2>7, <3>1
    <3>3. \A n : n \notin 1 .. Len(sock'[l][k].frames)
      BY <3>2
    <3> QED
      BY <3>1, <3>3 DEF ChannelInOrder
  <2> QED
    BY <2>1, <2>2, <2>3, <2>4, <2>5, <2>7, <2>9
<1>10. f.op \in {"free", "run"}
  BY <1>1, FrameFacts
<1>11. ASSUME NEW m \in Lane, job[m] # None, NEW i \in Stage, m # l \/ i # k \/ f.op = "free"
       PROVE  kv'[i][job[m].id] = kv[i][job[m].id]
  <2>1. job[m].id \in Id
    BY <1>11, JobOn, JobFacts DEF Typed
  <2>2. CASE i # k
    BY <1>1, <2>1, <2>2
  <2>3. CASE f.op = "free"
    <3>1. job[m].id # f.id
      BY <1>8, <1>11, <2>3 DEF Retired
    <3> QED
      BY <1>1, <2>1, <3>1
  <2>4. CASE f.op = "run" /\ m # l
    <3>1. job[m].id # f.id
      BY <1>9, <1>11, <2>4 DEF Typed, IdsTyped
    <3> QED
      BY <1>1, <2>1, <3>1
  <2> QED
    BY <1>10, <1>11, <2>2, <2>3, <2>4
<1>12. ASSUME NEW m \in Lane, m # l PROVE LaneInOrder(m)'
  <2>1. job'[m] = job[m] /\ sock'[m] = sock[m] /\ out' = out /\ LaneInOrder(m)
    BY <1>1, <1>2, <1>12 DEF InOrder
  <2>2. job[m] # None => \A i \in Stage : kv'[i][job[m].id] = kv[i][job[m].id]
    BY <1>11, <1>12
  <2> QED
    BY <1>3, <2>1, <2>2, OtherLane
<1>13. ASSUME NEW i \in Stage PROVE ChannelInOrder(l, i)'
  <2>1. CASE i = k
    BY <1>8, <1>9, <1>10, <2>1
  <2>2. CASE i # k
    <3>1. sock'[l][i] = sock[l][i] /\ ChannelInOrder(l, i) /\ sock[l][i] \in Channel
      BY <1>1, <1>4, <2>2, Socket DEF LaneInOrder, Typed
    <3>2. ASSUME NEW n \in 1 .. Len(sock[l][i].frames) PROVE FrameInOrder(l, i, n)'
      <4>1. FrameInOrder(l, i, n) /\ sock[l][i].frames[n].id \in Id
        BY <3>1, ChannelFacts, ElementOfSeq, FrameFacts DEF ChannelInOrder
      <4>2. CASE sock[l][i].frames[n].op = "free" /\ Retired(sock[l][i].frames[n].id)
        BY <1>3, <3>1, <4>1, <4>2, FreeStays
      <4>3. CASE Awaited(l, i) /\ n = Len(sock[l][i].frames) /\ sock[l][i].frames[n] = Run(l)
        BY <1>7, <3>1, <4>3 DEF FrameInOrder
      <4> QED
        BY <4>1, <4>2, <4>3 DEF FrameInOrder
    <3>3. job'[l] = job[l]
      BY <1>1
    <3> QED
      BY <1>7, <3>1, <3>2, <3>3 DEF ChannelInOrder
  <2> QED
    BY <2>1, <2>2
<1>14. ASSUME job[l] # None PROVE JobInOrder(l)'
  BY <1>1, <1>2, <1>4, <1>14 DEF LaneInOrder, JobInOrder, RowInOrder, Settled, Text, RowsOf
<1>15. ASSUME job[l] # None, NEW i \in Stage PROVE KvInOrder(l, i)'
  <2>1. KvInOrder(l, i) /\ job'[l] = job[l] /\ RowsOf(l)' = RowsOf(l) /\ Befores(l)' = Befores(l)
    BY <1>1, <1>4, <1>15 DEF LaneInOrder, Befores, RowsOf
  <2>2. CASE i # k
    <3>1. kv'[i][job[l].id] = kv[i][job[l].id] /\ sock'[l][i] = sock[l][i]
      BY <1>1, <1>11, <1>15, <2>2
    <3> QED
      BY <1>7, <2>1, <3>1 DEF KvInOrder, Passed
  <2>3. CASE i = k /\ f.op = "free"
    <3>1. /\ kv'[i][job[l].id] = kv[i][job[l].id] /\ sock'[l][i].replies = sock[l][i].replies
          /\ sock[l][i].open
      BY <1>1, <1>6, <1>8, <1>11, <1>15, <2>3 DEF c, d
    <3> QED
      BY <1>7, <2>1, <3>1 DEF KvInOrder, Passed
  <2>4. CASE i = k /\ f.op = "run"
    <3>1. kv'[i][job[l].id] = job[l].hist
      BY <1>9, <2>4
    <3>2. Passed(l, i)'
      BY <1>7, <1>9, <2>1, <2>4 DEF Passed, d
    <3> QED
      BY <2>1, <3>1, <3>2 DEF KvInOrder
  <2> QED
    BY <1>10, <2>2, <2>3, <2>4
<1>16. LaneInOrder(l)'
  BY <1>1, <1>13, <1>14, <1>15 DEF LaneInOrder
<1> QED
  BY <1>2, <1>12, <1>16, SameRequests DEF InOrder

LEMMA InitInOrder == Init => InOrder
<1> SUFFICES ASSUME Init PROVE InOrder
  OBVIOUS
<1>1. \A l \in Lane : job[l] = None /\ sock[l] = None
  BY DEF Init
<1>2. \A r \in Req : out[r] = <<>>
  BY DEF Init
<1> QED
  BY <1>1, <1>2 DEF InOrder, Unbegun, LaneInOrder

LEMMA SettingStays == ASSUME [Next]_vars PROVE setting' = setting
BY DEF Next, vars, Submit, Admit, Collect, Enter, Begin, LaneRuns, Connect, Write, Read, Emit,
       Finish, Fail, ClientLeaves, Leave, StageServes, StageDies

LEMMA NextInOrder == ASSUME Typed, Exact, InOrder, [Next]_vars PROVE InOrder'
<1>1. ASSUME NEW r \in Req, Submit(r) PROVE InOrder'
  BY <1>1, SubmitInOrder
<1>2. CASE Admit
  BY <1>2, AdmitInOrder
<1>3. ASSUME NEW l \in Lane, LaneRuns(l) \/ ClientLeaves(l) PROVE InOrder'
  BY <1>3, ConnectInOrder, WriteInOrder, ReadInOrder, EmitInOrder, EndInOrder DEF LaneRuns
<1>4. ASSUME NEW k \in Stage, NEW l \in Lane, StageServes(k, l) PROVE InOrder'
  BY <1>4, ServeInOrder
<1>5. ASSUME NEW k \in Stage, StageDies(k) PROVE InOrder'
  BY <1>5, DieInOrder
<1>6. CASE UNCHANGED vars
  <2>1. UNCHANGED <<state, out, nextId, job, sock, kv>>
    BY <1>6 DEF vars, requests, lanes
  <2>2. RetiredStay
    BY <2>1, SameIds
  <2>3. ASSUME NEW m \in Lane PROVE LaneInOrder(m)'
    BY <2>1, <2>2, OtherLane DEF InOrder
  <2> QED
    BY <2>1, <2>3, SameRequests DEF InOrder
<1> QED
  BY <1>1, <1>2, <1>3, <1>4, <1>5, <1>6 DEF Next

LEMMA InitRows == Init => RowsInv
BY InitTyped, InitInOrder DEF RowsInv

LEMMA NextRows == RowsInv /\ [Next]_vars => RowsInv'
<1> SUFFICES ASSUME RowsInv, [Next]_vars PROVE RowsInv'
  OBVIOUS
<1>1. Typed'
  BY NextTyped DEF RowsInv
<1>2. Exact' <=> Exact
  BY SettingStays DEF Exact, Batching
<1> QED
  BY <1>1, <1>2, NextInOrder DEF RowsInv

-----------------------------------------------------------------------------
(***************************************************************************)
(* Every row decodes as if it were alone.                                  *)
(***************************************************************************)
\* r's client is shown nothing, and its stream does not end.
Stutters(r) == out'[r] = out[r] /\ (state'[r] = "done" <=> state[r] = "done") /\ setting' = setting

LEMMA StutterIsGreedy ==
  ASSUME NEW r \in Req, Stutters(r) PROVE [Alone(r)!Next]_(Alone(r)!vars)
BY DEF Stutters, Alone!vars, Trusted, Batching

\* The token row b is shown is the next one of its request.
LEMMA ShownIsGreedy ==
  ASSUME Typed, Exact, InOrder, setting' = setting, NEW l \in Lane, Emit(l), NEW r \in Req
  PROVE  [Alone(r)!Next]_(Alone(r)!vars)
<1>1. /\ job[l].phase = "emit" /\ GoesOn(l) /\ state' = state
      /\ \E nxt \in [RowsOf(l) -> Token] :
           /\ \A b \in RowsOf(l) : nxt[b] \in Says(job[l].hid[b])
           /\ \A q \in Req : q \notin ToSet(job[l].rows) => out'[q] = out[q]
           /\ \A b \in RowsOf(l) : ShowsRow(l, b, nxt[b])
  BY EmitSteps
<1>2. PICK nxt \in [RowsOf(l) -> Token] :
        /\ \A b \in RowsOf(l) : nxt[b] \in Says(job[l].hid[b])
        /\ \A q \in Req : q \notin ToSet(job[l].rows) => out'[q] = out[q]
        /\ \A b \in RowsOf(l) : ShowsRow(l, b, nxt[b])
  BY <1>1
<1>3. CASE r \notin ToSet(job[l].rows)
  BY <1>1, <1>2, <1>3, StutterIsGreedy DEF Stutters
<1>4. CASE r \in ToSet(job[l].rows)
  <2>1. job[l] # None
    BY <1>1 DEF GoesOn
  <2>2. PICK b \in RowsOf(l) : job[l].rows[b] = r
    BY <1>4, <2>1, RowFacts
  <2> DEFINE t == nxt[b]
  <2>3. /\ Said(l, b, t)
        /\ b \notin job[l].over => job[l].hist[b] = Text(r)
    BY <1>1, <1>2, <2>1, <2>2, EmitSays DEF InOrder
  <2>4. out'[r] = IF IsShown(l, b, t) THEN Append(out[r], t) ELSE out[r]
    BY <1>2, <2>2 DEF ShowsRow
  <2> HIDE DEF t
  <2>5. CASE ~IsShown(l, b, t)
    BY <1>1, <2>4, <2>5, StutterIsGreedy DEF Stutters
  <2>6. CASE IsShown(l, b, t)
    <3>1. /\ t = Argmax(Text(r)) /\ t \in Token /\ t \notin Eos /\ Len(out[r]) < Cap[r]
          /\ out'[r] = Append(out[r], t)
      BY <2>2, <2>3, <2>4, <2>6 DEF IsShown, Said, Shown, Limit
    <3>2. state[r] = "running" /\ state'[r] = "running"
      BY <1>1, <1>4, <2>1, RowsRun
    <3>3. Trusted(r) = out[r] /\ Trusted(r)' = out'[r]
      BY DEF Trusted, Exact, Batching
    <3>4. PromptOf[r] \o out'[r] = Append(Text(r), t)
      <4>1. PromptOf[r] \in Seq(Token) /\ out[r] \in Seq(Token)
        BY TextFacts DEF History
      <4> DEFINE p == PromptOf[r]
                 o == out[r]
      <4> HIDE DEF p, o
      <4>3. p \in Seq(Token) /\ o \in Seq(Token) /\ t \in Token
        BY <3>1, <4>1 DEF p, o
      <4>2. p \o Append(o, t) = Append(p \o o, t)
        BY <4>3, ConcatAppend
      <4> QED
        BY <3>1, <4>2 DEF p, o, Text
    <3>5. ~(Len(Text(r)) >= Len(PromptOf[r]) + Cap[r])
      <4> DEFINE n == Len(out[r])
                 p == Len(PromptOf[r])
                 w == Cap[r]
                 x == Len(Text(r))
      <4>1. n \in Nat /\ p \in Nat /\ w \in Nat /\ x = p + n /\ n < w
        BY <3>1, TextFacts
      <4> HIDE DEF n, p, w, x
      <4>2. ~(x >= p + w)
        BY <4>1
      <4> QED
        BY <4>2 DEF n, p, w, x
    <3>6. Alone(r)!Show
      BY <3>1, <3>2, <3>3, <3>4, <3>5 DEF Alone!Show, Alone!Full, Text
    <3> QED
      BY <3>6 DEF Alone!Next
  <2> QED
    BY <2>5, <2>6
<1> QED
  BY <1>3, <1>4

\* A batch is over when all its rows are.
LEMMA FinishIsGreedy ==
  ASSUME Typed, Exact, InOrder, setting' = setting, NEW l \in Lane, Finish(l), NEW r \in Req
  PROVE  [Alone(r)!Next]_(Alone(r)!vars)
<1>1. job[l] # None /\ job[l].phase = "finish" /\ Leave(l, "done") /\ "done" \in Ended
  BY FinishSteps
<1>2. out' = out /\ state'[r] = IF r \in ToSet(job[l].rows) THEN "done" ELSE state[r]
  BY <1>1, LeaveSteps
<1>3. CASE r \notin ToSet(job[l].rows)
  BY <1>2, <1>3, StutterIsGreedy DEF Stutters
<1>4. CASE r \in ToSet(job[l].rows)
  <2>1. PICK b \in RowsOf(l) : job[l].rows[b] = r
    BY <1>1, <1>4, RowFacts
  <2>2. Settled(r)
    BY <1>1, <2>1 DEF InOrder, LaneInOrder, JobInOrder, RowInOrder
  <2>3. state[r] = "running" /\ state'[r] = "done"
    BY <1>1, <1>2, <1>4, RowsRun
  <2>4. Trusted(r) = out[r] /\ Trusted(r)' = out[r]
    BY <1>2 DEF Trusted, Exact, Batching
  <2>5. Len(Text(r)) >= Len(PromptOf[r]) + Cap[r] \/ Argmax(Text(r)) \in Eos
    <3> DEFINE n == Len(out[r])
               p == Len(PromptOf[r])
               w == Cap[r]
               x == Len(Text(r))
    <3>1. n \in Nat /\ p \in Nat /\ w \in Nat /\ x = p + n
      BY TextFacts
    <3>2. n >= w \/ Argmax(Text(r)) \in Eos
      BY <2>2 DEF Settled
    <3> HIDE DEF n, p, w, x
    <3>3. n >= w => x >= p + w
      BY <3>1
    <3>4. x >= p + w \/ Argmax(Text(r)) \in Eos
      BY <3>2, <3>3
    <3> QED
      BY <3>4 DEF p, w, x
  <2>6. Alone(r)!End
    BY <1>2, <2>3, <2>4, <2>5 DEF Alone!End, Alone!Full, Text, Exact, Batching
  <2> QED
    BY <2>6 DEF Alone!Next
<1> QED
  BY <1>3, <1>4

LEMMA BeginStutters ==
  ASSUME Typed, NEW rows \in Seq(Req), NEW l \in Lane, NEW r \in Req,
         \A q \in ToSet(rows) : state[q] = "waiting", Begin(l, rows)
  PROVE  Stutters(r)
BY DEF Begin, Stutters

LEMMA OthersStutter ==
  ASSUME Typed, NEW r \in Req, [Next]_vars,
         ~\E l \in Lane : Emit(l) \/ Finish(l)
  PROVE  Stutters(r)
<1>1. ASSUME NEW q \in Req, Submit(q) PROVE Stutters(r)
  BY <1>1 DEF Submit, Stutters, Typed, StateTyped
<1>2. ASSUME NEW n \in 1 .. Cardinality(Req), Collect(n) PROVE Stutters(r)
  <2>1. PICK rows \in Seq(Req) :
          (\A q \in ToSet(rows) : q \in Req /\ state[q] = "waiting") /\ Begin(1, rows)
    BY <1>2, CollectSteps
  <2>2. 1 \in Lane
    BY SettingFacts DEF Typed, StateTyped
  <2> QED
    BY <2>1, <2>2, BeginStutters
<1>3. ASSUME NEW q \in Req, Enter(q) PROVE Stutters(r)
  <2>1. PICK l \in Lane : Begin(l, <<q>>)
    BY <1>3, EnterSteps
  <2>2. <<q>> \in Seq(Req) /\ \A p \in ToSet(<<q>>) : state[p] = "waiting"
    BY <1>3, EnterSteps, One
  <2> QED
    BY <2>1, <2>2, BeginStutters
<1>4. ASSUME NEW l \in Lane, Connect(l) \/ Write(l) \/ Read(l) PROVE Stutters(r)
  BY <1>4 DEF Connect, Write, Read, requests, Stutters
<1>5. ASSUME NEW l \in Lane, Fail(l) \/ ClientLeaves(l) PROVE Stutters(r)
  <2>1. job[l] # None /\ \E how \in {"failed", "left"} : how \in Ended /\ Leave(l, how)
    BY <1>5, FailSteps, ClientLeavesSteps
  <2>2. PICK how \in {"failed", "left"} : how \in Ended /\ Leave(l, how)
    BY <2>1
  <2>3. /\ setting' = setting /\ out' = out
        /\ state'[r] = IF r \in ToSet(job[l].rows) THEN how ELSE state[r]
    BY <2>1, <2>2, LeaveSteps
  <2>4. r \in ToSet(job[l].rows) => state[r] = "running"
    BY <2>1, RowsRun
  <2> QED
    BY <2>2, <2>3, <2>4 DEF Stutters
<1>6. ASSUME NEW k \in Stage, StageDies(k) \/ \E l \in Lane : StageServes(k, l) PROVE Stutters(r)
  BY <1>6 DEF StageDies, StageServes, requests, Stutters
<1>7. CASE UNCHANGED vars
  BY <1>7 DEF vars, requests, Stutters
<1> QED
  BY <1>1, <1>2, <1>3, <1>4, <1>5, <1>6, <1>7 DEF Next, Admit, LaneRuns

\* However requests are batched or overlap, and whatever fails under them, what
\* each client is given is what decoding its prompt alone gives: every row is a
\* refinement of GreedyDecode (coordinator.py:990-996, docs/BATCHING.md:76-79).
THEOREM RowsCorrect == Spec => RowsAreGreedy
<1>1. Init => \A r \in Req : Alone(r)!Init
  <2> SUFFICES ASSUME Init, NEW r \in Req PROVE Alone(r)!Init
    OBVIOUS
  <2>1. state[r] = "new" /\ out[r] = <<>> /\ PromptOf[r] \in Seq(Token)
    BY StaticAssumption DEF Init
  <2>2. PromptOf[r] \o <<>> = PromptOf[r] /\ Trusted(r) = <<>>
    BY <2>1, ConcatEmptySeq DEF Trusted
  <2> QED
    BY <2>1, <2>2 DEF Alone!Init
<1>2. RowsInv /\ [Next]_vars => \A r \in Req : [Alone(r)!Next]_(Alone(r)!vars)
  <2> SUFFICES ASSUME RowsInv, [Next]_vars, NEW r \in Req PROVE [Alone(r)!Next]_(Alone(r)!vars)
    OBVIOUS
  <2>1. Typed /\ (Exact => InOrder) /\ setting' = setting
    BY SettingStays DEF RowsInv
  <2>2. CASE ~Exact
    BY <2>1, <2>2 DEF Exact, Alone!vars, Trusted, Batching
  <2>3. CASE Exact /\ \E l \in Lane : Emit(l) \/ Finish(l)
    BY <2>1, <2>3, ShownIsGreedy, FinishIsGreedy
  <2>4. CASE ~\E l \in Lane : Emit(l) \/ Finish(l)
    BY <2>1, <2>4, OthersStutter, StutterIsGreedy
  <2> QED
    BY <2>2, <2>3, <2>4
<1> QED
  BY <1>1, <1>2, InitRows, NextRows, PTL DEF Spec, RowsAreGreedy

-----------------------------------------------------------------------------
(***************************************************************************)
(* No KV is left behind.  Without faults every socket is open, and what a  *)
(* stage holds belongs to a job or is about to be freed.                   *)
(***************************************************************************)
AllUp == \A l \in Lane, k \in Stage : sock[l] # None => sock[l][k].open

RunsAs(l, i) == job[l] # None /\ job[l].id = i

ToFree(l, k, i) ==
  sock[l] # None /\ \E n \in 1 .. Len(sock[l][k].frames) :
    sock[l][k].frames[n] = [op |-> "free", id |-> i]

Accounted(k, i) == kv[k][i] # None => \E l \in Lane : RunsAs(l, i) \/ ToFree(l, k, i)

KvInv == setting.faults = {} => AllUp /\ \A k \in Stage, i \in Id : Accounted(k, i)

\* KV that is there was there, or is what a job made.
LEMMA AccountedStays ==
  ASSUME \A k \in Stage, i \in Id : Accounted(k, i),
         \A k \in Stage, i \in Id : kv'[k][i] # None =>
           kv[k][i] # None \/ \E l \in Lane : RunsAs(l, i)',
         \A l \in Lane, k \in Stage, i \in Id : RunsAs(l, i) => RunsAs(l, i)' \/ ToFree(l, k, i)',
         \A l \in Lane, k \in Stage, i \in Id :
           ToFree(l, k, i) /\ kv'[k][i] # None => ToFree(l, k, i)'
  PROVE  (\A k \in Stage, i \in Id : Accounted(k, i))'
<1> SUFFICES ASSUME NEW k \in Stage, NEW i \in Id PROVE Accounted(k, i)'
  OBVIOUS
<1>1. ASSUME kv'[k][i] # None PROVE \E l \in Lane : RunsAs(l, i)' \/ ToFree(l, k, i)'
  <2>1. CASE kv[k][i] = None
    BY <1>1, <2>1
  <2>2. CASE kv[k][i] # None
    <3>1. PICK l \in Lane : RunsAs(l, i) \/ ToFree(l, k, i)
      BY <2>2 DEF Accounted
    <3>2. RunsAs(l, i)' \/ ToFree(l, k, i)'
      BY <1>1, <3>1
    <3> QED
      BY <3>2
  <2> QED
    BY <2>1, <2>2
<1> QED
  BY <1>1 DEF Accounted

\* Frames stay on a socket that is only written to.
LEMMA FramesStay ==
  ASSUME Typed, NEW l \in Lane, NEW k \in Stage, NEW i \in Id, ToFree(l, k, i), sock'[l] # None,
         \/ sock'[l][k].frames = sock[l][k].frames
         \/ \E f \in Frame : sock'[l][k].frames = Append(sock[l][k].frames, f)
  PROVE  ToFree(l, k, i)'
<1> DEFINE c == sock[l][k].frames
           d == sock'[l][k].frames
<1>1. PICK n \in 1 .. Len(c) : c[n] = [op |-> "free", id |-> i]
  BY DEF ToFree
<1>2. c \in Seq(Frame)
  BY Socket, ChannelFacts DEF ToFree, Typed
<1>3. n \in 1 .. Len(d) /\ d[n] = c[n]
  <2>1. ASSUME NEW f \in Frame, d = Append(c, f) PROVE n \in 1 .. Len(d) /\ d[n] = c[n]
    <3> HIDE DEF c, d
    <3>1. Len(d) = Len(c) + 1 /\ d[n] = c[n] /\ Len(c) \in Nat
      BY <1>2, <2>1, AppendProperties, LenProperties
    <3> QED
      BY <3>1
  <2> QED
    BY <2>1
<1>4. sock'[l][k].frames[n] = [op |-> "free", id |-> i]
  BY <1>1, <1>3
<1> QED
  BY <1>3, <1>4 DEF ToFree

LEMMA InitKv == Init => KvInv
<1> SUFFICES ASSUME Init PROVE KvInv
  OBVIOUS
<1>1. (\A l \in Lane : sock[l] = None) /\ \A k \in Stage, i \in Id : kv[k][i] = None
  BY DEF Init
<1> QED
  BY <1>1 DEF KvInv, AllUp, Accounted

\* What the steps of a job do to KV and sockets.
LEMMA RunSockets ==
  ASSUME Typed, NEW l \in Lane, Connect(l) \/ Write(l) \/ Read(l) \/ Emit(l)
  PROVE  /\ kv' = kv /\ OnlyOn(l)
         /\ job'[l] # None /\ job'[l].id = job[l].id /\ job[l] # None
         /\ sock[l] = None \/ sock'[l] # None
         /\ sock[l] = None => \A k \in Stage : sock'[l][k] = Fresh
         /\ sock[l] # None => \A k \in Stage :
              /\ sock'[l][k].open <=> sock[l][k].open
              /\ \/ sock'[l][k].frames = sock[l][k].frames
                 \/ \E f \in Frame : sock'[l][k].frames = Append(sock[l][k].frames, f)
<1>1. CASE Connect(l)
  BY <1>1, ConnectSteps
<1>2. CASE Write(l)
  <2>1. job[l] # None /\ Run(l) \in Frame
    BY <1>2, WriteSteps, RunFacts DEF GoesOn, Typed
  <2> DEFINE h == job[l].hop
  <2>2. /\ h \in Stage /\ sock[l][h].open /\ sock'[l][h].open /\ sock[l] # None
        /\ sock'[l] # None /\ kv' = kv /\ OnlyOn(l) /\ GoesOn(l)
        /\ sock'[l][h].frames = Append(sock[l][h].frames, Run(l))
        /\ \A k \in Stage : k # h => sock'[l][k] = sock[l][k]
    BY <1>2, WriteSteps
  <2> HIDE DEF h
  <2>3. ASSUME NEW k \in Stage
        PROVE  /\ sock'[l][k].open <=> sock[l][k].open
               /\ \/ sock'[l][k].frames = sock[l][k].frames
                  \/ \E f \in Frame : sock'[l][k].frames = Append(sock[l][k].frames, f)
    <3>1. CASE k = h
      BY <2>1, <2>2, <3>1
    <3>2. CASE k # h
      BY <2>2, <3>2
    <3> QED
      BY <3>1, <3>2
  <2> QED
    BY <2>1, <2>2, <2>3 DEF GoesOn
<1>3. CASE Read(l)
  <2>0. sock[l] # None
    BY <1>3 DEF Read, At, Typed, FirstConnects
  <2> DEFINE h == job[l].hop
  <2>1. /\ h \in Stage /\ (sock'[l][h].open <=> sock[l][h].open)
        /\ sock'[l] # None /\ kv' = kv /\ OnlyOn(l) /\ GoesOn(l)
        /\ sock'[l][h].frames = sock[l][h].frames
        /\ \A k \in Stage : k # h => sock'[l][k] = sock[l][k]
    BY <1>3, <2>0, ReadSteps
  <2> HIDE DEF h
  <2>2. \A k \in Stage : /\ sock'[l][k].open <=> sock[l][k].open
                         /\ sock'[l][k].frames = sock[l][k].frames
    BY <2>1
  <2> QED
    BY <2>0, <2>1, <2>2 DEF GoesOn
<1>4. CASE Emit(l)
  <2>1. /\ OnlyOn(l) /\ GoesOn(l) /\ job[l].phase = "emit" /\ sock' = sock /\ kv' = kv
    BY <1>4, EmitSteps
  <2>2. sock[l] # None
    BY <2>1 DEF GoesOn, Typed, FirstConnects
  <2> QED
    BY <2>1, <2>2 DEF GoesOn
<1> QED
  BY <1>1, <1>2, <1>3, <1>4

LEMMA RunKv ==
  ASSUME Typed, AllUp, \A k \in Stage, i \in Id : Accounted(k, i),
         NEW l \in Lane, Connect(l) \/ Write(l) \/ Read(l) \/ Emit(l)
  PROVE  AllUp' /\ (\A k \in Stage, i \in Id : Accounted(k, i))'
<1>1. /\ kv' = kv /\ OnlyOn(l)
      /\ job'[l] # None /\ job'[l].id = job[l].id /\ job[l] # None
      /\ sock[l] = None \/ sock'[l] # None
      /\ sock[l] = None => \A k \in Stage : sock'[l][k] = Fresh
      /\ sock[l] # None => \A k \in Stage :
           /\ sock'[l][k].open <=> sock[l][k].open
           /\ \/ sock'[l][k].frames = sock[l][k].frames
              \/ \E f \in Frame : sock'[l][k].frames = Append(sock[l][k].frames, f)
  BY RunSockets
<1>2. AllUp'
  BY <1>1 DEF AllUp, OnlyOn, Fresh
<1>3. \A m \in Lane, i \in Id : RunsAs(m, i) => RunsAs(m, i)'
  BY <1>1 DEF RunsAs, OnlyOn
<1>4. ASSUME NEW m \in Lane, NEW k \in Stage, NEW i \in Id, ToFree(m, k, i)
      PROVE  ToFree(m, k, i)'
  <2>1. sock[m] # None
    BY <1>4 DEF ToFree
  <2>2. /\ sock'[m] # None
        /\ \/ sock'[m][k].frames = sock[m][k].frames
           \/ \E f \in Frame : sock'[m][k].frames = Append(sock[m][k].frames, f)
    BY <1>1, <2>1 DEF OnlyOn
  <2> QED
    BY <1>4, <2>2, FramesStay
<1>5. \A k \in Stage, i \in Id : kv'[k][i] # None => kv[k][i] # None
  BY <1>1
<1> QED
  BY <1>2, <1>3, <1>4, <1>5, AccountedStays

LEMMA FinishKv ==
  ASSUME Typed, AllUp, \A k \in Stage, i \in Id : Accounted(k, i), NEW l \in Lane, Finish(l)
  PROVE  AllUp' /\ (\A k \in Stage, i \in Id : Accounted(k, i))'
<1>1. /\ job[l] # None /\ sock[l] # None /\ Leave(l, "done") /\ "done" \in Ended
      /\ \A m \in Lane : m # l => sock'[m] = sock[m]
      /\ Freed(l)
  BY FinishSteps DEF AllUp, AllOpen
<1>2. kv' = kv /\ \A m \in Lane : m # l => job'[m] = job[m]
  BY <1>1, LeaveSteps
<1>3. AllUp'
  BY <1>1 DEF AllUp, Freed
<1>4. PICK f \in Frame : f = [op |-> "free", id |-> job[l].id]
  BY <1>1, JobOn, JobFacts, FrameFacts DEF Typed
<1>5. ASSUME NEW k \in Stage PROVE sock'[l][k].frames = Append(sock[l][k].frames, f) /\ sock'[l] # None
  BY <1>1, <1>4 DEF Freed, AllUp
<1>6. ASSUME NEW m \in Lane, NEW k \in Stage, NEW i \in Id, ToFree(m, k, i)
      PROVE  ToFree(m, k, i)'
  <2>1. CASE m = l
    BY <1>5, <1>6, <2>1, FramesStay
  <2>2. CASE m # l
    BY <1>1, <1>6, <2>2 DEF ToFree
  <2> QED
    BY <2>1, <2>2
<1>7. ASSUME NEW m \in Lane, NEW k \in Stage, NEW i \in Id, RunsAs(m, i)
      PROVE  RunsAs(m, i)' \/ ToFree(m, k, i)'
  <2>1. CASE m = l
    <3> DEFINE c == sock[l][k].frames
               d == sock'[l][k].frames
    <3>1. c \in Seq(Frame) /\ d = Append(c, f) /\ sock'[l] # None
      BY <1>1, <1>5, Socket, ChannelFacts DEF Typed
    <3>2. Len(c) \in Nat /\ Len(d) = Len(c) + 1 /\ d[Len(c) + 1] = f
      <4> HIDE DEF c, d
      <4> QED
        BY <3>1, AppendProperties, LenProperties
    <3>3. f = [op |-> "free", id |-> i]
      BY <1>4, <1>7, <2>1 DEF RunsAs
    <3>4. Len(c) + 1 \in 1 .. Len(d)
      BY <3>2
    <3> HIDE DEF c
    <3>5. \E n \in 1 .. Len(sock'[l][k].frames) :
            sock'[l][k].frames[n] = [op |-> "free", id |-> i]
      BY <3>2, <3>3, <3>4
    <3> QED
      BY <2>1, <3>1, <3>5 DEF ToFree
  <2>2. CASE m # l
    BY <1>2, <1>7, <2>2 DEF RunsAs
  <2> QED
    BY <2>1, <2>2
<1> QED
  BY <1>2, <1>3, <1>6, <1>7, AccountedStays

\* A stage takes the frame at the head, and what it is asked to run is well formed.
LEMMA Served ==
  ASSUME Typed, InOrder, NEW h \in Stage, NEW l \in Lane, StageServes(h, l)
  PROVE  LET c == sock[l][h]
             f == c.frames[1]
             d == sock'[l][h]
         IN  /\ sock[l] # None /\ c.open /\ f.id \in Id
             /\ Len(c.frames) \in Nat /\ 1 \in 1 .. Len(c.frames)
             /\ sock'[l] # None /\ (\A m \in Lane : m # l => sock'[m] = sock[m])
             /\ (\A i \in Stage : i # h => sock'[l][i] = sock[l][i])
             /\ (\A i \in Stage, n \in Id : i # h \/ n # f.id => kv'[i][n] = kv[i][n])
             /\ job' = job
             /\ d.open /\ Len(d.frames) = Len(c.frames) - 1
             /\ \A n \in 1 .. Len(d.frames) : d.frames[n] = c.frames[n + 1]
             /\ f.op = "free" => kv'[h][f.id] = None
             /\ f.op # "free" => job[l] # None /\ f.id = job[l].id
<1> DEFINE c == sock[l][h]
           f == Head(c.frames)
           d == sock'[l][h]
<1>1. /\ sock[l] # None /\ c.open /\ c.frames # <<>> /\ f \in Frame
      /\ sock'[l] # None /\ (\A m \in Lane : m # l => sock'[m] = sock[m])
      /\ (\A i \in Stage : i # h => sock'[l][i] = sock[l][i])
      /\ (\A i \in Stage, n \in Id : i # h \/ n # f.id => kv'[i][n] = kv[i][n])
      /\ job' = job
      /\ \/ f.op = "free" /\ kv'[h][f.id] = None
            /\ d.open /\ d.frames = Tail(c.frames)
         \/ f.op = "run" /\ Len(f.hid) # f.rows
         \/ f.op = "run" /\ Len(f.hid) = f.rows
            /\ d.open /\ d.frames = Tail(c.frames)
  BY ServeSteps
<1>2. LaneInOrder(l) /\ ChannelInOrder(l, h) /\ c \in Channel
  BY <1>1, Socket DEF InOrder, LaneInOrder, Typed
<1>3. /\ Len(c.frames) \in Nat /\ 1 \in 1 .. Len(c.frames) /\ f = c.frames[1]
      /\ Len(Tail(c.frames)) = Len(c.frames) - 1
      /\ \A n \in 1 .. Len(Tail(c.frames)) : Tail(c.frames)[n] = c.frames[n + 1]
      /\ f.id \in Id
  <2> DEFINE s == c.frames
  <2>1. s \in Seq(Frame) /\ s # <<>>
    BY <1>1, <1>2, ChannelFacts
  <2> HIDE DEF s
  <2>2. Len(s) \in Nat /\ Len(s) > 0
    BY <2>1, EmptySeq
  <2>3. Head(s) = s[1] /\ Len(Tail(s)) = Len(s) - 1 /\ \A n \in 1 .. Len(Tail(s)) : Tail(s)[n] = s[n + 1]
    BY <2>1, HeadTailProperties
  <2>4. 1 \in 1 .. Len(s)
    BY <2>2
  <2>5. Head(s).id \in Id
    BY <1>1, FrameFacts DEF s
  <2> QED
    BY <2>2, <2>3, <2>4, <2>5 DEF s
<1>4. ASSUME f.op = "run" PROVE job[l] # None /\ f.id = job[l].id /\ Len(f.hid) = f.rows
  <2>1. FrameInOrder(l, h, 1)
    BY <1>2, <1>3 DEF ChannelInOrder
  <2>2. Awaited(l, h) /\ f = Run(l)
    BY <1>3, <1>4, <2>1 DEF FrameInOrder
  <2>3. job[l] # None /\ c.replies = <<>>
    BY <1>1, <1>2, <2>2 DEF Awaited, At, ChannelInOrder
  <2>4. Run(l).id = job[l].id /\ Run(l).rows = Len(job[l].rows) /\ Len(Run(l).hid) = Len(job[l].rows)
    BY <1>1, <1>2, <2>2, <2>3, AnswerIsHistory
  <2> HIDE DEF f
  <2> QED
    BY <2>2, <2>3, <2>4
<1>5. d.open /\ d.frames = Tail(c.frames)
  BY <1>1, <1>4
<1>6. f.op \in {"run", "free"}
  BY <1>1, FrameFacts
<1> HIDE DEF f
<1> QED
  BY <1>1, <1>3, <1>4, <1>5, <1>6

\* A stage holds KV for whom it answers, until it is told to free it.
LEMMA ServeKv ==
  ASSUME Typed, InOrder, AllUp, \A k \in Stage, i \in Id : Accounted(k, i),
         NEW h \in Stage, NEW l \in Lane, StageServes(h, l)
  PROVE  AllUp' /\ (\A k \in Stage, i \in Id : Accounted(k, i))'
<1> DEFINE c == sock[l][h]
           f == c.frames[1]
           d == sock'[l][h]
<1>1. /\ sock[l] # None /\ c.open /\ f.id \in Id
      /\ Len(c.frames) \in Nat /\ 1 \in 1 .. Len(c.frames)
      /\ sock'[l] # None /\ (\A m \in Lane : m # l => sock'[m] = sock[m])
      /\ (\A i \in Stage : i # h => sock'[l][i] = sock[l][i])
      /\ (\A i \in Stage, n \in Id : i # h \/ n # f.id => kv'[i][n] = kv[i][n])
      /\ job' = job
      /\ d.open /\ Len(d.frames) = Len(c.frames) - 1
      /\ \A n \in 1 .. Len(d.frames) : d.frames[n] = c.frames[n + 1]
      /\ f.op = "free" => kv'[h][f.id] = None
      /\ f.op # "free" => job[l] # None /\ f.id = job[l].id
  BY Served
<1>2. AllUp'
  BY <1>1 DEF AllUp
<1>3. \A m \in Lane, i \in Id : RunsAs(m, i) <=> RunsAs(m, i)'
  BY <1>1 DEF RunsAs
<1>4. ASSUME NEW k \in Stage, NEW i \in Id, kv'[k][i] # None
      PROVE  kv[k][i] # None \/ \E m \in Lane : RunsAs(m, i)'
  <2>1. CASE k = h /\ i = f.id
    <3>1. f.op # "free"
      BY <1>1, <1>4, <2>1
    <3>2. RunsAs(l, i)
      BY <1>1, <2>1, <3>1 DEF RunsAs
    <3> QED
      BY <1>3, <3>2
  <2>2. CASE k # h \/ i # f.id
    BY <1>1, <1>4, <2>2
  <2> QED
    BY <2>1, <2>2
<1>5. ASSUME NEW m \in Lane, NEW k \in Stage, NEW i \in Id, ToFree(m, k, i), kv'[k][i] # None
      PROVE  ToFree(m, k, i)'
  <2>1. CASE m # l \/ k # h
    BY <1>1, <1>5, <2>1 DEF ToFree
  <2>2. CASE m = l /\ k = h
    <3> DEFINE s == c.frames
               t == d.frames
               e == [op |-> "free", id |-> i]
    <3>1. PICK n \in 1 .. Len(s) : s[n] = e
      BY <1>5, <2>2 DEF ToFree
    <3>2. n # 1
      <4> SUFFICES ASSUME n = 1 PROVE FALSE
        OBVIOUS
      <4>1. f = e
        BY <3>1
      <4>2. f.op = "free" /\ f.id = i
        BY <4>1
      <4>3. kv'[h][f.id] = None
        BY <1>1, <4>2
      <4> QED
        BY <1>5, <2>2, <4>2, <4>3
    <3>3. Len(s) \in Nat /\ Len(t) = Len(s) - 1 /\ \A q \in 1 .. Len(t) : t[q] = s[q + 1]
      BY <1>1
    <3> HIDE DEF s, t, e
    <3>4. n - 1 \in 1 .. Len(t) /\ n - 1 + 1 = n
      BY <3>1, <3>2, <3>3
    <3>5. t[n - 1] = e
      BY <3>1, <3>3, <3>4
    <3>6. \E q \in 1 .. Len(sock'[l][h].frames) : sock'[l][h].frames[q] = [op |-> "free", id |-> i]
      BY <3>4, <3>5 DEF t, e
    <3> QED
      BY <1>1, <2>2, <3>6 DEF ToFree
  <2> QED
    BY <2>1, <2>2
<1> QED
  BY <1>2, <1>3, <1>4, <1>5, AccountedStays

\* A pass fails only at a socket that is closed, unless stages hang.
LEMMA FailsWhenClosed ==
  ASSUME Typed, NEW l \in Lane, LaneInOrder(l), "hang" \notin setting.faults, Fails(l)
  PROVE  job[l] # None /\ sock[l] # None /\ \E k \in Stage : ~sock[l][k].open
<1>1. job[l] # None /\ sock[l] # None
  BY DEF Fails, At, Typed, FirstConnects
<1>2. job[l].hop \in Stage /\ Len(job[l].hist) = Len(job[l].rows) /\ Len(job[l].rows) \in Nat
  BY <1>1, JobOn, JobFacts DEF Typed
<1>3. ~(job[l].phase = "emit" /\ Len(job[l].hid) < Len(job[l].rows))
  <2>1. job[l].phase # "finish" => job[l].hid = job[l].hist
    BY <1>1 DEF LaneInOrder, JobInOrder
  <2> QED
    BY <1>2, <2>1
<1>4. ~Link(l).open
  BY <1>3 DEF Fails, At
<1> QED
  BY <1>1, <1>2, <1>4 DEF Link

LEMMA BeginKv ==
  ASSUME Typed, AllUp, \A k \in Stage, i \in Id : Accounted(k, i), Admit
  PROVE  AllUp' /\ (\A k \in Stage, i \in Id : Accounted(k, i))'
<1>1. \E l \in Lane : job[l] = None /\ \E rows \in Seq(Req) : Begin(l, rows)
  <2>1. ASSUME NEW n \in 1 .. Cardinality(Req), Collect(n)
        PROVE  \E l \in Lane : job[l] = None /\ \E rows \in Seq(Req) : Begin(l, rows)
    <3>1. job[1] = None /\ 1 \in Lane
      BY <2>1, CollectSteps, SettingFacts DEF Typed, StateTyped
    <3>2. \E rows \in Seq(Req) : Begin(1, rows)
      BY <2>1, CollectSteps
    <3> QED
      BY <3>1, <3>2
  <2>2. ASSUME NEW r \in Req, Enter(r)
        PROVE  \E l \in Lane : job[l] = None /\ \E rows \in Seq(Req) : Begin(l, rows)
    <3>1. <<r>> \in Seq(Req)
      BY One
    <3> QED
      BY <2>2, <3>1, EnterSteps
  <2> QED
    BY <2>1, <2>2 DEF Admit
<1>2. PICK l \in Lane : job[l] = None /\ \E rows \in Seq(Req) : Begin(l, rows)
  BY <1>1
<1>3. sock' = sock /\ kv' = kv /\ \A m \in Lane : m # l => job'[m] = job[m]
  BY <1>2 DEF Begin, Typed, JobTyped
<1>4. AllUp'
  BY <1>3 DEF AllUp
<1>5. \A m \in Lane, i \in Id : RunsAs(m, i) => RunsAs(m, i)'
  BY <1>2, <1>3 DEF RunsAs
<1>6. \A m \in Lane, k \in Stage, i \in Id : ToFree(m, k, i) => ToFree(m, k, i)'
  BY <1>3 DEF ToFree
<1> QED
  BY <1>3, <1>4, <1>5, <1>6, AccountedStays

LEMMA NextKv == RowsInv /\ KvInv /\ [Next]_vars => KvInv'
<1> SUFFICES ASSUME RowsInv, KvInv, [Next]_vars, setting'.faults = {} PROVE (AllUp /\ \A k \in Stage, i \in Id : Accounted(k, i))'
  BY DEF KvInv
<1>1. setting' = setting /\ setting.faults = {}
  BY SettingStays
<1>2. Typed /\ InOrder /\ AllUp /\ \A k \in Stage, i \in Id : Accounted(k, i)
  BY <1>1 DEF RowsInv, KvInv, Exact
<1> DEFINE Goal == (AllUp /\ \A k \in Stage, i \in Id : Accounted(k, i))'
<1>3. ASSUME UNCHANGED <<job, sock, kv>> PROVE Goal
  BY <1>2, <1>3 DEF AllUp, Accounted, RunsAs, ToFree
<1>4. ASSUME NEW l \in Lane, LaneRuns(l) \/ ClientLeaves(l) PROVE Goal
  <2>1. ~Fail(l)
    BY <1>1, <1>2, FailsWhenClosed DEF Fail, InOrder, AllUp
  <2>2. ~ClientLeaves(l)
    BY <1>1 DEF ClientLeaves
  <2>3. CASE Finish(l)
    BY <1>2, <2>3, FinishKv
  <2>4. CASE Connect(l) \/ Write(l) \/ Read(l) \/ Emit(l)
    BY <1>2, <2>4, RunKv
  <2> QED
    BY <1>4, <2>1, <2>2, <2>3, <2>4 DEF LaneRuns
<1>5. CASE Admit
  BY <1>2, <1>5, BeginKv
<1>6. ASSUME NEW k \in Stage, NEW l \in Lane, StageServes(k, l) PROVE Goal
  BY <1>2, <1>6, ServeKv
<1>7. \A k \in Stage : ~StageDies(k)
  BY <1>1 DEF StageDies
<1>8. ASSUME NEW r \in Req, Submit(r) PROVE Goal
  BY <1>3, <1>8 DEF Submit
<1>9. CASE UNCHANGED vars
  BY <1>3, <1>9 DEF vars
<1> QED
  BY <1>4, <1>5, <1>6, <1>7, <1>8, <1>9 DEF Next

\* While nothing fails, a stage holds KV only of what runs, or is about to be
\* told to free it: nothing is left behind, for any number of requests
\* (coordinator.py:977-985, 530-557).
THEOREM KvCorrect == Spec => []KvIsOfTheRunning
<1>1. KvInv => KvIsOfTheRunning
  BY DEF KvInv, KvIsOfTheRunning, Accounted, RunsAs, ToFree
<1> QED
  BY <1>1, InitRows, NextRows, InitKv, NextKv, PTL DEF Spec

-----------------------------------------------------------------------------
(***************************************************************************)
(* A stage that dies breaks a socket of each lane; a request that fails    *)
(* repairs its lane, and nothing else breaks one.                          *)
(***************************************************************************)
Failed == {r \in Req : state[r] = "failed"}

Broken == {l \in 1 .. setting.lanes : sock[l] # None /\ \E k \in Stage : ~sock[l][k].open}

FailInv ==
  ~Batching /\ "hang" \notin setting.faults =>
    Cardinality(Failed) + Cardinality(Broken) <= setting.lanes * deaths

LEMMA Counts ==
  ASSUME Typed
  PROVE  /\ IsFiniteSet(Failed) /\ Cardinality(Failed) \in Nat
         /\ setting.lanes \in Nat /\ \A l \in 1 .. setting.lanes : l \in Lane
         /\ \A B : B \subseteq 1 .. setting.lanes =>
              IsFiniteSet(B) /\ Cardinality(B) \in Nat /\ Cardinality(B) <= setting.lanes
<1>1. Failed \subseteq Req /\ IsFiniteSet(Req)
  BY StaticAssumption DEF Failed
<1>2. IsFiniteSet(Failed) /\ Cardinality(Failed) \in Nat
  BY <1>1, FS_Subset, FS_CardinalityType
<1>3. setting.lanes \in Nat /\ setting.lanes \in Lane
  BY SettingFacts DEF Typed, StateTyped
<1>4. \A l \in 1 .. setting.lanes : l \in Lane
  BY <1>3, LaneFacts
<1>5. IsFiniteSet(1 .. setting.lanes) /\ Cardinality(1 .. setting.lanes) = setting.lanes
  <2>1. setting.lanes >= 1
    BY SettingFacts DEF Typed, StateTyped
  <2>2. 1 \in Int /\ setting.lanes \in Int
    BY <1>3
  <2>3. IsFiniteSet(1 .. setting.lanes)
        /\ Cardinality(1 .. setting.lanes) = IF 1 > setting.lanes THEN 0 ELSE setting.lanes - 1 + 1
    BY <2>2, FS_Interval
  <2> QED
    BY <1>3, <2>1, <2>3
<1>6. ASSUME NEW B, B \subseteq 1 .. setting.lanes
      PROVE  IsFiniteSet(B) /\ Cardinality(B) \in Nat /\ Cardinality(B) <= setting.lanes
  BY <1>5, <1>6, FS_Subset, FS_CardinalityType
<1> QED
  BY <1>2, <1>3, <1>4, <1>6

\* A step that fails nobody and breaks nothing.
NothingBreaks ==
  /\ \A r \in Req : state'[r] = "failed" <=> state[r] = "failed"
  /\ \A l \in Lane : sock'[l] # None =>
       IF sock[l] # None THEN \A k \in Stage : sock[l][k].open => sock'[l][k].open
       ELSE \A k \in Stage : sock'[l][k].open

LEMMA NothingBreaksBound ==
  ASSUME Typed, FailInv, NothingBreaks, setting' = setting, deaths' = deaths
  PROVE  FailInv'
<1>1. Failed' = Failed
  BY DEF Failed, NothingBreaks
<1>2. Broken' \subseteq Broken
  BY Counts DEF Broken, NothingBreaks
<1>3. Broken \subseteq 1 .. setting.lanes
  BY DEF Broken
<1>4. Cardinality(Broken') <= Cardinality(Broken)
  BY <1>2, <1>3, Counts, FS_Subset
<1>5. Cardinality(Broken') \in Nat /\ Cardinality(Broken) \in Nat /\ Cardinality(Failed) \in Nat
  BY <1>2, <1>3, Counts
<1>6. setting.lanes * deaths \in Int
  <2>1. deaths \in Nat /\ setting.lanes \in Nat
    BY Counts, StaticAssumption DEF Typed, StateTyped
  <2> QED
    BY <2>1
<1>7. Batching' = Batching
  BY DEF Batching
<1> DEFINE m == setting.lanes * deaths
           a == Cardinality(Failed)
           b == Cardinality(Broken)
<1>8. FailInv => (~Batching /\ "hang" \notin setting.faults => a + b <= m)
  BY DEF FailInv
<1>9. ASSUME ~Batching, "hang" \notin setting.faults PROVE a + Cardinality(Broken') <= m
  <2>1. a + b <= m
    BY <1>8, <1>9
  <2> HIDE DEF a, b, m
  <2>2. a \in Nat /\ b \in Nat /\ m \in Int /\ Cardinality(Broken') \in Nat /\ Cardinality(Broken') <= b
    BY <1>4, <1>5, <1>6 DEF a, b, m
  <2> QED
    BY <2>1, <2>2
<1> QED
  BY <1>1, <1>7, <1>9 DEF FailInv

\* The request of a lane that is broken fails, and the lane connects again.
LEMMA FailBound ==
  ASSUME Typed, InOrder, FailInv, ~Batching, "hang" \notin setting.faults, NEW l \in Lane, Fail(l)
  PROVE  FailInv'
<1>1. /\ job[l] # None /\ Fails(l) /\ Leave(l, "failed") /\ "failed" \in Ended
      /\ (\A m \in Lane : m # l => sock'[m] = sock[m]) /\ sock'[l] = None
  BY FailSteps
<1>2. /\ UNCHANGED <<setting, deaths>>
      /\ \A r \in Req : state'[r] = IF r \in ToSet(job[l].rows) THEN "failed" ELSE state[r]
  BY <1>1, LeaveSteps
<1>3. l \in Broken
  <2>1. sock[l] # None /\ \E k \in Stage : ~sock[l][k].open
    BY <1>1, FailsWhenClosed DEF InOrder
  <2>2. l <= made /\ made <= setting.lanes /\ made \in Nat
    BY <1>1 DEF Typed, LanesTyped
  <2>3. l \in 1 .. setting.lanes
    BY <2>2, Counts, LaneFacts
  <2> QED
    BY <2>1, <2>3 DEF Broken
<1>4. PICK q \in Req : \A r \in ToSet(job[l].rows) : r = q
  <2>1. job[l].rows \in Seq(Req) /\ Len(job[l].rows) \in 1 .. setting.maxBatch /\ setting.maxBatch = 1
    BY <1>1, JobOn, JobFacts, SettingFacts DEF Typed, StateTyped
  <2>2. Len(job[l].rows) = 1
    BY <2>1
  <2>3. \A r \in ToSet(job[l].rows) : r = job[l].rows[1]
    BY <2>1, <2>2, SetOf
  <2>4. job[l].rows[1] \in Req
    BY <2>1, <2>2, SetOf
  <2> QED
    BY <2>3, <2>4
<1>5. Failed' \subseteq Failed \cup {q}
  BY <1>2, <1>4 DEF Failed
<1>6. Cardinality(Failed') <= Cardinality(Failed) + 1 /\ Cardinality(Failed') \in Nat
  <2>1. IsFiniteSet(Failed) /\ Cardinality(Failed) \in Nat
    BY Counts
  <2>2. IsFiniteSet(Failed \cup {q}) /\ Cardinality(Failed \cup {q}) <= Cardinality(Failed) + 1
    BY <2>1, FS_AddElement
  <2>3. IsFiniteSet(Failed') /\ Cardinality(Failed') <= Cardinality(Failed \cup {q})
    BY <1>5, <2>2, FS_Subset
  <2>4. Cardinality(Failed') \in Nat /\ Cardinality(Failed \cup {q}) \in Nat
    BY <2>2, <2>3, FS_CardinalityType
  <2> QED
    BY <2>1, <2>2, <2>3, <2>4
<1>7. Broken' \subseteq Broken \ {l}
  BY <1>1, <1>2, Counts DEF Broken
<1>8. Cardinality(Broken') <= Cardinality(Broken) - 1 /\ Cardinality(Broken') \in Nat /\ Cardinality(Broken) \in Nat
  <2>1. Broken \subseteq 1 .. setting.lanes
    BY DEF Broken
  <2>2. IsFiniteSet(Broken) /\ Cardinality(Broken) \in Nat
    BY <2>1, Counts
  <2>3. IsFiniteSet(Broken \ {l}) /\ Cardinality(Broken \ {l}) = Cardinality(Broken) - 1
    BY <1>3, <2>2, FS_RemoveElement
  <2>4. Cardinality(Broken') <= Cardinality(Broken \ {l}) /\ IsFiniteSet(Broken')
    BY <1>7, <2>3, FS_Subset
  <2>5. Cardinality(Broken') \in Nat
    BY <2>4, FS_CardinalityType
  <2> QED
    BY <2>2, <2>3, <2>4, <2>5
<1> DEFINE n == setting.lanes * deaths
           a == Cardinality(Failed)
           b == Cardinality(Broken)
           c == Cardinality(Failed')
           d == Cardinality(Broken')
<1>9. n \in Int
  <2>1. deaths \in Nat /\ setting.lanes \in Nat
    BY Counts, StaticAssumption DEF Typed, StateTyped
  <2> QED
    BY <2>1
<1>10. a + b <= n /\ a \in Nat
  BY Counts DEF FailInv
<1>11. c + d <= n
  <2> HIDE DEF a, b, c, d, n
  <2>1. a \in Nat /\ b \in Nat /\ c \in Nat /\ d \in Nat /\ n \in Int /\ c <= a + 1 /\ d <= b - 1
    BY <1>6, <1>8, <1>9, <1>10 DEF a, b, c, d, n
  <2> QED
    BY <1>10, <2>1
<1> QED
  BY <1>2, <1>11 DEF FailInv

LEMMA DieBound ==
  ASSUME Typed, FailInv, NEW k \in Stage, StageDies(k) PROVE FailInv'
<1>1. deaths' = deaths + 1 /\ UNCHANGED <<setting, requests>>
  BY DieSteps
<1>2. Failed' = Failed /\ setting' = setting /\ Batching' = Batching
  BY <1>1 DEF Failed, requests, Batching
<1>3. Cardinality(Broken') \in Nat /\ Cardinality(Broken') <= setting.lanes
  <2>1. Broken' \subseteq 1 .. setting.lanes
    BY <1>2 DEF Broken
  <2> QED
    BY <2>1, Counts
<1>4. Cardinality(Broken) \in Nat /\ Cardinality(Failed) \in Nat
  <2>1. Broken \subseteq 1 .. setting.lanes
    BY DEF Broken
  <2> QED
    BY <2>1, Counts
<1> DEFINE a == Cardinality(Failed)
           b == Cardinality(Broken)
           c == Cardinality(Broken')
           n == setting.lanes
<1>5. deaths \in Nat /\ n \in Nat
  BY Counts, StaticAssumption DEF Typed, StateTyped
<1>6. ASSUME a + b <= n * deaths PROVE a + c <= n * (deaths + 1)
  <2>1. n * (deaths + 1) = n * deaths + n /\ n * deaths \in Nat
    <3> HIDE DEF n
    <3> QED
      BY <1>5
  <2> DEFINE p == n * deaths
             q == n * (deaths + 1)
  <2>2. a \in Nat /\ b \in Nat /\ c \in Nat /\ n \in Nat /\ p \in Nat /\ q = p + n /\ c <= n /\ a + b <= p
    BY <1>3, <1>4, <1>5, <1>6, <2>1
  <2> HIDE DEF a, b, c, n, p, q
  <2>3. a + c <= q
    BY <2>2
  <2> QED
    BY <2>3 DEF q
<1> QED
  BY <1>1, <1>2, <1>6 DEF FailInv

LEMMA LaneBreaksNothing ==
  ASSUME Typed, NEW l \in Lane, LaneRuns(l) \/ ClientLeaves(l), ~Fail(l)
  PROVE  NothingBreaks /\ UNCHANGED <<setting, deaths>>
<1>1. CASE Connect(l) \/ Write(l) \/ Read(l) \/ Emit(l)
  <2>1. UNCHANGED <<setting, state, deaths>>
    BY <1>1 DEF Connect, Write, Read, Emit, requests
  <2>2. ASSUME NEW m \in Lane, sock'[m] # None
        PROVE  IF sock[m] # None THEN \A k \in Stage : sock[m][k].open => sock'[m][k].open
               ELSE \A k \in Stage : sock'[m][k].open
    <3>1. CASE m = l
      BY <1>1, <3>1, RunSockets DEF Fresh
    <3>2. CASE m # l
      BY <1>1, <2>2, <3>2, RunSockets DEF OnlyOn
    <3> QED
      BY <3>1, <3>2
  <2> QED
    BY <2>1, <2>2 DEF NothingBreaks
<1>2. CASE Finish(l) \/ ClientLeaves(l)
  <2>1. PICK how \in {"done", "left"} : Leave(l, how)
    BY <1>2, FinishSteps, ClientLeavesSteps
  <2>2. job[l] # None /\ how \in Ended /\ how # "failed"
    BY <1>2, FinishSteps, ClientLeavesSteps DEF Ended
  <2>3. /\ UNCHANGED <<setting, deaths>>
        /\ \A r \in Req : state'[r] = IF r \in ToSet(job[l].rows) THEN how ELSE state[r]
    BY <2>1, <2>2, LeaveSteps
  <2>4. \A r \in Req : state'[r] = "failed" <=> state[r] = "failed"
    BY <2>2, <2>3, RowsRun
  <2>5. ASSUME NEW m \in Lane, sock'[m] # None
        PROVE  sock[m] # None /\ \A k \in Stage : sock[m][k].open => sock'[m][k].open
    <3>1. CASE Finish(l) /\ m = l
      BY <2>5, <3>1, FinishSteps DEF Freed
    <3>2. CASE Finish(l) /\ m # l
      BY <2>5, <3>2, FinishSteps
    <3>3. CASE ClientLeaves(l)
      BY <2>5, <3>3, ClientLeavesSteps
    <3> QED
      BY <1>2, <3>1, <3>2, <3>3
  <2> QED
    BY <2>3, <2>4, <2>5 DEF NothingBreaks
<1> QED
  BY <1>1, <1>2 DEF LaneRuns

LEMMA AdmitBreaksNothing ==
  ASSUME Typed, Admit PROVE NothingBreaks /\ UNCHANGED <<setting, deaths>>
<1>1. \E l \in Lane, rows \in Seq(Req) : Begin(l, rows) /\ \A r \in ToSet(rows) : state[r] = "waiting"
  <2>1. ASSUME NEW n \in 1 .. Cardinality(Req), Collect(n)
        PROVE  \E l \in Lane, rows \in Seq(Req) :
                 Begin(l, rows) /\ \A r \in ToSet(rows) : state[r] = "waiting"
    <3>1. 1 \in Lane
      BY SettingFacts DEF Typed, StateTyped
    <3>2. \E rows \in Seq(Req) : Begin(1, rows) /\ \A r \in ToSet(rows) : state[r] = "waiting"
      BY <2>1, CollectSteps
    <3> QED
      BY <3>1, <3>2
  <2>2. ASSUME NEW r \in Req, Enter(r)
        PROVE  \E l \in Lane, rows \in Seq(Req) :
                 Begin(l, rows) /\ \A q \in ToSet(rows) : state[q] = "waiting"
    <3>1. <<r>> \in Seq(Req) /\ \A q \in ToSet(<<r>>) : state[q] = "waiting"
      BY <2>2, One, EnterSteps
    <3> QED
      BY <2>2, <3>1, EnterSteps
  <2> QED
    BY <2>1, <2>2 DEF Admit
<1>2. PICK l \in Lane, rows \in Seq(Req) : Begin(l, rows) /\ \A r \in ToSet(rows) : state[r] = "waiting"
  BY <1>1
<1>3. /\ UNCHANGED <<setting, sock, deaths>>
      /\ \A r \in Req : state'[r] = IF r \in ToSet(rows) THEN "running" ELSE state[r]
  BY <1>2 DEF Begin
<1>4. \A r \in Req : state'[r] = "failed" <=> state[r] = "failed"
  BY <1>2, <1>3
<1> QED
  BY <1>3, <1>4 DEF NothingBreaks

LEMMA NextFails == RowsInv /\ FailInv /\ [Next]_vars => FailInv'
<1> SUFFICES ASSUME RowsInv, FailInv, [Next]_vars, ~Batching', "hang" \notin setting'.faults
             PROVE  FailInv'
  BY DEF FailInv
<1>1. ~Batching /\ "hang" \notin setting.faults
  BY SettingStays DEF Batching
<1>2. Typed /\ InOrder
  BY <1>1 DEF RowsInv, Exact
<1>3. ASSUME NothingBreaks, UNCHANGED <<setting, deaths>> PROVE FailInv'
  BY <1>2, <1>3, NothingBreaksBound
<1>4. ASSUME NEW r \in Req, Submit(r) PROVE FailInv'
  <2>1. UNCHANGED <<setting, sock, deaths>> /\ \A q \in Req : state'[q] = "failed" <=> state[q] = "failed"
    BY <1>2, <1>4 DEF Submit, Typed, StateTyped
  <2> QED
    BY <1>3, <2>1 DEF NothingBreaks
<1>5. CASE Admit
  BY <1>2, <1>3, <1>5, AdmitBreaksNothing
<1>6. ASSUME NEW l \in Lane, LaneRuns(l) \/ ClientLeaves(l) PROVE FailInv'
  <2>1. CASE Fail(l)
    BY <1>1, <1>2, <2>1, FailBound
  <2>2. CASE ~Fail(l)
    BY <1>2, <1>3, <1>6, <2>2, LaneBreaksNothing
  <2> QED
    BY <2>1, <2>2
<1>7. ASSUME NEW k \in Stage, NEW l \in Lane, StageServes(k, l) PROVE FailInv'
  <2>1. UNCHANGED <<setting, state, deaths>>
    BY <1>7 DEF StageServes, requests
  <2>2. ASSUME NEW m \in Lane, sock'[m] # None
        PROVE  sock[m] # None /\ \A i \in Stage : sock[m][i].open => sock'[m][i].open
    <3>1. /\ sock[l] # None /\ (\A n \in Lane : n # l => sock'[n] = sock[n])
          /\ (\A i \in Stage : i # k => sock'[l][i] = sock[l][i])
          /\ sock'[l][k].open
      BY <1>2, <1>7, Served
    <3>2. CASE m = l
      BY <3>1, <3>2
    <3>3. CASE m # l
      BY <2>2, <3>1, <3>3
    <3> QED
      BY <3>2, <3>3
  <2> QED
    BY <1>3, <2>1, <2>2 DEF NothingBreaks
<1>8. ASSUME NEW k \in Stage, StageDies(k) PROVE FailInv'
  BY <1>2, <1>8, DieBound
<1>9. CASE UNCHANGED vars
  BY <1>3, <1>9 DEF vars, requests, NothingBreaks
<1> QED
  BY <1>4, <1>5, <1>6, <1>7, <1>8, <1>9 DEF Next

\* A stage that dies costs each connection set at most one request, however
\* many run and whenever it dies: who finds a broken socket drops the set and
\* the next one connects again (coordinator.py:296-298).
THEOREM FailuresCorrect == Spec => []FailuresAreBounded
<1>1. Init => FailInv
  <2> SUFFICES ASSUME Init PROVE FailInv
    OBVIOUS
  <2>1. Failed = {} /\ Broken = {} /\ deaths = 0
    <3>1. \A l \in 1 .. setting.lanes : l \in Lane
      BY InitTyped, Counts
    <3> QED
      BY <3>1 DEF Init, Failed, Broken
  <2>2. setting.lanes \in Nat
    BY InitTyped, Counts
  <2> QED
    BY <2>1, <2>2, FS_EmptySet DEF FailInv
<1>2. RowsInv /\ FailInv => FailuresAreBounded
  <2> SUFFICES ASSUME RowsInv, FailInv, ~Batching, "hang" \notin setting.faults
               PROVE  Cardinality(Failed) <= setting.lanes * deaths
    BY DEF FailuresAreBounded, Failed
  <2>1. Typed
    BY DEF RowsInv
  <2> DEFINE n == setting.lanes * deaths
             a == Cardinality(Failed)
             b == Cardinality(Broken)
  <2>2. Broken \subseteq 1 .. setting.lanes
    BY DEF Broken
  <2>3. a \in Nat /\ b \in Nat /\ a + b <= n
    BY <2>1, <2>2, Counts DEF FailInv
  <2>4. n \in Int
    <3>1. deaths \in Nat /\ setting.lanes \in Nat
      BY <2>1, Counts, StaticAssumption DEF Typed, StateTyped
    <3> QED
      BY <3>1
  <2>5. a <= n
    <3> HIDE DEF a, b, n
    <3> QED
      BY <2>3, <2>4
  <2> QED
    BY <2>5
<1> QED
  BY <1>1, <1>2, InitRows, NextRows, NextFails, PTL DEF Spec

=============================================================================
