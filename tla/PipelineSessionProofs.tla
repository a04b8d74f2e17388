------------------------ MODULE PipelineSessionProofs ------------------------
(***************************************************************************)
(* What holds of a session on the data plane for every pipeline of         *)
(* holders, every set of sessions and every setting.                       *)
(***************************************************************************)
EXTENDS PipelineSession, SequenceTheorems, FiniteSetTheorems, TLAPS

-----------------------------------------------------------------------------
(***************************************************************************)
(* Texts: sequences of tokens.                                             *)
(***************************************************************************)
Text == Seq(Token)

Cell == Text \cup {None}

LEMMA PrefixOfText ==
  ASSUME NEW s \in Text, NEW n \in Nat, n <= Len(s)
  PROVE  /\ SubSeq(s, 1, n) \in Text
         /\ Len(SubSeq(s, 1, n)) = n
         /\ \A i \in 1 .. n : SubSeq(s, 1, n)[i] = s[i]
<1>1. Len(s) \in Nat
  BY LenProperties DEF Text
<1>2. \A i \in 1 .. n : s[i] \in Token
  BY <1>1, ElementOfSeq DEF Text
<1> QED
  BY <1>1, <1>2, SubSeqProperties DEF Text

LEMMA SuffixOfText ==
  ASSUME NEW s \in Text, NEW n \in Nat, n <= Len(s)
  PROVE  /\ SubSeq(s, n + 1, Len(s)) \in Text
         /\ Len(SubSeq(s, n + 1, Len(s))) = Len(s) - n
         /\ \A i \in 1 .. Len(s) - n : SubSeq(s, n + 1, Len(s))[i] = s[n + i]
<1>1. Len(s) \in Nat
  BY LenProperties DEF Text
<1>2. \A i \in n + 1 .. Len(s) : s[i] \in Token
  BY <1>1, ElementOfSeq DEF Text
<1> QED
  BY <1>1, <1>2, SubSeqProperties DEF Text

LEMMA TextFacts ==
  ASSUME setting \in Setting
  PROVE  /\ <<>> \in Text /\ Len(<<>>) = 0 /\ <<"said">> \in Text
         /\ setting.prompts \subseteq Text /\ <<>> \notin setting.prompts
         /\ None \notin Text
         /\ \A a \in Text : Len(a) \in Nat /\ (Len(a) = 0 <=> a = <<>>)
         /\ \A a, b \in Text : a \o b \in Text /\ Len(a \o b) = Len(a) + Len(b)
         /\ \A a \in Text : <<>> \o a = a
<1>1. "said" \in Token /\ "wrong" \in Token
  BY DEF Token, Tokens
<1>2. setting.prompts \subseteq Text /\ <<>> \notin setting.prompts /\ None \notin Text
  BY SessionAssumption DEF Text, Token
<1>3. \A a \in Text : Len(a) \in Nat /\ (Len(a) = 0 <=> a = <<>>)
  BY LenProperties, EmptySeq DEF Text
<1>4. \A a, b \in Text : a \o b \in Text /\ Len(a \o b) = Len(a) + Len(b)
  BY ConcatProperties DEF Text
<1>5. \A a \in Text : <<>> \o a = a
  BY ConcatEmptySeq DEF Text
<1>6. <<>> \in Text /\ Len(<<>>) = 0 /\ <<"said">> \in Text
  BY <1>1 DEF Text
<1> QED
  BY <1>2, <1>3, <1>4, <1>5, <1>6

LEMMA DraftedIsText ==
  ASSUME NEW m PROVE Drafted(m) \in Text
<1>1. DraftLen \in Nat /\ "said" \in Token /\ "wrong" \in Token
  BY SessionAssumption DEF Token, Tokens
<1>2. \A i \in 1 .. DraftLen : (IF i <= m THEN "said" ELSE "wrong") \in Token
  BY <1>1
<1>3. Drafted(m) \in [1 .. DraftLen -> Token]
  BY <1>2 DEF Drafted
<1> QED
  BY <1>1, <1>3, SeqDef DEF Text

\* A set of leading positions is as large as its last one.
LEMMA LeadingPositions ==
  ASSUME NEW n \in Nat, NEW P \in SUBSET (1 .. n)
  PROVE  IsFiniteSet(P) /\ Cardinality(P) \in Nat /\ Cardinality(P) <= n
<1>1. IsFiniteSet(1 .. n) /\ Cardinality(1 .. n) = n
  BY FS_Interval
<1> QED
  BY <1>1, FS_Subset, FS_CardinalityType

LEMMA AcceptedIsShort ==
  ASSUME NEW b \in Text, setting \in Setting
  PROVE  Accepted(b) \in Nat /\ Accepted(b) <= Len(b)
BY LeadingPositions, TextFacts DEF Accepted

LEMMA CommonIsShort ==
  ASSUME NEW a \in Text, NEW b \in Text, setting \in Setting
  PROVE  /\ CommonLength(a, b) \in Nat
         /\ CommonLength(a, b) <= Len(a) /\ CommonLength(a, b) <= Len(b)
<1> DEFINE P == {i \in 1 .. Len(a) : i <= Len(b) /\ SubSeq(a, 1, i) = SubSeq(b, 1, i)}
<1>1. Len(a) \in Nat /\ Len(b) \in Nat
  BY TextFacts
<1>2. P \subseteq 1 .. Len(a) /\ P \subseteq 1 .. Len(b)
  BY <1>1
<1>3. CommonLength(a, b) = Cardinality(P)
  BY DEF CommonLength
<1> QED
  BY <1>1, <1>2, <1>3, LeadingPositions

-----------------------------------------------------------------------------
(***************************************************************************)
(* Types.                                                                  *)
(***************************************************************************)
Socket == {"none", "open", "dead"}

ControlTyped ==
  /\ setting \in Setting
  /\ up \subseteq Holder /\ ready \subseteq Holder
  /\ free \subseteq Session /\ spare \subseteq Session

KvTyped == kv \in [Holder -> [Session -> Cell]]

RoutesTyped ==
  /\ pins \in [Session -> Route \cup {None}]
  /\ route \in [Session -> Route \cup {None}]

\* A holder without a coordinator forwards for nobody.
SocketsTyped ==
  /\ conn \in [Holder -> Socket] /\ fwd \in [Holder -> [Holder -> Socket]]
  /\ \A h \in Holder : fwd[h] # NoSockets => conn[h] = "open"

Late ==
  [holder : Holder, sid : Session, feed : Text, pos : Nat, own : BOOLEAN,
   next : Holder \cup {None}]

\* A late forward belongs to a live process and, as long as the KV it took is
\* its own, to an entry of the table.
LateTyped ==
  late # None =>
    /\ late \in Late /\ late.holder \in up
    /\ late.own => kv[late.holder][late.sid] # None

PrefixTyped ==
  /\ warm # None => warm \in Prefixes(setting) /\ warm.len <= Len(warm.prompt)
  /\ blob # None => blob \in [sid : Session, seq : Text]

\* A request hops along its route, and all but a resumed one have a prompt.
RequestTyped ==
  req # None =>
    /\ req \in Requests(setting)
    /\ req.phase = "hop" => route[req.sid] \in Route
    /\ req.kind # "resume" => req.prompt \in setting.prompts

Typed ==
  /\ ControlTyped /\ KvTyped /\ RoutesTyped /\ SocketsTyped
  /\ LateTyped /\ PrefixTyped /\ RequestTyped

LEMMA RouteFacts ==
  /\ None \notin Route
  /\ \A r \in Route, k \in Stage : r[k] \in Holder /\ Serves[r[k]] = k
BY SessionAssumption DEF Route

LEMMA StageFacts == 0 \in Stage /\ NumStages \in Nat /\ Stage \subseteq Nat
BY SessionAssumption DEF Stage

LEMMA RequestFacts ==
  ASSUME ControlTyped, NEW q \in Requests(setting)
  PROVE  /\ q # None
         /\ q.kind \in setting.kinds /\ q.kind \in {"greedy", "draft", "keep", "resume"}
         /\ q.sid \in Session /\ q.seq \in Text /\ q.batch \in Text
         /\ q.prompt \in Text
         /\ q.phase \in Phase /\ q.rebuilding \in BOOLEAN /\ q.stage \in Stage
         /\ q.attempt \in 0 .. MaxFailovers /\ q.left \in 0 .. setting.maxNew
<1>1. q # None /\ setting.kinds \subseteq {"greedy", "draft", "keep", "resume"}
  BY SessionAssumption DEF ControlTyped
<1>2. setting.prompts \cup {<<>>} \subseteq Text
  BY TextFacts DEF ControlTyped
<1> QED
  BY <1>1, <1>2 DEF Requests, Text, Token

LEMMA PassFacts ==
  ASSUME ControlTyped, RequestTyped, req # None
  PROVE  /\ Feed \in Text /\ Pos \in Nat
         /\ req.sid \in Session /\ req.stage \in Stage
         /\ \A h \in Holder : Visits(h) => \A k \in Stage : Named(k) \in Holder
<1>1. req.seq \in Text /\ req.batch \in Text /\ req.sid \in Session /\ req.stage \in Stage
  BY RequestFacts DEF RequestTyped
<1>2. Feed \in Text /\ Pos \in Nat
  BY <1>1, TextFacts DEF Feed, Pos, ControlTyped
<1>3. ASSUME NEW h \in Holder, Visits(h), NEW k \in Stage PROVE Named(k) \in Holder
  BY <1>3, RouteFacts DEF Visits, RequestTyped, Named
<1> QED
  BY <1>1, <1>2, <1>3

LEMMA Frame == ASSUME Next PROVE setting' = setting /\ Token' = Token /\ Text' = Text
<1>1. setting' = setting
  BY DEF Next, Start, Proceed, Environment, Reaper, StartGreedy, StartCold, StartSpoiled,
       StartWarm, StartResume, TakeRoute, NoRoute, Hop, HopFails, ReplyLost, HeadLost,
       HopAbandoned, HopBreaks, Rebuild, GiveUp, NextToken, NextRound, Finish, FinishKeeping, FinishWarm,
       Crash, Reap, Rejoin, Beat, Drop, LateForward, OrchestratorLeaves, ClientLeaves, Expire
<1> QED
  BY <1>1 DEF Token, Text

-----------------------------------------------------------------------------
(***************************************************************************)
(* KV tables and sockets after each operation, entry by entry.             *)
(***************************************************************************)
KvTables == [Holder -> [Session -> Cell]]

LEMMA Reset ==
  ASSUME ControlTyped, NEW k \in KvTables, NEW S
  PROVE  /\ ResetKV(k, S) \in KvTables
         /\ \A h \in Holder, s \in Session :
              /\ ResetKV(k, S)[h][s] =
                   IF s \in S /\ conn[h] = "open" /\ k[h][s] # None THEN <<>> ELSE k[h][s]
              /\ k[h][s] # None => ResetKV(k, S)[h][s] # None
<1>1. <<>> \in Cell /\ <<>> # None
  BY TextFacts DEF ControlTyped, Cell
<1> QED
  BY <1>1 DEF ResetKV, KvTables

LEMMA Truncate ==
  ASSUME ControlTyped, KvTyped, NEW sid \in Session, NEW n \in Nat
  PROVE  /\ TruncateKV(sid, n) \in KvTables
         /\ \A h \in Holder, s \in Session :
              /\ TruncateKV(sid, n)[h][s] =
                   IF s = sid /\ conn[h] = "open" /\ kv[h][s] # None
                   THEN SubSeq(kv[h][s], 1, Shorter(n, Len(kv[h][s]))) ELSE kv[h][s]
              /\ kv[h][s] # None => TruncateKV(sid, n)[h][s] # None
<1>1. \A h \in Holder, s \in Session : kv[h][s] \in Cell
  BY DEF KvTyped
<1>2. ASSUME NEW t \in Text PROVE SubSeq(t, 1, Shorter(n, Len(t))) \in Text
  <2>1. Len(t) \in Nat
    BY TextFacts DEF ControlTyped
  <2>2. Shorter(n, Len(t)) \in Nat /\ Shorter(n, Len(t)) <= Len(t)
    BY <2>1 DEF Shorter
  <2> QED
    BY <2>2, PrefixOfText
<1>3. None \notin Text
  BY TextFacts DEF ControlTyped
<1> DEFINE e(h, s) == IF s = sid /\ conn[h] = "open" /\ kv[h][s] # None
                      THEN SubSeq(kv[h][s], 1, Shorter(n, Len(kv[h][s]))) ELSE kv[h][s]
<1>4. \A h \in Holder, s \in Session : e(h, s) \in Cell /\ (kv[h][s] # None => e(h, s) # None)
  BY <1>1, <1>2, <1>3 DEF Cell
<1>5. TruncateKV(sid, n) = [h \in Holder |-> [s \in Session |-> e(h, s)]]
  BY DEF TruncateKV
<1> HIDE DEF e
<1>6. TruncateKV(sid, n) \in KvTables /\ \A h \in Holder, s \in Session : TruncateKV(sid, n)[h][s] = e(h, s)
  BY <1>4, <1>5 DEF KvTables
<1> QED
  BY <1>4, <1>6 DEF e

\* A holder's entry of one session is set.
LEMMA SetEntry ==
  ASSUME NEW k \in KvTables, NEW h \in Holder, NEW s \in Session, NEW v \in Cell
  PROVE  /\ [k EXCEPT ![h][s] = v] \in KvTables
         /\ \A g \in Holder, r \in Session :
              [k EXCEPT ![h][s] = v][g][r] = IF g = h /\ r = s THEN v ELSE k[g][r]
BY DEF KvTables

LEMMA Forward ==
  ASSUME Typed, NEW h \in Holder, Visits(h)
  PROVE  /\ Forwarded(h) \in KvTables
         /\ \A g \in Holder, s \in Session :
              /\ Forwarded(h)[g][s] =
                   IF g = h /\ s = req.sid
                   THEN IF StartsAfresh(h) THEN Feed ELSE kv[h][req.sid] \o Feed
                   ELSE kv[g][s]
              /\ kv[g][s] # None => Forwarded(h)[g][s] # None
         /\ Forwarded(h)[h][req.sid] # None
<1> DEFINE v == IF StartsAfresh(h) THEN Feed ELSE kv[h][req.sid] \o Feed
<1>1. Feed \in Text /\ req.sid \in Session
  BY PassFacts DEF Typed, Visits
<1>2. kv[h][req.sid] \in Cell
  BY <1>1 DEF Typed, KvTyped
<1>3. v \in Text
  BY <1>1, <1>2, TextFacts DEF StartsAfresh, Cell, Typed, ControlTyped
<1>4. v # None /\ v \in Cell /\ kv \in KvTables
  BY <1>3, TextFacts DEF Typed, ControlTyped, Cell, KvTyped, KvTables
<1>5. Forwarded(h) = [kv EXCEPT ![h][req.sid] = v]
  BY <1>1, <1>4 DEF Forwarded, KvTables
<1> HIDE DEF v
<1>6. /\ Forwarded(h) \in KvTables
      /\ \A g \in Holder, s \in Session :
           Forwarded(h)[g][s] = IF g = h /\ s = req.sid THEN v ELSE kv[g][s]
  <2>1. /\ [kv EXCEPT ![h][req.sid] = v] \in KvTables
        /\ \A g \in Holder, s \in Session :
             [kv EXCEPT ![h][req.sid] = v][g][s] = IF g = h /\ s = req.sid THEN v ELSE kv[g][s]
    BY <1>1, <1>4, SetEntry
  <2> QED
    BY <1>5, <2>1
<1> QED
  BY <1>1, <1>4, <1>6 DEF v

LEMMA Connect ==
  ASSUME SocketsTyped, NEW c \in [Holder -> Socket], Connected(c)
  PROVE  SocketsTyped'
<1>1. NoSockets \in [Holder -> Socket] /\ NoSockets' = NoSockets
  BY DEF NoSockets, Socket
<1>2. conn' = c /\ fwd' = [h \in Holder |-> IF c[h] = "open" THEN fwd[h] ELSE NoSockets]
  BY DEF Connected
<1>3. fwd' \in [Holder -> [Holder -> Socket]]
  BY <1>1, <1>2 DEF SocketsTyped
<1>4. \A h \in Holder : fwd'[h] # NoSockets => conn'[h] = "open"
  BY <1>2
<1> QED
  BY <1>1, <1>2, <1>3, <1>4 DEF SocketsTyped

LEMMA ForgetTyped ==
  ASSUME SocketsTyped, NEW refused, Forget(refused) PROVE SocketsTyped'
<1>1. [h \in Holder |-> IF h \in refused THEN "none" ELSE conn[h]] \in [Holder -> Socket]
  BY DEF SocketsTyped, Socket
<1> QED
  BY <1>1, Connect DEF Forget

-----------------------------------------------------------------------------
(***************************************************************************)
(* Which steps touch what.                                                 *)
(***************************************************************************)
LEMMA ControlSteps ==
  ASSUME Next
  PROVE  /\ \/ UNCHANGED up
            \/ \E h \in Holder : Crash(h) \/ Rejoin(h)
         /\ \/ ready' \subseteq ready
            \/ \E h \in Holder : Rejoin(h) \/ Beat(h)
         /\ free' \subseteq free
         /\ \/ spare' \in {spare, {}}
            \/ ClientLeaves /\ spare' = {req.sid}
<1>1. UNCHANGED up \/ \E h \in Holder : Crash(h) \/ Rejoin(h)
  BY DEF Next, Start, Proceed, Environment, Reaper, StartGreedy, StartCold, StartSpoiled,
       StartWarm, StartResume, TakeRoute, NoRoute, Hop, HopFails, ReplyLost, HeadLost,
       HopAbandoned, HopBreaks, Rebuild, GiveUp, NextToken, NextRound, Finish, FinishKeeping, FinishWarm,
       Reap, Drop, LateForward, OrchestratorLeaves, Expire, holderVars, controlVars, prefixes,
       ClientLeaves, Beat
<1>2. ready' \subseteq ready \/ \E h \in Holder : Rejoin(h) \/ Beat(h)
  BY DEF Next, Start, Proceed, Environment, Reaper, StartGreedy, StartCold, StartSpoiled,
       StartWarm, StartResume, TakeRoute, NoRoute, Hop, HopFails, ReplyLost, HeadLost,
       HopAbandoned, HopBreaks, Rebuild, GiveUp, NextToken, NextRound, Finish, FinishKeeping, FinishWarm,
       Reap, Drop, LateForward, OrchestratorLeaves, Expire, holderVars, controlVars, prefixes,
       ClientLeaves, Crash
<1>3. free' \subseteq free
  BY DEF Next, Start, Proceed, Environment, Reaper, StartGreedy, StartCold, StartSpoiled,
       StartWarm, StartResume, TakeRoute, NoRoute, Hop, HopFails, ReplyLost, HeadLost,
       HopAbandoned, HopBreaks, Rebuild, GiveUp, NextToken, NextRound, Finish, FinishKeeping, FinishWarm,
       Reap, Drop, LateForward, OrchestratorLeaves, Expire, holderVars, controlVars, prefixes,
       ClientLeaves, Crash, Rejoin, Beat
<1>4. spare' \in {spare, {}} \/ (ClientLeaves /\ spare' = {req.sid})
  BY DEF Next, Start, Proceed, Environment, Reaper, StartGreedy, StartCold, StartSpoiled,
       StartWarm, StartResume, TakeRoute, NoRoute, Hop, HopFails, ReplyLost, HeadLost,
       HopAbandoned, HopBreaks, Rebuild, GiveUp, NextToken, NextRound, Finish, FinishKeeping, FinishWarm,
       Reap, Drop, LateForward, OrchestratorLeaves, Expire, holderVars, controlVars, prefixes,
       ClientLeaves, Crash, Rejoin, Beat
<1> QED
  BY <1>1, <1>2, <1>3, <1>4

LEMMA KvSteps ==
  ASSUME Next
  PROVE  \/ UNCHANGED kv
         \/ \E p \in setting.prompts : StartWarm(p) \/ \E s \in Session : StartSpoiled(p, s)
         \/ \E h \in Holder :
              \/ Hop(h) \/ ReplyLost(h) \/ HeadLost(h) \/ HopAbandoned(h)
              \/ Crash(h) \/ \E s \in Session : Expire(h, s)
         \/ Rebuild \/ Finish \/ FinishWarm \/ LateForward
         \/ \E m \in 0 .. DraftLen : NextRound(m)
BY DEF Next, Start, Proceed, Environment, Reaper, StartGreedy, StartCold, StartResume, TakeRoute,
     NoRoute, HopFails, GiveUp, NextToken, FinishKeeping, Reap, Rejoin, Beat, Drop,
     OrchestratorLeaves, ClientLeaves, holderVars

LEMMA RouteSteps ==
  ASSUME Next
  PROVE  \/ UNCHANGED <<pins, route>>
         \/ \E p \in setting.prompts, s \in Session : StartSpoiled(p, s)
         \/ TakeRoute \/ Rebuild \/ Finish \/ FinishWarm \/ ClientLeaves
         \/ pins' = pins /\ req # None /\ route' = [route EXCEPT ![req.sid] = None]
         \/ pins' = pins /\ OrchestratorLeaves
<1>1. ASSUME NEW h \in Holder, HopFails(h) \/ ReplyLost(h) \/ HeadLost(h) \/ HopAbandoned(h)
      PROVE  pins' = pins /\ req # None /\ route' = [route EXCEPT ![req.sid] = None]
  BY <1>1 DEF HopFails, ReplyLost, HeadLost, HopAbandoned, HopBreaks, Visits
<1> QED
  BY <1>1 DEF Next, Start, Proceed, Environment, Reaper, StartGreedy, StartCold, StartResume,
       StartWarm, NoRoute, Hop, GiveUp, NextToken, NextRound, FinishKeeping, Crash, Reap, Rejoin,
       Beat, Drop, LateForward, OrchestratorLeaves, Expire, controlVars

LEMMA SocketSteps ==
  ASSUME Next
  PROVE  \/ UNCHANGED sockets
         \/ \E refused : Forget(refused)
         \/ \E h \in Holder :
              \/ Hop(h) \/ Crash(h) \/ Drop(h)
              \/ Visits(h) /\ Connected([conn EXCEPT ![Named(IF setting.chained THEN 0
                                                             ELSE req.stage)] = "none"])
         \/ OrchestratorLeaves
<1>1. ASSUME NEW h \in Holder, HopFails(h) \/ ReplyLost(h) \/ HeadLost(h) \/ HopAbandoned(h)
      PROVE  Visits(h) /\ Connected([conn EXCEPT ![Named(IF setting.chained THEN 0
                                                         ELSE req.stage)] = "none"])
  BY <1>1 DEF HopFails, ReplyLost, HeadLost, HopAbandoned, HopBreaks
<1>2. ASSUME Rebuild \/ Finish \/ FinishWarm
      PROVE  \E refused : Forget(refused)
  BY <1>2 DEF Rebuild, Finish, FinishWarm, ResetSession
<1>3. ASSUME NEW p, NEW s, StartSpoiled(p, s) PROVE \E refused : Forget(refused)
  BY <1>3 DEF StartSpoiled
<1>4. ASSUME NEW m, NextRound(m) PROVE UNCHANGED sockets \/ \E refused : Forget(refused)
  BY <1>4 DEF NextRound
<1> QED
  BY <1>1, <1>2, <1>3, <1>4
  DEF Next, Start, Proceed, Environment, Reaper, StartGreedy, StartCold, StartResume, StartWarm,
      TakeRoute, NoRoute, GiveUp, NextToken, FinishKeeping, Reap, Rejoin, Beat, LateForward,
      ClientLeaves, Expire

\* The head of a chain forwards after the coordinator has lost it.
LeftBehind(h) ==
  /\ Visits(h) /\ setting.chained /\ "drop" \in setting.faults /\ UNCHANGED <<up, kv>>
  /\ Named(0) \in up /\ kv[Named(0)][req.sid] # None
  /\ GoesOn(Named(0), FALSE, h)

LEMMA LateSteps ==
  ASSUME Typed, Next
  PROVE  \/ late' \in {late, None}
         \/ \E h \in Holder, s \in Session :
              /\ late' = Orphaned(h, s) /\ late # None
              /\ (Visits(h) /\ s = req.sid /\ kv' = Forwarded(h) /\ up' = up) \/ Expire(h, s)
         \/ \E h \in Holder : HopAbandoned(h) \/ LeftBehind(h)
<1>1. ASSUME NEW h \in Holder, Hop(h) \/ ReplyLost(h) \/ HeadLost(h)
      PROVE  \/ late' \in {late, None}
             \/ late' = Orphaned(h, req.sid) /\ Visits(h) /\ kv' = Forwarded(h) /\ up' = up
             \/ LeftBehind(h)
  BY <1>1 DEF Hop, ReplyLost, HeadLost, HopBreaks, HeadServes, Forwarding, LeftBehind
<1>2. req # None => req.sid \in Session
  BY PassFacts DEF Typed
<1> QED
  BY <1>1, <1>2
  DEF Visits, Next, Start, Proceed, Environment, Reaper, StartGreedy, StartCold, StartResume, StartWarm,
      StartSpoiled, TakeRoute, NoRoute, HopFails, Rebuild, GiveUp, NextToken, NextRound, Finish,
      FinishKeeping, FinishWarm, Crash, Reap, Rejoin, Beat, Drop, LateForward, OrchestratorLeaves,
      ClientLeaves, Expire, Orphaned

-----------------------------------------------------------------------------
(***************************************************************************)
(* Every step preserves the types.                                         *)
(***************************************************************************)
LEMMA ControlIsTyped == ASSUME Typed, Next PROVE ControlTyped'
<1>1. setting' \in Setting
  BY Frame DEF Typed, ControlTyped
<1>2. up' \subseteq Holder
  BY ControlSteps DEF Typed, ControlTyped, Crash, Rejoin
<1>3. ready' \subseteq Holder
  BY ControlSteps DEF Typed, ControlTyped, Rejoin, Beat
<1>4. free' \subseteq Session
  BY ControlSteps DEF Typed, ControlTyped
<1>5. ClientLeaves => req.sid \in Session
  BY PassFacts DEF Typed, ClientLeaves
<1>6. spare' \subseteq Session
  BY <1>5, ControlSteps DEF Typed, ControlTyped
<1> QED
  BY <1>1, <1>2, <1>3, <1>4, <1>6 DEF ControlTyped

LEMMA SharedFacts ==
  ASSUME Typed, NEW p \in setting.prompts, warm # None
  PROVE  /\ warm.sid \in Session /\ warm.prompt \in setting.prompts
         /\ warm.prompt \in Text /\ p \in Text /\ Len(p) \in Nat \ {0}
         /\ warm.len \in Nat /\ warm.len <= Len(warm.prompt)
         /\ Shared(p) \in Nat /\ Shared(p) < Len(p)
         /\ Shared(p) <= CommonLength(p, warm.prompt)
         /\ Shared(p) <= Len(warm.prompt)
<1>1. /\ warm.sid \in Session /\ warm.prompt \in setting.prompts
      /\ warm.len \in Nat /\ warm.len <= Len(warm.prompt)
  BY DEF Typed, PrefixTyped, Prefixes
<1>2. warm.prompt \in Text /\ p \in Text /\ Len(p) \in Nat \ {0}
  BY <1>1, TextFacts DEF Typed, ControlTyped
<1>3. CommonLength(p, warm.prompt) \in Nat /\ CommonLength(p, warm.prompt) <= Len(warm.prompt)
  BY <1>2, CommonIsShort DEF Typed, ControlTyped
<1>4. Len(warm.prompt) \in Nat
  BY <1>2, TextFacts DEF Typed, ControlTyped
<1> QED
  BY <1>1, <1>2, <1>3, <1>4 DEF Shared, Shorter

\* How much of a verified batch stands, and the history that leaves.
Kept ==
  IF Len(req.seq) < Len(req.prompt) THEN Len(req.batch) ELSE Accepted(req.batch)

Extended == req.seq \o SubSeq(req.batch, 1, Kept)

LEMMA RoundFacts ==
  ASSUME Typed, NEW m, NextRound(m)
  PROVE  /\ req.sid \in Session /\ req.seq \in Text /\ req.batch \in Text
         /\ Kept \in Nat /\ Kept <= Len(req.batch) /\ SubSeq(req.batch, 1, Kept) \in Text
         /\ Extended \in Text /\ Len(Extended) \in Nat
         /\ IF Len(req.seq) < Len(req.prompt) THEN kv' = kv
            ELSE kv' = TruncateKV(req.sid, Len(Extended))
         /\ req' = [req EXCEPT !.phase = "route", !.seq = Extended,
                               !.batch = <<"said">> \o Drafted(m), !.left = @ - 1]
<1>1. req.sid \in Session /\ req.seq \in Text /\ req.batch \in Text
  BY RequestFacts DEF NextRound, Typed, RequestTyped
<1>2. Kept \in Nat /\ Kept <= Len(req.batch)
  BY <1>1, AcceptedIsShort, TextFacts DEF Kept, Typed, ControlTyped
<1>3. SubSeq(req.batch, 1, Kept) \in Text
  BY <1>1, <1>2, PrefixOfText
<1>4. Extended \in Text /\ Len(Extended) \in Nat
  BY <1>1, <1>3, TextFacts DEF Extended, Typed, ControlTyped
<1>5. /\ IF Len(req.seq) < Len(req.prompt) THEN kv' = kv
         ELSE kv' = TruncateKV(req.sid, Len(Extended))
      /\ req' = [req EXCEPT !.phase = "route", !.seq = Extended,
                            !.batch = <<"said">> \o Drafted(m), !.left = @ - 1]
  BY DEF NextRound, Kept, Extended
<1> QED
  BY <1>1, <1>2, <1>3, <1>4, <1>5

LEMMA KvIsTyped == ASSUME Typed, Next PROVE KvTyped'
<1> USE DEF Typed
<1>0. kv \in KvTables /\ Cell' = Cell /\ None \in Cell /\ <<>> \in Cell /\ Text \subseteq Cell
  BY Frame, TextFacts DEF KvTyped, KvTables, Cell, ControlTyped
<1> SUFFICES kv' \in KvTables
  BY <1>0 DEF KvTyped, KvTables
<1>1. ASSUME NEW p \in setting.prompts, StartWarm(p) PROVE kv' \in KvTables
  <2>1. warm # None
    BY <1>1 DEF StartWarm, Reusable
  <2> QED
    BY <1>0, <1>1, <2>1, SharedFacts, Truncate DEF StartWarm
<1>2. ASSUME NEW p, NEW s, StartSpoiled(p, s) PROVE kv' \in KvTables
  BY <1>0, <1>2, Reset DEF StartSpoiled
<1>3. ASSUME NEW h \in Holder, Hop(h) \/ ReplyLost(h) PROVE kv' \in KvTables
  BY <1>3, Forward DEF Hop, ReplyLost
<1>4. ASSUME NEW h \in Holder, HeadLost(h) PROVE kv' \in KvTables
  BY <1>0, <1>4, Forward DEF HeadLost
<1>5. ASSUME NEW h \in Holder, HopAbandoned(h) PROVE kv' \in KvTables
  <2>1. req.sid \in Session
    BY <1>5, PassFacts DEF HopAbandoned, Visits
  <2> QED
    BY <1>0, <1>5, <2>1 DEF HopAbandoned, KvTables
<1>6. ASSUME NEW h \in Holder, Crash(h) PROVE kv' \in KvTables
  BY <1>0, <1>6 DEF Crash, KvTables
<1>7. ASSUME NEW h \in Holder, NEW s \in Session, Expire(h, s) PROVE kv' \in KvTables
  BY <1>0, <1>7 DEF Expire, KvTables
<1>8. ASSUME Rebuild \/ Finish PROVE kv' \in KvTables
  BY <1>0, <1>8, Reset DEF Rebuild, Finish, ResetSession
<1>9. ASSUME FinishWarm PROVE kv' \in KvTables
  <2>1. req.sid \in Session /\ Len(req.prompt) \in Nat
    BY <1>9, RequestFacts, TextFacts DEF FinishWarm, Over, RequestTyped, ControlTyped
  <2> QED
    BY <1>9, <2>1, Truncate, Reset DEF FinishWarm
<1>10. ASSUME LateForward PROVE kv' \in KvTables
  <2>1. /\ late.holder \in Holder /\ late.sid \in Session /\ late.feed \in Text
        /\ late.own => kv[late.holder][late.sid] # None
    BY <1>10 DEF LateForward, LateTyped, Late
  <2> DEFINE own == IF late.own THEN [kv EXCEPT ![late.holder][late.sid] = @ \o late.feed] ELSE kv
             v == IF own[late.next][late.sid] = None \/ late.pos = 0
                  THEN late.feed ELSE own[late.next][late.sid] \o late.feed
  <2>2. ASSUME late.own PROVE kv[late.holder][late.sid] \o late.feed \in Text
    <3>1. kv[late.holder][late.sid] \in Text
      BY <1>0, <2>1, <2>2 DEF KvTables, Cell
    <3> QED
      BY <2>1, <3>1, TextFacts DEF ControlTyped
  <2>3. own \in KvTables
    <3>1. CASE late.own
      <4>1. own = [kv EXCEPT ![late.holder][late.sid] = kv[late.holder][late.sid] \o late.feed]
        BY <1>0, <2>1, <3>1 DEF KvTables
      <4> QED
        BY <1>0, <2>1, <2>2, <3>1, <4>1, SetEntry
    <3> QED
      BY <1>0, <3>1
  <2> HIDE DEF own
  <2>4. ASSUME late.next \in up PROVE v \in Cell
    <3>1. late.next \in Holder
      BY <2>4 DEF ControlTyped
    <3>2. own[late.next][late.sid] \in Cell
      BY <2>1, <2>3, <3>1 DEF KvTables
    <3> QED
      BY <1>0, <2>1, <3>2, TextFacts DEF Cell, ControlTyped
  <2>5. \/ kv' = own
        \/ late.next \in up /\ kv' = [own EXCEPT ![late.next][late.sid] = v]
    <3>1. late.next \in up =>
            [own EXCEPT ![late.next][late.sid] =
               IF @ = None \/ late.pos = 0 THEN late.feed ELSE @ \o late.feed]
            = [own EXCEPT ![late.next][late.sid] = v]
      BY <2>1, <2>3 DEF KvTables, ControlTyped
    <3> QED
      BY <1>10, <3>1 DEF LateForward, own
  <2> HIDE DEF v
  <2> QED
    BY <2>1, <2>3, <2>4, <2>5, SetEntry DEF ControlTyped
<1>11. ASSUME NEW m, NextRound(m) PROVE kv' \in KvTables
  <2>1. /\ req.sid \in Session /\ Len(Extended) \in Nat
        /\ kv' = kv \/ kv' = TruncateKV(req.sid, Len(Extended))
    BY <1>11, RoundFacts
  <2> QED
    BY <1>0, <2>1, Truncate
<1> QED
  BY <1>0, <1>1, <1>2, <1>3, <1>4, <1>5, <1>6, <1>7, <1>8, <1>9, <1>10, <1>11, KvSteps

LEMMA RoutesAreTyped == ASSUME Typed, Next PROVE RoutesTyped'
<1> USE DEF Typed
<1>1. None \in Route \cup {None} /\ Route' = Route /\ RoutesTyped
  OBVIOUS
<1>2. ASSUME NEW s \in Session, ResetSession(s) PROVE RoutesTyped'
  BY <1>1, <1>2 DEF ResetSession, RoutesTyped
<1>3. ASSUME NEW p, NEW s, StartSpoiled(p, s) PROVE RoutesTyped'
  BY <1>1, <1>3 DEF StartSpoiled, RoutesTyped
<1>4. ASSUME TakeRoute PROVE RoutesTyped'
  <2>1. Answers(req.sid) \subseteq Route
    BY DEF Answers
  <2>2. CASE UNCHANGED <<route, pins>>
    BY <1>1, <2>2 DEF RoutesTyped
  <2>3. CASE \E r \in Route : /\ route' = [route EXCEPT ![req.sid] = r]
                              /\ pins' = [pins EXCEPT ![req.sid] = r]
    BY <1>1, <2>3 DEF RoutesTyped
  <2> QED
    BY <1>4, <2>1, <2>2, <2>3 DEF TakeRoute
<1>5. ASSUME Rebuild \/ Finish PROVE RoutesTyped'
  BY <1>2, <1>5, PassFacts DEF Rebuild, Finish, Over
<1>6. ASSUME FinishWarm \/ ClientLeaves PROVE RoutesTyped'
  BY <1>1, <1>6 DEF FinishWarm, ClientLeaves, RoutesTyped
<1>7. ASSUME pins' = pins, route' = [route EXCEPT ![req.sid] = None] PROVE RoutesTyped'
  BY <1>1, <1>7 DEF RoutesTyped
<1>8. ASSUME pins' = pins, OrchestratorLeaves PROVE RoutesTyped'
  BY <1>1, <1>8 DEF OrchestratorLeaves, RoutesTyped
<1>9. ASSUME UNCHANGED <<pins, route>> PROVE RoutesTyped'
  BY <1>1, <1>9 DEF RoutesTyped
<1> QED
  BY <1>3, <1>4, <1>5, <1>6, <1>7, <1>8, <1>9, RouteSteps

LEMMA SocketsAreTyped == ASSUME Typed, Next PROVE SocketsTyped'
<1> USE DEF Typed
<1>1. SocketsTyped /\ NoSockets \in [Holder -> Socket] /\ NoSockets' = NoSockets
  BY DEF NoSockets, Socket
<1>2. \A h \in Holder, v \in Socket : [conn EXCEPT ![h] = v] \in [Holder -> Socket]
  BY <1>1 DEF SocketsTyped
<1>3. "none" \in Socket /\ "open" \in Socket /\ "dead" \in Socket /\ "open" # "none" /\ "dead" # "none"
  BY DEF Socket
<1>4. ASSUME NEW h \in Holder, Hop(h) PROVE SocketsTyped'
  <2>1. CASE ~Forwarding
    BY <1>1, <1>2, <1>3, <1>4, <2>1, Connect DEF Hop
  <2>2. CASE Forwarding
    <3> DEFINE g == Named(req.stage - 1)
    <3>0. req # None /\ req.stage \in Stage /\ req.stage > 0 /\ NumStages <= 2 /\ Visits(h)
      BY <1>4, <2>2, PassFacts, SessionAssumption DEF Hop, Forwarding, Visits, ControlTyped
    <3>1. req.stage - 1 = 0 /\ g \in Holder /\ HeadServes
      <4>1. req.stage - 1 = 0
        BY <3>0, StageFacts DEF Stage
      <4> QED
        BY <1>4, <3>0, <4>1, PassFacts, StageFacts DEF Hop
    <3>2. conn[g] = "open"
      BY <2>2, <3>1 DEF HeadServes
    <3>3. fwd' = [fwd EXCEPT ![g][h] = "open"] /\ conn' = conn
      BY <1>4, <2>2 DEF Hop
    <3> HIDE DEF g
    <3>4. fwd' \in [Holder -> [Holder -> Socket]]
      BY <1>1, <1>3, <3>1, <3>3 DEF SocketsTyped
    <3>5. \A n \in Holder : n # g => fwd'[n] = fwd[n]
      BY <1>1, <3>3 DEF SocketsTyped
    <3> QED
      BY <1>1, <3>2, <3>3, <3>4, <3>5 DEF SocketsTyped
  <2> QED
    BY <2>1, <2>2
<1>5. ASSUME NEW h \in Holder, Crash(h) PROVE SocketsTyped'
  <2>1. conn' = [conn EXCEPT ![h] = IF conn[h] = "open" THEN "dead" ELSE conn[h]]
    BY <1>1, <1>5 DEF Crash, SocketsTyped
  <2>2. conn' \in [Holder -> Socket] /\ \A g \in Holder : g # h => conn'[g] = conn[g]
    BY <1>1, <1>3, <2>1 DEF SocketsTyped
  <2> DEFINE f(p) == [fwd[p] EXCEPT ![h] = IF @ = "open" THEN "dead" ELSE @]
  <2>3. \A p \in Holder : f(p) \in [Holder -> Socket] /\ (f(p) # NoSockets => fwd[p] # NoSockets)
    <3> SUFFICES ASSUME NEW p \in Holder
                 PROVE  f(p) \in [Holder -> Socket] /\ (fwd[p] = NoSockets => f(p) = NoSockets)
      OBVIOUS
    <3>1. fwd[p] \in [Holder -> Socket]
      BY <1>1 DEF SocketsTyped
    <3>2. f(p) \in [Holder -> Socket]
      BY <1>3, <3>1
    <3>3. ASSUME fwd[p] = NoSockets PROVE f(p) = NoSockets
      BY <1>1, <1>3, <3>3 DEF NoSockets
    <3> QED
      BY <3>2, <3>3
  <2>4. fwd' = [p \in Holder |-> IF p = h THEN NoSockets ELSE f(p)]
    BY <1>5 DEF Crash
  <2> HIDE DEF f
  <2>5. fwd' \in [Holder -> [Holder -> Socket]]
    BY <1>1, <2>3, <2>4
  <2>6. \A p \in Holder : fwd'[p] # NoSockets => p # h /\ fwd[p] # NoSockets
    BY <2>3, <2>4
  <2> QED
    BY <1>1, <2>2, <2>5, <2>6 DEF SocketsTyped
<1>6. ASSUME NEW h \in Holder, Drop(h) PROVE SocketsTyped'
  <2>1. CASE Connected([conn EXCEPT ![h] = "dead"])
    BY <1>1, <1>2, <1>3, <2>1, Connect
  <2>2. ASSUME NEW p \in Holder, fwd[p][h] = "open", UNCHANGED conn,
               fwd' = [fwd EXCEPT ![p][h] = "dead"]
        PROVE  SocketsTyped'
    <3>1. fwd[p] # NoSockets
      BY <1>3, <2>2 DEF NoSockets
    <3>2. fwd' \in [Holder -> [Holder -> Socket]] /\ \A n \in Holder : n # p => fwd'[n] = fwd[n]
      BY <1>1, <1>3, <2>2 DEF SocketsTyped
    <3> QED
      BY <1>1, <2>2, <3>1, <3>2 DEF SocketsTyped
  <2> QED
    BY <1>6, <2>1, <2>2 DEF Drop
<1>7. ASSUME NEW h \in Holder, Visits(h),
             Connected([conn EXCEPT ![Named(IF setting.chained THEN 0 ELSE req.stage)] = "none"])
      PROVE  SocketsTyped'
  <2>1. Named(IF setting.chained THEN 0 ELSE req.stage) \in Holder
    BY <1>7, PassFacts, StageFacts DEF Visits
  <2> QED
    BY <1>1, <1>2, <1>3, <1>7, <2>1, Connect
<1>8. ASSUME OrchestratorLeaves PROVE SocketsTyped'
  BY <1>1, <1>8, Connect DEF OrchestratorLeaves
<1>9. ASSUME UNCHANGED sockets PROVE SocketsTyped'
  BY <1>1, <1>9 DEF SocketsTyped, sockets
<1> QED
  BY <1>1, <1>4, <1>5, <1>6, <1>7, <1>8, <1>9, ForgetTyped, SocketSteps

LEMMA OrphanedFacts ==
  ASSUME Typed, NEW h \in Holder, NEW s \in Session, late # None, Orphaned(h, s) # None
  PROVE  /\ Orphaned(h, s) \in Late
         /\ Orphaned(h, s).holder = late.holder /\ Orphaned(h, s).sid = late.sid
         /\ Orphaned(h, s).next = late.next
         /\ Orphaned(h, s).own => late.own /\ (late.holder # h \/ late.sid # s)
BY DEF Typed, LateTyped, Late, Orphaned

\* Only a crash and the idle reaper take an entry out of a table.
LEMMA EntriesStay ==
  ASSUME Typed, Next, NEW g \in Holder, NEW r \in Session, kv[g][r] # None
  PROVE  \/ kv'[g][r] # None
         \/ Crash(g) \/ Expire(g, r)
<1> USE DEF Typed
<1>0. /\ kv \in KvTables /\ kv[g][r] \in Text /\ <<>> # None
      /\ \A t \in Text : t # None
  BY TextFacts DEF KvTyped, KvTables, Cell, ControlTyped
<1>1. ASSUME NEW p \in setting.prompts, StartWarm(p) PROVE kv'[g][r] # None
  <2>1. warm # None
    BY <1>1 DEF StartWarm, Reusable
  <2> QED
    BY <1>0, <1>1, <2>1, SharedFacts, Truncate DEF StartWarm
<1>2. ASSUME NEW p, NEW s, StartSpoiled(p, s) PROVE kv'[g][r] # None
  BY <1>0, <1>2, Reset DEF StartSpoiled
<1>3. ASSUME NEW h \in Holder, Hop(h) \/ ReplyLost(h) PROVE kv'[g][r] # None
  BY <1>3, Forward DEF Hop, ReplyLost
<1>4. ASSUME NEW h \in Holder, HeadLost(h) PROVE kv'[g][r] # None
  <2>1. Visits(h) /\ (kv' = kv \/ (h \in up /\ kv' = Forwarded(h)))
    BY <1>4 DEF HeadLost
  <2> QED
    BY <1>0, <2>1, Forward
<1>5. ASSUME NEW h \in Holder, HopAbandoned(h) PROVE kv'[g][r] # None
  <2>1. req.sid \in Session
    BY <1>5, PassFacts DEF HopAbandoned, Visits
  <2> QED
    BY <1>0, <1>5, <2>1 DEF HopAbandoned, KvTables
<1>6. ASSUME NEW h \in Holder, Crash(h) PROVE kv'[g][r] # None \/ Crash(g)
  BY <1>0, <1>6 DEF Crash, KvTables
<1>7. ASSUME NEW h \in Holder, NEW s \in Session, Expire(h, s)
      PROVE  kv'[g][r] # None \/ Expire(g, r)
  BY <1>0, <1>7 DEF Expire, KvTables
<1>8. ASSUME Rebuild \/ Finish PROVE kv'[g][r] # None
  BY <1>0, <1>8, Reset DEF Rebuild, Finish, ResetSession
<1>9. ASSUME FinishWarm PROVE kv'[g][r] # None
  <2>1. req.sid \in Session /\ Len(req.prompt) \in Nat
    BY <1>9, RequestFacts, TextFacts DEF FinishWarm, Over, RequestTyped, ControlTyped
  <2>2. /\ TruncateKV(req.sid, Len(req.prompt)) \in KvTables
        /\ TruncateKV(req.sid, Len(req.prompt))[g][r] # None
    BY <1>0, <2>1, Truncate
  <2> QED
    BY <1>9, <2>2, Reset DEF FinishWarm
<1>10. ASSUME LateForward PROVE kv'[g][r] # None
  <2>1. /\ late.holder \in Holder /\ late.sid \in Session /\ late.feed \in Text
        /\ late.own => kv[late.holder][late.sid] # None
    BY <1>10 DEF LateForward, LateTyped, Late
  <2> DEFINE own == IF late.own THEN [kv EXCEPT ![late.holder][late.sid] = @ \o late.feed] ELSE kv
  <2>2. \A h \in Holder, s \in Session : kv[h][s] # None => kv[h][s] \in Text
    BY <1>0 DEF KvTables, Cell
  <2>3. own[g][r] \in Text
    <3>1. own[g][r] = IF late.own /\ late.holder = g /\ late.sid = r
                      THEN kv[g][r] \o late.feed ELSE kv[g][r]
      BY <1>0, <2>1 DEF KvTables
    <3> QED
      BY <1>0, <2>1, <3>1, TextFacts DEF ControlTyped
  <2>4. DOMAIN own = Holder /\ DOMAIN own[g] = Session
    BY <1>0, <2>1 DEF KvTables
  <2>5. \/ kv' = own
        \/ kv' = [own EXCEPT ![late.next][late.sid] =
                     IF @ = None \/ late.pos = 0 THEN late.feed ELSE @ \o late.feed]
    BY <1>10 DEF LateForward
  <2> HIDE DEF own
  <2>6. kv'[g][r] \in {own[g][r], late.feed, own[g][r] \o late.feed}
    <3>1. CASE kv' = own
      BY <3>1
    <3>2. CASE kv' = [own EXCEPT ![late.next][late.sid] =
                        IF @ = None \/ late.pos = 0 THEN late.feed ELSE @ \o late.feed]
      BY <2>4, <3>2
    <3> QED
      BY <2>5, <3>1, <3>2
  <2> QED
    BY <1>0, <2>1, <2>3, <2>6, TextFacts DEF ControlTyped
<1>11. ASSUME NEW m, NextRound(m) PROVE kv'[g][r] # None
  <2>1. /\ req.sid \in Session /\ Len(Extended) \in Nat
        /\ kv' = kv \/ kv' = TruncateKV(req.sid, Len(Extended))
    BY <1>11, RoundFacts
  <2> QED
    BY <1>0, <2>1, Truncate
<1> QED
  BY <1>0, <1>1, <1>2, <1>3, <1>4, <1>5, <1>6, <1>7, <1>8, <1>9, <1>10, <1>11, KvSteps

LEMMA LateIsTyped == ASSUME Typed, Next PROVE LateTyped'
<1> USE DEF Typed
<1>0. Late' = Late
  BY Frame DEF Late
<1>1. ASSUME late # None PROVE late.holder \in Holder /\ late.sid \in Session /\ late.holder \in up
  BY <1>1 DEF LateTyped, Late
<1>2. CASE late' = None
  BY <1>2 DEF LateTyped
<1>3. CASE late' = late /\ late # None
  <2>1. late.holder \in up'
    BY <1>1, <1>3, ControlSteps DEF Crash, Rejoin
  <2>2. ASSUME late.own PROVE kv'[late.holder][late.sid] # None
    <3>1. ~Crash(late.holder)
      BY <1>3 DEF Crash
    <3>2. ~Expire(late.holder, late.sid)
      BY <1>1, <1>3, <2>2, OrphanedFacts DEF Expire
    <3> QED
      BY <1>1, <1>3, <2>2, <3>1, <3>2, EntriesStay DEF LateTyped
  <2> QED
    BY <1>0, <1>3, <2>1, <2>2 DEF LateTyped
<1>4. ASSUME NEW h \in Holder, NEW s \in Session, late' = Orphaned(h, s), late # None, late' # None,
             (Visits(h) /\ s = req.sid /\ kv' = Forwarded(h) /\ up' = up) \/ Expire(h, s)
      PROVE  LateTyped'
  <2>1. late.holder \in up'
    BY <1>1, <1>4 DEF Expire
  <2>2. ASSUME late'.own PROVE kv'[late.holder][late.sid] # None
    <3>1. late.own /\ (late.holder # h \/ late.sid # s)
      BY <1>4, <2>2, OrphanedFacts
    <3>2. kv[late.holder][late.sid] # None
      BY <1>4, <3>1 DEF LateTyped
    <3>3. CASE Visits(h) /\ kv' = Forwarded(h)
      BY <1>1, <1>4, <3>2, <3>3, Forward
    <3>4. CASE Expire(h, s)
      <4>1. ~Crash(late.holder)
        BY <3>4, <1>4 DEF Expire, Crash
      <4>2. kv'[late.holder][late.sid] = kv[late.holder][late.sid]
        BY <1>1, <1>4, <3>1, <3>4 DEF Expire, KvTyped
      <4> QED
        BY <3>2, <4>2
    <3> QED
      BY <1>4, <3>3, <3>4
  <2> QED
    BY <1>0, <1>4, <2>1, <2>2, OrphanedFacts DEF LateTyped
<1>5. ASSUME NEW h \in Holder, HopAbandoned(h) PROVE LateTyped'
  <2>1. /\ Feed \in Text /\ Pos \in Nat /\ req.sid \in Session /\ h \in up
        /\ req.stage \in Stage /\ \A k \in Stage : Named(k) \in Holder
    BY <1>5, PassFacts DEF HopAbandoned, Visits, Reachable, NextHop
  <2>2. req.stage + 1 < NumStages => Named(req.stage + 1) \in Holder
    BY <2>1, StageFacts DEF Stage
  <2>3. late' \in Late /\ late'.holder = h /\ late'.sid = req.sid
    BY <1>5, <2>1, <2>2 DEF HopAbandoned, GoesOn, Late
  <2>4. kv' = [kv EXCEPT ![h][req.sid] = IF StartsAfresh(h) THEN <<>> ELSE @] /\ up' = up
    BY <1>5 DEF HopAbandoned, HopBreaks
  <2>5. kv'[h][req.sid] # None
    BY <2>1, <2>4, TextFacts DEF KvTyped, StartsAfresh, ControlTyped
  <2> QED
    BY <1>0, <2>1, <2>3, <2>4, <2>5 DEF LateTyped
<1>6. ASSUME NEW h \in Holder, LeftBehind(h) PROVE LateTyped'
  <2>1. Feed \in Text /\ Pos \in Nat /\ req.sid \in Session /\ Named(0) \in Holder
    BY <1>6, PassFacts, StageFacts DEF LeftBehind, Visits
  <2>2. late' \in Late /\ late'.holder = Named(0) /\ ~late'.own
    BY <1>6, <2>1 DEF LeftBehind, GoesOn, Late
  <2> QED
    BY <1>0, <1>6, <2>2 DEF LateTyped, LeftBehind
<1> QED
  BY <1>2, <1>3, <1>4, <1>5, <1>6, LateSteps

LEMMA PrefixSteps ==
  ASSUME Next
  PROVE  /\ \/ warm' \in {warm, None}
            \/ \E p \in setting.prompts : StartWarm(p)
            \/ FinishWarm
         /\ \/ blob' \in {blob, None}
            \/ FinishKeeping
BY DEF Next, Start, Proceed, Environment, Reaper, StartGreedy, StartCold, StartSpoiled,
     StartWarm, StartResume, TakeRoute, NoRoute, Hop, HopFails, ReplyLost, HeadLost, HopAbandoned,
     HopBreaks, Rebuild, GiveUp, NextToken, NextRound, Finish, FinishKeeping, FinishWarm,
     Crash, Reap, Rejoin, Beat, Drop, LateForward, OrchestratorLeaves, ClientLeaves, Expire, prefixes

LEMMA PrefixesAreTyped == ASSUME Typed, Next PROVE PrefixTyped'
<1> USE DEF Typed
<1>1. Prefixes(setting)' = Prefixes(setting) /\ Text' = Text
  BY Frame DEF Prefixes
<1>2. ASSUME warm' # None PROVE warm' \in Prefixes(setting) /\ warm'.len <= Len(warm'.prompt)
  <2>1. ASSUME NEW p \in setting.prompts, StartWarm(p)
        PROVE  warm' \in Prefixes(setting) /\ warm'.len <= Len(warm'.prompt)
    <3>1. warm # None /\ warm' = [warm EXCEPT !.len = Shared(p)]
      BY <2>1 DEF StartWarm, Reusable
    <3>2. Shared(p) \in Nat /\ Shared(p) <= Len(warm.prompt)
      BY <3>1, SharedFacts
    <3> QED
      BY <3>1, <3>2 DEF PrefixTyped, Prefixes
  <2>2. ASSUME FinishWarm
        PROVE  warm' \in Prefixes(setting) /\ warm'.len <= Len(warm'.prompt)
    <3>1. req.sid \in Session /\ req.prompt \in setting.prompts
      BY <2>2, RequestFacts DEF FinishWarm, Over, RequestTyped
    <3>2. Len(req.prompt) \in Nat
      BY <3>1, TextFacts DEF ControlTyped
    <3> QED
      BY <2>2, <3>1, <3>2 DEF FinishWarm, Prefixes
  <2> QED
    BY <1>2, <2>1, <2>2, PrefixSteps DEF PrefixTyped
<1>3. ASSUME blob' # None PROVE blob' \in [sid : Session, seq : Text]
  <2>1. ASSUME FinishKeeping PROVE blob' \in [sid : Session, seq : Text]
    <3>1. req.sid \in Session /\ req.seq \o req.batch \in Text
      BY <2>1, RequestFacts, TextFacts DEF FinishKeeping, Over, RequestTyped, ControlTyped
    <3> QED
      BY <1>3, <2>1, <3>1 DEF FinishKeeping, PrefixTyped
  <2> QED
    BY <1>3, <2>1, PrefixSteps DEF PrefixTyped
<1> QED
  BY <1>1, <1>2, <1>3 DEF PrefixTyped

\* The steps that end a request.
Ends == Finish \/ FinishKeeping \/ FinishWarm \/ ClientLeaves \/ OrchestratorLeaves

LEMMA RequestSteps ==
  ASSUME Next
  PROVE  \/ Ends /\ req' = None
         \/ UNCHANGED <<req, route>>
         \/ Start
         \/ TakeRoute \/ Rebuild \/ NextToken \/ \E m \in 0 .. DraftLen : NextRound(m)
         \/ \E h \in Holder : Hop(h)
         \/ /\ req # None
            /\ req' \in {[req EXCEPT !.phase = "failed"], [req EXCEPT !.phase = "raised"]}
BY DEF Next, Proceed, Environment, Reaper, NoRoute, GiveUp, HopFails, ReplyLost, HeadLost,
     HopAbandoned, HopBreaks, Visits, Ends, Finish, FinishKeeping, FinishWarm, Crash, Reap, Rejoin,
     Beat, Drop, LateForward, OrchestratorLeaves, ClientLeaves, Expire

LEMMA BeginTyped ==
  ASSUME Typed, NEW kind \in setting.kinds, NEW p \in setting.prompts \cup {<<>>},
         NEW s \in Session, NEW t \in Text, NEW b \in Text, Begin(kind, p, s, t, b),
         setting' = setting, kind # "resume" => p \in setting.prompts
  PROVE  RequestTyped'
<1>1. /\ 0 \in 0 .. MaxFailovers /\ setting.maxNew \in 0 .. setting.maxNew /\ 0 \in Stage
      /\ "route" \in Phase /\ FALSE \in BOOLEAN
  BY SessionAssumption, StageFacts DEF Typed, ControlTyped, Phase
<1>2. req' \in Requests(setting)
  BY <1>1 DEF Begin, Requests, Text, Token
<1> QED
  BY <1>2 DEF Begin, RequestTyped, Requests

LEMMA StartTyped == ASSUME Typed, Next, Start PROVE RequestTyped'
<1> USE DEF Typed
<1>0. /\ setting' = setting
      /\ setting.prompts \subseteq Text /\ <<>> \in Text /\ <<"said">> \in Text
  BY Frame, TextFacts DEF ControlTyped
<1>1. ASSUME NEW p \in setting.prompts, NEW s \in Session, NEW k \in setting.kinds, StartGreedy(k, p, s)
      PROVE  RequestTyped'
  BY <1>0, <1>1, BeginTyped DEF StartGreedy
<1>2. ASSUME NEW p \in setting.prompts, NEW s \in Session, StartCold(p, s) \/ StartSpoiled(p, s)
      PROVE  RequestTyped'
  BY <1>0, <1>2, BeginTyped DEF StartCold, StartSpoiled
<1>3. ASSUME NEW p \in setting.prompts, StartWarm(p) PROVE RequestTyped'
  <2>1. warm # None
    BY <1>3 DEF StartWarm, Reusable
  <2>2. SubSeq(p, 1, Shared(p)) \in Text /\ SubSeq(p, Shared(p) + 1, Len(p)) \in Text
    BY <2>1, SharedFacts, PrefixOfText, SuffixOfText
  <2> QED
    BY <1>0, <1>3, <2>1, <2>2, SharedFacts, BeginTyped DEF StartWarm
<1>4. ASSUME StartResume PROVE RequestTyped'
  BY <1>0, <1>4, BeginTyped DEF StartResume, PrefixTyped
<1> QED
  BY <1>1, <1>2, <1>3, <1>4 DEF Start

LEMMA AfterHopTyped ==
  ASSUME Typed, req # None
  PROVE  /\ AfterHop \in Requests(setting)
         /\ AfterHop.sid = req.sid /\ AfterHop.kind = req.kind /\ AfterHop.prompt = req.prompt
<1>1. req \in Requests(setting)
  BY DEF Typed, RequestTyped
<1>2. req.stage + 1 < NumStages => req.stage + 1 \in Stage
  BY <1>1, SessionAssumption DEF Requests, Stage
<1>3. "route" \in Phase /\ "decide" \in Phase /\ FALSE \in BOOLEAN
  BY DEF Phase
<1> QED
  BY <1>1, <1>2, <1>3 DEF Requests, AfterHop

\* A request under way stays one, until it ends.
LEMMA RequestGoesOn ==
  ASSUME Typed, Next, req # None, ~Ends
  PROVE  /\ req' \in Requests(setting)
         /\ req'.sid = req.sid /\ req'.kind = req.kind /\ req'.prompt = req.prompt
         /\ req'.phase = "hop" => (req.phase = "hop" /\ route' = route) \/ TakeRoute
<1> USE DEF Typed
<1> DEFINE Goal ==
      /\ req' \in Requests(setting)
      /\ req'.sid = req.sid /\ req'.kind = req.kind /\ req'.prompt = req.prompt
      /\ req'.phase = "hop" => (req.phase = "hop" /\ route' = route) \/ TakeRoute
<1>1. req \in Requests(setting)
  BY DEF RequestTyped
<1>2. ~Start
  BY DEF Start, StartGreedy, StartCold, StartSpoiled, StartWarm, StartResume
<1>3. ASSUME TakeRoute PROVE Goal
  <2>1. req # None /\ req' = [req EXCEPT !.phase = "hop", !.stage = 0] /\ "hop" \in Phase
    BY <1>3 DEF TakeRoute, Phase
  <2> QED
    BY <1>1, <1>3, <2>1, StageFacts DEF Requests
<1>4. ASSUME Rebuild PROVE Goal
  <2>1. /\ req # None /\ req.attempt < MaxFailovers
        /\ req' = [req EXCEPT !.phase = "route", !.attempt = @ + 1, !.rebuilding = req.seq # <<>>]
    BY <1>4 DEF Rebuild
  <2>2. req.attempt + 1 \in 0 .. MaxFailovers /\ "route" \in Phase
    BY <1>1, <2>1, SessionAssumption DEF Requests, Phase
  <2> QED
    BY <1>1, <2>1, <2>2 DEF Requests
<1>5. ASSUME NextToken PROVE Goal
  <2>1. /\ req # None /\ req.left > 0
        /\ req' = [req EXCEPT !.phase = "route", !.seq = @ \o req.batch, !.batch = <<"said">>,
                              !.attempt = 0, !.left = @ - 1]
    BY <1>5 DEF NextToken
  <2>2. req.left - 1 \in 0 .. setting.maxNew /\ 0 \in 0 .. MaxFailovers /\ "route" \in Phase
    BY <1>1, <2>1, SessionAssumption DEF Requests, Phase, ControlTyped
  <2>3. req.seq \o req.batch \in Text /\ <<"said">> \in Text
    BY <1>1, <2>1, RequestFacts, TextFacts DEF ControlTyped
  <2> QED
    BY <1>1, <2>1, <2>2, <2>3 DEF Requests, Text, Token
<1>6. ASSUME NEW m, NextRound(m) PROVE Goal
  <2>1. /\ req # None /\ req.left > 0 /\ Extended \in Text
        /\ req' = [req EXCEPT !.phase = "route", !.seq = Extended,
                              !.batch = <<"said">> \o Drafted(m), !.left = @ - 1]
    BY <1>6, RoundFacts DEF NextRound
  <2>2. req.left - 1 \in 0 .. setting.maxNew /\ "route" \in Phase
    BY <1>1, <2>1, SessionAssumption DEF Requests, Phase, ControlTyped
  <2>3. <<"said">> \o Drafted(m) \in Text
    BY DraftedIsText, TextFacts DEF ControlTyped
  <2> HIDE DEF Extended
  <2> QED
    BY <1>1, <2>1, <2>2, <2>3 DEF Requests, Text, Token
<1>7. ASSUME NEW h \in Holder, Hop(h) PROVE Goal
  BY <1>1, <1>7, AfterHopTyped DEF Hop, Visits
<1>8. ASSUME req # None,
             req' \in {[req EXCEPT !.phase = "failed"], [req EXCEPT !.phase = "raised"]}
      PROVE  Goal
  <2>1. "failed" \in Phase /\ "raised" \in Phase
    BY DEF Phase
  <2> QED
    BY <1>1, <1>8, <2>1 DEF Requests
<1>9. ASSUME UNCHANGED <<req, route>> PROVE Goal
  BY <1>1, <1>9
<1> QED
  BY <1>2, <1>3, <1>4, <1>5, <1>6, <1>7, <1>8, <1>9, RequestSteps

LEMMA RequestIsTyped == ASSUME Typed, Next PROVE RequestTyped'
<1> USE DEF Typed
<1>1. Requests(setting)' = Requests(setting) /\ Route' = Route /\ setting' = setting
  BY Frame DEF Requests, Text
<1>2. CASE req = None
  <2>1. Start \/ req' = None
    BY <1>2, RequestSteps DEF TakeRoute, Rebuild, NextToken, NextRound, Hop, Visits
  <2> QED
    BY <2>1, StartTyped DEF RequestTyped
<1>3. CASE req # None /\ ~Ends
  <2>1. req.kind # "resume" => req.prompt \in setting.prompts
    BY <1>3 DEF RequestTyped
  <2>2. ASSUME TakeRoute PROVE route'[req.sid] \in Route
    <3>1. Answers(req.sid) \subseteq Route /\ req.sid \in Session
      BY <1>3, PassFacts DEF Answers
    <3> QED
      BY <2>2, <3>1 DEF TakeRoute, RoutesTyped
  <2>3. req'.phase = "hop" => route'[req'.sid] \in Route
    BY <1>3, <2>2, RequestGoesOn DEF RequestTyped
  <2> QED
    BY <1>1, <1>3, <2>1, <2>3, RequestGoesOn DEF RequestTyped
<1>4. CASE Ends
  <2>1. req' = None
    BY <1>4 DEF Ends, Finish, FinishKeeping, FinishWarm, ClientLeaves, OrchestratorLeaves
  <2> QED
    BY <2>1 DEF RequestTyped
<1> QED
  BY <1>2, <1>3, <1>4

LEMMA InitTyped == Init => Typed
<1> SUFFICES ASSUME Init PROVE Typed
  OBVIOUS
<1>1. ControlTyped /\ KvTyped /\ RoutesTyped /\ LateTyped /\ PrefixTyped /\ RequestTyped
  BY DEF Init, ControlTyped, KvTyped, RoutesTyped, LateTyped, PrefixTyped, RequestTyped, Cell
<1>2. SocketsTyped
  BY DEF Init, SocketsTyped, NoSockets, Socket
<1> QED
  BY <1>1, <1>2 DEF Typed

LEMMA NextTyped == ASSUME Typed, [Next]_vars PROVE Typed'
<1>1. CASE Next
  BY <1>1, ControlIsTyped, KvIsTyped, RoutesAreTyped, SocketsAreTyped, LateIsTyped,
     PrefixesAreTyped, RequestIsTyped DEF Typed
<1>2. CASE UNCHANGED vars
  <2>1. Text' = Text /\ Cell' = Cell /\ Late' = Late /\ Route' = Route
    BY <1>2 DEF vars, Text, Token, Cell, Late
  <2>2. ControlTyped' /\ KvTyped' /\ RoutesTyped' /\ LateTyped' /\ PrefixTyped' /\ RequestTyped'
    BY <1>2, <2>1 DEF vars, Typed, ControlTyped, KvTyped, RoutesTyped, LateTyped, PrefixTyped, RequestTyped
  <2>3. SocketsTyped'
    BY <1>2 DEF vars, Typed, SocketsTyped, NoSockets
  <2> QED
    BY <2>2, <2>3 DEF Typed
<1> QED
  BY <1>1, <1>2

LEMMA AlwaysTyped == Spec => []Typed
BY InitTyped, NextTyped, PTL DEF Spec

\* Every variable stays in its range, and sockets, late forwards and the warm
\* prefix agree with what they depend on.
THEOREM TypeCorrect == Spec => []TypeOK
<1>1. Typed => TypeOK
  BY DEF Typed, TypeOK, ControlTyped, KvTyped, RoutesTyped, SocketsTyped, LateTyped, PrefixTyped,
     RequestTyped, Socket, Cell, Text
<1> QED
  BY <1>1, AlwaysTyped, PTL

-----------------------------------------------------------------------------
(***************************************************************************)
(* Ended sessions hold no load.  Where nothing is kept there is no resume  *)
(* state either, and then the property is inductive.                       *)
(***************************************************************************)
NothingKept ==
  "keep" \notin setting.kinds =>
    blob = None /\ (req # None => req.kind \in {"greedy", "draft"})

LEMMA NothingIsKept == ASSUME Typed, NothingKept, Next PROVE NothingKept'
<1> SUFFICES ASSUME "keep" \notin setting.kinds
             PROVE  blob' = None /\ (req' # None => req'.kind \in {"greedy", "draft"})
  BY Frame DEF NothingKept
<1>1. blob' = None
  BY PrefixSteps DEF NothingKept, FinishKeeping, Over
<1>2. ASSUME Start, req' # None PROVE req'.kind \in {"greedy", "draft"}
  BY <1>2 DEF NothingKept, Start, StartGreedy, StartCold, StartSpoiled, StartWarm, StartResume, Begin
<1>3. ASSUME ~Start, req' # None PROVE req # None /\ ~Ends
  BY <1>3, RequestSteps
  DEF TakeRoute, Rebuild, NextToken, NextRound, Hop, Visits, Ends, Finish, FinishKeeping,
      FinishWarm, ClientLeaves, OrchestratorLeaves
<1> QED
  BY <1>1, <1>2, <1>3, RequestGoesOn DEF NothingKept

\* The request, the warm prompt and the default connection's hold on s last
\* until a step that ends a request or gives a prompt up.
LEMMA HoldsStay ==
  ASSUME Typed, Next, NEW s, ~Ends, ~\E p, r : StartSpoiled(p, r)
  PROVE  /\ Serving(s) => Serving(s)'
         /\ warm # None /\ warm.sid = s => warm' # None /\ warm'.sid = s
         /\ spare' = spare
<1>1. Serving(s) => Serving(s)'
  BY RequestGoesOn, RequestFacts DEF Serving, Typed
<1>2. ASSUME warm # None PROVE warm' # None /\ warm'.sid = warm.sid
  <2>1. ASSUME NEW p \in setting.prompts, StartWarm(p) PROVE warm' # None /\ warm'.sid = warm.sid
    <3>1. Shared(p) \in Nat /\ warm' = [warm EXCEPT !.len = Shared(p)]
      BY <1>2, <2>1, SharedFacts DEF StartWarm
    <3>2. warm' \in Prefixes(setting) /\ warm'.sid = warm.sid
      BY <1>2, <3>1 DEF Typed, PrefixTyped, Prefixes
    <3> QED
      BY <3>2, SessionAssumption DEF Typed, ControlTyped
  <2>2. warm' = warm \/ \E p \in setting.prompts : StartWarm(p)
    BY DEF Next, Start, Proceed, Environment, Reaper, Ends, StartGreedy, StartCold, StartResume,
       TakeRoute, NoRoute, Hop, HopFails, ReplyLost, HeadLost, HopAbandoned, HopBreaks, Rebuild,
       GiveUp, NextToken, NextRound, Crash, Reap, Rejoin, Beat, Drop, LateForward, Expire, prefixes
  <2> QED
    BY <1>2, <2>1, <2>2
<1>3. spare' = spare
  BY DEF Next, Start, Proceed, Environment, Reaper, Ends, StartGreedy, StartCold, StartResume,
     StartWarm, TakeRoute, NoRoute, Hop, HopFails, ReplyLost, HeadLost, HopAbandoned, HopBreaks,
     Rebuild, GiveUp, NextToken, NextRound, Crash, Reap, Rejoin, Beat, Drop, LateForward, Expire,
     prefixes
<1> QED
  BY <1>1, <1>2, <1>3

LEMMA RoutesStayReleased ==
  ASSUME Typed, NothingKept, RoutesAreReleased, Next PROVE RoutesAreReleased'
<1> SUFFICES ASSUME "keep" \notin setting.kinds, setting.faults \cap {"die", "replace"} = {},
                    NEW s \in Session, pins'[s] # None
             PROVE  Serving(s)' \/ (warm' # None /\ warm'.sid = s) \/ s \in spare'
  BY Frame DEF RoutesAreReleased
<1> DEFINE Held == Serving(s) \/ (warm # None /\ warm.sid = s) \/ s \in spare
<1>1. pins[s] # None => Held
  BY DEF RoutesAreReleased, NothingKept
<1>2. ~OrchestratorLeaves /\ ~FinishKeeping
  BY DEF NothingKept, OrchestratorLeaves, FinishKeeping, Over
<1>3. pins \in [Session -> Route \cup {None}]
  BY DEF Typed, RoutesTyped
<1>4. CASE Finish
  <2>1. pins'[req.sid] = None \/ s # req.sid
    BY <1>3, <1>4 DEF Finish, ResetSession
  <2>2. pins[s] # None /\ ~Serving(s)
    BY <1>3, <1>4, <2>1 DEF Finish, ResetSession, Serving
  <2> QED
    BY <1>1, <1>4, <2>2 DEF Finish, prefixes
<1>5. CASE FinishWarm
  <2>1. warm' \in Prefixes(setting) /\ warm'.sid = req.sid
    <3>1. req.sid \in Session /\ req.prompt \in setting.prompts /\ Len(req.prompt) \in Nat
      BY <1>5, RequestFacts, TextFacts
      DEF FinishWarm, Over, Typed, RequestTyped, ControlTyped
    <3> QED
      BY <1>5, <3>1 DEF FinishWarm, Prefixes
  <2>2. warm' # None
    BY <2>1, SessionAssumption DEF Typed, ControlTyped
  <2>3. pins[s] # None /\ (warm # None /\ warm.sid = s => s = req.sid)
    BY <1>3, <1>5 DEF FinishWarm
  <2> QED
    BY <1>1, <1>5, <2>1, <2>2, <2>3 DEF FinishWarm, Serving
<1>6. CASE ClientLeaves
  <2>1. pins[s] # None
    BY <1>3, <1>6 DEF ClientLeaves
  <2>2. warm' = warm
    BY <1>6 DEF ClientLeaves
  <2>3. CASE req.kind = "greedy"
    BY <1>1, <1>3, <1>6, <2>1, <2>2, <2>3 DEF ClientLeaves, Serving
  <2>4. CASE req.kind = "draft"
    BY <1>1, <1>3, <1>6, <2>1, <2>2, <2>4 DEF ClientLeaves, Serving
  <2> QED
    BY <1>6, <2>3, <2>4 DEF ClientLeaves
<1>7. ASSUME NEW p, NEW r, StartSpoiled(p, r)
      PROVE  Serving(s)' \/ (warm' # None /\ warm'.sid = s) \/ s \in spare'
  <2>1. req = None /\ spare' = spare /\ pins' = [pins EXCEPT ![warm.sid] = None]
    BY <1>7 DEF StartSpoiled
  <2>2. pins[s] # None /\ s # warm.sid
    BY <1>3, <2>1
  <2> QED
    BY <1>1, <2>1, <2>2 DEF Serving
<1>8. CASE ~Ends /\ ~\E p, r : StartSpoiled(p, r)
  <2>1. pins[s] # None \/ Serving(s)
    <3>1. CASE TakeRoute \/ Rebuild
      <4>1. req # None /\ \A r \in Session : r # req.sid => pins'[r] = pins[r]
        BY <1>3, <3>1 DEF TakeRoute, Rebuild, ResetSession
      <4> QED
        BY <4>1 DEF Serving
    <3>2. CASE pins' = pins
      BY <3>2
    <3> QED
      BY <1>8, <3>1, <3>2, RouteSteps DEF Ends
  <2> QED
    BY <1>1, <1>8, <2>1, HoldsStay
<1> QED
  BY <1>2, <1>4, <1>5, <1>6, <1>7, <1>8 DEF Ends

RoutesInv == Typed /\ NothingKept /\ RoutesAreReleased

\* The load of a session is freed when it ends, however it ends
\* (coordinator.py:530-541, 634-660).
THEOREM RoutesCorrect == Spec => []RoutesAreReleased
<1>1. Init => RoutesInv
  <2>1. Init => NothingKept /\ RoutesAreReleased
    BY DEF Init, NothingKept, RoutesAreReleased
  <2> QED
    BY <2>1, InitTyped DEF RoutesInv
<1>2. RoutesInv /\ [Next]_vars => RoutesInv'
  <2>1. ASSUME RoutesInv, UNCHANGED vars PROVE NothingKept' /\ RoutesAreReleased'
    BY <2>1 DEF RoutesInv, NothingKept, RoutesAreReleased, Serving, vars
  <2> QED
    BY <2>1, NextTyped, NothingIsKept, RoutesStayReleased DEF RoutesInv
<1>3. RoutesInv => RoutesAreReleased
  BY DEF RoutesInv
<1> QED
  BY <1>1, <1>2, <1>3, PTL DEF Spec

=============================================================================
