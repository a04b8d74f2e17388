------------------------ MODULE PipelineExactProofs ------------------------
(***************************************************************************)
(* Every pass that gets through was computed on the whole history, for     *)
(* every pipeline of holders, every set of sessions and every setting.     *)
(* The first half is about greedy passes, the second about reuse: while    *)
(* nobody dies, speculative passes on warm and cold sessions and resumed   *)
(* sessions are computed on the whole history.                             *)
(***************************************************************************)
EXTENDS PipelineSessionProofs

-----------------------------------------------------------------------------
(***************************************************************************)
(* The coordinator relies on the KV of a stage once the pass has been      *)
(* there, and before if the pass continues a history.  What it must find   *)
(* is the history, with the batch where the pass has been.                 *)
(***************************************************************************)
Fed == IF Pos = 0 THEN Feed ELSE req.seq \o req.batch

Behind(k) == req.phase = "decide" \/ (req.phase = "hop" /\ k < req.stage)

Relied(k) == req.phase \in {"route", "hop", "decide"} /\ (Pos > 0 \/ Behind(k))

Expected(k) == IF Behind(k) THEN Fed ELSE req.seq

Decided == req # None /\ req.phase = "decide" => ~req.rebuilding

Greedy == req # None /\ req.kind \in {"greedy", "keep"}

\* A socket on the way to stage k has died: the pass will fail there.
Cut(k) == Link(k) = "dead" \/ (setting.chained /\ conn[Named(0)] = "dead")

Joined(k) == Link(k) = "open" /\ (setting.chained => conn[Named(0)] = "open")

\* A forward nobody waits for will end in the KV of stage k.
Lurks(k) == late # None /\ late.sid = req.sid /\ late.holder = Named(k)

InPlace(k) ==
  \/ Cut(k)
  \/ Joined(k) /\ kv[Named(k)][req.sid] = Expected(k) /\ ~Lurks(k)

GreedyInPlace ==
  Greedy => \A k \in Stage : Relied(k) => route[req.sid] \in Route /\ InPlace(k)

\* Only abandoned hops leave forwards behind, and in a star those end there.
LateIsFault ==
  late # None => /\ setting.faults \cap {"late", "drop"} # {}
                 /\ ~setting.chained => late.next = None

GreedyInv == Typed /\ Decided /\ LateIsFault /\ GreedyInPlace

\* In a chain a forward may go on to the next holder without its coordinator:
\* holders hang, or the coordinator loses its socket to a head that lives.
Deserted == setting.chained /\ setting.faults \cap {"late", "drop"} # {}

\* In no mesh do they.
NoForwardOutlives == \A w \in Setting : ~(w.chained /\ w.faults \cap {"late", "drop"} # {})

-----------------------------------------------------------------------------
LEMMA FedFacts ==
  ASSUME Typed, req # None
  PROVE  /\ req.seq \in Text /\ req.batch \in Text /\ Fed \in Text
         /\ Pos \in Nat
         /\ ~req.rebuilding => Fed = req.seq \o req.batch
         /\ req.rebuilding => Fed = req.seq /\ Pos = 0
         /\ req.seq # None
         /\ Pos > 0 => ~req.rebuilding /\ Feed = req.batch
<1>1. req.seq \in Text /\ req.batch \in Text /\ req.rebuilding \in BOOLEAN
  BY RequestFacts DEF Typed, RequestTyped
<1>2. Pos \in Nat /\ (Pos = 0 /\ ~req.rebuilding => req.seq = <<>>)
  BY <1>1, TextFacts DEF Pos, Typed, ControlTyped
<1>3. req.seq \o req.batch \in Text /\ <<>> \o req.batch = req.batch /\ req.seq # None
  BY <1>1, TextFacts DEF Typed, ControlTyped
<1>4. req.rebuilding => Pos = 0
  BY DEF Pos
<1>5. ASSUME ~req.rebuilding PROVE Fed = req.seq \o req.batch /\ Feed = req.batch
  <2>1. Feed = req.batch
    BY <1>5 DEF Feed
  <2> QED
    BY <1>2, <1>3, <1>5, <2>1 DEF Fed
<1>6. ASSUME req.rebuilding PROVE Fed = req.seq
  BY <1>4, <1>6 DEF Fed, Feed
<1>7. ASSUME Pos > 0 PROVE ~req.rebuilding /\ Feed = req.batch
  <2>1. Pos # 0
    BY <1>2, <1>7
  <2>2. ~req.rebuilding
    BY <1>4, <2>1
  <2> QED
    BY <1>5, <2>2
<1>8. Fed \in Text
  BY <1>1, <1>3, <1>5, <1>6
<1> QED
  BY <1>1, <1>2, <1>3, <1>4, <1>5, <1>6, <1>7, <1>8

LEMMA NamedFacts ==
  ASSUME Typed, req # None, route[req.sid] \in Route
  PROVE  \A k \in Stage : /\ Named(k) \in Holder
                          /\ \A j \in Stage : Named(k) = Named(j) => k = j
BY RouteFacts DEF Named

LEMMA DecidedStays == ASSUME Typed, Decided, Next PROVE Decided'
<1>1. ASSUME Start PROVE req' # None => req'.phase = "route"
  BY <1>1 DEF Start, StartGreedy, StartCold, StartSpoiled, StartWarm, StartResume, Begin
<1>2. req # None => req \in Requests(setting)
  BY DEF Typed, RequestTyped
<1>3. ASSUME req # None, TakeRoute \/ Rebuild \/ NextToken \/ \E m \in 0 .. DraftLen : NextRound(m)
      PROVE  req'.phase \in {"route", "hop"}
  BY <1>2, <1>3 DEF TakeRoute, Rebuild, NextToken, NextRound, Requests
<1>4. ASSUME NEW h, Hop(h) PROVE req'.phase = "decide" => ~req'.rebuilding
  BY <1>2, <1>4 DEF Hop, Visits, AfterHop, Requests
<1>5. ASSUME req # None,
             req' \in {[req EXCEPT !.phase = "failed"], [req EXCEPT !.phase = "raised"]}
      PROVE  req'.phase # "decide"
  BY <1>2, <1>5 DEF Requests
<1> QED
  BY <1>1, <1>3, <1>4, <1>5, RequestSteps DEF Decided, TakeRoute, Rebuild, NextToken, NextRound

LEMMA LateStaysFault == ASSUME Typed, LateIsFault, Next PROVE LateIsFault'
<1>1. setting' = setting
  BY Frame
<1>2. CASE late' \in {late, None}
  BY <1>1, <1>2 DEF LateIsFault
<1>3. ASSUME NEW h \in Holder, NEW s \in Session, late' = Orphaned(h, s), late # None PROVE LateIsFault'
  BY <1>1, <1>3, OrphanedFacts DEF LateIsFault
<1>4. ASSUME NEW h \in Holder, HopAbandoned(h) PROVE LateIsFault'
  BY <1>1, <1>4 DEF LateIsFault, HopAbandoned, GoesOn
<1>5. ASSUME NEW h \in Holder, LeftBehind(h) PROVE LateIsFault'
  BY <1>1, <1>5 DEF LateIsFault, LeftBehind, GoesOn
<1> QED
  BY <1>2, <1>3, <1>4, <1>5, LateSteps

\* What the coordinator relies on depends on the request, its route and the
\* setting only.
LEMMA SameReliance ==
  ASSUME UNCHANGED <<setting, req, route>>, NEW k
  PROVE  /\ Named(k)' = Named(k) /\ Relied(k)' = Relied(k) /\ Expected(k)' = Expected(k)
         /\ Named(0)' = Named(0) /\ Named(k - 1)' = Named(k - 1)
BY DEF Named, Relied, Expected, Behind, Fed, Feed, Pos

LEMMA SameInPlace ==
  ASSUME UNCHANGED <<setting, req, route, conn, fwd>>, NEW k, InPlace(k),
         kv'[Named(k)][req.sid] = kv[Named(k)][req.sid],
         late' # None => late # None /\ late'.sid = late.sid /\ late'.holder = late.holder
  PROVE  InPlace(k)'
BY SameReliance DEF InPlace, Cut, Joined, Link, Lurks

-----------------------------------------------------------------------------
(***************************************************************************)
(* What the environment does leaves the history in place or cuts its way.  *)
(***************************************************************************)
LEMMA SocketFacts ==
  ASSUME SocketsTyped, NEW h \in Holder
  PROVE  /\ conn[h] \in Socket
         /\ \A n \in Holder : fwd[h][n] \in Socket /\ (fwd[h][n] # "none" => conn[h] = "open")
<1>1. \A n \in Holder : fwd[h][n] # "none" => fwd[h] # NoSockets
  BY DEF NoSockets
<1> QED
  BY <1>1 DEF SocketsTyped

\* In a chain of two the second holder is reached through the first.
LEMMA LinkFacts ==
  ASSUME Typed, NEW k \in Stage, req # None, route[req.sid] \in Route
  PROVE  /\ Named(k) \in Holder /\ Named(0) \in Holder
         /\ ~setting.chained => Link(k) = conn[Named(k)]
         /\ k = 0 => Link(k) = conn[Named(0)]
         /\ setting.chained /\ k # 0 => k = 1 /\ k - 1 = 0 /\ Link(k) = fwd[Named(0)][Named(k)]
<1>1. Named(k) \in Holder /\ Named(0) \in Holder /\ k \in Nat
  BY NamedFacts, StageFacts
<1>2. ASSUME setting.chained, k # 0 PROVE k = 1 /\ k - 1 = 0
  <2>1. NumStages <= 2
    BY <1>2, SessionAssumption DEF Typed, ControlTyped
  <2> QED
    BY <1>1, <1>2, <2>1, StageFacts DEF Stage
<1> QED
  BY <1>1, <1>2 DEF Link

LEMMA NextLink ==
  ASSUME Typed, UNCHANGED <<setting, route>>, req'.sid = req.sid, NEW k \in Stage,
         req # None, route[req.sid] \in Route
  PROVE  /\ Named(k)' = Named(k) /\ Named(0)' = Named(0)
         /\ ~setting.chained => Link(k)' = conn'[Named(k)]
         /\ k = 0 => Link(k)' = conn'[Named(0)]
         /\ setting.chained /\ k # 0 => Link(k)' = fwd'[Named(0)][Named(k)]
<1>1. Named(k)' = Named(k) /\ Named(0)' = Named(0) /\ Named(k - 1)' = Named(k - 1)
  BY DEF Named
<1>2. Link(k)' = IF setting.chained /\ k > 0 THEN fwd'[Named(k - 1)][Named(k)] ELSE conn'[Named(k)]
  BY <1>1 DEF Link
<1>3. (k # 0 => k > 0) /\ ~(0 > 0)
  BY StageFacts
<1>4. setting.chained /\ k # 0 => Named(k - 1) = Named(0)
  BY LinkFacts
<1> QED
  BY <1>1, <1>2, <1>3, <1>4

LEMMA CrashKeeps ==
  ASSUME Typed, NEW h \in Holder, Crash(h), NEW k \in Stage,
         req # None, route[req.sid] \in Route, InPlace(k)
  PROVE  InPlace(k)'
<1> DEFINE a == Named(k)
           b == Named(0)
<1>1. UNCHANGED <<setting, req, route>> /\ late' \in {late, None}
  BY DEF Crash
<1>2. Named(k)' = a /\ Named(0)' = b /\ Expected(k)' = Expected(k)
  BY <1>1, SameReliance
<1>3. /\ a \in Holder /\ b \in Holder /\ req.sid \in Session
      /\ ~setting.chained => Link(k) = conn[a] /\ Link(k)' = conn'[a]
      /\ k = 0 => Link(k) = conn[b] /\ Link(k)' = conn'[b] /\ a = b
      /\ setting.chained /\ k # 0 => Link(k) = fwd[b][a] /\ Link(k)' = fwd'[b][a]
  BY <1>1, LinkFacts, NextLink, PassFacts DEF Typed
<1> HIDE DEF a, b
<1>4. \A g \in Holder : conn'[g] = IF g = h /\ conn[g] = "open" THEN "dead" ELSE conn[g]
  BY DEF Crash, Typed, SocketsTyped
<1>5. \A g \in Holder, n \in Holder :
        fwd'[g][n] = IF g = h THEN "none"
                     ELSE IF n = h /\ fwd[g][n] = "open" THEN "dead" ELSE fwd[g][n]
  BY DEF Crash, Typed, SocketsTyped, NoSockets
<1>6. \A g \in Holder, s \in Session : g # h => kv'[g][s] = kv[g][s]
  BY DEF Crash, Typed, KvTyped
<1>7. Cut(k) => Cut(k)'
  <2>1. fwd[b][a] = "dead" => conn[b] = "open"
    BY <1>3, SocketFacts DEF Typed
  <2> QED
    BY <1>1, <1>2, <1>3, <1>4, <1>5, <2>1 DEF Cut, b
<1>8. ASSUME Joined(k), kv[a][req.sid] = Expected(k), ~Lurks(k) PROVE InPlace(k)'
  <2>1. CASE a = h \/ (setting.chained /\ b = h)
    <3>1. Cut(k)'
      BY <1>1, <1>2, <1>3, <1>4, <1>5, <1>8, <2>1 DEF Cut, Joined, b
    <3> QED
      BY <3>1 DEF InPlace
  <2>2. CASE a # h /\ (setting.chained => b # h)
    <3>1. Joined(k)'
      BY <1>1, <1>2, <1>3, <1>4, <1>5, <1>8, <2>2 DEF Joined, b
    <3>2. kv'[a][req.sid] = Expected(k)
      BY <1>3, <1>6, <1>8, <2>2
    <3>3. ~Lurks(k)'
      BY <1>1, <1>2, <1>8 DEF Lurks, a
    <3> QED
      BY <1>1, <1>2, <3>1, <3>2, <3>3 DEF InPlace, a
  <2> QED
    BY <2>1, <2>2
<1> QED
  BY <1>7, <1>8 DEF InPlace, a

LEMMA DropKeeps ==
  ASSUME Typed, NEW h \in Holder, Drop(h), NEW k \in Stage,
         req # None, route[req.sid] \in Route, InPlace(k)
  PROVE  InPlace(k)'
<1> DEFINE a == Named(k)
           b == Named(0)
<1>1. UNCHANGED <<setting, req, route, late, kv>>
  BY DEF Drop, holderVars
<1>2. Named(k)' = a /\ Named(0)' = b /\ Expected(k)' = Expected(k)
  BY <1>1, SameReliance
<1>3. /\ a \in Holder /\ b \in Holder /\ req.sid \in Session
      /\ ~setting.chained => Link(k) = conn[a] /\ Link(k)' = conn'[a]
      /\ k = 0 => Link(k) = conn[b] /\ Link(k)' = conn'[b] /\ a = b
      /\ setting.chained /\ k # 0 => Link(k) = fwd[b][a] /\ Link(k)' = fwd'[b][a]
  BY <1>1, LinkFacts, NextLink, PassFacts DEF Typed
<1> HIDE DEF a, b
<1>4. /\ \A g \in Holder : conn'[g] = conn[g] \/ (conn[g] = "open" /\ conn'[g] = "dead")
      /\ \A g \in Holder, n \in Holder :
           \/ fwd'[g][n] = fwd[g][n]
           \/ fwd[g][n] = "open" /\ fwd'[g][n] = "dead"
           \/ conn[g] = "open" /\ conn'[g] = "dead"
  <2>1. CASE conn[h] = "open" /\ Connected([conn EXCEPT ![h] = "dead"])
    <3>1. \A g \in Holder : conn'[g] = IF g = h THEN "dead" ELSE conn[g]
      BY <2>1 DEF Connected, Typed, SocketsTyped
    <3>2. \A g \in Holder, n \in Holder :
            fwd'[g][n] = IF conn'[g] = "open" THEN fwd[g][n] ELSE "none"
      BY <2>1 DEF Connected, Typed, SocketsTyped, NoSockets
    <3>3. \A g \in Holder, n \in Holder : conn[g] # "open" => fwd[g][n] = "none"
      BY SocketFacts DEF Typed
    <3> QED
      BY <2>1, <3>1, <3>2, <3>3
  <2>2. ASSUME NEW p \in Holder, fwd[p][h] = "open", UNCHANGED conn,
               fwd' = [fwd EXCEPT ![p][h] = "dead"]
        PROVE  \A g \in Holder, n \in Holder :
                 fwd'[g][n] = fwd[g][n] \/ (fwd[g][n] = "open" /\ fwd'[g][n] = "dead")
    BY <2>2 DEF Typed, SocketsTyped
  <2> QED
    BY <2>1, <2>2 DEF Drop
<1>5. fwd[b][a] = "dead" => conn[b] = "open"
  BY <1>3, SocketFacts DEF Typed
<1>6. Cut(k) => Cut(k)'
  BY <1>1, <1>2, <1>3, <1>4, <1>5 DEF Cut, b
<1>7. Joined(k) => Joined(k)' \/ Cut(k)'
  BY <1>1, <1>2, <1>3, <1>4 DEF Cut, Joined, b
<1>8. Lurks(k)' = Lurks(k)
  BY <1>1, <1>2 DEF Lurks, a
<1> QED
  BY <1>1, <1>2, <1>6, <1>7, <1>8 DEF InPlace, a

LEMMA LateForwardKeeps ==
  ASSUME Typed, LateIsFault, ~Deserted, LateForward,
         NEW k \in Stage, req # None, route[req.sid] \in Route, InPlace(k)
  PROVE  InPlace(k)'
<1>1. UNCHANGED <<setting, req, route, conn, fwd>> /\ late' = None /\ late # None
  BY DEF LateForward, sockets
<1>2. late.next \notin up
  BY <1>1, SessionAssumption DEF LateIsFault, Deserted, Typed, ControlTyped
<1>3. /\ Named(k) \in Holder /\ req.sid \in Session
      /\ late.holder \in Holder /\ late.sid \in Session
  BY <1>1, NamedFacts, PassFacts DEF Typed, LateTyped, Late
<1>4. kv' = IF late.own THEN [kv EXCEPT ![late.holder][late.sid] = @ \o late.feed] ELSE kv
  BY <1>1, <1>2 DEF LateForward
<1>5. ~Lurks(k) => kv'[Named(k)][req.sid] = kv[Named(k)][req.sid]
  BY <1>1, <1>3, <1>4 DEF Lurks, Typed, KvTyped
<1>6. CASE Cut(k)
  <2>1. Cut(k)'
    BY <1>1, <1>6, SameReliance DEF Cut, Link
  <2> QED
    BY <2>1 DEF InPlace
<1>7. CASE ~Cut(k)
  BY <1>1, <1>5, <1>7, SameInPlace DEF InPlace
<1> QED
  BY <1>6, <1>7

LEMMA ExpireKeeps ==
  ASSUME Typed, NEW h \in Holder, NEW s \in Session, Expire(h, s), NEW k \in Stage,
         req # None, route[req.sid] \in Route, InPlace(k)
  PROVE  InPlace(k)'
<1>1. /\ UNCHANGED <<setting, req, route, conn, fwd>> /\ late' = Orphaned(h, s)
      /\ s # req.sid /\ kv' = [kv EXCEPT ![h][s] = None]
  BY DEF Expire, sockets, Serving
<1>2. late' # None => late # None /\ late'.sid = late.sid /\ late'.holder = late.holder
  <2>1. late = None => late' = None
    BY <1>1 DEF Orphaned
  <2> QED
    BY <1>1, <2>1, OrphanedFacts
<1>3. kv'[Named(k)][req.sid] = kv[Named(k)][req.sid]
  BY <1>1, NamedFacts, PassFacts DEF Typed, KvTyped
<1> QED
  BY <1>1, <1>2, <1>3, SameInPlace

-----------------------------------------------------------------------------
(***************************************************************************)
(* A hop continues the history it finds in place.                          *)
(***************************************************************************)
LEMMA HopExpects ==
  ASSUME Typed, NEW h \in Holder, Hop(h), NEW k \in Stage
  PROVE  /\ req' # None /\ req'.sid = req.sid /\ req'.kind = req.kind
         /\ k <= req.stage => Expected(k)' = Fed
         /\ k > req.stage => Expected(k)' = req.seq /\ (Relied(k)' => Pos > 0)
<1>1. req \in Requests(setting) /\ req # None /\ req.phase = "hop" /\ req' = AfterHop
  BY DEF Hop, Visits, Typed, RequestTyped
<1>2. /\ req.stage \in Nat /\ k \in Nat /\ NumStages \in Nat
      /\ k < NumStages /\ req.stage < NumStages /\ req.rebuilding \in BOOLEAN
  BY <1>1, StageFacts DEF Requests, Stage
<1>3. req' # None
  BY <1>1, AfterHopTyped, RequestFacts DEF Typed
<1>4. CASE req.stage + 1 < NumStages
  <2>1. /\ req' = [req EXCEPT !.stage = req.stage + 1]
        /\ req'.stage = req.stage + 1 /\ req'.phase = "hop"
        /\ req'.seq = req.seq /\ req'.batch = req.batch /\ req'.rebuilding = req.rebuilding
        /\ req'.sid = req.sid /\ req'.kind = req.kind
    BY <1>1, <1>4 DEF AfterHop, Requests
  <2>2. Fed' = Fed /\ Pos' = Pos
    BY <2>1 DEF Fed, Feed, Pos
  <2>3. Behind(k)' <=> k <= req.stage
    BY <1>2, <2>1 DEF Behind
  <2>4. k > req.stage => ~(k <= req.stage)
    BY <1>2
  <2> QED
    BY <1>3, <2>1, <2>2, <2>3, <2>4 DEF Expected, Relied
<1>5. CASE ~(req.stage + 1 < NumStages)
  <2>1. k <= req.stage /\ ~(k > req.stage)
    BY <1>2, <1>5
  <2>2. CASE req.rebuilding
    <3>1. /\ req' = [req EXCEPT !.rebuilding = FALSE, !.phase = "route"]
          /\ req'.phase = "route" /\ req'.seq = req.seq
          /\ req'.sid = req.sid /\ req'.kind = req.kind
      BY <1>1, <1>5, <2>2 DEF AfterHop, Requests
    <3>2. Expected(k)' = req.seq
      BY <3>1 DEF Expected, Behind
    <3> QED
      BY <1>1, <1>3, <2>1, <2>2, <3>1, <3>2, FedFacts
  <2>3. CASE ~req.rebuilding
    <3>1. /\ req' = [req EXCEPT !.phase = "decide"]
          /\ req'.phase = "decide"
          /\ req'.seq = req.seq /\ req'.batch = req.batch /\ req'.rebuilding = req.rebuilding
          /\ req'.sid = req.sid /\ req'.kind = req.kind
      BY <1>1, <1>5, <2>3 DEF AfterHop, Requests
    <3>2. Expected(k)' = Fed
      BY <3>1 DEF Expected, Behind, Fed, Feed, Pos
    <3> QED
      BY <1>3, <2>1, <3>1, <3>2
  <2> QED
    BY <2>2, <2>3
<1> QED
  BY <1>4, <1>5

LEMMA HopSockets ==
  ASSUME Typed, NEW h \in Holder, Hop(h)
  PROVE  \A g \in Holder :
           /\ conn'[g] = IF g = h /\ ~Forwarding THEN "open" ELSE conn[g]
           /\ \A n \in Holder :
                fwd'[g][n] = IF n = h /\ Forwarding /\ g = Named(req.stage - 1)
                             THEN "open" ELSE fwd[g][n]
<1>1. conn \in [Holder -> Socket] /\ fwd \in [Holder -> [Holder -> Socket]]
  BY DEF Typed, SocketsTyped
<1>2. CASE Forwarding
  BY <1>1, <1>2 DEF Hop
<1>3. CASE ~Forwarding
  <2>1. Connected([conn EXCEPT ![h] = "open"])
    BY <1>3 DEF Hop
  <2>2. \A g \in Holder : conn'[g] = IF g = h THEN "open" ELSE conn[g]
    BY <1>1, <2>1 DEF Connected
  <2>3. \A g \in Holder, n \in Holder : fwd'[g][n] = IF conn'[g] = "open" THEN fwd[g][n] ELSE "none"
    BY <1>1, <2>1 DEF Connected, NoSockets
  <2>4. \A g \in Holder, n \in Holder : fwd'[g][n] = fwd[g][n]
    BY <2>2, <2>3, SocketFacts DEF Typed
  <2> QED
    BY <1>3, <2>2, <2>4
<1> QED
  BY <1>2, <1>3

LEMMA HopKeeps ==
  ASSUME GreedyInv, ~Deserted,
         NEW h \in Holder, Hop(h), Greedy, NEW k \in Stage, Relied(k)'
  PROVE  route'[req'.sid] \in Route /\ InPlace(k)'
<1> DEFINE a == Named(k)
           b == Named(0)
           j == req.stage
<1>1. /\ Typed /\ Visits(h) /\ HeadServes /\ Reachable(j) /\ Named(j) = h
      /\ req # None /\ req.phase = "hop" /\ j \in Stage /\ req.sid \in Session
      /\ route[req.sid] \in Route /\ UNCHANGED <<setting, route>>
      /\ kv' = Forwarded(h)
      /\ late' = IF StartsAfresh(h) THEN Orphaned(h, req.sid) ELSE late
  BY PassFacts DEF GreedyInv, Typed, Hop, Visits, NextHop, RequestTyped
<1>2. /\ req' # None /\ req'.sid = req.sid
      /\ k <= j => Expected(k)' = Fed
      /\ k > j => Expected(k)' = req.seq /\ Pos > 0
  BY <1>1, HopExpects
<1>3. Named(k)' = a /\ Named(0)' = b
  BY <1>1, <1>2, NextLink
<1>4. /\ a \in Holder /\ b \in Holder /\ (a = h <=> k = j) /\ (b = h <=> j = 0)
      /\ ~setting.chained => Link(k) = conn[a] /\ Link(k)' = conn'[a]
      /\ k = 0 => Link(k) = conn[b] /\ Link(k)' = conn'[b] /\ a = b
      /\ setting.chained /\ k # 0 => k = 1 /\ Link(k) = fwd[b][a] /\ Link(k)' = fwd'[b][a]
  BY <1>1, <1>2, LinkFacts, NextLink, NamedFacts, StageFacts
<1>5. /\ k \in Nat /\ j \in Nat
      /\ setting.chained => j \in {0, 1} /\ (Forwarding <=> j = 1)
      /\ ~setting.chained => ~Forwarding
      /\ Forwarding => Named(j - 1) = b
  <2>1. setting.chained => NumStages <= 2
    BY <1>1, SessionAssumption DEF Typed, ControlTyped
  <2>2. k \in Nat /\ j \in Nat /\ (setting.chained => j \in {0, 1})
    BY <1>1, <2>1, StageFacts DEF Stage
  <2>3. j = 1 => j - 1 = 0 /\ j > 0
    OBVIOUS
  <2>4. ~(0 > 0)
    OBVIOUS
  <2>5. Forwarding <=> setting.chained /\ j > 0
    BY DEF Forwarding
  <2> HIDE DEF j
  <2> QED
    BY <2>2, <2>3, <2>4, <2>5 DEF b
<1>6. /\ \A g \in Holder : conn'[g] = IF g = h /\ ~Forwarding THEN "open" ELSE conn[g]
      /\ \A g, n \in Holder : fwd'[g][n] = IF n = h /\ Forwarding /\ g = b THEN "open" ELSE fwd[g][n]
  BY <1>1, <1>5, HopSockets
<1>7. \A g \in Holder : kv'[g][req.sid] = IF g = h THEN IF StartsAfresh(h) THEN Feed ELSE kv[h][req.sid] \o Feed
                                          ELSE kv[g][req.sid]
  BY <1>1, Forward
<1>8. \/ late' = None
      \/ late' # None /\ late # None /\ late'.holder = late.holder /\ late'.sid = late.sid
  <2>1. late = None => Orphaned(h, req.sid) = None
    BY DEF Orphaned
  <2> QED
    BY <1>1, <2>1, OrphanedFacts
<1>9. Lurks(k)' => Lurks(k)
  BY <1>2, <1>3, <1>8 DEF Lurks, a
<1>10. j # 0 /\ setting.chained => conn[b] = "open"
  BY <1>1, <1>5 DEF HeadServes, b
<1>11. Relied(k) => InPlace(k)
  BY DEF GreedyInv, GreedyInPlace, Greedy
<1>12. (k < j => Expected(k) = Fed /\ Relied(k)) /\ (k >= j /\ Pos > 0 => Expected(k) = req.seq /\ Relied(k))
  <2>1. req.phase \in {"route", "hop", "decide"} /\ req.phase # "decide"
    BY <1>1
  <2>2. k >= j => ~(k < j)
    BY <1>5
  <2> HIDE DEF j
  <2> QED
    BY <1>1, <2>1, <2>2 DEF Expected, Behind, Relied, j
<1> HIDE DEF a, b, j
<1>13. CASE k # j
  <2>1. Relied(k) /\ Expected(k)' = Expected(k)
    BY <1>2, <1>5, <1>12, <1>13
  <2>2. kv'[a][req.sid] = kv[a][req.sid]
    BY <1>4, <1>7, <1>13
  <2>3. Link(k)' = Link(k)
    BY <1>4, <1>5, <1>6, <1>13
  <2>4. setting.chained => conn'[b] = conn[b] \/ (j = 0 /\ conn[b] # "dead" /\ conn'[b] = "open")
    <3>1. j = 0 /\ setting.chained => conn[b] # "dead"
      BY <1>1, <1>4 DEF Reachable, Link, b
    <3> QED
      BY <1>4, <1>5, <1>6, <3>1
  <2>5. Cut(k) => Cut(k)'
    BY <1>1, <1>3, <2>3, <2>4 DEF Cut, b
  <2>6. Joined(k) => Joined(k)'
    BY <1>1, <1>3, <2>3, <2>4 DEF Joined, b
  <2> QED
    BY <1>1, <1>2, <1>3, <1>9, <1>11, <2>1, <2>2, <2>5, <2>6 DEF InPlace, a
<1>14. CASE k = j
  <2>1. Joined(k)'
    BY <1>1, <1>3, <1>4, <1>5, <1>6, <1>10, <1>14 DEF Joined, b
  <2>2. ~Cut(k)
    BY <1>1, <1>4, <1>5, <1>10, <1>14 DEF Cut, Reachable, b
  <2>3. Expected(k)' = Fed
    BY <1>2, <1>5, <1>14
  <2>4. CASE Pos = 0
    <3>1. StartsAfresh(h) /\ Fed = Feed
      BY <2>4 DEF StartsAfresh, Fed
    <3>2. kv'[a][req.sid] = Fed
      BY <1>4, <1>7, <1>14, <3>1
    <3>3. ~Lurks(k)'
      <4>1. late' = Orphaned(h, req.sid)
        BY <1>1, <3>1
      <4>2. late # None => late.next = None
        BY DEF GreedyInv, LateIsFault, Deserted
      <4>3. late'  # None => late'.holder # h \/ late'.sid # req.sid
        BY <4>1, <4>2 DEF Orphaned
      <4> QED
        BY <1>2, <1>3, <1>4, <1>14, <4>3 DEF Lurks
    <3> QED
      BY <1>1, <1>2, <1>3, <2>1, <2>3, <3>2, <3>3 DEF InPlace, a
  <2>5. CASE Pos # 0
    <3>1. Pos > 0
      BY <1>1, <2>5, FedFacts
    <3>2. Relied(k) /\ Expected(k) = req.seq
      BY <1>5, <1>12, <1>14, <3>1
    <3>3. kv[h][req.sid] = req.seq /\ ~Lurks(k)
      BY <1>4, <1>11, <1>14, <2>2, <3>2 DEF InPlace, a
    <3>4. ~StartsAfresh(h) /\ req.seq \o Feed = Fed
      BY <1>1, <2>5, <3>1, <3>3, FedFacts DEF StartsAfresh
    <3>5. kv'[a][req.sid] = Fed
      BY <1>4, <1>7, <1>14, <3>3, <3>4
    <3> QED
      BY <1>1, <1>2, <1>3, <1>9, <2>1, <2>3, <3>3, <3>5 DEF InPlace, a
  <2> QED
    BY <2>4, <2>5
<1> QED
  BY <1>1, <1>2, <1>13, <1>14

-----------------------------------------------------------------------------
(***************************************************************************)
(* Every step.                                                             *)
(***************************************************************************)
\* A request that starts relies on nothing, unless it continues a session.
LEMMA StartKeeps ==
  ASSUME Typed, Start PROVE Greedy' => \A k \in Stage : ~Relied(k)'
<1> SUFFICES ASSUME Greedy', NEW k \in Stage PROVE ~Relied(k)'
  OBVIOUS
<1>1. \E kind, p, s : StartGreedy(kind, p, s)
  BY DEF Start, StartCold, StartSpoiled, StartWarm, StartResume, Begin, Greedy
<1>2. req'.seq = <<>> /\ req'.phase = "route" /\ ~req'.rebuilding
  BY <1>1 DEF StartGreedy, Begin
<1>3. Pos' = 0
  BY <1>2, TextFacts DEF Pos, Typed, ControlTyped
<1>4. ~(0 > 0)
  OBVIOUS
<1> QED
  BY <1>2, <1>3, <1>4 DEF Relied, Behind

LEMMA EnvironmentKeeps ==
  ASSUME GreedyInv, ~Deserted,
         NEW k \in Stage, req # None, route[req.sid] \in Route, InPlace(k),
         \/ \E h \in Holder : Crash(h) \/ Reap(h) \/ Rejoin(h) \/ Beat(h) \/ Drop(h)
         \/ LateForward \/ Reaper
  PROVE  InPlace(k)'
<1>1. ASSUME NEW h \in Holder, Reap(h) \/ Rejoin(h) \/ Beat(h) PROVE InPlace(k)'
  <2>1. UNCHANGED <<setting, req, route, conn, fwd, kv, late>>
    BY <1>1 DEF Reap, Rejoin, Beat, holderVars, sockets
  <2> QED
    BY <2>1, SameReliance DEF InPlace, Cut, Joined, Link, Lurks
<1> QED
  BY <1>1, CrashKeeps, DropKeeps, LateForwardKeeps, ExpireKeeps DEF GreedyInv, Reaper

LEMMA GreedyStays ==
  ASSUME GreedyInv, NoForwardOutlives, Next PROVE GreedyInPlace'
<1> SUFFICES ASSUME Greedy', NEW k \in Stage, Relied(k)'
             PROVE  route'[req'.sid] \in Route /\ InPlace(k)'
  BY DEF GreedyInPlace
<1> USE DEF GreedyInv
<1>1. ~Deserted /\ setting' = setting
  BY Frame DEF NoForwardOutlives, Deserted, Typed, ControlTyped
<1>2. ~Start /\ ~Ends
  BY StartKeeps DEF Ends, Finish, FinishKeeping, FinishWarm, ClientLeaves, OrchestratorLeaves, Greedy
<1>3. req # None
  <2>1. ASSUME req = None PROVE req' = None
    BY <1>2, <2>1, RequestSteps DEF TakeRoute, Rebuild, NextToken, NextRound, Hop, Visits
  <2> QED
    BY <2>1 DEF Greedy
<1>4. Greedy /\ req'.sid = req.sid /\ req \in Requests(setting) /\ req.sid \in Session
  BY <1>2, <1>3, RequestGoesOn, PassFacts DEF Greedy, Typed, RequestTyped
<1>5. \A i \in Stage : Relied(i) => route[req.sid] \in Route /\ InPlace(i)
  BY <1>4 DEF GreedyInPlace
<1>6. CASE \/ \E h \in Holder : Crash(h) \/ Reap(h) \/ Rejoin(h) \/ Beat(h) \/ Drop(h)
           \/ LateForward \/ Reaper
  <2>1. UNCHANGED <<setting, req, route>>
    BY <1>6 DEF Crash, Reap, Rejoin, Beat, Drop, LateForward, Reaper, Expire
  <2>2. Relied(k)
    BY <2>1, SameReliance
  <2> QED
    BY <1>1, <1>3, <1>5, <1>6, <2>1, <2>2, EnvironmentKeeps
<1>7. CASE TakeRoute
  <2>1. /\ req' = [req EXCEPT !.phase = "hop", !.stage = 0] /\ req.phase = "route"
        /\ UNCHANGED <<setting, conn, fwd, kv, late>>
        /\ Pos > 0 /\ route[req.sid] # None => route' = route
    <3>1. Pos > 0 => Pos # 0
      BY FedFacts, <1>3
    <3> QED
      BY <1>7, <3>1 DEF TakeRoute, holderVars, sockets
  <2>2. /\ req'.phase = "hop" /\ req'.stage = 0 /\ req'.sid = req.sid /\ req'.seq = req.seq
        /\ Pos' = Pos
    BY <1>4, <2>1 DEF Requests, Pos
  <2>3. ~Behind(k)' /\ ~Behind(k)
    <3>1. ~(k < 0)
      BY StageFacts
    <3> QED
      BY <2>1, <2>2, <3>1 DEF Behind
  <2>4. Pos > 0 /\ Relied(k)
    BY <2>1, <2>2, <2>3 DEF Relied
  <2>5. route[req.sid] \in Route /\ InPlace(k) /\ route' = route
    BY <1>5, <2>1, <2>4, RouteFacts
  <2>6. Expected(k)' = Expected(k) /\ Named(k)' = Named(k) /\ Named(0)' = Named(0) /\ Named(k - 1)' = Named(k - 1)
    BY <2>2, <2>3, <2>5 DEF Expected, Named
  <2> QED
    BY <2>1, <2>2, <2>5, <2>6 DEF InPlace, Cut, Joined, Link, Lurks
<1>8. CASE NextToken
  <2>1. /\ req' = [req EXCEPT !.phase = "route", !.seq = @ \o req.batch, !.batch = <<"said">>,
                              !.attempt = 0, !.left = @ - 1]
        /\ req.phase = "decide" /\ UNCHANGED <<setting, conn, fwd, kv, late, route>>
    BY <1>8 DEF NextToken, holderVars, sockets
  <2>2. req'.phase = "route" /\ req'.sid = req.sid /\ req'.seq = req.seq \o req.batch
    BY <1>4, <2>1 DEF Requests
  <2>3. Relied(k) /\ Expected(k) = Fed /\ ~Behind(k)'
    BY <2>1, <2>2 DEF Relied, Behind, Expected
  <2>4. Expected(k)' = Expected(k)
    BY <1>3, <2>1, <2>2, <2>3, FedFacts DEF Expected, Decided
  <2>5. Named(k)' = Named(k) /\ Named(0)' = Named(0) /\ Named(k - 1)' = Named(k - 1)
    BY <2>1, <2>2 DEF Named
  <2> QED
    BY <1>5, <2>1, <2>2, <2>3, <2>4, <2>5 DEF InPlace, Cut, Joined, Link, Lurks
<1>9. ASSUME NEW h \in Holder, Hop(h) PROVE route'[req'.sid] \in Route /\ InPlace(k)'
  BY <1>1, <1>4, <1>9, HopKeeps
<1>10. CASE Rebuild
  <2>1. req'.phase = "route" /\ req'.rebuilding = (req.seq # <<>>) /\ req'.seq = req.seq
    BY <1>4, <1>10 DEF Rebuild, Requests
  <2>2. Pos' = 0
    BY <1>3, <2>1, FedFacts, TextFacts DEF Pos, Typed, ControlTyped
  <2>3. ~(0 > 0)
    OBVIOUS
  <2> QED
    BY <2>1, <2>2, <2>3 DEF Relied, Behind
<1>11. ASSUME NEW m, NextRound(m) PROVE FALSE
  BY <1>4, <1>11 DEF NextRound, Greedy
<1>12. CASE req' \in {[req EXCEPT !.phase = "failed"], [req EXCEPT !.phase = "raised"]}
  BY <1>4, <1>12 DEF Relied, Requests
<1> QED
  <2>1. \/ \E h \in Holder : Crash(h) \/ Reap(h) \/ Rejoin(h) \/ Beat(h) \/ Drop(h)
        \/ LateForward \/ Reaper
        \/ TakeRoute \/ Rebuild \/ NextToken \/ \E m \in 0 .. DraftLen : NextRound(m)
        \/ \E h \in Holder : Hop(h)
        \/ req' \in {[req EXCEPT !.phase = "failed"], [req EXCEPT !.phase = "raised"]}
    BY <1>2 DEF Next, Proceed, Environment, Ends, NoRoute, GiveUp, HopFails, ReplyLost, HeadLost,
       HopAbandoned, HopBreaks
  <2> QED
    BY <1>6, <1>7, <1>8, <1>9, <1>10, <1>11, <1>12, <2>1

\* What is in place is in place for every holder the pass can still reach.
LEMMA GreedyInPlaceIsExact == GreedyInv => GreedyIsExact
<1> SUFFICES ASSUME GreedyInv, Greedy, req.phase = "hop", Pos > 0, NEW k \in Stage, Ahead(k)
             PROVE  kv[Named(k)][req.sid] = req.seq
  BY DEF GreedyIsExact, HistoryIsInPlace, Greedy
<1>1. Typed /\ req # None /\ req.stage \in Stage /\ req.phase # "decide"
  BY PassFacts DEF GreedyInv, Greedy, Typed
<1>2. Relied(k) /\ route[req.sid] \in Route /\ InPlace(k)
  BY DEF GreedyInv, GreedyInPlace, Relied
<1>3. k >= req.stage /\ Reachable(k)
  BY DEF Ahead
<1>4. k \in Nat /\ req.stage \in Nat
  BY <1>1, StageFacts
<1>5. Expected(k) = req.seq
  <2>1. ~(k < req.stage)
    BY <1>3, <1>4
  <2> QED
    BY <1>1, <2>1 DEF Expected, Behind
<1>6. setting.chained => conn[Named(0)] # "dead"
  <2>1. CASE setting.chained /\ req.stage = 0
    <3>1. 0 \in req.stage .. k
      BY <1>3, <1>4, <2>1
    <3>2. Reachable(0)
      BY <2>1, <3>1 DEF Ahead
    <3> QED
      BY <1>1, <1>2, <3>2, LinkFacts, StageFacts DEF Reachable
  <2>2. CASE setting.chained /\ req.stage # 0
    <3>1. req.stage > 0
      BY <1>4, <2>2
    <3> QED
      BY <2>2, <3>1 DEF Ahead, HeadServes, Forwarding
  <2> QED
    BY <2>1, <2>2
<1> QED
  BY <1>2, <1>3, <1>5, <1>6 DEF InPlace, Cut, Reachable

\* Whatever holders, sockets and replies were lost, a greedy pass that gets
\* through was computed on the whole history (coordinator.py:500-528): in a
\* star under every fault, in a chain under crashes, refused frames and lost
\* forwarding sockets, but not when a head may forward without its coordinator
\* (stage_worker.py:336-363), where it is false.
THEOREM GreedyCorrect == ASSUME NoForwardOutlives PROVE Spec => []GreedyIsExact
<1>1. Init => GreedyInv
  <2>1. Init => Decided /\ LateIsFault /\ GreedyInPlace
    BY DEF Init, Decided, LateIsFault, GreedyInPlace, Greedy
  <2> QED
    BY <2>1, InitTyped DEF GreedyInv
<1>2. GreedyInv /\ [Next]_vars => GreedyInv'
  <2>1. ASSUME GreedyInv, Next PROVE GreedyInv'
    BY <2>1, NextTyped, DecidedStays, LateStaysFault, GreedyStays DEF GreedyInv
  <2>2. ASSUME GreedyInv, UNCHANGED vars PROVE GreedyInv'
    <3>1. UNCHANGED <<setting, req, route, conn, fwd, kv, late>>
      BY <2>2 DEF vars
    <3>2. Decided' /\ LateIsFault' /\ (Greedy' <=> Greedy)
      BY <2>2, <3>1 DEF GreedyInv, Decided, LateIsFault, Greedy
    <3>3. \A k \in Stage : Relied(k)' => Relied(k) /\ (InPlace(k) => InPlace(k)')
      BY <3>1, SameReliance DEF InPlace, Cut, Joined, Link, Lurks
    <3>4. GreedyInPlace'
      BY <2>2, <3>1, <3>2, <3>3 DEF GreedyInv, GreedyInPlace
    <3> QED
      BY <2>2, <3>2, <3>4, NextTyped DEF GreedyInv
  <2> QED
    BY <2>1, <2>2
<1> QED
  BY <1>1, <1>2, GreedyInPlaceIsExact, PTL DEF Spec

-----------------------------------------------------------------------------
(***************************************************************************)
(* Reuse.  While nobody dies, a session's KV lies along its pinned route:  *)
(* the history of the running request, the prompt of the warm session, the *)
(* sequence of the resume state.                                           *)
(***************************************************************************)
Calm == setting.faults \subseteq {"replace"}

\* Roll-backs reach the head of a chain only, so drafting needs a star.
NoDraftingChain ==
  \A w \in Setting : w.chained /\ w.faults \subseteq {"replace"} => "draft" \notin w.kinds

Lies(s, text) == pins[s] \in Route /\ \A k \in Stage : kv[pins[s][k]][s] = text

Linked(s) == route[s] \in Route /\ \A k \in Stage : conn[route[s][k]] = "open"

\* Nobody dies: a pass fails only where no route can exist at all.
Quiet ==
  /\ up = Holder /\ ready = Holder /\ late = None
  /\ \A h \in Holder : conn[h] # "dead" /\ \A n \in Holder : fwd[h][n] # "dead"
  /\ req # None /\ req.phase \in {"failed", "raised"} => Route = {}
  /\ req # None /\ req.phase = "hop" /\ Forwarding => conn[Named(0)] = "open"

\* The control plane remembers the routes the orchestrator has pinned.
Remembered == \A s \in Session : route[s] # None => pins[s] = route[s]

\* The running, the warm, the resumable and the unused sessions are different
\* ones, but for the warm session that a draft request runs on.
Apart ==
  /\ blob # None => blob.sid \notin free /\ ~Serving(blob.sid)
  /\ blob # None /\ warm # None => blob.sid # warm.sid
  /\ warm # None => warm.sid \notin free
  /\ req # None => req.sid \notin free
  /\ req # None /\ warm # None /\ warm.sid = req.sid => req.kind = "draft"

KeptInPlace == blob # None => Lies(blob.sid, blob.seq)

WarmInPlace ==
  warm # None /\ ~Serving(warm.sid) =>
    /\ warm.len = Len(warm.prompt)
    /\ route[warm.sid] # None => Lies(warm.sid, warm.prompt) /\ Linked(warm.sid)

RunInPlace ==
  req # None => \A k \in Stage : Relied(k) =>
    /\ pins[req.sid] \in Route /\ kv[pins[req.sid][k]][req.sid] = Expected(k)
    /\ req.kind = "draft" => route[req.sid] \in Route /\ conn[Named(k)] = "open"

StartsWith(text, prompt) == Len(prompt) <= Len(text) /\ SubSeq(text, 1, Len(prompt)) = prompt

\* A draft request is never rebuilt and its history begins with its prompt.
DraftStands ==
  req # None /\ req.kind = "draft" =>
    ~req.rebuilding /\ StartsWith(req.seq \o req.batch, req.prompt)

InOrder == Quiet /\ Remembered /\ Apart /\ KeptInPlace /\ WarmInPlace /\ RunInPlace

ReuseInv == Typed /\ Decided /\ DraftStands /\ (Calm => InOrder)

-----------------------------------------------------------------------------
(***************************************************************************)
(* Texts that share a beginning.                                           *)
(***************************************************************************)
LEMMA TextEqual ==
  ASSUME NEW a \in Text, NEW b \in Text, Len(a) = Len(b), \A i \in 1 .. Len(a) : a[i] = b[i]
  PROVE  a = b
BY SeqEqual DEF Text

LEMMA ConcatText ==
  ASSUME NEW a \in Text, NEW b \in Text, setting \in Setting
  PROVE  /\ a \o b \in Text /\ Len(a) \in Nat /\ Len(b) \in Nat
         /\ Len(a \o b) = Len(a) + Len(b)
         /\ \A i \in 1 .. Len(a) : (a \o b)[i] = a[i]
         /\ \A i \in 1 .. Len(b) : (a \o b)[Len(a) + i] = b[i]
<1>1. Len(a) \in Nat /\ Len(b) \in Nat
  BY TextFacts
<1>2. /\ a \o b \in Text /\ Len(a \o b) = Len(a) + Len(b)
      /\ \A i \in 1 .. Len(a) + Len(b) : (a \o b)[i] = IF i <= Len(a) THEN a[i] ELSE b[i - Len(a)]
  BY ConcatProperties DEF Text
<1>3. \A i \in 1 .. Len(a) : (a \o b)[i] = a[i]
  BY <1>1, <1>2
<1>4. ASSUME NEW i \in 1 .. Len(b) PROVE (a \o b)[Len(a) + i] = b[i]
  <2>1. /\ Len(a) + i \in 1 .. Len(a) + Len(b) /\ ~(Len(a) + i <= Len(a))
        /\ Len(a) + i - Len(a) = i
    BY <1>1
  <2> QED
    BY <1>2, <2>1
<1> QED
  BY <1>1, <1>2, <1>3, <1>4

\* A prefix that ends in the first part, and one that ends in the second.
LEMMA PrefixOfHistory ==
  ASSUME NEW a \in Text, NEW b \in Text, NEW n \in Nat, setting \in Setting
  PROVE  /\ n <= Len(a) => SubSeq(a \o b, 1, n) = SubSeq(a, 1, n)
         /\ n <= Len(b) => SubSeq(a \o b, 1, Len(a) + n) = a \o SubSeq(b, 1, n)
<1> DEFINE u == a \o b
<1>1. /\ u \in Text /\ Len(a) \in Nat /\ Len(b) \in Nat /\ Len(u) = Len(a) + Len(b)
      /\ \A i \in 1 .. Len(a) : u[i] = a[i]
      /\ \A i \in 1 .. Len(b) : u[Len(a) + i] = b[i]
  BY ConcatText
<1> HIDE DEF u
<1>2. ASSUME n <= Len(a) PROVE SubSeq(u, 1, n) = SubSeq(a, 1, n)
  <2>1. /\ SubSeq(u, 1, n) \in Text /\ Len(SubSeq(u, 1, n)) = n
        /\ \A i \in 1 .. n : SubSeq(u, 1, n)[i] = u[i]
    BY <1>1, <1>2, PrefixOfText
  <2>2. /\ SubSeq(a, 1, n) \in Text /\ Len(SubSeq(a, 1, n)) = n
        /\ \A i \in 1 .. n : SubSeq(a, 1, n)[i] = a[i]
    BY <1>2, PrefixOfText
  <2>3. \A i \in 1 .. n : SubSeq(u, 1, n)[i] = SubSeq(a, 1, n)[i]
    BY <1>1, <1>2, <2>1, <2>2
  <2> QED
    BY <2>1, <2>2, <2>3, TextEqual
<1>3. ASSUME n <= Len(b) PROVE SubSeq(u, 1, Len(a) + n) = a \o SubSeq(b, 1, n)
  <2> DEFINE c == SubSeq(b, 1, n)
             v == SubSeq(u, 1, Len(a) + n)
  <2>1. c \in Text /\ Len(c) = n /\ \A i \in 1 .. n : c[i] = b[i]
    BY <1>3, PrefixOfText
  <2>2. Len(a) + n \in Nat /\ Len(a) + n <= Len(u)
    BY <1>1, <1>3
  <2>3. v \in Text /\ Len(v) = Len(a) + n /\ \A i \in 1 .. Len(a) + n : v[i] = u[i]
    BY <1>1, <2>2, PrefixOfText
  <2> HIDE DEF c, v
  <2>4. /\ a \o c \in Text /\ Len(a \o c) = Len(a) + n
        /\ \A i \in 1 .. Len(a) : (a \o c)[i] = a[i]
        /\ \A i \in 1 .. n : (a \o c)[Len(a) + i] = c[i]
    BY <2>1, ConcatText
  <2>5. ASSUME NEW i \in 1 .. Len(a) + n PROVE v[i] = (a \o c)[i]
    <3>1. CASE i <= Len(a)
      BY <1>1, <2>3, <2>4, <2>5, <3>1
    <3>2. CASE ~(i <= Len(a))
      <4> DEFINE j == i - Len(a)
      <4>1. j \in 1 .. n /\ j \in 1 .. Len(b) /\ Len(a) + j = i
        BY <1>1, <1>3, <2>5, <3>2
      <4> HIDE DEF j
      <4>2. v[i] = b[j]
        BY <1>1, <2>3, <2>5, <4>1
      <4>3. (a \o c)[i] = b[j]
        BY <2>1, <2>4, <4>1
      <4> QED
        BY <4>2, <4>3
    <3> QED
      BY <3>1, <3>2
  <2> QED
    BY <2>3, <2>4, <2>5, TextEqual DEF c, v
<1> QED
  BY <1>2, <1>3 DEF u

LEMMA PrefixAndRest ==
  ASSUME NEW p \in Text, NEW n \in Nat, n <= Len(p), setting \in Setting
  PROVE  SubSeq(p, 1, n) \o SubSeq(p, n + 1, Len(p)) = p
<1> DEFINE a == SubSeq(p, 1, n)
           b == SubSeq(p, n + 1, Len(p))
<1>1. Len(p) \in Nat
  BY TextFacts
<1>2. a \in Text /\ Len(a) = n /\ \A i \in 1 .. n : a[i] = p[i]
  BY PrefixOfText
<1>3. b \in Text /\ Len(b) = Len(p) - n /\ \A i \in 1 .. Len(p) - n : b[i] = p[n + i]
  BY SuffixOfText
<1> HIDE DEF a, b
<1>4. /\ a \o b \in Text /\ Len(a \o b) = n + (Len(p) - n)
      /\ \A i \in 1 .. n : (a \o b)[i] = a[i]
      /\ \A i \in 1 .. Len(p) - n : (a \o b)[n + i] = b[i]
  <2>1. /\ a \o b \in Text /\ Len(a \o b) = Len(a) + Len(b)
        /\ \A i \in 1 .. Len(a) : (a \o b)[i] = a[i]
        /\ \A i \in 1 .. Len(b) : (a \o b)[Len(a) + i] = b[i]
    BY <1>2, <1>3, ConcatText
  <2> QED
    BY <1>2, <1>3, <2>1
<1>5. ASSUME NEW i \in 1 .. Len(p) PROVE (a \o b)[i] = p[i]
  <2>1. CASE i <= n
    BY <1>1, <1>2, <1>4, <1>5, <2>1
  <2>2. CASE ~(i <= n)
    <3> DEFINE j == i - n
    <3>1. j \in 1 .. Len(p) - n /\ n + j = i
      BY <1>1, <1>5, <2>2
    <3> HIDE DEF j
    <3> QED
      BY <1>3, <1>4, <3>1
  <2> QED
    BY <2>1, <2>2
<1>6. Len(a \o b) = Len(p)
  BY <1>1, <1>4
<1> QED
  BY <1>4, <1>5, <1>6, TextEqual DEF a, b

LEMMA WholePrefix ==
  ASSUME NEW p \in Text, setting \in Setting PROVE SubSeq(p, 1, Len(p)) = p
BY SubSeqFull DEF Text

\* Two prompts agree as far as they have tokens in common.
LEMMA CommonPrefix ==
  ASSUME NEW a \in Text, NEW b \in Text, NEW n \in Nat, n <= CommonLength(a, b),
         setting \in Setting
  PROVE  SubSeq(a, 1, n) = SubSeq(b, 1, n)
<1> DEFINE P == {i \in 1 .. Len(a) : i <= Len(b) /\ SubSeq(a, 1, i) = SubSeq(b, 1, i)}
<1>1. Len(a) \in Nat /\ Len(b) \in Nat
  BY TextFacts
<1>2. CommonLength(a, b) = Cardinality(P)
  BY DEF CommonLength
<1>3. CASE n = 0
  <2>1. n <= Len(a) /\ n <= Len(b)
    BY <1>1, <1>3
  <2>2. /\ SubSeq(a, 1, n) \in Text /\ Len(SubSeq(a, 1, n)) = 0
        /\ SubSeq(b, 1, n) \in Text /\ Len(SubSeq(b, 1, n)) = 0
    BY <1>3, <2>1, PrefixOfText
  <2> QED
    BY <2>2, TextFacts
<1>4. CASE n # 0
  <2>1. SUFFICES \E m \in P : n <= m
    <3>1. PICK m \in P : n <= m
      BY <2>1
    <3>2. m \in Nat /\ m <= Len(a) /\ m <= Len(b) /\ SubSeq(a, 1, m) = SubSeq(b, 1, m)
      BY <1>1
    <3>3. /\ SubSeq(a, 1, m) \in Text /\ Len(SubSeq(a, 1, m)) = m
          /\ \A i \in 1 .. m : SubSeq(a, 1, m)[i] = a[i] /\ SubSeq(a, 1, m)[i] = b[i]
      BY <3>2, PrefixOfText
    <3>4. \A i \in 1 .. n : a[i] = b[i]
      BY <3>1, <3>2, <3>3
    <3>5. n <= Len(a) /\ n <= Len(b)
      BY <1>1, <3>1, <3>2
    <3>6. /\ SubSeq(a, 1, n) \in Text /\ Len(SubSeq(a, 1, n)) = n
          /\ \A i \in 1 .. n : SubSeq(a, 1, n)[i] = a[i]
      BY <3>5, PrefixOfText
    <3>7. /\ SubSeq(b, 1, n) \in Text /\ Len(SubSeq(b, 1, n)) = n
          /\ \A i \in 1 .. n : SubSeq(b, 1, n)[i] = b[i]
      BY <3>5, PrefixOfText
    <3>8. \A i \in 1 .. n : SubSeq(a, 1, n)[i] = SubSeq(b, 1, n)[i]
      BY <3>4, <3>6, <3>7
    <3> QED
      BY <3>6, <3>7, <3>8, TextEqual
  <2>2. SUFFICES ASSUME \A m \in P : m < n PROVE FALSE
    BY <1>1, <2>2
  <2>3. n - 1 \in Nat /\ P \subseteq 1 .. n - 1
    BY <1>1, <1>4, <2>2
  <2>4. Cardinality(P) <= n - 1 /\ Cardinality(P) \in Nat
    BY <2>3, LeadingPositions
  <2> QED
    BY <1>2, <2>4
<1> QED
  BY <1>3, <1>4

-----------------------------------------------------------------------------
(***************************************************************************)
(* What happens while nobody dies.                                         *)
(***************************************************************************)
LEMMA HopFacts ==
  ASSUME Typed, req # None, req.phase = "hop"
  PROVE  /\ req.stage \in Stage /\ req.sid \in Session /\ route[req.sid] \in Route
         /\ Named(req.stage) \in Holder /\ Named(0) \in Holder
<1>1. req.stage \in Stage /\ req.sid \in Session /\ route[req.sid] \in Route
  BY PassFacts DEF Typed, RequestTyped
<1> QED
  BY <1>1, NamedFacts, StageFacts

LEMMA NoHopFails ==
  ASSUME Typed, Quiet, NEW h \in Holder, Visits(h)
  PROVE  HeadServes /\ Reachable(req.stage)
<1>1. /\ req # None /\ req.phase = "hop" /\ req.stage \in Stage /\ route[req.sid] \in Route
      /\ Named(req.stage) \in Holder /\ Named(0) \in Holder
  BY HopFacts DEF Visits
<1>2. HeadServes
  BY <1>1 DEF HeadServes, Quiet
<1>3. Link(req.stage) # "dead"
  <2>1. CASE setting.chained /\ req.stage # 0
    BY <1>1, <2>1, LinkFacts DEF Quiet
  <2>2. CASE ~(setting.chained /\ req.stage # 0)
    BY <1>1, <2>2, LinkFacts DEF Quiet
  <2> QED
    BY <2>1, <2>2
<1> QED
  BY <1>1, <1>2, <1>3 DEF Reachable, Quiet

LEMMA CalmSteps ==
  ASSUME Typed, Calm, Quiet, Next
  PROVE  \/ \E p \in setting.prompts, s \in Session :
              \/ \E kind \in setting.kinds : StartGreedy(kind, p, s)
              \/ StartCold(p, s)
         \/ \E p \in setting.prompts : StartWarm(p)
         \/ StartResume
         \/ TakeRoute \/ NoRoute \/ \E h \in Holder : Hop(h)
         \/ Rebuild \/ GiveUp \/ NextToken \/ \E m \in 0 .. DraftLen : NextRound(m)
         \/ Finish \/ FinishKeeping \/ FinishWarm
         \/ req = None /\ OrchestratorLeaves
<1>1. \A f \in {"restart", "drop", "break", "refuse", "late", "expire", "die", "repeat", "leave"} :
        f \notin setting.faults
  BY DEF Calm
<1>2. \A p, s : ~StartSpoiled(p, s)
  <2>1. Refusals = {{}}
    BY <1>1 DEF Refusals
  <2> QED
    BY <2>1 DEF StartSpoiled
<1>3. \A h \in Holder : ~HopFails(h) /\ ~ReplyLost(h) /\ ~HeadLost(h) /\ ~HopAbandoned(h)
  BY <1>1, NoHopFails DEF HopFails, ReplyLost, HeadLost, HopAbandoned
<1>4. \A h \in Holder : ~Crash(h) /\ ~Reap(h) /\ ~Rejoin(h) /\ ~Beat(h) /\ ~Drop(h)
  BY <1>1 DEF Quiet, Crash, Reap, Rejoin, Beat, Drop
<1>5. ~LateForward /\ ~ClientLeaves /\ ~Reaper
  BY <1>1 DEF Quiet, LateForward, ClientLeaves, Reaper, Expire
<1>6. OrchestratorLeaves => req = None
  BY <1>1 DEF OrchestratorLeaves
<1> QED
  BY <1>2, <1>3, <1>4, <1>5, <1>6 DEF Next, Start, Proceed, Environment

LEMMA ForgetNothing ==
  ASSUME Typed, Calm, NEW refused \in Refusals, Forget(refused)
  PROVE  UNCHANGED <<conn, fwd>>
<1>1. refused = {}
  BY DEF Calm, Refusals
<1>2. conn \in [Holder -> Socket] /\ fwd \in [Holder -> [Holder -> Socket]]
  BY DEF Typed, SocketsTyped
<1>3. conn' = conn
  BY <1>1, <1>2 DEF Forget, Connected
<1>4. fwd' = [h \in Holder |-> IF conn[h] = "open" THEN fwd[h] ELSE NoSockets]
  BY <1>1, <1>2 DEF Forget, Connected
<1>5. \A h \in Holder : conn[h] # "open" => fwd[h] = NoSockets
  BY DEF Typed, SocketsTyped
<1> QED
  BY <1>2, <1>3, <1>4, <1>5

\* The control plane answers with the pinned route, and with nothing only
\* where there is no route at all.
LEMMA AnswerFacts ==
  ASSUME Typed, ready = Holder, NEW s \in Session
  PROVE  /\ pins[s] # None => Answers(s) \subseteq {pins[s]}
         /\ Answers(s) = {} => Route = {}
<1>1. pins[s] \in Route \cup {None}
  BY DEF Typed, RoutesTyped
<1>2. \A r \in Route : r \in [Stage -> Holder] /\ \A k \in Stage : r[k] \in ready
  BY DEF Route
<1>3. ASSUME pins[s] # None, NEW r \in Answers(s) PROVE r = pins[s]
  <2>1. r \in [Stage -> Holder] /\ pins[s] \in [Stage -> Holder]
    BY <1>1, <1>3 DEF Answers, Route
  <2>2. \A k \in Stage : r[k] = pins[s][k]
    BY <1>1, <1>2, <1>3 DEF Answers
  <2> QED
    BY <2>1, <2>2
<1>4. pins[s] # None => pins[s] \in Answers(s)
  BY <1>1, <1>2 DEF Answers
<1>5. ASSUME pins[s] = None, NEW r \in Route PROVE r \in Answers(s)
  BY <1>2, <1>5 DEF Answers
<1> QED
  BY <1>3, <1>4, <1>5

\* The sessions that do not run keep what they have.
LEMMA Elsewhere ==
  ASSUME Typed, Calm, Quiet, Next, NEW s \in Session, ~Serving(s),
         warm # None /\ warm.sid = s => ~FinishWarm /\ \A p \in setting.prompts : ~StartWarm(p)
  PROVE  /\ pins'[s] = pins[s] /\ \A h \in Holder : kv'[h][s] = kv[h][s]
         /\ route'[s] = route[s] \/ OrchestratorLeaves
<1> USE DEF Serving
<1>1. ASSUME Rebuild \/ Finish PROVE pins'[s] = pins[s] /\ route'[s] = route[s]
  <2>1. /\ req # None /\ req.sid # s
        /\ route' = [route EXCEPT ![req.sid] = None] /\ pins' = [pins EXCEPT ![req.sid] = None]
    BY <1>1 DEF Rebuild, Finish, Over, ResetSession
  <2> QED
    BY <2>1 DEF Typed, RoutesTyped
<1>2. ASSUME Rebuild \/ Finish, NEW h \in Holder PROVE kv'[h][s] = kv[h][s]
  <2>1. req # None /\ kv' = ResetKV(kv, {req.sid})
    BY <1>2 DEF Rebuild, Finish, Over, ResetSession
  <2>2. kv \in KvTables
    BY DEF Typed, KvTyped, KvTables
  <2> QED
    BY <2>1, <2>2, Reset DEF Typed
<1>3. ASSUME TakeRoute PROVE pins'[s] = pins[s] /\ route'[s] = route[s]
  BY <1>3 DEF TakeRoute, Typed, RoutesTyped
<1>4. ASSUME NEW h \in Holder, Hop(h) PROVE \A g \in Holder : kv'[g][s] = kv[g][s]
  BY <1>4, Forward DEF Hop, Visits
<1>5. ASSUME NEW p \in setting.prompts, StartWarm(p), NEW h \in Holder PROVE kv'[h][s] = kv[h][s]
  <2>1. warm # None /\ s # warm.sid
    BY <1>5 DEF StartWarm, Reusable
  <2>2. Shared(p) \in Nat /\ warm.sid \in Session
    BY <2>1, SharedFacts
  <2>3. kv' = kv \/ kv' = TruncateKV(warm.sid, Shared(p))
    BY <1>5 DEF StartWarm
  <2> QED
    BY <2>1, <2>2, <2>3, Truncate DEF Typed
<1>6. ASSUME NEW m, NextRound(m), NEW h \in Holder PROVE kv'[h][s] = kv[h][s]
  <2>1. req # None /\ req.sid # s
    BY <1>6 DEF NextRound
  <2>2. /\ req.sid \in Session /\ Len(Extended) \in Nat
        /\ kv' = kv \/ kv' = TruncateKV(req.sid, Len(Extended))
    BY <1>6, RoundFacts
  <2> HIDE DEF Extended
  <2> QED
    BY <2>1, <2>2, Truncate DEF Typed
<1>7. ASSUME FinishWarm
      PROVE  pins'[s] = pins[s] /\ route'[s] = route[s] /\ \A h \in Holder : kv'[h][s] = kv[h][s]
  <2> DEFINE old == IF warm = None THEN {} ELSE {warm.sid} \ {req.sid}
  <2>1. s \notin old /\ req # None /\ req.sid # s
    BY <1>7 DEF FinishWarm, Over
  <2>2. /\ kv' = ResetKV(TruncateKV(req.sid, Len(req.prompt)), old)
        /\ route' = [r \in Session |-> IF r \in old THEN None ELSE route[r]]
        /\ pins' = [r \in Session |-> IF r \in old THEN None ELSE pins[r]]
    BY <1>7 DEF FinishWarm
  <2>3. req.sid \in Session /\ Len(req.prompt) \in Nat
    BY <2>1, PassFacts, RequestFacts, TextFacts DEF Typed, RequestTyped, ControlTyped
  <2> HIDE DEF old
  <2> QED
    BY <2>1, <2>2, <2>3, Truncate, Reset DEF Typed
<1> QED
  BY <1>1, <1>2, <1>3, <1>4, <1>5, <1>6, <1>7, CalmSteps
     DEF StartGreedy, StartCold, StartWarm, StartResume, TakeRoute, NoRoute, Hop, GiveUp, NextToken,
         NextRound, FinishKeeping, OrchestratorLeaves, holderVars, controlVars

\* Sockets only open, but for those of an orchestrator that is replaced.
LEMMA SocketsOpen ==
  ASSUME Typed, Calm, Quiet, Next
  PROVE  \/ UNCHANGED <<conn, fwd>>
         \/ \E h \in Holder : Hop(h)
         \/ OrchestratorLeaves /\ conn' = NoSockets /\ fwd' = [h \in Holder |-> NoSockets]
<1>1. ASSUME Rebuild \/ Finish PROVE UNCHANGED <<conn, fwd>>
  BY <1>1, ForgetNothing DEF Rebuild, Finish, ResetSession
<1>2. ASSUME FinishWarm PROVE UNCHANGED <<conn, fwd>>
  BY <1>2, ForgetNothing DEF FinishWarm
<1>3. ASSUME NEW m, NextRound(m) PROVE UNCHANGED <<conn, fwd>>
  BY <1>3, ForgetNothing DEF NextRound, sockets
<1>4. ASSUME OrchestratorLeaves
      PROVE  conn' = NoSockets /\ fwd' = [h \in Holder |-> NoSockets]
  BY <1>4 DEF OrchestratorLeaves, Connected, NoSockets
<1> QED
  BY <1>1, <1>2, <1>3, <1>4, CalmSteps
     DEF StartGreedy, StartCold, StartWarm, StartResume, TakeRoute, NoRoute, GiveUp, NextToken,
         FinishKeeping, sockets

LEMMA OpenStays ==
  ASSUME Typed, Calm, Quiet, Next, ~OrchestratorLeaves, NEW h \in Holder, conn[h] = "open"
  PROVE  conn'[h] = "open"
BY SocketsOpen, HopSockets

LEMMA QuietStays == ASSUME Typed, Calm, Quiet, Next PROVE Quiet'
<1>1. /\ up' = up /\ ready' = ready
      /\ late' = None
  <2>1. late' = late \/ late' = None
    BY CalmSteps DEF StartGreedy, StartCold, StartWarm, StartResume, TakeRoute, NoRoute, GiveUp,
       NextToken, NextRound, Hop, Rebuild, Finish, FinishKeeping, FinishWarm, OrchestratorLeaves,
       Orphaned, Quiet
  <2> QED
    BY <2>1, CalmSteps DEF StartGreedy, StartCold, StartWarm, StartResume, TakeRoute, NoRoute, GiveUp,
       NextToken, NextRound, Hop, Rebuild, Finish, FinishKeeping, FinishWarm, OrchestratorLeaves,
       ResetSession, holderVars, controlVars, Quiet
<1>2. \A h \in Holder : conn'[h] # "dead" /\ \A n \in Holder : fwd'[h][n] # "dead"
  BY SocketsOpen, HopSockets DEF Quiet, NoSockets
<1>3. ASSUME NEW h \in Holder, Hop(h), req'.phase = "hop", Forwarding'
      PROVE  conn'[Named(0)'] = "open"
  <2>1. /\ req # None /\ req.phase = "hop" /\ Named(req.stage) = h /\ route' = route
        /\ setting' = setting /\ req'.sid = req.sid /\ req.stage \in Stage
    BY <1>3, HopExpects, HopFacts DEF Hop, Visits, NextHop
  <2>2. Named(0)' = Named(0) /\ Named(0) \in Holder
    BY <2>1, HopFacts DEF Named
  <2>3. setting.chained
    BY <1>3, <2>1 DEF Forwarding
  <2>4. CASE req.stage = 0
    <3>1. ~(0 > 0)
      OBVIOUS
    <3>2. ~Forwarding /\ Named(0) = h
      BY <2>1, <2>4, <3>1 DEF Forwarding
    <3> QED
      BY <1>3, <2>2, <3>2, HopSockets
  <2>5. CASE req.stage # 0
    <3>1. req.stage > 0
      <4>1. req.stage \in Nat
        BY <2>1, StageFacts
      <4> QED
        BY <2>5, <4>1
    <3>2. Forwarding
      BY <2>3, <3>1 DEF Forwarding
    <3>3. conn[Named(0)] = "open"
      BY <2>1, <3>2 DEF Quiet
    <3> QED
      BY <1>3, <2>2, <3>2, <3>3, HopSockets
  <2> QED
    BY <2>4, <2>5
<1>4. ASSUME NEW h \in Holder, Hop(h) PROVE req'.phase \notin {"failed", "raised"}
  <2>1. req \in Requests(setting) /\ req.phase = "hop"
    BY <1>4 DEF Hop, Visits, Typed, RequestTyped
  <2>2. req' = AfterHop
    BY <1>4 DEF Hop
  <2> QED
    BY <2>1, <2>2 DEF AfterHop, Requests
<1>5. ASSUME NoRoute PROVE Route = {} /\ req'.phase # "hop"
  <2>1. req \in Requests(setting) /\ Answers(req.sid) = {} /\ req.sid \in Session
    BY <1>5, PassFacts DEF NoRoute, Typed, RequestTyped
  <2>2. Route = {}
    BY <2>1, AnswerFacts DEF Quiet
  <2> QED
    BY <1>5, <2>1, <2>2 DEF NoRoute, Requests
<1>6. ASSUME GiveUp PROVE Route = {} /\ req'.phase # "hop"
  BY <1>6 DEF GiveUp, Quiet, Typed, RequestTyped, Requests
<1>7. ASSUME TakeRoute PROVE req'.phase = "hop" /\ ~Forwarding'
  <2>1. req'.phase = "hop" /\ req'.stage = 0
    BY <1>7 DEF TakeRoute, Typed, RequestTyped, Requests
  <2>2. ~(0 > 0)
    OBVIOUS
  <2> QED
    BY <2>1, <2>2 DEF Forwarding
<1>8. ASSUME \/ \E p, s, kind : StartGreedy(kind, p, s)
             \/ \E p, s : StartCold(p, s)
             \/ \E p : StartWarm(p)
             \/ StartResume \/ Rebuild \/ NextToken \/ \E m : NextRound(m)
      PROVE  req'.phase = "route"
  <2>1. req # None => req \in Requests(setting)
    BY DEF Typed, RequestTyped
  <2>2. ASSUME Rebuild \/ NextToken PROVE req'.phase = "route"
    BY <2>1, <2>2 DEF Rebuild, NextToken, Requests
  <2>3. ASSUME NEW m, NextRound(m) PROVE req'.phase = "route"
    <3>1. req # None /\ req' = [req EXCEPT !.phase = "route", !.seq = Extended,
                                          !.batch = <<"said">> \o Drafted(m), !.left = @ - 1]
      BY <2>3, RoundFacts DEF NextRound
    <3> QED
      BY <2>1, <3>1 DEF Requests
  <2> QED
    BY <1>8, <2>2, <2>3 DEF StartGreedy, StartCold, StartWarm, StartResume, Begin
<1>9. ASSUME Finish \/ FinishKeeping \/ FinishWarm \/ OrchestratorLeaves PROVE req' = None
  BY <1>9 DEF Finish, FinishKeeping, FinishWarm, OrchestratorLeaves
<1> QED
  <2>1. req' # None /\ req'.phase \in {"failed", "raised"} => Route = {}
    BY <1>4, <1>5, <1>6, <1>7, <1>8, <1>9, CalmSteps
  <2>2. req' # None /\ req'.phase = "hop" /\ Forwarding' => conn'[Named(0)'] = "open"
    BY <1>3, <1>5, <1>6, <1>7, <1>8, <1>9, CalmSteps
  <2> QED
    BY <1>1, <1>2, <2>1, <2>2 DEF Quiet, Route

LEMMA RememberedStays ==
  ASSUME Typed, Calm, Quiet, Remembered, Next PROVE Remembered'
<1> SUFFICES ASSUME NEW s \in Session, route'[s] # None PROVE pins'[s] = route'[s]
  BY DEF Remembered
<1>1. pins \in [Session -> Route \cup {None}] /\ route \in [Session -> Route \cup {None}]
  BY DEF Typed, RoutesTyped
<1>2. CASE TakeRoute
  BY <1>1, <1>2 DEF TakeRoute, Remembered
<1>3. CASE Rebuild \/ Finish
  BY <1>1, <1>3 DEF Rebuild, Finish, ResetSession, Remembered
<1>4. CASE FinishWarm
  BY <1>4 DEF FinishWarm, Remembered
<1>5. CASE OrchestratorLeaves
  BY <1>5 DEF OrchestratorLeaves
<1>6. CASE UNCHANGED <<pins, route>>
  BY <1>6 DEF Remembered
<1> QED
  BY <1>2, <1>3, <1>4, <1>5, <1>6, CalmSteps
     DEF StartGreedy, StartCold, StartWarm, StartResume, NoRoute, Hop, GiveUp, NextToken, NextRound,
         FinishKeeping, controlVars

LEMMA ApartStays == ASSUME Typed, Calm, Quiet, Apart, Next PROVE Apart'
<1> USE DEF Apart, Serving
<1>1. ASSUME NEW s \in Session, NEW k, NEW p, NEW t, NEW b, s \in free, Begin(k, p, s, t, b),
             free' = free \ {s}, UNCHANGED <<warm, blob>>
      PROVE  Apart'
  BY <1>1 DEF Begin
<1>2. ASSUME NEW p \in setting.prompts, NEW s \in Session, NEW kind,
             StartGreedy(kind, p, s) \/ StartCold(p, s)
      PROVE  Apart'
  BY <1>1, <1>2 DEF StartGreedy, StartCold, prefixes
<1>3. ASSUME NEW p, StartWarm(p) PROVE Apart'
  <2>1. /\ warm # None /\ UNCHANGED <<blob, free>>
        /\ warm' = [warm EXCEPT !.len = Shared(p)]
        /\ req'.kind = "draft" /\ req'.sid = warm.sid
    BY <1>3 DEF StartWarm, Reusable, Begin
  <2>2. warm'.sid = warm.sid
    BY <2>1 DEF Typed, PrefixTyped, Prefixes
  <2> QED
    BY <2>1, <2>2
<1>4. CASE StartResume
  <2>1. blob # None /\ blob' = None /\ UNCHANGED <<warm, free>> /\ req'.sid = blob.sid
    BY <1>4 DEF StartResume, Begin, Calm, prefixes
  <2> QED
    BY <2>1
<1>5. ASSUME FinishKeeping PROVE Apart'
  <2>1. /\ req # None /\ req' = None /\ req.kind \in {"keep", "resume"} /\ UNCHANGED <<warm, free>>
    BY <1>5 DEF FinishKeeping, Over, prefixes
  <2>2. req.kind # "draft"
    BY <2>1
  <2>3. blob' = blob \/ blob'.sid = req.sid
    BY <1>5 DEF FinishKeeping
  <2> QED
    BY <2>1, <2>2, <2>3
<1>6. ASSUME FinishWarm PROVE Apart'
  <2>1. req # None /\ req' = None /\ UNCHANGED <<blob, free>> /\ warm'.sid = req.sid
    BY <1>6 DEF FinishWarm, Over
  <2> QED
    BY <2>1
<1>7. ASSUME req # None, ~Ends, UNCHANGED <<warm, blob, free>> PROVE Apart'
  <2>1. req' # None /\ req'.sid = req.sid /\ req'.kind = req.kind
    BY <1>7, RequestGoesOn, RequestFacts, Frame, NextTyped DEF Typed, ControlTyped
  <2> QED
    BY <1>7, <2>1
<1>8. ASSUME Finish PROVE Apart'
  BY <1>8 DEF Finish, prefixes
<1>9. ASSUME OrchestratorLeaves PROVE Apart'
  BY <1>9 DEF OrchestratorLeaves
<1>10. ASSUME TakeRoute \/ NoRoute \/ (\E h \in Holder : Hop(h)) \/ Rebuild \/ GiveUp \/ NextToken
              \/ \E m \in 0 .. DraftLen : NextRound(m)
       PROVE  req # None /\ UNCHANGED <<warm, blob, free>>
  BY <1>10 DEF TakeRoute, NoRoute, Hop, Visits, Rebuild, GiveUp, NextToken, NextRound, prefixes
<1>11. Ends => Finish \/ FinishKeeping \/ FinishWarm \/ OrchestratorLeaves
  BY DEF Ends, ClientLeaves, Calm
<1> QED
  BY <1>2, <1>3, <1>4, <1>5, <1>6, <1>7, <1>8, <1>9, <1>10, <1>11, CalmSteps

LEMMA KeptStays ==
  ASSUME Typed, Decided, Calm, InOrder, Next PROVE KeptInPlace'
<1>1. /\ Quiet /\ Remembered /\ Apart /\ KeptInPlace /\ RunInPlace
  BY DEF InOrder
<1>2. ASSUME blob # None, blob' = blob PROVE Lies(blob.sid, blob.seq)'
  <2>1. blob.sid \in Session /\ ~Serving(blob.sid) /\ ~(warm # None /\ warm.sid = blob.sid)
    BY <1>1, <1>2 DEF Apart, Typed, PrefixTyped
  <2>2. pins'[blob.sid] = pins[blob.sid] /\ \A h \in Holder : kv'[h][blob.sid] = kv[h][blob.sid]
    BY <1>1, <2>1, Elsewhere
  <2>3. Lies(blob.sid, blob.seq)
    BY <1>1, <1>2 DEF KeptInPlace
  <2>4. \A k \in Stage : pins[blob.sid][k] \in Holder
    BY <2>3, RouteFacts DEF Lies
  <2>5. Route' = Route
    BY DEF Route
  <2> QED
    BY <1>2, <2>2, <2>3, <2>4, <2>5 DEF Lies
<1>3. ASSUME FinishKeeping, blob' # blob PROVE Lies(blob.sid, blob.seq)'
  <2>1. /\ req # None /\ req.phase = "decide" /\ UNCHANGED <<pins, kv>>
        /\ blob' = [sid |-> req.sid, seq |-> req.seq \o req.batch]
    BY <1>3 DEF FinishKeeping, Over, holderVars, controlVars
  <2>2. ~req.rebuilding
    BY <2>1 DEF Decided
  <2>3. Fed = req.seq \o req.batch
    BY <2>1, <2>2, FedFacts
  <2>4. \A k \in Stage : Relied(k) /\ Expected(k) = Fed
    BY <2>1 DEF Relied, Behind, Expected
  <2>5. \A k \in Stage : pins[req.sid] \in Route /\ kv[pins[req.sid][k]][req.sid] = Fed
    BY <1>1, <2>1, <2>4 DEF RunInPlace
  <2>6. Route' = Route /\ 0 \in Stage
    BY StageFacts DEF Route
  <2> QED
    BY <2>1, <2>3, <2>5, <2>6 DEF Lies
<1>4. blob' \in {blob, None} \/ FinishKeeping
  BY PrefixSteps
<1>5. blob = None /\ blob' = blob => blob' = None
  OBVIOUS
<1> QED
  BY <1>2, <1>3, <1>4, <1>5 DEF KeptInPlace, Lies

-----------------------------------------------------------------------------
(***************************************************************************)
(* A draft request's history begins with its prompt.                       *)
(***************************************************************************)
LEMMA StartOfHistory ==
  ASSUME NEW a \in Text, NEW b \in Text, NEW p \in Text, setting \in Setting
  PROVE  /\ StartsWith(a, p) => StartsWith(a \o b, p)
         /\ StartsWith(a \o b, p) /\ Len(p) <= Len(a) => StartsWith(a, p)
<1>1. /\ Len(a) \in Nat /\ Len(b) \in Nat /\ Len(p) \in Nat
      /\ Len(a \o b) = Len(a) + Len(b)
  BY TextFacts
<1>2. Len(p) <= Len(a) => SubSeq(a \o b, 1, Len(p)) = SubSeq(a, 1, Len(p))
  BY <1>1, PrefixOfHistory
<1>3. Len(p) <= Len(a) => Len(p) <= Len(a \o b)
  BY <1>1
<1> QED
  BY <1>2, <1>3 DEF StartsWith

LEMMA DraftStays == ASSUME Typed, DraftStands, Next PROVE DraftStands'
<1> SUFFICES ASSUME req' # None, req'.kind = "draft"
             PROVE  ~req'.rebuilding /\ StartsWith(req'.seq \o req'.batch, req'.prompt)
  BY DEF DraftStands, StartsWith
<1>1. setting \in Setting /\ setting.prompts \subseteq Text
  BY TextFacts DEF Typed, ControlTyped
<1>2. ASSUME NEW p \in setting.prompts, NEW s, StartCold(p, s) \/ StartSpoiled(p, s)
      PROVE  ~req'.rebuilding /\ StartsWith(req'.seq \o req'.batch, req'.prompt)
  <2>1. req'.seq = <<>> /\ req'.batch = p /\ req'.prompt = p /\ ~req'.rebuilding
    BY <1>2 DEF StartCold, StartSpoiled, Begin
  <2>2. p \in Text /\ <<>> \o p = p /\ Len(p) \in Nat /\ SubSeq(p, 1, Len(p)) = p
    BY <1>1, TextFacts, WholePrefix
  <2> QED
    BY <2>1, <2>2 DEF StartsWith
<1>3. ASSUME NEW p \in setting.prompts, StartWarm(p)
      PROVE  ~req'.rebuilding /\ StartsWith(req'.seq \o req'.batch, req'.prompt)
  <2> DEFINE n == Shared(p)
  <2>1. /\ req'.seq = SubSeq(p, 1, n) /\ req'.batch = SubSeq(p, n + 1, Len(p))
        /\ req'.prompt = p /\ ~req'.rebuilding /\ warm # None
    BY <1>3 DEF StartWarm, Reusable, Begin
  <2>2. n \in Nat /\ n < Len(p) /\ p \in Text /\ Len(p) \in Nat
    BY <2>1, SharedFacts
  <2> HIDE DEF n
  <2>3. n <= Len(p)
    BY <2>2
  <2>4. SubSeq(p, 1, n) \o SubSeq(p, n + 1, Len(p)) = p
    BY <1>1, <2>2, <2>3, PrefixAndRest
  <2>5. req'.seq \o req'.batch = p
    BY <2>1, <2>4
  <2>6. SubSeq(p, 1, Len(p)) = p /\ Len(p) <= Len(p)
    BY <1>1, <2>2, WholePrefix
  <2> QED
    BY <2>1, <2>5, <2>6 DEF StartsWith
<1>4. ASSUME StartResume \/ \E kind, p, s : StartGreedy(kind, p, s) PROVE FALSE
  BY <1>4 DEF StartResume, StartGreedy, Begin
<1>5. Start => ~req'.rebuilding /\ StartsWith(req'.seq \o req'.batch, req'.prompt)
  BY <1>2, <1>3, <1>4 DEF Start
<1>6. ASSUME req # None, req \in Requests(setting), req.kind = "draft"
      PROVE  ~req.rebuilding /\ StartsWith(req.seq \o req.batch, req.prompt)
  BY <1>6 DEF DraftStands
<1>7. ASSUME NEW m, NextRound(m)
      PROVE  ~req'.rebuilding /\ StartsWith(req'.seq \o req'.batch, req'.prompt)
  <2>1. req \in Requests(setting) /\ req # None /\ req.kind = "draft"
    BY <1>7 DEF NextRound, Typed, RequestTyped
  <2>2. /\ req.seq \in Text /\ req.batch \in Text /\ req.prompt \in Text /\ Extended \in Text
        /\ <<"said">> \o Drafted(m) \in Text
    BY <1>1, <1>7, <2>1, RoundFacts, RequestFacts, DraftedIsText, TextFacts DEF Typed
  <2>3. /\ req'.seq = Extended /\ req'.batch = <<"said">> \o Drafted(m)
        /\ req'.prompt = req.prompt /\ ~req'.rebuilding
    <3>1. req' = [req EXCEPT !.phase = "route", !.seq = Extended,
                             !.batch = <<"said">> \o Drafted(m), !.left = @ - 1]
      BY <1>7, RoundFacts
    <3>2. ~req.rebuilding
      BY <1>6, <2>1
    <3> QED
      BY <2>1, <3>1, <3>2 DEF Requests
  <2>4. StartsWith(Extended, req.prompt)
    <3>1. StartsWith(req.seq \o req.batch, req.prompt)
      BY <1>6, <2>1
    <3>2. Len(req.seq) \in Nat /\ Len(req.prompt) \in Nat /\ Len(req.batch) \in Nat
      BY <1>1, <2>2, TextFacts
    <3>3. CASE Len(req.seq) < Len(req.prompt)
      <4>1. Kept = Len(req.batch)
        BY <3>3 DEF Kept
      <4>2. Extended = req.seq \o req.batch
        BY <1>1, <2>2, <4>1, WholePrefix DEF Extended
      <4> QED
        BY <3>1, <4>2
    <3>4. CASE ~(Len(req.seq) < Len(req.prompt))
      <4>1. Len(req.prompt) <= Len(req.seq)
        BY <3>2, <3>4
      <4>2. StartsWith(req.seq, req.prompt)
        BY <1>1, <2>2, <3>1, <4>1, StartOfHistory
      <4>3. SubSeq(req.batch, 1, Kept) \in Text
        BY <1>7, RoundFacts
      <4> QED
        BY <1>1, <2>2, <4>2, <4>3, StartOfHistory DEF Extended
    <3> QED
      BY <3>3, <3>4
  <2> QED
    BY <1>1, <2>2, <2>3, <2>4, StartOfHistory
<1>8. ASSUME req # None, NEW h \in Holder, Hop(h)
      PROVE  /\ req'.kind = req.kind /\ req'.prompt = req.prompt /\ req'.seq = req.seq
             /\ req'.batch = req.batch /\ (~req.rebuilding => ~req'.rebuilding)
  <2>1. req \in Requests(setting) /\ req' = AfterHop
    BY <1>8 DEF Hop, Typed, RequestTyped
  <2> QED
    BY <2>1 DEF AfterHop, Requests
<1>9. ASSUME req # None,
             \/ TakeRoute
             \/ req' \in {[req EXCEPT !.phase = "failed"], [req EXCEPT !.phase = "raised"]}
      PROVE  /\ req'.kind = req.kind /\ req'.prompt = req.prompt /\ req'.seq = req.seq
             /\ req'.batch = req.batch /\ req'.rebuilding = req.rebuilding
  BY <1>9 DEF TakeRoute, Typed, RequestTyped, Requests
<1>10. ASSUME Rebuild \/ NextToken PROVE FALSE
  BY <1>10 DEF Rebuild, NextToken, Typed, RequestTyped, Requests
<1>11. req # None => req \in Requests(setting)
  BY DEF Typed, RequestTyped
<1>12. ASSUME req # None, req'.kind = req.kind, req'.prompt = req.prompt, req'.seq = req.seq,
              req'.batch = req.batch, ~req.rebuilding => ~req'.rebuilding
       PROVE  ~req'.rebuilding /\ StartsWith(req'.seq \o req'.batch, req'.prompt)
  BY <1>6, <1>11, <1>12
<1> QED
  <2>1. CASE UNCHANGED <<req, route>>
    BY <1>12, <2>1
  <2>2. CASE req # None /\ (TakeRoute \/ (\E h \in Holder : Hop(h))
                            \/ req' \in {[req EXCEPT !.phase = "failed"], [req EXCEPT !.phase = "raised"]})
    BY <1>8, <1>9, <1>12, <2>2
  <2>3. TakeRoute \/ (\E h \in Holder : Hop(h)) => req # None
    BY DEF TakeRoute, Hop, Visits
  <2> QED
    BY <1>5, <1>7, <1>10, <2>1, <2>2, <2>3, RequestSteps

-----------------------------------------------------------------------------
(***************************************************************************)
(* The warm session.                                                       *)
(***************************************************************************)
\* What the run leaves behind is its history, along the pinned route.
LEMMA DecidedRun ==
  ASSUME Typed, Decided, RunInPlace, req # None, req.phase = "decide"
  PROVE  /\ pins[req.sid] \in Route /\ req.seq \o req.batch \in Text
         /\ \A k \in Stage : /\ kv[pins[req.sid][k]][req.sid] = req.seq \o req.batch
                             /\ req.kind = "draft" => route[req.sid] \in Route /\ conn[Named(k)] = "open"
<1>1. ~req.rebuilding
  BY DEF Decided
<1>2. Fed = req.seq \o req.batch /\ Fed \in Text
  BY <1>1, FedFacts
<1>3. \A k \in Stage : Relied(k) /\ Expected(k) = Fed
  BY DEF Relied, Behind, Expected
<1>4. 0 \in Stage
  BY StageFacts
<1> QED
  BY <1>2, <1>3, <1>4 DEF RunInPlace

\* A roll-back of a KV that lies behind open sockets.
LEMMA RollBack ==
  ASSUME Typed, NEW s \in Session, NEW r \in Route, NEW t \in Text, NEW n \in Nat, n <= Len(t),
         \A k \in Stage : kv[r[k]][s] = t /\ conn[r[k]] = "open"
  PROVE  \A k \in Stage : TruncateKV(s, n)[r[k]][s] = SubSeq(t, 1, n)
<1> SUFFICES ASSUME NEW k \in Stage PROVE TruncateKV(s, n)[r[k]][s] = SubSeq(t, 1, n)
  OBVIOUS
<1> DEFINE h == r[k]
<1>1. h \in Holder /\ t # None /\ Len(t) \in Nat /\ kv[h][s] = t /\ conn[h] = "open"
  BY RouteFacts, TextFacts DEF Typed, ControlTyped
<1> HIDE DEF h
<1>2. Shorter(n, Len(t)) = n
  BY <1>1 DEF Shorter
<1>3. \A g \in Holder : TruncateKV(s, n)[g][s] = IF conn[g] = "open" /\ kv[g][s] # None
                                              THEN SubSeq(kv[g][s], 1, Shorter(n, Len(kv[g][s])))
                                              ELSE kv[g][s]
  BY Truncate DEF Typed
<1>4. TruncateKV(s, n)[h][s] = SubSeq(t, 1, n)
  BY <1>1, <1>2, <1>3
<1> QED
  BY <1>4 DEF h

LEMMA BecomesWarm ==
  ASSUME Typed, Decided, DraftStands, Calm, InOrder, FinishWarm, route'[req.sid] # None
  PROVE  Lies(warm.sid, warm.prompt)' /\ Linked(warm.sid)'
<1> DEFINE old == IF warm = None THEN {} ELSE {warm.sid} \ {req.sid}
           s == req.sid
           p == req.prompt
           t == req.seq \o req.batch
<1>1. /\ req # None /\ req.kind = "draft" /\ req.phase \in {"decide", "raised"}
      /\ Quiet /\ Remembered /\ RunInPlace
  BY DEF FinishWarm, Over, InOrder
<1>2. s \in Session /\ p \in Text /\ Len(p) \in Nat
  BY <1>1, RequestFacts, TextFacts DEF Typed, RequestTyped, ControlTyped
<1>3. /\ kv' = ResetKV(TruncateKV(s, Len(p)), old) /\ s \notin old
      /\ route' = [r \in Session |-> IF r \in old THEN None ELSE route[r]]
      /\ pins' = [r \in Session |-> IF r \in old THEN None ELSE pins[r]]
  BY DEF FinishWarm
<1> HIDE DEF old
<1>4. pins'[s] = pins[s] /\ route'[s] = route[s] /\ pins[s] = route[s] /\ route[s] \in Route
  BY <1>1, <1>2, <1>3 DEF Remembered, Typed, RoutesTyped
<1>5. req.phase = "decide"
  BY <1>1, <1>4 DEF Quiet
<1>6. t \in Text /\ \A k \in Stage : kv[route[s][k]][s] = t /\ conn[route[s][k]] = "open"
  BY <1>1, <1>4, <1>5, DecidedRun DEF Named
<1>7. Len(p) <= Len(t) /\ SubSeq(t, 1, Len(p)) = p
  BY <1>1 DEF DraftStands, StartsWith
<1> HIDE DEF s, p, t
<1>8. \A k \in Stage : TruncateKV(s, Len(p))[route[s][k]][s] = p
  BY <1>2, <1>4, <1>6, <1>7, RollBack
<1>9. \A k \in Stage : route[s][k] \in Holder /\ kv'[route[s][k]][s] = p
  BY <1>2, <1>3, <1>4, <1>8, RouteFacts, Truncate, Reset DEF Typed
<1>10. \A k \in Stage : conn'[route[s][k]] = "open"
  <2>1. \E refused \in Refusals : Forget(refused)
    BY DEF FinishWarm
  <2> QED
    BY <1>6, <2>1, ForgetNothing
<1>11. Route' = Route /\ warm'.sid = s /\ warm'.prompt = p
  BY DEF Route, FinishWarm, s, p
<1> QED
  BY <1>4, <1>9, <1>10, <1>11 DEF Lies, Linked

LEMMA WarmBegins ==
  ASSUME Typed, NEW p \in setting.prompts, StartWarm(p)
  PROVE  /\ req' # None /\ req'.sid = warm.sid /\ req'.kind = "draft" /\ req'.phase = "route"
         /\ req'.seq = SubSeq(p, 1, Shared(p)) /\ ~req'.rebuilding
<1>1. /\ warm # None /\ setting' = setting
      /\ Begin("draft", p, warm.sid, SubSeq(p, 1, Shared(p)), SubSeq(p, Shared(p) + 1, Len(p)))
  BY DEF StartWarm, Reusable
<1>2. /\ warm.sid \in Session /\ SubSeq(p, 1, Shared(p)) \in Text
      /\ SubSeq(p, Shared(p) + 1, Len(p)) \in Text
  BY <1>1, SharedFacts, PrefixOfText, SuffixOfText
<1>3. /\ 0 \in 0 .. MaxFailovers /\ setting.maxNew \in 0 .. setting.maxNew /\ 0 \in Stage
      /\ "route" \in Phase /\ FALSE \in BOOLEAN /\ "draft" \in setting.kinds
  BY SessionAssumption, StageFacts DEF Typed, ControlTyped, Phase, StartWarm
<1>4. req' \in Requests(setting)
  BY <1>1, <1>2, <1>3 DEF Begin, Requests, Text, Token
<1> QED
  BY <1>1, <1>4, RequestFacts DEF Begin, Typed

LEMMA WarmStays ==
  ASSUME Typed, Decided, DraftStands, Calm, InOrder, Next PROVE WarmInPlace'
<1> USE DEF Serving
<1>1. Quiet /\ Remembered /\ Apart /\ WarmInPlace
  BY DEF InOrder
<1>2. CASE FinishWarm
  <2>1. warm' = [sid |-> req.sid, prompt |-> req.prompt, len |-> Len(req.prompt)]
    BY <1>2 DEF FinishWarm
  <2>2. warm'.sid = req.sid /\ warm'.prompt = req.prompt /\ warm'.len = Len(warm'.prompt)
    BY <2>1
  <2>3. route'[req.sid] # None => Lies(warm.sid, warm.prompt)' /\ Linked(warm.sid)'
    BY <1>2, BecomesWarm
  <2> QED
    BY <2>2, <2>3 DEF WarmInPlace, Lies, Linked
<1>3. ASSUME NEW p \in setting.prompts, StartWarm(p) PROVE WarmInPlace'
  <2>1. warm # None /\ warm' = [warm EXCEPT !.len = Shared(p)] /\ req' # None /\ req'.sid = warm.sid
    BY <1>3, WarmBegins DEF StartWarm, Reusable
  <2>2. warm'.sid = warm.sid
    BY <2>1 DEF Typed, PrefixTyped, Prefixes
  <2> QED
    BY <2>1, <2>2 DEF WarmInPlace
<1>4. ASSUME ~FinishWarm, \A p \in setting.prompts : ~StartWarm(p), warm' = warm, warm # None, ~Serving(warm.sid)'
      PROVE  WarmInPlace'
  <2> DEFINE s == warm.sid
  <2>1. ~OrchestratorLeaves
    BY <1>4 DEF OrchestratorLeaves
  <2>2. ~Serving(s)
    <3> SUFFICES ASSUME Serving(s) PROVE FALSE
      OBVIOUS
    <3>1. req # None /\ req.kind = "draft"
      BY <1>1, <1>4 DEF Apart
    <3>2. ~Ends
      BY <1>4, <2>1, <3>1 DEF Ends, Finish, FinishKeeping, ClientLeaves, Calm
    <3>3. req' # None /\ req'.sid = req.sid
      BY <3>1, <3>2, RequestGoesOn, RequestFacts, NextTyped, Frame DEF Typed, ControlTyped
    <3> QED
      BY <1>4, <3>3
  <2>3. s \in Session
    BY <1>4 DEF Typed, PrefixTyped, Prefixes
  <2>4. pins'[s] = pins[s] /\ route'[s] = route[s] /\ \A h \in Holder : kv'[h][s] = kv[h][s]
    BY <1>1, <1>4, <2>1, <2>2, <2>3, Elsewhere
  <2>5. warm.len = Len(warm.prompt) /\ (route[s] # None => Lies(s, warm.prompt) /\ Linked(s))
    BY <1>1, <1>4, <2>2 DEF WarmInPlace
  <2>6. \A r \in Route, k \in Stage : r[k] \in Holder
    BY RouteFacts
  <2>7. Route' = Route
    BY DEF Route
  <2>8. route[s] # None => Lies(s, warm.prompt)'
    BY <1>4, <2>4, <2>5, <2>6, <2>7 DEF Lies
  <2>9. route[s] # None => Linked(s)'
    BY <1>1, <1>4, <2>1, <2>4, <2>5, <2>6, <2>7, OpenStays DEF Linked
  <2> QED
    BY <1>4, <2>4, <2>5, <2>8, <2>9 DEF WarmInPlace, Lies, Linked
<1>5. ASSUME warm' = None \/ Serving(warm.sid)' PROVE WarmInPlace'
  BY <1>5 DEF WarmInPlace
<1> QED
  BY <1>2, <1>3, <1>4, <1>5, PrefixSteps

-----------------------------------------------------------------------------
(***************************************************************************)
(* The running session.                                                    *)
(***************************************************************************)
\* What the coordinator may rely on for stage k, along the pinned route.
RunsOn(k) ==
  /\ pins[req.sid] \in Route /\ kv[pins[req.sid][k]][req.sid] = Expected(k)
  /\ req.kind = "draft" => route[req.sid] \in Route /\ conn[Named(k)] = "open"

\* Drafting needs a star, so every pass of a draft uses the coordinator's sockets.
LEMMA DraftsHopStraight ==
  ASSUME Typed, Calm, NoDraftingChain, req # None, req.kind = "draft" PROVE ~Forwarding
<1>1. setting \in Setting /\ "draft" \in setting.kinds
  BY RequestFacts DEF Typed, ControlTyped, RequestTyped
<1> QED
  BY <1>1 DEF NoDraftingChain, Calm, Forwarding

LEMMA HopRuns ==
  ASSUME Typed, Calm, NoDraftingChain, InOrder, NEW h \in Holder, Hop(h), NEW k \in Stage, Relied(k)'
  PROVE  RunsOn(k)'
<1> DEFINE s == req.sid
           j == req.stage
           r == route[s]
<1>1. /\ Visits(h) /\ req # None /\ req.phase = "hop" /\ j \in Stage /\ s \in Session
      /\ r \in Route /\ Named(j) = h /\ Quiet /\ Remembered /\ RunInPlace
      /\ UNCHANGED <<setting, route, pins>> /\ kv' = Forwarded(h)
  BY HopFacts DEF Hop, Visits, NextHop, InOrder, controlVars
<1>2. pins[s] = r /\ r[j] = h
  BY <1>1, RouteFacts DEF Remembered, Named
<1>3. /\ req' # None /\ req'.sid = s /\ req'.kind = req.kind
      /\ k <= j => Expected(k)' = Fed
      /\ k > j => Expected(k)' = req.seq /\ Pos > 0
  BY HopExpects
<1>4. /\ k \in Nat /\ j \in Nat /\ r[k] \in Holder /\ (r[k] = h <=> k = j)
  <2> HIDE DEF s, j, r
  <2>1. r \in Route /\ j \in Stage /\ r[j] = h
    BY <1>1, <1>2
  <2>2. Serves[r[k]] = k /\ Serves[r[j]] = j /\ r[k] \in Holder
    BY <2>1, RouteFacts
  <2>3. k \in Nat /\ j \in Nat
    BY <2>1, StageFacts
  <2> QED
    BY <2>1, <2>2, <2>3
<1>5. \A g \in Holder : kv'[g][s] = IF g = h THEN IF StartsAfresh(h) THEN Feed ELSE kv[h][s] \o Feed
                                    ELSE kv[g][s]
  BY <1>1, Forward
<1>6. (k < j => Expected(k) = Fed /\ Relied(k)) /\ (k >= j /\ Pos > 0 => Expected(k) = req.seq /\ Relied(k))
  <2>1. req.phase \in {"route", "hop", "decide"} /\ req.phase # "decide" /\ req.phase = "hop"
    BY <1>1
  <2>2. k >= j => ~(k < j)
    BY <1>4
  <2> HIDE DEF j, s, r
  <2> QED
    BY <2>1, <2>2 DEF Expected, Behind, Relied, j
<1>7. Relied(k) => kv[r[k]][s] = Expected(k) /\ (req.kind = "draft" => conn[r[k]] = "open")
  BY <1>1, <1>2 DEF RunInPlace, Named
<1>8. Named(k)' = r[k] /\ Route' = Route
  BY <1>1, <1>3 DEF Named, Route
<1>9. req.kind = "draft" => \A g \in Holder : conn'[g] = IF g = h THEN "open" ELSE conn[g]
  BY <1>1, HopSockets, DraftsHopStraight
<1> HIDE DEF s, j, r
<1>10. CASE k # j
  <2>1. Relied(k) /\ Expected(k)' = Expected(k)
    BY <1>3, <1>4, <1>6, <1>10
  <2>2. kv'[r[k]][s] = Expected(k)' /\ (req.kind = "draft" => conn'[r[k]] = "open")
    BY <1>4, <1>5, <1>7, <1>9, <1>10, <2>1
  <2> QED
    BY <1>1, <1>2, <1>3, <1>8, <2>2 DEF RunsOn, r
<1>11. CASE k = j
  <2>1. Expected(k)' = Fed
    BY <1>3, <1>4, <1>11
  <2>2. kv'[r[k]][s] = Fed
    <3>1. CASE Pos = 0
      BY <1>4, <1>5, <1>11, <3>1 DEF StartsAfresh, Fed
    <3>2. CASE Pos # 0
      <4>1. Pos > 0
        BY <1>1, <3>2, FedFacts
      <4>2. kv[h][s] = req.seq
        BY <1>4, <1>6, <1>7, <1>11, <4>1
      <4>3. ~StartsAfresh(h) /\ req.seq \o Feed = Fed
        BY <1>1, <3>2, <4>1, <4>2, FedFacts DEF StartsAfresh, s
      <4> QED
        BY <1>4, <1>5, <1>11, <4>2, <4>3
    <3> QED
      BY <3>1, <3>2
  <2>3. req.kind = "draft" => conn'[r[k]] = "open"
    BY <1>4, <1>9, <1>11
  <2> QED
    BY <1>1, <1>2, <1>3, <1>8, <2>1, <2>2, <2>3 DEF RunsOn, r
<1> QED
  BY <1>10, <1>11

\* A pass continues on the route it has, or on the pinned one.
LEMMA RouteRuns ==
  ASSUME Typed, Calm, InOrder, TakeRoute, NEW k \in Stage, Relied(k)' PROVE RunsOn(k)'
<1> DEFINE s == req.sid
<1>1. /\ req # None /\ req \in Requests(setting) /\ req.phase = "route" /\ s \in Session
      /\ req' = [req EXCEPT !.phase = "hop", !.stage = 0]
      /\ UNCHANGED <<setting, kv, conn>> /\ ready = Holder /\ RunInPlace
  BY PassFacts DEF TakeRoute, Typed, RequestTyped, holderVars, sockets, InOrder, Quiet
<1>2. /\ req'.phase = "hop" /\ req'.stage = 0 /\ req'.sid = s /\ req'.seq = req.seq
      /\ req'.kind = req.kind /\ Pos' = Pos
  BY <1>1 DEF Requests, Pos
<1>3. ~Behind(k)' /\ ~Behind(k)
  <2>1. ~(k < 0)
    BY StageFacts
  <2> QED
    BY <1>1, <1>2, <2>1 DEF Behind
<1>4. Pos > 0 /\ Relied(k)
  BY <1>1, <1>2, <1>3 DEF Relied
<1>5. Expected(k) = req.seq /\ Expected(k)' = req.seq /\ Route' = Route
  BY <1>2, <1>3 DEF Expected, Route
<1>6. /\ pins[s] \in Route /\ kv[pins[s][k]][s] = req.seq
      /\ req.kind = "draft" => route[s] \in Route /\ conn[Named(k)] = "open"
  BY <1>1, <1>4, <1>5 DEF RunInPlace
<1>7. CASE route[s] # None
  <2>1. Pos # 0
    BY <1>4
  <2>2. UNCHANGED <<route, pins>>
    BY <1>7, <2>1 DEF TakeRoute
  <2>3. Named(k)' = Named(k)
    BY <1>2, <2>2 DEF Named
  <2> QED
    BY <1>1, <1>2, <1>5, <1>6, <2>2, <2>3 DEF RunsOn
<1>8. CASE route[s] = None
  <2>1. req.kind # "draft"
    BY <1>6, <1>8, RouteFacts
  <2>2. PICK a \in Answers(s) : pins' = [pins EXCEPT ![s] = a]
    BY <1>8 DEF TakeRoute
  <2>3. a = pins[s]
    BY <1>1, <1>6, <2>2, AnswerFacts, RouteFacts
  <2>4. pins'[s] = pins[s]
    BY <1>1, <2>2, <2>3 DEF Typed, RoutesTyped
  <2> QED
    BY <1>1, <1>2, <1>5, <1>6, <2>1, <2>4 DEF RunsOn
<1> QED
  BY <1>7, <1>8

LEMMA TokenRuns ==
  ASSUME Typed, Decided, InOrder, NextToken, NEW k \in Stage PROVE RunsOn(k)'
<1>1. /\ req # None /\ req \in Requests(setting) /\ req.phase = "decide" /\ RunInPlace
      /\ req' = [req EXCEPT !.phase = "route", !.seq = @ \o req.batch, !.batch = <<"said">>,
                            !.attempt = 0, !.left = @ - 1]
      /\ UNCHANGED <<setting, kv, conn, pins, route>> /\ req.kind # "draft"
  BY DEF NextToken, Typed, RequestTyped, holderVars, controlVars, sockets, InOrder
<1>2. req'.phase = "route" /\ req'.sid = req.sid /\ req'.seq = req.seq \o req.batch /\ req'.kind = req.kind
  BY <1>1 DEF Requests
<1>3. Expected(k)' = req.seq \o req.batch /\ Route' = Route
  BY <1>2 DEF Expected, Behind, Route
<1> QED
  BY <1>1, <1>2, <1>3, DecidedRun DEF RunsOn

LEMMA RoundRuns ==
  ASSUME Typed, Decided, Calm, InOrder, NEW m, NextRound(m), NEW k \in Stage PROVE RunsOn(k)'
<1> DEFINE s == req.sid
           r == route[s]
           t == req.seq \o req.batch
<1>1. /\ req # None /\ req \in Requests(setting) /\ req.phase = "decide" /\ req.kind = "draft"
      /\ RunInPlace /\ Quiet /\ Remembered /\ setting \in Setting
      /\ UNCHANGED <<setting, pins, route>>
  BY DEF NextRound, Typed, RequestTyped, ControlTyped, controlVars, InOrder
<1>2. /\ s \in Session /\ req.seq \in Text /\ req.batch \in Text /\ Kept \in Nat
      /\ Kept <= Len(req.batch) /\ Extended \in Text /\ Len(Extended) \in Nat
      /\ IF Len(req.seq) < Len(req.prompt) THEN kv' = kv ELSE kv' = TruncateKV(s, Len(Extended))
      /\ req' = [req EXCEPT !.phase = "route", !.seq = Extended,
                            !.batch = <<"said">> \o Drafted(m), !.left = @ - 1]
  BY RoundFacts
<1>3. req'.phase = "route" /\ req'.sid = s /\ req'.seq = Extended /\ req'.kind = "draft"
  BY <1>1, <1>2 DEF Requests
<1>4. Expected(k)' = Extended /\ Route' = Route /\ Named(k)' = r[k]
  BY <1>1, <1>3 DEF Expected, Behind, Route, Named
<1>5. /\ r \in Route /\ pins[s] = r /\ t \in Text
      /\ \A i \in Stage : kv[r[i]][s] = t /\ conn[r[i]] = "open"
  <2>1. /\ pins[s] \in Route /\ t \in Text
        /\ \A i \in Stage : kv[pins[s][i]][s] = t /\ r \in Route /\ conn[r[i]] = "open"
    BY <1>1, DecidedRun DEF Named
  <2>2. r # None
    BY <2>1, RouteFacts
  <2> QED
    BY <1>1, <1>2, <2>1, <2>2 DEF Remembered
<1>6. conn'[r[k]] = "open"
  <2>1. UNCHANGED <<conn, fwd>>
    BY ForgetNothing DEF NextRound, sockets
  <2> QED
    BY <1>5, <2>1
<1>7. kv'[r[k]][s] = Extended
  <2>1. CASE Len(req.seq) < Len(req.prompt)
    <3>1. Kept = Len(req.batch)
      BY <2>1 DEF Kept
    <3>2. Extended = t
      BY <1>1, <1>2, <3>1, WholePrefix DEF Extended
    <3> QED
      BY <1>2, <1>5, <2>1, <3>2
  <2>2. CASE ~(Len(req.seq) < Len(req.prompt))
    <3>1. /\ Len(req.seq) \in Nat /\ Len(req.batch) \in Nat
          /\ Len(t) = Len(req.seq) + Len(req.batch)
      BY <1>1, <1>2, TextFacts
    <3>2. SubSeq(t, 1, Len(req.seq) + Kept) = Extended
      BY <1>1, <1>2, PrefixOfHistory DEF Extended
    <3>3. Len(Extended) = Len(req.seq) + Kept
      <4>1. SubSeq(req.batch, 1, Kept) \in Text /\ Len(SubSeq(req.batch, 1, Kept)) = Kept
        BY <1>2, PrefixOfText
      <4>2. Len(Extended) = Len(req.seq) + Len(SubSeq(req.batch, 1, Kept))
        BY <1>1, <1>2, <4>1, TextFacts DEF Extended
      <4> QED
        BY <4>1, <4>2
    <3> HIDE DEF s, r, t
    <3>4. Len(Extended) <= Len(t)
      <4>1. Kept \in Nat /\ Kept <= Len(req.batch)
        BY <1>2
      <4> QED
        BY <3>1, <3>3, <4>1
    <3>5. \A i \in Stage : TruncateKV(s, Len(Extended))[r[i]][s] = SubSeq(t, 1, Len(Extended))
      BY <1>2, <1>5, <3>4, RollBack
    <3> QED
      BY <1>2, <2>2, <3>2, <3>3, <3>5
  <2> QED
    BY <2>1, <2>2
<1> QED
  BY <1>1, <1>3, <1>4, <1>5, <1>6, <1>7 DEF RunsOn

LEMMA WarmRuns ==
  ASSUME Typed, Calm, InOrder, NEW p \in setting.prompts, StartWarm(p), NEW k \in Stage
  PROVE  RunsOn(k)'
<1> DEFINE s == warm.sid
           r == route[s]
           q == warm.prompt
           n == Shared(p)
<1>1. /\ req = None /\ warm # None /\ route[s] # None /\ Remembered /\ WarmInPlace
      /\ UNCHANGED <<setting, conn, pins, route>> /\ setting \in Setting
      /\ kv' = IF n < warm.len THEN TruncateKV(s, n) ELSE kv
  BY DEF StartWarm, Reusable, InOrder, controlVars, sockets, Typed, ControlTyped
<1>2. /\ req' # None /\ req'.sid = s /\ req'.kind = "draft" /\ req'.phase = "route"
      /\ req'.seq = SubSeq(p, 1, n)
  BY WarmBegins
<1>3. /\ s \in Session /\ q \in Text /\ p \in Text /\ n \in Nat /\ n <= CommonLength(p, q)
      /\ n <= Len(q) /\ Len(q) \in Nat
  BY <1>1, SharedFacts, TextFacts
<1>4. /\ warm.len = Len(q) /\ r \in Route /\ pins[s] = r
      /\ \A i \in Stage : kv[r[i]][s] = q /\ conn[r[i]] = "open"
  <2>1. ~Serving(s)
    BY <1>1 DEF Serving
  <2>2. warm.len = Len(q) /\ Lies(s, q) /\ Linked(s)
    BY <1>1, <2>1 DEF WarmInPlace
  <2> QED
    BY <1>1, <1>3, <2>2 DEF Lies, Linked, Remembered
<1>5. Expected(k)' = SubSeq(p, 1, n) /\ Named(k)' = r[k] /\ Route' = Route
  BY <1>1, <1>2 DEF Expected, Behind, Named, Route
<1> HIDE DEF s, r, q, n
<1>6. SubSeq(p, 1, n) = SubSeq(q, 1, n)
  BY <1>1, <1>3, CommonPrefix
<1>7. kv'[r[k]][s] = SubSeq(q, 1, n)
  <2>1. CASE n < warm.len
    BY <1>1, <1>3, <1>4, <2>1, RollBack
  <2>2. CASE ~(n < warm.len)
    <3>1. n = Len(q)
      BY <1>3, <1>4, <2>2
    <3>2. SubSeq(q, 1, n) = q
      BY <1>1, <1>3, <3>1, WholePrefix
    <3> QED
      BY <1>1, <1>4, <2>2, <3>2
  <2> QED
    BY <2>1, <2>2
<1> QED
  BY <1>1, <1>2, <1>4, <1>5, <1>6, <1>7 DEF RunsOn, r

LEMMA ResumeRuns ==
  ASSUME Typed, InOrder, StartResume, NEW k \in Stage PROVE RunsOn(k)'
<1>1. /\ blob # None /\ Lies(blob.sid, blob.seq) /\ UNCHANGED <<setting, kv, pins>>
      /\ req'.kind = "resume" /\ req'.sid = blob.sid /\ req'.seq = blob.seq /\ req'.phase = "route"
  BY DEF StartResume, Begin, InOrder, KeptInPlace, holderVars, controlVars
<1>2. Expected(k)' = blob.seq /\ Route' = Route
  BY <1>1 DEF Expected, Behind, Route
<1> QED
  BY <1>1, <1>2 DEF RunsOn, Lies

\* A request that starts cold or again relies on nothing.
LEMMA NothingToRelyOn ==
  ASSUME Typed, NEW k \in Stage,
         \/ \E kind, p, s : StartGreedy(kind, p, s)
         \/ \E p, s : StartCold(p, s)
         \/ Rebuild \/ NoRoute \/ GiveUp
  PROVE  ~Relied(k)'
<1>1. ASSUME NoRoute \/ GiveUp PROVE ~Relied(k)'
  BY <1>1 DEF NoRoute, GiveUp, Relied, Typed, RequestTyped, Requests
<1>2. ASSUME req'.phase = "route", Pos' = 0 PROVE ~Relied(k)'
  <2>1. ~(0 > 0)
    OBVIOUS
  <2> QED
    BY <1>2, <2>1 DEF Relied, Behind
<1>3. Len(<<>>) = 0
  BY TextFacts DEF Typed, ControlTyped
<1>4. ASSUME \/ \E kind, p, s : StartGreedy(kind, p, s)
             \/ \E p, s : StartCold(p, s)
      PROVE  req'.phase = "route" /\ Pos' = 0
  BY <1>3, <1>4 DEF StartGreedy, StartCold, Begin, Pos
<1>5. ASSUME Rebuild PROVE req'.phase = "route" /\ Pos' = 0
  <2>1. req # None /\ req \in Requests(setting)
    BY <1>5 DEF Rebuild, Typed, RequestTyped
  <2>2. req'.phase = "route" /\ req'.rebuilding = (req.seq # <<>>) /\ req'.seq = req.seq
    BY <1>5, <2>1 DEF Rebuild, Requests
  <2> QED
    BY <1>3, <2>2 DEF Pos
<1> QED
  BY <1>1, <1>2, <1>4, <1>5

LEMMA RunStays ==
  ASSUME Typed, Decided, Calm, NoDraftingChain, InOrder, Next PROVE RunInPlace'
<1> SUFFICES ASSUME req' # None, NEW k \in Stage, Relied(k)' PROVE RunsOn(k)'
  BY DEF RunInPlace, RunsOn
<1>1. Quiet
  BY DEF InOrder
<1>2. ~Finish /\ ~FinishKeeping /\ ~FinishWarm /\ ~OrchestratorLeaves
  BY DEF Finish, FinishKeeping, FinishWarm, OrchestratorLeaves
<1> QED
  BY <1>1, <1>2, CalmSteps, NothingToRelyOn, HopRuns, RouteRuns, TokenRuns, RoundRuns, WarmRuns,
     ResumeRuns

-----------------------------------------------------------------------------
LEMMA ReuseStays ==
  ASSUME ReuseInv, NoDraftingChain, [Next]_vars PROVE ReuseInv'
<1>1. ASSUME Next PROVE ReuseInv'
  <2>1. Typed' /\ Decided' /\ DraftStands' /\ (Calm' <=> Calm)
    BY <1>1, NextTyped, DecidedStays, DraftStays, Frame DEF ReuseInv, Calm
  <2>2. ASSUME Calm PROVE InOrder'
    BY <1>1, <2>2, QuietStays, RememberedStays, ApartStays, KeptStays, WarmStays, RunStays
       DEF ReuseInv, InOrder
  <2> QED
    BY <2>1, <2>2 DEF ReuseInv
<1>2. ASSUME UNCHANGED vars PROVE ReuseInv'
  <2>1. Typed'
    BY <1>2, NextTyped DEF ReuseInv
  <2>2. UNCHANGED <<setting, up, kv, ready, pins, conn, fwd, late, route, warm, blob, free, req>>
    BY <1>2 DEF vars
  <2>3. Decided' /\ DraftStands' /\ (Calm' <=> Calm)
    BY <2>2 DEF ReuseInv, Decided, DraftStands, StartsWith, Calm
  <2>4. Quiet => Quiet'
    BY <2>2 DEF Quiet, Forwarding, Named, Route
  <2>5. (Remembered => Remembered') /\ (Apart => Apart') /\ (KeptInPlace => KeptInPlace')
    BY <2>2 DEF Remembered, Apart, KeptInPlace, Lies, Route, Serving
  <2>6. WarmInPlace => WarmInPlace'
    BY <2>2 DEF WarmInPlace, Lies, Linked, Route, Serving
  <2>7. RunInPlace => RunInPlace'
    <3>1. \A k \in Stage : Relied(k)' = Relied(k) /\ Expected(k)' = Expected(k) /\ Named(k)' = Named(k)
      BY <2>2, SameReliance
    <3> QED
      BY <2>2, <3>1 DEF RunInPlace, Route
  <2> QED
    BY <2>1, <2>3, <2>4, <2>5, <2>6, <2>7 DEF ReuseInv, InOrder
<1> QED
  BY <1>1, <1>2

\* Where everything is in order, the pass finds its history ahead.
LEMMA InOrderIsExact == ReuseInv => ReuseIsExact
<1> SUFFICES ASSUME ReuseInv, Calm, req # None, req.phase = "hop", Pos > 0, NEW k \in Stage, Ahead(k)
             PROVE  kv[Named(k)][req.sid] = req.seq
  BY DEF ReuseIsExact, HistoryIsInPlace, Calm
<1>1. Typed /\ Remembered /\ RunInPlace
  BY DEF ReuseInv, InOrder
<1>2. req.stage \in Stage /\ req.sid \in Session /\ route[req.sid] \in Route
  BY <1>1, HopFacts
<1>3. Named(k) = pins[req.sid][k]
  BY <1>1, <1>2, RouteFacts DEF Remembered, Named
<1>4. Relied(k) /\ Expected(k) = req.seq
  <2>1. k >= req.stage /\ k \in Nat /\ req.stage \in Nat
    BY <1>2, StageFacts DEF Ahead
  <2>2. ~(k < req.stage)
    BY <2>1
  <2>3. req.phase \in {"route", "hop", "decide"} /\ req.phase # "decide"
    OBVIOUS
  <2> QED
    BY <2>2, <2>3 DEF Relied, Expected, Behind
<1> QED
  BY <1>1, <1>3, <1>4 DEF RunInPlace

\* While nobody dies, speculative passes on warm and on cold sessions, and
\* resumed sessions, are computed on the whole history, and each prompt's KV
\* is rolled back to what the next prompt shares with it
\* (coordinator.py:590-651, 1082-1104, specdecode.py:94-98), in meshes that do
\* not draft over a chain.
THEOREM ReuseCorrect == ASSUME NoDraftingChain PROVE Spec => []ReuseIsExact
<1>1. Init => ReuseInv
  <2>1. Init => Decided /\ DraftStands
    BY DEF Init, Decided, DraftStands
  <2>2. Init => Quiet
    BY DEF Init, Quiet, NoSockets
  <2>3. Init => Remembered /\ Apart /\ KeptInPlace /\ WarmInPlace /\ RunInPlace
    BY DEF Init, Remembered, Apart, KeptInPlace, WarmInPlace, RunInPlace
  <2> QED
    BY <2>1, <2>2, <2>3, InitTyped DEF ReuseInv, InOrder
<1>2. ReuseInv /\ [Next]_vars => ReuseInv'
  BY ReuseStays
<1> QED
  BY <1>1, <1>2, InOrderIsExact, PTL DEF Spec
=============================================================================
