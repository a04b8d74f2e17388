--------------------------- MODULE PipelineSession ---------------------------
(***************************************************************************)
(* A session on the data plane: the coordinator of engine/coordinator.py   *)
(* drives one request at a time over one connection set through a pinned   *)
(* route of holders, each of which keeps the KV of every session in its    *)
(* worker-global store (engine/stage_worker.py, engine/kv.py).             *)
(*                                                                         *)
(* Three kinds of request share the machinery.  A "greedy" one decodes     *)
(* token by token and survives the death of a holder by rebuilding the     *)
(* session on a fresh route.  A "draft" one verifies DraftLen drafted      *)
(* tokens per pass, rolls the rejected ones back and leaves its prompt     *)
(* behind as the warm prefix of the next.  A "keep" one is greedy, leaves  *)
(* its KV on the holders and hands out a resume state, which a "resume"    *)
(* request, on this orchestrator or on another, attaches to.               *)
(*                                                                         *)
(* The coordinator either visits the holders one by one (the star) or      *)
(* sends the pass to the first, the head, which forwards it to the next    *)
(* over a socket of its own (the chain, engine/chain.py); the reply comes  *)
(* back the same way.                                                      *)
(*                                                                         *)
(* What can go wrong is holders that crash and come back empty, sockets    *)
(* that die under a live holder, a reply that is lost or too late, a       *)
(* control frame that falls into a dead socket, an orchestrator that dies. *)
(*                                                                         *)
(* Abstractions.  The network's numbers are left out: a holder's KV is the *)
(* sequence of tokens it has been fed, and a pass is correct when every    *)
(* holder's KV is the history the coordinator believes in.  The registry   *)
(* (module MeshRegistry) is its answers: the READY holders and the pins.   *)
(* A hop, which is a write, the forward and a read, is one step: it comes  *)
(* through, never reaches the holder, loses its reply or is given up while *)
(* the holder goes on.  A frame that reaches a live holder does so at      *)
(* once.  The relay over a live mesh is modelled; the coordinator holds no *)
(* layer of its own.                                                       *)
(***************************************************************************)
EXTENDS Integers, Sequences, FiniteSets

CONSTANTS
  Holder,       \* nodes that hold a slice
  NumStages,    \* stages behind the orchestrator
  Serves,       \* Serves[h]: the stage holder h serves
  Session,      \* session ids an orchestrator may still hand out
  DraftLen,     \* drafted tokens per verification (K)
  MaxFailovers, \* rebuilds before a hop's failure is raised
  PrefixMin,    \* shortest prefix worth reusing
  MaxHistory,   \* bound: a longer session is not resumed
  Setting,      \* the settings a mesh may run in
  None

Stage == 0 .. NumStages - 1

Phase == {"route", "hop", "failed", "decide", "raised"}

\* Tokens, requests and warm prefixes of a mesh that runs in setting w.
Tokens(w) == {"said", "wrong"} \cup UNION {{p[i] : i \in 1 .. Len(p)} : p \in w.prompts}

Requests(w) ==
  [kind : w.kinds, prompt : w.prompts \cup {<<>>}, sid : Session, seq : Seq(Tokens(w)),
   batch : Seq(Tokens(w)), phase : Phase, rebuilding : BOOLEAN, stage : Stage,
   attempt : 0 .. MaxFailovers, left : 0 .. w.maxNew]

Prefixes(w) == [sid : Session, prompt : w.prompts, len : Nat]

ASSUME SessionAssumption ==
  /\ NumStages \in Nat \ {0}
  /\ Serves \in [Holder -> Stage]
  /\ DraftLen \in Nat /\ MaxFailovers \in Nat /\ MaxHistory \in Nat
  /\ PrefixMin \in Nat \ {0}
  /\ None \notin Holder
  /\ None \notin [Stage -> Holder]
  /\ \A w \in Setting :
       /\ w.chained \in BOOLEAN /\ w.maxNew \in Nat
       /\ w.prompts \subseteq Seq(Tokens(w)) \ {<<>>}
       /\ w.kinds \subseteq {"greedy", "draft", "keep", "resume"}
       /\ w.faults \subseteq {"restart", "drop", "break", "refuse", "late", "expire", "die",
                              "replace", "repeat", "leave"}
       /\ w.chained => NumStages <= 2   \* a head's sockets are all there is to track
       /\ None \notin Seq(Tokens(w)) /\ None \notin Requests(w) /\ None \notin Prefixes(w)

VARIABLES
  setting, \* chained or star, prompts and kinds of request made, tokens a
           \* request decodes at most (maxNew), faults that occur
  up,      \* holders whose process runs
  kv,      \* kv[h][s]: the tokens in h's KV of session s, None if it has none
  ready,   \* holders the control plane would route to
  pins,    \* pins[s]: the route the control plane remembers for s
  conn,    \* conn[h]: the orchestrator's socket to h
  fwd,     \* fwd[h][n]: the socket to n on which h forwards in a chain
  late,    \* a forward whose coordinator has given up on it, or None
  route,   \* route[s]: the route the orchestrator pinned for s
  warm,    \* the warm session, the prompt it is known by and how much of it is
           \* taken to be in its KV, or None
  spare,   \* the warm session of the default connection, which has no sockets
  blob,    \* the last resume state handed out, or None
  free,    \* session ids not handed out yet
  req      \* the request under way, or None

holderVars == <<up, kv>>
controlVars == <<ready, pins>>
sockets == <<conn, fwd>>
prefixes == <<warm, spare>>
vars == <<setting, up, kv, ready, pins, conn, fwd, late, route, warm, spare, blob, free, req>>

Route == {r \in [Stage -> Holder] : \A k \in Stage : Serves[r[k]] = k}

(***************************************************************************)
(* A request: seq are the tokens the coordinator takes to be in the KV,    *)
(* batch those of the pass under way; rebuilding says that the pass feeds  *)
(* seq again.  stage is the next hop, attempt counts the rebuilds of this  *)
(* pass, left the tokens still wanted.                                     *)
(***************************************************************************)
Pos == IF req.rebuilding THEN 0 ELSE Len(req.seq)

Feed == IF req.rebuilding THEN req.seq ELSE req.batch

Named(k) == route[req.sid][k]

NextHop(h) == Named(req.stage) = h

Serving(s) == req # None /\ req.sid = s

\* How many leading tokens two prompts share.
CommonLength(a, b) ==
  Cardinality({i \in 1 .. Len(a) : i <= Len(b) /\ SubSeq(a, 1, i) = SubSeq(b, 1, i)})

Shorter(m, n) == IF m < n THEN m ELSE n

\* Drafts of which the first m are what the target would have said.
Drafted(m) == [i \in 1 .. DraftLen |-> IF i <= m THEN "said" ELSE "wrong"]

\* Leading tokens of a verified batch that stand: its head and the accepted.
Accepted(batch) ==
  Cardinality({i \in 1 .. Len(batch) : \A j \in 2 .. i : batch[j] = "said"})

-----------------------------------------------------------------------------
(***************************************************************************)
(* Control frames.  They are written to every socket of the connection set *)
(* and nobody answers: a holder behind an open socket acts on them before  *)
(* its next frame, one behind a dead socket never does.  A dead socket may *)
(* refuse the write, and is then forgotten.                                *)
(***************************************************************************)
Dead == {h \in Holder : conn[h] = "dead"}

Refusals == IF "refuse" \in setting.faults THEN SUBSET Dead ELSE {{}}

NoSockets == [h \in Holder |-> "none"]

\* The coordinator's sockets become c; a holder whose own is gone closes those
\* it forwards on.
Connected(c) ==
  /\ conn' = c
  /\ fwd' = [h \in Holder |-> IF c[h] = "open" THEN fwd[h] ELSE NoSockets]

Forget(refused) ==
  Connected([h \in Holder |-> IF h \in refused THEN "none" ELSE conn[h]])

\* KVOP_RESET of the sessions S, over the KV table k.
ResetKV(k, S) ==
  [h \in Holder |-> [s \in Session |->
     IF s \in S /\ conn[h] = "open" /\ k[h][s] # None THEN <<>> ELSE k[h][s]]]

\* KVOP_TRUNCATE of session sid to n tokens.
TruncateKV(sid, n) ==
  [h \in Holder |-> [s \in Session |->
     IF s = sid /\ conn[h] = "open" /\ kv[h][s] # None
     THEN SubSeq(kv[h][s], 1, Shorter(n, Len(kv[h][s]))) ELSE kv[h][s]]]

\* _reset_sessions: forget the route, free the replica load, reset the KV.
ResetSession(s) ==
  \E refused \in Refusals :
    /\ Forget(refused)
    /\ kv' = ResetKV(kv, {s})
    /\ route' = [route EXCEPT ![s] = None]
    /\ pins' = [pins EXCEPT ![s] = None]

-----------------------------------------------------------------------------
(***************************************************************************)
(* A request begins.                                                       *)
(***************************************************************************)
Begin(kind, prompt, s, seq, batch) ==
  req' = [kind |-> kind, prompt |-> prompt, sid |-> s, seq |-> seq, batch |-> batch,
          phase |-> "route", rebuilding |-> FALSE, stage |-> 0, attempt |-> 0,
          left |-> setting.maxNew]

StartGreedy(kind, prompt, s) ==
  /\ req = None
  /\ kind \in setting.kinds \cap {"greedy", "keep"} /\ s \in free
  /\ Begin(kind, prompt, s, <<>>, prompt)
  /\ free' = free \ {s}
  /\ UNCHANGED <<setting, late, holderVars, controlVars, sockets, route, prefixes, blob>>

\* generate_resume_state: attach to the KV the holders kept.  The client may
\* ask again with a state it has resumed from already.
StartResume ==
  /\ req = None /\ "resume" \in setting.kinds
  /\ blob # None /\ Len(blob.seq) < MaxHistory
  /\ Begin("resume", <<>>, blob.sid, blob.seq, <<"said">>)
  /\ blob' \in {None} \cup (IF "repeat" \in setting.faults THEN {blob} ELSE {})
  /\ UNCHANGED <<setting, late, holderVars, controlVars, sockets, route, prefixes, free>>

\* The prefix of the warm session that prompt may reuse: at least one token
\* is left to feed.
Shared(prompt) == Shorter(CommonLength(prompt, warm.prompt), Len(prompt) - 1)

Reusable(prompt) ==
  /\ warm # None
  /\ Shared(prompt) >= PrefixMin
  /\ route[warm.sid] # None
  /\ \A k \in Stage : conn[route[warm.sid][k]] # "none"

\* Fault: the warm KV is not rolled back to the shared prefix.
ReuseUntrimmed(prompt) ==
  /\ req = None /\ "draft" \in setting.kinds
  /\ Reusable(prompt)
  /\ Begin("draft", prompt, warm.sid, SubSeq(prompt, 1, Shared(prompt)),
           SubSeq(prompt, Shared(prompt) + 1, Len(prompt)))
  /\ UNCHANGED <<setting, late, holderVars, controlVars, sockets, route, prefixes, blob, free>>

\* _begin_session, hit: the warm KV is rolled back to the shared prefix, if it
\* is taken to hold more.
StartWarm(prompt) ==
  LET shared == Shared(prompt)
  IN  /\ req = None /\ "draft" \in setting.kinds
      /\ Reusable(prompt)
      /\ kv' = IF shared < warm.len THEN TruncateKV(warm.sid, shared) ELSE kv
      /\ warm' = [warm EXCEPT !.len = shared]
      /\ Begin("draft", prompt, warm.sid, SubSeq(prompt, 1, shared),
               SubSeq(prompt, shared + 1, Len(prompt)))
      /\ UNCHANGED <<setting, late, up, controlVars, sockets, route, spare, blob, free>>

\* _begin_session, a write of the roll-back refused: the warm session is
\* given up, then a fresh one starts.
StartSpoiled(prompt, s) ==
  /\ req = None /\ "draft" \in setting.kinds /\ s \in free
  /\ Reusable(prompt) /\ Shared(prompt) < warm.len
  /\ \E refused \in Refusals \ {{}} :
       /\ Forget(refused)
       /\ kv' = ResetKV(kv, {warm.sid})
  /\ route' = [route EXCEPT ![warm.sid] = None]
  /\ pins' = [pins EXCEPT ![warm.sid] = None]
  /\ warm' = None
  /\ Begin("draft", prompt, s, <<>>, prompt)
  /\ free' = free \ {s}
  /\ UNCHANGED <<setting, late, up, ready, spare, blob>>

\* _begin_session, miss.
StartCold(prompt, s) ==
  /\ req = None /\ "draft" \in setting.kinds /\ s \in free
  /\ ~Reusable(prompt)
  /\ Begin("draft", prompt, s, <<>>, prompt)
  /\ free' = free \ {s}
  /\ UNCHANGED <<setting, late, holderVars, controlVars, sockets, route, prefixes, blob>>

-----------------------------------------------------------------------------
(***************************************************************************)
(* The relay.                                                              *)
(***************************************************************************)
\* Routes the control plane may answer: a remembered holder that is READY is
\* kept, any other slot gets a READY one.
Answers(s) ==
  {r \in Route : \A k \in Stage :
     /\ r[k] \in ready
     /\ pins[s] # None /\ pins[s][k] \in ready => r[k] = pins[s][k]}

TakeRoute ==
  /\ req # None /\ req.phase = "route"
  /\ IF route[req.sid] = None \/ Pos = 0
     THEN \E r \in Answers(req.sid) :
            /\ route' = [route EXCEPT ![req.sid] = r]
            /\ pins' = [pins EXCEPT ![req.sid] = r]
     ELSE UNCHANGED <<route, pins>>
  /\ req' = [req EXCEPT !.phase = "hop", !.stage = 0]
  /\ UNCHANGED <<setting, late, holderVars, ready, sockets, prefixes, blob, free>>

\* A coverage gap: the control plane of the same process raises through, a
\* remote one answers with an HTTP error, which is retried like a wire error.
NoRoute ==
  /\ req # None /\ req.phase = "route"
  /\ route[req.sid] = None \/ Pos = 0
  /\ Answers(req.sid) = {}
  /\ req' \in {[req EXCEPT !.phase = "raised"], [req EXCEPT !.phase = "failed"]}
  /\ UNCHANGED <<setting, late, holderVars, controlVars, sockets, route, prefixes, blob, free>>

\* The socket over which the holder of stage k is reached.
Link(k) == IF setting.chained /\ k > 0 THEN fwd[Named(k - 1)][Named(k)] ELSE conn[Named(k)]

Reachable(k) == Named(k) \in up /\ Link(k) # "dead"

\* The pass is beyond the head of a chain, which must live to pass on the reply.
Forwarding == setting.chained /\ req.stage > 0

HeadServes == Forwarding => Named(0) \in up /\ conn[Named(0)] = "open"

Visits(h) == req # None /\ req.phase = "hop" /\ NextHop(h)

\* Fault: position 0 does not start the KV afresh.
AppendAlways(h) ==
  [kv EXCEPT ![h][req.sid] = IF @ = None THEN Feed ELSE @ \o Feed]

\* Fault: a forward whose coordinator gave up outlives the KV it was for.
NeverOrphaned(h, s) == late

\* _get_cache: position 0, or no KV, starts a new one.
StartsAfresh(h) == kv[h][req.sid] = None \/ Pos = 0

\* _get_cache and the forward.
Forwarded(h) ==
  [kv EXCEPT ![h][req.sid] = IF StartsAfresh(h) THEN Feed ELSE @ \o Feed]

\* A late forward whose KV was replaced or freed reaches that KV no more; one
\* of a chain's head is still passed on.
Orphaned(h, s) ==
  IF late = None THEN None
  ELSE IF late.holder # h \/ late.sid # s THEN late
  ELSE IF late.next = None THEN None
  ELSE [late EXCEPT !.own = FALSE]

AfterHop ==
  IF req.stage + 1 < NumStages THEN [req EXCEPT !.stage = @ + 1]
  ELSE IF req.rebuilding THEN [req EXCEPT !.rebuilding = FALSE, !.phase = "route"]
  ELSE [req EXCEPT !.phase = "decide"]

Hop(h) ==
  /\ Visits(h) /\ HeadServes /\ Reachable(req.stage)
  /\ kv' = Forwarded(h)
  /\ late' = IF StartsAfresh(h) THEN Orphaned(h, req.sid) ELSE late
  /\ IF Forwarding THEN fwd' = [fwd EXCEPT ![Named(req.stage - 1)][h] = "open"] /\ UNCHANGED conn
     ELSE Connected([conn EXCEPT ![h] = "open"])
  /\ req' = AfterHop
  /\ UNCHANGED <<setting, up, controlVars, route, prefixes, blob, free>>

\* The pass failed: the coordinator closes its socket (in a chain, the one to
\* the head), reports h (the report is best-effort and rate-limited) and
\* drops the pin.
HopBreaks(h) ==
  /\ Connected([conn EXCEPT ![Named(IF setting.chained THEN 0 ELSE req.stage)] = "none"])
  /\ ready' \in {ready, ready \ {h}}
  /\ route' = [route EXCEPT ![req.sid] = None]
  /\ req' = [req EXCEPT !.phase = "failed"]
  /\ UNCHANGED <<setting, up, pins, prefixes, blob, free>>

\* The holder cannot be reached; its predecessor in a chain says so.
HopFails(h) ==
  /\ Visits(h) /\ HeadServes /\ ~Reachable(req.stage)
  /\ HopBreaks(h)
  /\ UNCHANGED <<kv, late>>

\* The holder did its part, with nothing to forward, but the reply was lost on
\* its way to the coordinator or to the predecessor in a chain.
ReplyLost(h) ==
  /\ Visits(h) /\ HeadServes /\ Reachable(req.stage)
  /\ ~setting.chained \/ req.stage + 1 = NumStages
  /\ (IF Forwarding THEN "break" ELSE "drop") \in setting.faults
  /\ HopBreaks(h)
  /\ kv' = Forwarded(h)
  /\ late' = IF StartsAfresh(h) THEN Orphaned(h, req.sid) ELSE late

\* A forward at holder h that goes on without its coordinator: it feeds the KV
\* it took, if that is still to be done (own), and then the holder next.
GoesOn(h, own, next) ==
  late' = [holder |-> h, sid |-> req.sid, feed |-> Feed, pos |-> Pos, own |-> own,
           next |-> next]

\* The head of the chain is lost while the pass is beyond it.  It forwards
\* the activation if only the coordinator's socket is gone: before the
\* coordinator sees it, or at any time after.
HeadLost(h) ==
  /\ Visits(h) /\ ~HeadServes
  /\ HopBreaks(Named(0))
  /\ \/ UNCHANGED <<kv, late>>
     \/ /\ h \in up
        /\ kv' = Forwarded(h)
        /\ late' = IF StartsAfresh(h) THEN Orphaned(h, req.sid) ELSE late
     \/ /\ "drop" \in setting.faults /\ late = None
        /\ Named(0) \in up /\ kv[Named(0)][req.sid] # None
        /\ GoesOn(Named(0), FALSE, h)
        /\ UNCHANGED kv

\* The holder has taken its KV and computes on when the coordinator gives the
\* hop up: it has read for too long, or its socket is gone.  In a chain that
\* is taken for a failure of the head.
HopAbandoned(h) ==
  /\ Visits(h) /\ HeadServes /\ Reachable(req.stage)
  /\ setting.faults \cap {"late", "drop"} # {} /\ late = None
  /\ HopBreaks(IF setting.chained THEN Named(0) ELSE h)
  /\ kv' = [kv EXCEPT ![h][req.sid] = IF StartsAfresh(h) THEN <<>> ELSE @]
  /\ GoesOn(h, TRUE, IF setting.chained /\ req.stage + 1 < NumStages
                     THEN Named(req.stage + 1) ELSE None)

\* The late forward ends: it writes the KV it took and, as the head of a
\* chain, forwards to the holder the old route named, if that can be reached.
LateForward ==
  /\ late # None
  /\ LET own == IF late.own THEN [kv EXCEPT ![late.holder][late.sid] = @ \o late.feed] ELSE kv
     IN  \/ /\ late.next \in up
           /\ kv' = [own EXCEPT ![late.next][late.sid] =
                       IF @ = None \/ late.pos = 0 THEN late.feed ELSE @ \o late.feed]
        \/ /\ late.next \notin up \/ "break" \in setting.faults
           /\ kv' = own
  /\ late' = None
  /\ UNCHANGED <<setting, up, controlVars, sockets, route, prefixes, blob, free, req>>

\* Fault: one rebuild too many.
RebuildOnceMore ==
  /\ req # None /\ req.phase = "failed"
  /\ req.kind # "draft" /\ req.attempt <= MaxFailovers
  /\ ResetSession(req.sid)
  /\ req' = [req EXCEPT !.phase = "route", !.attempt = @ + 1,
                        !.rebuilding = req.seq # <<>>]
  /\ UNCHANGED <<setting, late, up, ready, prefixes, blob, free>>

\* Fault: a failed rebuild is not counted as an attempt.
RebuildForever ==
  /\ req # None /\ req.phase = "failed"
  /\ req.kind # "draft" /\ req.attempt < MaxFailovers
  /\ ResetSession(req.sid)
  /\ req' = [req EXCEPT !.phase = "route", !.rebuilding = req.seq # <<>>]
  /\ UNCHANGED <<setting, late, up, ready, prefixes, blob, free>>

\* _relay_with_failover: reset the session everywhere and feed its history
\* again before the failed pass is repeated.
Rebuild ==
  /\ req # None /\ req.phase = "failed"
  /\ req.kind # "draft" /\ req.attempt < MaxFailovers
  /\ ResetSession(req.sid)
  /\ req' = [req EXCEPT !.phase = "route", !.attempt = @ + 1,
                        !.rebuilding = req.seq # <<>>]
  /\ UNCHANGED <<setting, late, up, ready, prefixes, blob, free>>

GiveUp ==
  /\ req # None /\ req.phase = "failed"
  /\ req.kind = "draft" \/ req.attempt = MaxFailovers
  /\ req' = [req EXCEPT !.phase = "raised"]
  /\ UNCHANGED <<setting, late, holderVars, controlVars, sockets, route, prefixes, blob, free>>

-----------------------------------------------------------------------------
(***************************************************************************)
(* A pass came through.                                                    *)
(***************************************************************************)
\* Greedy: the batch is history now and the token it gave is fed next.
NextToken ==
  /\ req # None /\ req.phase = "decide"
  /\ req.kind # "draft" /\ req.left > 0
  /\ req' = [req EXCEPT !.phase = "route", !.seq = @ \o req.batch, !.batch = <<"said">>,
                        !.attempt = 0, !.left = @ - 1]
  /\ UNCHANGED <<setting, late, holderVars, controlVars, sockets, route, prefixes, blob, free>>

\* Speculative: the accepted tokens stay, the rest is rolled back, and the
\* correction heads the next batch.  The prompt's own pass has no drafts.
NextRound(m) ==
  LET prefill == Len(req.seq) < Len(req.prompt)
      keep == IF prefill THEN Len(req.batch) ELSE Accepted(req.batch)
      seq == req.seq \o SubSeq(req.batch, 1, keep)
  IN  /\ req # None /\ req.phase = "decide"
      /\ req.kind = "draft" /\ req.left > 0
      /\ IF prefill THEN UNCHANGED <<sockets, kv>>
         ELSE \E refused \in Refusals :
                Forget(refused) /\ kv' = TruncateKV(req.sid, Len(seq))
      /\ req' = [req EXCEPT !.phase = "route", !.seq = seq,
                            !.batch = <<"said">> \o Drafted(m), !.left = @ - 1]
      /\ UNCHANGED <<setting, late, up, controlVars, route, prefixes, blob, free>>

\* The request is over: enough tokens, an end-of-text token, the client gone,
\* or an exception.
Over == req # None /\ req.phase \in {"decide", "raised"}

\* Fault: the session's replica load is not freed.
FinishHoldingRoute ==
  /\ Over /\ req.kind \in {"greedy", "resume"}
  /\ \E refused \in Refusals :
       /\ Forget(refused)
       /\ kv' = ResetKV(kv, {req.sid})
  /\ route' = [route EXCEPT ![req.sid] = None]
  /\ req' = None
  /\ UNCHANGED <<setting, late, up, controlVars, prefixes, blob, free>>

Finish ==
  /\ Over /\ req.kind \in {"greedy", "resume"}
  /\ ResetSession(req.sid)
  /\ req' = None
  /\ UNCHANGED <<setting, late, up, ready, prefixes, blob, free>>

\* keep_warm, which a resumed request may ask for too: nothing is freed, and a success hands out the resume state.
FinishKeeping ==
  /\ Over /\ req.kind \in {"keep", "resume"}
  /\ blob' = IF req.phase = "decide"
             THEN [sid |-> req.sid, seq |-> req.seq \o req.batch] ELSE blob
  /\ req' = None
  /\ UNCHANGED <<setting, late, holderVars, controlVars, sockets, route, prefixes, free>>

\* _end_session: roll back to the prompt, free the previous warm session and
\* become the warm one.
FinishWarm ==
  LET old == IF warm = None THEN {} ELSE {warm.sid} \ {req.sid}
  IN  /\ Over /\ req.kind = "draft"
      /\ \E refused \in Refusals :
           /\ Forget(refused)
           /\ kv' = ResetKV(TruncateKV(req.sid, Len(req.prompt)), old)
      /\ route' = [s \in Session |-> IF s \in old THEN None ELSE route[s]]
      /\ pins' = [s \in Session |-> IF s \in old THEN None ELSE pins[s]]
      /\ warm' = [sid |-> req.sid, prompt |-> req.prompt, len |-> Len(req.prompt)]
      /\ req' = None
      /\ UNCHANGED <<setting, late, up, ready, spare, blob, free>>

\* The client of a stream is gone when a token is written to it.  The handler
\* leaves the request gate, and its connection set, before it drops the
\* generator: that one ends on the default connection, whose control frames
\* reach nobody, and a speculative session becomes its warm one.
ClientLeaves ==
  /\ "leave" \in setting.faults
  /\ req # None /\ req.kind \in {"greedy", "draft"}
  /\ req.phase = "route" /\ req.attempt = 0 /\ Len(req.seq) >= Len(req.prompt)
  /\ LET over == IF req.kind = "greedy" THEN {req.sid} ELSE spare \ {req.sid}
     IN  /\ route' = [s \in Session |-> IF s \in over THEN None ELSE route[s]]
         /\ pins' = [s \in Session |-> IF s \in over THEN None ELSE pins[s]]
  /\ spare' = IF req.kind = "draft" THEN {req.sid} ELSE spare
  /\ req' = None
  /\ UNCHANGED <<setting, late, holderVars, ready, sockets, warm, blob, free>>

-----------------------------------------------------------------------------
(***************************************************************************)
(* The environment.                                                        *)
(***************************************************************************)
\* A holder's process dies with its KV; sockets to it are dead.
Crash(h) ==
  /\ "restart" \in setting.faults /\ h \in up
  /\ up' = up \ {h}
  /\ kv' = [kv EXCEPT ![h] = [s \in Session |-> None]]
  /\ conn' = [conn EXCEPT ![h] = IF @ = "open" THEN "dead" ELSE @]
  /\ fwd' = [p \in Holder |-> IF p = h THEN NoSockets
               ELSE [fwd[p] EXCEPT ![h] = IF @ = "open" THEN "dead" ELSE @]]
  /\ late' = IF late # None /\ late.holder = h THEN None ELSE late
  /\ UNCHANGED <<setting, controlVars, route, prefixes, blob, free, req>>

\* The control plane notices that h is gone.
Reap(h) ==
  /\ h \in ready \ up
  /\ ready' = ready \ {h}
  /\ UNCHANGED <<setting, late, holderVars, pins, sockets, route, prefixes, blob, free, req>>

\* h registers again, loaded and empty, and becomes READY.
Rejoin(h) ==
  /\ h \notin up
  /\ up' = up \cup {h}
  /\ ready' = ready \cup {h}
  /\ UNCHANGED <<setting, late, kv, pins, sockets, route, prefixes, blob, free, req>>

\* A heartbeat clears a suspicion.
Beat(h) ==
  /\ h \in up \ ready
  /\ ready' = ready \cup {h}
  /\ UNCHANGED <<setting, late, holderVars, pins, sockets, route, prefixes, blob, free, req>>

\* A socket dies under a live holder: the coordinator's ("drop"), or one on
\* which a holder forwards ("break").
Drop(h) ==
  /\ \/ /\ "drop" \in setting.faults /\ conn[h] = "open"
        /\ Connected([conn EXCEPT ![h] = "dead"])
     \/ /\ "break" \in setting.faults /\ UNCHANGED conn
        /\ \E p \in Holder : fwd[p][h] = "open" /\ fwd' = [fwd EXCEPT ![p][h] = "dead"]
  /\ UNCHANGED <<setting, late, holderVars, controlVars, route, prefixes, blob, free, req>>

\* Fault: only the KV of a session that was reset is reaped.
ExpireReset(h, s) ==
  /\ "expire" \in setting.faults /\ h \in up
  /\ kv[h][s] = <<>>
  /\ ~Serving(s)
  /\ kv' = [kv EXCEPT ![h][s] = None]
  /\ late' = Orphaned(h, s)
  /\ UNCHANGED <<setting, up, controlVars, sockets, route, prefixes, blob, free, req>>

\* The holder's reaper frees a session nobody touched for the TTL.
Expire(h, s) ==
  /\ "expire" \in setting.faults /\ h \in up
  /\ kv[h][s] # None
  /\ ~Serving(s)
  /\ kv' = [kv EXCEPT ![h][s] = None]
  /\ late' = Orphaned(h, s)
  /\ UNCHANGED <<setting, up, controlVars, sockets, route, prefixes, blob, free, req>>

\* The orchestrator dies under a request or is replaced between two: another
\* one has its own sockets and routes, and no warm session.
OrchestratorLeaves ==
  /\ (IF req = None THEN "replace" ELSE "die") \in setting.faults
  /\ req' = None /\ warm' = None /\ spare' = {}
  /\ Connected(NoSockets)
  /\ route' = [s \in Session |-> None]
  /\ UNCHANGED <<setting, late, holderVars, controlVars, blob, free>>

Init ==
  /\ setting \in Setting
  /\ up = Holder
  /\ kv = [h \in Holder |-> [s \in Session |-> None]]
  /\ ready = Holder
  /\ pins = [s \in Session |-> None]
  /\ conn = NoSockets /\ fwd = [h \in Holder |-> NoSockets]
  /\ late = None
  /\ route = [s \in Session |-> None]
  /\ warm = None /\ spare = {} /\ blob = None
  /\ free = Session
  /\ req = None

Start ==
  \/ \E p \in setting.prompts, s \in Session :
       \/ \E kind \in setting.kinds : StartGreedy(kind, p, s)
       \/ StartCold(p, s) \/ StartSpoiled(p, s)
  \/ \E p \in setting.prompts : StartWarm(p)
  \/ StartResume

\* What the request's own thread does next.
Proceed ==
  \/ TakeRoute \/ NoRoute
  \/ \E h \in Holder : Hop(h) \/ HopFails(h) \/ ReplyLost(h) \/ HeadLost(h) \/ HopAbandoned(h)
  \/ Rebuild \/ GiveUp \/ NextToken
  \/ \E m \in 0 .. DraftLen : NextRound(m)
  \/ Finish \/ FinishKeeping \/ FinishWarm

Environment ==
  \/ \E h \in Holder : Crash(h) \/ Reap(h) \/ Rejoin(h) \/ Beat(h) \/ Drop(h)
  \/ LateForward \/ OrchestratorLeaves \/ ClientLeaves

Reaper == \E h \in Holder, s \in Session : Expire(h, s)

Next == Start \/ Proceed \/ Environment \/ Reaper

Spec == Init /\ [][Next]_vars

\* Every read and connect has a timeout, so a request's thread goes on; the
\* reaper's loop never ends and crashed workers are restarted.
Fairness ==
  /\ WF_vars(Proceed)
  /\ \A h \in Holder, s \in Session : WF_vars(Expire(h, s))
  /\ \A h \in Holder : WF_vars(Rejoin(h))

FairSpec == Spec /\ Fairness

-----------------------------------------------------------------------------
(***************************************************************************)
(* Properties.                                                             *)
(***************************************************************************)
Token == Tokens(setting)

TypeOK ==
  /\ up \subseteq Holder /\ ready \subseteq Holder /\ free \subseteq Session
  /\ kv \in [Holder -> [Session -> Seq(Token) \cup {None}]]
  /\ pins \in [Session -> Route \cup {None}] /\ route \in [Session -> Route \cup {None}]
  /\ setting \in Setting
  /\ conn \in [Holder -> {"none", "open", "dead"}]
  /\ fwd \in [Holder -> [Holder -> {"none", "open", "dead"}]]
  /\ \A h \in Holder : fwd[h] # NoSockets => conn[h] = "open"
  /\ late # None => late.holder \in up /\ (late.own => kv[late.holder][late.sid] # None)
  /\ warm # None => warm \in Prefixes(setting) /\ warm.len <= Len(warm.prompt)
  /\ spare \subseteq Session
  /\ blob = None \/ blob \in [sid : Session, seq : Seq(Token)]
  /\ req = None \/ req \in Requests(setting)

\* The pass has yet to visit stage k and can: a chain must get that far.
Ahead(k) ==
  /\ k >= req.stage /\ Reachable(k)
  /\ setting.chained => HeadServes /\ \A j \in req.stage .. k : Reachable(j)

\* Every stage ahead of the pass holds exactly the history the pass continues:
\* nothing lost, nothing stale.
HistoryIsInPlace ==
  req # None /\ req.phase = "hop" /\ Pos > 0 =>
    \A k \in Stage : Ahead(k) => kv[Named(k)][req.sid] = req.seq

\* Whatever holders, sockets and replies were lost, a greedy pass that gets
\* through was computed on the whole history (coordinator.py:500-528), unless
\* the head of a chain may forward for a coordinator that has given it up
\* (stage_worker.py:336-363): settings with a chain and "drop" or "late".
GreedyIsExact == req # None /\ req.kind \in {"greedy", "keep"} => HistoryIsInPlace

\* While nobody dies, speculative passes on warm and on cold sessions, and
\* resumed sessions, are computed on the whole history, and each prompt's
\* KV is rolled back to what the next prompt shares with it
\* (coordinator.py:590-651, 1082-1104, specdecode.py:94-98).
ReuseIsExact == setting.faults \subseteq {"replace"} => HistoryIsInPlace

\* coordinator.py:1157: "Output == greedy for any draft".
DraftingIsExact == req # None /\ req.kind = "draft" => HistoryIsInPlace

\* FLOATING_COORDINATOR.md:118-120: an orchestrator that dies mid-session is
\* replaced by one that "re-attaches to the existing per-session KV".
ResumeIsExact == req # None /\ req.kind = "resume" => HistoryIsInPlace

\* The load of a session is freed when it ends, however it ends: only the
\* running, the warm and the resumable session hold a route, unless the
\* orchestrator that held it died (coordinator.py:530-541, 634-660).
RoutesAreReleased ==
  "keep" \notin setting.kinds /\ setting.faults \cap {"die", "replace"} = {} =>
    \A s \in Session : pins[s] # None =>
      \/ Serving(s)
      \/ warm # None /\ warm.sid = s
      \/ s \in spare
      \/ blob # None /\ blob.sid = s

\* Every request ends, with its tokens or an exception, even if holders keep
\* failing under it (coordinator.py:511-528).
RequestsEnd == req # None ~> req = None

\* No holder keeps the KV of an ended session for ever, though resets are
\* lost with their sockets (stage_worker.py:208-224).
AbandonedKvIsFreed ==
  \A h \in Holder, s \in Session :
    kv[h][s] # None ~> (kv[h][s] = None \/ Serving(s))

=============================================================================
