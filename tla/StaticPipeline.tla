--------------------------- MODULE StaticPipeline ---------------------------
(***************************************************************************)
(* The coordinator over a fixed list of stages.  In mode "gate" up to      *)
(* `lanes' requests run side by side, each on a connection set lent by the *)
(* pool of engine/coordinator.py; in mode "batch" the scheduler of         *)
(* engine/scheduler.py, one thread on the default connection set, collects *)
(* waiting requests and decodes them as the rows of one batch until the    *)
(* last of them is over.  A lane is a connection set and whoever runs on   *)
(* it.                                                                     *)
(*                                                                         *)
(* A stage answers the frames of a connection in order; a batch or session *)
(* that starts, at position 0, begins a new KV.  What a forward computes   *)
(* is the history of tokens it stands for, and it is Junk when the stage's *)
(* KV is not that history's beginning.  A reply does not say what it       *)
(* replies to.                                                             *)
(*                                                                         *)
(* Stages may hang for longer than the coordinator reads, their processes  *)
(* may die and come back empty, and the client of a stream may leave.      *)
(* What a stage still does with the frames of a connection set that was    *)
(* given up touches only the KV of sessions that are over, and is left     *)
(* out, as are a layer range held by the coordinator itself and requests   *)
(* with a draft (modules SpecDecode and PipelineSession).                  *)
(***************************************************************************)
EXTENDS Integers, FiniteSets, Sequences, SequencesExt

CONSTANTS
  Req,        \* requests
  PromptOf,   \* PromptOf[r]: the tokens of r's prompt
  Cap,        \* Cap[r]: tokens to show at most (max_tokens)
  Token,      \* the vocabulary
  Eos,        \* end-of-text tokens
  Argmax(_),  \* the token the model says after a history
  NumStages,  \* remote stages
  Lane,       \* connection sets there may be
  Setting,    \* the settings explored
  MaxDeaths,  \* bound: stage processes that die
  Junk,       \* what a forward on a wrong KV computes
  None

Stage == 1 .. NumStages

Id == 1 .. Cardinality(Req)

\* The content of a row's KV, and what its forward computes.
Cell == Seq(Token) \cup {Junk}

Frame ==
  [op : {"run"}, id : Id, start : BOOLEAN, rows : Nat, hid : Seq(Cell)]
    \cup [op : {"free"}, id : Id]

Channel == [open : BOOLEAN, frames : Seq(Frame), replies : Seq(Seq(Cell))]

\* Batches and requests under way.
Job ==
  [rows : Seq(Req), id : Id, start : BOOLEAN, hop : Stage,
   phase : {"write", "read", "emit", "finish"},
   hist : Seq(Seq(Token)), hid : Seq(Cell), over : SUBSET Nat]

ASSUME StaticAssumption ==
  /\ IsFiniteSet(Req) /\ IsFiniteSet(Lane) /\ Lane = 1 .. Cardinality(Lane)
  /\ Cap \in [Req -> Nat \ {0}]   \* do_POST raises max_tokens to 1
  /\ PromptOf \in [Req -> Seq(Token) \ {<<>>}]
  /\ NumStages \in Nat \ {0} /\ MaxDeaths \in Nat
  /\ Junk \notin Seq(Token)
  /\ None \notin Seq(Cell) /\ None \notin [Stage -> Channel] /\ None \notin Job
  /\ \A w \in Setting :
       /\ w.mode \in {"gate", "batch"} /\ w.faults \subseteq {"hang", "die", "leave"}
       /\ w.lanes \in Lane /\ w.maxBatch \in Nat \ {0}
       /\ w.mode = "batch" => w.lanes = 1
       /\ w.mode = "gate" => w.maxBatch = 1

VARIABLES
  setting, \* mode, lanes, requests in a batch at most (maxBatch), faults
  state,   \* state[r]: "new", "waiting", "running", "done", "failed" or "left"
  out,     \* out[r]: the tokens r's client was given
  waiting, \* requests waiting for the scheduler, or for the gate
  idle,    \* lanes the pool has made that nobody runs on, the last used last
  made,    \* lanes made so far
  job,     \* job[l]: what runs on lane l, or None
  nextId,  \* the next batch or session id
  sock,    \* sock[l]: the sockets of lane l to the stages, or None
  kv,      \* kv[k][i]: stage k's KV of batch or session i, per row, or None
  deaths   \* stage processes that died

requests == <<state, out, waiting>>
lanes == <<idle, made, nextId>>
vars == <<setting, requests, lanes, job, sock, kv, deaths>>

Batching == setting.mode = "batch"

Ended == {"done", "failed", "left"}

RowsOf(l) == 1 .. Len(job[l].rows)

-----------------------------------------------------------------------------
(***************************************************************************)
(* Requests arrive and are given a lane.                                   *)
(***************************************************************************)
Submit(r) ==
  /\ state[r] = "new"
  /\ state' = [state EXCEPT ![r] = "waiting"]
  /\ waiting' = Append(waiting, r)
  /\ UNCHANGED <<setting, out, lanes, job, sock, kv, deaths>>

\* Both decoding loops begin with the prompts at position 0.
Begin(l, rows) ==
  /\ job' = [job EXCEPT ![l] =
       [rows |-> rows, id |-> nextId, start |-> TRUE, hop |-> 1, phase |-> "write",
        hist |-> [b \in 1 .. Len(rows) |-> PromptOf[rows[b]]],
        hid |-> [b \in 1 .. Len(rows) |-> PromptOf[rows[b]]],
        over |-> {}]]
  /\ nextId' = nextId + 1
  /\ state' = [r \in Req |-> IF r \in ToSet(rows) THEN "running" ELSE state[r]]
  /\ UNCHANGED <<setting, out, sock, kv, deaths>>

\* Fault: one request too many.
CollectOneMore(n) ==
  /\ Batching /\ job[1] = None
  /\ n \in 1 .. Len(waiting) /\ n <= setting.maxBatch + 1
  /\ Begin(1, SubSeq(waiting, 1, n))
  /\ waiting' = SubSeq(waiting, n + 1, Len(waiting))
  /\ UNCHANGED <<idle, made>>

\* _collect: the first request, and those that come within max_wait.
Collect(n) ==
  /\ Batching /\ job[1] = None
  /\ n \in 1 .. Len(waiting) /\ n <= setting.maxBatch
  /\ Begin(1, SubSeq(waiting, 1, n))
  /\ waiting' = SubSeq(waiting, n + 1, Len(waiting))
  /\ UNCHANGED <<idle, made>>

\* _ConnPool.scope: the semaphore admits any request that waits; the set given
\* back last is lent first, a new one when there is none.
Enter(r) ==
  /\ ~Batching
  /\ idle # <<>> \/ made < setting.lanes
  /\ LET l == IF idle # <<>> THEN Last(idle) ELSE made + 1
     IN  /\ Begin(l, <<r>>)
         /\ IF idle # <<>> THEN idle' = Front(idle) /\ UNCHANGED made
                           ELSE made' = l /\ UNCHANGED idle
  /\ \E i \in 1 .. Len(waiting) : waiting[i] = r /\ waiting' = RemoveAt(waiting, i)

-----------------------------------------------------------------------------
(***************************************************************************)
(* A pass through the stages.                                              *)
(***************************************************************************)
Fresh == [open |-> TRUE, frames |-> <<>>, replies |-> <<>>]

Link(l) == sock[l][job[l].hop]

At(l, phase) == job[l] # None /\ job[l].phase = phase

\* _ensure_connected, which waits for a stage that is not up.
Connect(l) ==
  /\ At(l, "write") /\ sock[l] = None
  /\ sock' = [sock EXCEPT ![l] = [k \in Stage |-> Fresh]]
  /\ UNCHANGED <<setting, requests, lanes, job, kv, deaths>>

\* The batch frame carries positions and a mask for each of its own rows.
Run(l) ==
  [op |-> "run", id |-> job[l].id, start |-> job[l].start, rows |-> Len(job[l].rows),
   hid |-> job[l].hid]

Write(l) ==
  /\ At(l, "write") /\ sock[l] # None /\ Link(l).open
  /\ sock' = [sock EXCEPT ![l][job[l].hop].frames = Append(@, Run(l))]
  /\ job' = [job EXCEPT ![l].phase = "read"]
  /\ UNCHANGED <<setting, requests, lanes, kv, deaths>>

\* Whatever reply is next on the socket is taken for the answer.
Read(l) ==
  /\ At(l, "read") /\ Link(l).replies # <<>>
  /\ sock' = [sock EXCEPT ![l][job[l].hop].replies = Tail(@)]
  /\ job' = [job EXCEPT ![l].hid = Head(Link(l).replies),
                        ![l].hop = IF @ < NumStages THEN @ + 1 ELSE 1,
                        ![l].phase = IF job[l].hop < NumStages THEN "write" ELSE "emit"]
  /\ UNCHANGED <<setting, requests, lanes, kv, deaths>>

\* The KV of a row, and what its forward computes: the same tokens.
Computed(past, start, h) ==
  IF start \/ (h # Junk /\ past = Front(h)) THEN h ELSE Junk

\* A forward whose frame and hidden states have different rows raises, and the
\* connection is closed.
StageServes(k, l) ==
  /\ sock[l] # None /\ sock[l][k].open /\ sock[l][k].frames # <<>>
  /\ LET f == Head(sock[l][k].frames)
         old(b) == IF kv[k][f.id] = None THEN <<>> ELSE kv[k][f.id][b]
         new == [b \in 1 .. f.rows |-> Computed(old(b), f.start, f.hid[b])]
     IN  IF f.op = "free" THEN
           /\ kv' = [kv EXCEPT ![k][f.id] = None]
           /\ sock' = [sock EXCEPT ![l][k].frames = Tail(@)]
         ELSE IF Len(f.hid) # f.rows THEN
           /\ sock' = [sock EXCEPT ![l][k].open = FALSE, ![l][k].frames = <<>>]
           /\ UNCHANGED kv
         ELSE
           /\ kv' = [kv EXCEPT ![k][f.id] = new]
           /\ sock' = [sock EXCEPT ![l][k].frames = Tail(@),
                                   ![l][k].replies = Append(@, new)]
  /\ UNCHANGED <<setting, requests, lanes, job, deaths>>

-----------------------------------------------------------------------------
(***************************************************************************)
(* The last stage's answer gives every row a token.                        *)
(***************************************************************************)
Says(h) == IF h = Junk THEN Token ELSE {Argmax(h)}

Shown(l, b) == Len(out[job[l].rows[b]])

Limit(l, b) == Cap[job[l].rows[b]]

\* Fault: a row that is over is shown again.
OpenAgain(l, b, t) == Shown(l, b) < Limit(l, b) /\ t \notin Eos

\* Row b's token t is handed to its client.
IsShown(l, b, t) ==
  b \notin job[l].over /\ Shown(l, b) < Limit(l, b) /\ t \notin Eos

\* A batch looks at the cap as it shows a token; generate_stream makes one more
\* pass and then finds that it has made them all.
IsOver(l, b, t) ==
  \/ b \in job[l].over \/ t \in Eos \/ Shown(l, b) >= Limit(l, b)
  \/ Batching /\ Shown(l, b) + 1 >= Limit(l, b)

\* emit, and the next step's pass unless all rows are over: those that are
\* ride along.
Emit(l) ==
  /\ At(l, "emit") /\ Len(job[l].hid) >= Len(job[l].rows)
  /\ \E nxt \in [RowsOf(l) -> Token] :
       /\ \A b \in RowsOf(l) : nxt[b] \in Says(job[l].hid[b])
       /\ out' = [r \in Req |->
            IF \E b \in RowsOf(l) : job[l].rows[b] = r /\ IsShown(l, b, nxt[b])
            THEN Append(out[r], nxt[CHOOSE b \in RowsOf(l) : job[l].rows[b] = r])
            ELSE out[r]]
       /\ LET over == {b \in RowsOf(l) : IsOver(l, b, nxt[b])}
              next == [b \in RowsOf(l) |-> Append(job[l].hist[b], nxt[b])]
          IN  job' = [job EXCEPT ![l].over = over,
                        ![l].start = FALSE,
                        ![l].hist = IF over = RowsOf(l) THEN @ ELSE next,
                        ![l].hid = IF over = RowsOf(l) THEN <<>> ELSE next,
                        ![l].phase = IF over = RowsOf(l) THEN "finish" ELSE "write"]
  /\ UNCHANGED <<setting, state, waiting, lanes, sock, kv, deaths>>

-----------------------------------------------------------------------------
(***************************************************************************)
(* The end of a batch or a request.                                        *)
(***************************************************************************)
\* The rows of lane l end as `how', and the lane is given back.
Leave(l, how) ==
  /\ state' = [r \in Req |-> IF r \in ToSet(job[l].rows) THEN how ELSE state[r]]
  /\ job' = [job EXCEPT ![l] = None]
  /\ idle' = IF Batching THEN idle ELSE Append(idle, l)
  /\ UNCHANGED <<setting, out, waiting, made, nextId, kv, deaths>>

\* KVOP_FREE or KVOP_RESET for id on every open socket of the stages S.
Freeing(l, S) ==
  [k \in Stage |->
     IF k \in S /\ sock[l][k].open
     THEN [sock[l][k] EXCEPT !.frames = Append(@, [op |-> "free", id |-> job[l].id])]
     ELSE sock[l][k]]

AllOpen(l) == \A k \in Stage : sock[l][k].open

\* Fault: only the first stage is told to free the KV.
FinishAtFirst(l) ==
  /\ At(l, "finish")
  /\ sock' = [sock EXCEPT ![l] = Freeing(l, {1})]
  /\ Leave(l, "done")

\* _reset_batch passes over a socket that refuses the frame; _reset_sessions
\* gives the connection set up.
Finish(l) ==
  /\ At(l, "finish")
  /\ \/ sock' = [sock EXCEPT ![l] = Freeing(l, Stage)]
     \/ ~Batching /\ ~AllOpen(l) /\ sock' = [sock EXCEPT ![l] = None]
  /\ Leave(l, "done")

\* The write is refused, the read finds the connection closed or times out, or
\* the answer has too few rows.
Fails(l) ==
  \/ At(l, "write") /\ sock[l] # None /\ ~Link(l).open
  \/ At(l, "read") /\ Link(l).replies = <<>> /\ (~Link(l).open \/ "hang" \in setting.faults)
  \/ At(l, "emit") /\ Len(job[l].hid) < Len(job[l].rows)

\* Fault: the pooled connection set keeps its sockets.
FailKeepingSockets(l) ==
  /\ Fails(l)
  /\ sock' = [sock EXCEPT ![l] = Freeing(l, Stage)]
  /\ Leave(l, "failed")

\* Fault: nobody tells the clients.
FailSilently(l) ==
  /\ Fails(l)
  /\ sock' = [sock EXCEPT ![l] = IF Batching THEN Freeing(l, Stage) ELSE None]
  /\ Leave(l, "running")

\* A batch fails for all its rows, over or not, and keeps its sockets; the
\* relay of a single request drops them, to connect again for the next.
Fail(l) ==
  /\ Fails(l)
  /\ sock' = [sock EXCEPT ![l] = IF Batching THEN Freeing(l, Stage) ELSE None]
  /\ Leave(l, "failed")

\* The client of a stream is gone when a token is written to it.  The handler
\* gives the connection set back before the generator is closed: the reset
\* goes to the default set, which has no sockets.
ClientLeaves(l) ==
  /\ "leave" \in setting.faults /\ ~Batching
  /\ At(l, "write") /\ job[l].hop = 1 /\ Shown(l, 1) > 0
  /\ UNCHANGED sock
  /\ Leave(l, "left")

\* A stage's process dies and is restarted, empty; its peers' connections are
\* closed, what it answered before can still be read.
StageDies(k) ==
  /\ "die" \in setting.faults /\ deaths < MaxDeaths
  /\ deaths' = deaths + 1
  /\ kv' = [kv EXCEPT ![k] = [i \in Id |-> None]]
  /\ sock' = [l \in Lane |->
       IF sock[l] = None THEN None
       ELSE [sock[l] EXCEPT ![k].open = FALSE, ![k].frames = <<>>]]
  /\ UNCHANGED <<setting, requests, lanes, job>>

-----------------------------------------------------------------------------
Init ==
  /\ setting \in Setting
  /\ state = [r \in Req |-> "new"] /\ out = [r \in Req |-> <<>>]
  /\ waiting = <<>>
  /\ idle = <<>> /\ made = 0 /\ nextId = 1
  /\ job = [l \in Lane |-> None] /\ sock = [l \in Lane |-> None]
  /\ kv = [k \in Stage |-> [i \in Id |-> None]]
  /\ deaths = 0

LaneRuns(l) == Connect(l) \/ Write(l) \/ Read(l) \/ Emit(l) \/ Finish(l) \/ Fail(l)

Admit == (\E n \in 1 .. Cardinality(Req) : Collect(n)) \/ (\E r \in Req : Enter(r))

Next ==
  \/ \E r \in Req : Submit(r)
  \/ Admit
  \/ \E l \in Lane : LaneRuns(l) \/ ClientLeaves(l)
  \/ \E k \in Stage, l \in Lane : StageServes(k, l)
  \/ \E k \in Stage : StageDies(k)

Spec == Init /\ [][Next]_vars

\* Threads run: the scheduler's or those of requests, which read with a
\* timeout, and those of stages that do not hang.
Fairness ==
  /\ WF_vars(Admit)
  /\ \A l \in Lane : WF_vars(LaneRuns(l))
  /\ \A k \in Stage, l \in Lane :
       WF_vars("hang" \notin setting.faults /\ StageServes(k, l))

FairSpec == Spec /\ Fairness

-----------------------------------------------------------------------------
(***************************************************************************)
(* Properties.                                                             *)
(***************************************************************************)
Holding(r) == {l \in Lane : job[l] # None /\ r \in ToSet(job[l].rows)}

TypeOK ==
  /\ setting \in Setting /\ deaths \in 0 .. MaxDeaths
  /\ made <= setting.lanes /\ IsInjective(idle) /\ IsInjective(waiting)
  /\ \A i \in 1 .. Len(idle) : idle[i] \in 1 .. made /\ job[idle[i]] = None
  /\ \A r \in Req :
       /\ Len(out[r]) <= Cap[r]
       /\ state[r] = "waiting" <=> r \in ToSet(waiting)
       /\ Cardinality(Holding(r)) = IF state[r] = "running" THEN 1 ELSE 0
  /\ \A l \in Lane : job[l] # None =>
       /\ Len(job[l].rows) \in 1 .. setting.maxBatch
       /\ job[l].id < nextId /\ job[l].hop \in Stage
       /\ job[l].phase \in {"write", "read", "emit", "finish"}

\* A request's tokens, unless they come from a batch that may read what a stage
\* answered to an earlier one.
Trusted(r) == IF Batching /\ "hang" \in setting.faults THEN <<>> ELSE out[r]

Alone(r) ==
  INSTANCE GreedyDecode WITH
    Prompt <- {PromptOf[r]}, MaxNew <- Cap[r], prompt <- PromptOf[r],
    text <- PromptOf[r] \o Trusted(r),
    done <- state[r] = "done" /\ ~(Batching /\ "hang" \in setting.faults)

\* However requests are batched or overlap, and whatever fails under them, what
\* each client is given is what decoding its prompt alone gives
\* (coordinator.py:990-996, docs/BATCHING.md:76-79).
RowsAreGreedy ==
  /\ \A r \in Req : Alone(r)!Init
  /\ [][\A r \in Req : [Alone(r)!Next]_(Alone(r)!vars)]_vars

\* A stage that dies costs each connection set one request: the next one
\* connects again (coordinator.py:296-298).
FailuresAreBounded ==
  ~Batching /\ "hang" \notin setting.faults =>
    Cardinality({r \in Req : state[r] = "failed"}) <= setting.lanes * deaths

\* While nothing fails, a stage holds KV only of what runs, or is about to be
\* told to free it (coordinator.py:977-985, 530-557).
KvIsOfTheRunning ==
  setting.faults = {} =>
    \A k \in Stage, i \in Id : kv[k][i] # None =>
      \E l \in Lane :
        \/ job[l] # None /\ job[l].id = i
        \/ sock[l] # None /\ \E n \in 1 .. Len(sock[l][k].frames) :
             sock[l][k].frames[n] = [op |-> "free", id |-> i]

\* Every request that waits is answered, with its tokens or with a failure
\* (scheduler.py:58-75, coordinator.py:113-128).
RequestsEnd == \A r \in Req : state[r] = "waiting" ~> state[r] \in Ended

=============================================================================
