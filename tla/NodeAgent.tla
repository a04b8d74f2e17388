------------------------------ MODULE NodeAgent ------------------------------
(***************************************************************************)
(* How machines join, keep and leave the mesh: the control client of a     *)
(* stage worker (engine/stage_worker.py), the start-up and heartbeats of   *)
(* an orchestrator (engine/api.py, engine/route_provider.py) and the       *)
(* fetching of a worker's slice (engine/shard_fetch.py), against an active *)
(* control plane and its warm standbys.                                    *)
(*                                                                         *)
(* Each post is one step, and control planes and machines may crash        *)
(* between any two.  A control plane keeps its node table in memory only.  *)
(* Its registry is reduced to what these posts read and write: the state   *)
(* and the slot of a record (module MeshRegistry has the rest).  Silence   *)
(* has no clock: whoever sends no heartbeats may be reaped at any moment,  *)
(* whoever sends them is not, unless posts get lost.                       *)
(***************************************************************************)
EXTENDS LayerPlan

CONSTANTS
  Node,        \* the stage workers
  Orch,        \* the orchestrators
  NumPlanes,   \* at most so many control planes, the first one active
  Setting      \* the situations to start from

(***************************************************************************)
(* A setting fixes                                                         *)
(*   plan     what the layers are cut by (module LayerPlan); plan.caps     *)
(*            gives the capacity_layers of every worker that joins;        *)
(*   members  the machines that join;                                      *)
(*   urls     how many control planes they know;                           *)
(*   slices   what a worker's disk holds at first: "none" or "good";       *)
(*   crashes  bound: how many crashes of control planes are looked at;     *)
(*   boots    bound: how often a machine is started, in all;               *)
(*   faults   what may happen besides:                                     *)
(*     "kill"      a process dies without a word;                          *)
(*     "slow"      slices and heads load for longer than the reaper waits; *)
(*     "lose"      posts, or their answers, get lost;                      *)
(*     "tamper"    the published slice is not the one the manifest names;  *)
(*     "unchecked" slices are taken without a look at their hash: the      *)
(*                 check is switched off, or the repository has no         *)
(*                 manifest, none that can be read or no hash in it;       *)
(*     "slicefail" slicing the full checkpoint fails.                      *)
(***************************************************************************)
Agent == Node \cup Orch

Plane == 1 .. NumPlanes

Active == 1

ASSUME AgentAssumption ==
  /\ NumPlanes \in Nat \ {0}
  /\ Node \cap Orch = {}
  /\ \A s \in Setting : /\ PlanTyped(s.plan)
                        /\ None \notin Layouts(s.plan)
                        /\ s.members \subseteq Agent
                        /\ s.members \cap Node \subseteq DOMAIN s.plan.caps
                        /\ Orch \cap DOMAIN s.plan.caps = {}
                        /\ s.urls \in Plane
                        /\ s.slices \in {"none", "good"}
                        /\ s.crashes \in Nat
                        /\ s.boots \in Nat

VARIABLES
  setting,   \* the setting of this behaviour
  layout,    \* the slots' layer ranges; None if no control plane can start
  up,        \* up[p]: control plane p is running
  table,     \* table[p][a]: what p's registry has on a
  seq,       \* seq[p]: the next orch_index p hands out (persisted)
  crashes,   \* crashes of control planes so far
  phase,     \* phase[a]: where the process is
  next,      \* next[a]: the control plane its present round of posts is at
  boots,     \* how often a machine was started
  slot,      \* slot[n]: the slot the worker process was assigned
  slice,     \* slice[n][k]: the slice of slot k on the worker's disk
  prefix     \* prefix[o]: the orchestrator's session-id prefix, and whose

vars == <<setting, layout, up, table, seq, crashes, phase, next, boots, slot,
          slice, prefix>>

Slot == IF layout = None THEN {} ELSE DOMAIN layout

SliceSize(k) == layout[k].last - layout[k].first

Faulty(f) == f \in setting.faults

Unknown == [state |-> "absent", slot |-> None]

Listed(state, k) == [state |-> state, slot |-> k]

NoPrefix == [plane |-> None, index |-> 0]

Phase == {"off", "register", "rejoin", "warm", "fetch", "verify", "slice",
          "load", "announce", "serve", "drain"}

TypeOK ==
  /\ layout # None => layout \in [Slot -> [first : Nat, last : Nat]]
  /\ up \in [Plane -> BOOLEAN]
  /\ table \in [Plane -> [Agent ->
       [state : {"absent", "joining", "ready", "dead", "draining"},
        slot  : Slot \cup {None}]]]
  /\ seq \in [Plane -> Nat]
  /\ crashes \in 0 .. setting.crashes
  /\ phase \in [Agent -> Phase]
  /\ next \in [Agent -> Plane]
  /\ boots \in 0 .. setting.boots
  /\ slot \in [Node -> Slot \cup {None}]
  /\ slice \in [Node -> [Slot -> {"none", "good", "bad"}]]
  /\ prefix \in [Orch -> [plane : Plane \cup {None}, index : Nat]]

Init ==
  /\ setting \in Setting
  /\ layout \in IF Layouts(setting.plan) = {} THEN {None}
                ELSE Layouts(setting.plan)
  /\ up = [p \in Plane |-> layout # None /\ p <= setting.urls]
  /\ table = [p \in Plane |-> [a \in Agent |-> Unknown]]
  /\ seq = [p \in Plane |-> 0]
  /\ crashes = 0
  /\ phase = [a \in Agent |-> "off"]
  /\ next = [a \in Agent |-> 1]
  /\ boots = 0
  /\ slot = [n \in Node |-> None]
  /\ slice = [n \in Node |-> [k \in Slot |-> setting.slices]]
  /\ prefix = [o \in Orch |-> NoPrefix]

-----------------------------------------------------------------------------
(***************************************************************************)
(* What a post does at control plane p.                                    *)
(***************************************************************************)
\* Whether a post to p can arrive, and can fail to.
Arrives(p) ==
  {up[p]} \cup (IF Faulty("lose") THEN {FALSE} ELSE {})

Committed(p, n, k) ==
  {m \in Node \ {n} : /\ table[p][m].slot = k
                      /\ table[p][m].state \notin {"absent", "dead"}}

\* Fault: nodes that are still joining are not counted as committed.
PickByReady(p, n) ==
  LET fits == {k \in Slot : SliceSize(k) <= setting.plan.caps[n]}
      held(k) == Cardinality({m \in Committed(p, n, k) :
                                table[p][m].state = "ready"})
      least   == {k \in fits : \A j \in fits : held(k) <= held(j)}
  IN  {k \in least : \A j \in least : k <= j}

\* _pick_slot: the least committed slot n can hold, the first one of those.
PickSlot(p, n) ==
  LET fits == {k \in Slot : SliceSize(k) <= setting.plan.caps[n]}
      held(k) == Cardinality(Committed(p, n, k))
      least   == {k \in fits : \A j \in fits : held(k) <= held(j)}
  IN  {k \in least : \A j \in least : k <= j}

\* Fault: a known node gets its old record back.
ListKnown(p, a, state, k) ==
  IF table[p][a].slot # None THEN [table EXCEPT ![p][a].state = state]
  ELSE [table EXCEPT ![p][a] = Listed(state, k)]

\* /register: a fresh record, whatever there was.
List(p, a, state, k) == [table EXCEPT ![p][a] = Listed(state, k)]

\* /ready: only a JOINING record becomes READY.
Readied(p, a) ==
  IF table[p][a].state = "joining" THEN [table EXCEPT ![p][a].state = "ready"]
  ELSE table

Drained(p, a) ==
  IF table[p][a].state = "absent" THEN table
  ELSE [table EXCEPT ![p][a].state = "draining"]

\* Fault: the registry goes on accepting beats of a node it gave up.
ForgottenIfPurged(p, a) == up[p] /\ table[p][a].state = "absent"

\* /heartbeat answers registered: False.
Forgotten(p, a) == up[p] /\ table[p][a].state \in {"absent", "dead"}

\* _register_standby: register with the loaded slot, then ready.  The second
\* post is not made when the first fails, and either answer is ignored.
Relist(p, n) ==
  \E heard \in Arrives(p), told \in Arrives(p) :
      table' = IF ~heard THEN table
               ELSE List(p, n, IF told THEN "ready" ELSE "joining", slot[n])

\* Fault: the round goes on past the last control plane.
RoundOverruns(a, then) ==
  IF next[a] <= setting.urls
  THEN next' = [next EXCEPT ![a] = @ + 1] /\ UNCHANGED phase
  ELSE next' = [next EXCEPT ![a] = 1] /\ phase' = [phase EXCEPT ![a] = then]

\* A round of posts reaches the control planes in url order.
Round(a, then) ==
  IF next[a] < setting.urls
  THEN next' = [next EXCEPT ![a] = @ + 1] /\ UNCHANGED phase
  ELSE next' = [next EXCEPT ![a] = 1] /\ phase' = [phase EXCEPT ![a] = then]

Goes(a, there) == phase' = [phase EXCEPT ![a] = there]

-----------------------------------------------------------------------------
(***************************************************************************)
(* Starting and stopping.                                                  *)
(***************************************************************************)
Boot(a) ==
  /\ phase[a] = "off"
  /\ a \in setting.members
  /\ boots < setting.boots
  /\ boots' = boots + 1
  /\ Goes(a, "register")
  /\ next' = [next EXCEPT ![a] = 1]
  /\ slot' = [n \in Node |-> IF n = a THEN None ELSE slot[n]]
  /\ prefix' = [o \in Orch |-> IF o = a THEN NoPrefix ELSE prefix[o]]
  /\ UNCHANGED <<setting, layout, up, table, seq, crashes, slice>>

Kill(a) ==
  /\ Faulty("kill")
  /\ phase[a] # "off"
  /\ Goes(a, "off")
  /\ UNCHANGED <<setting, layout, up, table, seq, crashes, next, boots, slot,
                 slice, prefix>>

PlaneCrashes(p) ==
  /\ up[p]
  /\ crashes < setting.crashes
  /\ crashes' = crashes + 1
  /\ up' = [up EXCEPT ![p] = FALSE]
  /\ table' = [table EXCEPT ![p] = [a \in Agent |-> Unknown]]
  /\ UNCHANGED <<setting, layout, seq, phase, next, boots, slot, slice, prefix>>

\* Fault: the sequence is not read back.
RestartsFromZero(p) ==
  /\ ~up[p] /\ layout # None /\ p <= setting.urls
  /\ up' = [up EXCEPT ![p] = TRUE]
  /\ seq' = [seq EXCEPT ![p] = 0]
  /\ UNCHANGED <<setting, layout, table, crashes, phase, next, boots, slot,
                 slice, prefix>>

\* With the sequence of its state file, and an empty node table.
PlaneRestarts(p) ==
  /\ ~up[p] /\ layout # None /\ p <= setting.urls
  /\ up' = [up EXCEPT ![p] = TRUE]
  /\ UNCHANGED <<setting, layout, table, seq, crashes, phase, next, boots,
                 slot, slice, prefix>>

\* Who may stay silent for longer than the reaper waits: a worker beats once
\* its slice is there, an orchestrator once its head is loaded.
Mute(a) ==
  \/ phase[a] \in {"off", "register"}
  \/ Faulty("lose")
  \/ /\ Faulty("slow")
     /\ phase[a] \in {"warm", "fetch", "verify", "slice"}
                     \cup (IF a \in Orch THEN {"load"} ELSE {})

\* The reaper marks a silent node DEAD, later it drops the record.
Reap(p, a) ==
  /\ up[p] /\ Mute(a)
  /\ \/ /\ table[p][a].state \in {"joining", "ready"}
        /\ table' = [table EXCEPT ![p][a].state = "dead"]
     \/ /\ table[p][a].state = "dead"
        /\ table' = [table EXCEPT ![p][a] = Unknown]
  /\ UNCHANGED <<setting, layout, up, seq, crashes, phase, next, boots, slot,
                 slice, prefix>>

workerVars == <<slot, slice>>
restVars   == <<setting, layout, up, crashes, boots>>

-----------------------------------------------------------------------------
(***************************************************************************)
(* The worker (run_control_client).                                        *)
(***************************************************************************)
\* _do_register: only the active control plane gives out a slot.  A post
\* whose answer is lost is repeated.
Register(n) ==
  /\ phase[n] = "register" /\ up[Active]
  /\ \E k \in PickSlot(Active, n) :
        /\ table' = List(Active, n, "joining", k)
        /\ \/ /\ slot' = [slot EXCEPT ![n] = k]
              /\ Goes(n, IF setting.urls > 1 THEN "warm" ELSE "fetch")
              /\ next' = [next EXCEPT ![n] = IF setting.urls > 1 THEN 2 ELSE 1]
           \/ /\ Faulty("lose")
              /\ UNCHANGED <<slot, phase, next>>
  /\ UNCHANGED <<restVars, seq, slice, prefix>>

\* No slot it can hold (409), or a control plane that does not come up for
\* the whole register_timeout: the process exits.
GivesUp(n) ==
  /\ phase[n] = "register"
  /\ ~up[Active] \/ PickSlot(Active, n) = {}
  /\ Goes(n, "off")
  /\ UNCHANGED <<restVars, workerVars, table, seq, next, prefix>>

\* The standbys are told the slot, and READY, before the slice is there.
Warm(n) ==
  /\ phase[n] = "warm"
  /\ Relist(next[n], n)
  /\ Round(n, "fetch")
  /\ UNCHANGED <<restVars, workerVars, seq, prefix>>

\* resolve_submodel: a directory with weights is taken as it is.
TakeCached(n) ==
  /\ phase[n] = "fetch"
  /\ slice[n][slot[n]] # "none"
  /\ Goes(n, "load")
  /\ UNCHANGED <<restVars, workerVars, table, seq, next, prefix>>

\* _try_download links the published slice into place before looking at it;
\* without a repository, or on any error, the slice is cut locally.
Download(n) ==
  /\ phase[n] = "fetch"
  /\ slice[n][slot[n]] = "none"
  /\ \/ /\ Goes(n, "verify")
        /\ \E s \in {"good"} \cup (IF Faulty("tamper") THEN {"bad"} ELSE {}) :
              slice' = [slice EXCEPT ![n][slot[n]] = s]
     \/ /\ Goes(n, "slice")
        /\ UNCHANGED slice
  /\ UNCHANGED <<restVars, table, seq, next, slot, prefix>>

\* Fault: a slice that fails its hash is used, as there are weights.
VerifyOnlyLogs(n) ==
  /\ phase[n] = "verify"
  /\ Goes(n, "load")
  /\ UNCHANGED <<restVars, workerVars, table, seq, next, prefix>>

\* The sha256 of the manifest, where there is one to be had; a slice that
\* fails it stays where it is.
Verify(n) ==
  /\ phase[n] = "verify"
  /\ \/ Goes(n, IF slice[n][slot[n]] = "good" THEN "load" ELSE "slice")
     \/ Faulty("unchecked") /\ Goes(n, "load")
  /\ UNCHANGED <<restVars, workerVars, table, seq, next, prefix>>

\* _local_slice writes over whatever is in place; an error ends the process,
\* which sends no drain yet.
SliceLocally(n) ==
  /\ phase[n] = "slice"
  /\ \/ /\ slice' = [slice EXCEPT ![n][slot[n]] = "good"]
        /\ Goes(n, "load")
     \/ /\ Faulty("slicefail")
        /\ Goes(n, "off")
        /\ UNCHANGED slice
  /\ UNCHANGED <<restVars, table, seq, next, slot, prefix>>

Load(a) ==
  /\ phase[a] = "load"
  /\ Goes(a, "announce")
  /\ UNCHANGED <<restVars, workerVars, table, seq, next, prefix>>

\* /ready to every control plane; an error is logged, nothing is retried.
Announce(a) ==
  /\ phase[a] = "announce"
  /\ \E heard \in Arrives(next[a]) :
        table' = IF heard THEN Readied(next[a], a) ELSE table
  /\ Round(a, "serve")
  /\ UNCHANGED <<restVars, workerVars, seq, prefix>>

\* A heartbeat that is answered registered: False; the thread runs from
\* before the load to the end of the process.  Other beats change nothing.
BeatForgotten(n, p) ==
  /\ phase[n] \in {"load", "announce", "serve", "drain"}
  /\ Forgotten(p, n)
  /\ Relist(p, n)
  /\ UNCHANGED <<restVars, workerVars, seq, phase, next, prefix>>

\* serve() ends: drain from every control plane, then exit.
Stop(n) ==
  /\ phase[n] \in {"load", "announce", "serve"}
  /\ Goes(n, "drain")
  /\ next' = [next EXCEPT ![n] = 1]
  /\ UNCHANGED <<restVars, workerVars, table, seq, prefix>>

Drain(n) ==
  /\ phase[n] = "drain"
  /\ \E heard \in Arrives(next[n]) :
        table' = IF heard THEN Drained(next[n], n) ELSE table
  /\ Round(n, "off")
  /\ UNCHANGED <<restVars, workerVars, seq, prefix>>

-----------------------------------------------------------------------------
(***************************************************************************)
(* The orchestrator (_run_orchestrator).                                   *)
(***************************************************************************)
\* post_all("/register").  Every registration takes a number; the prefix is
\* the first one answered, and a running orchestrator keeps its own.
RegisterOrch(o) ==
  LET p     == next[o]
      fresh == phase[o] = "register" /\ prefix[o] = NoPrefix
  IN  /\ phase[o] \in {"register", "rejoin"}
      /\ \E heard \in Arrives(p) :
            IF heard
            THEN /\ table' = List(p, o, "joining", None)
                 /\ seq' = [seq EXCEPT ![p] = @ + 1]
                 /\ prefix' = IF ~fresh THEN prefix
                              ELSE [prefix EXCEPT ![o] = [plane |-> p, index |-> seq[p]]]
            ELSE UNCHANGED <<table, seq, prefix>>
      /\ Round(o, CASE phase[o] = "rejoin" -> "announce"
                    [] prefix'[o] = NoPrefix -> "off"
                    [] OTHER -> "load")
      /\ UNCHANGED <<restVars, workerVars>>

\* One heartbeat answered registered: False makes it register, and announce
\* itself, at every control plane once more.
BeatForgottenOrch(o) ==
  /\ phase[o] = "serve"
  /\ \E p \in Plane : Forgotten(p, o)
  /\ Goes(o, "rejoin")
  /\ UNCHANGED <<restVars, workerVars, table, seq, next, prefix>>

-----------------------------------------------------------------------------
\* Steps the process makes by itself once it was started.
WorkerRuns(n) ==
  \/ Register(n) \/ GivesUp(n) \/ Warm(n) \/ TakeCached(n) \/ Download(n)
  \/ Verify(n) \/ SliceLocally(n) \/ Load(n) \/ Announce(n) \/ Drain(n)

OrchRuns(o) ==
  RegisterOrch(o) \/ Load(o) \/ Announce(o) \/ BeatForgottenOrch(o)

Next ==
  \/ \E a \in Agent : Boot(a) \/ Kill(a)
  \/ \E p \in Plane : PlaneCrashes(p) \/ PlaneRestarts(p)
  \/ \E p \in Plane, a \in Agent : Reap(p, a)
  \/ \E n \in Node : WorkerRuns(n) \/ Stop(n)
  \/ \E n \in Node, p \in Plane : BeatForgotten(n, p)
  \/ \E o \in Orch : OrchRuns(o)

\* Processes run on while they live; heartbeats go on at every interval.
Fairness ==
  /\ \A n \in Node :
        WF_vars(WorkerRuns(n) \/ \E p \in Plane : BeatForgotten(n, p))
  /\ \A o \in Orch : WF_vars(OrchRuns(o))

Spec == Init /\ [][Next]_vars /\ Fairness

-----------------------------------------------------------------------------
(***************************************************************************)
(* Properties.                                                             *)
(***************************************************************************)
\* for_fleet takes the smallest number of stages whose balanced split the
\* fleet can staff, and only raises when there is none: the greedy match of
\* sorted demands to sorted capacities misses no staffing (plan_stages).  A
\* replication below one and a coordinator's slice that is not part of the
\* model are refused for what they are.
PlanIsFewest ==
  LET plan   == setting.plan
      budget == plan.layers - plan.end
      staffed(k) == Staffable(Balanced(budget, k), plan.rep, plan.caps)
  IN  (plan.by = "fleet" /\ plan.rep >= 1 /\ plan.end \in 0 .. plan.layers - 1) =>
        IF layout = None THEN \A k \in 1 .. budget : ~staffed(k)
        ELSE /\ staffed(Cardinality(Slot))
             /\ \A k \in 1 .. Cardinality(Slot) - 1 : ~staffed(k)

\* However the layers are cut, the coordinator's slice and the slots cover
\* every layer exactly once, unless a fixed number of stages exceeds that of
\* the layers, which nothing refuses.  Slots of a layout string are the
\* published ones; those of a manifest need not be, as nothing looks at the
\* ranges between its first start and its last end (catalog_layout).  A
\* weighted slice exceeds its share by less than a layer.
SplitsTile ==
  LET plan == setting.plan
      k    == Cardinality(Slot)
      budget == plan.layers - plan.end
  IN  (layout # None /\ (plan.by = "static" => plan.stages <= budget)) =>
        /\ Slot = 0 .. k - 1 /\ k > 0
        /\ layout[0].first = CoordinatorEnd(plan)
        /\ layout[k - 1].last = plan.layers
        /\ \A i \in Slot : /\ layout[i].first < layout[i].last
                           /\ i > 0 => layout[i].first = layout[i - 1].last
        /\ plan.by = "catalog" =>
             \A i \in Slot : \E j \in 2 .. Len(plan.catalog) :
                 layout[i] = plan.catalog[j]
        /\ plan.by = "weights" =>
             \A i \in Slot :
                 (SliceSize(i) - 1) * SumOf(plan.weights) < budget * plan.weights[i]

\* A fleet of equal machines for which for_fleet planned the stages staffs
\* every slot with its replicas as soon as all of them are registered, in
\* whatever order they register, leave, die and come back (_pick_slot fills
\* the least committed slot, counting the joining).  Slow loads, lost posts
\* and control planes that restart can break it: a preferred slot is given
\* without counting.
PlannedFleetsAreStaffed ==
  LET plan == setting.plan
  IN  (/\ plan.by = "fleet" /\ layout # None
       /\ setting.faults \subseteq {"kill"} /\ setting.crashes = 0
       /\ setting.members = DOMAIN plan.caps
       /\ \A m, n \in DOMAIN plan.caps : plan.caps[m] = plan.caps[n]
       /\ \A n \in DOMAIN plan.caps : table[Active][n].state \in {"joining", "ready"})
      => \A k \in Slot :
            Cardinality({n \in DOMAIN plan.caps : table[Active][n].slot = k}) >= plan.rep

\* Every control plane that lists a running worker as joining or ready lists
\* it for the slot the process really serves, across re-registrations,
\* crashes and standbys.  When posts get lost only the active one is sure
\* to: a standby may keep a record of the machine's previous life.
ListedForWhatItServes ==
  \A n \in Node, p \in Plane :
     (/\ phase[n] \in {"load", "announce", "serve"}
      /\ table[p][n].state \in {"joining", "ready"}
      /\ p = Active \/ ~Faulty("lose"))
     => table[p][n].slot = slot[n]

\* A worker never serves a slice that is not the published one.  It needs a
\* hash to check: _try_download takes a slice as it is when the manifest or
\* its hash is missing or the check is switched off.  And it is only about a
\* worker that lives on and can slice: one that dies, or fails, with the
\* rejected slice in place leaves it to the next process, which takes it for
\* a cached one (resolve_submodel).
SlicesAreVerified ==
  \A n \in Node :
     (/\ phase[n] \in {"load", "announce", "serve"}
      /\ setting.faults \cap {"kill", "slicefail", "unchecked"} = {})
     => slice[n][slot[n]] = "good"

\* Two orchestrators that run at the same time have different session-id
\* prefixes, unless they took them from different control planes.
OrchestratorsAreApart ==
  \A o, q \in Orch :
     (/\ o # q /\ phase[o] # "off" /\ phase[q] # "off"
      /\ prefix[o] # NoPrefix)
     => prefix[o] # prefix[q]

\* There is always a later moment at which every process that serves is
\* ready at every control plane that is up, also at one that crashed and came
\* back with an empty table: the heartbeat that is answered registered: False
\* mends it.  It needs every post to arrive: a lost /ready is not sent again.
ServingNodesAreRouted ==
  []<>(\/ Faulty("lose")
       \/ \A a \in Agent, p \in Plane :
            phase[a] = "serve" /\ up[p] => table[p][a].state = "ready")

=============================================================================
