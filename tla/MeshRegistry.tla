---------------------------- MODULE MeshRegistry ----------------------------
(***************************************************************************)
(* The control plane's registry: engine/registry.py over the topology of   *)
(* module MeshTopology, driven by the handlers of engine/control_server.py *)
(* and by the auditor of engine/coordinator.py.                            *)
(*                                                                         *)
(* Every method of class Registry holds one lock from start to end, so a   *)
(* call is one step.  What interleaves are the callers: nodes that join,   *)
(* beat, drain, crash and come back; coordinators that acquire and release *)
(* routes and entries for their sessions, or die without releasing them;   *)
(* the auditor, which reads its pairs in one call and reports each verdict *)
(* in a later one; the reaper; and a crash of the control plane itself,    *)
(* after which only the saved state is left.                               *)
(*                                                                         *)
(* The constant Node is the set of ids the allowlist lets in (all of them  *)
(* by default).  Accrued earnings and wallets share the lock and the state *)
(* file but touch nothing here.                                            *)
(***************************************************************************)
EXTENDS MeshTopology

CONSTANTS
  Session,        \* session ids
  Worker,         \* nodes that may register to hold a layer slice
  Orchestrator,   \* nodes that may register as head-only orchestrators
  Seed,           \* the bootstrap fleet, trusted on registration
  BanAfter,       \* evictions that ban a node for good
  MaxPairs,       \* pairs the auditor challenges per round
  IndexSpace,     \* distinct session-id prefixes (2^15 in the code)
  SaveOutcome,    \* {TRUE}: every save succeeds; FALSE in it: a save may fail
  NoShow,         \* the sets of nodes, one of which never joins at all
  Leaver,         \* nodes that may leave for good
  Abandoner,      \* sessions whose coordinator may die without a release
  MaxOrchSeq      \* bound: registrations of orchestrators

ASSUME RegistryAssumption ==
  /\ IsFiniteSet(Session)
  /\ None \notin [Slot -> Node]
  /\ Worker \subseteq Node /\ Orchestrator \subseteq Node /\ Seed \subseteq Node
  /\ BanAfter \in Nat \ {0}
  /\ MaxPairs \in Nat \ {0}
  /\ IndexSpace \in Nat \ {0}
  /\ SaveOutcome \in SUBSET BOOLEAN
  /\ NoShow \subseteq SUBSET Node
  /\ Leaver \subseteq Node /\ Abandoner \subseteq Session
  /\ MaxOrchSeq \in Nat

VARIABLES
  load,       \* load[n]: sessions routed through holder n (a missing key is 0)
  pinned,     \* pinned[s]: the route of session s, one node per slot
  entryLoad,  \* entryLoad[n]: sessions orchestrator n drives
  entryOf,    \* entryOf[s]: the orchestrator that drives session s
  evictions,  \* evictions[n]: times the auditor evicted n
  banned,     \* nodes refused for good
  orchSeq,    \* the next session-id prefix to hand out
  disk,       \* the saved evictions, bans and prefix counter
  auditing,   \* nodes of the audit round under way without a verdict yet
  prefix,     \* prefix[n]: the prefix the running orchestrator n took
  gone,       \* nodes whose machine left for good
  lost        \* sessions whose coordinator died without a release

loadVars  == <<load, pinned>>
entryVars == <<entryLoad, entryOf>>
durable   == <<evictions, banned, orchSeq, disk>>
outside   == <<auditing, prefix, gone, lost>>
vars == <<table, holders, load, pinned, entryLoad, entryOf, evictions, banned,
          orchSeq, disk, auditing, prefix, gone, lost>>

Route == [Slot -> Node]

Saved == [evictions : [Node -> Nat], banned : SUBSET Node, orchSeq : Nat]

\* _save_state: writes everything or, on any error, silently nothing.
Save == \E ok \in SaveOutcome :
          disk' = IF ok THEN [evictions |-> evictions', banned |-> banned',
                              orchSeq |-> orchSeq']
                  ELSE disk

-----------------------------------------------------------------------------
\* Some stage of the route runs on n.
Passes(route, n) == \E k \in Slot : route[k] = n

\* How often n occurs on a route.
Uses(route, n) == IF route = None THEN 0
                  ELSE Cardinality({k \in Slot : route[k] = n})

\* A counter that is dropped when it falls to zero.
Minus(c, d) == IF c > d THEN c - d ELSE 0

\* The least loaded routable holders of slot k, trusted before probation.
Best(k) == {n \in Routable(k) : \A m \in Routable(k) :
              \/ load[n] < load[m]
              \/ load[n] = load[m] /\ TrustRank(n) <= TrustRank(m)}

EntryCandidates == {n \in Node : table[n].role = "orchestrator" /\ table[n].state = "ready"}

\* A released entry slot, for whichever orchestrator held it.
FreedEntry(s) == [n \in Node |-> IF entryOf[s] = n THEN Minus(entryLoad[n], 1)
                                 ELSE entryLoad[n]]

\* The least loaded READY orchestrators once s has let go of its own.
LeastEntry(s) == {n \in EntryCandidates : \A m \in EntryCandidates :
                    FreedEntry(s)[n] <= FreedEntry(s)[m]}

\* audit_pairs: the probation holders of a slot that has a trusted one.
Auditable == {n \in Node : \E k \in Slot :
                /\ n \in Routable(k) /\ table[n].trust = "probation"
                /\ \E m \in Routable(k) : table[m].trust = "trusted"}

-----------------------------------------------------------------------------
(***************************************************************************)
(* Admission.                                                              *)
(***************************************************************************)
Register(n, cap, prefer) ==
  /\ n \notin gone /\ n \notin banned
  /\ Admit(n, cap, prefer, n \in Seed)
  /\ UNCHANGED <<evictions, banned, orchSeq>>
  /\ Save
  /\ UNCHANGED <<loadVars, entryVars, outside>>

\* Topology.register raises, so neither the trust nor the save is reached.
RegisterRefused(n, cap, prefer) ==
  /\ n \notin gone /\ n \notin banned
  /\ Refuse(n, cap, prefer)
  /\ UNCHANGED <<loadVars, entryVars, durable, outside>>

\* The reply carries a session-id prefix.  A process takes it from its first
\* registration and keeps it when a heartbeat makes it register again.
RegisterOrchestrator(n) ==
  /\ n \notin gone /\ n \notin banned
  /\ orchSeq < MaxOrchSeq
  /\ AdmitOrchestrator(n, n \in Seed)
  /\ orchSeq' = orchSeq + 1
  /\ prefix' = [prefix EXCEPT ![n] = IF @ = None THEN orchSeq % IndexSpace ELSE @]
  /\ UNCHANGED <<evictions, banned>>
  /\ Save
  /\ UNCHANGED <<loadVars, entryVars, auditing, gone, lost>>

Heartbeat(n) ==
  /\ n \notin gone
  /\ Beat(n)
  /\ UNCHANGED <<loadVars, entryVars, durable, outside>>

MarkReady(n) ==
  /\ n \notin gone
  /\ SetReady(n)
  /\ UNCHANGED <<loadVars, entryVars, durable, outside>>

\* A coordinator reports a holder that failed it.
MarkSuspect(n) ==
  /\ SetSuspect(n)
  /\ UNCHANGED <<loadVars, entryVars, durable, outside>>

\* A worker posts /drain on its way out.
Drain(n) ==
  /\ n \notin gone
  /\ SetDraining(n)
  /\ UNCHANGED <<loadVars, entryVars, durable, outside>>

\* The reaper thread.
Tick ==
  /\ ReapAndPurge
  /\ UNCHANGED <<loadVars, entryVars, durable, outside>>

Clock ==
  /\ Elapse
  /\ UNCHANGED <<loadVars, entryVars, durable, outside>>

-----------------------------------------------------------------------------
(***************************************************************************)
(* Verification.  run_audit_round reads the pairs under the lock, then     *)
(* challenges them one by one without it; by the time a verdict is         *)
(* recorded the node may be another record, or none.                       *)
(***************************************************************************)
AuditRound ==
  /\ auditing = {} /\ Auditable # {}
  /\ \E round \in SUBSET Auditable :
       /\ round # {} /\ Cardinality(round) <= MaxPairs
       /\ Cardinality(round) < MaxPairs => round = Auditable
       /\ auditing' = round
  /\ UNCHANGED <<topologyVars, loadVars, entryVars, durable, prefix, gone, lost>>

\* The challenge failed on the network: the pair is skipped.
SkipCheck(n) ==
  /\ n \in auditing
  /\ auditing' = auditing \ {n}
  /\ UNCHANGED <<topologyVars, loadVars, entryVars, durable, prefix, gone, lost>>

RecordPass(n) ==
  /\ n \in auditing
  /\ Pass(n)
  /\ auditing' = auditing \ {n}
  /\ UNCHANGED <<loadVars, entryVars, durable, prefix, gone, lost>>

RecordFail(n) ==
  /\ n \in auditing
  /\ Fail(n)
  /\ auditing' = auditing \ {n}
  /\ IF Evicts(n)
     THEN /\ evictions' = [evictions EXCEPT ![n] = @ + 1]
          /\ banned' = IF evictions'[n] >= BanAfter THEN banned \cup {n} ELSE banned
          /\ UNCHANGED orchSeq
          /\ Save
     ELSE UNCHANGED durable
  /\ UNCHANGED <<loadVars, entryVars, prefix, gone, lost>>

-----------------------------------------------------------------------------
(***************************************************************************)
(* Routes.  An uncovered slot raises and nothing changes.                  *)
(***************************************************************************)
AcquireRoute(s, route) ==
  /\ s \notin lost
  /\ pinned[s] = None
  /\ Covered
  /\ \A k \in Slot : route[k] \in Best(k)
  /\ load' = [n \in Node |-> load[n] + Uses(route, n)]
  /\ pinned' = [pinned EXCEPT ![s] = route]
  /\ UNCHANGED <<topologyVars, entryVars, durable, outside>>

\* Fault: the holders a session no longer uses keep counting it.
ReacquireLeaks(s, route) ==
  /\ s \notin lost /\ pinned[s] # None /\ Covered
  /\ \A k \in Slot :
       IF pinned[s][k] \in Routable(k) THEN route[k] = pinned[s][k]
       ELSE route[k] \in Best(k)
  /\ load' = [n \in Node |->
       IF \E k \in Slot : route[k] = n /\ pinned[s][k] # n THEN load[n] + 1
       ELSE load[n]]
  /\ pinned' = [pinned EXCEPT ![s] = route]
  /\ UNCHANGED <<topologyVars, entryVars, durable, outside>>

\* Fault: a second acquire balances afresh, as if the session were new.
ReacquireRebalances(s, route) ==
  /\ s \notin lost /\ pinned[s] # None /\ Covered
  /\ \A k \in Slot : route[k] \in Best(k)
  /\ load' = [n \in Node |-> Minus(load[n], Uses(pinned[s], n)) + Uses(route, n)]
  /\ pinned' = [pinned EXCEPT ![s] = route]
  /\ UNCHANGED <<topologyVars, entryVars, durable, outside>>

\* The same session again, without a release: pins that still serve stay.
ReacquireRoute(s, route) ==
  /\ s \notin lost
  /\ pinned[s] # None
  /\ Covered
  /\ \A k \in Slot :
       IF pinned[s][k] \in Routable(k) THEN route[k] = pinned[s][k]
       ELSE route[k] \in Best(k)
  /\ load' = [n \in Node |->
       IF Passes(pinned[s], n) /\ ~Passes(route, n) THEN Minus(load[n], 1)
       ELSE IF Passes(route, n) /\ ~Passes(pinned[s], n) THEN load[n] + 1
       ELSE load[n]]
  /\ pinned' = [pinned EXCEPT ![s] = route]
  /\ UNCHANGED <<topologyVars, entryVars, durable, outside>>

\* Fault: a release subtracts but does not forget the session's route.
ReleaseTwice(s) ==
  /\ s \notin lost
  /\ pinned[s] # None
  /\ load' = [n \in Node |-> load[n] - Uses(pinned[s], n)]
  /\ UNCHANGED pinned
  /\ UNCHANGED <<topologyVars, entryVars, durable, outside>>

ReleaseRoute(s) ==
  /\ s \notin lost
  /\ pinned[s] # None
  /\ load' = [n \in Node |-> Minus(load[n], Uses(pinned[s], n))]
  /\ pinned' = [pinned EXCEPT ![s] = None]
  /\ UNCHANGED <<topologyVars, entryVars, durable, outside>>

\* Fault: the prior pick of the session is not released.
AcquireEntryAgain(s, n) ==
  /\ n \in LeastEntry(s)
  /\ entryLoad' = [entryLoad EXCEPT ![n] = @ + 1]
  /\ entryOf' = [entryOf EXCEPT ![s] = n]
  /\ UNCHANGED <<topologyVars, loadVars, durable, outside>>

\* acquire_entry: the prior pick is released first, then a least loaded
\* READY orchestrator is taken.
AcquireEntry(s, n) ==
  /\ n \in LeastEntry(s)
  /\ entryLoad' = [FreedEntry(s) EXCEPT ![n] = @ + 1]
  /\ entryOf' = [entryOf EXCEPT ![s] = n]
  /\ UNCHANGED <<topologyVars, loadVars, durable, outside>>

\* release_entry, and acquire_entry when no orchestrator is READY.
ReleaseEntry(s) ==
  /\ entryOf[s] # None
  /\ entryLoad' = FreedEntry(s)
  /\ entryOf' = [entryOf EXCEPT ![s] = None]
  /\ UNCHANGED <<topologyVars, loadVars, durable, outside>>

-----------------------------------------------------------------------------
(***************************************************************************)
(* The environment.                                                        *)
(***************************************************************************)
\* A machine disappears and never comes back.
NodeLeaves(n) ==
  /\ n \in Leaver \ gone
  /\ gone' = gone \cup {n}
  /\ prefix' = [prefix EXCEPT ![n] = None]
  /\ UNCHANGED <<topologyVars, loadVars, entryVars, durable, auditing, lost>>

\* An orchestrator process ends; the next one on that id starts afresh.
OrchestratorExits(n) ==
  /\ prefix[n] # None
  /\ prefix' = [prefix EXCEPT ![n] = None]
  /\ UNCHANGED <<topologyVars, loadVars, entryVars, durable, auditing, gone, lost>>

\* A coordinator dies, or its best-effort release never arrives.
SessionLost(s) ==
  /\ s \in Abandoner \ lost
  /\ pinned[s] # None
  /\ lost' = lost \cup {s}
  /\ UNCHANGED <<topologyVars, loadVars, entryVars, durable, auditing, prefix, gone>>

\* What a restart loses whatever was saved.
VolatileReset ==
  /\ table' = [n \in Node |-> Absent]
  /\ holders' = [k \in Slot |-> {}]
  /\ load' = [n \in Node |-> 0]
  /\ pinned' = [s \in Session |-> None]
  /\ entryLoad' = [n \in Node |-> 0]
  /\ entryOf' = [s \in Session |-> None]
  /\ auditing' = {}
  /\ UNCHANGED <<disk, prefix, gone, lost>>

\* Fault: the bans are not read back.
RestartForgetsBans ==
  /\ VolatileReset
  /\ evictions' = disk.evictions
  /\ banned' = {}
  /\ orchSeq' = disk.orchSeq

\* Fault: the prefix counter is not read back.
RestartForgetsPrefixes ==
  /\ VolatileReset
  /\ evictions' = disk.evictions
  /\ banned' = disk.banned
  /\ orchSeq' = 0

\* The control plane restarts: an empty table, and what _load_state reads.
Restart ==
  /\ VolatileReset
  /\ evictions' = disk.evictions
  /\ banned' = disk.banned
  /\ orchSeq' = disk.orchSeq

Init ==
  /\ TopologyInit
  /\ load = [n \in Node |-> 0]
  /\ pinned = [s \in Session |-> None]
  /\ entryLoad = [n \in Node |-> 0]
  /\ entryOf = [s \in Session |-> None]
  /\ evictions = [n \in Node |-> 0]
  /\ banned = {}
  /\ orchSeq = 0
  /\ disk = [evictions |-> evictions, banned |-> banned, orchSeq |-> orchSeq]
  /\ auditing = {}
  /\ prefix = [n \in Node |-> None]
  /\ gone \in NoShow
  /\ lost = {}

NodeStep(n) ==
  \/ Heartbeat(n) \/ MarkReady(n) \/ MarkSuspect(n) \/ Drain(n) \/ NodeLeaves(n)
  \/ SkipCheck(n) \/ RecordPass(n) \/ RecordFail(n)

Joins(n) == \E cap \in Capacity, prefer \in Slot \cup {None} :
              Register(n, cap, prefer) \/ RegisterRefused(n, cap, prefer)

SessionStep(s) ==
  \/ \E route \in Route : AcquireRoute(s, route) \/ ReacquireRoute(s, route)
  \/ \E n \in Orchestrator : AcquireEntry(s, n)
  \/ ReleaseRoute(s) \/ ReleaseEntry(s) \/ SessionLost(s)

Next ==
  \/ \E n \in Node : NodeStep(n)
  \/ \E n \in Worker : Joins(n)
  \/ \E n \in Orchestrator : RegisterOrchestrator(n) \/ OrchestratorExits(n)
  \/ \E s \in Session : SessionStep(s)
  \/ AuditRound \/ Tick \/ Clock \/ Restart

Spec == Init /\ [][Next]_vars

\* Time passes and the reaper and the auditor are loops that never end.
Fairness == WF_vars(Clock) /\ WF_vars(Tick) /\ WF_vars(AuditRound)

FairSpec == Spec /\ Fairness

-----------------------------------------------------------------------------
(***************************************************************************)
(* Properties.                                                             *)
(***************************************************************************)
TypeOK ==
  /\ table \in [Node -> NodeRecord]
  /\ holders \in [Slot -> SUBSET Node]
  /\ load \in [Node -> Nat]
  /\ pinned \in [Session -> Route \cup {None}]
  /\ entryLoad \in [Node -> Nat]
  /\ entryOf \in [Session -> Node \cup {None}]
  /\ evictions \in [Node -> Nat]
  /\ banned \in SUBSET Node
  /\ orchSeq \in Nat
  /\ disk \in Saved
  /\ auditing \in SUBSET Node
  /\ prefix \in [Node -> Nat \cup {None}]
  /\ gone \in SUBSET Node
  /\ lost \in SUBSET Session

\* The holder lists and the node records agree: whoever is listed under a
\* slot has a record that names that slot, so nobody is listed twice.  Every
\* count by holder below rests on it (topology.py:317-332, 413-417).
HoldersMatchRecords ==
  \A k \in Slot : \A n \in holders[k] :
    Known(n) /\ table[n].slot = k /\ table[n].role = "worker"

\* A route never sends two stages of one session to the same node, whatever
\* re-registrations and replacements happened since (registry.py:252-281).
RoutesAreDisjoint ==
  \A s \in Session : pinned[s] # None =>
    \A j, k \in Slot : pinned[s][j] = pinned[s][k] => j = k

\* Sessions whose route goes through n.
SessionsOn(n) == {s \in Session : pinned[s] # None /\ Passes(pinned[s], n)}

\* The load the balancer compares is the number of sessions routed through
\* the node, after any order of acquire, re-acquire, release, node churn and
\* restart (registry.py:252-295).
LoadAccounting == \A n \in Node : load[n] = Cardinality(SessionsOn(n))

\* The same for the orchestrators' entry load (registry.py:298-326).
EntryAccounting ==
  \A n \in Node : entryLoad[n] = Cardinality({s \in Session : entryOf[s] = n})

Serves(n) == table[n].state \in {"joining", "ready", "suspect"}

\* A node on the ban list is out: no sequence of calls gets it back to where a
\* route or an entry could use it, or to where it could get there
\* (registry.py:80-81, 144-151).
BannedNeverServes == \A n \in banned : ~Serves(n)

\* A ban that reached the disk is for good: from then on the node never serves
\* again, over every restart and every later save that fails.  One that did
\* not (registry.py:408-409 passes over the error) ends with the next restart,
\* which forgets the eviction as well (registry.py:144-151, 394-424).
SavedBansHold == \A n \in Node : [](n \in disk.banned => []~Serves(n))

\* A TRUSTED node outside the bootstrap fleet has passed PromoteAfter
\* challenges under its current registration (topology.py:460-484).
TrustIsEarned ==
  \A n \in Node : table[n].trust = "trusted" =>
    n \in Seed \/ table[n].checks >= PromoteAfter

\* Bans are exactly the nodes evicted BanAfter times, across restarts
\* (registry.py:144-151, 394-424).
BansCountEvictions == banned = {n \in Node : evictions[n] >= BanAfter}

\* Running orchestrators hold different session-id prefixes, so their
\* sessions never meet on a worker's KV (registry.py:73-75, 91-92).
PrefixesAreUnique ==
  \A m, n \in Node : prefix[m] # None /\ prefix[m] = prefix[n] => m = n

\* Affinity: a session that acquires again keeps every holder that still
\* serves its slot, and replaces the others by holders that do
\* (registry.py:240-281).
WarmPinsSurvive ==
  [][\A s \in Session : pinned[s] # None /\ pinned'[s] # None =>
       \A k \in Slot :
         /\ pinned[s][k] \in Routable(k) => pinned'[s][k] = pinned[s][k]
         /\ pinned'[s][k] # pinned[s][k] => pinned'[s][k] \in Routable(k)]_vars

\* A node whose machine is gone stops being routed to and stops counting as
\* a holder in the making, however it left, unless it is DRAINING
\* (topology.py:392-411, control_server.py:254-268).
SilentNodesLeaveRouting ==
  \A n \in Node : n \in gone ~> table[n].state \in {"absent", "draining"}

\* topology.py:436: a probation node "must not be the primary whose output is
\* used"; it serves "only ... to avoid a coverage hole".  When a route takes
\* a node for a slot, the node is trusted if that slot has a trusted one.
ProbationIsLastResort ==
  [][\A s \in Session : pinned'[s] # None =>
       \A k \in Slot :
         \/ pinned[s] # None /\ pinned'[s][k] = pinned[s][k]
         \/ table[pinned'[s][k]].trust = "trusted"
         \/ \A n \in Routable(k) : table[n].trust = "probation"]_vars

=============================================================================
