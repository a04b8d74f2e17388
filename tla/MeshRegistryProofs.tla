------------------------- MODULE MeshRegistryProofs -------------------------
(***************************************************************************)
(* What the registry of module MeshRegistry guarantees for every set of    *)
(* nodes, every number of slots and sessions and every threshold: its type *)
(* invariant and the invariants the routing balancer and the bans rest on. *)
(***************************************************************************)
EXTENDS MeshRegistry, FiniteSetTheorems, TLAPS

USE DEF State, Trust, Role

-----------------------------------------------------------------------------
(***************************************************************************)
(* What a step of the registry can do to the node table: one operation on  *)
(* one node, the reaper, the clock, a restart, or nothing.                 *)
(***************************************************************************)
Operation(n) ==
  \/ \E cap \in Capacity, prefer \in Slot \cup {None} :
       Admit(n, cap, prefer, n \in Seed) \/ Refuse(n, cap, prefer)
  \/ AdmitOrchestrator(n, n \in Seed)
  \/ Beat(n) \/ SetReady(n) \/ SetSuspect(n) \/ SetDraining(n)
  \/ Pass(n) \/ Fail(n)

Emptied == table' = [n \in Node |-> Absent] /\ holders' = [k \in Slot |-> {}]

TopologyStep ==
  \/ \E n \in Node : Operation(n)
  \/ ReapAndPurge \/ Elapse \/ Emptied \/ UNCHANGED topologyVars

\* No method of the registry touches the table in any other way
\* (registry.py:78-210).
LEMMA EveryStepIsATopologyStep == [Next]_vars => TopologyStep
<1> SUFFICES ASSUME [Next]_vars PROVE TopologyStep
  OBVIOUS
<1>0. Worker \subseteq Node /\ Orchestrator \subseteq Node
  BY RegistryAssumption DEF RegistryAssumption
<1>1. ASSUME NEW n \in Worker, Joins(n)
      PROVE  TopologyStep
  BY <1>0, <1>1 DEF Joins, Register, RegisterRefused, TopologyStep, Operation
<1>2. ASSUME NEW n \in Orchestrator, RegisterOrchestrator(n) \/ OrchestratorExits(n)
      PROVE  TopologyStep
  BY <1>0, <1>2 DEF RegisterOrchestrator, OrchestratorExits, TopologyStep, Operation
<1>3. ASSUME NEW n \in Node, NodeStep(n)
      PROVE  TopologyStep
  BY <1>3 DEF NodeStep, Heartbeat, MarkReady, MarkSuspect, Drain, NodeLeaves, SkipCheck,
              RecordPass, RecordFail, TopologyStep, Operation
<1>4. ASSUME NEW s \in Session, SessionStep(s)
      PROVE  TopologyStep
  BY <1>4 DEF SessionStep, AcquireRoute, ReacquireRoute, AcquireEntry, ReleaseRoute,
              ReleaseEntry, SessionLost, TopologyStep
<1>5. CASE AuditRound \/ Tick \/ Clock
  BY <1>5 DEF AuditRound, Tick, Clock, TopologyStep
<1>6. CASE Restart
  BY <1>6 DEF Restart, VolatileReset, Emptied, TopologyStep
<1>7. CASE UNCHANGED vars
  BY <1>7 DEF vars, topologyVars, TopologyStep
<1> QED  BY <1>1, <1>2, <1>3, <1>4, <1>5, <1>6, <1>7 DEF Next

-----------------------------------------------------------------------------
(***************************************************************************)
(* Typing.                                                                 *)
(***************************************************************************)

\* A silence may always start afresh (topology.py:328, 369).
LEMMA SilenceZero == 0 \in 0 .. SilenceCap
BY TopologyAssumption DEF TopologyAssumption, SilenceCap

\* The fields of a Node record (topology.py:192-211).
LEMMA FieldTypes ==
  ASSUME NEW r \in NodeRecord
  PROVE  /\ r.state \in State /\ r.trust \in Trust /\ r.role \in Role
         /\ r.checks \in Nat /\ r.strikes \in Nat
         /\ r.slot \in Slot \cup {None}
         /\ r.silence \in 0 .. SilenceCap
BY DEF NodeRecord

\* The two records a registration can install, and the empty one, are
\* records of the table (topology.py:192-211, 327-331).
LEMMA RecordTypes ==
  /\ Absent \in NodeRecord
  /\ \A k \in Slot \cup {None}, o \in Role :
       /\ Joining(k, o) \in NodeRecord
       /\ [Joining(k, o) EXCEPT !.trust = "trusted"] \in NodeRecord
<1>1. Absent \in NodeRecord
  BY SilenceZero DEF Absent, NodeRecord
<1>2. \A k \in Slot \cup {None}, o \in Role : Joining(k, o) \in NodeRecord
  BY <1>1 DEF Joining, NodeRecord
<1>3. \A k \in Slot \cup {None}, o \in Role :
        [Joining(k, o) EXCEPT !.trust = "trusted"] \in NodeRecord
  BY <1>2 DEF NodeRecord
<1> QED  BY <1>1, <1>2, <1>3

\* A saved state stays one, whether or not the save succeeds
\* (registry.py:394-409).
LEMMA SaveType ==
  ASSUME disk \in Saved, Save,
         evictions' \in [Node -> Nat], banned' \in SUBSET Node, orchSeq' \in Nat
  PROVE  disk' \in Saved
<1>1. PICK ok \in SaveOutcome :
        disk' = IF ok THEN [evictions |-> evictions', banned |-> banned',
                            orchSeq |-> orchSeq'] ELSE disk
  BY DEF Save
<1>2. [evictions |-> evictions', banned |-> banned', orchSeq |-> orchSeq'] \in Saved
  BY DEF Saved
<1> QED  BY <1>1, <1>2, Zenon

\* Dropping from a counter leaves a counter (registry.py:287-295).
LEMMA MinusType == \A c, d \in Nat : Minus(c, d) \in Nat
BY DEF Minus

\* A table of counters holds counters.
LEMMA NatCounts ==
  ASSUME load \in [Node -> Nat], NEW m \in Node
  PROVE  load[m] \in Nat /\ load[m] + 1 \in Nat
<1>1. load[m] \in Nat
  OBVIOUS
<1> QED  BY <1>1

LEMMA SlotFinite == IsFiniteSet(Slot)
BY FS_Interval, TopologyAssumption DEF TopologyAssumption, Slot

\* A route uses a node some number of times.
LEMMA UsesType ==
  ASSUME NEW route, NEW n
  PROVE  Uses(route, n) \in Nat
<1>1. IsFiniteSet({k \in Slot : route[k] = n})
  BY SlotFinite, FS_Subset
<1> QED  BY <1>1, FS_CardinalityType DEF Uses

LEMMA FreedEntryType ==
  ASSUME entryLoad \in [Node -> Nat], NEW s \in Session
  PROVE  FreedEntry(s) \in [Node -> Nat]
BY MinusType DEF FreedEntry

\* Every topology operation keeps the table and the holder lists well typed
\* (topology.py:302-417, 460-484).
LEMMA TopologyType ==
  ASSUME table \in [Node -> NodeRecord], holders \in [Slot -> SUBSET Node],
         TopologyStep
  PROVE  /\ table' \in [Node -> NodeRecord]
         /\ holders' \in [Slot -> SUBSET Node]
<1>0. \A n \in Node : WithoutHolding(n) \in [Slot -> SUBSET Node]
  BY DEF WithoutHolding
<1>1. ASSUME NEW n \in Node, NEW cap, NEW prefer, Admit(n, cap, prefer, n \in Seed)
      PROVE  /\ table' \in [Node -> NodeRecord]
             /\ holders' \in [Slot -> SUBSET Node]
  <2>1. PICK k \in SlotFor(n, cap, prefer) :
          /\ table' = [table EXCEPT ![n] =
               IF n \in Seed THEN [Joining(k, "worker") EXCEPT !.trust = "trusted"]
               ELSE Joining(k, "worker")]
          /\ holders' = [WithoutHolding(n) EXCEPT ![k] = @ \cup {n}]
    BY <1>1 DEF Admit
  <2>2. k \in Slot
    BY DEF SlotFor, PickSlot
  <2> QED  BY <1>0, <2>1, <2>2, RecordTypes
<1>2. ASSUME NEW n \in Node, NEW cap, NEW prefer, Refuse(n, cap, prefer)
      PROVE  /\ table' \in [Node -> NodeRecord]
             /\ holders' \in [Slot -> SUBSET Node]
  BY <1>0, <1>2 DEF Refuse
<1>3. ASSUME NEW n \in Node, AdmitOrchestrator(n, n \in Seed)
      PROVE  /\ table' \in [Node -> NodeRecord]
             /\ holders' \in [Slot -> SUBSET Node]
  BY <1>0, <1>3, RecordTypes DEF AdmitOrchestrator
<1>4. ASSUME NEW n \in Node, Beat(n)
      PROVE  /\ table' \in [Node -> NodeRecord]
             /\ holders' \in [Slot -> SUBSET Node]
  <2>1. \A x \in State : [table[n] EXCEPT !.silence = 0, !.state = x] \in NodeRecord
    BY SilenceZero DEF NodeRecord
  <2> QED  BY <1>4, <2>1, FieldTypes DEF Beat
<1>5. ASSUME NEW n \in Node, SetReady(n)
      PROVE  /\ table' \in [Node -> NodeRecord]
             /\ holders' \in [Slot -> SUBSET Node]
  <2>1. [table[n] EXCEPT !.state = "ready"] \in NodeRecord
    BY DEF NodeRecord
  <2> QED  BY <1>5, <2>1 DEF SetReady
<1>6. ASSUME NEW n \in Node, SetSuspect(n)
      PROVE  /\ table' \in [Node -> NodeRecord]
             /\ holders' \in [Slot -> SUBSET Node]
  <2>1. [table[n] EXCEPT !.state = "suspect"] \in NodeRecord
    BY DEF NodeRecord
  <2> QED  BY <1>6, <2>1 DEF SetSuspect
<1>7. ASSUME NEW n \in Node, SetDraining(n)
      PROVE  /\ table' \in [Node -> NodeRecord]
             /\ holders' \in [Slot -> SUBSET Node]
  <2>1. [table[n] EXCEPT !.state = "draining"] \in NodeRecord
    BY DEF NodeRecord
  <2> QED  BY <1>7, <2>1 DEF SetDraining
<1>8. ASSUME NEW n \in Node, Pass(n)
      PROVE  /\ table' \in [Node -> NodeRecord]
             /\ holders' \in [Slot -> SUBSET Node]
  <2>1. \A c, x \in Nat, t \in Trust :
          [table[n] EXCEPT !.checks = c, !.strikes = x, !.trust = t] \in NodeRecord
    BY DEF NodeRecord
  <2>2. /\ table[n].trust \in Trust /\ table[n].checks + 1 \in Nat
        /\ table[n].strikes \in Nat
        /\ table[n].strikes > 0 => table[n].strikes - 1 \in Nat
    BY FieldTypes
  <2> QED  BY <1>8, <2>1, <2>2 DEF Pass
<1>9. ASSUME NEW n \in Node, Fail(n)
      PROVE  /\ table' \in [Node -> NodeRecord]
             /\ holders' \in [Slot -> SUBSET Node]
  <2>1. \A c \in Nat, t \in Trust, x \in State :
          [table[n] EXCEPT !.strikes = c, !.trust = t, !.state = x] \in NodeRecord
    BY DEF NodeRecord
  <2>2. /\ table[n].trust \in Trust /\ table[n].state \in State
        /\ table[n].strikes + 1 \in Nat
    BY FieldTypes
  <2> QED  BY <1>9, <2>1, <2>2 DEF Fail
<1>10. CASE ReapAndPurge
  <2>1. \A m \in Node : [table[m] EXCEPT !.state = "dead"] \in NodeRecord
    BY DEF NodeRecord
  <2> QED  BY <1>10, <2>1, RecordTypes DEF ReapAndPurge
<1>11. CASE Elapse
  <2>1. \A m \in Node : \A x \in 0 .. SilenceCap :
          [table[m] EXCEPT !.silence = x] \in NodeRecord
    BY DEF NodeRecord
  <2>2. \A m \in Node : table[m].silence # SilenceCap =>
          table[m].silence + 1 \in 0 .. SilenceCap
    BY FieldTypes, TopologyAssumption DEF TopologyAssumption, SilenceCap
  <2> QED  BY <1>11, <2>1, <2>2 DEF Elapse
<1>12. CASE UNCHANGED topologyVars
  BY <1>12 DEF topologyVars
<1>13. CASE Emptied
  BY <1>13, RecordTypes DEF Emptied
<1> QED
  BY <1>1, <1>2, <1>3, <1>4, <1>5, <1>6, <1>7, <1>8, <1>9, <1>10, <1>11, <1>12,
     <1>13 DEF TopologyStep, Operation

\* Every reachable state is well typed, whatever the mesh
\* (registry.py:46-71, topology.py:192-219).
THEOREM TypeCorrect == Spec => []TypeOK
<1> USE DEF TypeOK
<1>1. Init => TypeOK
  <2> SUFFICES ASSUME Init PROVE TypeOK
    OBVIOUS
  <2>1. table \in [Node -> NodeRecord] /\ holders \in [Slot -> SUBSET Node]
    BY RecordTypes DEF Init, TopologyInit
  <2>2. disk \in Saved
    BY DEF Init, Saved
  <2>3. gone \in SUBSET Node
    BY RegistryAssumption DEF Init
  <2> QED  BY <2>1, <2>2, <2>3 DEF Init
<1>2. TypeOK /\ [Next]_vars => TypeOK'
  <2> SUFFICES ASSUME TypeOK, [Next]_vars PROVE TypeOK'
    OBVIOUS
  <2>0. table' \in [Node -> NodeRecord] /\ holders' \in [Slot -> SUBSET Node]
    BY TopologyType, EveryStepIsATopologyStep
  <2> USE DEF topologyVars, loadVars, entryVars, durable, outside
  <2>1. ASSUME NEW n \in Worker, Joins(n)
        PROVE  TypeOK'
    <3>0. n \in Node
      BY RegistryAssumption DEF RegistryAssumption
    <3>1. CASE \E cap \in Capacity, prefer \in Slot \cup {None} : Register(n, cap, prefer)
      BY <2>0, <3>0, <3>1, SaveType DEF Register
    <3>2. CASE \E cap \in Capacity, prefer \in Slot \cup {None} :
                 RegisterRefused(n, cap, prefer)
      BY <2>0, <3>0, <3>2 DEF RegisterRefused
    <3> QED  BY <2>1, <3>1, <3>2 DEF Joins
  <2>2. ASSUME NEW n \in Orchestrator, RegisterOrchestrator(n)
        PROVE  TypeOK'
    <3>0. n \in Node
      BY RegistryAssumption DEF RegistryAssumption
    <3>1. orchSeq % IndexSpace \in Nat /\ orchSeq + 1 \in Nat
      BY RegistryAssumption DEF RegistryAssumption
    <3>2. disk' \in Saved
      BY <2>2, <3>1, SaveType DEF RegisterOrchestrator
    <3> QED  BY <2>0, <2>2, <3>0, <3>1, <3>2 DEF RegisterOrchestrator
  <2>3. ASSUME NEW n \in Node,
               Heartbeat(n) \/ MarkReady(n) \/ MarkSuspect(n) \/ Drain(n)
        PROVE  TypeOK'
    BY <2>0, <2>3 DEF Heartbeat, MarkReady, MarkSuspect, Drain
  <2>4. ASSUME NEW n \in Node, NodeLeaves(n) \/ SkipCheck(n)
        PROVE  TypeOK'
    BY <2>4 DEF NodeLeaves, SkipCheck
  <2>5. ASSUME NEW n \in Node, RecordPass(n)
        PROVE  TypeOK'
    BY <2>0, <2>5 DEF RecordPass
  <2>6. ASSUME NEW n \in Node, RecordFail(n)
        PROVE  TypeOK'
    <3>2. CASE Evicts(n)
      <4>1. /\ evictions' \in [Node -> Nat] /\ banned' \in SUBSET Node
            /\ orchSeq' \in Nat
        BY <2>6, <3>2 DEF RecordFail
      <4>2. disk' \in Saved
        BY <2>6, <3>2, <4>1, SaveType DEF RecordFail
      <4> QED  BY <2>0, <2>6, <4>1, <4>2 DEF RecordFail
    <3>3. CASE ~Evicts(n)
      BY <2>0, <2>6, <3>3 DEF RecordFail
    <3> QED  BY <3>2, <3>3
  <2>7. ASSUME NEW n \in Orchestrator, OrchestratorExits(n)
        PROVE  TypeOK'
    BY <2>7 DEF OrchestratorExits
  <2>8. ASSUME NEW s \in Session, NEW route \in Route, AcquireRoute(s, route)
        PROVE  TypeOK'
    BY <2>8, UsesType DEF AcquireRoute
  <2>9. ASSUME NEW s \in Session, NEW route \in Route, ReacquireRoute(s, route)
        PROVE  TypeOK'
    <3>1. \A m \in Node : Minus(load[m], 1) \in Nat /\ load[m] + 1 \in Nat /\ load[m] \in Nat
      BY MinusType, NatCounts
    <3>2. load' = [m \in Node |->
            IF Passes(pinned[s], m) /\ ~Passes(route, m) THEN Minus(load[m], 1)
            ELSE IF Passes(route, m) /\ ~Passes(pinned[s], m) THEN load[m] + 1
            ELSE load[m]]
      BY <2>9 DEF ReacquireRoute
    <3>3. load' \in [Node -> Nat]
      BY <3>1, <3>2, Zenon
    <3> QED  BY <2>9, <3>3 DEF ReacquireRoute
  <2>10. ASSUME NEW s \in Session, ReleaseRoute(s)
         PROVE  TypeOK'
    <3>1. load' \in [Node -> Nat]
      BY <2>10, MinusType, UsesType DEF ReleaseRoute
    <3> QED  BY <2>10, <3>1 DEF ReleaseRoute
  <2>11. ASSUME NEW s \in Session, NEW n \in Orchestrator, AcquireEntry(s, n)
         PROVE  TypeOK'
    <3>0. n \in Node
      BY RegistryAssumption DEF RegistryAssumption
    <3> QED  BY <2>11, <3>0, FreedEntryType DEF AcquireEntry
  <2>12. ASSUME NEW s \in Session, ReleaseEntry(s)
         PROVE  TypeOK'
    BY <2>12, FreedEntryType DEF ReleaseEntry
  <2>13. ASSUME NEW s \in Session, SessionLost(s)
         PROVE  TypeOK'
    BY <2>13 DEF SessionLost
  <2>14. CASE AuditRound
    BY <2>14 DEF AuditRound, Auditable
  <2>15. CASE Tick \/ Clock
    BY <2>0, <2>15 DEF Tick, Clock
  <2>16. CASE Restart
    BY <2>0, <2>16 DEF Restart, VolatileReset, Saved
  <2>17. CASE UNCHANGED vars
    BY <2>17 DEF vars
  <2> QED
    BY <2>1, <2>2, <2>3, <2>4, <2>5, <2>6, <2>7, <2>8, <2>9, <2>10, <2>11, <2>12,
       <2>13, <2>14, <2>15, <2>16, <2>17 DEF Next, NodeStep, SessionStep
<1> QED  BY <1>1, <1>2, PTL DEF Spec

-----------------------------------------------------------------------------
(***************************************************************************)
(* The holder lists agree with the node records.  The step that matters is *)
(* a registration: it drops every holding the node had before it adds one. *)
(***************************************************************************)

\* No topology operation lists a node under a slot its record does not name
\* (topology.py:317-332, 337-347, 402-417).
LEMMA TopologyKeepsHolders ==
  ASSUME table \in [Node -> NodeRecord], holders \in [Slot -> SUBSET Node],
         HoldersMatchRecords,
         TopologyStep
  PROVE  HoldersMatchRecords'
<1> USE DEF HoldersMatchRecords, Known
<1>0. \A n \in Node, k \in Slot :
        n \notin WithoutHolding(n)[k] /\ WithoutHolding(n)[k] \subseteq holders[k]
  BY DEF WithoutHolding
<1>1. ASSUME NEW n \in Node, NEW cap, NEW prefer, Admit(n, cap, prefer, n \in Seed)
      PROVE  HoldersMatchRecords'
  <2>1. PICK k \in SlotFor(n, cap, prefer) :
          /\ table' = [table EXCEPT ![n] =
               IF n \in Seed THEN [Joining(k, "worker") EXCEPT !.trust = "trusted"]
               ELSE Joining(k, "worker")]
          /\ holders' = [WithoutHolding(n) EXCEPT ![k] = @ \cup {n}]
    BY <1>1 DEF Admit
  <2>2. k \in Slot
    BY DEF SlotFor, PickSlot
  <2>3. \A j \in Slot : holders'[j] = IF j = k THEN WithoutHolding(n)[j] \cup {n}
                                      ELSE WithoutHolding(n)[j]
    BY <2>1, <2>2 DEF WithoutHolding
  <2>4. /\ table'[n].state = "joining" /\ table'[n].slot = k
        /\ table'[n].role = "worker"
    BY <2>1 DEF Joining, Absent
  <2>5. \A m \in Node : m # n => table'[m] = table[m]
    BY <2>1
  <2>6. ASSUME NEW j \in Slot, NEW m \in holders'[j]
        PROVE  table'[m].state # "absent" /\ table'[m].slot = j /\ table'[m].role = "worker"
    <3>1. CASE m = n
      <4>1. j = k
        BY <1>0, <2>3, <2>6, <3>1
      <4> QED  BY <2>4, <3>1, <4>1
    <3>2. CASE m # n
      <4>0. holders'[j] \subseteq WithoutHolding(n)[j] \cup {n}
        BY <2>3
      <4>1. m \in holders[j]
        BY <1>0, <2>6, <3>2, <4>0
      <4>2. m \in Node
        BY <4>1
      <4> QED  BY <2>5, <3>2, <4>1, <4>2
    <3> QED  BY <3>1, <3>2
  <2> QED  BY <2>6
<1>2. ASSUME NEW n \in Node, NEW cap, NEW prefer, Refuse(n, cap, prefer)
      PROVE  HoldersMatchRecords'
  BY <1>0, <1>2 DEF Refuse
<1>3. ASSUME NEW n \in Node, AdmitOrchestrator(n, n \in Seed)
      PROVE  HoldersMatchRecords'
  BY <1>0, <1>3 DEF AdmitOrchestrator
<1>4. ASSUME NEW n \in Node, Beat(n)
      PROVE  HoldersMatchRecords'
  BY <1>4 DEF Beat
<1>5. ASSUME NEW n \in Node, SetReady(n)
      PROVE  HoldersMatchRecords'
  BY <1>5 DEF SetReady
<1>6. ASSUME NEW n \in Node, SetSuspect(n)
      PROVE  HoldersMatchRecords'
  BY <1>6 DEF SetSuspect
<1>7. ASSUME NEW n \in Node, SetDraining(n)
      PROVE  HoldersMatchRecords'
  BY <1>7 DEF SetDraining
<1>8. ASSUME NEW n \in Node, Pass(n)
      PROVE  HoldersMatchRecords'
  BY <1>8 DEF Pass
<1>9. ASSUME NEW n \in Node, Fail(n)
      PROVE  HoldersMatchRecords'
  BY <1>9 DEF Fail
<1>10. CASE ReapAndPurge
  <2>1. ASSUME NEW k \in Slot, NEW m \in holders'[k]
        PROVE  table'[m].state # "absent" /\ table'[m].slot = k /\ table'[m].role = "worker"
    <3>1. m \in Node /\ m \in holders[k] /\ table[m].slot = k /\ ~Purged(m)
      BY <1>10, <2>1 DEF ReapAndPurge
    <3>2. table'[m] = IF Reaped(m) THEN [table[m] EXCEPT !.state = "dead"] ELSE table[m]
      BY <1>10, <3>1 DEF ReapAndPurge
    <3>3. table[m] \in NodeRecord
      BY <3>1
    <3> QED  BY <3>1, <3>2, <3>3 DEF NodeRecord
  <2> QED  BY <2>1
<1>11. CASE Elapse
  <2>1. \A m \in Node : /\ table'[m].state = table[m].state
                       /\ table'[m].slot = table[m].slot
                       /\ table'[m].role = table[m].role
    BY <1>11 DEF Elapse, NodeRecord
  <2> QED  BY <1>11, <2>1 DEF Elapse
<1>12. CASE UNCHANGED topologyVars
  BY <1>12 DEF topologyVars
<1>13. CASE Emptied
  BY <1>13 DEF Emptied
<1> QED
  BY <1>1, <1>2, <1>3, <1>4, <1>5, <1>6, <1>7, <1>8, <1>9, <1>10, <1>11, <1>12,
     <1>13 DEF TopologyStep, Operation

\* HoldersMatchRecords, the invariant of the holder lists, holds of every
\* mesh (topology.py:317-332, 413-417).
THEOREM HoldersCorrect == Spec => []HoldersMatchRecords
<1>1. Init => HoldersMatchRecords
  BY DEF Init, TopologyInit, HoldersMatchRecords
<1>2. TypeOK /\ HoldersMatchRecords /\ [Next]_vars => HoldersMatchRecords'
  BY EveryStepIsATopologyStep, TopologyKeepsHolders DEF TypeOK
<1> QED  BY <1>1, <1>2, TypeCorrect, PTL DEF Spec

-----------------------------------------------------------------------------
(***************************************************************************)
(* Routes.  A route is taken from the holder lists of its slots, and no    *)
(* node is on two of them, so its nodes differ when it is taken; nothing   *)
(* changes it afterwards.                                                  *)
(***************************************************************************)

\* Whatever is routed to is listed under one slot only (topology.py:435-450).
LEMMA RoutablesDiffer ==
  ASSUME HoldersMatchRecords, NEW route,
         \A k \in Slot : route[k] \in Routable(k)
  PROVE  \A j, k \in Slot : route[j] = route[k] => j = k
<1>1. \A k \in Slot : table[route[k]].slot = k
  BY DEF HoldersMatchRecords, Routable
<1> QED  BY <1>1

LEMMA BestIsRoutable == \A k \in Slot : Best(k) \subseteq Routable(k)
BY DEF Best

\* The route every acquire_route answers is disjoint (registry.py:252-262).
LEMMA AcquiredRoutesDiffer ==
  ASSUME HoldersMatchRecords, NEW s, NEW route,
         AcquireRoute(s, route) \/ ReacquireRoute(s, route)
  PROVE  \A j, k \in Slot : route[j] = route[k] => j = k
<1>1. CASE AcquireRoute(s, route)
  BY <1>1, RoutablesDiffer, BestIsRoutable DEF AcquireRoute
<1>2. CASE ReacquireRoute(s, route)
  <2>1. \A k \in Slot : route[k] \in Routable(k)
    BY <1>2, BestIsRoutable DEF ReacquireRoute
  <2> QED  BY <2>1, RoutablesDiffer
<1> QED  BY <1>1, <1>2

\* What a step can do to the pinned routes: take one, drop some, nothing.
PinStep ==
  \/ \E s \in Session, route \in Route :
       /\ AcquireRoute(s, route) \/ ReacquireRoute(s, route)
       /\ pinned' = [pinned EXCEPT ![s] = route]
  \/ \E s \in Session : pinned' = [pinned EXCEPT ![s] = None]
  \/ pinned' = [s \in Session |-> None]
  \/ UNCHANGED pinned

\* Only acquire_route, release_route and a restart touch the routes
\* (registry.py:229-295).
LEMMA EveryStepIsAPinStep == [Next]_vars => PinStep
<1> SUFFICES ASSUME [Next]_vars PROVE PinStep
  OBVIOUS
<1> USE DEF loadVars, PinStep
<1>1. ASSUME NEW n \in Worker, Joins(n)
      PROVE  PinStep
  BY <1>1 DEF Joins, Register, RegisterRefused
<1>2. ASSUME NEW n \in Orchestrator, RegisterOrchestrator(n) \/ OrchestratorExits(n)
      PROVE  PinStep
  BY <1>2 DEF RegisterOrchestrator, OrchestratorExits
<1>3. ASSUME NEW n \in Node, NodeStep(n)
      PROVE  PinStep
  BY <1>3 DEF NodeStep, Heartbeat, MarkReady, MarkSuspect, Drain, NodeLeaves, SkipCheck,
              RecordPass, RecordFail
<1>4. ASSUME NEW s \in Session, NEW route \in Route,
             AcquireRoute(s, route) \/ ReacquireRoute(s, route)
      PROVE  PinStep
  <2>1. pinned' = [pinned EXCEPT ![s] = route]
    BY <1>4 DEF AcquireRoute, ReacquireRoute
  <2> QED  BY <1>4, <2>1
<1>5. ASSUME NEW s \in Session, ReleaseRoute(s)
      PROVE  PinStep
  BY <1>5 DEF ReleaseRoute
<1>6. ASSUME NEW s \in Session, NEW n \in Orchestrator, AcquireEntry(s, n)
      PROVE  PinStep
  BY <1>6 DEF AcquireEntry
<1>7. ASSUME NEW s \in Session, ReleaseEntry(s) \/ SessionLost(s)
      PROVE  PinStep
  BY <1>7 DEF ReleaseEntry, SessionLost
<1>8. CASE AuditRound \/ Tick \/ Clock
  BY <1>8 DEF AuditRound, Tick, Clock
<1>9. CASE Restart
  BY <1>9 DEF Restart, VolatileReset
<1>10. CASE UNCHANGED vars
  BY <1>10 DEF vars
<1> QED
  BY <1>1, <1>2, <1>3, <1>4, <1>5, <1>6, <1>7, <1>8, <1>9, <1>10 DEF Next, SessionStep

\* RoutesAreDisjoint holds of every mesh (registry.py:229-281).
THEOREM RoutesCorrect == Spec => []RoutesAreDisjoint
<1>1. Init => RoutesAreDisjoint
  BY DEF Init, RoutesAreDisjoint
<1>2. TypeOK /\ HoldersMatchRecords /\ RoutesAreDisjoint /\ [Next]_vars
        => RoutesAreDisjoint'
  <2> SUFFICES ASSUME TypeOK, HoldersMatchRecords, RoutesAreDisjoint, [Next]_vars
               PROVE  RoutesAreDisjoint'
    OBVIOUS
  <2>0. pinned \in [Session -> Route \cup {None}]
    BY DEF TypeOK
  <2>1. ASSUME NEW s \in Session, NEW route \in Route,
               AcquireRoute(s, route) \/ ReacquireRoute(s, route),
               pinned' = [pinned EXCEPT ![s] = route]
        PROVE  RoutesAreDisjoint'
    <3>1. \A j, k \in Slot : route[j] = route[k] => j = k
      BY <2>1, AcquiredRoutesDiffer
    <3> QED  BY <2>0, <2>1, <3>1 DEF RoutesAreDisjoint
  <2>2. ASSUME NEW s \in Session, pinned' = [pinned EXCEPT ![s] = None]
        PROVE  RoutesAreDisjoint'
    BY <2>0, <2>2 DEF RoutesAreDisjoint
  <2>3. CASE pinned' = [s \in Session |-> None]
    BY <2>3 DEF RoutesAreDisjoint
  <2>4. CASE UNCHANGED pinned
    BY <2>4 DEF RoutesAreDisjoint
  <2> QED  BY <2>1, <2>2, <2>3, <2>4, EveryStepIsAPinStep DEF PinStep
<1> QED  BY <1>1, <1>2, TypeCorrect, HoldersCorrect, PTL DEF Spec

\* WarmPinsSurvive holds of every mesh: a session that acquires again, after
\* whatever its holders did meanwhile, keeps every pin that still serves and
\* replaces the others only by routable holders (registry.py:240-281).
THEOREM PinsCorrect == Spec => WarmPinsSurvive
<1> DEFINE Kept(s) == pinned[s] # None /\ pinned'[s] # None =>
             \A k \in Slot :
               /\ pinned[s][k] \in Routable(k) => pinned'[s][k] = pinned[s][k]
               /\ pinned'[s][k] # pinned[s][k] => pinned'[s][k] \in Routable(k)
<1>1. TypeOK /\ [Next]_vars => \A s \in Session : Kept(s)
  <2> SUFFICES ASSUME TypeOK, [Next]_vars, NEW s \in Session PROVE Kept(s)
    OBVIOUS
  <2>0. pinned \in [Session -> Route \cup {None}]
    BY DEF TypeOK
  <2>1. ASSUME NEW t \in Session, NEW route \in Route, AcquireRoute(t, route),
               pinned' = [pinned EXCEPT ![t] = route]
        PROVE  Kept(s)
    BY <2>0, <2>1 DEF AcquireRoute
  <2>2. ASSUME NEW t \in Session, NEW route \in Route, ReacquireRoute(t, route),
               pinned' = [pinned EXCEPT ![t] = route]
        PROVE  Kept(s)
    <3>1. CASE s = t
      <4>1. \A k \in Slot : IF pinned[s][k] \in Routable(k) THEN route[k] = pinned[s][k]
                                                            ELSE route[k] \in Best(k)
        BY <2>2, <3>1 DEF ReacquireRoute
      <4>2. pinned'[s] = route
        BY <2>0, <2>2, <3>1
      <4> QED  BY <4>1, <4>2, BestIsRoutable
    <3>2. CASE s # t
      BY <2>0, <2>2, <3>2
    <3> QED  BY <3>1, <3>2
  <2>3. ASSUME NEW t \in Session, pinned' = [pinned EXCEPT ![t] = None] PROVE Kept(s)
    BY <2>0, <2>3
  <2>4. CASE pinned' = [t \in Session |-> None] \/ UNCHANGED pinned
    BY <2>4
  <2> QED  BY <2>1, <2>2, <2>3, <2>4, EveryStepIsAPinStep DEF PinStep
<1> QED  BY <1>1, TypeCorrect, PTL DEF Spec, WarmPinsSurvive

-----------------------------------------------------------------------------
(***************************************************************************)
(* Bans.  They are saved in the same call that makes them, so what a       *)
(* restart reads back agrees with itself even when the save before the     *)
(* crash failed.                                                           *)
(***************************************************************************)
SavedBansCountEvictions ==
  disk.banned = {n \in Node : disk.evictions[n] >= BanAfter}

LEMMA SaveKeepsBans ==
  ASSUME Save, SavedBansCountEvictions, BansCountEvictions'
  PROVE  SavedBansCountEvictions'
<1>1. PICK ok \in SaveOutcome :
        disk' = IF ok THEN [evictions |-> evictions', banned |-> banned',
                            orchSeq |-> orchSeq'] ELSE disk
  BY DEF Save
<1>2. CASE ok
  BY <1>1, <1>2 DEF SavedBansCountEvictions, BansCountEvictions
<1>3. CASE ~ok
  BY <1>1, <1>3 DEF SavedBansCountEvictions
<1> QED  BY <1>2, <1>3

\* What a step can do to the bans: count an eviction, save, be read back.
BanStep ==
  \/ \E n \in Node :
       /\ evictions' = [evictions EXCEPT ![n] = @ + 1]
       /\ banned' = IF evictions'[n] >= BanAfter THEN banned \cup {n} ELSE banned
       /\ Save
  \/ UNCHANGED <<evictions, banned>> /\ Save
  \/ evictions' = disk.evictions /\ banned' = disk.banned /\ UNCHANGED disk
  \/ UNCHANGED <<evictions, banned, disk>>

\* Only an eviction bans and only a restart reads bans back
\* (registry.py:138-151, 394-424).
LEMMA EveryStepIsABanStep == [Next]_vars => BanStep
<1> SUFFICES ASSUME [Next]_vars PROVE BanStep
  OBVIOUS
<1> USE DEF durable, BanStep
<1>1. ASSUME NEW n \in Worker, Joins(n)
      PROVE  BanStep
  BY <1>1 DEF Joins, Register, RegisterRefused
<1>2. ASSUME NEW n \in Orchestrator, RegisterOrchestrator(n) \/ OrchestratorExits(n)
      PROVE  BanStep
  BY <1>2 DEF RegisterOrchestrator, OrchestratorExits
<1>3. ASSUME NEW n \in Node, RecordFail(n)
      PROVE  BanStep
  <2>1. CASE Evicts(n)
    BY <1>3, <2>1 DEF RecordFail
  <2>2. CASE ~Evicts(n)
    BY <1>3, <2>2 DEF RecordFail
  <2> QED  BY <2>1, <2>2
<1>4. ASSUME NEW n \in Node,
             \/ Heartbeat(n) \/ MarkReady(n) \/ MarkSuspect(n) \/ Drain(n)
             \/ NodeLeaves(n) \/ SkipCheck(n) \/ RecordPass(n)
      PROVE  BanStep
  BY <1>4 DEF Heartbeat, MarkReady, MarkSuspect, Drain, NodeLeaves, SkipCheck, RecordPass
<1>5. ASSUME NEW s \in Session, SessionStep(s)
      PROVE  BanStep
  BY <1>5 DEF SessionStep, AcquireRoute, ReacquireRoute, AcquireEntry, ReleaseRoute,
              ReleaseEntry, SessionLost
<1>6. CASE AuditRound \/ Tick \/ Clock
  BY <1>6 DEF AuditRound, Tick, Clock
<1>7. CASE Restart
  BY <1>7 DEF Restart, VolatileReset
<1>8. CASE UNCHANGED vars
  BY <1>8 DEF vars
<1> QED
  BY <1>1, <1>2, <1>3, <1>4, <1>5, <1>6, <1>7, <1>8 DEF Next, NodeStep

\* BansCountEvictions holds of every mesh, over any number of restarts and
\* failed saves (registry.py:144-151, 394-424).
THEOREM BansCorrect == Spec => []BansCountEvictions
<1>1. Init => BansCountEvictions /\ SavedBansCountEvictions
  <2> SUFFICES ASSUME Init PROVE BansCountEvictions /\ SavedBansCountEvictions
    OBVIOUS
  <2>1. ~(0 >= BanAfter)
    BY RegistryAssumption DEF RegistryAssumption
  <2> QED  BY <2>1 DEF Init, BansCountEvictions, SavedBansCountEvictions
<1>2. TypeOK /\ BansCountEvictions /\ SavedBansCountEvictions /\ [Next]_vars
        => BansCountEvictions' /\ SavedBansCountEvictions'
  <2> SUFFICES ASSUME TypeOK, BansCountEvictions, SavedBansCountEvictions, [Next]_vars
               PROVE  BansCountEvictions' /\ SavedBansCountEvictions'
    OBVIOUS
  <2>0. /\ evictions \in [Node -> Nat]
        /\ BanAfter \in Nat
    BY RegistryAssumption DEF TypeOK, RegistryAssumption
  <2>1. ASSUME NEW n \in Node, Save,
               evictions' = [evictions EXCEPT ![n] = @ + 1],
               banned' = IF evictions'[n] >= BanAfter THEN banned \cup {n} ELSE banned
        PROVE  BansCountEvictions' /\ SavedBansCountEvictions'
    <3>1. BansCountEvictions'
      BY <2>0, <2>1 DEF BansCountEvictions
    <3> QED  BY <2>1, <3>1, SaveKeepsBans
  <2>2. CASE UNCHANGED <<evictions, banned>> /\ Save
    <3>1. BansCountEvictions'
      BY <2>2 DEF BansCountEvictions
    <3> QED  BY <2>2, <3>1, SaveKeepsBans
  <2>3. CASE evictions' = disk.evictions /\ banned' = disk.banned /\ UNCHANGED disk
    BY <2>3 DEF BansCountEvictions, SavedBansCountEvictions
  <2>4. CASE UNCHANGED <<evictions, banned, disk>>
    BY <2>4 DEF BansCountEvictions, SavedBansCountEvictions
  <2> QED  BY <2>1, <2>2, <2>3, <2>4, EveryStepIsABanStep DEF BanStep
<1> QED  BY <1>1, <1>2, TypeCorrect, PTL DEF Spec

-----------------------------------------------------------------------------
(***************************************************************************)
(* Trust.  It comes from the bootstrap fleet or from PromoteAfter passes,  *)
(* and goes with the record that earned it.                                *)
(***************************************************************************)

\* No topology operation hands out trust (topology.py:302-347, 453-484).
LEMMA TopologyKeepsTrust ==
  ASSUME table \in [Node -> NodeRecord], TrustIsEarned, TopologyStep
  PROVE  TrustIsEarned'
<1> USE DEF TrustIsEarned
<1>0. PromoteAfter \in Nat
  BY TopologyAssumption DEF TopologyAssumption
<1>1. ASSUME NEW n \in Node, NEW cap, NEW prefer, Admit(n, cap, prefer, n \in Seed)
      PROVE  TrustIsEarned'
  BY <1>1 DEF Admit, Joining, Absent
<1>2. ASSUME NEW n \in Node, NEW cap, NEW prefer, Refuse(n, cap, prefer)
      PROVE  TrustIsEarned'
  BY <1>2 DEF Refuse
<1>3. ASSUME NEW n \in Node, AdmitOrchestrator(n, n \in Seed)
      PROVE  TrustIsEarned'
  BY <1>3 DEF AdmitOrchestrator, Joining, Absent
<1>4. ASSUME NEW n \in Node,
             Beat(n) \/ SetReady(n) \/ SetSuspect(n) \/ SetDraining(n)
      PROVE  TrustIsEarned'
  <2>1. \A m \in Node : /\ table'[m].trust = table[m].trust
                       /\ table'[m].checks = table[m].checks
    BY <1>4 DEF Beat, SetReady, SetSuspect, SetDraining, NodeRecord
  <2> QED  BY <2>1
<1>5. ASSUME NEW n \in Node, Pass(n)
      PROVE  TrustIsEarned'
  <2> DEFINE c == IF table[n].strikes > 0 THEN table[n].strikes - 1 ELSE 0
             b == table[n].checks + 1 >= PromoteAfter /\ c = 0
  <2>1. table' = [table EXCEPT ![n].checks = @ + 1, ![n].strikes = c,
                               ![n].trust = IF b THEN "trusted" ELSE @]
    BY <1>5 DEF Pass
  <2> HIDE DEF c
  <2>2. \A m \in Node : m # n => table'[m] = table[m]
    BY <2>1
  <2>3. table[n] \in NodeRecord /\ table[n].checks \in Nat
    BY FieldTypes
  <2>4. /\ table'[n].checks = table[n].checks + 1
        /\ table'[n].trust = IF b THEN "trusted" ELSE table[n].trust
    BY <2>1, <2>3 DEF NodeRecord
  <2>5. table'[n].trust = "trusted" => n \in Seed \/ table'[n].checks >= PromoteAfter
    BY <1>0, <2>1, <2>3, <2>4
  <2> QED  BY <2>2, <2>5
<1>6. ASSUME NEW n \in Node, Fail(n)
      PROVE  TrustIsEarned'
  <2>1. \A m \in Node : /\ table'[m].checks = table[m].checks
                       /\ table'[m].trust \in {table[m].trust, "probation"}
    BY <1>6 DEF Fail, NodeRecord
  <2> QED  BY <2>1
<1>7. CASE ReapAndPurge
  <2>1. \A m \in Node : \/ table'[m] = Absent
                       \/ /\ table'[m].trust = table[m].trust
                          /\ table'[m].checks = table[m].checks
    BY <1>7 DEF ReapAndPurge, NodeRecord
  <2> QED  BY <2>1 DEF Absent
<1>8. CASE Elapse
  <2>1. \A m \in Node : /\ table'[m].trust = table[m].trust
                       /\ table'[m].checks = table[m].checks
    BY <1>8 DEF Elapse, NodeRecord
  <2> QED  BY <2>1
<1>9. CASE Emptied
  BY <1>9 DEF Emptied, Absent
<1>10. CASE UNCHANGED topologyVars
  BY <1>10 DEF topologyVars
<1> QED
  BY <1>1, <1>2, <1>3, <1>4, <1>5, <1>6, <1>7, <1>8, <1>9, <1>10
     DEF TopologyStep, Operation

\* TrustIsEarned holds of every mesh (topology.py:460-484).
THEOREM TrustCorrect == Spec => []TrustIsEarned
<1>1. Init => TrustIsEarned
  BY DEF Init, TopologyInit, TrustIsEarned, Absent
<1>2. TypeOK /\ TrustIsEarned /\ [Next]_vars => TrustIsEarned'
  BY EveryStepIsATopologyStep, TopologyKeepsTrust DEF TypeOK
<1> QED  BY <1>1, <1>2, TypeCorrect, PTL DEF Spec

-----------------------------------------------------------------------------
(***************************************************************************)
(* Load.  acquire_route and release_route count a node once per stage it   *)
(* serves, a re-acquire once per session; the two agree because routes are *)
(* disjoint.  Then each call moves the count of a node exactly when it     *)
(* moves the session on or off it.                                         *)
(***************************************************************************)

On(route, n) == route # None /\ Passes(route, n)

\* A disjoint route uses a node once or not at all (registry.py:263-267,
\* 289-295).
LEMMA DisjointUses ==
  ASSUME NEW route \in Route \cup {None}, NEW n,
         route # None => \A j, k \in Slot : route[j] = route[k] => j = k
  PROVE  Uses(route, n) = IF On(route, n) THEN 1 ELSE 0
<1>1. CASE route = None
  BY <1>1 DEF Uses, On
<1>2. CASE route # None /\ ~Passes(route, n)
  <2>1. {k \in Slot : route[k] = n} = {}
    BY <1>2 DEF Passes
  <2> QED  BY <1>2, <2>1, FS_EmptySet DEF Uses, On
<1>3. CASE route # None /\ Passes(route, n)
  <2>1. PICK k \in Slot : route[k] = n
    BY <1>3 DEF Passes
  <2>2. {j \in Slot : route[j] = n} = {k}
    BY <1>3, <2>1
  <2>3. Cardinality({k}) = 1
    BY FS_Singleton
  <2> QED  BY <1>3, <2>2, <2>3 DEF Uses, On
<1> QED  BY <1>1, <1>2, <1>3

\* The sessions through a node are a finite set (registry.py:62-64).
LEMMA SessionsFinite ==
  \A n \in Node : /\ IsFiniteSet(SessionsOn(n))
                  /\ Cardinality(SessionsOn(n)) \in Nat
<1> SUFFICES ASSUME NEW n \in Node
             PROVE  IsFiniteSet(SessionsOn(n)) /\ Cardinality(SessionsOn(n)) \in Nat
  OBVIOUS
<1>1. IsFiniteSet(Session)
  BY RegistryAssumption DEF RegistryAssumption
<1>2. SessionsOn(n) \in SUBSET Session
  BY DEF SessionsOn
<1>3. IsFiniteSet(SessionsOn(n))
  BY <1>1, <1>2, FS_Subset
<1> QED  BY <1>3, FS_CardinalityType

\* The load follows the route of one session from old to new.
Moves(s, new) ==
  load' = [n \in Node |->
    IF On(pinned[s], n) /\ ~On(new, n) THEN load[n] - 1
    ELSE IF On(new, n) /\ ~On(pinned[s], n) THEN load[n] + 1
    ELSE load[n]]

\* Moving one session's route along with the load keeps the account.
LEMMA MovesKeepAccount ==
  ASSUME pinned \in [Session -> Route \cup {None}], load \in [Node -> Nat],
         LoadAccounting,
         NEW s \in Session, NEW new \in Route \cup {None},
         pinned' = [pinned EXCEPT ![s] = new], Moves(s, new)
  PROVE  LoadAccounting'
<1> SUFFICES ASSUME NEW n \in Node
             PROVE  load'[n] = Cardinality(SessionsOn(n)')
  BY DEF LoadAccounting
<1>1. /\ IsFiniteSet(SessionsOn(n)) /\ Cardinality(SessionsOn(n)) \in Nat
      /\ load[n] = Cardinality(SessionsOn(n))
  BY SessionsFinite DEF LoadAccounting
<1>2. \A r \in Session : r \in SessionsOn(n) <=> On(pinned[r], n)
  BY DEF SessionsOn, On
<1>3. \A r \in Session : r \in SessionsOn(n)' <=> On(pinned'[r], n)
  BY DEF SessionsOn, On
<1>4. SessionsOn(n) \subseteq Session /\ SessionsOn(n)' \subseteq Session
  BY DEF SessionsOn
<1>5. pinned'[s] = new /\ \A r \in Session : r # s => pinned'[r] = pinned[r]
  OBVIOUS
<1>6. CASE On(pinned[s], n) /\ ~On(new, n)
  <2>1. SessionsOn(n)' = SessionsOn(n) \ {s} /\ s \in SessionsOn(n)
    BY <1>2, <1>3, <1>4, <1>5, <1>6
  <2>2. Cardinality(SessionsOn(n)') = Cardinality(SessionsOn(n)) - 1
    BY <1>1, <2>1, FS_RemoveElement
  <2>3. load'[n] = load[n] - 1
    BY <1>6 DEF Moves
  <2> QED  BY <1>1, <2>2, <2>3
<1>7. CASE On(new, n) /\ ~On(pinned[s], n)
  <2>1. SessionsOn(n)' = SessionsOn(n) \cup {s} /\ s \notin SessionsOn(n)
    BY <1>2, <1>3, <1>4, <1>5, <1>7
  <2>2. Cardinality(SessionsOn(n)') = Cardinality(SessionsOn(n)) + 1
    BY <1>1, <2>1, FS_AddElement
  <2>3. load'[n] = load[n] + 1
    BY <1>7 DEF Moves
  <2> QED  BY <1>1, <2>2, <2>3
<1>8. CASE On(new, n) <=> On(pinned[s], n)
  <2>1. SessionsOn(n)' = SessionsOn(n)
    BY <1>2, <1>3, <1>4, <1>5, <1>8
  <2>2. load'[n] = load[n]
    BY <1>8 DEF Moves
  <2> QED  BY <1>1, <2>1, <2>2
<1> QED  BY <1>6, <1>7, <1>8

\* A node that serves a session has load to give back, so no release is cut
\* off at zero (registry.py:289-295).
LEMMA ServedNodesHaveLoad ==
  ASSUME LoadAccounting, NEW s \in Session, NEW n \in Node, On(pinned[s], n)
  PROVE  load[n] \in Nat /\ load[n] >= 1
<1>1. s \in SessionsOn(n)
  BY DEF SessionsOn, On
<1>2. Cardinality(SessionsOn(n)) # 0
  BY <1>1, SessionsFinite, FS_EmptySet
<1> QED  BY <1>2, SessionsFinite DEF LoadAccounting

LEMMA AcquireMoves ==
  ASSUME TypeOK, HoldersMatchRecords, NEW s \in Session, NEW route \in Route,
         AcquireRoute(s, route)
  PROVE  Moves(s, route)
<1>0. \A n \in Node : load[n] \in Nat
  BY DEF TypeOK
<1>1. \A j, k \in Slot : route[j] = route[k] => j = k
  BY AcquiredRoutesDiffer
<1>2. \A n \in Node : Uses(route, n) = IF On(route, n) THEN 1 ELSE 0
  BY <1>1, DisjointUses
<1>3. \A n \in Node : ~On(pinned[s], n)
  BY DEF AcquireRoute, On
<1>4. load' = [n \in Node |-> load[n] + Uses(route, n)]
  BY DEF AcquireRoute
<1>5. \A n \in Node : load[n] + Uses(route, n) =
        IF On(route, n) /\ ~On(pinned[s], n) THEN load[n] + 1 ELSE load[n]
  BY <1>0, <1>2, <1>3
<1> QED  BY <1>3, <1>4, <1>5 DEF Moves

LEMMA ReacquireMoves ==
  ASSUME LoadAccounting, NEW s \in Session, NEW route \in Route,
         ReacquireRoute(s, route)
  PROVE  Moves(s, route)
<1>1. route # None /\ pinned[s] # None
  BY RegistryAssumption DEF RegistryAssumption, Route, ReacquireRoute
<1>2. \A n \in Node : /\ On(route, n) <=> Passes(route, n)
                      /\ On(pinned[s], n) <=> Passes(pinned[s], n)
  BY <1>1 DEF On
<1>3. \A n \in Node : On(pinned[s], n) => Minus(load[n], 1) = load[n] - 1
  BY ServedNodesHaveLoad DEF Minus
<1>4. load' = [n \in Node |->
       IF Passes(pinned[s], n) /\ ~Passes(route, n) THEN Minus(load[n], 1)
       ELSE IF Passes(route, n) /\ ~Passes(pinned[s], n) THEN load[n] + 1
       ELSE load[n]]
  BY DEF ReacquireRoute
<1> QED  BY <1>2, <1>3, <1>4, Zenon DEF Moves

LEMMA ReleaseMoves ==
  ASSUME TypeOK, LoadAccounting, RoutesAreDisjoint, NEW s \in Session, ReleaseRoute(s)
  PROVE  Moves(s, None)
<1>0. \A n \in Node : load[n] \in Nat
  BY DEF TypeOK
<1>1. pinned[s] \in Route \cup {None}
  BY DEF TypeOK
<1>2. \A n \in Node : Uses(pinned[s], n) = IF On(pinned[s], n) THEN 1 ELSE 0
  BY <1>1, DisjointUses DEF RoutesAreDisjoint
<1>3. \A n \in Node : On(pinned[s], n) => load[n] >= 1
  BY ServedNodesHaveLoad
<1>4. \A n \in Node : Minus(load[n], Uses(pinned[s], n)) =
        IF On(pinned[s], n) THEN load[n] - 1 ELSE load[n]
  BY <1>0, <1>2, <1>3 DEF Minus
<1>5. load' = [n \in Node |-> Minus(load[n], Uses(pinned[s], n))]
  BY DEF ReleaseRoute
<1>6. \A n \in Node : ~On(None, n)
  BY DEF On
<1> QED  BY <1>4, <1>5, <1>6 DEF Moves

\* Only a call about a session's route moves the load (registry.py:229-295).
LEMMA EveryStepIsALoadStep ==
  [Next]_vars =>
    \/ \E s \in Session, route \in Route : AcquireRoute(s, route) \/ ReacquireRoute(s, route)
    \/ \E s \in Session : ReleaseRoute(s)
    \/ Restart
    \/ UNCHANGED loadVars
<1> SUFFICES ASSUME [Next]_vars,
                    ~ \E s \in Session, route \in Route :
                        AcquireRoute(s, route) \/ ReacquireRoute(s, route),
                    ~ \E s \in Session : ReleaseRoute(s),
                    ~Restart
             PROVE  UNCHANGED loadVars
  OBVIOUS
<1>1. ASSUME NEW n \in Worker, Joins(n)
      PROVE  UNCHANGED loadVars
  BY <1>1 DEF Joins, Register, RegisterRefused
<1>2. ASSUME NEW n \in Orchestrator, RegisterOrchestrator(n) \/ OrchestratorExits(n)
      PROVE  UNCHANGED loadVars
  BY <1>2 DEF RegisterOrchestrator, OrchestratorExits
<1>3. ASSUME NEW n \in Node, NodeStep(n)
      PROVE  UNCHANGED loadVars
  BY <1>3 DEF NodeStep, Heartbeat, MarkReady, MarkSuspect, Drain, NodeLeaves, SkipCheck,
              RecordPass, RecordFail
<1>4. ASSUME NEW s \in Session, NEW n \in Orchestrator, AcquireEntry(s, n)
      PROVE  UNCHANGED loadVars
  BY <1>4 DEF AcquireEntry
<1>5. ASSUME NEW s \in Session, ReleaseEntry(s) \/ SessionLost(s)
      PROVE  UNCHANGED loadVars
  BY <1>5 DEF ReleaseEntry, SessionLost
<1>6. CASE AuditRound \/ Tick \/ Clock
  BY <1>6 DEF AuditRound, Tick, Clock
<1>7. CASE UNCHANGED vars
  BY <1>7 DEF vars, loadVars
<1> QED  BY <1>1, <1>2, <1>3, <1>4, <1>5, <1>6, <1>7 DEF Next, SessionStep

\* LoadAccounting holds of every mesh and any number of sessions
\* (registry.py:229-295).
THEOREM LoadCorrect == Spec => []LoadAccounting
<1>1. Init => LoadAccounting
  <2> SUFFICES ASSUME Init, NEW n \in Node PROVE load[n] = Cardinality(SessionsOn(n))
    BY DEF LoadAccounting
  <2>1. SessionsOn(n) = {}
    BY DEF Init, SessionsOn
  <2> QED  BY <2>1, FS_EmptySet DEF Init
<1>2. TypeOK /\ HoldersMatchRecords /\ RoutesAreDisjoint /\ LoadAccounting /\ [Next]_vars
        => LoadAccounting'
  <2> SUFFICES ASSUME TypeOK, HoldersMatchRecords, RoutesAreDisjoint, LoadAccounting,
                      [Next]_vars
               PROVE  LoadAccounting'
    OBVIOUS
  <2>0. pinned \in [Session -> Route \cup {None}] /\ load \in [Node -> Nat]
    BY DEF TypeOK
  <2>1. ASSUME NEW s \in Session, NEW route \in Route,
               AcquireRoute(s, route) \/ ReacquireRoute(s, route)
        PROVE  LoadAccounting'
    <3>1. pinned' = [pinned EXCEPT ![s] = route]
      BY <2>1 DEF AcquireRoute, ReacquireRoute
    <3>2. Moves(s, route)
      BY <2>1, AcquireMoves, ReacquireMoves
    <3> QED  BY <2>0, <3>1, <3>2, MovesKeepAccount
  <2>2. ASSUME NEW s \in Session, ReleaseRoute(s)
        PROVE  LoadAccounting'
    <3>1. pinned' = [pinned EXCEPT ![s] = None]
      BY <2>2 DEF ReleaseRoute
    <3>2. Moves(s, None)
      BY <2>2, ReleaseMoves
    <3> QED  BY <2>0, <3>1, <3>2, MovesKeepAccount
  <2>3. CASE Restart
    <3> SUFFICES ASSUME NEW n \in Node PROVE load'[n] = Cardinality(SessionsOn(n)')
      BY DEF LoadAccounting
    <3>1. SessionsOn(n)' = {}
      BY <2>3 DEF Restart, VolatileReset, SessionsOn
    <3>2. load'[n] = 0
      BY <2>3 DEF Restart, VolatileReset
    <3> QED  BY <3>1, <3>2, FS_EmptySet
  <2>4. CASE UNCHANGED loadVars
    BY <2>4 DEF loadVars, LoadAccounting, SessionsOn
  <2> QED  BY <2>1, <2>2, <2>3, <2>4, EveryStepIsALoadStep
<1> QED  BY <1>1, <1>2, TypeCorrect, HoldersCorrect, RoutesCorrect, PTL DEF Spec

-----------------------------------------------------------------------------
(***************************************************************************)
(* The entry balancer counts sessions the same way.                        *)
(***************************************************************************)
Entered(n) == {s \in Session : entryOf[s] = n}

LEMMA EnteredFinite ==
  \A n \in Node : IsFiniteSet(Entered(n)) /\ Cardinality(Entered(n)) \in Nat
<1> SUFFICES ASSUME NEW n \in Node
             PROVE  IsFiniteSet(Entered(n)) /\ Cardinality(Entered(n)) \in Nat
  OBVIOUS
<1>1. IsFiniteSet(Session) /\ Entered(n) \in SUBSET Session
  BY RegistryAssumption DEF RegistryAssumption, Entered
<1>2. IsFiniteSet(Entered(n))
  BY <1>1, FS_Subset
<1> QED  BY <1>2, FS_CardinalityType

\* Giving an entry slot back takes exactly the session's own count away
\* (registry.py:319-326).
LEMMA FreedCounts ==
  ASSUME TypeOK, EntryAccounting, NEW s \in Session, NEW n \in Node
  PROVE  /\ FreedEntry(s)[n] = Cardinality(Entered(n) \ {s})
         /\ IsFiniteSet(Entered(n) \ {s})
<1>1. IsFiniteSet(Entered(n)) /\ entryLoad[n] = Cardinality(Entered(n)) /\ entryLoad[n] \in Nat
  BY EnteredFinite DEF EntryAccounting, Entered
<1>2. IsFiniteSet(Entered(n) \ {s})
  BY <1>1, FS_RemoveElement
<1>3. CASE entryOf[s] = n
  <2>1. s \in Entered(n)
    BY <1>3 DEF Entered
  <2>2. Cardinality(Entered(n) \ {s}) = Cardinality(Entered(n)) - 1
    BY <1>1, <2>1, FS_RemoveElement
  <2>3. Cardinality(Entered(n) \ {s}) \in Nat
    BY <1>2, FS_CardinalityType
  <2>4. Minus(entryLoad[n], 1) = entryLoad[n] - 1
    BY <1>1, <2>2, <2>3 DEF Minus
  <2> QED  BY <1>1, <1>2, <1>3, <2>2, <2>4 DEF FreedEntry
<1>4. CASE entryOf[s] # n
  <2>1. Entered(n) \ {s} = Entered(n)
    BY <1>4 DEF Entered
  <2> QED  BY <1>1, <1>4, <2>1 DEF FreedEntry
<1> QED  BY <1>3, <1>4

\* Only a call about a session's entry moves the entry load
\* (registry.py:298-326).
LEMMA EveryStepIsAnEntryStep ==
  [Next]_vars =>
    \/ \E s \in Session, n \in Orchestrator : AcquireEntry(s, n)
    \/ \E s \in Session : ReleaseEntry(s)
    \/ Restart
    \/ UNCHANGED entryVars
<1> SUFFICES ASSUME [Next]_vars,
                    ~ \E s \in Session, n \in Orchestrator : AcquireEntry(s, n),
                    ~ \E s \in Session : ReleaseEntry(s),
                    ~Restart
             PROVE  UNCHANGED entryVars
  OBVIOUS
<1>1. ASSUME NEW n \in Worker, Joins(n)
      PROVE  UNCHANGED entryVars
  BY <1>1 DEF Joins, Register, RegisterRefused
<1>2. ASSUME NEW n \in Orchestrator, RegisterOrchestrator(n) \/ OrchestratorExits(n)
      PROVE  UNCHANGED entryVars
  BY <1>2 DEF RegisterOrchestrator, OrchestratorExits
<1>3. ASSUME NEW n \in Node, NodeStep(n)
      PROVE  UNCHANGED entryVars
  BY <1>3 DEF NodeStep, Heartbeat, MarkReady, MarkSuspect, Drain, NodeLeaves, SkipCheck,
              RecordPass, RecordFail
<1>4. ASSUME NEW s \in Session, NEW route \in Route,
             AcquireRoute(s, route) \/ ReacquireRoute(s, route)
      PROVE  UNCHANGED entryVars
  BY <1>4 DEF AcquireRoute, ReacquireRoute
<1>5. ASSUME NEW s \in Session, ReleaseRoute(s) \/ SessionLost(s)
      PROVE  UNCHANGED entryVars
  BY <1>5 DEF ReleaseRoute, SessionLost
<1>6. CASE AuditRound \/ Tick \/ Clock
  BY <1>6 DEF AuditRound, Tick, Clock
<1>7. CASE UNCHANGED vars
  BY <1>7 DEF vars, entryVars
<1> QED  BY <1>1, <1>2, <1>3, <1>4, <1>5, <1>6, <1>7 DEF Next, SessionStep

\* The entry load of an orchestrator is the number of sessions that entered
\* through it, for any number of orchestrators and sessions
\* (registry.py:298-326).
THEOREM EntryCorrect == Spec => []EntryAccounting
<1>1. Init => EntryAccounting
  <2> SUFFICES ASSUME Init, NEW n \in Node
               PROVE  entryLoad[n] = Cardinality({s \in Session : entryOf[s] = n})
    BY DEF EntryAccounting
  <2>1. {s \in Session : entryOf[s] = n} = {}
    BY TopologyAssumption DEF Init, TopologyAssumption
  <2> QED  BY <2>1, FS_EmptySet DEF Init
<1>2. TypeOK /\ EntryAccounting /\ [Next]_vars => EntryAccounting'
  <2> SUFFICES ASSUME TypeOK, EntryAccounting, [Next]_vars, NEW m \in Node
               PROVE  entryLoad'[m] = Cardinality(Entered(m)')
    BY DEF EntryAccounting, Entered
  <2>0. None \notin Node
    BY TopologyAssumption DEF TopologyAssumption
  <2>1. ASSUME NEW s \in Session, NEW n \in Orchestrator, AcquireEntry(s, n)
        PROVE  entryLoad'[m] = Cardinality(Entered(m)')
    <3>1. entryLoad' = [FreedEntry(s) EXCEPT ![n] = @ + 1] /\ entryOf' = [entryOf EXCEPT ![s] = n]
      BY <2>1 DEF AcquireEntry
    <3>2. entryOf \in [Session -> Node \cup {None}] /\ DOMAIN FreedEntry(s) = Node
      BY DEF TypeOK, FreedEntry
    <3>3. CASE m = n
      <4>1. Entered(m)' = (Entered(m) \ {s}) \cup {s}
        BY <3>1, <3>2, <3>3 DEF Entered
      <4>2. s \notin Entered(m) \ {s}
        OBVIOUS
      <4>3. Cardinality((Entered(m) \ {s}) \cup {s}) = Cardinality(Entered(m) \ {s}) + 1
        BY <4>2, FreedCounts, FS_AddElement
      <4> QED  BY <3>1, <3>2, <3>3, <4>1, <4>3, FreedCounts
    <3>4. CASE m # n
      <4>1. Entered(m)' = Entered(m) \ {s}
        BY <3>1, <3>2, <3>4 DEF Entered
      <4> QED  BY <3>1, <3>2, <3>4, <4>1, FreedCounts
    <3> QED  BY <3>3, <3>4
  <2>2. ASSUME NEW s \in Session, ReleaseEntry(s)
        PROVE  entryLoad'[m] = Cardinality(Entered(m)')
    <3>1. Entered(m)' = Entered(m) \ {s}
      BY <2>0, <2>2 DEF ReleaseEntry, TypeOK, Entered
    <3> QED  BY <2>2, <3>1, FreedCounts DEF ReleaseEntry
  <2>3. CASE Restart
    <3>1. Entered(m)' = {} /\ entryLoad'[m] = 0
      BY <2>0, <2>3 DEF Restart, VolatileReset, Entered
    <3> QED  BY <3>1, FS_EmptySet
  <2>4. CASE UNCHANGED entryVars
    BY <2>4 DEF entryVars, EntryAccounting, Entered
  <2> QED  BY <2>1, <2>2, <2>3, <2>4, EveryStepIsAnEntryStep
<1> QED  BY <1>1, <1>2, TypeCorrect, PTL DEF Spec

-----------------------------------------------------------------------------
(***************************************************************************)
(* Prefixes.  They are unique as long as the counter has not wrapped and   *)
(* every save reached the disk: then a restart hands out nothing twice.    *)
(***************************************************************************)
NoWrap == MaxOrchSeq <= IndexSpace /\ SaveOutcome = {TRUE}

\* Every prefix in use was handed out, and the counter on disk is current.
HandedOut ==
  /\ disk.orchSeq = orchSeq /\ orchSeq <= MaxOrchSeq
  /\ \A n \in Node : prefix[n] # None => prefix[n] \in 0 .. orchSeq - 1

\* What a step does to the prefixes: a registration takes the next one, a
\* process that ends drops its own, and nothing else moves counter or disk.
PrefixStep ==
  \/ \E n \in Node : /\ orchSeq < MaxOrchSeq /\ orchSeq' = orchSeq + 1
                     /\ prefix' = [prefix EXCEPT ![n] = IF @ = None THEN orchSeq % IndexSpace
                                                        ELSE @]
                     /\ disk'.orchSeq = orchSeq'
  \/ /\ orchSeq' = orchSeq /\ disk'.orchSeq = disk.orchSeq
     /\ \A n \in Node : prefix'[n] \in {prefix[n], None}

\* Only a registration hands out a prefix, and it saves the counter
\* (registry.py:84-92, 394-424).
LEMMA EveryStepIsAPrefixStep ==
  ASSUME TypeOK, NoWrap, HandedOut, [Next]_vars
  PROVE  PrefixStep
<1> USE DEF PrefixStep
<1>0. /\ prefix \in [Node -> Nat \cup {None}] /\ disk \in Saved
      /\ Worker \subseteq Node /\ Orchestrator \subseteq Node
  BY RegistryAssumption DEF TypeOK, RegistryAssumption
<1>1. Save => disk'.orchSeq = orchSeq'
  BY DEF Save, NoWrap
<1>2. ASSUME NEW n \in Worker, Joins(n)
      PROVE  PrefixStep
  <2>1. CASE \E cap \in Capacity, prefer \in Slot \cup {None} : Register(n, cap, prefer)
    BY <1>1, <2>1 DEF Register, outside, HandedOut
  <2>2. CASE \E cap \in Capacity, prefer \in Slot \cup {None} : RegisterRefused(n, cap, prefer)
    BY <2>2 DEF RegisterRefused, durable, outside
  <2> QED  BY <1>2, <2>1, <2>2 DEF Joins
<1>3. ASSUME NEW n \in Orchestrator, RegisterOrchestrator(n)
      PROVE  PrefixStep
  BY <1>0, <1>1, <1>3 DEF RegisterOrchestrator
<1>4. ASSUME NEW n \in Orchestrator, OrchestratorExits(n)
      PROVE  PrefixStep
  BY <1>0, <1>4 DEF OrchestratorExits, durable
<1>5. ASSUME NEW n \in Node, RecordFail(n)
      PROVE  PrefixStep
  BY <1>1, <1>5 DEF RecordFail, durable, HandedOut
<1>6. ASSUME NEW n \in Node, NodeLeaves(n)
      PROVE  PrefixStep
  BY <1>0, <1>6 DEF NodeLeaves, durable
<1>7. ASSUME NEW n \in Node,
             Heartbeat(n) \/ MarkReady(n) \/ MarkSuspect(n) \/ Drain(n) \/ SkipCheck(n) \/ RecordPass(n)
      PROVE  PrefixStep
  BY <1>7 DEF Heartbeat, MarkReady, MarkSuspect, Drain, SkipCheck, RecordPass, durable, outside
<1>8. ASSUME NEW s \in Session, SessionStep(s)
      PROVE  PrefixStep
  BY <1>8 DEF SessionStep, AcquireRoute, ReacquireRoute, AcquireEntry, ReleaseRoute,
              ReleaseEntry, SessionLost, durable, outside
<1>9. CASE AuditRound \/ Tick \/ Clock
  BY <1>9 DEF AuditRound, Tick, Clock, durable, outside
<1>10. CASE Restart
  BY <1>10 DEF Restart, VolatileReset, HandedOut
<1>11. CASE UNCHANGED vars
  BY <1>11 DEF vars
<1> QED
  BY <1>2, <1>3, <1>4, <1>5, <1>6, <1>7, <1>8, <1>9, <1>10, <1>11 DEF Next, NodeStep

\* Running orchestrators never share a session-id prefix, over any number of
\* restarts of the control plane, while the counter has not wrapped and no
\* save was lost (registry.py:73-75, 84-92).
THEOREM PrefixesCorrect ==
  ASSUME NoWrap PROVE Spec => []PrefixesAreUnique
<1>1. Init => HandedOut /\ PrefixesAreUnique
  BY RegistryAssumption DEF Init, HandedOut, PrefixesAreUnique, RegistryAssumption
<1>2. TypeOK /\ HandedOut /\ PrefixesAreUnique /\ [Next]_vars
        => HandedOut' /\ PrefixesAreUnique'
  <2> SUFFICES ASSUME TypeOK, HandedOut, PrefixesAreUnique, [Next]_vars
               PROVE  HandedOut' /\ PrefixesAreUnique'
    OBVIOUS
  <2>0. /\ prefix \in [Node -> Nat \cup {None}] /\ orchSeq \in Nat
        /\ MaxOrchSeq \in Nat /\ IndexSpace \in Nat \ {0} /\ MaxOrchSeq <= IndexSpace
    BY RegistryAssumption DEF TypeOK, RegistryAssumption, NoWrap
  <2>1. ASSUME NEW n \in Node, orchSeq < MaxOrchSeq, orchSeq' = orchSeq + 1,
               prefix' = [prefix EXCEPT ![n] = IF @ = None THEN orchSeq % IndexSpace ELSE @],
               disk'.orchSeq = orchSeq'
        PROVE  HandedOut' /\ PrefixesAreUnique'
    <3>1. orchSeq < IndexSpace
      BY <2>0, <2>1
    <3>2. orchSeq % IndexSpace = orchSeq
      BY <2>0, <3>1
    <3>3. \A m \in Node : prefix'[m] = prefix[m] \/ (m = n /\ prefix'[m] = orchSeq)
      BY <2>0, <2>1, <3>2
    <3>4. \A m \in Node : prefix[m] # None => prefix[m] \in 0 .. orchSeq - 1
      BY DEF HandedOut
    <3>5. HandedOut'
      BY <2>0, <2>1, <3>3, <3>4 DEF HandedOut
    <3>6. PrefixesAreUnique'
      BY <2>0, <2>1, <3>3, <3>4 DEF PrefixesAreUnique
    <3> QED  BY <3>5, <3>6
  <2>2. CASE /\ orchSeq' = orchSeq /\ disk'.orchSeq = disk.orchSeq
             /\ \A n \in Node : prefix'[n] \in {prefix[n], None}
    BY <2>2 DEF HandedOut, PrefixesAreUnique
  <2> QED  BY <2>1, <2>2, EveryStepIsAPrefixStep DEF PrefixStep
<1> QED  BY <1>1, <1>2, TypeCorrect, PTL DEF Spec

-----------------------------------------------------------------------------
(***************************************************************************)
(* A ban holds: registration refuses a banned node, the eviction that bans *)
(* leaves it DEAD, and no state but the ones a registration installs leads *)
(* back to READY.                                                          *)
(***************************************************************************)
Serving == {"joining", "ready", "suspect"}

\* A step gets nobody serving but a node that is not banned, and bans nobody
\* who serves (registry.py:80-81, 138-151).
LEMMA StepsKeepBannedOut ==
  ASSUME TypeOK, BannedNeverServes, [Next]_vars
  PROVE  BannedNeverServes'
<1> USE DEF BannedNeverServes, Serves
<1>0. /\ table \in [Node -> NodeRecord] /\ banned \subseteq Node
      /\ Worker \subseteq Node /\ Orchestrator \subseteq Node
  BY RegistryAssumption DEF TypeOK, RegistryAssumption
<1>1. ASSUME NEW n \in Worker, NEW cap, NEW prefer, Register(n, cap, prefer)
      PROVE  BannedNeverServes'
  <2>1. n \notin banned /\ banned' = banned
    BY <1>1 DEF Register
  <2>2. \A m \in Node : m # n => table'[m] = table[m]
    BY <1>0, <1>1 DEF Register, Admit
  <2> QED  BY <1>0, <2>1, <2>2
<1>2. ASSUME NEW n \in Worker, NEW cap, NEW prefer, RegisterRefused(n, cap, prefer)
      PROVE  BannedNeverServes'
  BY <1>2 DEF RegisterRefused, Refuse, durable
<1>3. ASSUME NEW n \in Orchestrator, RegisterOrchestrator(n)
      PROVE  BannedNeverServes'
  <2>1. n \notin banned /\ banned' = banned
    BY <1>3 DEF RegisterOrchestrator
  <2>2. \A m \in Node : m # n => table'[m] = table[m]
    BY <1>0, <1>3 DEF RegisterOrchestrator, AdmitOrchestrator
  <2> QED  BY <1>0, <2>1, <2>2
<1>4. ASSUME NEW n \in Node,
             Heartbeat(n) \/ MarkReady(n) \/ MarkSuspect(n) \/ Drain(n) \/ RecordPass(n)
      PROVE  BannedNeverServes'
  <2>1. banned' = banned
    BY <1>4 DEF Heartbeat, MarkReady, MarkSuspect, Drain, RecordPass, durable
  <2>2. \A m \in Node : table'[m].state \in Serving => table[m].state \in Serving
    <3>1. CASE Heartbeat(n)
      BY <1>0, <3>1 DEF Heartbeat, Beat, NodeRecord, Serving
    <3>2. CASE MarkReady(n)
      BY <1>0, <3>2 DEF MarkReady, SetReady, NodeRecord, Serving
    <3>3. CASE MarkSuspect(n)
      BY <1>0, <3>3 DEF MarkSuspect, SetSuspect, NodeRecord, Serving
    <3>4. CASE Drain(n)
      BY <1>0, <3>4 DEF Drain, SetDraining, NodeRecord, Serving
    <3>5. CASE RecordPass(n)
      BY <1>0, <3>5 DEF RecordPass, Pass, NodeRecord, Serving
    <3> QED  BY <1>4, <3>1, <3>2, <3>3, <3>4, <3>5
  <2> QED  BY <1>0, <2>1, <2>2 DEF Serving
<1>5. ASSUME NEW n \in Node, RecordFail(n)
      PROVE  BannedNeverServes'
  <2>1. \A m \in Node : m # n => table'[m] = table[m]
    BY <1>0, <1>5 DEF RecordFail, Fail
  <2>2. CASE Evicts(n)
    <3>1. table'[n].state = "dead"
      BY <1>0, <1>5, <2>2 DEF RecordFail, Fail, NodeRecord
    <3>2. banned' \subseteq banned \cup {n}
      BY <1>5, <2>2 DEF RecordFail
    <3> QED  BY <1>0, <2>1, <3>1, <3>2
  <2>3. CASE ~Evicts(n)
    <3>1. table'[n].state = table[n].state
      BY <1>0, <1>5, <2>3 DEF RecordFail, Fail, NodeRecord
    <3>2. banned' = banned
      BY <1>5, <2>3 DEF RecordFail, durable
    <3> QED  BY <1>0, <2>1, <3>1, <3>2
  <2> QED  BY <2>2, <2>3
<1>6. CASE Tick \/ Clock
  <2>1. banned' = banned
    BY <1>6 DEF Tick, Clock, durable
  <2>2. \A m \in Node : table'[m].state \in Serving => table[m].state \in Serving
    <3>1. CASE Tick
      BY <1>0, <3>1 DEF Tick, ReapAndPurge, Absent, NodeRecord, Serving
    <3>2. CASE Clock
      BY <1>0, <3>2 DEF Clock, Elapse, NodeRecord, Serving
    <3> QED  BY <1>6, <3>1, <3>2
  <2> QED  BY <1>0, <2>1, <2>2 DEF Serving
<1>7. CASE Restart
  <2>1. banned' \subseteq Node
    BY <1>7 DEF Restart, TypeOK, Saved
  <2> QED  BY <1>7, <2>1 DEF Restart, VolatileReset, Absent
<1>8. ASSUME UNCHANGED <<topologyVars, durable>>
      PROVE  BannedNeverServes'
  BY <1>8 DEF topologyVars, durable
<1>9. ASSUME NEW n \in Node, NodeLeaves(n) \/ SkipCheck(n) \/ OrchestratorExits(n)
      PROVE  BannedNeverServes'
  BY <1>8, <1>9 DEF NodeLeaves, SkipCheck, OrchestratorExits
<1>10. ASSUME NEW s \in Session, SessionStep(s)
       PROVE  BannedNeverServes'
  BY <1>8, <1>10 DEF SessionStep, AcquireRoute, ReacquireRoute, AcquireEntry, ReleaseRoute,
                     ReleaseEntry, SessionLost
<1>11. CASE AuditRound \/ UNCHANGED vars
  BY <1>11 DEF AuditRound, vars, topologyVars, durable
<1> QED
  BY <1>0, <1>1, <1>2, <1>3, <1>4, <1>5, <1>6, <1>7, <1>9, <1>10, <1>11
     DEF Next, NodeStep, Joins

\* BannedNeverServes holds of every mesh (registry.py:80-81, 144-151).
THEOREM BannedCorrect == Spec => []BannedNeverServes
<1>1. Init => BannedNeverServes
  BY DEF Init, BannedNeverServes, Serves
<1>2. TypeOK /\ BannedNeverServes /\ [Next]_vars => BannedNeverServes'
  BY StepsKeepBannedOut
<1> QED  BY <1>1, <1>2, TypeCorrect, PTL DEF Spec

\* What is on the disk is on the list, and stays on the disk: the list only
\* grows between restarts, and a restart reads it back.
SavedIsBanned == disk.banned \subseteq banned

LEMMA StepsKeepSaved ==
  ASSUME SavedIsBanned, [Next]_vars
  PROVE  SavedIsBanned' /\ disk.banned \subseteq disk'.banned
<1>1. CASE banned \subseteq banned' /\ Save
  <2>1. disk'.banned = banned' \/ disk' = disk
    BY <1>1 DEF Save
  <2> QED
    BY <1>1, <2>1 DEF SavedIsBanned
<1>2. CASE banned' = disk.banned /\ UNCHANGED disk
  BY <1>2 DEF SavedIsBanned
<1>3. CASE UNCHANGED <<banned, disk>>
  BY <1>3 DEF SavedIsBanned
<1> QED
  BY <1>1, <1>2, <1>3, EveryStepIsABanStep DEF BanStep

\* A saved ban is for good (registry.py:394-424).
THEOREM SavedBansCorrect == Spec => SavedBansHold
<1>1. Init => SavedIsBanned
  BY DEF Init, SavedIsBanned
<1>2. SavedIsBanned /\ [Next]_vars => SavedIsBanned'
  BY StepsKeepSaved
<1>3. Spec => []SavedIsBanned
  BY <1>1, <1>2, PTL DEF Spec
<1>4. ASSUME NEW n \in Node
      PROVE  Spec => [](n \in disk.banned => []~Serves(n))
  <2>1. SavedIsBanned /\ BannedNeverServes => (n \in disk.banned => ~Serves(n))
    BY DEF SavedIsBanned, BannedNeverServes
  <2>2. SavedIsBanned /\ [Next]_vars => (n \in disk.banned => (n \in disk.banned)')
    BY StepsKeepSaved
  <2> QED
    BY <1>3, <2>1, <2>2, BannedCorrect, PTL DEF Spec
<1> QED
  BY <1>4 DEF SavedBansHold

=============================================================================
