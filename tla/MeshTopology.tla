---------------------------- MODULE MeshTopology ----------------------------
(***************************************************************************)
(* The node table and the layer slots of the mesh: engine/topology.py.     *)
(*                                                                         *)
(* Every operation of class Topology that changes state is one action      *)
(* here.  The registry (module MeshRegistry) runs each of them inside its  *)
(* lock together with its own bookkeeping, so an action is one step.       *)
(*                                                                         *)
(* Abstractions.  Wall-clock time is the silence of a node: the ticks      *)
(* since its last accepted heartbeat or registration, saturating just      *)
(* above 2 * DeadAfter, the largest value the code compares it with.       *)
(* Routable holders are ordered trusted-first; the tie-break after that    *)
(* (freshest heartbeat or measured RTT) is left open.  A slot's holders    *)
(* are a set: the list order only feeds that tie-break.                    *)
(***************************************************************************)
EXTENDS Integers, FiniteSets

CONSTANTS
  Node,         \* node ids
  NumSlots,     \* number of pipeline stages behind the coordinator
  LayerCount,   \* LayerCount[k]: how many layers slot k holds
  Capacity,     \* the capacity_layers values a node may report
  DeadAfter,    \* ticks of silence after which reap() gives a node up
  PromoteAfter, \* passed challenges that promote a probation node
  StrikeMax,    \* strikes that evict
  None          \* "no node", "no slot", "no route"

Slot == 0 .. NumSlots - 1

ASSUME TopologyAssumption ==
  /\ NumSlots \in Nat \ {0}
  /\ LayerCount \in [Slot -> Nat \ {0}]
  /\ Capacity \subseteq Nat
  /\ DeadAfter \in Nat
  /\ PromoteAfter \in Nat \ {0}
  /\ StrikeMax \in Nat \ {0}
  /\ None \notin Node
  /\ None \notin Slot

VARIABLES
  table,    \* table[n]: the Node record of n; state "absent" is no record
  holders   \* holders[k]: the node ids assigned to slot k

topologyVars == <<table, holders>>

(***************************************************************************)
(* JOINING -> READY -> SUSPECT / DEAD / DRAINING (topology.py:29-35).      *)
(***************************************************************************)
State == {"absent", "joining", "ready", "suspect", "dead", "draining"}

Trust == {"probation", "trusted"}

\* A worker holds a slice; an orchestrator only drives sessions.
Role == {"worker", "orchestrator"}

SilenceCap == 2 * DeadAfter + 1

NodeRecord == [state   : State,
               trust   : Trust,
               checks  : Nat,
               strikes : Nat,
               slot    : Slot \cup {None},
               role    : Role,
               silence : 0 .. SilenceCap]

\* No record in the table.
Absent == [state |-> "absent", trust |-> "probation", checks |-> 0,
           strikes |-> 0, slot |-> None, role |-> "worker", silence |-> 0]

\* The record a registration installs: probation, nothing passed, no strike.
Joining(k, role) == [Absent EXCEPT !.state = "joining", !.slot = k,
                                   !.role = role]

Known(n) == table[n].state # "absent"

\* The holders route() and acquire_route() may use.
Routable(k) == {n \in holders[k] : table[n].state = "ready"}

Covered == \A k \in Slot : Routable(k) # {}

TrustRank(n) == IF table[n].trust = "trusted" THEN 0 ELSE 1

Fits(cap, k) == cap >= LayerCount[k]

\* _pick_slot: the least committed slot n can hold, lowest index first.  n's
\* own prior holding has already been dropped, so it is not counted.
PickSlot(n, cap) ==
  LET others(k) == Cardinality({m \in holders[k] \ {n} :
                                  table[m].state \notin {"absent", "dead"}})
  IN  {j \in Slot : /\ Fits(cap, j)
                    /\ \A k \in Slot : Fits(cap, k) =>
                         \/ others(j) < others(k)
                         \/ others(j) = others(k) /\ j <= k}

\* Where a registration lands: the range it asks for when that is a slot it
\* can hold, else the one _pick_slot gives; nowhere when none fits.
SlotFor(n, cap, prefer) ==
  IF prefer \in Slot /\ Fits(cap, prefer) THEN {prefer} ELSE PickSlot(n, cap)

\* Fault: a re-registering node keeps the holdings it had.
KeepsHolding(n) == holders

WithoutHolding(n) == [k \in Slot |-> holders[k] \ {n}]

-----------------------------------------------------------------------------
\* Fault: a re-registering node keeps the trust of its previous record.
AdmitKeepsTrust(n, cap, prefer, trusted) ==
  \E k \in SlotFor(n, cap, prefer) :
      /\ table' = [table EXCEPT ![n] =
                     [Joining(k, "worker") EXCEPT
                        !.trust = IF trusted THEN "trusted" ELSE table[n].trust]]
      /\ holders' = [WithoutHolding(n) EXCEPT ![k] = @ \cup {n}]

(***************************************************************************)
(* Topology.register.  trusted says whether the registry seeds n as        *)
(* trusted in the same locked step.                                        *)
(***************************************************************************)
Admit(n, cap, prefer, trusted) ==
  \E k \in SlotFor(n, cap, prefer) :
      /\ table' = [table EXCEPT ![n] =
                     IF trusted THEN [Joining(k, "worker") EXCEPT !.trust = "trusted"]
                     ELSE Joining(k, "worker")]
      /\ holders' = [WithoutHolding(n) EXCEPT ![k] = @ \cup {n}]

(***************************************************************************)
(* Topology.register when no slot fits: the ValueError leaves after the    *)
(* prior holding was dropped, so a re-registering node keeps its old       *)
(* record but holds nothing.                                               *)
(***************************************************************************)
Refuse(n, cap, prefer) ==
  /\ SlotFor(n, cap, prefer) = {}
  /\ holders' = WithoutHolding(n)
  /\ UNCHANGED table

\* Topology.register_orchestrator: a head-only node, no slot.
AdmitOrchestrator(n, trusted) ==
  /\ table' = [table EXCEPT ![n] =
                 IF trusted THEN [Joining(None, "orchestrator") EXCEPT !.trust = "trusted"]
                 ELSE Joining(None, "orchestrator")]
  /\ holders' = WithoutHolding(n)

\* Topology.heartbeat of a node it knows; it clears a suspicion.  For an
\* unknown or DEAD node the call changes nothing and answers False.
Beat(n) ==
  /\ table[n].state \in {"joining", "ready", "suspect", "draining"}
  /\ table' = [table EXCEPT
       ![n].silence = 0,
       ![n].state = IF @ = "suspect" THEN "ready" ELSE @]
  /\ UNCHANGED holders

\* Fault: /ready is believed whatever state the record is in.
ReadyFromAnyState(n) ==
  /\ Known(n)
  /\ table' = [table EXCEPT ![n].state = "ready"]
  /\ UNCHANGED holders

\* Topology.mark_ready: only a JOINING node becomes READY.
SetReady(n) ==
  /\ table[n].state = "joining"
  /\ table' = [table EXCEPT ![n].state = "ready"]
  /\ UNCHANGED holders

\* Topology.mark_suspect: only a READY node becomes SUSPECT.
SetSuspect(n) ==
  /\ table[n].state = "ready"
  /\ table' = [table EXCEPT ![n].state = "suspect"]
  /\ UNCHANGED holders

\* Topology.drain, from whatever state the record is in.
SetDraining(n) ==
  /\ Known(n)
  /\ table' = [table EXCEPT ![n].state = "draining"]
  /\ UNCHANGED holders

\* Fault: a node that never finished joining is not reaped.
ReapedIfServing(n) ==
  /\ table[n].state \in {"ready", "suspect"}
  /\ table[n].silence > DeadAfter

(***************************************************************************)
(* reap() then purge(), as Registry.tick runs them in one locked step: a   *)
(* node silent for more than DeadAfter is marked DEAD, a DEAD node silent  *)
(* for more than 2 * DeadAfter leaves the table and its slot.              *)
(***************************************************************************)
Reaped(n) ==
  /\ table[n].state \in {"joining", "ready", "suspect"}
  /\ table[n].silence > DeadAfter

Purged(n) ==
  /\ table[n].state = "dead" \/ Reaped(n)
  /\ table[n].silence > 2 * DeadAfter

ReapAndPurge ==
  /\ \E n \in Node : Reaped(n) \/ Purged(n)
  /\ table' = [n \in Node |->
                 IF Purged(n) THEN Absent
                 ELSE IF Reaped(n) THEN [table[n] EXCEPT !.state = "dead"]
                 ELSE table[n]]
  /\ holders' = [k \in Slot |->
                   holders[k] \ {n \in Node : Purged(n) /\ table[n].slot = k}]

\* A tick of the clock.  The reaper thread wakes more often than DeadAfter
\* ticks pass, so no routable node outlives the cap unreaped.
Elapse ==
  /\ \E n \in Node : Known(n) /\ table[n].silence < SilenceCap
  /\ \A n \in Node : Reaped(n) => table[n].silence < SilenceCap
  /\ table' = [n \in Node |->
       IF ~Known(n) \/ table[n].silence = SilenceCap THEN table[n]
       ELSE [table[n] EXCEPT !.silence = @ + 1]]
  /\ UNCHANGED holders

(***************************************************************************)
(* Topology.record_check: a pass forgives a strike and may promote, a      *)
(* fail adds one and may evict.                                            *)
(***************************************************************************)
Pass(n) ==
  LET r == table[n]
      strikes == IF r.strikes > 0 THEN r.strikes - 1 ELSE 0
      promoted == r.checks + 1 >= PromoteAfter /\ strikes = 0
  IN  /\ Known(n)
      /\ table' = [table EXCEPT
           ![n].checks = @ + 1,
           ![n].strikes = strikes,
           ![n].trust = IF promoted THEN "trusted" ELSE @]
      /\ UNCHANGED holders

Evicts(n) == table[n].strikes + 1 >= StrikeMax

Fail(n) ==
  /\ Known(n)
  /\ table' = [table EXCEPT
       ![n].strikes = @ + 1,
       ![n].trust = IF Evicts(n) THEN "probation" ELSE @,
       ![n].state = IF Evicts(n) THEN "dead" ELSE @]
  /\ UNCHANGED holders

TopologyInit ==
  /\ table = [n \in Node |-> Absent]
  /\ holders = [k \in Slot |-> {}]

=============================================================================
