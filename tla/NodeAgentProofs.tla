--------------------------- MODULE NodeAgentProofs ---------------------------
(***************************************************************************)
(* What holds of joining machines for any number of machines and control   *)
(* planes, every plan of the layers and every setting.                     *)
(***************************************************************************)
EXTENDS NodeAgent, LayerPlanProofs, TLAPS

-----------------------------------------------------------------------------
(***************************************************************************)
(* Types, without the arithmetic of layouts.                               *)
(***************************************************************************)
State == {"absent", "joining", "ready", "dead", "draining"}

Record == [state : State, slot : Slot \cup {None}]

TableTyped == table \in [Plane -> [Agent -> Record]]

PlanesTyped == up \in [Plane -> BOOLEAN] /\ seq \in [Plane -> Nat]

MachinesTyped == phase \in [Agent -> Phase] /\ next \in [Agent -> Plane]

SlotsTyped == slot \in [Node -> Slot \cup {None}]

SlicesTyped == slice \in [Node -> [Slot -> {"none", "good", "bad"}]]

PrefixTyped == prefix \in [Orch -> [plane : Plane \cup {None}, index : Nat]]

Typed ==
  /\ setting \in Setting
  /\ TableTyped /\ PlanesTyped /\ MachinesTyped
  /\ SlotsTyped /\ SlicesTyped /\ PrefixTyped

\* A worker's process that has been given its slot.
Placed == {"warm", "fetch", "verify", "slice", "load", "announce", "serve", "drain"}

\* A placed worker has a slot.
Assigned == \A n \in Node : phase[n] \in Placed => slot[n] \in Slot

LEMMA SettingFacts ==
  ASSUME setting \in Setting
  PROVE  /\ setting.urls \in Plane
         /\ setting.slices \in {"none", "good"}
BY AgentAssumption

LEMMA FirstPlane == 1 \in Plane /\ Active \in Plane
BY AgentAssumption DEF Active, Plane

LEMMA Frame ==
  ASSUME Next PROVE UNCHANGED <<setting, layout>> /\ Slot' = Slot /\ Record' = Record
<1>1. UNCHANGED <<setting, layout>>
  BY DEF Next, WorkerRuns, OrchRuns, restVars, Boot, Kill, PlaneCrashes, PlaneRestarts,
       Reap, Register, GivesUp, Warm, TakeCached, Download, Verify, SliceLocally, Load,
       Announce, BeatForgotten, Stop, Drain, RegisterOrch, BeatForgottenOrch
<1> QED
  BY <1>1 DEF Slot, Record

LEMMA Assignable ==
  ASSUME NEW p, NEW n, NEW k \in PickSlot(p, n) PROVE k \in Slot
BY DEF PickSlot

-----------------------------------------------------------------------------
(***************************************************************************)
(* The table: every step leaves it alone, empties a control plane's, or    *)
(* puts a record in its place.                                             *)
(***************************************************************************)
Put(p, a, r) == [table EXCEPT ![p][a] = r]

LEMMA PutTyped ==
  ASSUME TableTyped, NEW p \in Plane, NEW a \in Agent, NEW r \in Record
  PROVE  /\ Put(p, a, r) \in [Plane -> [Agent -> Record]]
         /\ \A q \in Plane, b \in Agent :
              Put(p, a, r)[q][b] = IF q = p /\ b = a THEN r ELSE table[q][b]
BY DEF TableTyped, Put

LEMMA RecordFacts ==
  ASSUME TableTyped, NEW p \in Plane, NEW a \in Agent
  PROVE  /\ table[p][a] \in Record
         /\ table[p][a].state \in State /\ table[p][a].slot \in Slot \cup {None}
<1>1. table[p][a] \in Record
  BY DEF TableTyped
<1> QED
  BY <1>1 DEF Record

LEMMA ListedTyped ==
  ASSUME NEW s \in State, NEW k \in Slot \cup {None}
  PROVE  /\ Listed(s, k) \in Record
         /\ Listed(s, k).state = s /\ Listed(s, k).slot = k
BY DEF Listed, Record

\* Only the state of a record changes.
LEMMA StateChange ==
  ASSUME TableTyped, NEW p \in Plane, NEW a \in Agent, NEW s \in State
  PROVE  [table EXCEPT ![p][a].state = s] = Put(p, a, Listed(s, table[p][a].slot))
<1>1. table[p][a] \in Record /\ table[p] \in [Agent -> Record]
  BY RecordFacts DEF TableTyped
<1>2. [table[p][a] EXCEPT !.state = s] = Listed(s, table[p][a].slot)
  BY <1>1 DEF Record, Listed
<1>3. [table EXCEPT ![p][a].state = s] = Put(p, a, [table[p][a] EXCEPT !.state = s])
  BY <1>1 DEF TableTyped, Put
<1> QED
  BY <1>2, <1>3

\* What a step may make of the table.
Mended(p, a, r) == table' = table \/ (up[p] /\ table' = Put(p, a, r))

\* A post is heard only by a control plane that is up.
LEMMA Heard ==
  ASSUME PlanesTyped, NEW p \in Plane, NEW heard \in Arrives(p)
  PROVE  heard => up[p]
BY DEF Arrives, PlanesTyped

LEMMA RelistPuts ==
  ASSUME PlanesTyped, NEW p \in Plane, NEW n, Relist(p, n)
  PROVE  /\ \E s \in {"ready", "joining"} : Mended(p, n, Listed(s, slot[n]))
         /\ up[p] /\ ~Faulty("lose") =>
              \E s \in {"ready", "joining"} : table' = Put(p, n, Listed(s, slot[n]))
BY DEF Relist, Mended, List, Put, Arrives, PlanesTyped

LEMMA ReadiedPuts ==
  ASSUME TableTyped, NEW p \in Plane, NEW a \in Agent, table' \in {table, Readied(p, a)}
  PROVE  \/ table' = table
         \/ /\ table[p][a].state = "joining"
            /\ table' = Put(p, a, Listed("ready", table[p][a].slot))
BY StateChange DEF Readied, State

LEMMA DrainedPuts ==
  ASSUME TableTyped, NEW p \in Plane, NEW a \in Agent, table' \in {table, Drained(p, a)}
  PROVE  table' = table \/ table' = Put(p, a, Listed("draining", table[p][a].slot))
BY StateChange DEF Drained, State

LEMMA ReapPuts ==
  ASSUME TableTyped, NEW p \in Plane, NEW a \in Agent, Reap(p, a)
  PROVE  \/ table' = Put(p, a, Listed("dead", table[p][a].slot))
         \/ table' = Put(p, a, Unknown)
BY StateChange DEF Reap, State, Put

LEMMA UnknownTyped == Unknown \in Record /\ Unknown.state = "absent" /\ Unknown.slot = None
BY DEF Unknown, Record, State

\* The steps that reach a table, and what they put there.
TableSteps ==
  \/ UNCHANGED table
  \/ \E p \in Plane : table' = [table EXCEPT ![p] = [a \in Agent |-> Unknown]]
  \/ \E p \in Plane, a \in Agent : up[p] /\
        \/ table' = Put(p, a, Unknown)
        \/ \E s \in {"dead", "draining"} : table' = Put(p, a, Listed(s, table[p][a].slot))
        \/ /\ table[p][a].state = "joining"
           /\ table' = Put(p, a, Listed("ready", table[p][a].slot))
  \/ \E n \in Node, k \in Slot : /\ up[Active]
                                 /\ table' = Put(Active, n, Listed("joining", k))
                                 /\ Register(n)
                                 /\ phase'[n] = "register" \/ slot'[n] = k
  \/ \E p \in Plane, n \in Node, s \in {"ready", "joining"} :
        /\ phase[n] \in Placed /\ UNCHANGED slot
        /\ up[p] /\ table' = Put(p, n, Listed(s, slot[n]))
  \/ \E p \in Plane, o \in Orch :
        up[p] /\ table' = Put(p, o, Listed("joining", None))

LEMMA TableCases ==
  ASSUME Typed, Next PROVE TableSteps
<1> USE DEF Typed
<1>1. ASSUME NEW a \in Agent, Boot(a) \/ Kill(a) \/ Load(a) PROVE UNCHANGED table
  BY <1>1 DEF Boot, Kill, Load
<1>2. ASSUME NEW p \in Plane, PlaneCrashes(p) \/ PlaneRestarts(p) PROVE TableSteps
  BY <1>2 DEF PlaneCrashes, PlaneRestarts, TableSteps
<1>3. ASSUME NEW p \in Plane, NEW a \in Agent, Reap(p, a) PROVE TableSteps
  <2>1. up[p]
    BY <1>3 DEF Reap
  <2> QED
    BY <1>3, <2>1, ReapPuts DEF TableSteps
<1>4. ASSUME NEW n \in Node, Register(n) PROVE TableSteps
  <2>1. PICK k \in PickSlot(Active, n) : /\ table' = List(Active, n, "joining", k)
                                         /\ \/ slot' = [slot EXCEPT ![n] = k]
                                            \/ UNCHANGED phase
    BY <1>4 DEF Register
  <2>2. k \in Slot /\ phase[n] = "register"
    BY <1>4, Assignable DEF Register
  <2>3. phase'[n] = "register" \/ slot'[n] = k
    BY <2>1, <2>2 DEF SlotsTyped
  <2> QED
    BY <1>4, <2>1, <2>2, <2>3 DEF Register, List, Put, TableSteps
<1>5. ASSUME NEW n \in Node, NEW p \in Plane, Relist(p, n), phase[n] \in Placed,
             UNCHANGED slot
      PROVE  TableSteps
  BY <1>5, RelistPuts DEF Mended, TableSteps
<1>6. ASSUME NEW n \in Node, Warm(n) PROVE TableSteps
  <2>1. next[n] \in Plane
    BY DEF MachinesTyped, Agent
  <2> QED
    BY <1>5, <1>6, <2>1 DEF Warm, Placed, workerVars
<1>7. ASSUME NEW n \in Node, NEW p \in Plane, BeatForgotten(n, p) PROVE TableSteps
  BY <1>5, <1>7 DEF BeatForgotten, Placed, workerVars
<1>8. ASSUME NEW n \in Node, GivesUp(n) \/ TakeCached(n) \/ Download(n) \/ Verify(n)
                             \/ SliceLocally(n) \/ Stop(n)
      PROVE  UNCHANGED table
  BY <1>8 DEF GivesUp, TakeCached, Download, Verify, SliceLocally, Stop
<1>9. ASSUME NEW a \in Agent, Announce(a) PROVE TableSteps
  <2>1. PICK heard \in Arrives(next[a]) :
          table' = IF heard THEN Readied(next[a], a) ELSE table
    BY <1>9 DEF Announce
  <2>2. next[a] \in Plane
    BY DEF MachinesTyped
  <2> QED
    BY <2>1, <2>2, Heard, ReadiedPuts DEF TableSteps
<1>10. ASSUME NEW n \in Node, Drain(n) PROVE TableSteps
  <2>1. PICK heard \in Arrives(next[n]) :
          table' = IF heard THEN Drained(next[n], n) ELSE table
    BY <1>10 DEF Drain
  <2>2. next[n] \in Plane /\ n \in Agent
    BY DEF MachinesTyped, Agent
  <2> QED
    BY <2>1, <2>2, Heard, DrainedPuts DEF TableSteps
<1>11. ASSUME NEW o \in Orch, RegisterOrch(o) PROVE TableSteps
  <2>1. PICK heard \in Arrives(next[o]) :
          table' = IF heard THEN List(next[o], o, "joining", None) ELSE table
    BY <1>11 DEF RegisterOrch
  <2>2. next[o] \in Plane
    BY DEF MachinesTyped, Agent
  <2> QED
    BY <2>1, <2>2, Heard DEF TableSteps, List, Put
<1>12. ASSUME NEW o \in Orch, BeatForgottenOrch(o) PROVE UNCHANGED table
  BY <1>12 DEF BeatForgottenOrch
<1> QED
  BY <1>1, <1>2, <1>3, <1>4, <1>6, <1>7, <1>8, <1>9, <1>10, <1>11, <1>12
  DEF Next, WorkerRuns, OrchRuns, Agent, TableSteps

LEMMA TableStep ==
  ASSUME Typed, Assigned, Next PROVE TableTyped'
<1>1. \A p \in Plane, a \in Agent, r \in Record :
         table' = Put(p, a, r) => table' \in [Plane -> [Agent -> Record]]
  BY PutTyped DEF Typed
<1>2. \A p \in Plane, a \in Agent, s \in State, k \in Slot \cup {None} :
         table' = Put(p, a, Listed(s, k)) => table' \in [Plane -> [Agent -> Record]]
  BY <1>1, ListedTyped
<1>3. \A p \in Plane, a \in Agent : table[p][a].slot \in Slot \cup {None}
  BY RecordFacts DEF Typed
<1>4. \A n \in Node : n \in Agent /\ (phase[n] \in Placed => slot[n] \in Slot)
  BY DEF Agent, Assigned
<1>5. ASSUME NEW p \in Plane, table' = [table EXCEPT ![p] = [a \in Agent |-> Unknown]]
      PROVE  table' \in [Plane -> [Agent -> Record]]
  BY <1>5, UnknownTyped DEF Typed, TableTyped
<1>6. {"dead", "draining", "ready", "joining"} \subseteq State /\ Orch \subseteq Agent
  BY DEF State, Agent
<1>7. table' \in [Plane -> [Agent -> Record]]
  <2>1. TableSteps
    BY TableCases
  <2>2. CASE UNCHANGED table
    BY <2>2 DEF Typed, TableTyped
  <2>3. ASSUME NEW p \in Plane, NEW a \in Agent,
        \/ table' = Put(p, a, Unknown)
        \/ \E s \in {"dead", "draining", "ready"} :
              table' = Put(p, a, Listed(s, table[p][a].slot))
        PROVE  table' \in [Plane -> [Agent -> Record]]
    BY <2>3, <1>1, <1>2, <1>3, <1>6, UnknownTyped
  <2>4. ASSUME NEW n \in Node, NEW p \in Plane, NEW k \in Slot,
               NEW s \in {"ready", "joining"}, table' = Put(p, n, Listed(s, k))
        PROVE  table' \in [Plane -> [Agent -> Record]]
    BY <2>4, <1>2, <1>4, <1>6
  <2>5. ASSUME NEW o \in Orch, NEW p \in Plane, table' = Put(p, o, Listed("joining", None))
        PROVE  table' \in [Plane -> [Agent -> Record]]
    BY <2>5, <1>2, <1>6
  <2> QED
    BY <2>1, <2>2, <2>3, <2>4, <2>5, <1>4, <1>5, FirstPlane DEF TableSteps
<1> QED
  BY <1>7, Frame DEF TableTyped

-----------------------------------------------------------------------------
(***************************************************************************)
(* The machines: what is a worker's own is changed by its own steps only.  *)
(***************************************************************************)
LEMMA RoundTyped ==
  ASSUME MachinesTyped, setting \in Setting, NEW a \in Agent, NEW then \in Phase,
         Round(a, then)
  PROVE  MachinesTyped'
<1>1. setting.urls \in Plane
  BY SettingFacts
<1>2. 1 \in Plane /\ (next[a] < setting.urls => next[a] + 1 \in Plane)
  BY <1>1, AgentAssumption DEF MachinesTyped, Plane
<1> QED
  BY <1>2 DEF Round, MachinesTyped

LEMMA MachinesStep ==
  ASSUME Typed, Next PROVE MachinesTyped'
<1> USE DEF Typed
<1>1. ASSUME NEW a \in Agent, Boot(a) \/ Kill(a) \/ Load(a) PROVE MachinesTyped'
  BY <1>1, FirstPlane DEF Boot, Kill, Load, Goes, MachinesTyped, Phase
<1>2. ASSUME NEW p \in Plane, PlaneCrashes(p) \/ PlaneRestarts(p) PROVE MachinesTyped'
  BY <1>2 DEF PlaneCrashes, PlaneRestarts, MachinesTyped
<1>3. ASSUME NEW p \in Plane, NEW a \in Agent, Reap(p, a) PROVE MachinesTyped'
  BY <1>3 DEF Reap, MachinesTyped
<1>4. ASSUME NEW n \in Node, Register(n) PROVE MachinesTyped'
  <2>1. setting.urls \in Plane /\ (setting.urls > 1 => 2 \in Plane)
    BY SettingFacts, AgentAssumption DEF Plane
  <2> QED
    BY <1>4, <2>1, FirstPlane DEF Register, Goes, MachinesTyped, Phase, Agent
<1>5. ASSUME NEW n \in Node, Warm(n) \/ Drain(n) PROVE MachinesTyped'
  BY <1>5, RoundTyped DEF Warm, Drain, Phase, Agent
<1>6. ASSUME NEW n \in Node, NEW p \in Plane, BeatForgotten(n, p) PROVE MachinesTyped'
  BY <1>6 DEF BeatForgotten, MachinesTyped
<1>7. ASSUME NEW n \in Node, GivesUp(n) \/ TakeCached(n) \/ Download(n) \/ Verify(n)
                             \/ SliceLocally(n) \/ Stop(n)
      PROVE  MachinesTyped'
  BY <1>7, FirstPlane DEF GivesUp, TakeCached, Download, Verify, SliceLocally, Stop, Goes,
     MachinesTyped, Phase, Agent
<1>8. ASSUME NEW a \in Agent, Announce(a) PROVE MachinesTyped'
  BY <1>8, RoundTyped DEF Announce, Phase
<1>9. ASSUME NEW o \in Orch, RegisterOrch(o) PROVE MachinesTyped'
  <2>1. PICK then \in {"announce", "off", "load"} : Round(o, then)
    BY <1>9 DEF RegisterOrch
  <2> QED
    BY <2>1, RoundTyped DEF Phase, Agent
<1>10. ASSUME NEW o \in Orch, BeatForgottenOrch(o) PROVE MachinesTyped'
  BY <1>10 DEF BeatForgottenOrch, Goes, MachinesTyped, Phase, Agent
<1> QED
  BY <1>1, <1>2, <1>3, <1>4, <1>5, <1>6, <1>7, <1>8, <1>9, <1>10
  DEF Next, WorkerRuns, OrchRuns, Agent

LEMMA SlotsStep ==
  ASSUME Typed, Next PROVE SlotsTyped'
<1> USE Frame DEF Typed, SlotsTyped
<1>1. ASSUME NEW a \in Agent, Boot(a) PROVE SlotsTyped'
  BY <1>1 DEF Boot
<1>2. ASSUME NEW n \in Node, Register(n) PROVE SlotsTyped'
  BY <1>2, Assignable DEF Register
<1>3. (\A a \in Agent : ~Boot(a)) /\ (\A n \in Node : ~Register(n)) => UNCHANGED slot
  BY DEF Next, WorkerRuns, OrchRuns, workerVars, Kill, PlaneCrashes,
     PlaneRestarts, Reap, GivesUp, Warm, TakeCached, Download, Verify, SliceLocally, Load,
     Announce, BeatForgotten, Stop, Drain, RegisterOrch, BeatForgottenOrch
<1> QED
  BY <1>1, <1>2, <1>3

\* Only fetching writes to a worker's disk.
LEMMA SliceSteps ==
  ASSUME Next
  PROVE  \/ UNCHANGED slice
         \/ \E n \in Node : /\ phase[n] \in {"fetch", "slice"}
                            /\ \E s \in {"good", "bad"} :
                                  slice' = [slice EXCEPT ![n][slot[n]] = s]
<1>1. ASSUME NEW n \in Node, Download(n) \/ SliceLocally(n)
      PROVE  \/ UNCHANGED slice
             \/ /\ phase[n] \in {"fetch", "slice"}
                /\ \E s \in {"good", "bad"} : slice' = [slice EXCEPT ![n][slot[n]] = s]
  BY <1>1 DEF Download, SliceLocally
<1>2. (\A n \in Node : ~Download(n) /\ ~SliceLocally(n)) => UNCHANGED slice
  BY DEF Next, WorkerRuns, OrchRuns, workerVars, Boot, Kill, PlaneCrashes,
     PlaneRestarts, Reap, Register, GivesUp, Warm, TakeCached, Verify, Load,
     Announce, BeatForgotten, Stop, Drain, RegisterOrch, BeatForgottenOrch
<1> QED
  BY <1>1, <1>2

LEMMA SlicesStep ==
  ASSUME Typed, Assigned, Next PROVE SlicesTyped'
<1>1. CASE UNCHANGED slice
  BY <1>1, Frame DEF Typed, SlicesTyped
<1>2. ASSUME NEW n \in Node, phase[n] \in {"fetch", "slice"},
             NEW s \in {"good", "bad"}, slice' = [slice EXCEPT ![n][slot[n]] = s]
      PROVE  SlicesTyped'
  <2>1. slot[n] \in Slot
    BY <1>2 DEF Assigned, Placed
  <2>2. slice \in [Node -> [Slot -> {"none", "good", "bad"}]]
    BY DEF Typed, SlicesTyped
  <2>3. slice' \in [Node -> [Slot -> {"none", "good", "bad"}]]
    BY <1>2, <2>1, <2>2
  <2> QED
    BY <2>3, Frame DEF SlicesTyped
<1> QED
  BY <1>1, <1>2, SliceSteps

LEMMA PlanesStep ==
  ASSUME Typed, Next PROVE PlanesTyped'
<1> USE DEF Typed, PlanesTyped
<1>1. ASSUME NEW p \in Plane, PlaneCrashes(p) \/ PlaneRestarts(p) PROVE PlanesTyped'
  BY <1>1 DEF PlaneCrashes, PlaneRestarts
<1>2. ASSUME NEW o \in Orch, RegisterOrch(o) PROVE PlanesTyped'
  <2>1. next[o] \in Plane
    BY DEF MachinesTyped, Agent
  <2>2. UNCHANGED seq \/ seq' = [seq EXCEPT ![next[o]] = @ + 1]
    BY <1>2 DEF RegisterOrch
  <2> QED
    BY <1>2, <2>1, <2>2 DEF RegisterOrch, restVars
<1>3. (\A p \in Plane : ~PlaneCrashes(p) /\ ~PlaneRestarts(p))
      /\ (\A o \in Orch : ~RegisterOrch(o)) => UNCHANGED <<up, seq>>
  BY DEF Next, WorkerRuns, OrchRuns, restVars, Boot, Kill,
     Reap, Register, GivesUp, Warm, TakeCached, Download, Verify, SliceLocally, Load,
     Announce, BeatForgotten, Stop, Drain, BeatForgottenOrch
<1> QED
  BY <1>1, <1>2, <1>3

\* Registering, an orchestrator may take the next number of a control plane.
LEMMA PrefixSteps ==
  ASSUME Typed, Next
  PROVE  \/ UNCHANGED prefix /\ \A p \in Plane : seq'[p] >= seq[p]
         \/ \E o \in Orch : /\ prefix' = [q \in Orch |-> IF q = o THEN NoPrefix ELSE prefix[q]]
                            /\ UNCHANGED seq
         \/ \E o \in Orch, p \in Plane :
               /\ prefix' = [prefix EXCEPT ![o] = [plane |-> p, index |-> seq[p]]]
               /\ seq' = [seq EXCEPT ![p] = @ + 1]
<1> USE DEF Typed
<1>0. \A p \in Plane : seq[p] \in Nat
  BY DEF PlanesTyped
<1>1. ASSUME NEW a \in Agent, Boot(a)
      PROVE  UNCHANGED seq /\ (\/ UNCHANGED prefix
                               \/ /\ a \in Orch
                                  /\ prefix' = [q \in Orch |-> IF q = a THEN NoPrefix
                                                               ELSE prefix[q]])
  BY <1>1 DEF Boot, PrefixTyped
<1>2. ASSUME NEW o \in Orch, RegisterOrch(o)
      PROVE  \/ UNCHANGED prefix /\ \A p \in Plane : seq'[p] >= seq[p]
             \/ \E p \in Plane :
                  /\ prefix' = [prefix EXCEPT ![o] = [plane |-> p, index |-> seq[p]]]
                  /\ seq' = [seq EXCEPT ![p] = @ + 1]
  <2>1. next[o] \in Plane
    BY DEF MachinesTyped, Agent
  <2>2. \/ UNCHANGED <<seq, prefix>>
        \/ /\ seq' = [seq EXCEPT ![next[o]] = @ + 1]
           /\ \/ UNCHANGED prefix
              \/ prefix' = [prefix EXCEPT ![o] = [plane |-> next[o], index |-> seq[next[o]]]]
    BY <1>2 DEF RegisterOrch
  <2>3. seq' = [seq EXCEPT ![next[o]] = @ + 1] => \A p \in Plane : seq'[p] >= seq[p]
    BY <1>0, <2>1 DEF PlanesTyped
  <2> QED
    BY <1>0, <2>1, <2>2, <2>3
<1>3. (\A a \in Agent : ~Boot(a)) /\ (\A o \in Orch : ~RegisterOrch(o))
      => UNCHANGED <<seq, prefix>>
  BY DEF Next, WorkerRuns, OrchRuns, Kill, PlaneCrashes,
     PlaneRestarts, Reap, Register, GivesUp, Warm, TakeCached, Download, Verify,
     SliceLocally, Load, Announce, BeatForgotten, Stop, Drain, BeatForgottenOrch
<1> QED
  BY <1>0, <1>1, <1>2, <1>3

LEMMA PrefixStep ==
  ASSUME Typed, Next PROVE PrefixTyped'
<1>1. \A p \in Plane : seq[p] \in Nat
  BY DEF Typed, PlanesTyped
<1>2. NoPrefix \in [plane : Plane \cup {None}, index : Nat]
  BY DEF NoPrefix
<1> QED
  BY <1>1, <1>2, PrefixSteps DEF Typed, PrefixTyped

-----------------------------------------------------------------------------
(***************************************************************************)
(* A worker.                                                               *)
(***************************************************************************)
Own(n) == <<phase[n], next[n], slot[n], slice[n]>>

LEMMA WorkerSteps ==
  ASSUME Typed, Next, NEW n \in Node
  PROVE  \/ Boot(n) \/ Kill(n) \/ WorkerRuns(n) \/ Stop(n)
         \/ UNCHANGED Own(n)
<1> USE AgentAssumption DEF Typed, MachinesTyped, SlotsTyped, SlicesTyped, Own, Agent
<1>1. ASSUME NEW a \in Agent, a # n, Boot(a) \/ Kill(a) \/ Load(a)
      PROVE  UNCHANGED Own(n)
  BY <1>1 DEF Boot, Kill, Load, Goes, workerVars
<1>2. ASSUME NEW a \in Agent, a # n, Announce(a) PROVE UNCHANGED Own(n)
  BY <1>2 DEF Announce, Round, workerVars
<1>3. ASSUME NEW p \in Plane, NEW a \in Agent,
             PlaneCrashes(p) \/ PlaneRestarts(p) \/ Reap(p, a)
      PROVE  UNCHANGED Own(n)
  BY <1>3 DEF PlaneCrashes, PlaneRestarts, Reap
<1>4. ASSUME NEW m \in Node, m # n, Register(m) PROVE UNCHANGED Own(n)
  BY <1>4 DEF Register, Goes
<1>5. ASSUME NEW m \in Node, m # n, Warm(m) \/ Drain(m) PROVE UNCHANGED Own(n)
  BY <1>5 DEF Warm, Drain, Round, workerVars
<1>6. ASSUME NEW m \in Node, NEW p \in Plane, BeatForgotten(m, p)
      PROVE  UNCHANGED Own(n)
  BY <1>6 DEF BeatForgotten, workerVars
<1>7. ASSUME NEW m \in Node, m # n,
             \/ GivesUp(m) \/ TakeCached(m) \/ Download(m) \/ Verify(m)
             \/ SliceLocally(m) \/ Stop(m)
      PROVE  UNCHANGED Own(n)
  BY <1>7 DEF GivesUp, TakeCached, Download, Verify, SliceLocally, Stop, Goes, workerVars
<1>8. ASSUME NEW o \in Orch, RegisterOrch(o) PROVE UNCHANGED Own(n)
  <2>1. o # n
    OBVIOUS
  <2>2. PICK then : Round(o, then)
    BY <1>8 DEF RegisterOrch
  <2> QED
    BY <1>8, <2>1, <2>2 DEF RegisterOrch, Round, workerVars
<1>9. ASSUME NEW o \in Orch, BeatForgottenOrch(o) PROVE UNCHANGED Own(n)
  BY <1>9 DEF BeatForgottenOrch, Goes, workerVars
<1>10. \A o \in Orch : o # n /\ o \in Agent
  OBVIOUS
<1> QED
  BY <1>1, <1>2, <1>3, <1>4, <1>5, <1>6, <1>7, <1>8, <1>9, <1>10
  DEF Next, WorkerRuns, OrchRuns

LEMMA AssignedStep ==
  ASSUME Typed, Assigned, Next PROVE Assigned'
<1> SUFFICES ASSUME NEW n \in Node, phase'[n] \in Placed PROVE slot'[n] \in Slot
  BY Frame DEF Assigned
<1> USE DEF Typed, MachinesTyped, SlotsTyped, Agent, Placed, Goes
<1>1. CASE UNCHANGED Own(n)
  BY <1>1 DEF Own, Assigned
<1>2. CASE Boot(n) \/ Kill(n) \/ GivesUp(n)
  BY <1>2 DEF Boot, Kill, GivesUp
<1>3. CASE Register(n)
  BY <1>3, Assignable DEF Register
<1>4. CASE Warm(n) \/ Announce(n) \/ Drain(n)
  BY <1>4 DEF Warm, Announce, Drain, workerVars, Assigned
<1>5. CASE TakeCached(n) \/ Download(n) \/ Verify(n) \/ SliceLocally(n) \/ Load(n) \/ Stop(n)
  BY <1>5 DEF TakeCached, Download, Verify, SliceLocally, Load, Stop, workerVars, Assigned
<1> QED
  BY <1>1, <1>2, <1>3, <1>4, <1>5, WorkerSteps DEF WorkerRuns

-----------------------------------------------------------------------------
(***************************************************************************)
(* The inductive invariant.                                                *)
(***************************************************************************)
\* A control plane that is down, or that no machine knows, lists nobody.
DownIsEmpty ==
  /\ \A p \in Plane : p > setting.urls => ~up[p]
  /\ \A p \in Plane : ~up[p] => \A a \in Agent : table[p][a] = Unknown

\* Who lists a placed worker lists its slot; standbys that are still to be
\* told, and all of them when posts get lost, may have an old record.
Told(n, p) == p = Active \/ (~Faulty("lose") /\ (phase[n] = "warm" => p < next[n]))

ListedRight ==
  \A n \in Node, p \in Plane :
     (/\ phase[n] \in Placed /\ Told(n, p)
      /\ table[p][n].state \in {"joining", "ready"})
     => table[p][n].slot = slot[n]

\* A slice that is not the published one is on the disk only while its
\* worker is about to replace it.
RejectedAreReplaced ==
  setting.faults \cap {"kill", "slicefail", "unchecked"} = {} =>
    \A n \in Node :
      /\ \A k \in Slot : slice[n][k] = "bad" => phase[n] \in {"verify", "slice"} /\ k = slot[n]
      /\ phase[n] \in {"load", "announce", "serve", "drain"} => slice[n][slot[n]] = "good"

\* Every prefix is a number its control plane has handed out, and has been
\* handed out once.
PrefixesHandedOut ==
  /\ \A o \in Orch : prefix[o] # NoPrefix =>
       prefix[o].plane \in Plane /\ prefix[o].index < seq[prefix[o].plane]
  /\ \A o, q \in Orch : o # q /\ prefix[o] # NoPrefix => prefix[o] # prefix[q]

IInv ==
  /\ Typed /\ Assigned
  /\ DownIsEmpty /\ ListedRight
  /\ RejectedAreReplaced /\ PrefixesHandedOut

LEMMA InitIInv == Init => IInv
<1> SUFFICES ASSUME Init PROVE IInv
  OBVIOUS
<1>1. setting.slices \in {"none", "good"} /\ setting.urls \in Plane
  BY SettingFacts DEF Init
<1>2. TableTyped /\ \A p \in Plane, a \in Agent : table[p][a] = Unknown
  BY UnknownTyped DEF Init, TableTyped
<1>3. SlotsTyped /\ SlicesTyped /\ PrefixTyped
  BY <1>1 DEF Init, SlotsTyped, SlicesTyped, PrefixTyped, NoPrefix
<1>4. PlanesTyped /\ MachinesTyped
  BY FirstPlane DEF Init, PlanesTyped, MachinesTyped, Phase
<1>5. Assigned /\ ListedRight
  BY DEF Init, Assigned, ListedRight, Placed, Agent
<1>6. DownIsEmpty
  <2>1. \A p \in Plane : up[p] = (layout # None /\ p <= setting.urls)
    BY DEF Init
  <2>2. \A p \in Plane : p > setting.urls => ~(p <= setting.urls)
    BY <1>1, AgentAssumption DEF Plane
  <2> QED
    BY <1>2, <2>1, <2>2 DEF DownIsEmpty
<1>7. RejectedAreReplaced
  BY <1>1 DEF Init, RejectedAreReplaced, Agent
<1>8. PrefixesHandedOut
  BY DEF Init, PrefixesHandedOut
<1> QED
  BY <1>2, <1>3, <1>4, <1>5, <1>6, <1>7, <1>8 DEF IInv, Typed, Init

LEMMA UpSteps ==
  ASSUME Typed, Next, NEW p \in Plane
  PROVE  /\ up'[p] => up[p] \/ p <= setting.urls
         /\ ~up'[p] => ~up[p] \/ \A a \in Agent : table'[p][a] = Unknown
<1> USE DEF Typed, PlanesTyped
<1>1. ASSUME NEW q \in Plane, PlaneCrashes(q)
      PROVE  /\ up'[p] => up[p]
             /\ ~up'[p] => ~up[p] \/ \A a \in Agent : table'[p][a] = Unknown
  BY <1>1 DEF PlaneCrashes, TableTyped
<1>2. ASSUME NEW q \in Plane, PlaneRestarts(q)
      PROVE  (up'[p] => up[p] \/ p <= setting.urls) /\ (~up'[p] => ~up[p])
  BY <1>2 DEF PlaneRestarts
<1>3. (\A q \in Plane : ~PlaneCrashes(q) /\ ~PlaneRestarts(q)) => UNCHANGED up
  BY DEF Next, WorkerRuns, OrchRuns, restVars, Boot, Kill,
     Reap, Register, GivesUp, Warm, TakeCached, Download, Verify, SliceLocally, Load,
     Announce, BeatForgotten, Stop, Drain, RegisterOrch, BeatForgottenOrch
<1> QED
  BY <1>1, <1>2, <1>3

LEMMA DownStep ==
  ASSUME Typed, DownIsEmpty, Next PROVE DownIsEmpty'
<1>1. ASSUME NEW p \in Plane, NEW a \in Agent, ~up[p] PROVE table'[p][a] = Unknown
  <2>1. table[p][a] = Unknown
    BY <1>1 DEF DownIsEmpty
  <2>2. ASSUME NEW q \in Plane, NEW b \in Agent, NEW r, up[q], table' = Put(q, b, r)
        PROVE  table'[p][a] = table[p][a]
    BY <1>1, <2>2 DEF Put, Typed, TableTyped
  <2>3. ASSUME NEW q \in Plane, table' = [table EXCEPT ![q] = [b \in Agent |-> Unknown]]
        PROVE  table'[p][a] = Unknown
    BY <2>3, <1>1 DEF Typed, TableTyped, DownIsEmpty
  <2>4. Node \subseteq Agent /\ Orch \subseteq Agent
    BY DEF Agent
  <2> QED
    BY <1>1, <2>2, <2>3, <2>4, TableCases, FirstPlane DEF TableSteps, DownIsEmpty
<1>2. \A p \in Plane : p > setting.urls => ~(p <= setting.urls)
  BY SettingFacts, AgentAssumption DEF Plane, Typed
<1>3. \A p \in Plane : p > setting.urls => ~up'[p]
  BY <1>2, UpSteps DEF DownIsEmpty
<1>4. \A p \in Plane : ~up'[p] => \A a \in Agent : table'[p][a] = Unknown
  BY <1>1, UpSteps
<1> QED
  BY <1>3, <1>4, Frame DEF DownIsEmpty

\* What a control plane that lists a worker after a step had on it before.
LEMMA RecordSteps ==
  ASSUME Typed, Next, NEW p \in Plane, NEW n \in Node,
         table'[p][n].state \in {"joining", "ready"}
  PROVE  \/ table'[p][n].slot = slot'[n]
         \/ phase'[n] = "register"
         \/ /\ table'[p][n].slot = table[p][n].slot
            /\ table[p][n].state \in {"joining", "ready"}
<1> DEFINE Kept == /\ table'[p][n].slot = table[p][n].slot
                   /\ table[p][n].state \in {"joining", "ready"}
           Goal == table'[p][n].slot = slot'[n] \/ phase'[n] = "register" \/ Kept
<1>0. n \in Agent /\ n \notin Orch /\ Orch \subseteq Agent /\ Node \subseteq Agent
  BY AgentAssumption DEF Agent
<1>1. CASE UNCHANGED table
  BY <1>1
<1>2. ASSUME NEW q \in Plane, table' = [table EXCEPT ![q] = [a \in Agent |-> Unknown]]
      PROVE  Kept
  BY <1>0, <1>2, UnknownTyped DEF Typed, TableTyped
<1>3. ASSUME NEW q \in Plane, NEW a \in Agent, NEW r, table' = Put(q, a, r)
      PROVE  table'[p][n] = IF q = p /\ a = n THEN r ELSE table[p][n]
  BY <1>0, <1>3 DEF Put, Typed, TableTyped
<1>4. ASSUME NEW q \in Plane, NEW a \in Agent,
             \/ table' = Put(q, a, Unknown)
             \/ \E s \in {"dead", "draining"} : table' = Put(q, a, Listed(s, table[q][a].slot))
             \/ /\ table[q][a].state = "joining"
                /\ table' = Put(q, a, Listed("ready", table[q][a].slot))
      PROVE  Kept
  BY <1>3, <1>4, UnknownTyped DEF Listed
<1>5. ASSUME NEW m \in Node, NEW k \in Slot, table' = Put(Active, m, Listed("joining", k)),
             phase'[m] = "register" \/ slot'[m] = k
      PROVE  Goal
  BY <1>0, <1>3, <1>5, FirstPlane DEF Listed
<1>6. ASSUME NEW q \in Plane, NEW m \in Node, NEW s \in {"ready", "joining"},
             UNCHANGED slot, table' = Put(q, m, Listed(s, slot[m]))
      PROVE  Goal
  BY <1>0, <1>3, <1>6 DEF Listed
<1>7. ASSUME NEW q \in Plane, NEW o \in Orch, table' = Put(q, o, Listed("joining", None))
      PROVE  Kept
  BY <1>0, <1>3, <1>7
<1> QED
  BY <1>1, <1>2, <1>4, <1>5, <1>6, <1>7, TableCases DEF TableSteps

LEMMA ListedStep ==
  ASSUME IInv, Next PROVE ListedRight'
<1> SUFFICES ASSUME NEW n \in Node, NEW p \in Plane,
                    phase'[n] \in Placed, Told(n, p)',
                    table'[p][n].state \in {"joining", "ready"}
             PROVE  table'[p][n].slot = slot'[n]
  BY DEF ListedRight
<1> DEFINE Before == phase[n] \in Placed /\ Told(n, p) /\ slot'[n] = slot[n]
<1>0. /\ Typed /\ UNCHANGED setting
      /\ n \in Agent /\ p \in Nat /\ next[n] \in Nat /\ setting.urls \in Plane
      /\ setting.urls \in Nat
  BY Frame, SettingFacts, AgentAssumption DEF IInv, Typed, MachinesTyped, Agent, Plane
<1>1. Before => table'[p][n].slot = slot'[n]
  BY <1>0, RecordSteps DEF IInv, ListedRight, Placed
<1>2. ASSUME p > setting.urls PROVE FALSE
  <2>1. ~up'[p] /\ table'[p][n] = Unknown
    BY <1>0, <1>2, DownStep DEF IInv, DownIsEmpty
  <2> QED
    BY <2>1, UnknownTyped
<1>3. CASE UNCHANGED Own(n)
  BY <1>0, <1>1, <1>3 DEF Own, Told, Faulty
<1>4. CASE Boot(n) \/ Kill(n) \/ GivesUp(n)
  BY <1>0, <1>4 DEF Boot, Kill, GivesUp, Goes, Typed, MachinesTyped, Placed
<1>5. CASE Register(n)
  <2>1. PICK k \in PickSlot(Active, n) : table' = List(Active, n, "joining", k) /\
          \/ /\ slot' = [slot EXCEPT ![n] = k]
             /\ Goes(n, IF setting.urls > 1 THEN "warm" ELSE "fetch")
             /\ next' = [next EXCEPT ![n] = IF setting.urls > 1 THEN 2 ELSE 1]
          \/ UNCHANGED <<slot, phase, next>>
    BY <1>5 DEF Register
  <2>2. ~UNCHANGED <<slot, phase, next>>
    BY <1>5 DEF Register, Placed
  <2>3. slot'[n] = k
    BY <2>1, <2>2 DEF IInv, Typed, SlotsTyped
  <2>4. p = Active
    <3>1. phase'[n] = (IF setting.urls > 1 THEN "warm" ELSE "fetch")
          /\ next'[n] = (IF setting.urls > 1 THEN 2 ELSE 1)
      BY <1>0, <2>1, <2>2 DEF Goes, Typed, MachinesTyped
    <3>2. CASE setting.urls > 1
      BY <1>0, <3>1, <3>2 DEF Told, Active, Plane
    <3>3. CASE ~(setting.urls > 1)
      BY <1>0, <1>2, <3>3 DEF Active, Plane
    <3> QED
      BY <3>2, <3>3
  <2>5. table'[p][n].slot = k
    BY <1>0, <2>1, <2>4 DEF List, Listed, Typed, TableTyped
  <2> QED
    BY <2>3, <2>5
<1>6. CASE Warm(n)
  <2>1. phase[n] = "warm" /\ Relist(next[n], n) /\ Round(n, "fetch") /\ UNCHANGED slot
    BY <1>6 DEF Warm, workerVars
  <2>2. CASE p = Active \/ (p < next[n] /\ ~Faulty("lose"))
    BY <1>1, <2>1, <2>2 DEF Told, Placed
  <2>3. CASE p # Active /\ p >= next[n]
    <3>1. ~Faulty("lose") /\ (phase'[n] = "warm" => p < next'[n])
      BY <1>0, <2>3 DEF Told, Faulty
    <3>2. p = next[n]
      <4>1. CASE next[n] < setting.urls
        BY <1>0, <2>1, <2>3, <3>1, <4>1 DEF Round, Typed, MachinesTyped
      <4>2. CASE ~(next[n] < setting.urls)
        BY <1>0, <1>2, <2>3, <4>2
      <4> QED
        BY <4>1, <4>2
    <3>3. CASE up[p]
      <4>1. PICK s \in {"ready", "joining"} : table' = Put(p, n, Listed(s, slot[n]))
        BY <1>0, <2>1, <3>1, <3>2, <3>3, RelistPuts DEF Typed
      <4> QED
        BY <1>0, <2>1, <4>1 DEF Put, Listed, Typed, TableTyped
    <3>4. CASE ~up[p]
      <4>1. table'[p][n] = table[p][n] /\ table[p][n] = Unknown
        BY <1>0, <2>1, <3>2, <3>4, RelistPuts DEF Mended, Typed, PlanesTyped, IInv, DownIsEmpty
      <4> QED
        BY <4>1, UnknownTyped
    <3> QED
      BY <3>3, <3>4
  <2> QED
    BY <1>0, <2>2, <2>3 DEF Told, Faulty
<1>7. CASE \/ TakeCached(n) \/ Download(n) \/ Verify(n) \/ SliceLocally(n) \/ Load(n)
           \/ Stop(n)
  <2>1. phase[n] \in Placed /\ phase[n] # "warm" /\ phase'[n] # "warm" /\ UNCHANGED slot
    BY <1>0, <1>7 DEF TakeCached, Download, Verify, SliceLocally, Load, Stop, Goes,
       workerVars, Typed, MachinesTyped, Placed
  <2> QED
    BY <1>0, <1>1, <2>1 DEF Told, Faulty
<1>8. CASE Announce(n) \/ Drain(n)
  <2>1. phase[n] \in Placed /\ phase[n] # "warm" /\ phase'[n] # "warm" /\ UNCHANGED slot
    BY <1>0, <1>8 DEF Announce, Drain, Round, workerVars, Typed, MachinesTyped, Placed
  <2> QED
    BY <1>0, <1>1, <2>1 DEF Told, Faulty
<1> QED
  BY <1>0, <1>3, <1>4, <1>5, <1>6, <1>7, <1>8, WorkerSteps DEF WorkerRuns

LEMMA RejectedStep ==
  ASSUME IInv, Next PROVE RejectedAreReplaced'
<1> SUFFICES ASSUME setting.faults \cap {"kill", "slicefail", "unchecked"} = {}, NEW n \in Node
             PROVE  /\ \A k \in Slot : slice'[n][k] = "bad" =>
                         phase'[n] \in {"verify", "slice"} /\ k = slot'[n]
                    /\ phase'[n] \in {"load", "announce", "serve", "drain"} =>
                         slice'[n][slot'[n]] = "good"
  BY Frame DEF RejectedAreReplaced
<1> DEFINE Clean == \A k \in Slot : slice'[n][k] # "bad"
<1>0. /\ Typed /\ n \in Agent
      /\ ~Faulty("kill") /\ ~Faulty("slicefail") /\ ~Faulty("unchecked")
      /\ phase[n] \in Placed => slot[n] \in Slot
  BY DEF IInv, Assigned, Agent, Faulty
<1>1. /\ \A k \in Slot : slice[n][k] = "bad" => phase[n] \in {"verify", "slice"} /\ k = slot[n]
      /\ phase[n] \in {"load", "announce", "serve", "drain"} => slice[n][slot[n]] = "good"
      /\ slice[n] \in [Slot -> {"none", "good", "bad"}]
  BY DEF IInv, RejectedAreReplaced, Typed, SlicesTyped
<1> USE DEF Typed, MachinesTyped, SlotsTyped, SlicesTyped, Goes
<1>2. CASE UNCHANGED Own(n)
  BY <1>1, <1>2 DEF Own
<1>3. CASE Boot(n) \/ GivesUp(n) \/ Kill(n)
  BY <1>0, <1>1, <1>3 DEF Boot, GivesUp, Kill, workerVars
<1>4. CASE Register(n)
  <2>1. phase'[n] \in {"register", "warm", "fetch"} /\ phase[n] = "register" /\ UNCHANGED slice
    BY <1>0, <1>4 DEF Register
  <2> QED
    BY <1>1, <2>1
<1>5. CASE Warm(n) \/ Announce(n) \/ Drain(n)
  <2>1. /\ UNCHANGED <<slot, slice>>
        /\ phase[n] \in {"warm", "announce", "drain"}
        /\ phase'[n] \in {phase[n], "fetch", "serve", "off"}
        /\ phase'[n] \in {"announce", "serve", "drain"} => phase[n] # "warm"
    BY <1>0, <1>5 DEF Warm, Announce, Drain, Round, workerVars
  <2> QED
    BY <1>1, <2>1
<1>6. CASE TakeCached(n) \/ Load(n) \/ Stop(n) \/ Verify(n)
  <2>1. UNCHANGED <<slot, slice>>
    BY <1>6 DEF TakeCached, Load, Stop, Verify, workerVars
  <2>2. phase[n] \in Placed /\ slot[n] \in Slot
    BY <1>0, <1>6 DEF TakeCached, Load, Stop, Verify, Placed
  <2> QED
    BY <1>0, <1>1, <1>6, <2>1, <2>2 DEF TakeCached, Load, Stop, Verify
<1>7. CASE Download(n) \/ SliceLocally(n)
  <2>1. slot[n] \in Slot /\ UNCHANGED slot
    BY <1>0, <1>7 DEF Download, SliceLocally, Placed
  <2>2. CASE Download(n)
    BY <1>0, <1>1, <2>1, <2>2 DEF Download
  <2>3. CASE SliceLocally(n)
    BY <1>0, <1>1, <2>1, <2>3 DEF SliceLocally
  <2> QED
    BY <1>7, <2>2, <2>3
<1> QED
  BY <1>0, <1>2, <1>3, <1>4, <1>5, <1>6, <1>7, WorkerSteps DEF WorkerRuns

LEMMA PrefixesStep ==
  ASSUME IInv, Next PROVE PrefixesHandedOut'
<1> USE DEF IInv, Typed, PlanesTyped, PrefixTyped
<1>1. \A p \in Plane : seq[p] \in Nat
  OBVIOUS
<1>2. /\ \A o \in Orch : prefix[o] # NoPrefix =>
           prefix[o].plane \in Plane /\ prefix[o].index < seq[prefix[o].plane]
      /\ \A o \in Orch : prefix[o].index \in Nat
      /\ \A o, q \in Orch : o # q /\ prefix[o] # NoPrefix => prefix[o] # prefix[q]
  BY DEF PrefixesHandedOut
<1>3. CASE UNCHANGED prefix /\ \A p \in Plane : seq'[p] >= seq[p]
  <2>1. \A p \in Plane : seq'[p] \in Nat
    BY PlanesStep
  <2> QED
    BY <1>1, <1>2, <1>3, <2>1 DEF PrefixesHandedOut
<1>4. ASSUME NEW o \in Orch, UNCHANGED seq,
             prefix' = [q \in Orch |-> IF q = o THEN NoPrefix ELSE prefix[q]]
      PROVE  PrefixesHandedOut'
  BY <1>2, <1>4 DEF PrefixesHandedOut
<1>5. ASSUME NEW o \in Orch, NEW p \in Plane,
             prefix' = [prefix EXCEPT ![o] = [plane |-> p, index |-> seq[p]]],
             seq' = [seq EXCEPT ![p] = @ + 1]
      PROVE  PrefixesHandedOut'
  <2>1. \A q \in Orch : prefix'[q] = IF q = o THEN [plane |-> p, index |-> seq[p]] ELSE prefix[q]
    BY <1>5
  <2>2. \A q \in Plane : seq'[q] = IF q = p THEN seq[p] + 1 ELSE seq[q]
    BY <1>5
  <2>3. \A q \in Orch : prefix'[q] # NoPrefix =>
           prefix'[q].plane \in Plane /\ prefix'[q].index < seq'[prefix'[q].plane]
    BY <1>1, <1>2, <2>1, <2>2
  <2>4. \A q \in Orch : prefix[q] # NoPrefix => prefix[q] # [plane |-> p, index |-> seq[p]]
    BY <1>1, <1>2
  <2>5. ASSUME NEW q \in Orch, NEW r \in Orch, q # r, prefix'[q] # NoPrefix
        PROVE  prefix'[q] # prefix'[r]
    <3>1. CASE q # o /\ r # o
      BY <1>2, <2>1, <2>5, <3>1
    <3>2. CASE q = o
      BY <1>2, <2>1, <2>4, <2>5, <3>2
    <3>3. CASE r = o
      BY <1>2, <2>1, <2>4, <2>5, <3>3
    <3> QED
      BY <3>1, <3>2, <3>3
  <2> QED
    BY <2>3, <2>5 DEF PrefixesHandedOut
<1> QED
  BY <1>3, <1>4, <1>5, PrefixSteps

LEMMA NextIInv == IInv /\ [Next]_vars => IInv'
<1>1. ASSUME IInv, Next PROVE IInv'
  <2>1. Typed'
    BY <1>1, Frame, TableStep, PlanesStep, MachinesStep, SlotsStep, SlicesStep, PrefixStep
    DEF IInv, Typed
  <2> QED
    BY <1>1, <2>1, AssignedStep, DownStep, ListedStep, RejectedStep, PrefixesStep DEF IInv
<1>2. ASSUME IInv, UNCHANGED vars PROVE IInv'
  BY <1>2 DEF vars, IInv, Typed, TableTyped, PlanesTyped, MachinesTyped, SlotsTyped,
     SlicesTyped, PrefixTyped, Record, Slot, Assigned, DownIsEmpty, ListedRight, Told,
     Faulty, RejectedAreReplaced, PrefixesHandedOut
<1> QED
  BY <1>1, <1>2

\* Types, what is known of a placed worker, and the four parts above hold in
\* every reachable state, whatever crashes, is lost or comes back.
THEOREM Inductive == Spec => []IInv
BY InitIInv, NextIInv, PTL DEF Spec

-----------------------------------------------------------------------------
(***************************************************************************)
(* What the runs check of it.                                              *)
(***************************************************************************)
\* Across registrations, lost answers, warm standbys, crashed control planes
\* and re-registrations, the active control plane lists a running worker for
\* the slot its process serves, and the standbys do where no post gets lost.
THEOREM ListedCorrect == Spec => []ListedForWhatItServes
<1>1. IInv => ListedForWhatItServes
  BY DEF IInv, ListedRight, ListedForWhatItServes, Placed, Told
<1> QED
  BY <1>1, Inductive, PTL

\* A worker serves no tampered slice where there is a hash to check, and
\* neither a death nor a failed local slice leaves a rejected one in place.
THEOREM SlicesCorrect == Spec => []SlicesAreVerified
<1>1. IInv => SlicesAreVerified
  BY DEF IInv, RejectedAreReplaced, SlicesAreVerified
<1> QED
  BY <1>1, Inductive, PTL

\* Orchestrators that took their session-id prefixes from the same control
\* plane do not share one, though they crash, register again and outlive
\* control planes that forget them.
THEOREM PrefixesCorrect == Spec => []OrchestratorsAreApart
<1>1. IInv => OrchestratorsAreApart
  BY DEF IInv, PrefixesHandedOut, OrchestratorsAreApart
<1> QED
  BY <1>1, Inductive, PTL

-----------------------------------------------------------------------------
(***************************************************************************)
(* The plan and its layout, which stay as they were at the start.          *)
(***************************************************************************)
Fixed ==
  /\ setting \in Setting
  /\ layout \in IF Layouts(setting.plan) = {} THEN {None} ELSE Layouts(setting.plan)

Counted == crashes \in 0 .. setting.crashes /\ boots \in 0 .. setting.boots

LEMMA FixedCounted == Spec => [](Fixed /\ Counted)
<1>1. Init => Fixed /\ Counted
  <2> SUFFICES ASSUME Init PROVE Fixed /\ Counted
    OBVIOUS
  <2>1. setting.crashes \in Nat /\ setting.boots \in Nat
    BY AgentAssumption DEF Init
  <2>2. crashes = 0 /\ boots = 0 /\ Fixed
    BY DEF Init, Fixed
  <2> QED
    BY <2>1, <2>2 DEF Counted
<1>2. ASSUME Fixed /\ Counted, [Next]_vars PROVE (Fixed /\ Counted)'
  <2>1. UNCHANGED <<setting, layout>>
    BY <1>2, Frame DEF vars
  <2>2. Fixed'
    BY <1>2, <2>1 DEF Fixed
  <2>3. setting.crashes \in Nat /\ setting.boots \in Nat
    BY <1>2, AgentAssumption DEF Fixed
  <2>4. \/ UNCHANGED <<crashes, boots>>
        \/ \E a \in Agent : Boot(a)
        \/ \E p \in Plane : PlaneCrashes(p)
    BY <1>2 DEF Next, WorkerRuns, OrchRuns, restVars, vars, Kill, PlaneRestarts,
       Reap, Register, GivesUp, Warm, TakeCached, Download, Verify, SliceLocally, Load,
       Announce, BeatForgotten, Stop, Drain, RegisterOrch, BeatForgottenOrch
  <2>5. /\ crashes \in 0 .. setting.crashes /\ boots \in 0 .. setting.boots
        /\ setting' = setting
    BY <1>2, <2>1 DEF Counted
  <2>6. CASE UNCHANGED <<crashes, boots>>
    BY <2>2, <2>5, <2>6 DEF Counted
  <2>7. CASE \E a \in Agent : Boot(a)
    <3>1. boots < setting.boots /\ boots' = boots + 1 /\ UNCHANGED crashes
      BY <2>7 DEF Boot
    <3>2. boots + 1 \in 0 .. setting.boots
      BY <2>3, <2>5, <3>1
    <3> QED
      BY <2>2, <2>5, <3>1, <3>2 DEF Counted
  <2>8. CASE \E p \in Plane : PlaneCrashes(p)
    <3>1. crashes < setting.crashes /\ crashes' = crashes + 1 /\ UNCHANGED boots
      BY <2>8 DEF PlaneCrashes
    <3>2. crashes + 1 \in 0 .. setting.crashes
      BY <2>3, <2>5, <3>1
    <3> QED
      BY <2>2, <2>5, <3>1, <3>2 DEF Counted
  <2> QED
    BY <2>4, <2>6, <2>7, <2>8
<1> QED
  BY <1>1, <1>2, PTL DEF Spec

LEMMA LayoutTiles ==
  ASSUME Fixed, layout # None
  PROVE  \E k \in Nat : /\ Tiles(setting.plan, layout, k)
                        /\ k > 0 /\ Slot = 0 .. k - 1 /\ Cardinality(Slot) = k
                        /\ layout \in [Slot -> [first : Nat, last : Nat]]
<1>1. PlanTyped(setting.plan) /\ layout \in Layouts(setting.plan)
  BY AgentAssumption DEF Fixed
<1>2. PICK k \in Nat : Tiles(setting.plan, layout, k)
  BY <1>1, LayoutsTile
<1>3. k > 0 /\ layout \in [0 .. k - 1 -> [first : Nat, last : Nat]]
  BY <1>2 DEF Tiles, InRow
<1>4. Slot = 0 .. k - 1
  BY <1>3 DEF Slot
<1>5. Cardinality(0 .. k - 1) = k
  BY FS_Interval
<1> QED
  BY <1>2, <1>3, <1>4, <1>5

\* Every variable keeps to its type: slots lie at layers that exist, records
\* and processes name slots of the layout, and no bound is passed.
THEOREM TypesCorrect == Spec => []TypeOK
<1>1. IInv /\ Fixed /\ Counted => TypeOK
  <2> SUFFICES ASSUME IInv, Fixed, Counted PROVE TypeOK
    OBVIOUS
  <2>1. layout # None => layout \in [Slot -> [first : Nat, last : Nat]]
    BY LayoutTiles
  <2>2. table \in [Plane -> [Agent ->
          [state : {"absent", "joining", "ready", "dead", "draining"},
           slot  : Slot \cup {None}]]]
    BY DEF IInv, Typed, TableTyped, Record, State
  <2> QED
    BY <2>1, <2>2 DEF TypeOK, Counted, IInv, Typed, PlanesTyped, MachinesTyped,
       SlotsTyped, SlicesTyped, PrefixTyped
<1> QED
  BY <1>1, Inductive, FixedCounted, PTL

\* However the layers are cut - by a layout string, a manifest, a node
\* capacity, a fleet, weights or a fixed number of stages within that of the
\* layers - the slots tile them.  Those of a layout string are the published
\* ones; a weighted slice exceeds its share by less than a layer.
THEOREM SplitsCorrect == Spec => []SplitsTile
<1>1. Fixed => SplitsTile
  <2> SUFFICES ASSUME Fixed, layout # None,
                      setting.plan.by = "static" =>
                        setting.plan.stages <= setting.plan.layers - setting.plan.end
               PROVE  SplitsTile
    BY DEF SplitsTile
  <2>1. PICK k \in Nat : /\ Tiles(setting.plan, layout, k)
                         /\ k > 0 /\ Slot = 0 .. k - 1 /\ Cardinality(Slot) = k
    BY LayoutTiles
  <2>2. \A i \in Slot : /\ layout[i].first < layout[i].last
                        /\ i > 0 => layout[i].first = layout[i - 1].last
    BY <2>1 DEF Tiles, InRow
  <2>3. layout[0].first = CoordinatorEnd(setting.plan) /\ layout[k - 1].last = setting.plan.layers
    BY <2>1 DEF Tiles, InRow
  <2>4. setting.plan.by = "catalog" =>
          \A i \in Slot : \E j \in 2 .. Len(setting.plan.catalog) :
             layout[i] = setting.plan.catalog[j]
    BY <2>1 DEF Tiles
  <2>5. setting.plan.by = "weights" =>
          \A i \in Slot : (SliceSize(i) - 1) * SumOf(setting.plan.weights)
            < (setting.plan.layers - setting.plan.end) * setting.plan.weights[i]
    BY <2>1 DEF Tiles, SliceSize
  <2> QED
    BY <2>1, <2>2, <2>3, <2>4, <2>5 DEF SplitsTile
<1> QED
  BY <1>1, FixedCounted, PTL

\* for_fleet takes the fewest stages that the fleet can staff, and raises only
\* when it can staff none: comparing sorted sizes with sorted capacities place
\* by place misses no staffing.
THEOREM FewestCorrect == Spec => []PlanIsFewest
<1>1. Fixed => PlanIsFewest
  <2> DEFINE plan == setting.plan
             b == plan.layers - plan.end
             staffed(k) == Staffable(Balanced(b, k), plan.rep, plan.caps)
             covered(k) == Covers(plan.caps, Demand(Balanced(b, k), plan.rep))
             fewest == PlanStages(b, plan.caps, plan.rep)
  <2> SUFFICES ASSUME Fixed, plan.by = "fleet", plan.rep >= 1,
                      plan.end \in 0 .. plan.layers - 1
               PROVE  IF layout = None THEN \A k \in 1 .. b : ~staffed(k)
                      ELSE /\ staffed(Cardinality(Slot))
                           /\ \A k \in 1 .. Cardinality(Slot) - 1 : ~staffed(k)
    BY DEF PlanIsFewest
  <2>1. PlanTyped(plan) /\ None \notin Layouts(plan)
    BY AgentAssumption DEF Fixed
  <2>2. /\ b \in Nat /\ plan.rep \in Nat /\ Numbered(plan.caps)
        /\ CoordinatorEnd(plan) \in 0 .. plan.layers - 1
    BY <2>1 DEF PlanTyped, Numbered, CoordinatorEnd
  <2>3. ASSUME NEW k \in 1 .. b PROVE covered(k) <=> staffed(k)
    <3>1. k \in Nat \ {0}
      OBVIOUS
    <3>2. PICK t \in Nat, r \in Nat : t = b /\ r = plan.rep
      BY <2>2
    <3>3. Split(Balanced(t, k), k)
      BY <3>1, BalancedAddsUp
    <3>4. Covers(plan.caps, Demand(Balanced(t, k), r)) <=> Staffable(Balanced(t, k), r, plan.caps)
      BY <2>2, <3>3, CoversIsStaffable
    <3> QED
      BY <3>2, <3>4
  <2>4. \/ fewest = None /\ \A k \in 1 .. b : ~ covered(k)
        \/ /\ fewest # None /\ fewest \in Nat /\ fewest \in 1 .. b /\ covered(fewest)
           /\ \A k \in 1 .. fewest - 1 : ~ covered(k)
    <3>1. PICK t \in Int : t = b
      BY <2>2
    <3>2. ~ (plan.rep < 1)
      BY <2>2
    <3> HIDE DEF b
    <3> QED
      BY <3>1, <3>2, FewestOrNone
  <2>5. CASE layout = None
    <3>1. Layouts(plan) = {}
      BY <2>1, <2>5 DEF Fixed
    <3>2. Splits(plan) = {}
      BY <2>2, <3>1 DEF Layouts, Admits
    <3>3. fewest = None
      BY <3>2 DEF Splits
    <3> HIDE DEF covered, staffed, fewest, b
    <3> QED
      BY <2>3, <2>4, <2>5, <3>3
  <2>6. CASE layout # None
    <3>1. PICK k \in Nat : Tiles(plan, layout, k) /\ Cardinality(Slot) = k /\ k > 0
      BY <2>6, LayoutTiles
    <3>2. k = fewest
      BY <3>1 DEF Tiles
    <3>3. k # None
      BY <3>1, NoneAssumption
    <3> HIDE DEF covered, staffed, fewest, b
    <3>4. k \in 1 .. b /\ covered(k) /\ \A j \in 1 .. k - 1 : ~ covered(j)
      BY <2>4, <3>2, <3>3
    <3>5. \A j \in 1 .. k - 1 : j \in 1 .. b
      BY <2>2, <3>4
    <3> QED
      BY <2>3, <2>6, <3>1, <3>4, <3>5
  <2> QED
    BY <2>5, <2>6
<1> QED
  BY <1>1, FixedCounted, PTL

-----------------------------------------------------------------------------
(***************************************************************************)
(* A fleet that suffices stays one that suffices: in a row of records, the *)
(* places still wanted never outnumber the machines that hold none.        *)
(***************************************************************************)
Taken(r) == r.state \notin {"absent", "dead"}

Held(M, row, k) == {n \in M : row[n].slot = k /\ Taken(row[n])}

Vacant(M, row) == {n \in M : ~Taken(row[n])}

Wanted(M, S, rep, row) ==
  {w \in S \X (1 .. rep) : w[2] > Cardinality(Held(M, row, w[1]))}

Suffices(M, S, rep, row) ==
  Cardinality(Wanted(M, S, rep, row)) <= Cardinality(Vacant(M, row))

LEMMA RowFacts ==
  ASSUME NEW M, IsFiniteSet(M), NEW S, IsFiniteSet(S), NEW rep \in Nat, NEW row
  PROVE  /\ \A k : /\ Held(M, row, k) \in SUBSET M /\ IsFiniteSet(Held(M, row, k))
                   /\ Cardinality(Held(M, row, k)) \in Nat
         /\ IsFiniteSet(Vacant(M, row)) /\ Cardinality(Vacant(M, row)) \in Nat
         /\ IsFiniteSet(Wanted(M, S, rep, row)) /\ Cardinality(Wanted(M, S, rep, row)) \in Nat
<1>1. \A k : Held(M, row, k) \in SUBSET M
  BY DEF Held
<1>2. \A k : IsFiniteSet(Held(M, row, k))
  BY <1>1, FS_Subset
<1>3. Vacant(M, row) \in SUBSET M
  BY DEF Vacant
<1>4. IsFiniteSet(Vacant(M, row))
  BY <1>3, FS_Subset
<1>5. IsFiniteSet(S \X (1 .. rep))
  <2>1. IsFiniteSet(1 .. rep)
    BY FS_Interval
  <2> QED
    BY <2>1, FS_Product
<1>6. Wanted(M, S, rep, row) \in SUBSET (S \X (1 .. rep))
  BY DEF Wanted
<1>7. IsFiniteSet(Wanted(M, S, rep, row))
  BY <1>5, <1>6, FS_Subset
<1> QED
  BY <1>1, <1>2, <1>4, <1>7, FS_CardinalityType

\* Only who holds what matters.
LEMMA SameHolders ==
  ASSUME NEW M, NEW S, NEW rep, NEW row, NEW new,
         \A n \in M : /\ Taken(new[n]) <=> Taken(row[n])
                      /\ Taken(row[n]) => new[n].slot = row[n].slot,
         Suffices(M, S, rep, row)
  PROVE  Suffices(M, S, rep, new)
<1>1. Vacant(M, new) = Vacant(M, row)
  BY DEF Vacant
<1>2. \A k : Held(M, new, k) = Held(M, row, k)
  BY DEF Held
<1>3. Wanted(M, S, rep, new) = Wanted(M, S, rep, row)
  BY <1>2 DEF Wanted
<1> QED
  BY <1>1, <1>3 DEF Suffices

\* Who leaves opens at most one place, and is there to take it.
LEMMA Leaving ==
  ASSUME NEW M, IsFiniteSet(M), NEW S, IsFiniteSet(S), NEW rep \in Nat,
         NEW row, NEW new, NEW n \in M, ~Taken(new[n]),
         \A m \in M \ {n} : new[m] = row[m],
         Suffices(M, S, rep, row)
  PROVE  Suffices(M, S, rep, new)
<1>1. CASE ~Taken(row[n])
  BY <1>1, SameHolders
<1>2. CASE Taken(row[n])
  <2> DEFINE j == row[n].slot
             h == Cardinality(Held(M, row, j))
  <2>1. Vacant(M, new) = Vacant(M, row) \cup {n} /\ n \notin Vacant(M, row)
    BY <1>2 DEF Vacant
  <2>2. \A k : k # j => Held(M, new, k) = Held(M, row, k)
    BY DEF Held
  <2>3. Held(M, new, j) = Held(M, row, j) \ {n} /\ n \in Held(M, row, j)
    BY <1>2 DEF Held
  <2>4. /\ \A k : IsFiniteSet(Held(M, row, k)) /\ Cardinality(Held(M, row, k)) \in Nat
        /\ IsFiniteSet(Vacant(M, row)) /\ Cardinality(Vacant(M, row)) \in Nat
        /\ IsFiniteSet(Wanted(M, S, rep, row)) /\ Cardinality(Wanted(M, S, rep, row)) \in Nat
    BY RowFacts
  <2>5. Cardinality(Held(M, new, j)) = h - 1 /\ h \in Nat
    BY <2>3, <2>4, FS_RemoveElement
  <2>6. Wanted(M, S, rep, new) \in SUBSET (Wanted(M, S, rep, row) \cup {<<j, h>>})
    <3> SUFFICES ASSUME NEW w \in Wanted(M, S, rep, new), w \notin Wanted(M, S, rep, row)
                 PROVE  w = <<j, h>>
      OBVIOUS
    <3>1. PICK k \in S, r \in 1 .. rep : w = <<k, r>>
      BY DEF Wanted
    <3>2. r > Cardinality(Held(M, new, k)) /\ ~ (r > Cardinality(Held(M, row, k)))
      BY <3>1 DEF Wanted
    <3>3. k = j
      BY <2>2, <3>2
    <3>4. r = h
      <4>1. r > h - 1 /\ ~ (r > h)
        BY <2>5, <3>2, <3>3
      <4> HIDE DEF h
      <4> QED
        BY <2>5, <4>1
    <3> QED
      BY <3>1, <3>3, <3>4
  <2> DEFINE W == Wanted(M, S, rep, row)
             p == <<j, h>>
  <2>7. /\ IsFiniteSet(W \cup {p}) /\ Cardinality(W \cup {p}) \in Nat
        /\ Cardinality(W \cup {p}) <= Cardinality(W) + 1
    <3> HIDE DEF W, p
    <3>1. IsFiniteSet(W) /\ Cardinality(W) \in Nat
      BY <2>4 DEF W
    <3>2. CASE p \in W
      <4>1. W \cup {p} = W
        BY <3>2
      <4> QED
        BY <3>1, <4>1
    <3>3. CASE p \notin W
      <4>1. IsFiniteSet(W \cup {p}) /\ Cardinality(W \cup {p}) = Cardinality(W) + 1
        BY <3>1, <3>3, FS_AddElement
      <4> QED
        BY <3>1, <4>1
    <3> QED
      BY <3>2, <3>3
  <2>8. /\ Cardinality(Wanted(M, S, rep, new)) <= Cardinality(W \cup {p})
        /\ Cardinality(Wanted(M, S, rep, new)) \in Nat
    <3> HIDE DEF p
    <3>1. Wanted(M, S, rep, new) \in SUBSET (W \cup {p})
      BY <2>6 DEF p
    <3> QED
      BY <2>7, <3>1, FS_Subset, RowFacts
  <2>9. Cardinality(Vacant(M, new)) = Cardinality(Vacant(M, row)) + 1
    BY <2>1, <2>4, FS_AddElement
  <2> HIDE DEF W, p
  <2>10. Cardinality(W) <= Cardinality(Vacant(M, row)) /\ Cardinality(W) \in Nat
    BY <2>4 DEF Suffices, W
  <2> QED
    BY <2>4, <2>7, <2>8, <2>9, <2>10 DEF Suffices
<1> QED
  BY <1>1, <1>2

\* Who enters at a least held slot fills a place that is wanted, if any is.
LEMMA Entering ==
  ASSUME NEW M, IsFiniteSet(M), NEW S, IsFiniteSet(S), NEW rep \in Nat,
         NEW row, NEW new, NEW n \in M, ~Taken(row[n]), Taken(new[n]),
         \A m \in M \ {n} : new[m] = row[m],
         new[n].slot \in S,
         \A k \in S : Cardinality(Held(M, row, new[n].slot)) <= Cardinality(Held(M, row, k)),
         Suffices(M, S, rep, row)
  PROVE  Suffices(M, S, rep, new)
<1> DEFINE j == new[n].slot
           h == Cardinality(Held(M, row, j))
           W == Wanted(M, S, rep, row)
           X == Wanted(M, S, rep, new)
           V == Vacant(M, row)
<1>1. Vacant(M, new) = V \ {n} /\ n \in V
  BY DEF Vacant
<1>2. \A k : k # j => Held(M, new, k) = Held(M, row, k)
  BY DEF Held
<1>3. Held(M, new, j) = Held(M, row, j) \cup {n} /\ n \notin Held(M, row, j)
  BY DEF Held
<1>4. /\ \A k : IsFiniteSet(Held(M, row, k)) /\ Cardinality(Held(M, row, k)) \in Nat
      /\ IsFiniteSet(V) /\ Cardinality(V) \in Nat
      /\ IsFiniteSet(W) /\ Cardinality(W) \in Nat
      /\ IsFiniteSet(X) /\ Cardinality(X) \in Nat
  BY RowFacts
<1>5. Cardinality(Held(M, new, j)) = h + 1 /\ h \in Nat
  BY <1>3, <1>4, FS_AddElement
<1>6. Cardinality(V \ {n}) = Cardinality(V) - 1 /\ Cardinality(V) - 1 \in Nat
  <2> HIDE DEF V
  <2>1. Cardinality(V \ {n}) = Cardinality(V) - 1 /\ IsFiniteSet(V \ {n})
    BY <1>1, <1>4, FS_RemoveElement
  <2>2. Cardinality(V \ {n}) \in Nat
    BY <2>1, FS_CardinalityType
  <2> QED
    BY <2>1, <2>2
<1>7. X \in SUBSET W
  <2> SUFFICES ASSUME NEW w \in X PROVE w \in W
    OBVIOUS
  <2>1. PICK k \in S, r \in 1 .. rep : w = <<k, r>>
    BY DEF Wanted
  <2>2. r > Cardinality(Held(M, new, k))
    BY <2>1 DEF Wanted
  <2>3. r > Cardinality(Held(M, row, k))
    <3>1. CASE k # j
      BY <1>2, <2>2, <3>1
    <3>2. CASE k = j
      <4>1. r > h + 1
        BY <1>5, <2>2, <3>2
      <4>2. r > h
        <5> HIDE DEF h
        <5> QED
          BY <1>5, <4>1
      <4> QED
        BY <3>2, <4>2
    <3> QED
      BY <3>1, <3>2
  <2> QED
    BY <2>1, <2>3 DEF Wanted
<1>8. CASE W = {}
  <2>1. X = {}
    <3> HIDE DEF X, W
    <3> QED
      BY <1>7, <1>8
  <2>2. Cardinality(X) = 0
    BY <2>1, FS_EmptySet
  <2>3. Cardinality(X) <= Cardinality(V) - 1
    <3> HIDE DEF X, V
    <3> QED
      BY <1>6, <2>2
  <2> QED
    BY <1>1, <1>6, <2>3 DEF Suffices
<1>9. CASE W # {}
  <2>1. PICK k \in S, r \in 1 .. rep : r > Cardinality(Held(M, row, k))
    BY <1>9 DEF Wanted
  <2>2. h <= Cardinality(Held(M, row, k)) /\ Cardinality(Held(M, row, k)) \in Nat
    BY <1>4
  <2>3. h + 1 \in 1 .. rep
    <3> HIDE DEF h
    <3> QED
      BY <1>5, <2>1, <2>2
  <2>4. h + 1 > h
    <3> HIDE DEF h
    <3> QED
      BY <1>5
  <2>5. <<j, h + 1>> \in W
    BY <2>3, <2>4 DEF Wanted
  <2>6. <<j, h + 1>> \notin X
    <3>1. ~ (h + 1 > Cardinality(Held(M, new, j)))
      <4> HIDE DEF h
      <4> QED
        BY <1>5
    <3> QED
      BY <3>1 DEF Wanted
  <2> DEFINE p == <<j, h + 1>>
  <2> HIDE DEF p, W, X, V
  <2>7. p \in W /\ X \in SUBSET (W \ {p})
    BY <1>7, <2>5, <2>6 DEF p
  <2>8. IsFiniteSet(W \ {p}) /\ Cardinality(W \ {p}) = Cardinality(W) - 1
    BY <1>4, <2>7, FS_RemoveElement
  <2>9. Cardinality(X) <= Cardinality(W \ {p})
    BY <2>7, <2>8, FS_Subset
  <2>10. Cardinality(W) <= Cardinality(V)
    BY DEF Suffices, W, V
  <2>11. Cardinality(X) <= Cardinality(V) - 1
    BY <1>4, <2>8, <2>9, <2>10
  <2> QED
    BY <1>1, <1>6, <2>11 DEF Suffices, X
<1> QED
  BY <1>8, <1>9

\* When nobody is left over, every slot has its replicas.
LEMMA NobodyVacant ==
  ASSUME NEW M, IsFiniteSet(M), NEW S, IsFiniteSet(S), NEW rep \in Nat, NEW row,
         Suffices(M, S, rep, row), Vacant(M, row) = {}, NEW k \in S
  PROVE  Cardinality(Held(M, row, k)) >= rep
<1>1. Cardinality(Vacant(M, row)) = 0
  BY FS_EmptySet
<1>2. Wanted(M, S, rep, row) = {}
  <2>1. /\ IsFiniteSet(Wanted(M, S, rep, row))
        /\ Cardinality(Wanted(M, S, rep, row)) \in Nat
    BY RowFacts
  <2>2. Cardinality(Wanted(M, S, rep, row)) = 0
    BY <1>1, <2>1 DEF Suffices
  <2> QED
    BY <2>1, <2>2, FS_EmptySet
<1>3. Cardinality(Held(M, row, k)) \in Nat
  BY RowFacts
<1>4. SUFFICES ASSUME rep > Cardinality(Held(M, row, k)) PROVE FALSE
  BY <1>3
<1>5. rep \in 1 .. rep
  BY <1>3, <1>4
<1>6. <<k, rep>> \in Wanted(M, S, rep, row)
  BY <1>4, <1>5 DEF Wanted
<1> QED
  BY <1>2, <1>6

\* The situation the property is about, which no step changes.
Fleet == DOMAIN setting.plan.caps

PlannedFor ==
  /\ setting.plan.by = "fleet" /\ layout # None
  /\ setting.faults \subseteq {"kill"} /\ setting.crashes = 0
  /\ setting.members = Fleet
  /\ \A m, n \in Fleet : setting.plan.caps[m] = setting.plan.caps[n]

\* The plan has machines enough, and each of them can hold any slot.
LEMMA FleetFacts ==
  ASSUME Fixed, PlannedFor
  PROVE  /\ IsFiniteSet(Fleet) /\ Fleet \subseteq Node
         /\ IsFiniteSet(Slot) /\ setting.plan.rep \in Nat
         /\ Cardinality(Slot \X (1 .. setting.plan.rep)) <= Cardinality(Fleet)
         /\ \A n \in Fleet, k \in Slot : SliceSize(k) <= setting.plan.caps[n]
<1> DEFINE plan == setting.plan
           b == plan.layers - plan.end
<1>1. PlanTyped(plan) /\ IsFiniteSet(Fleet) /\ Fleet \subseteq Node
  BY AgentAssumption DEF Fixed, PlannedFor, Fleet, Agent, PlanTyped
<1>2. b \in Int /\ plan.rep \in Int /\ Numbered(plan.caps)
  BY <1>1 DEF PlanTyped, Numbered
<1>3. PICK k \in Nat : /\ Tiles(plan, layout, k) /\ k > 0
                       /\ Slot = 0 .. k - 1 /\ Cardinality(Slot) = k
  BY LayoutTiles DEF PlannedFor
<1>4. /\ k = PlanStages(b, plan.caps, plan.rep) /\ k # None
      /\ \A i \in Slot : SliceSize(i) = Balanced(b, k)[i]
  BY <1>3, NoneAssumption DEF Tiles, PlannedFor, SliceSize
<1> HIDE DEF b
<1>5. /\ ~ (plan.rep < 1) /\ k \in 1 .. b
      /\ Covers(plan.caps, Demand(Balanced(b, k), plan.rep))
  <2>1. PICK t \in Int : t = b
    BY <1>2
  <2> QED
    BY <1>4, <2>1, FewestOrNone
<1>6. plan.rep \in Nat /\ plan.rep >= 1 /\ b \in Nat /\ k \in Nat \ {0}
  BY <1>2, <1>3, <1>5
<1>7. Split(Balanced(b, k), k)
  <2>1. PICK t \in Nat : t = b
    BY <1>6
  <2>2. Split(Balanced(t, k), k)
    BY <1>6, BalancedAddsUp
  <2> QED
    BY <2>1, <2>2
<1>8. Staffable(Balanced(b, k), plan.rep, plan.caps)
  <2>1. PICK r \in Nat : r = plan.rep
    BY <1>6
  <2>2. Covers(plan.caps, Demand(Balanced(b, k), r)) <=> Staffable(Balanced(b, k), r, plan.caps)
    BY <1>2, <1>7, CoversIsStaffable
  <2> QED
    BY <1>5, <2>1, <2>2
<1>9. DOMAIN Balanced(b, k) = Slot
  BY <1>3, <1>7 DEF Split
<1>10. IsFiniteSet(Slot) /\ IsFiniteSet(1 .. plan.rep) /\ Cardinality(1 .. plan.rep) = plan.rep
  <2>1. IsFiniteSet(0 .. k - 1)
    BY FS_Interval
  <2>2. PICK r \in Nat : r = plan.rep
    BY <1>6
  <2>3. IsFiniteSet(1 .. r) /\ Cardinality(1 .. r) = r
    BY FS_Interval
  <2> QED
    BY <1>3, <2>1, <2>2, <2>3
<1>11. Cardinality(Slot \X (1 .. plan.rep)) <= Cardinality(Fleet)
  <2>1. Cardinality(Slot \X (1 .. plan.rep)) = Cardinality(Slot) * plan.rep
    BY <1>10, FS_Product
  <2>2. Cardinality(Slot) * plan.rep <= Cardinality(Fleet)
    BY <1>8, <1>9 DEF Staffable, Fleet
  <2> QED
    BY <2>1, <2>2
<1>12. ASSUME NEW n \in Fleet, NEW i \in Slot PROVE SliceSize(i) <= plan.caps[n]
  <2>1. PICK staff \in Injection(Slot \X (1 .. plan.rep), Fleet) :
          \A d \in DOMAIN staff : Balanced(b, k)[d[1]] <= plan.caps[staff[d]]
    BY <1>8, <1>9 DEF Staffable, Fleet
  <2>2. staff \in [Slot \X (1 .. plan.rep) -> Fleet]
    BY DEF Injection
  <2>3. 1 \in 1 .. plan.rep
    BY <1>6
  <2>4. <<i, 1>> \in DOMAIN staff /\ staff[<<i, 1>>] \in Fleet
    BY <2>2, <2>3
  <2>5. Balanced(b, k)[i] <= plan.caps[staff[<<i, 1>>]]
    BY <2>1, <2>4
  <2>6. plan.caps[staff[<<i, 1>>]] = plan.caps[n]
    BY <2>4 DEF PlannedFor
  <2> QED
    BY <1>4, <2>5, <2>6
<1> QED
  BY <1>1, <1>6, <1>10, <1>11, <1>12

Row == table[Active]

\* Only the fleet's machines run; who was given a slot is listed with it, and
\* as a heartbeat reaches the reaper in time, stays listed; the free machines
\* suffice for what is wanted.
OnlyFleet == \A n \in Node \ Fleet : phase[n] = "off" /\ ~Taken(Row[n])

PlacedAreTaken ==
  \A n \in Node : phase[n] \in Placed => Taken(Row[n]) /\ Row[n].slot = slot[n]

Staffing ==
  PlannedFor => /\ OnlyFleet /\ PlacedAreTaken
                /\ Suffices(Fleet, Slot, setting.plan.rep, Row)

LEMMA InitStaffing ==
  ASSUME Init, Fixed PROVE Staffing
<1> SUFFICES ASSUME PlannedFor
             PROVE  /\ OnlyFleet /\ PlacedAreTaken
                    /\ Suffices(Fleet, Slot, setting.plan.rep, Row)
  BY DEF Staffing
<1>1. \A n \in Node : phase[n] = "off" /\ ~Taken(Row[n])
  BY FirstPlane DEF Init, Row, Taken, Unknown, Agent
<1>2. OnlyFleet /\ PlacedAreTaken
  BY <1>1 DEF OnlyFleet, PlacedAreTaken, Placed
<1>3. Vacant(Fleet, Row) = Fleet
  BY <1>1, FleetFacts DEF Vacant
<1>4. Wanted(Fleet, Slot, setting.plan.rep, Row) \in SUBSET (Slot \X (1 .. setting.plan.rep))
  BY DEF Wanted
<1>5. IsFiniteSet(Slot \X (1 .. setting.plan.rep))
  <2>1. IsFiniteSet(1 .. setting.plan.rep)
    BY FleetFacts, FS_Interval
  <2> QED
    BY <2>1, FleetFacts, FS_Product
<1>6. /\ Cardinality(Wanted(Fleet, Slot, setting.plan.rep, Row))
           <= Cardinality(Slot \X (1 .. setting.plan.rep))
      /\ Cardinality(Wanted(Fleet, Slot, setting.plan.rep, Row)) \in Nat
  BY <1>4, <1>5, FS_Subset, FS_CardinalityType
<1>7. /\ Cardinality(Slot \X (1 .. setting.plan.rep)) \in Nat
      /\ Cardinality(Slot \X (1 .. setting.plan.rep)) <= Cardinality(Fleet)
      /\ Cardinality(Fleet) \in Nat
  BY <1>5, FleetFacts, FS_CardinalityType
<1>8. Suffices(Fleet, Slot, setting.plan.rep, Row)
  BY <1>3, <1>6, <1>7 DEF Suffices
<1> QED
  BY <1>2, <1>8

\* A worker is given a slot by its own registration only.
LEMMA PlacedBefore ==
  ASSUME Typed, Next, NEW n \in Node, ~Register(n), phase'[n] \in Placed
  PROVE  phase[n] \in Placed /\ slot'[n] = slot[n]
<1> USE DEF Typed, MachinesTyped, SlotsTyped, Agent, Placed, Goes
<1>1. CASE UNCHANGED Own(n)
  BY <1>1 DEF Own
<1>2. CASE Boot(n) \/ Kill(n) \/ GivesUp(n)
  BY <1>2 DEF Boot, Kill, GivesUp
<1>3. CASE Warm(n) \/ Announce(n) \/ Drain(n)
  BY <1>3 DEF Warm, Announce, Drain, workerVars
<1>4. CASE TakeCached(n) \/ Download(n) \/ Verify(n) \/ SliceLocally(n) \/ Load(n) \/ Stop(n)
  BY <1>4 DEF TakeCached, Download, Verify, SliceLocally, Load, Stop, workerVars
<1> QED
  BY <1>1, <1>2, <1>3, <1>4, WorkerSteps DEF WorkerRuns

LEMMA OutsidersStayOff ==
  ASSUME Typed, Next, PlannedFor, OnlyFleet, NEW n \in Node \ Fleet
  PROVE  phase'[n] = "off"
<1>1. phase[n] = "off" /\ n \in Node
  BY DEF OnlyFleet
<1>2. ~Boot(n) /\ ~Kill(n) /\ ~Stop(n) /\ ~WorkerRuns(n)
  BY <1>1 DEF Boot, Kill, Stop, WorkerRuns, Register, GivesUp, Warm, TakeCached, Download,
     Verify, SliceLocally, Load, Announce, Drain, PlannedFor
<1> QED
  BY <1>1, <1>2, WorkerSteps DEF Own

\* What a step other than a registration does to the active control plane's
\* records: it changes no holder, or the reaper gives up one that is silent.
Keeps(n) == (Taken(Row[n])' <=> Taken(Row[n])) /\ (Taken(Row[n]) => Row'[n].slot = Row[n].slot)

Reaped(n) ==
  /\ phase[n] \notin Placed /\ ~Taken(Row'[n])
  /\ \A m \in Node \ {n} : Row'[m] = Row[m]

LEMMA RowPut ==
  ASSUME TableTyped, NEW p \in Plane, NEW a \in Agent, NEW r, table' = Put(p, a, r)
  PROVE  \A m \in Node : Row'[m] = IF p = Active /\ m = a THEN r ELSE Row[m]
BY FirstPlane DEF TableTyped, Put, Row, Agent, Active

LEMMA RowSteps ==
  ASSUME Typed, Next, Counted, PlannedFor, PlacedAreTaken,
         \A n \in Node : ~Register(n)
  PROVE  (\A n \in Node : Keeps(n)) \/ \E n \in Node : Reaped(n)
<1> DEFINE Kept == \A n \in Node : Keeps(n)
           Goal == Kept \/ \E n \in Node : Reaped(n)
<1> USE DEF Typed
<1>0. /\ \A n \in Node : n \in Agent /\ n \notin Orch
      /\ \A p \in Plane : ~PlaneCrashes(p)
      /\ ~Faulty("lose") /\ ~Faulty("slow")
  <2>1. \A p \in Plane : ~PlaneCrashes(p)
    BY DEF PlannedFor, Counted, PlaneCrashes
  <2> QED
    BY <2>1, AgentAssumption DEF Agent, PlannedFor, Faulty
<1>1. ASSUME Row' = Row PROVE Kept
  BY <1>1 DEF Keeps, Taken
<1>2. UNCHANGED table => Kept
  BY <1>1 DEF Row
<1>3. ASSUME NEW p \in Plane, NEW a \in Agent, NEW r, table' = Put(p, a, r),
             p = Active /\ a \in Node =>
               /\ Taken(r) <=> Taken(Row[a])
               /\ Taken(Row[a]) => r.slot = Row[a].slot
      PROVE  Kept
  <2>1. \A m \in Node : Row'[m] = IF p = Active /\ m = a THEN r ELSE Row[m]
    BY <1>3, RowPut
  <2> QED
    BY <1>3, <2>1 DEF Keeps, Taken
<1>4. ASSUME NEW p \in Plane, NEW a \in Agent, Reap(p, a) PROVE Goal
  <2>1. PICK r : table' = Put(p, a, r) /\ ~Taken(r)
    <3>1. ~Taken(Unknown) /\ \A k : ~Taken(Listed("dead", k))
      BY DEF Taken, Unknown, Listed
    <3>2. \/ table' = Put(p, a, Listed("dead", table[p][a].slot))
          \/ table' = Put(p, a, Unknown)
      BY <1>4, ReapPuts
    <3> QED
      BY <3>1, <3>2
  <2>2. CASE ~ (p = Active /\ a \in Node)
    BY <1>3, <2>1, <2>2
  <2>3. CASE p = Active /\ a \in Node
    <3>1. phase[a] \notin Placed
      BY <1>0, <1>4, <2>3 DEF Reap, Mute, Placed
    <3>2. \A m \in Node : Row'[m] = IF m = a THEN r ELSE Row[m]
      BY <2>1, <2>3, RowPut
    <3> QED
      BY <2>1, <2>3, <3>1, <3>2 DEF Reaped
  <2> QED
    BY <2>2, <2>3
<1>5. ASSUME NEW n \in Node, NEW p \in Plane, Relist(p, n), phase[n] \in Placed PROVE Kept
  <2>1. PICK s \in {"ready", "joining"} : Mended(p, n, Listed(s, slot[n]))
    BY <1>5, RelistPuts
  <2>2. Taken(Listed(s, slot[n])) /\ Listed(s, slot[n]).slot = slot[n]
    BY DEF Taken, Listed
  <2>3. Taken(Row[n]) /\ Row[n].slot = slot[n]
    BY <1>5 DEF PlacedAreTaken
  <2> QED
    BY <1>0, <1>2, <1>3, <2>1, <2>2, <2>3 DEF Mended
<1>6. ASSUME NEW n \in Node, Warm(n) PROVE Kept
  BY <1>0, <1>5, <1>6 DEF Warm, Placed, MachinesTyped
<1>7. ASSUME NEW n \in Node, NEW p \in Plane, BeatForgotten(n, p) PROVE Kept
  BY <1>5, <1>7 DEF BeatForgotten, Placed
<1>8. ASSUME NEW a \in Agent, Announce(a) PROVE Kept
  <2>1. table' \in {table, Readied(next[a], a)} /\ next[a] \in Plane
    BY <1>8 DEF Announce, MachinesTyped
  <2>2. \/ table' = table
        \/ /\ table[next[a]][a].state = "joining"
           /\ table' = Put(next[a], a, Listed("ready", table[next[a]][a].slot))
    BY <2>1, ReadiedPuts
  <2> QED
    BY <1>2, <1>3, <2>1, <2>2 DEF Taken, Listed, Row
<1>9. ASSUME NEW n \in Node, Drain(n) PROVE Kept
  <2>1. table' \in {table, Drained(next[n], n)} /\ next[n] \in Plane /\ n \in Agent
    BY <1>0, <1>9 DEF Drain, MachinesTyped
  <2>2. \/ table' = table
        \/ table' = Put(next[n], n, Listed("draining", table[next[n]][n].slot))
    BY <2>1, DrainedPuts
  <2>3. Taken(Row[n])
    BY <1>9 DEF PlacedAreTaken, Drain, Placed
  <2> QED
    BY <1>2, <1>3, <2>1, <2>2, <2>3 DEF Taken, Listed, Row
<1>10. ASSUME NEW o \in Orch, RegisterOrch(o) PROVE Kept
  <2>1. table' = table \/ table' = List(next[o], o, "joining", None)
    BY <1>10 DEF RegisterOrch
  <2>2. next[o] \in Plane /\ o \in Agent
    BY DEF MachinesTyped, Agent
  <2> QED
    BY <1>0, <1>2, <1>3, <2>1, <2>2 DEF List, Put
<1>11. ASSUME NEW a \in Agent, Boot(a) \/ Kill(a) \/ Load(a) PROVE UNCHANGED table
  BY <1>11 DEF Boot, Kill, Load
<1>12. ASSUME NEW n \in Node, GivesUp(n) \/ TakeCached(n) \/ Download(n) \/ Verify(n)
                              \/ SliceLocally(n) \/ Stop(n)
       PROVE  UNCHANGED table
  BY <1>12 DEF GivesUp, TakeCached, Download, Verify, SliceLocally, Stop
<1>13. ASSUME NEW p \in Plane, PlaneRestarts(p) PROVE UNCHANGED table
  BY <1>13 DEF PlaneRestarts
<1>14. ASSUME NEW o \in Orch, BeatForgottenOrch(o) PROVE UNCHANGED table
  BY <1>14 DEF BeatForgottenOrch
<1>15. Goal
  <2> HIDE DEF Kept
  <2> QED
    BY <1>0, <1>2, <1>4, <1>6, <1>7, <1>8, <1>9, <1>10, <1>11, <1>12, <1>13, <1>14
    DEF Next, WorkerRuns, OrchRuns, Agent
<1> QED
  BY <1>15

\* A registration: the machine's old record is gone, the new one is at a
\* least held slot.
LEMMA RegisterStep ==
  ASSUME IInv, Fixed, PlannedFor, Staffing, Next, NEW n \in Node, Register(n)
  PROVE  /\ n \in Fleet
         /\ Taken(Row'[n]) /\ Row'[n].slot = slot'[n]
         /\ \A m \in Node \ {n} : Row'[m] = Row[m] /\ phase'[m] = phase[m] /\ slot'[m] = slot[m]
         /\ Suffices(Fleet, Slot, setting.plan.rep, Row')
<1> DEFINE S == Slot
           rep == setting.plan.rep
           mid == [Row EXCEPT ![n] = Unknown]
<1>1. /\ OnlyFleet /\ PlacedAreTaken /\ Suffices(Fleet, S, rep, Row)
      /\ Typed /\ ~Faulty("lose") /\ n \in Agent
  BY DEF Staffing, IInv, PlannedFor, Faulty, Agent
<1>2. n \in Fleet
  BY <1>1 DEF OnlyFleet, Register
<1>3. PICK k \in PickSlot(Active, n) :
         /\ table' = List(Active, n, "joining", k)
         /\ slot' = [slot EXCEPT ![n] = k]
         /\ \E there : Goes(n, there)
  BY <1>1 DEF Register
<1>4. /\ IsFiniteSet(Fleet) /\ Fleet \subseteq Node /\ IsFiniteSet(S) /\ rep \in Nat
      /\ \A j \in S : SliceSize(j) <= setting.plan.caps[n]
  BY <1>2, FleetFacts
<1>5. \A m \in Node : Row'[m] = IF m = n THEN Listed("joining", k) ELSE Row[m]
  <2>1. table' = Put(Active, n, Listed("joining", k))
    BY <1>3 DEF List, Put
  <2> QED
    BY <1>1, <2>1, FirstPlane, RowPut DEF Typed
<1>6. Taken(Row'[n]) /\ Row'[n].slot = k /\ slot'[n] = k
  BY <1>1, <1>3, <1>5 DEF Taken, Listed, Typed, SlotsTyped
<1>7. \A m \in Node \ {n} : /\ Row'[m] = Row[m] /\ phase'[m] = phase[m]
                            /\ slot'[m] = slot[m]
  BY <1>1, <1>3, <1>5 DEF Goes, Typed, MachinesTyped, SlotsTyped, Agent
<1>8. \A m \in Node : mid[m] = IF m = n THEN Unknown ELSE Row[m]
  BY <1>1, FirstPlane DEF Row, Typed, TableTyped, Agent
<1>9. ~Taken(mid[n])
  BY <1>8 DEF Taken, Unknown
<1> HIDE DEF S, rep, mid
<1>10. Suffices(Fleet, S, rep, mid)
  <2>1. \A m \in Fleet \ {n} : mid[m] = Row[m]
    BY <1>4, <1>8
  <2>2. PICK r \in Nat : r = rep
    BY <1>4
  <2> QED
    BY <1>1, <1>2, <1>4, <1>9, <2>1, <2>2, Leaving
<1>11. \A j : Committed(Active, n, j) = Held(Fleet, mid, j)
  <2>1. \A m \in Node \ {n} : mid[m] = table[Active][m]
    BY <1>8 DEF Row
  <2>2. \A m \in Node : m \notin Fleet => ~Taken(Row[m])
    BY <1>1 DEF OnlyFleet
  <2>3. \A m \in Node : m \notin Fleet => ~Taken(table[Active][m])
    BY <2>2 DEF Row
  <2> QED
    BY <1>4, <1>9, <2>1, <2>3 DEF Committed, Held, Taken
<1>12. k \in S /\ \A j \in S : Cardinality(Held(Fleet, mid, k)) <= Cardinality(Held(Fleet, mid, j))
  <2>1. k \in S /\ \A j \in S : Cardinality(Committed(Active, n, k)) <= Cardinality(Committed(Active, n, j))
    BY <1>4 DEF PickSlot, S
  <2> QED
    BY <1>11, <2>1
<1>13. Suffices(Fleet, S, rep, Row')
  <2> DEFINE new == Row'
  <2>1. /\ ~Taken(mid[n]) /\ Taken(new[n]) /\ new[n].slot = k
        /\ \A m \in Fleet \ {n} : new[m] = mid[m]
    BY <1>4, <1>5, <1>6, <1>8, <1>9
  <2>2. PICK r \in Nat : r = rep
    BY <1>4
  <2> HIDE DEF new
  <2>3. Suffices(Fleet, S, rep, new)
    BY <1>2, <1>4, <1>10, <1>12, <2>1, <2>2, Entering
  <2> QED
    BY <2>3 DEF new
<1> QED
  BY <1>2, <1>6, <1>7, <1>13 DEF S, rep

LEMMA StaffingStep ==
  ASSUME IInv, Fixed, Counted, Staffing, Next PROVE Staffing'
<1>1. /\ Typed /\ UNCHANGED <<setting, layout>> /\ Slot' = Slot /\ Fleet' = Fleet
  BY Frame DEF IInv, Fleet
<1>2. SUFFICES ASSUME PlannedFor
               PROVE  /\ OnlyFleet' /\ PlacedAreTaken'
                      /\ Suffices(Fleet, Slot, setting.plan.rep, Row')
  BY <1>1 DEF Staffing, PlannedFor, Fleet, Suffices, Wanted, Vacant, Held
<1>3. OnlyFleet /\ PlacedAreTaken /\ Suffices(Fleet, Slot, setting.plan.rep, Row)
  BY <1>2 DEF Staffing
<1>4. \A n \in Node \ Fleet : phase'[n] = "off"
  BY <1>1, <1>2, <1>3, OutsidersStayOff
<1>5. CASE \E n \in Node : Register(n)
  <2>1. PICK n \in Node : Register(n)
    BY <1>5
  <2>2. /\ n \in Fleet
        /\ Taken(Row'[n]) /\ Row'[n].slot = slot'[n]
        /\ \A m \in Node \ {n} : Row'[m] = Row[m] /\ phase'[m] = phase[m] /\ slot'[m] = slot[m]
        /\ Suffices(Fleet, Slot, setting.plan.rep, Row')
    BY <1>2, <2>1, RegisterStep
  <2>3. OnlyFleet'
    BY <1>1, <1>3, <1>4, <2>2 DEF OnlyFleet, Taken
  <2>4. PlacedAreTaken'
    BY <1>3, <2>2 DEF PlacedAreTaken, Taken
  <2> QED
    BY <2>2, <2>3, <2>4
<1>6. CASE \A n \in Node : ~Register(n)
  <2>1. \A n \in Node : phase'[n] \in Placed => phase[n] \in Placed /\ slot'[n] = slot[n]
    BY <1>1, <1>6, PlacedBefore
  <2>2. Fleet \subseteq Node /\ IsFiniteSet(Fleet) /\ IsFiniteSet(Slot) /\ setting.plan.rep \in Nat
    BY <1>2, FleetFacts
  <2>3. CASE \A n \in Node : Keeps(n)
    <3>1. \A n \in Node : /\ Taken(Row'[n]) <=> Taken(Row[n])
                          /\ Taken(Row[n]) => Row'[n].slot = Row[n].slot
      BY <2>3 DEF Keeps, Taken
    <3>2. Suffices(Fleet, Slot, setting.plan.rep, Row')
      BY <1>3, <2>2, <3>1, SameHolders
    <3>3. OnlyFleet'
      BY <1>1, <1>3, <1>4, <3>1 DEF OnlyFleet, Taken
    <3>4. PlacedAreTaken'
      BY <1>3, <2>1, <3>1 DEF PlacedAreTaken, Taken
    <3> QED
      BY <3>2, <3>3, <3>4
  <2>4. CASE \E n \in Node : Reaped(n)
    <3>1. PICK n \in Node : Reaped(n)
      BY <2>4
    <3>2. /\ phase[n] \notin Placed /\ ~Taken(Row'[n])
          /\ \A m \in Node \ {n} : Row'[m] = Row[m]
      BY <3>1 DEF Reaped
    <3>3. Suffices(Fleet, Slot, setting.plan.rep, Row')
      <4>1. CASE n \in Fleet
        <5>1. PICK r \in Nat : r = setting.plan.rep
          BY <2>2
        <5>2. \A m \in Fleet \ {n} : Row'[m] = Row[m]
          BY <2>2, <3>2
        <5> QED
          BY <1>3, <2>2, <3>2, <4>1, <5>1, <5>2, Leaving
      <4>2. CASE n \notin Fleet
        <5>1. \A m \in Fleet : Row'[m] = Row[m]
          BY <2>2, <3>2, <4>2
        <5> QED
          BY <1>3, <5>1, SameHolders
      <4> QED
        BY <4>1, <4>2
    <3>4. OnlyFleet'
      BY <1>1, <1>3, <1>4, <3>2 DEF OnlyFleet, Taken
    <3>5. PlacedAreTaken'
      BY <1>3, <2>1, <3>2 DEF PlacedAreTaken, Taken
    <3> QED
      BY <3>3, <3>4, <3>5
  <2> QED
    BY <1>1, <1>2, <1>3, <1>6, <2>3, <2>4, RowSteps
<1> QED
  BY <1>5, <1>6

\* A fleet of equal machines that was planned for staffs every slot with its
\* replicas as soon as all of it is registered, in whatever order the machines
\* register, die, are given up and come back.
THEOREM StaffedCorrect == Spec => []PlannedFleetsAreStaffed
<1>1. Init => Staffing
  <2>1. Init => Fixed
    BY DEF Init, Fixed
  <2> QED
    BY <2>1, InitStaffing
<1>2. IInv /\ Fixed /\ Counted /\ Staffing /\ [Next]_vars => Staffing'
  <2>1. ASSUME Staffing, UNCHANGED vars PROVE Staffing'
    BY <2>1 DEF vars, Staffing, PlannedFor, Fleet, Row, OnlyFleet, PlacedAreTaken, Slot
  <2> QED
    BY <2>1, StaffingStep
<1>3. Fixed /\ Staffing => PlannedFleetsAreStaffed
  <2> SUFFICES ASSUME Fixed, Staffing, PlannedFor,
                      \A n \in Fleet : Row[n].state \in {"joining", "ready"},
                      NEW k \in Slot
               PROVE  Cardinality({n \in Fleet : Row[n].slot = k}) >= setting.plan.rep
    BY DEF PlannedFleetsAreStaffed, PlannedFor, Fleet, Row
  <2>1. Vacant(Fleet, Row) = {} /\ {n \in Fleet : Row[n].slot = k} = Held(Fleet, Row, k)
    BY DEF Vacant, Held, Taken
  <2>2. PICK r \in Nat : r = setting.plan.rep
    BY FleetFacts
  <2> QED
    BY <2>1, <2>2, FleetFacts, NobodyVacant DEF Staffing
<1> QED
  BY <1>1, <1>2, <1>3, Inductive, FixedCounted, PTL DEF Spec

=============================================================================
