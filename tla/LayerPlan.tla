------------------------------ MODULE LayerPlan ------------------------------
(***************************************************************************)
(* How the model's layers are cut into pipeline slots: the planners of     *)
(* engine/topology.py, the catalog of engine/shard_fetch.py and the        *)
(* choice between them in engine/api.py (_build_mesh).                     *)
(*                                                                         *)
(* A split is a function from the slots 0 .. k-1 to their sizes, a layout  *)
(* one from the slots to their layer ranges [first, last).  The code's     *)
(* ValueErrors are None, or no split.  Floating point only decides ties    *)
(* between equal remainders, which are left open; throughput weights are   *)
(* integers.                                                               *)
(***************************************************************************)
EXTENDS Integers, FiniteSets, Sequences, FiniteSetsExt, Functions

CONSTANT None     \* no plan: the planner raises

ASSUME NoneAssumption == None \notin Nat

SumOf(f) == SumFunction(f)

-----------------------------------------------------------------------------
(***************************************************************************)
(* plan_stages: the fewest stages whose balanced split a fleet can staff.  *)
(***************************************************************************)
\* The split the Topology constructor makes on its own.
Balanced(budget, k) ==
  [i \in 0 .. k - 1 |-> (budget \div k) + (IF i < budget % k THEN 1 ELSE 0)]

\* One holder per slot and replica, asking for the size of its slot.
Demand(sizes, rep) ==
  [d \in (DOMAIN sizes) \X (1 .. rep) |-> sizes[d[1]]]

\* The value at place r (from 0) of f's values, the largest first.
Largest(f, r) ==
  Max({v \in Range(f) : Cardinality({x \in DOMAIN f : f[x] >= v}) > r})

\* The largest demand under the largest capacity, and so on down.
Covers(caps, demand) ==
  LET needed == Cardinality(DOMAIN demand)
  IN  /\ needed <= Cardinality(DOMAIN caps)
      /\ \A r \in 0 .. needed - 1 : Largest(demand, r) <= Largest(caps, r)

\* Fault: the replicas of a slot are not counted.
PlanForOneReplica(budget, caps, rep) ==
  LET enough == {k \in 1 .. budget : Covers(caps, Demand(Balanced(budget, k), 1))}
  IN  IF rep < 1 \/ enough = {} THEN None ELSE Min(enough)

PlanStages(budget, caps, rep) ==
  LET enough == {k \in 1 .. budget : Covers(caps, Demand(Balanced(budget, k), rep))}
  IN  IF rep < 1 \/ enough = {} THEN None ELSE Min(enough)

\* Reference: every slot can be given rep nodes of its own that can hold it.
Staffable(sizes, rep, caps) ==
  /\ Cardinality(DOMAIN sizes) * rep <= Cardinality(DOMAIN caps)
  /\ \E staff \in Injection((DOMAIN sizes) \X (1 .. rep), DOMAIN caps) :
          \A d \in DOMAIN staff : sizes[d[1]] <= caps[staff[d]]

-----------------------------------------------------------------------------
(***************************************************************************)
(* plan_weighted_split: slices in proportion to the stages' throughput.    *)
(***************************************************************************)
\* The floor of each slice's share; what the floors leave over goes to the
\* largest fractions, one layer each.
Rounded(total, w) ==
  LET W        == SumOf(w)
      floor    == [i \in DOMAIN w |-> (total * w[i]) \div W]
      fraction == [i \in DOMAIN w |-> (total * w[i]) % W]
      left     == total - SumOf(floor)
  IN  {[i \in DOMAIN w |-> floor[i] + (IF i \in up THEN 1 ELSE 0)] :
         up \in {u \in SUBSET DOMAIN w :
                   /\ Cardinality(u) = left
                   /\ \A i \in u, j \in (DOMAIN w) \ u : fraction[i] >= fraction[j]}}

\* One layer from the first largest slice to the first smallest, while a
\* slice is below the minimum and the largest can spare one.
Steal(sizes, least) ==
  LET lo == Min({i \in DOMAIN sizes : sizes[i] = Min(Range(sizes))})
      hi == Min({i \in DOMAIN sizes : sizes[i] = Max(Range(sizes))})
  IN  IF sizes[lo] >= least \/ sizes[hi] - 1 < least THEN sizes
      ELSE [sizes EXCEPT ![lo] = @ + 1, ![hi] = @ - 1]

\* The loop makes at most 10 * Len(w) such moves.
Raised(sizes, least) ==
  LET after[g \in 0 .. 10 * Cardinality(DOMAIN sizes)] ==
        IF g = 0 THEN sizes ELSE Steal(after[g - 1], least)
  IN  after[10 * Cardinality(DOMAIN sizes)]

\* Every split the function may return; none when it raises.
WeightedSplits(total, w, least) ==
  IF total < Cardinality(DOMAIN w) * least \/ \E i \in DOMAIN w : w[i] <= 0
  THEN {}
  ELSE {Raised(sizes, least) : sizes \in Rounded(total, w)}

-----------------------------------------------------------------------------
(***************************************************************************)
(* Layouts: slot boundaries, from a split or from a published catalog.     *)
(***************************************************************************)
Range2(first, last) == [first |-> first, last |-> last]

\* The slots of the Topology constructor; also plan_pipeline_layout.
Slots(coordinatorEnd, sizes) ==
  LET start(i) == coordinatorEnd
                  + SumFunctionOnSet(sizes, {j \in DOMAIN sizes : j < i})
  IN  [i \in DOMAIN sizes |-> Range2(start(i), start(i) + sizes[i])]

\* Fault: ranges that do not follow on each other are let through.
WellFormedRanges(catalog) ==
  /\ catalog # <<>>
  /\ \A i \in DOMAIN catalog : catalog[i].first < catalog[i].last

\* parse_layout: a sequence of ranges, each non-empty and starting where the
\* one before ended.  The first start is not looked at.
WellFormed(catalog) ==
  /\ catalog # <<>>
  /\ \A i \in DOMAIN catalog : catalog[i].first < catalog[i].last
  /\ \A i \in 2 .. Len(catalog) : catalog[i].first = catalog[i - 1].last

\* topology_from_catalog: the first slice is the coordinator's.
CatalogEnd(catalog) == catalog[1].last

\* It looks at where the stages start and end, and not at what lies between.
\* That the first range carries the head is taken as given.
AcceptsCatalog(layers, catalog) ==
  /\ Len(catalog) > 1
  /\ catalog[2].first = CatalogEnd(catalog)
  /\ catalog[Len(catalog)].last = layers

CatalogSizes(catalog) ==
  [i \in 0 .. Len(catalog) - 2 |-> catalog[i + 2].last - catalog[i + 2].first]

(***************************************************************************)
(* The splits a control plane may start with, by how it was set up:        *)
(*   catalog  the published layout, as a string (CIRCUIT_MESH_CATALOG);    *)
(*   manifest the same from a manifest, a dict or the path of a file;      *)
(*   cap      as few stages as nodes of one declared capacity need         *)
(*            (CIRCUIT_MESH_NODE_CAP);                                     *)
(*   fleet    as few as the fleet's own capacities need (for_fleet);       *)
(*   weights  the same, cut in proportion to weights;                      *)
(*   static   a fixed number of stages.                                    *)
(* None left when the set-up raises.                                       *)
(***************************************************************************)
PlanTyped(plan) ==
  /\ plan.by \in {"catalog", "manifest", "cap", "fleet", "weights", "static"}
  /\ {plan.layers, plan.end, plan.rep, plan.cap, plan.stages} \subseteq Int
  /\ IsFiniteSet(DOMAIN plan.caps)
  /\ \A n \in DOMAIN plan.caps : plan.caps[n] \in Int
  /\ IsFiniteSet(DOMAIN plan.weights)
  /\ DOMAIN plan.weights = 0 .. Cardinality(DOMAIN plan.weights) - 1
  /\ \A i \in DOMAIN plan.weights : plan.weights[i] \in Int
  /\ plan.catalog \in Seq([first : Int, last : Int])

\* catalog_layout: only a string is parsed, the slots of a manifest are taken
\* as they are.
Resolves(plan) == plan.by = "catalog" => WellFormed(plan.catalog)

Splits(plan) ==
  LET budget == plan.layers - plan.end
      k      == PlanStages(budget, plan.caps, plan.rep)
      fewest == PlanStages(budget, [i \in 1 .. budget |-> plan.cap], 1)
  IN  CASE plan.by \in {"catalog", "manifest"} ->
             IF Resolves(plan) /\ AcceptsCatalog(plan.layers, plan.catalog)
             THEN {CatalogSizes(plan.catalog)} ELSE {}
        [] plan.by = "cap" ->
             IF fewest = None THEN {} ELSE {Balanced(budget, fewest)}
        [] plan.by = "fleet" ->
             IF k = None THEN {} ELSE {Balanced(budget, k)}
        [] plan.by = "weights" ->
             IF k = Cardinality(DOMAIN plan.weights)
             THEN WeightedSplits(budget, plan.weights, 1) ELSE {}
        [] plan.by = "static" ->
             IF plan.stages < 1 THEN {} ELSE {Balanced(budget, plan.stages)}

CoordinatorEnd(plan) ==
  IF plan.by \in {"catalog", "manifest"} THEN CatalogEnd(plan.catalog) ELSE plan.end

Layout(plan, sizes) == Slots(CoordinatorEnd(plan), sizes)

\* What the Topology constructor refuses: a coordinator's slice that leaves
\* nothing, and given sizes below one or that do not add up to the rest.
Admits(plan, sizes) ==
  /\ CoordinatorEnd(plan) \in 0 .. plan.layers - 1
  /\ plan.by \in {"catalog", "manifest", "weights"} =>
       /\ \A i \in DOMAIN sizes : sizes[i] >= 1
       /\ SumOf(sizes) = plan.layers - CoordinatorEnd(plan)

Layouts(plan) ==
  {Layout(plan, sizes) : sizes \in {s \in Splits(plan) : Admits(plan, s)}}

=============================================================================
