----------------------------- MODULE MCNodeAgent -----------------------------
(***************************************************************************)
(* Fleets and catalogs to plan for, and small meshes whose machines join.  *)
(***************************************************************************)
EXTENDS NodeAgent

\* Equal machines of capacity cap, for a model of so many layers behind the
\* coordinator's first one.
Plan(machines, cap, layers) ==
  [by |-> "fleet", layers |-> layers + 1, end |-> 1, rep |-> 1,
   caps |-> [n \in machines |-> cap],
   cap |-> 1, stages |-> 1, weights |-> <<>>, catalog |-> <<>>]

\* Nobody joins: only the plan is looked at.
Planned(plan) ==
  [plan |-> plan, members |-> {}, urls |-> 1, slices |-> "good",
   crashes |-> 0, boots |-> 0, faults |-> {}]

Fleets ==
  {[Plan({}, 1, b) EXCEPT !.caps = c, !.rep = r] :
     b \in 1 .. 7, r \in 0 .. 2,
     c \in {f \in [1 .. 4 -> 0 .. 4] : \A i \in 1 .. 3 : f[i] >= f[i + 1]}}

Weighted ==
  UNION {{[Plan(1 .. n, (b + n - 1) \div n, b) EXCEPT !.by = "weights", !.weights = w] :
            w \in [0 .. n - 1 -> {0, 1, 2, 5, 9}]} : n \in 1 .. 3, b \in 1 .. 8}

Published == [first : 0 .. 3, last : 1 .. 4]

\* Three stages is the least that can leave a gap and still add up.
Gapped ==
  {<<Range2(0, 1)>> \o c :
     c \in [1 .. 3 -> {r \in Published : r.first < r.last}]}

Catalogs ==
  {[Plan({}, 1, 3) EXCEPT !.by = by, !.catalog = c] :
     by \in {"catalog", "manifest"},
     c \in UNION {[1 .. n -> Published] : n \in 0 .. 3} \cup Gapped
           \cup [1 .. 2 -> [first : -2 .. 3, last : -1 .. 4]]}

Counted ==
  {[Plan({}, 1, b) EXCEPT !.by = "cap", !.cap = c] : b \in 1 .. 7, c \in 1 .. 4}
  \cup {[Plan({}, 1, b) EXCEPT !.by = "static", !.stages = k] :
          b \in 3 .. 7, k \in 0 .. 5}
  \cup {[Plan({}, 1, 3) EXCEPT !.by = by, !.stages = 2, !.end = e] :
          by \in {"cap", "fleet", "static"}, e \in -1 .. 4}

\* Machines that join, of which one may start twice.
Joined(machines, plan) ==
  [Planned(plan) EXCEPT !.members = machines,
                        !.boots = Cardinality(machines) + 1]

CONSTANTS n1, n2, n3, o1, o2

Pair == {n1, n2}
Trio == {n1, n2, n3}

Alone == Joined(Pair, Plan(Pair, 1, 2))

Joining ==
  {[Joined(Trio, Plan(Trio, 2, 3)) EXCEPT !.faults = {"kill"}],
   Joined(Trio, Plan(Trio, 1, 3)),
   [Alone EXCEPT !.plan.caps = [n \in Pair |-> IF n = n1 THEN 1 ELSE 0],
                 !.plan.by = "static", !.plan.stages = 2],
   [Alone EXCEPT !.faults = {"slow"}]}

\* Two control planes, which may crash.
Standing ==
  {[Alone EXCEPT !.urls = 2, !.crashes = 1, !.faults = {"kill"}],
   [Alone EXCEPT !.urls = 2, !.crashes = 2, !.boots = 2],
   [Alone EXCEPT !.urls = 2, !.crashes = 1, !.boots = 2, !.faults = {"lose"}]}

Fetching ==
  {[Joined({n1}, Plan({n1}, 1, 1)) EXCEPT !.slices = "none", !.faults = f] :
     f \in {{"tamper"}, {"tamper", "unchecked"}, {"tamper", "slicefail", "kill"}}}

Headed ==
  [Joined({o1, o2}, Plan({}, 1, 1)) EXCEPT !.plan.by = "static", !.crashes = 1]

Orchestrating ==
  {[Headed EXCEPT !.faults = {"kill", "slow"}],
   [Headed EXCEPT !.faults = {"slow"}, !.urls = 2, !.boots = 2]}

Situations ==
  {Planned(p) : p \in Fleets \cup Weighted \cup Catalogs \cup Counted}
  \cup Joining \cup Standing \cup Fetching \cup Orchestrating

=============================================================================
