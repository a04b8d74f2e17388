--------------------------- MODULE MCMeshRegistry ---------------------------
(***************************************************************************)
(* Small meshes for TLC: one or two slots, a handful of nodes, one or two  *)
(* sessions.                                                               *)
(***************************************************************************)
EXTENDS MeshRegistry, TLC

\* The first slot is the fattest: a node may fit one slot, both or none.
FatFirst == [k \in Slot |-> NumSlots - k]

\* Nodes of one role, and sessions, are interchangeable as long as the
\* configuration treats them alike (safety runs only).
Interchangeable ==
  Permutations(Worker) \cup Permutations(Orchestrator) \cup Permutations(Session)

\* Workers and orchestrators share no count, so a run has either come and
\* never both.
OneRoleOnly == {Worker, Orchestrator}

=============================================================================
