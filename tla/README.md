# Verification of the Circuit dLLM mesh

TLA+ modules, TLC runs and TLAPS proofs for the Python engine under `engine/`:
a language model whose layers are spread over volunteer machines. Paths and
line numbers below refer to the repository.

## The system

| Part | Code | State | Operations | Talks to |
|---|---|---|---|---|
| Topology | `engine/topology.py` | slots with their holder lists, node table (state, trust, heartbeat, strikes), latency matrix | register, ready, suspect, drain, reap, purge, record_check, route | called under the registry's lock |
| Registry | `engine/registry.py` | replica load and pins per session, entry load, evictions, bans, orchestrator sequence, earnings, state file | register, acquire/release route, acquire/release entry, audit pairs, record_check, save, load | HTTP server, in-process coordinator, auditor |
| Control server | `engine/control_server.py` | suspect log, reaper thread | one handler per call | nodes, orchestrators, gateway |
| Coordinator | `engine/coordinator.py` | sockets per holder, pinned routes, warm prompt session, history of the request | generate (stream, speculative, tree, batch, state, resume), relay, failover, audit round | registry (local or remote), stage workers |
| Stage worker | `engine/stage_worker.py`, `engine/kv.py` | KV per session, last touch, heartbeats | ACTIVATION, BATCH, TREE, CHAIN, KV_CTRL, session reaper, control client | coordinators, control planes, relay |
| Route provider | `engine/route_provider.py` | preferred control plane | acquire, release, suspect, fail over between control planes | control server |
| Speculation | `engine/specdecode.py`, `engine/eagle.py` | draft KV | propose, verify, roll back | coordinator |
| Scheduler, API | `engine/scheduler.py`, `engine/api.py` | request queue, request gate | submit, batch loop, stream, resume endpoint; start-up of control plane and orchestrator | coordinator, control planes |
| Slices | `engine/shard_fetch.py` | slices on a worker's disk | download, verify, slice locally, take what is cached | worker start-up |
| Relay | `engine/relay.py` | control sockets per node, pending dials | control, dial, data, pipe | NAT nodes, coordinators |
| Chain | `engine/chain.py` | none | encode, decode, pop the next hop | stage workers |
| Layer planning | `engine/topology.py`, `engine/shard_fetch.py` | none | plan stages, weighted split, catalog layout, manifest | startup |
| On-chain registry | `onchain/programs/mesh_registry` | config, node accounts | register, update, set trust, set ban, deregister | authority, auditor |

What is hard here: control-plane calls of many machines interleave freely and
each side keeps a memory of the other (a pin, a load count, a KV cache, a
socket, a warm prompt); machines disappear and come back empty; the calls that
free things are best-effort; a retry repeats a pass whose effects may have
happened. `PROJECT.json` lists these places as hazards, each at its line.

What makes each part correct:

* membership: holder lists agree with the records, machines that vanish stop
  being routed to, and nobody but the seed fleet is trusted without having
  passed its challenges;
* routing: a route runs every stage on its own node, load counts are exact, a
  pin survives as long as its holder serves;
* durability: bans and session-id prefixes that were saved survive restarts;
* the data plane: every pass is computed on exactly the token history the
  coordinator believes in, on every stage, through failures, prompt reuse and
  speculation; requests end; replica load and KV are freed;
* batching and overlap: what a client is given is greedy decoding of its own
  prompt, whoever shares its batch or its stages, and a failure reaches every
  client it concerns and no other;
* joining: the layers are cut exactly once and so that the fleet can staff the
  slots, a machine serves the slot it is listed for with the published weights,
  as far as there is a hash to check them against, and whoever serves is found
  ready again by every control plane.

## Modules

| Module | Models |
|---|---|
| `MeshTopology` | class `Topology`: the node table and the holder lists, each method an operator on them |
| `MeshRegistry` | class `Registry` over it, with the callers that drive it: nodes, sessions, auditor, reaper, restarts |
| `MCMeshRegistry` | small meshes for TLC |
| `MeshRegistryProofs` | the theorems about `MeshRegistry` |
| `PipelineSession` | a coordinator's requests over the holders' KV stores |
| `MCPipelineSession` | small pipelines for TLC |
| `PipelineSessionProofs` | types, and routes that are released |
| `PipelineExactProofs` | passes are computed on the whole history: greedy ones, then speculative, warm and resumed ones |
| `GreedyDecode` | what decoding promises: the abstract specification |
| `SpecDecode` | speculative decoding, linear and with trees |
| `MCSpecDecode` | a small vocabulary and target for TLC |
| `SpecDecodeProofs` | the theorems about `SpecDecode` |
| `StaticPipeline` | the batch scheduler and the request gate over a fixed list of stages |
| `MCStaticPipeline` | three requests over two stages for TLC |
| `StaticPipelineProofs` | the theorems about `StaticPipeline` |
| `LayerPlan` | how the layers are cut into slots: the planners and the catalog, as operators |
| `LayerPlanProofs` | the theorems about `LayerPlan`: sums, splits, layouts, the fewest stages |
| `NodeAgent` | workers and orchestrators that join, fetch their slices and keep up with an active and a standby control plane |
| `MCNodeAgent` | fleets to plan for and small meshes for TLC |
| `NodeAgentProofs` | the theorems about `NodeAgent` |
| `Relay` | the NAT relay with a node's relay client and a dialing coordinator |
| `MCRelay` | the instance for TLC |
| `RelayProofs` | the theorems about `Relay` |

### MeshTopology and MeshRegistry

`table[n]` is the `Node` record, `holders[k]` the list of slot `k` as a set
(its order only breaks ties, which are left nondeterministic), `load` and
`pinned` are `_load` and `_session_load`, `entryLoad` and `entryOf` are
`_entry_load` and `_session_entry`, `disk` is the state file. Every registry
method runs under one lock, so a call is one action, its save included; the save
may fail without a word (`SaveOutcome`), and then a restart forgets what it
should have kept. Time is
the number of reaper periods a node has been silent, capped just past the point
where `purge` takes it. `auditing` holds the pairs an audit round has read and
not judged yet, so a verdict may reach a record that was purged and registered
anew in between. `gone`, `prefix` and `lost` describe the outside: machines that
left, the prefix a running orchestrator took, sessions whose release never came.

Which of several equal placements or replicas is taken, the sizes of slots and
the verdict of a challenge are nondeterministic. The latency matrix only
reorders holders of equal trust and is left out. Earnings and wallets share the
lock and the file but no decision of these actions depends on them.

### PipelineSession

A holder's KV is the sequence of tokens it was fed (`kv[h][s]`), `None` if it
has no entry. `req` is the request under way: what the coordinator takes to be
in the KV (`seq`), the tokens of the pass (`batch`), the next stage and the
failover attempt. A hop is one step with three outcomes: it comes through, it
never reached the holder, or the holder did it and the reply was lost. Over a
chain the head's computation and its forward are two: after the first the
forward may fail, or the coordinator may give the head up (a lost socket, a
timeout) while the head lives and computes on, so that its forward (`late`)
comes, or fails, at any later time (`HopAbandoned`, `LateForward`). Control
frames have no reply; a holder behind an open socket acts on them before its
next frame, one behind a dead socket never does, and the write itself may
succeed or be refused.

Requests are "greedy" (`generate_stream`), "draft" (`generate_speculative_stream`
with the prompt prefix cache), "keep" (`generate_state` with `keep_warm`) and
"resume" (`generate_resume_state`). A token is `"said"` where the target chose
it and `"wrong"` where a draft was rejected: what matters is which tokens stay.
The registry appears as the READY holders and the pins.

`setting` says how the mesh of a behaviour runs: as a star, where the
coordinator visits the holders one by one, or as a chain (`chained`), where it
hands the pass to the head and each holder forwards it over sockets of its own
(`fwd`); which requests are made; and what may go wrong: a holder crashes and
comes back empty ("restart"), a socket of the coordinator or a reply on it is
lost while the holder lives on ("drop"), a forwarding socket is lost ("break"), a
write to a dead socket raises ("refuse"), a holder hangs past the read timeout
and goes on later ("late"), the idle reaper runs ("expire"), the orchestrator dies
under a request ("die") or between two ("replace"), a client resumes twice from
one state ("repeat"), a client leaves its stream ("leave"). `warm` is the prefix
record of the pooled connection set, `spare` that of the default set, which has
no sockets: a client that leaves has its generator closed after the handler
gave the pooled set back, so the end of its request works on the default set.

Assumed: one request at a time per connection set, which the request gate
enforces; the KV of the running request is not idle for the half hour after
which the reaper takes it; a chain has two holders; a frame that reaches a live
holder over a live connection is acted on before what the coordinator does next,
the hops of `HopAbandoned` excepted, and of these one is outstanding at a time.

### StaticPipeline

The static mode of the coordinator: a list of stages, no registry. In mode
"gate" requests run side by side, each on a connection set (`sock[l]`) lent by
the pool; in mode "batch" the scheduler's one thread decodes up to `maxBatch`
waiting requests as the rows of one batch on the default set. A socket is the
frames a stage has not read and the replies nobody has read, in order; a reply
does not say what it answers, so a set that outlives a timeout is read one
answer behind. A forward computes the history it stands for, or `Junk` when the
stage's KV is not the beginning of it; `Junk` makes the last stage say anything.
A request is `Alone(r)`, an instance of `GreedyDecode`: whatever shares its
stages, it must be decoded as if nothing did. Freed and reset KV are both
`None`: a reset leaves an entry without content until the idle reaper comes.

### LayerPlan and NodeAgent

`LayerPlan` has the planners as operators: a split is a function from slots to
sizes. `PlanStages` is the greedy match of sorted demands and capacities;
`Staffable` is the reference it is checked against, an injection of all holders
into the fleet. `Splits` is the choice `_build_mesh` and `for_fleet` make,
`Layouts` what the `Topology` constructor lets through (`Admits`): it refuses a
coordinator's slice that leaves the mesh no layer, and given sizes that are empty
or do not add up (`topology.py:234-261`). A catalog is a layout string
("catalog"), whose ranges must follow on each other (`WellFormed`), or a manifest
("manifest"), of whose ranges only the first start and the last end are looked at
(`AcceptsCatalog`): the constructor's sum is all that is left to check, so it may
be accepted with slots that are not its ranges.

In `NodeAgent` each post is a step. A control plane's registry is reduced to
what the posts read and write: the state and slot of a record (`table[p][a]`)
and the persisted sequence; `MeshRegistry` has the rest. `phase[a]` is where a
process stands: a worker registers with the first control plane, warms the
standbys, fetches and verifies its slice, loads, announces itself, serves and
drains; an orchestrator registers with all, loads its head, announces itself and
serves. Beats matter only when they are answered `registered: False`
(`BeatForgotten`). Silence has no clock: whoever sends no heartbeats (`Mute`) may
be reaped at any moment. The setting says what the layers are planned for, who
joins, how many control planes there are and what goes wrong: processes die
("kill"), slices and heads load for longer than the reaper waits ("slow"), posts
or answers are lost ("lose"), the published slice is not the one of the manifest
("tamper"), slices are taken without a look at their hash, because the check is
off or there is no manifest or no hash in it ("unchecked"), slicing fails
("slicefail"), control planes crash (`crashes`).

### GreedyDecode and SpecDecode

`GreedyDecode` is the promise: one token after the other, each the one the
target says after the text so far. `SpecDecode` is the loop of
`speculative_greedy_stream`: `text` is the prompt and `committed` tokens, of
which `shown` have been yielded, `kv` and `draftKv` the tokens each cache was
fed. A draft proposes any `K` tokens, so the model covers every draft. The
target is an operator `Argmax` on histories; what it says at a position is
`Argmax` of what its KV really holds up to there, so a KV out of step shows as a
wrong token. With `decoder` "tree" a round is that of `generate_tree_stream`:
any tree of at most `TreeSize` nodes, each following the head or an earlier node
and siblings being different tokens; the KV takes all nodes, `SaysAfter` reads
it through the tree mask, the branch that follows the target is committed and
`KeepBranch` compacts the KV to it. The heuristics that choose the tree (beam,
depth, probabilities) are abstracted to that choice. The refinement maps the
shown part of `text` to the abstract text: committing several tokens stutters,
showing one is a step of greedy decoding. `PipelineSession` has the same round
with KVs that can be lost and abstract tokens; here no KV is lost and the tokens
are computed.

### Relay

`control` is `_controls`, `pending` is `_pending`. Every connection to the relay
has a thread; `link[l].server` says where the thread of a control connection
stands, `dial[d].handler` that of a dial, `dial[d].data` that of the data
connection made for it. A step is what a thread does between two places where
another thread may come in: under the lock, around a write, in the wait. So a
dial puts itself on the list, reads the node's link under the lock, writes to it
without the lock, tells its coordinator ok and waits, each a step of its own,
and the wait may time out in the moment the data connection is paired. `agent`
is the client loop of a node: reading a link, or in its backoff with the old
socket still open. `link[l].signals` are the signals written and not read; a
socket that is closed loses them. `Fault` names what may happen from outside: a
node goes away ("die"), its data connection cannot be made ("unreachable"), a
coordinator leaves ("hangup"). The idle timeout of the control socket is not a
fault: it is what the code does after 15 silent seconds.

Left out: dishonest parties (signatures and the dial token), stopping the relay,
the bytes of a pipe. A tag is the dial it was minted for, since tags are random
and never repeat.

## Runs

| Run | Instance | Shows |
|---|---|---|
| `registry_routing` | three workers on two slots or two orchestrators, two sessions, restarts | type invariant, holder lists, disjoint routes, exact route and entry load, different prefixes for running orchestrators, pins that survive |
| `registry_trust` | a seed and a newcomer, one slot, failing saves | a node on the ban list does not serve, one whose ban was saved never does again, bans count evictions, trust is earned, silent machines leave routing (liveness) |
| `session_failover` | replicated stage 0, single stage 1, two sessions, two rebuilds per pass; stars under crashes and late holders, and under lost sockets and replies; a greedy chain that keeps its coordinator, a drafting one that may lose it (for its routes); reuse and resumption | a pass that gets through was computed on the whole history; reuse, roll-back and resume agree with it; ended sessions hold no load |
| `session_ends` | one holder, greedy and speculative requests, every fault | requests end; KV of ended sessions is freed (liveness) |
| `batch` | three requests, two stages; a batch of two, two lanes, one lane; stages that die or hang, clients that leave | every client is given the greedy text of its own prompt (refinement of `GreedyDecode`), a dead stage costs a lane one request, KV is freed, requests are answered (liveness) |
| `node_agent` | 15 603 plans; three workers, two orchestrators, two control planes that crash | plans are minimal and cut every layer once, planned fleets staff their slots, machines are listed for what they serve, tampered slices are not served where there is a hash to check, prefixes differ, whoever serves becomes ready again (liveness) |
| `spec_decode` | three tokens, 39 prompts, lines of two drafts and trees of up to three, five tokens to show | implements greedy decoding, KVs in step, ends (liveness) |
| `relay` | a node on two links, two dials, every fault | exact table, no missed meeting, no forgotten dial; whoever is told to go ahead is connected or cut off (liveness) |
| `registry_probation_primary` | | violated: the balancer prefers a lightly loaded probation node to a trusted one |
| `session_rehome` | | violated: a resume reaches a holder that lost, or never had, the KV |
| `session_rollback` | a chain that drafts, where nothing fails | violated: a roll-back reaches only the head, and the holder behind it keeps the tokens the next pass continues |
| `relay_idle` | | violated: an idle node leaves its link while the relay still signals it there |

The last four are the findings of `PROJECT.json`, with the quoted promise each
contradicts. The trace of `session_rollback` has eleven states: a request is
made and its prompt fed through the chain, a round of drafts is partly rejected,
the head is rolled back and the holder behind it is not, and the next pass is
appended to what it kept.

### Beyond the runs

`MCPipelineSession` has three more settings no run uses. Each is put in place of
`RollingBack` in `session_rollback.cfg` to be seen, the third with `GreedyIsExact`
for `DraftingIsExact`:

* `Refusing`: a star, where the write of a roll-back raises and is passed over
  (`coordinator.py:566`): `DraftingIsExact` fails;
* `Leaving`: a star, where a client leaves and the roll-back goes to a set
  without sockets (`api.py:358`): `DraftingIsExact` fails at the next prompt of the
  session;
* `Deserting`: a greedy chain whose coordinator loses its socket to a head that
  lives. The head computes on and forwards (`stage_worker.py:352-363`), as it does
  when it hangs past the timeout; meanwhile the coordinator has rebuilt the
  history through another head, and the old forward is appended at the rebuilt
  tail: `GreedyIsExact` fails, against `coordinator.py:459`. So no passing run
  asks for exact passes over a chain with the faults "drop" or "late".

What the models show and no run says, because the code has nothing against it
or promises nothing:

* a DRAINING record is never removed (`reap` skips it, `purge` takes only DEAD
  ones), so `SilentNodesLeaveRouting` leaves it out; the load of a session whose
  release was lost is counted until the control plane restarts;
* after a timeout the batch path keeps its sockets (`coordinator.py:956-971`),
  and the next batch is given the answers to the one before, against
  `coordinator.py:987-988` ("token-identical"): `RowsAreGreedy` leaves batches
  with hanging stages out. After a death the same path keeps dead sockets and
  every later batch fails, so `FailuresAreBounded` is about the gate;
* the KV of a request whose client left, or that failed, waits for the idle
  reaper, so `KvIsOfTheRunning` is about undisturbed runs;
* a fixed number of stages larger than that of the layers gives slots without
  layers (`topology.py:262-267`) and nothing refuses it, where the planners and
  catalogs do: `SplitsTile` leaves such a plan out;
* a manifest whose ranges do not follow on each other is accepted, with slots
  other than its ranges (`shard_fetch.py:97-117`), which the comment at
  `shard_fetch.py:31-32` rules out and `build_manifest` does not write when given a
  parsed layout: `SplitsTile` says of a manifest only that its slots tile;
* a slice is served unchecked when there is nothing to check it against
  (`shard_fetch.py:162-172`), and one that was rejected is served by the next
  process if this one dies first or fails to slice (`shard_fetch.py:200`):
  `SlicesAreVerified` leaves "unchecked", "kill" and "slicefail" out;
* an eviction whose save failed is forgotten by the next restart, ban and count
  alike (`registry.py:408-409`): `BannedNeverServes` is about the list as it is,
  `SavedBansHold` about bans that reached the disk;
* two control planes hand out equal prefixes (`api.py:515-524`), so
  `OrchestratorsAreApart` compares a prefix with the plane that gave it; a lost
  `/ready` is not repeated (`stage_worker.py:617`), a preferred slot is given
  without counting (`topology.py:320`): the properties of `NodeAgent` name the
  faults they hold without.

Bounds. Two slots, or stages, are the fewest between which a pin, a load count
or a KV can disagree; three workers let one slot be replicated while a node
moves between slots. Two sessions are needed to share a node, or to leave a warm
one behind. Eviction after two strikes, bans after two evictions and promotion
after the passes of the configuration keep every threshold reachable several
times over. Orchestrator registrations stop at `MaxOrchSeq`, silence is capped
(`SilenceCap`), a session longer than `MaxHistory` is not resumed. One token
decoded after a prefill is the shortest request with a non-empty history under
failover; two rounds let a roll-back be followed by a pass on what it left.
Five tokens in rounds of at most three end a stream in the middle of a round and
at its end; the first token of a prompt picks between targets that repeat,
alternate and stop. In the relay two links let one end late while its successor
serves, and two dials let one give up while the other waits; nodes share nothing
there, so one is enough. A batch needs two rows to let one end before the other
and a third request to follow on its sockets; two lanes let one request overlap
two others. Two stages let an answer be stale in the middle of a pass. Fleets of
up to four machines, seven layers and replication from none to two contain
every way the greedy match can go, and weights of three stages every way the
loop that raises empty slices can; catalogs may start anywhere, overlap or leave
gaps, with up to three stages, the least that can leave a gap and still add up,
and a coordinator's slice may be negative or too long. Three machines on two or three slots let one slot be filled twice while
another waits; one machine may start once more than the others, and one or two
crashes of a control plane let a standby be the one that forgot.
`StaticPipeline` stops after one stage death (`MaxDeaths`), `NodeAgent` after
`boots` starts and `crashes` crashes.
Safety runs reduce by the symmetry of nodes and of session ids; liveness runs do
not. Deadlock is not checked in the session runs, where ids run out and an idle
coordinator stops, nor in the relay, batch and node runs, where dials, requests
and starts do.

Fairness. `Clock`, `Tick` and `AuditRound` are loops that never end
(`control_server.py:254-268`). In the data plane the thread of a request goes
on, because every connect and read has a timeout (`coordinator.py:41-55`), and
a stream that is asked for tokens goes on (`SpecDecode`, `WF_vars(Next)`); the
worker's reaper loop never ends; crashed workers are started again, without
which a route may never exist, but `RequestsEnd` does not depend on it, since a
coverage gap ends the request too. The relay's threads go on, because
none waits without a timeout except for bytes of its peer; nobody is assumed to
dial, answer or come back. In `StaticPipeline` the scheduler's thread, those of
requests and those of stages go on, a hanging stage excepted; requests read with
a timeout, which is what ends them there. In `NodeAgent` started processes go on
and heartbeats go on at every interval (`stage_worker.py:597-613`,
`api.py:548-560`); control planes are not assumed to come back. Starting requests, failures and heartbeats
are never assumed to happen.

## Proofs

`MeshRegistryProofs` proves for every set of nodes, slots, sessions and every
threshold (assumptions `TopologyAssumption` and `RegistryAssumption`: finite
sets, positive thresholds, `None` outside the domains):

* `TypeCorrect`: the type invariant, on which the rest rests;
* `HoldersCorrect`: inductive by itself, because each topology operator takes a
  node off its old list before it writes its record;
* `RoutesCorrect`: from `HoldersCorrect`, two slots never have a common
  routable holder; acquiring preserves disjointness, and a re-acquire keeps only
  pins that still hold their slot;
* `LoadCorrect`: with disjoint routes every session counts at most once on a
  node; acquire, re-acquire and release each move one session, and the lemma
  `MovesKeepAccount` turns that into equality of the counter and the cardinality;
* `BansCorrect`: strengthened by the same fact about the saved state
  (`SavedBansCountEvictions`), since a restart replaces one by the other;
* `TrustCorrect`: every topology step keeps "trusted implies seed or enough
  passes";
* `BannedCorrect`: from `TypeCorrect`; a node is banned in the step that evicts
  it and no handler leads from an evicted or absent record back to serving
  without passing the ban check;
* `SavedBansCorrect`: `SavedBansHold`, from `BannedCorrect`: what is on the disk is
  on the list (`SavedIsBanned`) and never leaves the disk, since the list only
  grows between restarts and a restart reads it back.

`SpecDecodeProofs` proves for every vocabulary, end-of-text set, target, prompt
set, `MaxNew`, `K` and `TreeSize` (`SpecDecodeAssumption`; hypothesis `TargetSpeaks`, that
the target says tokens):

* `SpeculationIsGreedy`: `SpecDecode` implements `GreedyDecode`. The inductive
  invariant says of every committed token not shown yet that it is what the
  target says after the text before it. Verification preserves it because a
  position's answer depends only on the KV up to there, and up to the last
  accepted draft the KV is the text (`PrefixOfConcat`, `ConcatOfAppend`). For a
  tree, the tokens of the accepted branch take the place of the line
  (`BranchCommitted`), and `CommittedIsGreedy` is the same argument on them;
* `KvsCorrect` and `TypeCorrect`, from the same invariant.

`RelayProofs` proves for every set of nodes, links and dials and every fault
(`RelayAssumption`: `None` is no node or link):

* `TableCorrect`: inductive with the types, because a thread takes its node off
  the table only if the table still holds its own connection;
* `NoMeetingIsMissed` and `ListCorrect` need more. `Listed`: a dial is on the
  list from before it is signalled until its data connection comes or it gives
  up. `Signalled`: a signal lies on one link only, and only for a dial that has
  passed the signalling step and has no data connection, so a dial is answered
  at most once. `Sockets`: the socket of a finished dial is closed unless it was
  paired;
* `TypeCorrect`: rests on `TableCorrect`, since the link a dial finds in the
  table is one whose node is known.

`EntryCorrect` and `PrefixesCorrect` (in `MeshRegistryProofs`) say the same of
orchestrators: the entry load counts sessions exactly, by the argument of
`MovesKeepAccount`; prefixes of running orchestrators differ, because each was
taken from a counter that only grows and that a restart reads back. The latter
needs hypothesis `NoWrap`: the counter has not wrapped at 2^15 and every save
succeeds.

`PinsCorrect`, in the same module, is the action property `WarmPinsSurvive`: of
all steps only the two forms of `acquire_route` write a pin, and a re-acquire
copies those that still serve.

`LayerPlanProofs` proves what the planners compute for every number of layers,
every fleet and all weights (`NoneAssumption`: `None` is no number). A sum over a
function and the loop `Raised` are recursive functions, so what they compute is
proved by induction, for which a set of numbers stands: a set that has 0 and,
with each number, the next one, is all of them (`Induction`, from the least
element of a set of naturals). A recursive definition is first shown to have a
value that satisfies its own equation (`SumsExist`, `MovesExist`), then
unfolded one step at a time (`SumOfMore`).

* `WeightedSplitsAddUp`: the floors of the shares lack fewer layers than there
  are stages (`RoundedAddsUp`); while a slice is empty, some other has two
  layers to spare one (`SomebodyCanSpare`), so each move leaves one empty slice
  less (`StealHelps`), and ten moves per stage are more than enough
  (`RaisedFillsAll`). A move never takes a slice above its share by a layer
  (`StealIsFair`), since it adds only to an empty one;
* `CoversIsStaffable`: sorted demands lie under sorted capacities exactly when
  for every value at least as many machines as demands reach it (`CoversIsReach`,
  by `LargestIsThreshold`), and that is when there is an assignment: give the
  largest demand the largest machine and go on with the rest (`ServeOneMore`,
  `DominatedIsServed`), the exchange argument behind the greedy match;
* `LayoutsTile`: whichever way the layers are cut, what the constructor lets
  through lies in a row from the coordinator's slice to the last layer; for a
  layout string the slots are also its ranges (`CatalogSplit`).

`NodeAgentProofs` proves for every number of machines and control planes, every
plan and every setting (`AgentAssumption`: workers and orchestrators are
different, only workers have capacities, settings name planes that exist, plans
are finite and made of integers, `None` is no layout) one inductive invariant,
`IInv`, and from it, with the planners' theorems, every safety property of the run:

* `ListedCorrect`: `ListedForWhatItServes`, of the active control plane always and
  of standbys where no post gets lost. Inductive only with the standbys'
  part made precise (`ListedRight`, `Told`): a warm-up tells the standbys one
  after the other, so a plane the process has not reached yet may list its
  previous life, and a plane that is down lists nobody (`DownIsEmpty`), which is
  why a crash does no harm;
* `SlicesCorrect`: `SlicesAreVerified`, from `RejectedAreReplaced`: a wrong slice
  is on the disk only between download and the end of local slicing, under the
  slot the process was given; it is about settings without "unchecked", "kill" and
  "slicefail", as the property is;
* `PrefixesCorrect`: `OrchestratorsAreApart`, about prefixes of the same plane, from `PrefixesHandedOut`: a prefix
  was handed out by the plane it names, so it is below that plane's persisted
  counter, and nobody else has it;
* `TypesCorrect`: from `IInv` and `LayoutsTile`;
* `SplitsCorrect` and `FewestCorrect`: a layout never changes (`FixedCounted`), so
  `SplitsTile` is `LayoutsTile`, and `PlanIsFewest` is `CoversIsStaffable` at every
  number of stages the planner looked at (`FewestOrNone`);
* `StaffedCorrect`: `PlannedFleetsAreStaffed`. That all slots are staffed once
  everybody is registered is not inductive: what each step must keep is that the
  places still wanted (`Wanted`: a slot and a replica beyond the machines it has)
  never outnumber the machines that hold none (`Vacant`), `Suffices`. A machine
  that leaves frees itself and at most one place (`Leaving`). One that comes
  takes a slot with the fewest machines, so if anything is wanted it takes a
  wanted place (`Entering`), which is why joining machines must be counted. The
  planner's choice makes it true at the start (`FleetFacts`). A re-registration
  after a death is such a leaving and coming in one step; that no running
  machine is listed elsewhere (`PlacedAreTaken`) and nobody outside the fleet
  runs (`OnlyFleet`) complete the invariant, `Staffing`.

`PipelineSessionProofs` and `PipelineExactProofs` prove for
every pipeline, every set of sessions and prompts, every draft length and number
of failovers (`SessionAssumption`: prompts are not empty, `None` is none of the
values it stands beside, a chain has two holders as in the model):

* `TypeCorrect`: with the types go the agreements the rest needs, such as a late
  forward that belongs to a live process;
* `RoutesCorrect`: `RoutesAreReleased`. Needs `NothingKept`: without "keep"
  requests no session is held for a resume. The property leaves out settings
  where an orchestrator dies or is replaced, which leaves its pins behind;
* `GreedyCorrect`: `GreedyIsExact`. The invariant says of each stage the
  coordinator relies on (`Relied`: the pass has been there, or continues a
  history) that either its socket is dead, so that the pass will fail there
  (`Cut`), or it is open and the KV behind it holds the history, with the batch
  if the pass has been there (`Expected`). What a crash or an idle reaper takes
  away is behind a dead socket or in a session that does not run; a reset is
  acted on before the next frame of the same socket. A forward its coordinator has
  given up must not come down on a KV that is relied on (`Lurks`): in a star the
  coordinator drops the socket first. In a chain it cannot, so the theorem has
  hypothesis `NoForwardOutlives`, that no chain has the faults "late" or "drop";
  without these nobody gives up a head that lives. What the code does in the
  other chains is under "Beyond the runs";
* `ReuseCorrect`: `ReuseIsExact`, about settings where at most an orchestrator is
  replaced between requests (`Calm`). While nobody dies no pass fails
  (`Quiet`), and the KV of each session lies along its pinned route: the history
  of the running one (`RunInPlace`), the prompt of the warm one (`WarmInPlace`),
  the sequence of a resume state (`KeptInPlace`). These are different sessions
  (`Apart`), and the control plane still has the pins (`Remembered`). A draft's
  history begins with its prompt (`DraftStands`), so what a roll-back leaves is
  that prompt. Hypothesis `NoDraftingChain`: roll-backs reach only the head of a
  chain, the finding of `session_rollback`.

`StaticPipelineProofs` proves for every set of requests, prompts and caps, any
number of stages, lanes, rows and deaths, every target and every fault
(`StaticAssumption`: lanes are numbered from 1, `Junk` is no history, `None` no
KV, channel or job, prompts may be anything but empty):

* `TypeCorrect`: a request has one lane exactly while it runs (`OneLane`), a lane
  is lent, idle or not made yet (`LanesTyped`), and ids do not run out because
  each is given to a request that waited and never waits again (`IdsTyped`);
* `RowsCorrect`: the refinement `RowsAreGreedy`, per request, step by step: a
  step that shows a token is a step of greedy decoding, finishing is its end, and
  every other step stutters. The invariant `InOrder` says that a socket carries
  frees of ids that are over and, last, the question of the pass or its answer
  (`ChannelInOrder`); that a stage the pass has been at holds the rows'
  histories and one ahead of it all but their last tokens (`KvInOrder`); and that
  a row's history is its prompt and what its client was given, until nothing
  more is to be shown (`RowInOrder`). It holds in settings other than batches
  with hanging stages (`Exact`), where the property promises nothing;
* `KvCorrect`: `KvIsOfTheRunning`. `Accounted` is the property itself; that it is
  inductive needs that all sockets are open (`AllUp`), so that each end of a job
  reaches each stage, and `InOrder`, by which a stage that runs a frame runs it
  for a job under way;
* `FailuresCorrect`: `FailuresAreBounded`. What does not grow except by a death
  is the number of failed requests and of lanes with a closed socket together
  (`Failed`, `Broken`): a request fails only on a broken lane, which is given up
  with it, and a death breaks each lane at most once.

Every safety property and every refinement the passing runs check is the
statement of a theorem, six of them under a hypothesis on the settings or the
target that is named above (`NoWrap`, `NoForwardOutlives`, `NoDraftingChain`,
`TargetSpeaks`). Only model-checked: the liveness properties
(`SilentNodesLeaveRouting`, `RequestsEnd` of both data planes,
`AbandonedKvIsFreed`, `Terminates`, `GoAheadIsKept`, `ServingNodesAreRouted`),
because liveness under fairness and ENABLED are out of the prover's reach, and
the findings.

## Plan

1. `MeshTopology`, `MeshRegistry` and their proofs: done.
2. `PipelineSession` with star, chain, late holders and leaving clients, and its
   proofs: done. To prove next: what is true of a chain that drafts, or whose
   head may forward without its coordinator, as a weaker property of its own.
3. `GreedyDecode`, `SpecDecode` and their proofs: done.
4. `Relay` and its proofs: done. To add: composition with `NodeAgent` for a
   worker behind a router.
5. `LayerPlan`, `NodeAgent` and the proofs about the machines that join: done.
   The planners are proved too (`LayerPlanProofs`).
6. `StaticPipeline` and its proofs: done.

## Not modelled

* Earnings, wallets and settlement (`registry.py:338-393`): counters next to the
  modelled state, read by no modelled decision; each is one addition under the
  registry's lock.
* The latency matrix, the RTT probe and the order it gives holders of equal
  trust: any of them may be taken in the models.
* The sticky failover of a route between control planes
  (`ControlEndpoints.post`): a standby has no pins, so a session that fails over
  to one is, to the models, a session whose control plane restarted.
* Batching combined with a mesh: `_relay_batch` visits static stages only, and a
  coordinator with both has none to visit.
* The stage a coordinator may hold itself: it has no socket and fails with it.
* The on-chain program: no code under `engine/` reads or writes it, and each
  instruction is one assignment to one account.
* The EAGLE head: a draft may propose anything in the models.
* Numerics (layers, tensors, draft networks, cosine thresholds),
  encryption and framing, signature checks, HTTP and shell scripts.
