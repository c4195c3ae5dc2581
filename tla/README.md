# HKL-1: TLA+ models, checks and proofs

This directory holds TLA+ modules for HKL-1/HKL-2, the TLC configurations that
check them on small instances, and TLAPS proofs of the theorems that hold for every
instance. Paths below are relative to the repository (`src/...` is its crate).

Run `tlc -config X.cfg M.tla` for the configuration `X` of module `M` in the table of
section 4, and `tlapm M_proofs.tla` for the proofs. `PROJECT.json` lists the
components, the runs, the mutated definitions that each property has been seen to
reject, the code lines behind every definition, the hazards, the findings and the
theorems.

1. The system
2. The modules
3. How the code became a model
4. What is checked
5. Bounds and fairness
6. What is proved
7. Known divergences
8. Not modelled, and why

## 1. The system

HKL-1 is a bare-metal, `no_std` spiking-network engine. One main loop
(`boot::run_main_loop`) calls `Network::step`, then the power manager, the emergency
checks and the idle decision; interrupt handlers hand it spikes and pending flags.
A step may end in a predictive cycle, which runs fifty more steps of the same
network under a time warp and then puts neurons and synapses back. The `hkl2`
feature adds a spiking language model, hosted training, a decision pipeline that
supervises it, and a network API. The embedded build has one core and no threads:
what runs concurrently is the main loop, interrupt handlers that preempt it and each
other by NVIC level, the flash and the power supply. The hosted build has a thread
per connection.

| component | state | operations | talks to | what is hard |
|---|---|---|---|---|
| spike queue | ring, three indices | reserve, write, commit, pop | handlers and encoders push, `process_sensory_input` drains | preemption inside a push, the full ring, the last spike |
| OTA | metadata words in flash, two banks, manager in RAM | init, check_rollback, stage, apply, confirm | boot, soft reset, flash | power loss between words; RAM against flash |
| persistence | three RAM slots, flash copy, clock-derived key | save, load, verify, rollback, reset, commit | boot, maintenance, emergency | torn commits, rotation under rollback, key drift |
| main loop, power | time, cooldown, warp, snapshot, battery, mode, domains | turn, step, simulation, update, idle | everything | a simulation inside a step; who writes the energy level |
| pools | synapse arrays, free pool, lists | create, destroy, prune, grow, capture, restore | network | the free pool against the array, the snapshot |
| learning rules | weight, traces, rates, factor | pairing, reward, scaling, senescence, protection | network | signs, units, saturation |
| workspace, attention, reflexes | frame, focus, dwell, override | submit, ignite, attend, check | network, actor | who wins; an override across steps |
| foresight, hormones, bio modules, temporal, episodic memory, body model | small tables and levels | once per step or per period | network | what they are really fed |
| clock | pending flags, tick counters, warp, dream | SysTick, tick, warp, ask | main loop | merged interrupts, two clocks |
| decision pipeline, readiness | none (functions) | guard, decide, plan, preview, audit, gate; scenario suite | trainer's report, signals | a stage that forgets an earlier verdict |
| episode | streak, counters, flags | preview_cycle, record, status | training loop | saturation, finality |
| training run | epoch, pools, batches, best, checkpoint files | run_epoch, evaluate, save, resume | files | short batches, torn files |
| service | connections, buffers, one model behind a lock | read, decode, train, evaluate, stream | threads, language model | interleaving, packets in pieces, stateful neurons |
| mesh | peers, routes, reconnect queue | heartbeat, discover, fail over, prune, reconnect | cluster manager | loss, delay, full tables |
| gossip, consensus, federation | queue, proposals, submissions | receive, process, vote, finalise, average | mesh, service | echoes, ballots without voters, reliability |
| devices | buses, motor outputs, encoders | poll, read, drive, encode | main loop | an answer after the time-out |
| telemetry, monitors | rings, causal graph, parity, watchdog | record, analyse, verify, correct | none decide on it | limits, wrong corrections |
| arithmetic | none | fixed-point operators and curves | all | widths, signs, rounding |

Section 8 lists the parts that are left out. What makes each component correct is
what section 4 states of it.

## 2. The modules

Every module that models code holds its state, an initial predicate, an action per
operation and its properties. `MC*` modules give a module its instance, or put
several modules that share no variable next to each other: a variable `part`, fixed
in the first state, says which of them a behaviour drives, so that one run asks the
questions of all of them without multiplying their states. Their constants are
parameters with assumptions of their own, given values in the `.cfg`, so that a
theorem about an `MC` module's specification is about every instance.

| module | what it models | code |
|---|---|---|
| `SpikeFifo` | what the spike queue promises | `io/buffers.rs` seen from outside |
| `SpikeQueue` | ring, producers and consumer, one load or store per step | `io/buffers.rs`, `io/isr.rs`, `snn/network.rs` |
| `Ota` | two-bank update, word by word | `system/ota.rs`, `system/boot.rs` |
| `MainLoop` | a turn, a step's periods, the predictive cycle; battery, modes, operating points, domains, idling | `system/{boot,power,persistence}.rs`, `snn/network.rs` |
| `Persistence` | save slots, flash copy, encryption | `system/persistence.rs` |
| `SynapsePool` | synapse array, pruning, growth, snapshot | `snn/synapse.rs`, `snn/neurogenesis.rs`, `system/persistence.rs` |
| `SynapseStore` | the pool with per-neuron lists | `core/memory.rs` |
| `WeightLife` | a weight under pairing, scaling, senescence; the other rule set with calcium and plateaus | `snn/synapse.rs`, `snn/neurogenesis.rs`, `snn/plasticity.rs` |
| `Homeostasis` | scaling factor, protected optima, tuning | `snn/homeostasis.rs`, `cognitive/continual.rs` |
| `Training` | epochs, pools, batches, checkpoint files | `training/{run,checkpoint,data_loader,dataset}.rs` |
| `Episodic` | short and long store, recall, hippocampus | `cognitive/episodic.rs`, `bio/hippocampus.rs` |
| `Workspace` | ignition, override, reflexes | `cognitive/{global_workspace,reflex_override}.rs`, `safety/reflexes.rs` |
| `Attention` | saliency, focus, gain | `cognitive/attention.rs` |
| `Foresight` | prototypes, prediction, hypotheses, values | `cognitive/{actor,predictor}.rs`, `snn/network.rs` |
| `Hormones` | neuromodulators, entropy and cognitive mode | `cognitive/{networks,neuromodulation}.rs`, `core/entropy.rs` |
| `BioModules` | thalamus, striosomes, astrocytes, cerebellum | `bio/*.rs` |
| `Temporal` | event log, patterns, time cells, timer | `cognitive/temporal.rs` |
| `Proprioception` | efference copies, corrections | `cognitive/proprioception.rs` |
| `Clock` | flags, metabolic clock, warp, dreaming | `core/time.rs`, `io/isr.rs`, `cognitive/curiosity.rs`, `safety/entropy_monitor.rs` |
| `Devices` | buses with time-outs, motors; encoders | `io/{sensors,actuators,encoder}.rs` |
| `FixedPoint` | arithmetic with its widths | `core/math.rs` |
| `Telemetry` | trace ring, causal graph | `telemetry/{spike_trace,xai}.rs` |
| `Resilience` | error correction, migration, watchdog | `safety/hardware_resilience.rs`, `system/watchdog.rs` |
| `Cognition` | the decision pipeline and the readiness suite, as functions | `training/monitor.rs`, `cognition/*.rs` |
| `Episode` (extends `Cognition`) | the supervised training loop | `cognition/{episode,supervisor}.rs`, `examples/hkl2_training_loop.rs` |
| `Transformer` | the spiking language model, as functions with neuron state | `transformer/*.rs`, `embedding/spike_embedding.rs`, `training/trainer.rs` |
| `Service` (extends `Transformer`) | connections over one shared model | `api/{server,protocol,cortex_service}.rs` |
| `Mesh` | peer, route and reconnect tables | `swarm/mesh.rs`, `api/swarm_cluster.rs` |
| `Gossip` | gossip and remote spikes | `swarm/mesh.rs` |
| `Consensus` | proposals, ballots, observations | `swarm/mesh.rs` |
| `Federation` | federated rounds | `swarm/federated.rs`, `api/swarm_cluster.rs` |
| `MCEpisode` | `SpikeQueue` (by `MCSpikeQueue`) beside `Episode` | |
| `MCDevice` | `Ota` beside `MainLoop` | |
| `MCLearning` | `SynapsePool`, `SynapseStore`, `WeightLife`, `Homeostasis`, `Training`, `Episodic` | |
| `MCMind` | `Service`, `Workspace`, `Attention`, `Foresight`, `Hormones`, `BioModules`, `Temporal` | |
| `MCMachine` | `Persistence`, `Clock`, `Devices`, `FixedPoint`, `Telemetry`, `Resilience`, `Proprioception` | |
| `MCSwarm` | `Mesh`, `Gossip`, `Consensus`, `Federation` | |
| `MCSpikeQueue` | an instance of `SpikeQueue` | |
| `*_proofs` | theorems, one module per module of a run | |

## 3. How the code became a model

An action is a whole method, with everything it calls that changes state. Where the
code loops, draws a random number or lets an outside value decide, the action
chooses. Numbers that are only compared are graded by the thresholds they are
compared with; numbers whose arithmetic matters are integers at a coarser scale
(percents, tenths, quarters, each named in its module). Periods are divided down
and keep their order and divisibility. A definition whose comment begins with
*Mutated form of* is a wrong version, kept to show that a property notices it; no
specification uses it.

**Spike queue.** A *context* is the main loop or an interrupt handler. A push is
`BeginPush` (load `write_idx`), `Reserve` (load `read_idx`, refuse when full),
`Fill`, `BeginCommit` (load `write_idx` again), `Publish`, `Retire`; a pop is `Take`
and `Release`. `Runs(c)` is the scheduling of one core: a context executes only if
all unfinished ones are less urgent, that is, preempted by it. A slot returns to
`Stale` when its spike is released, so that reading an unpublished slot shows.

**Firmware update.** `bank` and `meta` are flash and survive; `ota`, `phase`,
`saving` are RAM. `save_metadata` is a list of words still to be written, so
`PowerLoss` can leave any prefix of them. Two things are idealised. No code selects
the boot bank, so the model boots the bank the metadata names, as
`trigger_soft_reset` expects. And a metadata word reads back as written, although
`save_metadata` programs words without erasing their sector: the model is of builds
without the `flash` feature. With it every save of the persistence manager, the one
in `apply_update` included, erases the sector the metadata is in (section 7).
`AbandonStage` assumes that at least one sector was erased.

**Main loop.** What the network holds is only *lived* or *dreamt*. The sensory
drain is `SpikeQueue`'s, ignition and reflexes are `Workspace`'s, the reading of the
flags is `Clock`'s: each module takes the view of the step that its properties need.
Time is kept modulo `Horizon`, a multiple of every period.

**Persistence.** A dump is a record of what `verify_dump` can tell: magic, whether
body and checksum agree, and the clock value it was encrypted under. `features` is
chosen once (`flash`, `encryption`: four builds). A commit erases one sector of
64 KB, which holds the header, and programs the whole dump, about 3 MB: a payload
programmed over an earlier one reads back as it was written or, as programming only
clears bits, as `Junk` (`ReadsBack`). `committed` and `torn` are history. Decrypting
under another clock value yields `Junk`; collisions of the 32-bit
checksum are left out.

**Synapses.** `SynapsePool` is the array of the running network. Its free pool keeps
the last freed id and a count; `free_pool_pop` goes on to the next id, whatever that
is. `doubt` is history: it records that the free pool no longer expresses what is
free (two ids freed at once, a simulation that touched it, a full array).
`SynapseStore` is the other pool, in `core/memory.rs`, whose callers destroy only
what they created. `WeightLife` follows a single synapse.

**Mind.** `Hormones`, `BioModules`, `Foresight` and `Episodic` are fed what the
network really feeds them, which is often a constant: a histogram nobody samples,
rates that only maintenance moves, potentials that were put back before they are
read. What must hold of them whatever they are fed is a property of a run; what
comes of the present feeding is stated apart in their modules, under *What a finding
rests on*, and proved, not claimed as intended (sections 6 and 7). `Homeostasis`,
`Resilience`, `Proprioception`, the second rule set of `WeightLife` and the writing of
reflex rules have no caller in the program: there calls come in any order, or the
rules are a constant.

**Decisions.** `Cognition` has one operator per stage, a translation of one
function, over values graded by thresholds (0 none, 1 within the policy, 2 beyond
it). Ticks are exact, because the planner's budget clamp is about ticks. The example
breaks off on Stop; `Episode` asks the runner again, since the API allows it and
`StopIsFinal` is about that. The suite of the readiness report is one of a few that
differ in one scenario each.

**Service.** A packet is one or two units that TCP delivers in pieces of any size;
the shared model is a `Transformer` of two dimensions whose neurons keep their
potentials between calls. Training moves weights by a choice. JSON and payload
encodings are left out.

**Swarm.** Tables are functions keyed by peer; time is what it decides (silent, due,
old). Messages may be lost (no receipt), late or repeated (a receipt at any moment).
`Consensus` marks with history what each ballot was meant for, because a proposal is
known to voters by an id that others may come to share. A node's table of observed
types has room for fewer kinds than there are, so `Observe` may leave `seen` as it is
and count the observation all the same (`observed`). What the gossip filter keeps is
the queue without its old entries: `Kept` are the increasing maps into their places.

## 4. What is checked

Six runs hold, six find a violation of what the repository says. Next to each
property is the question it answers.

`device` (`MCDevice`): the board, update and main loop.
- `StagingSparesBootBank`, `FallbackIsWhole`, `SwitchDecided`: at any power loss a reset
  boots the bank that is not being erased, the bank to fall back to is whole, and
  the main loop runs only with the switch settled.
- `UpdateSettles`: with startable images no chain of switches, rollbacks and
  interrupted saves is endless.
- `TurnsArePaced`: types; every domain at its operating point; the loop never
  sleeps; each step sees the battery's level. The last two contradict comments
  (section 7).
- `NoSimulationLeaks`: between cycles the network is lived, unwarped, uninhibited.
  What is read or kept *during* a simulation is the question of `dream_saved`.
- `LayersWake`: layers silenced for energy wake up in normal mode.

`episode` (`MCEpisode`): what goes in, and whether it may be learnt from.
- `NoStalePublished`: with producers of one interrupt level the consumer never meets a
  slot nobody wrote.
- `ImplementsFifo`: the ring implements `SpikeFifo` under the refinement mapping
  `Queue` (slots from `read_idx` up to `write_idx`).
- `PublishedIsDelivered`: the drain leaves no published spike behind.
- `CyclesAreGuarded`: over every sequence of samples the model is trained only on one
  that every stage let through, under a suite whose scenarios all did what was
  expected of them, by a plan cut only at its end and within its ticks.
- `QuarantineMatchesStreak`, `StopIsFinal`, `TroubleEnds`: quarantine is exactly the
  streak limit; Stop is for good; lasting trouble stops.

`swarm` (`MCSwarm`): between nodes.
- `TablesAgree`: types, no active route through a peer that is down, every peer that
  is down is queued or was given up for a reason. `QueueDrains`: no peer holds a place
  in the queue for ever.
- `VotesAreHonest`: counts are the ballots meant for their proposal; what passes was
  backed by another node, unless its proposer voted twice or the counters of
  observations made it.
- `PeersAreContained`: every rumour leaves the queue, however often echoed; an average
  lies between what it averages.

`learning` (`MCLearning`)
- `PoolIsSound`: while the free pool expresses what is free, growth spares live
  synapses and joins no pair twice.
- `SlotsAreExclusive`: a slot of the store is in use or free, and free once, until
  `prune_below_threshold` meets a slot `init` left unwritten.
- `WeightsFollowRules`: a presynaptic spike never strengthens and a postsynaptic never
  weakens; no maintenance turns an excitatory synapse into an inhibitory one, as a
  weight that leaves its type saturates; the rules of `plasticity.rs` learn from pairs
  of spikes only.
- `BalanceHolds`: a window counts no more spikes than it has steps; a protected pair
  keeps its first optimum.
- `TrainingHolds`: an epoch uses every sample exactly once; the best model, once
  saved, stays in its file for two more epochs whatever saves fail, and is never
  replaced there by a worse one.
- `MemoryHolds`: one experience takes no more of the long-term store than
  `max_consolidations` places, and while there is room nothing consolidated is lost.

`mind` (`MCMind`)
- `StepsAreCounted` (no two training answers name one step), `EvalIsIsolated` (an
  evaluation depends on weights and data, not on what others streamed),
  `WholeIsAnswered` (a packet that is whole in the buffer is not let go unanswered,
  unless its client leaves).
- `SafetyPrevails`, `OverrideNeedsQuiet`: the safety specialist wins whenever it is
  submitted; a reflex is overruled only after (MinDwell - 1) attention periods without
  a broadcast.
- `FocusIsInhabited`: a focus chosen for its activity attends its neuron.
- `CyclesAreLearnt`: a predictive cycle is learnt by one prototype, and by one only,
  until a bank is full.
- `SignalsAreFlat`: how far hormones leave their ranges, for prediction errors of any
  size, and what the bio modules can tell apart.
- `TimeIsKept`: patterns are what was seen again; the timer fires when due.

`machine` (`MCMachine`)
- `SlotsAreSound`, `RestoredIsNewest`: nothing restored is junk, the slots are
  different captures newest first; a boot brings back what the last commit was begun
  with or a fresh network, never an older one, and whatever of a commit reads back.
- `TimeHolds`: no tick is counted twice, all rates lose the same; time stands still
  in a dream; a dream once asked for never ends.
- `SensingHolds`: a reading is another register's only after a time-out; two
  announcements in a row differ and neurons tell their sensors; one slot and one
  correction at a time in the body model.
- `ArithmeticHolds`: exponential, sigmoid, tanh and sine keep to their ranges, root and
  logarithm rise; the plain and the unrolled sums agree unless an order of adding
  saturates.
- `RecordIsTrue`: newest spikes kept, bursts real, paths are chains, edges true.
- `MonitorsHold`: which single upset a correction heals; how the watchdog climbs;
  a synapse is moved once.

The violated runs:
- `spike_nested`: docs/io.md calls the queue multi-producer, lock-free and ISR-safe.
  With handlers of different levels two pushes share a slot and publish two.
- `ota_candidate`: docs/system.md says `check_for_update` validates the candidate's
  CRC32; it compares a status. A staging interrupted over an older staged image is
  switched to.
- `flash_commit` (`CommittedIsRestored`): docs/system.md says that a commit is written
  and the latest valid slot restored on boot. The first boot commits a fresh network;
  every later payload is programmed over it beyond one erased sector and need not read
  back.
- `dream_saved` (`DreamsStayInside`): `activate_warp` says it disables actor output. The
  motor outputs are read and the periodic save is made inside a simulation too.
- `best_lost` (`BestIsPersisted`): `training/run.rs` says it persists the best
  checkpoint. A failing write over the file of a best three epochs old leaves none.
- `pools_panic`: a test says metabolic maintenance does not panic. `neurogenesis`
  runs its neuron index up to the number of synapses and leaves the arrays.

## 5. Bounds and fairness

Every bound is a constant with a comment `bound` in its module; its value is in the
`.cfg`, or, for modules instantiated inside an `MC` module, in the `INSTANCE`.

| run | instance | why it is enough |
|---|---|---|
| `spike_nested` | ring of 4, 1 spike, TIM2, ADC, EXTI0, encoders | one push inside another and the drain |
| `device` | 2 images that start and a dud, 3 losses; periods 3, 6, 24, 48, rests 12 and 18, 3 simulated steps | a loss in a staging, a switch and a rollback each; every period falls into a simulation or not |
| `episode` | ring of 4, 2 spikes, EXTI0 and EXTI1; budgets 2 and 12, limits 0, 2, 3, counters to 3 | full, empty and wrapped are apart, two spikes tell reordering from loss; 2 leaves only the safety check, 12 ends inside a step; 0 is normalised, 3 saturates |
| `swarm` | 3 peers, 2 places, 1 route, 1 queue place, 1 retry; 2 messages, life 2, skew 1; 2 proposals on 2 ids; weights -3 and 2 | replacement, a full queue, the last retry; an echo may look older or younger; ids are reused and shared; rounding on both sides of zero |
| `learning` | array of 4 slots, 2 neurons, overrun 1; store of 3; 12 tokens in pools of 3, batches of 2, 4 epochs; long store of 5 | more synapses than neurons as in the code; both kinds of short batch; a file slot is reused; the long store fills |
| `mind` | 2 clients, 3 requests, buffer of 2, 3 tokens, width 2; levels 0, 40, 80, 100; periods 2, 6, dwell 3 and 5; errors 0 and 400 percent | split and joined packets, the neurons come to a dozen states and predict every token; ends and thresholds; a shift of focus before the override is reached; an error beyond what a level can be |
| `machine` | 5 saves, 2 clock values, 4 builds; 8 fraction bits; rings of 2 to 5 entries | three slots fill, rotate and roll back; every ring wraps |
| `ota_candidate` | as `device`, `Ota` alone | one interrupted staging over a staged image |
| `flash_commit` | 3 captures, 1 learnt state | one for the boot, one over it, one to boot with |
| `dream_saved` | as `device`, no power loss | one simulation |
| `best_lost` | 4 epochs, 5 tokens | the file of epoch 1 comes round |
| `pools_panic` | 3 pairs, 4 slots, 2 neurons | a third synapse |

Deadlock is checked except in `learning`, `mind`, `machine` and `best_lost`, where
counters of steps, time, calls and requests reach their bound and stop. `mind` uses
symmetry of the two clients; its properties are invariants and action properties, no
liveness. On two workers the passing runs take from three quarters of a minute to two and a half minutes and
find 39,000 (`episode`), 294,000 (`device`), 431,000 (`machine`), 444,000 (`learning`),
545,000 (`swarm`) and 509,000 (`mind`) distinct states.

Fairness:
- `SpikeQueue`: strong fairness of the drain's two steps and of the rest of each
  push. A handler may preempt the main loop any number of times, but handlers end
  and the loop runs in between. That no handler starves the loop is an assumption
  about interrupt rates; nothing in the code enforces it.
- `Ota`, `MCDevice`: weak fairness of each step of straight-line code, of the
  watchdog, and of the endless main loop. Nobody has to stage, restart or lose power.
- `Episode`: weak fairness of `Next`: the loop continues while there are samples.
- `Mesh`: `swarm_tick` keeps calling `process_reconnections`, and a retry falls due.
- `Gossip`: the queue is processed again and again, and the clock advances.

## 6. What is proved

A theorem is about the specification of a run, for all values of its constants that
satisfy the named assumptions. Each safety proof follows the same line: an
invariant that implies the property, one step per action, and under it one per
conjunct that the action can disturb. What makes the invariant inductive:

- `SpikeQueue_proofs` (`SlotsAssumption`, `StaleAssumption`, `ContextAssumption`, and
  `OneLevel`): `TypeCorrect`, `NoStaleRead`, `RingIsAFifo`. `NoStalePublished` is not
  inductive: a commit publishes the slot at `write_idx`, so the invariant must know
  that this is the slot the pusher filled. It says that at most one producer is inside
  a push (this needs `OneLevel` and `Runs`), that its pointer and its loaded index are
  the present `write_idx`, that the slot there is filled from `Fill` to `Publish`, and
  that a reserved slot's successor is not `read_idx`. The refinement adds lemmas on
  `Queue`: publishing appends, releasing drops the head, writing outside the published
  slots changes nothing; every step then is an `Accept`, a `Deliver` or a stutter.
- `Device_proofs`, on the specification of `MCDevice`. The updater (`ImageAssumption`):
  `TypeCorrect`, `StagingIsSafe`, `SwitchIsDecided`, `FallbackStaysWhole`. What is left
  to write is a suffix of the word list; on written words RAM and flash agree
  (`Agreement`); `Applying` is found only where a boot will still look at it, `Applied`
  nowhere (`Verdict`); and the bank a half-written switch would fall back to is whole
  (`Whole`). The main loop (`LoopAssumption`): `NothingLeaks`, since during a simulation
  warp and cycle are on, so no second cycle can overwrite the one snapshot, which holds
  lived state (`Contained`); `TurnsStayPaced`, since only the normal mode skips an
  operating point, and powers no more than is powered (`Supplied`), and since the idle
  counter never exceeds the steps since the last multiple of `Work` (`Waking`), which
  needs that a simulation's length is one too and that the limit is not below the
  period: 50, 10 and 10 in the code.
- `Machine_proofs`. On `Persistence` (`StateAssumption`, `BoundAssumption`):
  `SlotsStaySound`, `OnlyTheNewestComesBack`. Stamps fall from slot to slot and never
  exceed the number of saves; flash beyond slot 0 is never written validly; no header
  that verifies vouches for junk; what the payload in flash holds is junk or what the
  last commit was begun with, and without encryption it then verifies (`CommitInv`).
  On `MCMachine`: `TimeIsKept` (`ClockAssumption`): the ticks are at most one ahead of
  the network's steps, so no dream began in the future; lemmas on `\div` and `%` tie each
  counter to the fastest. `SensingIsSound` (`DeviceAssumption`, `EncoderAssumption`,
  `BodyAssumption`): before a time-out a bus is held and a datum on its way only for the
  entry being read (`Calm`); the last value of a field is the last one announced; no
  correction is counted once the cooldown is over. `MonitorsStayTrue`
  (`ResilienceAssumption`): turning a bit of a word turns that bit of the parity, so
  after one upset the block is wrong by that bit or was corrected (`EccInv`); the
  watchdog's count is the run's length modulo the reset; one slot has the weight.
  `RecordStaysTrue` (`TelemetryAssumption`): the length of the ring and what stands in
  it follow from what was logged since it was emptied (`RingInv`), and the graph has one
  edge for a pair (`Graph`). What is read off them is a recursion over the trace or the
  edges: such a function exists step by step (`Iterates`), and each step keeps what is
  true of the prefix seen: the path never returns to a neuron it has left (`Chains`), the
  three kept edges are ahead of all others (`Tops`), no track counts a spike outside its
  five ticks (`Fair`, which needs that time does not run backwards in the ring).
  `BuildsStayAlike` (`WordAssumption`: powers of two are positive, as the provers know
  nothing of `^`), the part of `ArithmeticHolds` about the builds: an accumulator whose
  magnitudes fit never saturates, so it holds the plain sum (`FoldedIsSum`), and the four
  lanes and the rest share out the places (`LanesAddUp`, `RestAddsUp`). `CurvesStayTrue`
  (`CurveAssumption`: ln 2 and the other two factors of the polynomial are within the
  bounds the code's 0.69, 1.57 and 0.59 satisfy, and the word has room for a number
  below two shifted by the octaves of `Limit`, in the code 14): the polynomial lies
  between a half and two and is larger just before the fraction turns negative than just
  after (`PolyBounds`), the quotient by ln 2 never falls and rises by at most two a step
  (`OctavesRise`), so both sides of the middle of an octave are shifted alike and no shift
  wraps (`ShiftFits`), which gives `ExpFallsInOctaves`, a finding; sigmoid and tanh are ratios of no more than one whatever the
  exponential, and the sine's parabola is at most a quarter of the square of pi.
- `Learning_proofs`, on the specification of `MCLearning`. `CreationIsSound`
  (`PoolAssumption`): while `doubt` is empty all live slots lie below the count, the
  waiting id names a dead one among them, and the snapshot says the same of what a
  restore will bring back. `SlotsAreApart` (`StoreAssumption`): links and lists stay
  within the pool, and a slot is on the free list once, exactly if it is not in use.
  `BalanceIsKept` (`HomeAssumption`): no neuron counts more spikes than updates; with
  it `ScalingNeverCalms`, a finding: no rate passes one, which is below the target. `TrainingIsExact`
  (`TrainingAssumption`): the cursor stands between samples, and what lies before it has
  been trained on or waits in the pool (`Underway`); a file changes in the epoch that is
  its own modulo three only, so the best is safe for two; numbers of samples are quotients,
  and lemmas on `\div` tie them to the cursor. `MemoryKeepsItsTraces`
  (`MemoryAssumption`): each valid trace is of an experience of its own and counts at
  least the copies the long-term store has of it (`MemoryInv`), which a transfer keeps
  because the ranks of the worthy places are all different (`RanksAreUsed`); with it
  `MemoryStaysBlind`, a finding: the recursion of CA3 gives zero, as a first cell to
  give more would have no active one before it. `WeightsStayRuled`, from
  `PairingKeepsSign` (`WeightAssumption`: amplitudes and rewards are not negative, so no
  trace is), `MaintenanceTurnsNone` (a product with a factor that is not negative has
  the weight's sign, and the conversion saturates) and `OnlyPairsTeach`
  (`RuleAssumption`: a time of a spike is zero until it is reported). Two findings beside
  it: `PartnerStaysIgnored`, from the same invariant, and `WeightsOnlyGrow`
  (`AgeAssumption`: a maintenance comes after more steps than the silence pruning asks
  for; the largest weight is odd; and `apply_senescence` first takes something, at age
  31 of a million in the code, when doubling has come to the end, at age 14). A synapse
  nobody drives has been silent when pruning first looks at it, so what is left is worth
  the threshold (`Growing`); rates stay at most one, so the scale is two (`ScaleIsTwo`);
  a young weight loses nothing (`YoungKeepAll`), an old one keeps half but for a bit
  (`OldKeepHalf`), which doubling gives back.
- `Mind_proofs`, on the specification of `MCMind`. `SafetyWins` (`LevelAssumption`): the
  safety candidate scores 4510 + 60 risk + 5 pressure, and once the risk passes 0.35
  every other candidate scores less. `OverridesAreLate` (`PeriodAssumption`): each step
  of dwell above the first costs a whole attention period without a broadcast.
  `FocusIsAttended` (`AttentionAssumption`): the peak of a layer that was loud is a
  neuron of that layer, and so is the focus on one. `TimeIsAsRecorded`
  (`TemporalAssumption`): a timer's start is what was asked or zero; a pattern counts
  fewer than the places of its actions in the log, a cardinality that a new entry at
  most raises, and any two patterns differ. `SignalsStayFlat` (`HormoneAssumption`,
  `BioAssumption`): noradrenaline is bounded by the steps since the last calibration and
  the largest error, which is a parameter of any size,
  dopamine and acetylcholine go back to near one after each step (`HormoneInv`); all
  modules read one rate, so every cell of one is ordered after its first (`BioInv`). `ForesightStaysBlind`
  (`ForesightAssumption`), a finding: an action has at most one
  prototype, of no change (`ForesightInv`), since what is learned is read after the
  simulation was undone. Sums and confidences are recursive functions, known by an
  induction (`Counting`, `Iterates`) over the naturals.
- `Swarm_proofs`. On `Mesh` (`MeshAssumption`): `TablesAlwaysAgree`, by cardinalities of
  the tables, the cut of routes whenever a peer goes down, and the fate of each peer
  that is down. On `MCSwarm` (`SwarmAssumption`): `BallotsCount`. `Tallied` says that
  keys and, but for twins, ids tell the open proposals apart and that counts are the
  ballots recorded; pruning keeps a subsequence, for which the maps of `Pruned` are
  counted; with a quorum of two a proposal that passes has a second voter.
  `AveragesStayBetween`, the part of `PeersAreContained` about `Federation`: a sum of
  places is a recursive function (`SumAddsUp`), so whatever bounds the weights that count
  bounds their mean, the mean of the levels' means and the blend (`MeanIsBetween`,
  `BlendsAreBetween`), and the extremes of what was heard are such bounds.
  `PeersStayContained` adds the parts about `Gossip` and `Consensus`: an entry the filter
  keeps is an older copy of one that was there, of which there are no more (`PlacesAreFew`,
  `GossipKeeps`); a proposal has no more ballots than voters and twins, and a kind is not
  observed more often than all are (`CountsInv`).
- `Service_proofs` (`ServiceAssumption`): `StepsAreTheirOwn` and `EvaluationsRepeat`. The
  thread at work has the lock and its copy is the service as it is (`Locked`); step
  numbers told are at most the steps made (`Told`); a grade is a function of the head
  and the data because an evaluation rests the neurons first (`Judged`).
  `WholePacketsAreAnswered`: what is on the way and what is in the buffer are gapless
  pieces of what the client writes (`Chain`), and a thread past its read has a whole
  packet at the head of its buffer (`Tidy`).
- `Episode_proofs` (`EpisodeAssumption`): `TypeCorrect`, `QuarantineIsTheStreak`,
  `StopStays`, `UpdatesAreHealthy`, `CyclesStayGuarded`. The maximum bounds the streak
  and the limit flag is set exactly when it has reached the limit; advice Stop means
  quarantine or a readiness that blocks, both of which last; each stage hands on what
  the guard saw. The ticks used grow from step to step, by an induction that takes the
  least counterexample (`Least`, `Counting`), so the clamp leaves a plan of which only
  the last step may be cut; no suite short of a kind of scenario, or with a mismatch,
  scores enough to be ready (`ReadyShows`).

Only model-checked, with the reason:
- every liveness property (`PublishedIsDelivered`, `UpdateSettles`, `LayersWake`,
  `TroubleEnds`, `QueueDrains`, `EveryRumourDies` in `PeersAreContained`): liveness under
  fairness and `ENABLED` are outside the prover's reach;
- `CyclesAreLearnt`: the sum over all banks of the counts of their prototypes;
- `RootsRise` in `ArithmeticHolds`: that the series of `ln` and eight rounds of Newton's
  method never fall by more than a bit is decided by how each of their products and
  quotients is rounded, number by number.

No module with a theorem reaches a `RECURSIVE` declaration.

## 7. Known divergences

Each is a finding in `PROJECT.json`, or stands under the last heading.

Shown by a violated run: the six of section 4.

Shown by a property that holds although a doc or comment says otherwise:

- No code ever assigns `OtaStatus::Applied`; every update is rolled back at its first
  boot, and the status says that the new bank failed (`SwitchDecided`).
- The zero energy that `check_emergencies` writes is overwritten in the same turn
  (`TurnsArePaced`); the idle counter never passes ten turns, so the processor never
  sleeps (`TurnsArePaced`).
- The cognitive mode stays Stable and noradrenaline may pass one (`SignalsAreFlat`). A
  goal-driven focus takes a time stamp for a neuron (`FocusIsInhabited` is about the
  others).
- Simulated time stands still whatever the factor, and a dream never ends
  (`TimeHolds`). `i2c_error_count` only grows (`SensingHolds`).
  `verify_and_correct` takes the bit's number for the word's (`MonitorsHold`).
- The best checkpoint's slot is known only to the run; the example loads slot 1
  (`TrainingHolds`).

Shown by a theorem about what the code does, which nothing claims it should:

- Synaptic scaling compares rates between 0 and 1 with a target of 10 and doubles
  weights (`WeightsOnlyGrow`); the homeostatic rate is in spikes per update against a
  target in spikes per second (`ScalingNeverCalms`); the rule of `plasticity.rs:213`
  pairs a spike with the other role of its own neuron (`PartnerStaysIgnored`).
- CA3 stays silent, so no ripple starts, and every recorded state hash is that of the
  state looked up (`MemoryStaysBlind`).
- Potentials are put back before they are recorded: every transition learns no
  change (`ForesightStaysBlind`).
- The exponential falls in the middle of each octave (`ExpFallsInOctaves`).

Without a property of their own:

- No actuator is ever driven by the network: `read_motor_outputs`
  (`io/actuators.rs:292`) looks for motor neurons among the first sixteen, all sensory.
  So `driven` in `MainLoop` is what was looked at, and nothing moves in a dream either.
- With the `flash` feature every save erases the sector of the OTA metadata
  (`system/ota.rs:30`, `persistence.rs:371`): slot 0 begins 256 bytes after it. The next
  boot then reads the metadata as erased.
- `ota.rs` gives `FLASH_SR` the address `persistence.rs` gives `FLASH_CR`
  (0x4002_3C0C), and the two disagree on the bits that start an erase and lock.
- A late byte on a bus is taken by the next reader for its own (`io/sensors.rs:314`):
  `SensingHolds` stands until the first wait has given up.
- A full long-term store is never transferred to (`cognitive/episodic.rs:387`): the
  branch that replaces its least entry is dead.
- `migrate_synapse` (`hardware_resilience.rs:172`) checks neither that its source is
  linked nor that its target is free and another slot, and `add_route`
  (`swarm/mesh.rs:324`) not that the next hop is up; `Migrate` and `LearnRoute` take
  that as their callers' contract.
- The runtime gate permits exploration by the action alone (`runtime_gate.rs:137`): a
  plan whose probe was cut away is still recommended as a probe.
- A route that was cut refuses the same peer's next heartbeat at equal hops and signal
  (`swarm/mesh.rs:337`), so a connected peer may have no route.
- Only slot 0 reaches flash, and a torn commit loses all of it
  (`persistence.rs:127` against docs/system.md:100 and 104). With flash a rollback
  overwrites valid J-1 and J-2 by never-written flash and ends in a factory reset.
- `core/memory.rs:242`: `init` initialises one slot only, which is why
  `SlotsAreExclusive` is conditional.
- `telemetry/xai.rs:109`: on a full graph the last edge is relabelled, hence the
  exception in `EdgesAreTrue`.
- A retry marks a peer connected without hearing from it, a removed one too
  (`swarm/mesh.rs:497`); the signal average and the hop count may leave their types.
- docs/architecture.md:141 describes parallel stepping; the workers of `step_parallel`
  spread plasticity only. docs/system.md:77 gives dreaming and crystallisation in the
  reverse order.

## 8. Not modelled, and why

- Audio, vision, language generation, sensory encoders, tokenizer: numerics and
  string merging without control that interleaves or fails.
- Cryptography and text: data; they appear as what they do to a dump.
- Training sources, eFPGA: parsers and generators without state that outlives a call.
- Hardware detection, board support: constants and register access.
- `api/agi_engine.rs`: not declared in `api/mod.rs`, hence not compiled.
- `LIFNeuron::step`, e-prop and surrogate gradients: nothing in the running network
  calls the first; the others are numerics inside a training step, which is a choice.
- Inside modelled components: the generic ring of `io/buffers.rs`, register
  sequences, pulse widths, matrices, reports, trace hashes and wording; `PROJECT.json`
  says per component what is left out.
- Boot's order across components: `get_boot_seed` divides by a clock frequency that is
  set only later. That is one sequential path and stands among the hazards.
