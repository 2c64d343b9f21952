# Formal model of playsrc

playsrc rebuilds Source-engine games for the browser. A Rust simulation,
compiled to WebAssembly, runs in a worker; a TypeScript page feeds it input and
clock samples, draws what it publishes and downloads content; Bun tools build,
profile and deploy it. This directory holds TLA+ models of the parts whose
correctness is a matter of order, time, failure and shared state, the TLC runs
that check them on small instances, and proofs checked by TLAPS.

    tlc -config MCProfileLock.cfg MCProfileLock.tla      # one run
    tlapm ProfileLockProofs.tla                          # the proofs of a module

`PROJECT.json` lists components, runs, mutants (a plausible bug for every
property, which the run must catch), the map from definitions to source lines,
findings, hazards and theorems.

## 1. Inventory

Modelled are the simulation host, the reply mailbox, the worker protocol, the
page's loops and lifecycle, the profile lock, the object acquirer, the replay
session, the entity world and the round rules. "M" marks a module.

**Simulation host** (`packages/runtime/simulation`). M `FixedStepHost`.
State: lifecycle and fault, the clock and the remainder below one tick, staged
commands, pending host frames, publications, and four counters of queued bytes
and batches. Operations: submit, set_paused, set_suspended, observe, pump,
drain_publications, shutdown. It calls the gameplay adapter once per tick and is
called by the WASM entry points. Hard: time arithmetic with a clock that goes
backwards, capacity reserved for a frame and used several adapter calls later,
adapter errors in the middle of a frame. Correct if no time, tick or command is
lost or repeated, limits hold, and output is a gapless tick stream.

**Reply mailbox** (`games/tf2/browser/src/reply-transport.ts`).
M `ReplyTransport`, `ReplyFifo`. State: three atomic words and a ring of slots
in shared memory, the writer's outstanding leases, the reader's position and its
map of envelopes. Two threads without locks, a wrapping 32-bit sequence, control
envelopes that travel by postMessage, `Atomics.waitAsync`, close() at any time.
Correct if it is one FIFO queue, no lease is returned before the copy or twice,
and no wakeup is lost.

**Gameplay worker protocol** (`client.ts`, `gameplay-worker.ts`,
`model-read-ownership.ts`). M `GameplayWorker`. State: the client's pending map,
the next id, model requests waiting for a companion, decoders in progress; the
worker's deferred requests, the reply channel in use and model leases. Hard: id
reuse, a change of the reply channel, deferral during initialization, leases
recycled by a word the page writes, shutdown against decoders. Correct if every
request is answered once, in order, and never from recycled memory.

**Page** (`apps/web/tf2/src/runtime.ts`, `simulation-clock.ts`,
`application-lifecycle.ts`). M `PageSimulation`. State: the generation it plays,
the gate of its frames, clock samples and the step awaited, the publication that
waits and the one being presented, the current operation and where each
replacement stands, the view and its watchdog. Operations: an animation frame, the
page hidden and shown, a map chosen, disconnect, close, answers of the worker, the
watchdog's timer. Hard: all of it is one thread that awaits network, worker and
renderer in a dozen places, and what was read before may be stale after; a
replacement may be superseded at any of them. Correct if what is presented is what
the worker simulates, no tick is lost, no failure is of the page's own making, and
no replacement hangs.

**Headed-profile lock** (`tools/playsrc/src/profile-lock.ts`). M `ProfileLock`.
State: the lock file, the ticket directory, and per process the step it stands
at, its eligibility and its claim. Processes start, time out, abort and crash
between any two file operations. Correct if profiles never run together, a claim
is kept or returned, a live lock is never removed by somebody else, tickets are
served in order and dead ones do not block.

**Object acquirer** (`packages/asset-store/src/browser.ts`).
M `ObjectAcquirer`. State: transfers by identity, the queue, the slots in use,
subscribers with their signals. Requests join, abort, and re-request while an
aborted transfer is still winding down. Correct if there is one transfer per
object, slots are neither lost nor exceeded, and nobody is cancelled by somebody
else.

**Replay session** (`packages/runtime/replay`). M `ReplaySession`,
`RecordedTimeline`. State: the records and their index by tick, checkpoints, the
state under the cursor, the events recorded and delivered, rate, clock remainder
and the discontinuity mark. Operations: open, pause, resume, set_rate, advance,
seek, seek_server_tick, step, snapshot, restore. Hard: one state is reached by
playing, by stepping, by seeking from a checkpoint and by restoring a snapshot;
a call that fails half way must leave the session as it was; rational rates.
Correct if the state at a record is always the one opening computed, events are
handed out once and in order, seeks keep to their work limit and no playing time
is lost.

**Entity world** (`packages/world/entity`, and the round restart of the game's
map runtime). M `EntityWorld`, `PhasedWorld`. State: slots with generations, the
creation order, parents and children, the event queue, relays and timers, the
tick and the revision. Operations: phase() with its commands, enqueue_input(),
the inputs that entities send each other, and the restart, which is two phases
with the queue cleared before them. Hard: entities that remove, move and trigger
each other through delayed events, handles of removed entities in the game's
hands and in the queue, limits reached in the middle of a tick, rollback. Correct
if parents stay a forest, dead handles stay dead, every enabled timer has exactly
one event, and a phase happens as a whole or not at all.

**Round rules** (`games/tf2/rust/src/round.rs` and its callers in the session).
M `RoundRules`, `RoundCycle`. State: the state of the round and its deadline,
waiting for players, the winner, scores, the pending exchange of sides, overtime,
and the timers. Operations: advance() in two halves, what the session does when a
round begins, victories and draws claimed by the objectives, bonus scores, inputs
of the map to timers, clocks and win entities. Hard: many deadlines that fall
together, timers stopped and started by three parties, decisions claimed twice.
Correct if a round is decided once and keeps its winner until the next is
prepared, every timed phase ends and timers keep to their maximum, or to the
times they start with where the map declares more.

**Not modelled yet** (section 6): resource generations of the worker, the derived IndexedDB
cache behind the acquirer, the local object stores, the WASM entry points, the
objectives (control points, flags, payload), the networking codec, the settings
state.

**Left out**: movement, physics, collision, visibility and materials
(floating-point geometry computed in one step, a matter of numeric tests);
combat, equipment and bots (numeric rules whose interplay is fixed by the tick
order); presentation (pictures of published state); file formats (pure parsers);
build, job and release tools other than the lock (sequential programs); hosted
services and infrastructure (a stateless handler, documents and declarations);
CS:S and CS:GO (documents); the vendored MP3 decoder.

How the parts interact: the page samples a clock, queues the sample, and sends
an observe request through the client; the worker dispatches it to WASM, which
stages the command, drives the host and publishes; the reply returns through the
mailbox with a lease on WASM memory. In each tick the gameplay session runs a
phase of the entity world, hands the inputs the map sent to the round rules,
advances them, and restarts the map when they begin a new round. Content reaches the worker through the
acquirer. The profile lock serialises the headed browser runs of the tools.

## 2. Modules

| module | what it is | about |
|---|---|---|
| `FixedStepHost` | host.rs, clock.rs | one action per public operation; pump() is split at its adapter calls |
| `TickStream` | abstract | what the presentation may rely on |
| `ReplyTransport` | reply-transport.ts | one action per access to shared memory |
| `ReplyFifo` | abstract | a bounded queue |
| `GameplayWorker` | client and worker | one action per handler; the mailbox is one queue |
| `PageSimulation` | runtime.ts, simulation-clock.ts, application-lifecycle.ts | one action per stretch of code between two awaits |
| `ProfileLock` | profile-lock.ts | one action per file operation, per process |
| `ObjectAcquirer` | createImmutableObjectAcquirer | one action per call, abort, end of acquire() and settlement |
| `ReplaySession` | session.rs, model.rs | a call is a sequence of steps, one per record, between entry and return |
| `RecordedTimeline` | abstract | a tape, its head, and each event handed out once |
| `EntityWorld` | world.rs, map_runtime.rs | one action per command and per serviced event of a phase |
| `PhasedWorld` | abstract | a world that changes by whole phases |
| `RoundRules` | round.rs, lib.rs | one action per half of advance() and per call |
| `RoundCycle` | abstract | the stages of a round, its winner and the score |
| `FixedStepHostProofs`, `ReplyTransportProofs`, `GameplayWorkerProofs`, `ProfileLockProofs`, `ReplaySessionProofs`, `EntityWorldProofs`, `RoundRulesProofs` | proofs | section 5 |
| `PageProofs` | proofs | of the page, and of the acquirer that fetches the objects of its maps |
| `MC*` | TLC instances | constants and symmetry |

Five abstract specifications say what a component promises to the next one; two
of them carry a composition. `ReplyTransport` implements
`ReplyFifo`, which is why `GameplayWorker` can have one queue in its place, and
`FixedStepHost` implements `TickStream`.

### FixedStepHost

`at` is where pump() stands: "idle", "pump" (between frames) or "frame". Every
other operation takes `&mut self` and waits for "idle". A pump takes the frame
at the front if the worst-case output of all its ticks fits, advances the
adapter tick by tick (each may fail, exceed a limit or return an empty
snapshot), and publishes. The first tick of a frame takes all staged commands.
Time is in grains, the resolution of the binary64 sums, which are exact; the
casts to binary32 go through `Single`, round to nearest, ties to even, over three
binades, enough for values below eight times the significand bound. Byte
payloads are their sizes. Left out: `usize` overflow of the byte counters (which
limits make unreachable), the metrics clock, and interpolation, a function of
the remainder. `shutdown_called` is `lifecycle = "Closed"`. `U64Max` stands for
2^64 - 1; the overflow paths are modelled and reached.

### ReplyTransport

The worker runs to the end of a reply with other worker messages between
replies; the page's loop is at a program counter and its own tasks (an envelope,
close()) run only where the loop awaits. The history variables `copied` and
`recycles` record what happened to a lease. A slot's metadata is its kind and
request id; the format checks of `#decode` are left out.

### GameplayWorker

Channels are sequences: requests, plain replies before "initialized", the
mailbox after. A request's work inside the worker is one success or failure
answer, except for what the protocol turns on: initialize, models with its
companion, shutdown; all others are the kind "request". The model-lease slot is
any free one (the code takes the last freed; the choice does not matter to the
properties). A worker error event is `Abort`. Output formats and generations are
left out.

### PageSimulation

`calls[c]` is where the replacement by the c-th chosen map stands, `teardown` where
disconnect or close does; "simulation" and "presentation" are the places that wait
for a loop. `step` is the generation of the sample with the worker, `presenting`
what #present is busy with. A refusal or fault may come at every await. The worker
is the two generations it holds, with the rules by which it refuses a request as
out of date; that it answers in order is what `GameplayWorker` shows. `watch` is
the watchdog with its time in units; `toggles` and `disturbed` are history, of the
page hidden or shown and of what was under way then, and of a replacement that came
to its end in a teardown. A replacement asks for the last time whether it is still
the current one before it sends its probes (`Initialize`); what follows them
(`Probed`) is done superseded or not, and so is the choice of a team (`Selected`).
A teardown leaves the frames to the gate until the renderer is gone (`Dispose`).
Left out: the pause menu, replacement by URL or a changed video setting, recorded
workloads, the first load; a map is not chosen during a disconnect, nor the page
closed. Simplified: stage() and coverage() are one request, the two discards of one
candidate are one, the two probes of a map are one, the steps in which a candidate's
objects are decoded are one, releasing equipment does not fail. The probes and the
choice of a team only read from the worker: their answers come at any time before
that of a shutdown, which the worker gives last.

Consequences of the code that the model shows. Showing the page during a
replacement sets #paused to false (runtime.ts:6194) though the replacement closed
the gate, so frames step the old generation while its successor is staged, or the
new one before its baseline, which then fails with "Simulation baseline published
gameplay"; a publication of such a step is dropped if the prior map is retained.
During a disconnect the same event sends a step of a generation that the worker
does not have, and the player sees its refusal as a failure for a moment. So it
does without the page being hidden or shown if the disconnect began while a
replacement awaited its probes: the replacement then opens the gate
(runtime.ts:3969) and says "Ready" of a session that is being left, and frames run
until renderer.dispose() has returned. If the choice of a team fails after a map
became ready, the page says "Failed" of a map that is played, unless another map was
chosen meanwhile. A replacement superseded after its activation leaves a generation that was not
initialised (`Abandoned`), and if the replacement after it fails, "Prior map
retained" is said of that one. The properties except these cases by name
(`disturbed`, `Abandoned`) and nothing else.

### ProfileLock

A runner is one acquisition in a process of its own. Every await is a program
counter; the timers and directory watches run tryClaim() while the loop is
suspended (`Handoff`). The scan of the tickets is one step after the directory
was read. An empty lock file older than ten seconds is `Age`, after which its
content is "stale" and its reader fails, as a runner that meets a file
it cannot parse does; only the file of a dead holder is taken away.
`PublishInOrder` is a parameter: whether
tickets become visible in the order of their admission times, which the code
does not guarantee (section 4). Left out: runners that take the file without a
ticket, the EPERM retries on Windows, process-id reuse, several acquisitions of
one process.

### ObjectAcquirer

A transfer is named by the request that created it. acquire() (cache lookup,
fetch, verification, cache write) is one step with a result; "finished" is the
time between that result and the handler that settles the subscribers, in which
requests and aborts can come. A request refused because its descriptor differs
from the one in flight changes nothing and is left out.

### ReplaySession

A call runs to its return (`&mut self`), but its loops over records are taken one
record at a time, so that the properties hold between any two records as well.
Records are drawn from a set, so every source of that many records is opened,
those that are refused too. Time is in grains, a common multiple of the
denominators of the rates. Entities are one slot with a generation and a field.
The history variables record what opening computed and what was handed out. Left
out: byte and size limits, coverage classes, source ranges, arithmetic overflow,
forged snapshots.

### EntityWorld

`world` is the state the next operation finds; an operation is a function from
world to world, and one that returns an error marks the world as failed, after
which the whole phase is rolled back to `start`, the tick included. A phase takes
one command or one event per step. The restart of a round is modelled as the map
runtime does it, with the event queue cleared outside any phase. Delays are in
units, of which several make a tick, and are rounded as in the code. The loops
over targets, actions and definitions are `Folded`, a recursive function, so that
proofs can unfold them. Left out:
transforms and fields, diagnostics, wildcards, templates, classes other than
relays and timers (whose inputs are all there, RefireTime too), random and alternating timers, trigger contacts, and the
wrap of a generation at 2^32.

Three consequences of the code that the model shows and that contradict no
statement of the repository: set_parent checks the depth above the new parent
and below the moved entity separately, so that a hierarchy can become deeper than
the limit and every phase that has to walk it then fails; a loop of inputs without
delay fails every phase that reaches it, by the limit of events per tick; and
an entity of a class that a round restart preserves is removed with a parent that
it does not preserve, and is not spawned again.

### RoundRules

The code keeps the time at which something is due; the model keeps the ticks to
go (`Passed` after them, as the code compares with `now > time`). A tick has four
steps: time passes, the two halves of advance(), and the session's reaction when
a round began. The map's inputs come where the session applies them, before
advance() and at the end of the tick; objectives decide at the end. Players,
contested objectives and flags away from home are chosen freely in every tick.
`stalemate_enabled` and `score_per_round` have their defaults, which nothing in
the program changes, so a draw ends the round and `State::Stalemate` is never
entered. Were it enabled, set_stalemate(), which has no test for a decided round,
could take a decision back. The two clocks of King of the Hill come after the timers
of the map (`Clocks`), and only they follow the inputs of tf_logic_koth. Of a win
reason it matters whether one is given: a victory of a team for no reason is refused.
Left out: respawn waves, announcements, cappers, statistics, restart(), which only
tests call, and configure_waiting(), which a method of Session passes on and nothing
calls.

## 3. Runs

| run | instance | what it shows |
|---|---|---|
| host | 2 ticks per frame, 3 samples, 2 frames, 2 publications, 2 commands of 1 or 2 bytes, u64 of 3, fair pumping and draining | ledgers of time and ticks, commands exactly once and in order, limits, adapter order, `TickStream`, and a pending frame is taken |
| host_reversal_rounding | 3-bit significands | finding 1 |
| mailbox | ring of 2, sequence modulo 4, 5 replies | FIFO, leases, no lost wakeup, close() ends the loop |
| worker | 3 pending, 4 ids, mailbox of 3, 1 lease | order, uniqueness, capacity, lease lifetime; every request is answered and shutdown completes |
| page | 2 maps, 2 times hidden or shown, a queue of 2 samples, a budget of 2, 2 ticks | one generation, no tick lost, no failure of the page's own but by a gate opened too early, replacements end |
| lock_recovery | 3 runners, 2 crashes, tickets in order | exclusion, no theft, order, service |
| lock_stolen | 3 runners, 1 crash, tickets in any order | finding 2 |
| acquirer | 3 requests, 2 objects, 2 priorities, 1 slot | slots, sharing, aborts, urgency; every request is settled |
| replay_session | every source of up to 5 of 5 records, 2 rates | one state per record, seeks bounded, playing time exact, and `RecordedTimeline` |
| replay_cursors | the same | finding 3 |
| entity_world | a timer, a relay, a target; 3 slots, depth 1, 5 queued events, 4 events per tick, 3 phases of 2 commands | forest, handles, timers and relays, and `PhasedWorld` |
| round_rules | an attack with setup, a King of the Hill with a timer of its own, a scripted map; phases of 1 or 2 ticks | every timed phase ends, timers keep their maximum, and `RoundCycle` |

Why the bounds are enough. The host's samples give differences below (a
sample repeated), inside and above the elapsed filter, forwards and backwards; two ticks per frame tell a
frame's first tick from its last; output queues of two reach full and partly
full; a u64 of 3 is exceeded. The mailbox wraps its sequence and, several times,
its ring, and fills; five replies against four sequence values make a stale
sequence visible. The worker needs three pending requests for a model request, its
companion and one that overtakes, and one id more than that for a collision
after the wrap; one lease is enough for it to be recycled while a decoder reads,
two outstanding leases at once are no instance. The page needs two maps for one to
supersede the other, two events to hide it and show it again, a queue of two to
overflow and a budget of two for hiding to cut it in the middle; both limits of the
initial publication are reached with one further attempt; a disconnect meets a
replacement at every await, those of its probes and of the choice of a team too. Three publications that
merge while one is presented are not reached. The lock needs a dead holder and two contenders; with two crashes
a reclaimer can die as well. The acquirer needs a running, a queued, a retiring
and a replacing transfer of the same or other objects. The replay's records make
ticks repeat, skip and fall in one group, an entity is replaced by a new
generation, checkpoints fill and are thinned, and seeks need more records than
their limit. In the entity world every limit is reached, slots are
reused, removal and restart meet queued events, and the timer's own event meets
inputs that move it. In the rounds the waiting time ends in play and in the bonus
time, a timer runs out in setup, in play and during a capture, and the teams
change sides with a score; one tick between deadlines is enough to tell their orders apart, and a score
of one to tell a second victory from the first. Every action is taken in some run.

Deadlock is not checked where the system may stop: the worker after close, a page
whose maps are all chosen and which waits for somebody, a
lock whose runners have all finished, an acquirer whose requests are settled, a
session or a world at the bound of its phases or played time.

**Fairness.** Host: the page's frame loop pumps and drains as long as it runs:
weak fairness of pump, strong of draining, which is enabled only between pumps.
Mailbox: each thread's event loop goes on; nothing is assumed of the
worker sending or the page closing. Worker protocol: both event loops deliver what
was posted, microtasks run, decoders end. Receiving is strongly fair, because it waits
while a decoder reads or a microtask is due. Page: only the timer, while it is set,
fires; nothing is assumed of network, worker or renderer, which may all hang. Lock: a live process takes its next
step (its waits are timers of at most 250 ms), a profile that holds the lock
ends, an empty file grows old; crashes are never fair. Acquirer: acquire() ends.
The code sets no timeout on fetch, so this is an assumption about the network and not about
the code. Round rules: the session advances them in every tick (each step of the
tick is weakly fair); calls, inputs and players are not fair. Replay and entity
world: no fairness, their properties are safety only.

## 4. Findings

1. `host_reversal_rounding`. ROADMAP.md and a test say a clock that goes backwards
   advances exactly to the next tick. `duration_to_next_tick` rounds that
   duration to binary32 before it is added to a binary64 remainder; when it
   rounds down no tick is selected. The model uses three-bit significands; with
   the real types and a 0.015 tick the remainder 0.001 gives 0.99999999 of
   a tick.
2. `lock_stolen`. The comment in the lock says an existing lock is never stolen.
   A ticket's place is a time taken before the ticket is published. If a late ticket
   with an earlier time appears while another runner, already eligible, reclaims
   a dead holder's file, both pass the second look at the file; the first unlinks
   and claims, the second unlinks the claim and claims as well.

3. `replay_cursors`. ROADMAP.md of the replay says that equal cursors have equal
   snapshots. A seek marks a discontinuity in the state under the cursor, the mark
   is part of the canonical snapshot, and playing on to the same record leaves
   none.

## 5. Proofs

All of them hold for every value of the constants that satisfies the named
assumptions, each the weakest the code justifies.

**Host**, from `ConfigurationAssumption` (what `Configuration::new` accepts) and
`ArithmeticAssumption`. `TypeInv` is `TypeOK` together with `PumpLocals`, which
says how pump()'s locals relate to the frame it executes; without it `Advance`
could overrun the frame. Division bounds (`DivBounds`, `SelectionBounds`) give
that the remainder stays below one tick and that a frame never selects more
ticks than the queues were sized for, which the code only debug-asserts. The two
ledgers, command delivery, adapter order and finality are each a step lemma over
`TypeInv`. `QueuesWithinLimits` is not inductive: it needs `Reservation`, that
while a frame runs the room for all its ticks is still free, and
`EmptyOutputCounters`; together they are `LimitsInv`, from which
`EmptyOutputAdmitsAnyFrame`, that backpressure cannot outlive a drain, also
follows, by the inequalities the configuration is checked for.
That the host implements `TickStream` needs `FrameOK`: a frame being executed has
collected one batch per tick, in order, and a snapshot under its own pause
setting. What `Publish` appends is then what `Complete` appends (`PublishedMaps`),
and a frame that a fault abandons is what `Stop` may drop; there is one lemma for
each action of the host that the stream can see.

**Lock**, from `LockAssumption`. The invariant `LockInv` has three parts:
`QueueInv` (admission times are distinct, a published ticket belongs to a live or dead waiter,
and, if tickets appear in order, an eligible runner has only dead tickets before
it), `ClaimInv` (whose claim the file holds) and `ReclaimInv` (a runner about to
unlink still sees the dead holder's file). `ReclaimInv` survives a step of another
runner only if two runners cannot reclaim at once, which is what
`Undisturbed == PublishInOrder \/ MaxCrashes = 0` provides. Under it exclusion,
the return of an overtaken claim and the absence of theft are theorems for any
number of runners; the run `lock_stolen` shows that it cannot be dropped. Order
of service needs `PublishInOrder`.

**Entity world**, from `LimitsAssumption`: `Spec` implements `PhasedWorld` for any
map, limits, inputs and outputs. `PhaseInv` says what a step needs to know of the
phase it is in: between phases the state is the one the game saw last; within one
the tick has not gone back, and a phase that services nothing has only added
events. The lemmas say which operations keep the events.

`TypeOK` and `LinksSound` need `MapAssumption` too, the types of what a map declares
and the game may ask for. The invariant is about worlds: `Good(g)` are the worlds
with the generations g whose parts agree (`Sound`: `Placed`, slots and
order; `Queued`, the queue's limit and numbers; `Owned`, the events an entity queued for
itself; `Linked` and `Parented`, the forest seen from both ends; `Acyclic`). Each
operation leads from `Good(g)` to `Good(g)`; only the end of a phase, which commits
the removals, moves generations on. A loop stays in every set that is
closed under its operation, one lemma per loop, by induction over naturals as a
set; that is why `Good(g)` is a set. The hard cases are set_parent, whose test for
a cycle walks the chain of parents with a limit (`Ancestor`; a cycle that the test lets through
would be a set of entities closed under parents), and spawning, where
children meet parents that do not exist yet. `WorldInv` says what the phase adds: the world it may
return to is sound as well and of the same generations, and dead handles are of
earlier ones; `StageInv` says where a phase and the restart stand.

`TimersAndRelaysArmed` needs the last part of `MapAssumption` as well: an input that
is queued addresses a name (`fire_input`, map_runtime.rs:1872-1876), and none of the
inputs the game sends to an entity is `__timer_fire`. While a phase runs, an operation may leave a
timer or a relay between two events, so the sets of the proof are `Ready(g, X)`: the sound
worlds in which every timer and relay outside X is armed. An operation is described
by whose timing it may touch (`Steps`); each it touches is armed again, joins X or
fails the phase (`Rearmed`). An event that a timer or relay sent itself leaves
`Ready(g, {h})` when it is taken off the queue, and dispatching it restores
`Ready(g, {})` (`ServedReady`). Spawning creates enabled timers that no event fires
yet; `Starting` says which of them are still to be activated (`Late`). `TimingInv`
says where a restart stands: its queue is empty and only preserved entities are left
until the map is spawned again.

**Round rules**: `Spec` implements `RoundCycle` for any map, times and inputs. Each
operator of the rules keeps state, winner and score (`Keeps`), may decide the
round (`Decides`) or prepares the next (`Prepares`), one lemma each. The invariant
`Inv` is needed for the exchange of sides, which happens up to two steps after
the preparation: until then the state is "Preround" or already "TeamWin".

The types of the rules (`TypesHold`) need `MapAssumption`, that the times of a map's
timers, and those its inputs add or set, are numbers. `TypeInv` adds what a timer may hold: no
more than its maximum, or the times it was declared with, which the code does not
compare with it. A time that an input of the map takes away is cut toward zero, as
`as i64` does; with a floor the theorem is false.

**Acquirer**, from `AcquirerAssumption`: `AcquirerTypeOK` and `TransfersAccounted`, for any
number of requests, objects and slots. Every operation changes the tables and then
lets pump() start some of the transfers that wait, so the invariant is a predicate
of the tables: `Listing` (the list by object and the live transfers point at each
other), `Serving` (a request waits exactly while one transfer carries it),
`Outcomes` and `Ordered`. Each operation establishes it for the tables it hands to
pump(), and `PumpKeeps` carries it over. That pump() fills the slots exactly
(`PumpFillsSlots`) is a pigeonhole argument on the number of predecessors of a
transfer, and well-foundedness of strict inclusion for the transfer left first.

**Page**, from `PageAssumption`, for any number of maps, samples, ticks and retries: the
types, `PresentationSound` and the action property `FailuresAreReal`, all from one
inductive invariant, `IInv`. Its parts are what page, worker and call take for
granted of each other:
- `MessagesOK`: the loop and each call that waits have one message on its way, a
  request of the kind they wait for or its reply, and nobody else has one. Without it an
  answer could reach a call that has moved on.
- `CallsOK`: calls run one after the other, in the order in which maps were chosen,
  however each ended, and a candidate is newer than all before it.
- `WorkerOK`: which call's candidate the worker holds or has swapped in; with
  `CallsOK` it follows that the worker never refuses a replacement's request as
  out of date.
- `PlacesOK`: up to its adoption a call leaves the page's generation alone, and
  from then on it has made it its own.
- `StillOK` and `QuietOK`: the gate is closed while a map is replaced, so nothing is
  sampled, stepped or presented, and what is with the worker is of the page's generation.
  They hold until something opens the gate (`disturbed`): the page hidden or shown
  meanwhile, or a replacement that comes to its end while the session is being left.
  That is why the properties except those cases. A refusal of a stale
  step comes of one of them: of the page hidden or shown during a replacement, or of
  either while the session is being left (`Real`).
- `ShownOK`: snapshot, queued publication and replies on their way are one sequence of
  ticks ending at the worker's. A step's reply extends it, presentation moves along it
  and a new generation starts it again at its baseline.
- `QueueOK`: samples of one kind coalesce, so there are no more than the times the
  page was hidden or shown, and one. This is why the queue overflows only after the
  page was hidden or shown as often as its limit, which `FailuresAreReal` says.
- `WatchOK`: what is left of the budget and what was visible since make up the whole.

There is one lemma for each action, with the messages, the worker and the presentation in
turn; the lemmas about queues (`Asked`, `Told`: what appending a request,
answering it and taking its reply does to the sender's messages) are shared by
all. Two things came of the proof. A call that is over has no locals
(`End`); the model had kept its place in the retry loop, a difference no property saw. And
`NoTickLost` counted publications that are coming by their position in a filtered
sequence; as there is one at most it now speaks of a set.

**Mailbox**, from `SequenceAssumption`, that the ring's capacity divides the modulus
of the sequence. `IInv` says how the words agree with what the threads keep for themselves (`RingOK`),
where the writer stands and what it has still to publish (`WriterOK`), that unread
replies are in order (`OrderOK`), what the reader knows where it stands
(`ReaderOK`), which control messages are on their way or held (`ControlsOK`), and
whose each lease is
(`LeasesOK`). Since the sequence wraps, the two counters are compared through the
number of replies in the ring, never directly. `ThreadsAgree` and the types follow,
and with the invariant every access to shared memory is an operation of `ReplyFifo`
or a stutter.

**Worker protocol**, from `BoundAssumption`, whose last part is that the mailbox is
at least as large as the client's bound of pending requests (MAX_PENDING and
REPLY_CAPACITY are both 64). At the centre is `TransitIsPending`: the ids in
transit, in the order of the queues they pass through and with the model request
held back last, are the pending ids in the order of their reservation. From it follow that ids are distinct
(`DistinctIds`), that a reply finds its request and that a mailbox that large is
never overrun. `ChannelsOK` says in which channel a reply can be before and after
initialization, `CompanionsOK` that a model request has at most one companion,
`ReadsOK` and `LeasesOK` whose memory a decoder reads. The transit is
a flattened sequence; a few lemmas say what appending to and taking from one of its
parts does to it.

**Replay session**, from `LimitsAssumption`, `RecordsAssumption` and
`RatesAssumption`. The core of `IInv` is in `OpenedOK`: for every place, the record
after it, applied again with the whole log, is accepted and leads to the state that
open() computed (`Replays`). It holds because the log that open() had built at
that record is a prefix of the whole one (`Logs`, `Extends`). `CheckpointsOK` says that from the first
ready state on a checkpoint is within reach of every place, the last one by the
count of records; `RunOK` what a loop over records has come to, `DeliveryOK` what a
reader of events has seen. The theorems are the types, `SeeksAreExact`, and that the
session implements `RecordedTimeline`. For the clock, `LedgerOK` adds that a fraction
of a nanosecond is a whole number of grains, which reduction preserves
(`ReducedGrained`), and that the balance holds in the middle of a call too, when a
tick is paid for before its records are replayed (`Reached`). Crossing a tick costs
what `DurationTo` charged because records without a tick neither take time
(`TimeFlat`) nor change the state's tick (`TickFlat`).

**Induction.** The theorems of the library that take a predicate as a parameter
cannot be used, but those about a set can: `SetInduction` (a set of naturals
that contains 0 and all successors is all of them, by the well-foundedness of <)
serves for what a recursive function computes, once it is shown that a function
with that recursion exists (`OperatedExists`, `TimeExists`).

**Only model-checked**: every liveness property, which is beyond the provers, and
the step properties that go with them. Every invariant that a passing run checks is a
theorem, every refinement, and every action property without fairness.

## 6. What is left

The next modules, in the order of what they would add:

1. `ResourceGenerations` (reference counts, retirement) and `DerivedObjectCache`
   (two stores, eviction and recency transactions of several tabs, timeouts),
   the latter composed with `ObjectAcquirer` in place of its one-step acquire().
2. Control points, flags, payload and hill on top of `RoundRules`, in place of its
   freely chosen decisions.
3. `SimulationObserve`: the WASM entry points over `FixedStepHost`.
4. The object stores, the settings state, and last the networking codec.

What stays out is the bulk of the repository: geometry, physics, file formats
and presentation compute values in one step from data, without a protocol, a
fault or an order of events that a model could check, and would only be written
a second time.
