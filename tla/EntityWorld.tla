---------------------------- MODULE EntityWorld ----------------------------
(***************************************************************************)
(* The entity world (packages/world/entity/rust/src/world.rs): entities    *)
(* under generational handles, a forest of parents, a queue of inputs      *)
(* ordered by due tick, relays and timers that queue inputs to themselves, *)
(* and phases that apply a list of commands, service every due event and   *)
(* commit the removals, or change nothing at all; and the round restart of *)
(* the map runtime, which is two phases with the queue cleared before each.*)
(*                                                                         *)
(* A phase is taken one command and one event at a time, so that what is   *)
(* said of the world holds between any two of them.  An operation on the   *)
(* world is a function from world to world; one that returns an error      *)
(* marks the world as failed, and the phase is then rolled back.           *)
(*                                                                         *)
(* Transforms, fields, transitions and diagnostics (which have limits of   *)
(* their own), wildcards, templates and the classes other than relays and  *)
(* timers are left out; the input names the model does not list are        *)
(* refused by the code or belong to what is left out.                      *)
(***************************************************************************)
EXTENDS Integers, FiniteSets, SequencesExt

CONSTANTS
  MaxEntities,       \* limits.max_entities
  MaxDepth,          \* limits.max_hierarchy_depth
  MaxQueued,         \* limits.max_queued_events
  MaxEventsPerTick,  \* limits.max_events_per_tick
  TickUnits,         \* units of delay in one tick
  MapDefinitions,    \* the map's entities, in spawning order
  Spawnable,         \* definitions the game may spawn later
  Inputs,            \* inputs the game may send: [target, input, text, units]
  Delays,            \* delays of queued inputs, in units
  Emitted,           \* outputs the game may fire
  Names,             \* names an entity may be given
  MaxTick,           \* bound: last tick
  MaxPhases,         \* bound: committed phases, a respawn not counted
  MaxCommands        \* bound: commands of a phase

LimitsAssumption ==
  /\ MaxEntities \in Nat \ {0} /\ MaxDepth \in Nat /\ MaxQueued \in Nat
  /\ MaxEventsPerTick \in Nat \ {0} /\ TickUnits \in Nat \ {0}
  /\ MaxTick \in Nat /\ MaxPhases \in Nat
ASSUME LimitsAssumption

\* What the map says of an output, and of an entity.
Actions ==
  [output : STRING, target : STRING, input : STRING, text : STRING,
   units : Nat, delay : Nat, fires : Int]

Definitions ==
  [class : STRING, name : STRING, parentName : STRING, enabled : BOOLEAN,
   once : BOOLEAN, fast : BOOLEAN, interval : Nat, outputs : Seq(Actions)]

MapAssumption ==
  /\ MapDefinitions \in Seq(Definitions) /\ Spawnable \subseteq Definitions
  /\ Inputs \subseteq [target : STRING, input : STRING, text : STRING, units : Nat]
  /\ \A i \in Inputs : i.target = "" => i.input # "__timer_fire"
  /\ Delays \subseteq Nat /\ Emitted \subseteq STRING /\ Names \subseteq STRING
ASSUME MapAssumption

VARIABLES
  tick,      \* current_tick
  revision,
  world,     \* the rest of the state, as the next operation finds it
  start,     \* phase_start: the last state the game saw
  phase,     \* "idle", "commands" or "drain"
  service,   \* phase() services events, enqueue_input() does not
  commands,  \* commands applied in this phase
  serviced,  \* events serviced in this phase
  restart,   \* where restart_control_point_map stands
  dead       \* history: the handles whose removal was committed

vars == << tick, revision, world, start, phase, service, commands, serviced, restart,
           dead >>

NoName == ""
NoTick == -1
NoHandle == [slot |-> 0, generation |-> 0]

Slots == 1..MaxEntities
Handles == [slot : Slots, generation : Nat \ {0}]

----------------------------------------------------------------------------
(* Loops over a sequence, as functions that a proof can unfold.            *)

\* One operation for each element, from the first to the last.
Folded(Op(_, _), base, s) ==
  LET after[n \in 0..Len(s)] ==
        IF n = 0 THEN base ELSE Op(after[n - 1], s[n])
  IN  after[Len(s)]

\* The elements of a sequence that are in the set, in order.
Kept(s, S) ==
  Folded(LAMBDA kept, x : IF x \in S THEN Append(kept, x) ELSE kept, << >>, s)

----------------------------------------------------------------------------
(* Handles, names and the queue.                                           *)

Occupied(w) == DOMAIN w.entity

Resolvable(w, h) == h \in Occupied(w) /\ ~w.entity[h].pending

\* A world is written out as a whole where a proof looks into it.
World(entity, generation, order, queue, next, failed) ==
  [entity |-> entity, generation |-> generation, order |-> order,
   queue |-> queue, next |-> next, failed |-> failed]

Fail(w) == World(w.entity, w.generation, w.order, w.queue, w.next, TRUE)

TicksOf(delay) == (delay + TickUnits - 1) \div TickUnits

Event(target, name, input, text, units, activator, caller) ==
  [target |-> target, name |-> name, input |-> input, text |-> text,
   units |-> units, activator |-> activator, caller |-> caller,
   callerName |-> NoName, due |-> 0, seq |-> 0]

\* The order of the queue: by due tick, then as enqueued.
Before(q, r) == \/ q.due < r.due
                \/ q.due = r.due /\ q.seq < r.seq

\* An event for the entity itself.
Internal(h, input) == Event(h, NoName, input, NoName, 0, h, h)

ScheduleEvent(w, event, delay) ==
  IF Cardinality(w.queue) >= MaxQueued THEN Fail(w)
  ELSE LET queued == [event EXCEPT
             !.due = tick + TicksOf(delay), !.seq = w.next,
             !.callerName = IF event.caller \in Occupied(w)
                            THEN w.entity[event.caller].name ELSE NoName]
       IN  World(w.entity, w.generation, w.order, w.queue \cup {queued},
                 w.next + 1, w.failed)

CancelCaller(w, h) ==
  [w EXCEPT !.queue = {q \in @ : ~(/\ q.caller = h
                                   /\ q.callerName = w.entity[h].name)}]

CancelDirect(w, h, input) ==
  [w EXCEPT !.queue = {q \in @ : ~(q.target = h /\ q.input = input)}]

\* Whom an expression names when the event is dispatched: a context, else
\* every entity of the name, else every entity of the class.
ResolveTarget(w, name, activator, caller) ==
  LET one(h) == IF Resolvable(w, h) THEN << h >> ELSE << >>
      live == {h \in Occupied(w) : Resolvable(w, h)}
      named == Kept(w.order, {h \in live : w.entity[h].name = name})
      classed == Kept(w.order, {h \in live : w.entity[h].class = name})
  IN  CASE name \in {"!self", "!caller"} -> one(caller)
        [] name = "!activator"           -> one(activator)
        [] name = NoName                 -> << >>
        [] OTHER -> IF named # << >> THEN named ELSE classed

----------------------------------------------------------------------------
(* The forest of parents.                                                  *)

\* The descendants of an entity, by their distance from it.
Level(w, h) ==
  LET level[n \in 0..MaxDepth + 1] ==
        IF n = 0 THEN {h}
        ELSE UNION {ToSet(w.entity[p].children) :
                      p \in level[n - 1] \cap Occupied(w)}
  IN  level

TooDeep(w, h) == Level(w, h)[MaxDepth + 1] # {}

Ancestor(w, h) ==
  LET ancestor[n \in 0..MaxDepth] ==
        IF n = 0 THEN h
        ELSE IF ancestor[n - 1] \in Occupied(w)
             THEN w.entity[ancestor[n - 1]].parent ELSE NoHandle
  IN  ancestor

IsDescendant(w, ancestor, candidate) ==
  \E n \in 0..MaxDepth : Ancestor(w, candidate)[n] = ancestor

\* is_descendant gives up before it knows.
TooHigh(w, ancestor, candidate) ==
  /\ ~IsDescendant(w, ancestor, candidate)
  /\ Ancestor(w, candidate)[MaxDepth] # NoHandle

Without(children, h) == Kept(children, ToSet(children) \ {h})

\* The child is taken from its parent and given to the new one.
Reparented(w, child, parent) ==
  LET entity == w.entity
      old == entity[child].parent
      left == IF old \in Occupied(w)
              THEN [entity EXCEPT ![old].children = Without(@, child)]
              ELSE entity
      moved == [left EXCEPT ![child].parent = parent]
  IN  [w EXCEPT !.entity =
         IF parent \in Occupied(w)
         THEN [moved EXCEPT ![parent].children = Append(@, child)]
         ELSE moved]

\* A request that names a stale entity, or closes a cycle, is only reported.
SetParent(w, child, parent) ==
  LET done == Reparented(w, child, parent)
  IN  IF \/ ~Resolvable(w, child)
         \/ parent # NoHandle /\ ~Resolvable(w, parent)
         \/ parent = child
         \/ parent # NoHandle /\ IsDescendant(w, child, parent)
      THEN w
      ELSE IF \/ parent # NoHandle /\ TooHigh(w, child, parent)
              \/ TooDeep(done, child)
           THEN Fail(w)
           ELSE done

\* The entity and all below it stop being found; what they queued for
\* themselves is cancelled, what they queued for others stays.
MarkRemoval(w, h) ==
  LET marked == UNION {Level(w, h)[n] : n \in 0..MaxDepth}
  IN  IF ~Resolvable(w, h) THEN w
      ELSE IF TooDeep(w, h) THEN Fail(w)
      ELSE [w EXCEPT
              !.queue = {q \in @ : ~(/\ q.target \in marked
                                     /\ q.caller = q.target)},
              !.entity = [e \in Occupied(w) |->
                IF e \in marked THEN [w.entity[e] EXCEPT !.pending = TRUE]
                ELSE w.entity[e]]]

\* Variant: the slot of a removed entity keeps its generation.
CommitRemovalsKeepingGeneration(w) ==
  LET gone == {h \in Occupied(w) : w.entity[h].pending}
  IN  World([h \in Occupied(w) \ gone |-> w.entity[h]], w.generation,
            Kept(w.order, Occupied(w) \ gone), w.queue, w.next, w.failed)

\* Removed entities leave their parents and their slots; a slot's next
\* occupant has another generation.
CommitRemovals(w) ==
  LET gone == {h \in Occupied(w) : w.entity[h].pending}
      unlinked(p) == Kept(w.entity[p].children,
                          ToSet(w.entity[p].children) \
                            {c \in gone : w.entity[c].parent = p})
  IN  World([h \in Occupied(w) \ gone |->
               [w.entity[h] EXCEPT !.children = unlinked(h)]],
            [s \in Slots |-> IF \E h \in gone : h.slot = s
                             THEN w.generation[s] + 1 ELSE w.generation[s]],
            Kept(w.order, Occupied(w) \ gone), w.queue, w.next, w.failed)

----------------------------------------------------------------------------
(* Outputs.                                                                *)

Fires(e, output) ==
  Reverse(Kept(e.outputs, {a \in ToSet(e.outputs) : a.output = output}))

\* A negative count is unlimited; an action that has none left is dropped.
Spent(e, output) ==
  LET spend(a) == IF a.output = output /\ a.fires > 0
                  THEN [a EXCEPT !.fires = @ - 1] ELSE a
      spent == [i \in DOMAIN e.outputs |-> spend(e.outputs[i])]
  IN  Kept(spent, {a \in ToSet(spent) : a.fires # 0})

\* Either all the actions of an output are queued or none is.
FireOutput(w, h, output, activator, caller) ==
  IF h \notin Occupied(w) THEN Fail(w)
  ELSE LET actions == Fires(w.entity[h], output)
           queue(v, a) ==
             ScheduleEvent(v, Event(NoHandle, a.target, a.input, a.text,
                                    a.units, activator, caller), a.delay)
       IN  IF Cardinality(w.queue) + Len(actions) > MaxQueued THEN Fail(w)
           ELSE Folded(queue,
                       [w EXCEPT !.entity[h].outputs =
                          Spent(w.entity[h], output)],
                       actions)

\* The relay is deaf until a millisecond after the last of its outputs.
MaxOutputDelay(e, output) ==
  Max({0} \cup {a.delay : a \in {b \in ToSet(e.outputs) : b.output = output}})

AfterMillisecond(delay) == TickUnits * (delay \div TickUnits + 1)

----------------------------------------------------------------------------
(* Relays and timers.                                                      *)

\* Variant: the events that fire the timer so far stay queued.
ResetTimerKeepingEvents(w, h) ==
  LET e == w.entity[h]
  IN  IF ~e.enabled THEN [w EXCEPT !.entity[h].fire = NoTick]
      ELSE ScheduleEvent(
             [w EXCEPT !.entity[h].fire = tick + TicksOf(e.interval)],
             Internal(h, "__timer_fire"), e.interval)

ResetTimer(w, h) ==
  LET e == w.entity[h]
      calm == CancelDirect(w, h, "__timer_fire")
  IN  IF ~e.enabled THEN [calm EXCEPT !.entity[h].fire = NoTick]
      ELSE ScheduleEvent(
             [calm EXCEPT !.entity[h].fire = tick + TicksOf(e.interval)],
             Internal(h, "__timer_fire"), e.interval)

\* AddToTimer and SubtractFromTimer move the queued event, not below a tick.
ShiftTimer(w, h, ticks, least) ==
  LET own == {q \in w.queue : q.target = h /\ q.input = "__timer_fire"}
      first == CHOOSE q \in own :
                 \A r \in own : r = q \/ Before(q, r)
      due == Max({first.due + ticks, least})
  IN  IF own = {} THEN [w EXCEPT !.entity[h].fire = NoTick]
      ELSE [w EXCEPT
              !.queue = (@ \ {first}) \cup {[first EXCEPT !.due = due]},
              !.entity[h].fire = due]

\* RefireTime: at least 10 ms, less than a tick.
RefireInterval(event) == Max({event.units, 1})

TimerInput(w, h, event) ==
  LET set(enabled) == [w EXCEPT !.entity[h].enabled = enabled]
      off == CancelDirect([set(FALSE) EXCEPT !.entity[h].fire = NoTick],
                          h, "__timer_fire")
      timed == [w EXCEPT !.entity[h].interval = RefireInterval(event)]
      e == w.entity[h]
  IN  CASE event.input = "Enable"  -> ResetTimer(set(TRUE), h)
        [] event.input = "Disable" -> off
        [] event.input = "Toggle"  ->
             IF e.enabled THEN off ELSE ResetTimer(set(TRUE), h)
        [] event.input \in {"FireTimer", "__timer_fire"} /\ e.enabled ->
             ResetTimer(FireOutput(w, h, "OnTimer", h, h), h)
        [] event.input = "RefireTime" /\ e.interval # RefireInterval(event) ->
             IF e.enabled THEN ResetTimer(timed, h) ELSE timed
        [] event.input = "ResetTimer" /\ e.enabled -> ResetTimer(w, h)
        [] event.input = "AddToTimer" /\ e.enabled ->
             ShiftTimer(w, h, TicksOf(event.units), 0)
        [] event.input = "SubtractFromTimer" /\ e.enabled ->
             ShiftTimer(w, h, -TicksOf(event.units), tick)
        [] OTHER -> w

\* The refire is timed by the outputs as they were before this firing.
Trigger(w, h, event) ==
  LET e == w.entity[h]
      fired == FireOutput([w EXCEPT !.entity[h].waiting = ~e.once /\ ~e.fast],
                          h, "OnTrigger", event.activator, h)
  IN  IF ~e.enabled \/ e.waiting THEN w
      ELSE IF e.once THEN MarkRemoval(fired, h)
      ELSE IF e.fast THEN fired
      ELSE ScheduleEvent(fired, Internal(h, "EnableRefire"),
                         AfterMillisecond(MaxOutputDelay(e, "OnTrigger")))

RelayInput(w, h, event) ==
  LET e == w.entity[h]
      set(enabled) == [w EXCEPT !.entity[h].enabled = enabled]
      armed == [w EXCEPT !.entity[h].waiting = FALSE]
      spawned == FireOutput(w, h, "OnSpawn", h, h)
  IN  CASE event.input = "Enable"        -> set(TRUE)
        [] event.input = "Disable"       -> set(FALSE)
        [] event.input = "Toggle"        -> set(~e.enabled)
        [] event.input = "EnableRefire"  -> armed
        [] event.input = "CancelPending" -> CancelCaller(armed, h)
        [] event.input = "Trigger"       -> Trigger(w, h, event)
        [] event.input = "__relay_spawn" ->
             IF e.once THEN MarkRemoval(spawned, h) ELSE spawned
        [] OTHER -> w

----------------------------------------------------------------------------
(* Dispatch.                                                               *)

ClassInput(w, h, event) ==
  CASE w.entity[h].class = "logic_relay" -> RelayInput(w, h, event)
    [] w.entity[h].class = "logic_timer" -> TimerInput(w, h, event)
    [] OTHER -> w

DispatchInput(w, h, event) ==
  LET parents == ResolveTarget(w, event.text, event.activator, event.caller)
  IN  IF w.failed \/ ~Resolvable(w, h) THEN w
      ELSE CASE event.input \in {"Kill", "KillHierarchy"} -> MarkRemoval(w, h)
             [] event.input = "ClearParent" -> SetParent(w, h, NoHandle)
             [] event.input = "SetParent" ->
                  IF parents = << >> THEN w ELSE SetParent(w, h, parents[1])
             [] event.input = "FireUser1" ->
                  FireOutput(w, h, "OnUser1", event.activator, h)
             [] OTHER -> ClassInput(w, h, event)

DispatchRecord(w, event) ==
  LET targets ==
        IF event.target # NoHandle
        THEN IF Resolvable(w, event.target) THEN << event.target >> ELSE << >>
        ELSE ResolveTarget(w, event.name, event.activator, event.caller)
  IN  Folded(LAMBDA v, h : DispatchInput(v, h, event), w, targets)

----------------------------------------------------------------------------
(* Spawning.                                                               *)

EntityOf(definition) ==
  [class |-> definition.class, name |-> definition.name, pending |-> FALSE,
   enabled |-> definition.enabled, waiting |-> FALSE, fire |-> NoTick,
   outputs |-> definition.outputs, parent |-> NoHandle, children |-> << >>,
   once |-> definition.once, fast |-> definition.fast,
   interval |-> definition.interval, parentName |-> definition.parentName]

\* Variant: the slot of an entity that is being removed counts as free.
FreeSlotsEarly(w) == Slots \ {h.slot : h \in {g \in Occupied(w) : Resolvable(w, g)}}

FreeSlots(w) == Slots \ {h.slot : h \in Occupied(w)}

HandleIn(w, s) == [slot |-> s, generation |-> w.generation[s]]

\* The first free slot.
Created(w, definition) ==
  LET h == HandleIn(w, Min(FreeSlots(w)))
  IN  IF FreeSlots(w) = {} THEN Fail(w)
      ELSE [w EXCEPT
              !.entity = [e \in Occupied(w) \cup {h} |->
                            IF e = h THEN EntityOf(definition)
                            ELSE w.entity[e]],
              !.order = Append(@, h)]

\* schedule_activation: a relay announces its spawning after 10 ms, which is
\* less than a tick; a timer that is enabled starts.
Activated(w, h) ==
  LET e == w.entity[h]
  IN  IF w.failed THEN w
      ELSE CASE e.class = "logic_relay" /\ Fires(e, "OnSpawn") # << >> ->
                  ScheduleEvent(w, Internal(h, "__relay_spawn"), 1)
             [] e.class = "logic_timer" /\ e.enabled -> ResetTimer(w, h)
             [] OTHER -> w

SpawnOne(w, definition) ==
  LET made == Created(w, definition)
  IN  IF made.failed THEN made ELSE Activated(made, Last(made.order))

\* A map entity is given the first live entity of its parent's name.
InitialParent(w, h) ==
  LET found == ResolveTarget(w, w.entity[h].parentName, NoHandle, NoHandle)
  IN  IF w.failed \/ found = << >> THEN w ELSE SetParent(w, h, found[1])

\* All are created, then parented from the last to the first, then activated.
SpawnMap(w, definitions) ==
  LET made == Folded(Created, w, definitions)
      new == SubSeq(made.order, Len(w.order) + 1, Len(made.order))
      parented == Folded(InitialParent, made, Reverse(new))
  IN  IF made.failed THEN made ELSE Folded(Activated, parented, new)

EmptyWorld ==
  World([h \in {} |-> NoHandle], [s \in Slots |-> 1], << >>, {}, 1, FALSE)

----------------------------------------------------------------------------
(* Phases.                                                                 *)

\* compile(), of a map within the limits.
Init ==
  /\ tick = 0 /\ revision = 1
  /\ world = SpawnMap(EmptyWorld, MapDefinitions)
  /\ ~world.failed
  /\ start = [world |-> world, tick |-> 0]
  /\ phase = "idle" /\ service = TRUE
  /\ commands = 0 /\ serviced = 0
  /\ restart = "none"
  /\ dead = {}

Idle == phase = "idle"

Begin(w, now, serviceEvents) ==
  /\ start' = [world |-> w, tick |-> tick]
  /\ world' = w
  /\ tick' = now
  /\ phase' = "commands"
  /\ service' = serviceEvents
  /\ commands' = 0 /\ serviced' = 0
  /\ UNCHANGED << revision, dead >>

\* An earlier tick is an error that changes nothing.
BeginPhase ==
  /\ Idle /\ restart = "none"
  /\ revision < MaxPhases
  /\ \E now \in tick..MaxTick, serviceEvents \in BOOLEAN :
       Begin(world, now, serviceEvents)
  /\ UNCHANGED restart

Leave == /\ phase' = "idle" /\ service' = TRUE
         /\ commands' = 0 /\ serviced' = 0

\* Variant: a failed phase goes back to the tick, not to the state.
RollBackTick == /\ UNCHANGED world
                /\ tick' = start.tick

RollBack == /\ world' = start.world
            /\ tick' = start.tick

\* The outcome of one operation of a phase.  A restart that fails ends the
\* game session that asked for it.
Outcome(w) ==
  IF w.failed
  THEN /\ RollBack
       /\ Leave
       /\ restart' = IF restart = "none" THEN "none" ELSE "lost"
       /\ UNCHANGED << revision, start, dead >>
  ELSE /\ world' = w
       /\ commands' = IF phase = "commands" THEN commands + 1 ELSE commands
       /\ serviced' = IF phase = "drain" THEN serviced + 1 ELSE serviced
       /\ UNCHANGED << tick, revision, start, phase, service, restart, dead >>

Commanded(w, limit) == /\ phase = "commands"
                       /\ commands < limit
                       /\ Outcome(w)

\* The commands phase() takes from the game.
Command(w) == /\ restart = "none" /\ service
              /\ Commanded(w, MaxCommands)

\* The handles the game may still hold.
Held == {[slot |-> s, generation |-> g] :
           s \in Slots, g \in 1..Max({world.generation[s] : s \in Slots})}

InputRecord(i, h) ==
  Event(IF i.target = NoName THEN h ELSE NoHandle, i.target, i.input, i.text,
        i.units, h, NoHandle)

Spawn == \E d \in Spawnable : Command(SpawnOne(world, d))

Input == \E i \in Inputs, h \in Held :
           Command(DispatchRecord(world, InputRecord(i, h)))

\* phase() may queue an input as well; enqueue_input() does nothing else.
QueueInput ==
  \E i \in Inputs, h \in Held, delay \in Delays :
    /\ restart = "none"
    /\ Commanded(ScheduleEvent(world, InputRecord(i, h), delay),
                 IF service THEN MaxCommands ELSE 1)

RemoveEntity == \E h \in Held : Command(MarkRemoval(world, h))

ChangeParent ==
  \E child \in Held, parent \in Held \cup {NoHandle} :
    Command(SetParent(world, child, parent))

EmitOutput ==
  \E h \in Held, output \in Emitted :
    Command(FireOutput(world, h, output, h, h))

SetTargetname ==
  \E h \in Held, name \in Names :
    Command(IF Resolvable(world, h)
            THEN [world EXCEPT !.entity[h].name = name] ELSE world)

EndCommands ==
  /\ phase = "commands"
  /\ commands = 1 \/ (service /\ restart = "none")
  /\ phase' = "drain"
  /\ UNCHANGED << tick, revision, world, start, service, commands, serviced,
                  restart, dead >>

DueEvents == IF service THEN {q \in world.queue : q.due <= tick} ELSE {}

FirstEvent ==
  CHOOSE q \in DueEvents : \A r \in DueEvents : r = q \/ Before(q, r)

\* The context of an event is who of it is still there.
OfNow(event) ==
  LET kept(h) == IF Resolvable(world, h) THEN h ELSE NoHandle
  IN  [event EXCEPT !.activator = kept(@), !.caller = kept(@)]

ServiceEvent ==
  /\ phase = "drain"
  /\ DueEvents # {}
  /\ Outcome(IF serviced >= MaxEventsPerTick THEN Fail(world)
             ELSE DispatchRecord([world EXCEPT !.queue = @ \ {FirstEvent}],
                                 OfNow(FirstEvent)))

CommitPhase ==
  /\ phase = "drain"
  /\ DueEvents = {}
  /\ world' = CommitRemovals(world)
  /\ dead' = dead \cup {h \in Occupied(world) : world.entity[h].pending}
  /\ revision' = revision + 1
  /\ start' = [world |-> world', tick |-> tick]
  /\ Leave
  /\ restart' = CASE restart = "remove"  -> "removed"
                  [] restart = "respawn" -> "none"
                  [] OTHER               -> restart
  /\ UNCHANGED tick

----------------------------------------------------------------------------
(* restart_control_point_map(): everything but a few classes is removed,   *)
(* and the map's own entities of the other classes are spawned again.      *)

Preserved(class) == class = "info_target"

Cleared(w) == World(w.entity, w.generation, w.order, {}, w.next, w.failed)

BeginRestart ==
  /\ Idle /\ restart = "none"
  /\ revision < MaxPhases
  /\ \E now \in tick..MaxTick : Begin(Cleared(world), now, TRUE)
  /\ restart' = "remove"

\* The handles are collected before any is removed.
RestartRemovals ==
  LET removals == Kept(world.order, {h \in Occupied(world) :
                    /\ Resolvable(world, h)
                    /\ ~Preserved(world.entity[h].class)})
  IN  /\ restart = "remove"
      /\ Commanded(Folded(MarkRemoval, world, removals), 1)

BeginRespawn ==
  /\ Idle /\ restart = "removed"
  /\ Begin(Cleared(world), tick, TRUE)
  /\ restart' = "respawn"

RestartSpawn ==
  /\ restart = "respawn"
  /\ Commanded(SpawnMap(world, Kept(MapDefinitions,
                          {d \in ToSet(MapDefinitions) : ~Preserved(d.class)})),
               1)

----------------------------------------------------------------------------
Next ==
  \/ BeginPhase
  \/ Spawn
  \/ Input
  \/ QueueInput
  \/ RemoveEntity
  \/ ChangeParent
  \/ EmitOutput
  \/ SetTargetname
  \/ EndCommands
  \/ ServiceEvent
  \/ CommitPhase
  \/ BeginRestart
  \/ RestartRemovals
  \/ BeginRespawn
  \/ RestartSpawn

Spec == Init /\ [][Next]_vars

----------------------------------------------------------------------------
(* Properties.                                                             *)

\* Every variable has its type, the queue and the entities are within their
\* limits, and creation_order lists each entity once.
TypeOK ==
  /\ tick \in 0..MaxTick /\ revision \in 1..MaxPhases + 1
  /\ phase \in {"idle", "commands", "drain"} /\ service \in BOOLEAN
  /\ restart \in {"none", "remove", "removed", "respawn", "lost"}
  /\ serviced \in 0..MaxEventsPerTick
  /\ ~world.failed
  /\ Occupied(world) \subseteq Handles
  /\ \A g, h \in Occupied(world) : g.slot = h.slot => g = h
  /\ ToSet(world.order) = Occupied(world)
  /\ Len(world.order) = Cardinality(Occupied(world))
  /\ Cardinality(world.queue) <= MaxQueued
  /\ \A q, r \in world.queue : q.seq = r.seq => q = r
  /\ Idle => start = [world |-> world, tick |-> tick]

\* A live parent for every live child, the same link seen from both ends,
\* and no cycle: whatever order parents are set, cleared and removed in.
ForestSound ==
  /\ \A p \in Occupied(world) :
       /\ IsInjective(world.entity[p].children)
       /\ ToSet(world.entity[p].children) =
            {h \in Occupied(world) : world.entity[h].parent = p}
  /\ \A h \in Occupied(world) :
       LET p == world.entity[h].parent
       IN  /\ p \in Occupied(world) \cup {NoHandle}
           /\ p # NoHandle /\ Resolvable(world, h) => Resolvable(world, p)
  /\ \A S \in SUBSET Occupied(world) :
       S # {} => \E h \in S : world.entity[h].parent \notin S

\* A handle whose removal was committed never names an entity again, though
\* its slot is used again; and no event an entity queued for itself outlives
\* it, so none can reach the next occupant.
HandlesStayDead ==
  /\ dead \cap Occupied(world) = {}
  /\ \A q \in world.queue :
       q.target = q.caller /\ q.target # NoHandle =>
         Resolvable(world, q.target)

\* What is linked is alive, whichever way the link was made.
LinksSound == ForestSound /\ HandlesStayDead

OwnEvents(h, input) ==
  {q \in world.queue : q.target = h /\ q.caller = h /\ q.input = input}

\* An enabled timer has exactly one event to fire it, at the tick it shows,
\* and a disabled one none: a timer neither dies nor runs twice.  A relay
\* that is deaf has the event that rearms it.  So it is from the moment the
\* map is compiled, through failed phases and round restarts.
TimersAndRelaysArmed ==
  restart \notin {"remove", "lost"} =>
    \A h \in Occupied(world) :
      LET e == world.entity[h]
          firing == OwnEvents(h, "__timer_fire")
      IN  Resolvable(world, h) =>
            /\ e.class = "logic_timer" =>
                 IF e.enabled
                 THEN Cardinality(firing) = 1 /\ \A q \in firing : q.due = e.fire
                 ELSE firing = {} /\ e.fire = NoTick
            /\ e.class = "logic_relay" /\ e.waiting =>
                 OwnEvents(h, "EnableRefire") # {}

\* What the game sees of the world between two calls.
Phased == INSTANCE PhasedWorld
  WITH tick <- start.tick, entities <- start.world.entity,
       events <- start.world.queue

\* The world changes by whole phases: a failure anywhere in one, in its
\* commands or in any of its events, leaves tick, entities and events as
\* they were; and a phase that succeeds leaves nothing due.
ImplementsPhasedWorld == Phased!Spec
=============================================================================
