--------------------------- MODULE ReplaySession ---------------------------
(***************************************************************************)
(* A recorded replay: records are validated, indexed and checkpointed when *)
(* the session is opened, then played at a rational rate, stepped, sought, *)
(* snapshotted and restored (packages/runtime/replay/rust/src/session.rs). *)
(*                                                                         *)
(* Every loop over records is taken one record at a time, so that what is  *)
(* said of the session holds between any two records as well; a call runs  *)
(* to its return before the next one starts, as &mut self demands.         *)
(*                                                                         *)
(* Positions count from 1; 0 is None.  next_record is position + 1 in      *)
(* every assignment of the code, so it has no variable.  Payload bytes,    *)
(* source ranges, byte limits and command ticks are left out; entities     *)
(* are one slot with a generation and one field.                           *)
(***************************************************************************)
EXTENDS Integers, Sequences, FiniteSets, FiniteSetsExt

CONSTANTS
  Records,             \* the records a source may be made of
  MaxRecords,          \* bound: records of a source
  Families,            \* setup families a ready state needs
  CheckpointInterval,  \* limits.checkpoint_interval_ticks
  MaxSeekRecords,      \* limits.max_seek_records
  MaxCheckpoints,      \* limits.max_checkpoint_count
  MaxEvents,           \* limits.max_events
  MaxEventsPerTick,    \* limits.max_events_per_tick
  MaxStepTicks,        \* limits.max_step_ticks
  TickInterval,        \* tick_interval_ns
  Rates,               \* playback rates, as << numerator, denominator >>
  Elapsed,             \* what one advance may be told has elapsed
  Grain,               \* a common multiple of the rates' denominators
  MaxEarned,           \* bound: grains played between two discontinuities
  SnapshotPlaces       \* bound: positions at which the caller takes a snapshot

NoTick == 0

LimitsAssumption ==
  /\ MaxSeekRecords \in Nat \ {0}
  /\ CheckpointInterval \in Nat \ {0}
  /\ MaxCheckpoints \in Nat \ {0}
  /\ TickInterval \in Nat \ {0}
  /\ MaxEvents \in Nat /\ MaxEventsPerTick \in Nat /\ MaxStepTicks \in Nat
ASSUME LimitsAssumption

RecordsAssumption ==
  \A rec \in Records : /\ rec.tick \in Nat
                       /\ rec.noInterpolation \in BOOLEAN
                       /\ rec.operations \in Seq([kind : STRING, value : Nat,
                                                  field : Nat])
ASSUME RecordsAssumption

RatesAssumption ==
  /\ Grain \in Nat \ {0}
  /\ Elapsed \subseteq Nat
  /\ << 1, 1 >> \in Rates
  /\ \A rate \in Rates : /\ rate \in (Nat \ {0}) \X (Nat \ {0})
                         /\ Grain % rate[2] = 0
ASSUME RatesAssumption

VARIABLES
  source,       \* the records, in order
  timeline,     \* the state after each of them, as open() computed it
  log,          \* the events, in order
  checkpoints,  \* states kept to seek from
  tickRecords,  \* positions of the records that carry a server tick
  ready,        \* position of the first ready state, or 0
  terminal,     \* position of the terminal record, or 0
  sinceTicks, sinceRecords,   \* since the last checkpoint
  lifecycle, playback, rate, remainder, accumulated,
  position, state,
  delivered,    \* delivered_event_cursor
  lastRange, lastDiscontinuity,  \* what presentation_snapshot repeats
  report,       \* the event range the last call returned
  call,         \* the public call being executed
  run,          \* its loop over records
  saved,        \* a snapshot the caller holds
  refused,      \* history: an opened session failed to apply a record
  anchor, earned  \* history: last discontinuity, grains played since

opened == << source, timeline, log, checkpoints, tickRecords, ready, terminal,
             sinceTicks, sinceRecords >>
clock == << rate, remainder, accumulated >>
outputs == << delivered, lastRange, lastDiscontinuity, report >>
history == << refused, anchor, earned >>
vars == << opened, lifecycle, playback, clock, position, state, outputs, call,
           run, saved, history >>

----------------------------------------------------------------------------
(* Applying a record.                                                      *)

NoEntity == [generation |-> 0, field |-> 0]

InitialState ==
  [body |-> [ordinal |-> 0, tick |-> NoTick, occurrence |-> 0, events |-> 0,
             tickEvents |-> 0, setup |-> {}, full |-> FALSE,
             entity |-> NoEntity, decoder |-> 0],
   discontinuity |-> TRUE]

IsReady(s) == s.body.full /\ s.body.setup = Families

\* A record with a server tick opens a new tick or another occurrence of it.
Clocked(body, rec) ==
  IF rec.tick = NoTick THEN body
  ELSE IF rec.tick = body.tick
       THEN [body EXCEPT !.occurrence = @ + 1]
       ELSE [body EXCEPT !.tick = rec.tick, !.occurrence = 0, !.tickEvents = 0]

\* The operations that change one entity, and what they demand of it.
EntityAllows(body, op) ==
  /\ op.kind = "create" => body.entity = NoEntity
  /\ op.kind \in {"patch", "delete"} =>
       /\ body.entity # NoEntity
       /\ body.entity.generation = op.value

EventOf(body, ordinal, operation) ==
  [tick |-> body.tick, occurrence |-> body.occurrence,
   ordinal |-> ordinal, operation |-> operation]

\* While the session is opened events are logged; later the log must agree.
EventAllowed(body, event, events, building) ==
  /\ body.events < MaxEvents
  /\ body.tickEvents < MaxEventsPerTick
  /\ building \/ (body.events < Len(events) /\ events[body.events + 1] = event)

OperationApplied(body, op) ==
  CASE op.kind = "setup"   -> [body EXCEPT !.setup = @ \cup {op.value}]
    [] op.kind = "full"    -> [body EXCEPT !.full = TRUE, !.decoder = op.value,
                                 !.entity = [generation |-> op.value,
                                             field |-> op.field]]
    [] op.kind = "create"  -> [body EXCEPT !.entity =
                                 [generation |-> op.value, field |-> op.field]]
    [] op.kind = "patch"   -> [body EXCEPT !.entity.field = op.field]
    [] op.kind = "delete"  -> [body EXCEPT !.entity = NoEntity]
    [] op.kind = "decoder" -> [body EXCEPT !.decoder = op.value]
    [] op.kind = "event"   -> [body EXCEPT !.events = @ + 1,
                                           !.tickEvents = @ + 1]
    [] OTHER               -> body

\* The i-th operation on what the ones before it left.
OperationStep(done, rec, ordinal, i, building) ==
  LET op == rec.operations[i]
      event == EventOf(done.body, ordinal, i)
  IN  [ok |-> /\ done.ok
              /\ ~done.terminal
              /\ EntityAllows(done.body, op)
              /\ op.kind = "event" =>
                   EventAllowed(done.body, event, done.log, building),
       terminal |-> op.kind = "terminal",
       body |-> OperationApplied(done.body, op),
       log |-> IF building /\ op.kind = "event" THEN Append(done.log, event)
               ELSE done.log]

Discontinuous(rec) ==
  \/ rec.noInterpolation
  \/ \E i \in DOMAIN rec.operations :
       rec.operations[i].kind \in {"setup", "full", "create", "delete"}

\* What the first i operations of a record have done to the body of a state.
Operated(body, rec, ordinal, events, building) ==
  LET done[i \in 0..Len(rec.operations)] ==
        IF i = 0 THEN [ok |-> TRUE, terminal |-> FALSE, body |-> body,
                       log |-> events]
        ELSE OperationStep(done[i - 1], rec, ordinal, i, building)
  IN  done

\* apply_record: the outcome of one record on a copy of the state.
Applied(s, rec, ordinal, events, building) ==
  LET done == Operated(Clocked(s.body, rec), rec, ordinal, events, building)
                [Len(rec.operations)]
  IN  [ok |-> done.ok, terminal |-> done.terminal, log |-> done.log,
       state |-> [body |-> [done.body EXCEPT !.ordinal = ordinal],
                  discontinuity |-> Discontinuous(rec)]]

----------------------------------------------------------------------------
(* Places on the timeline.                                                 *)

LatestOf(S) == IF S = {} THEN 0 ELSE Max(S)
EarliestOf(S) == IF S = {} THEN 0 ELSE Min(S)

NextTickRecord == EarliestOf({r \in tickRecords : r > position})

TickGroupEnd(r) ==
  LET later == {t \in tickRecords : t > r}
  IN  IF later = {} THEN Len(source) ELSE Min(later) - 1

DurationTo(r, before) ==
  LET next == source[r].tick
      current == before.body.tick
  IN  IF current = NoTick \/ next < current THEN TickInterval
      ELSE (next - current) * TickInterval

\* The nearest complete state at or before a record.
CheckpointFor(target) ==
  CHOOSE c \in checkpoints :
    /\ c.position <= target
    /\ \A d \in checkpoints : d.position <= target => d.position <= c.position

NoCall == [op |-> "none", elapsed |-> 0, first |-> 0]
NoRun == [kind |-> "none", state |-> InitialState, next |-> 1, end |-> 0,
          terminal |-> FALSE]

Idle == call = NoCall
Session == lifecycle \notin {"Opening", "Failed"}

----------------------------------------------------------------------------
(* open().                                                                 *)

Init ==
  /\ source = << >> /\ timeline = << >> /\ log = << >>
  /\ checkpoints = {[position |-> 0, state |-> InitialState]}
  /\ tickRecords = {} /\ ready = 0 /\ terminal = 0
  /\ sinceTicks = 0 /\ sinceRecords = 0
  /\ lifecycle = "Opening" /\ playback = "Playing"
  /\ rate = << 1, 1 >> /\ remainder = << 0, 1 >> /\ accumulated = 0
  /\ position = 0 /\ state = InitialState
  /\ delivered = 0 /\ lastRange = << 0, 0 >> /\ lastDiscontinuity = TRUE
  /\ report = << 0, 0 >>
  /\ call = NoCall /\ run = NoRun /\ saved = {}
  /\ refused = FALSE /\ anchor = 0 /\ earned = 0

LastState == IF timeline = << >> THEN InitialState ELSE timeline[Len(timeline)]

Refuse == /\ lifecycle' = "Failed"
          /\ UNCHANGED << opened, playback, clock, position, state, outputs,
                          call, run, saved, history >>

\* Variant: the checkpoint is taken before the record's state is committed.
CheckpointOfPrior(p, s) == [position |-> p, state |-> LastState]

CheckpointOf(p, s) == [position |-> p, state |-> s]

\* The first ready state is a checkpoint, and then one is taken whenever
\* enough ticks, or enough records, have passed.
CheckpointDue(becomesReady, ticks, records) ==
  \/ becomesReady
  \/ ready # 0 /\ (ticks >= CheckpointInterval \/ records >= MaxSeekRecords)

OpenRecord(rec) ==
  LET p == Len(source) + 1
      r == Applied(LastState, rec, p, log, TRUE)
      becomesReady == ready = 0 /\ IsReady(r.state)
      ticks == sinceTicks + (IF rec.tick = NoTick THEN 0 ELSE 1)
      due == CheckpointDue(becomesReady, ticks, sinceRecords + 1)
      kept == IF due THEN {CheckpointOf(p, r.state)} ELSE {}
  IN  /\ lifecycle = "Opening"
      /\ p <= MaxRecords
      /\ IF \/ terminal # 0
            \/ ~r.ok
            \/ Cardinality(checkpoints \cup kept) > MaxCheckpoints
         THEN Refuse
         ELSE /\ source' = Append(source, rec)
              /\ timeline' = Append(timeline, r.state)
              /\ log' = r.log
              /\ checkpoints' = checkpoints \cup kept
              /\ tickRecords' = tickRecords \cup
                                  (IF rec.tick = NoTick THEN {} ELSE {p})
              /\ ready' = IF becomesReady THEN p ELSE ready
              /\ terminal' = IF r.terminal THEN p ELSE terminal
              /\ sinceTicks' = IF due THEN 0 ELSE ticks
              /\ sinceRecords' = IF due THEN 0 ELSE sinceRecords + 1
              /\ UNCHANGED << lifecycle, playback, clock, position, state,
                              outputs, call, run, saved, history >>

\* What every session starts with: the first ready state, playing, with no
\* event of the setup to be delivered.
Published ==
  /\ lifecycle' = "Ready" /\ playback' = "Playing"
  /\ rate' = << 1, 1 >> /\ remainder' = << 0, 1 >> /\ accumulated' = 0
  /\ position' = ready /\ state' = timeline[ready]
  /\ delivered' = state'.body.events
  /\ lastRange' = << delivered', delivered' >> /\ lastDiscontinuity' = TRUE
  /\ report' = lastRange'
  /\ anchor' = ready /\ earned' = 0
  /\ UNCHANGED << call, run, refused >>

OpenReturn ==
  /\ lifecycle = "Opening"
  /\ IF ready = 0 \/ terminal = 0
     THEN Refuse
     ELSE /\ Published
          /\ tickRecords' = {r \in tickRecords : r >= ready}
          /\ UNCHANGED << source, timeline, log, checkpoints, ready, terminal,
                          sinceTicks, sinceRecords, saved >>

\* Another session over the same source takes the place of this one.
Reopen == /\ Idle /\ Session
          /\ Published
          /\ UNCHANGED << opened, saved >>

----------------------------------------------------------------------------
(* Playback controls.                                                      *)

SilentRange == lastRange' = << delivered, delivered >>

Pause == /\ Idle /\ Session
         /\ playback' = "Paused"
         /\ SilentRange
         /\ UNCHANGED << opened, lifecycle, clock, position, state, delivered,
                         lastDiscontinuity, report, call, run, saved, history >>

Resume == /\ Idle /\ Session
          /\ playback' = IF lifecycle = "Ready" THEN "Playing" ELSE playback
          /\ SilentRange
          /\ UNCHANGED << opened, lifecycle, clock, position, state, delivered,
                          lastDiscontinuity, report, call, run, saved, history >>

SetRate(new) == /\ Idle /\ Session
                /\ rate' = new
                /\ UNCHANGED << opened, lifecycle, playback, remainder,
                                accumulated, position, state, outputs, call,
                                run, saved, history >>

----------------------------------------------------------------------------
(* advance().                                                              *)

\* A call on an ended or paused session reports nothing and changes nothing.
AdvanceInert ==
  /\ Idle /\ Session
  /\ lifecycle = "Ended" \/ playback = "Paused"
  /\ report' = << delivered, delivered >>
  /\ UNCHANGED << opened, lifecycle, playback, clock, position, state,
                  delivered, lastRange, lastDiscontinuity, call, run, saved,
                  history >>

Gcd(a, b) == LET Divides(d, n) == n % d = 0
             IN  Max({d \in 1..b : Divides(d, a) /\ Divides(d, b)})

Reduced(a, b) == << a \div Gcd(a, b), b \div Gcd(a, b) >>

\* Variant: the whole nanoseconds stay in the fraction as well.
FractionKeepingWhole(numerator, denominator) == Reduced(numerator, denominator)

\* Variant: the fraction is dropped when the time is rounded.
FractionDropped(numerator, denominator) == << 0, 1 >>

Fraction(numerator, denominator) ==
  Reduced(numerator % denominator, denominator)

\* The elapsed time at the current rate joins the remainder; whole
\* nanoseconds are accumulated, the rest is kept as a reduced fraction.
Accumulate(elapsed) ==
  LET numerator == remainder[1] * rate[2] + elapsed * rate[1] * remainder[2]
      denominator == remainder[2] * rate[2]
  IN  /\ accumulated' = accumulated + numerator \div denominator
      /\ remainder' = Fraction(numerator, denominator)
      /\ UNCHANGED rate

GrainsOf(elapsed) == elapsed * rate[1] * (Grain \div rate[2])

Advance(elapsed) ==
  /\ Idle
  /\ lifecycle = "Ready" /\ playback = "Playing"
  /\ earned + GrainsOf(elapsed) <= MaxEarned
  /\ Accumulate(elapsed)
  /\ earned' = earned + GrainsOf(elapsed)
  /\ call' = [op |-> "advance", elapsed |-> elapsed, first |-> delivered]
  /\ UNCHANGED << opened, lifecycle, playback, position, state, outputs, run,
                  saved, refused, anchor >>

Advancing == call.op = "advance" /\ run = NoRun

Forward(kind, end) ==
  [kind |-> kind, state |-> state, next |-> position + 1, end |-> end,
   terminal |-> FALSE]

TickDue == /\ NextTickRecord # 0
           /\ accumulated >= DurationTo(NextTickRecord, state)

AdvanceTick ==
  /\ Advancing /\ lifecycle = "Ready"
  /\ TickDue
  /\ accumulated' = accumulated - DurationTo(NextTickRecord, state)
  /\ run' = Forward("tick", TickGroupEnd(NextTickRecord))
  /\ UNCHANGED << opened, lifecycle, playback, rate, remainder, position,
                  state, outputs, call, saved, history >>

\* Records after the last tick take no time.
TrailingDue == /\ NextTickRecord = 0
               /\ position < Len(source)
               /\ call.elapsed > 0

AdvanceTrailing ==
  /\ Advancing
  /\ TrailingDue
  /\ run' = Forward("trailing", Len(source))
  /\ UNCHANGED << opened, lifecycle, playback, clock, position, state,
                  outputs, call, saved, history >>

\* Variant: the cursor of delivered events is left behind.
DeliverAgain == /\ lastRange' = << call.first, state.body.events >>
                /\ delivered' = call.first

Deliver == /\ lastRange' = << call.first, state.body.events >>
           /\ delivered' = state.body.events

AdvanceReturn ==
  /\ Advancing
  /\ ~TickDue /\ ~TrailingDue
  /\ Deliver
  /\ report' = lastRange'
  /\ lastDiscontinuity' = FALSE
  /\ call' = NoCall
  /\ UNCHANGED << opened, lifecycle, playback, clock, position, state, run,
                  saved, history >>

----------------------------------------------------------------------------
(* The loop over records that advance() and reconstruct() share.           *)

Looping == run # NoRun /\ run.next <= run.end

ReplayRecord ==
  /\ Looping
  /\ LET r == Applied(run.state, source[run.next], run.next, log, FALSE)
     IN  IF r.ok
         THEN /\ run' = [run EXCEPT !.state = r.state, !.next = @ + 1,
                                    !.terminal = r.terminal]
              /\ UNCHANGED << call, refused >>
         ELSE run' = NoRun /\ call' = NoCall /\ refused' = TRUE
  /\ UNCHANGED << opened, lifecycle, playback, clock, position, state, outputs,
                  saved, anchor, earned >>

Looped(kinds) == run.kind \in kinds /\ run.next > run.end

\* The end of apply_forward_through, and of the branch of advance() it is in.
ForwardCommit ==
  /\ Looped({"tick", "trailing"})
  /\ position' = run.end /\ state' = run.state
  /\ lifecycle' = IF run.terminal THEN "Ended" ELSE lifecycle
  /\ playback' = IF run.terminal THEN "Paused" ELSE playback
  /\ accumulated' = IF run.terminal /\ run.kind = "tick" THEN 0 ELSE accumulated
  /\ run' = NoRun
  /\ UNCHANGED << opened, rate, remainder, outputs, call, saved, history >>

----------------------------------------------------------------------------
(* seek(), seek_server_tick() and step(), which reconstruct a state from    *)
(* the nearest checkpoint.                                                 *)

\* reconstruct() with its limit; over it the call fails and nothing changes.
SeekRecord(target) ==
  LET c == CheckpointFor(target)
  IN  /\ target - c.position <= MaxSeekRecords
      /\ call' = [NoCall EXCEPT !.op = "seek"]
      /\ run' = [kind |-> "seek", state |-> c.state, next |-> c.position + 1,
                 end |-> target, terminal |-> FALSE]
      /\ UNCHANGED << opened, lifecycle, playback, clock, position, state,
                      outputs, saved, history >>

\* Every record has a cursor of its own, so a cursor is a record.
Seek(target) == Idle /\ Session /\ SeekRecord(target)

SeekServerTick(tick) ==
  LET found == {r \in DOMAIN source : source[r].tick = tick}
  IN  /\ Idle /\ Session
      /\ found # {}
      /\ SeekRecord(TickGroupEnd(Max(found)))

CurrentTickRecord == LatestOf({r \in tickRecords : r <= position})

\* The tick record that many tick records away, if there is one.
Step(ticks) ==
  /\ Idle /\ Session
  /\ playback = "Paused"
  /\ ticks \in -MaxStepTicks..MaxStepTicks /\ ticks # 0
  /\ CurrentTickRecord # 0
  /\ \E r \in tickRecords :
       /\ LET current == CurrentTickRecord
          IN  IF ticks > 0
              THEN Cardinality({t \in tickRecords : current < t /\ t <= r}) = ticks
              ELSE Cardinality({t \in tickRecords : r <= t /\ t < current}) = -ticks
       /\ SeekRecord(TickGroupEnd(r))

SeekCommit ==
  /\ Looped({"seek"})
  /\ position' = run.end
  /\ state' = [run.state EXCEPT !.discontinuity = TRUE]
  /\ lifecycle' = IF run.end = terminal THEN "Ended"
                  ELSE IF IsReady(run.state) THEN "Ready" ELSE "Signon"
  /\ playback' = IF lifecycle' = "Ended" THEN "Paused" ELSE playback
  /\ accumulated' = 0 /\ remainder' = << 0, 1 >>
  /\ delivered' = run.state.body.events
  /\ lastRange' = << delivered', delivered' >>
  /\ report' = lastRange'
  /\ lastDiscontinuity' = TRUE
  /\ anchor' = run.end /\ earned' = 0
  /\ call' = NoCall /\ run' = NoRun
  /\ UNCHANGED << opened, rate, saved, refused >>

----------------------------------------------------------------------------
(* snapshot() and restore().                                               *)

\* Bound: the caller takes one snapshot and keeps it.
Snapshot ==
  /\ Idle /\ Session
  /\ saved = {}
  /\ position \in SnapshotPlaces
  /\ saved' = {[lifecycle |-> lifecycle, playback |-> playback, rate |-> rate,
                remainder |-> remainder, accumulated |-> accumulated,
                position |-> position, delivered |-> delivered,
                state |-> state]}
  /\ UNCHANGED << opened, lifecycle, playback, clock, position, state, outputs,
                  call, run, history >>

Restore ==
  /\ Idle /\ Session
  /\ \E s \in saved :
       /\ s.position \in DOMAIN timeline
       /\ timeline[s.position].body.tick = s.state.body.tick
       /\ timeline[s.position].body.occurrence = s.state.body.occurrence
       /\ timeline[s.position].body.ordinal = s.state.body.ordinal
       /\ lifecycle' = s.lifecycle /\ playback' = s.playback /\ rate' = s.rate
       /\ remainder' = s.remainder /\ accumulated' = s.accumulated
       /\ position' = s.position /\ state' = s.state
       /\ delivered' = s.delivered
       /\ lastRange' = << s.delivered, s.delivered >>
       /\ anchor' = s.position
       /\ earned' = Grain * s.accumulated
                      + (Grain * s.remainder[1]) \div s.remainder[2]
  /\ lastDiscontinuity' = TRUE
  /\ report' = lastRange'
  /\ UNCHANGED << opened, call, run, saved, refused >>

----------------------------------------------------------------------------
Ticks == {rec.tick : rec \in Records} \ {NoTick}

Next ==
  \/ \E rec \in Records : OpenRecord(rec)
  \/ OpenReturn
  \/ Reopen
  \/ Pause
  \/ Resume
  \/ \E new \in Rates : SetRate(new)
  \/ AdvanceInert
  \/ \E elapsed \in Elapsed : Advance(elapsed)
  \/ AdvanceTick
  \/ AdvanceTrailing
  \/ AdvanceReturn
  \/ ReplayRecord
  \/ ForwardCommit
  \/ \E target \in DOMAIN source : Seek(target)
  \/ \E tick \in Ticks : SeekServerTick(tick)
  \/ \E ticks \in -MaxStepTicks..MaxStepTicks : Step(ticks)
  \/ SeekCommit
  \/ Snapshot
  \/ Restore

Spec == Init /\ [][Next]_vars

----------------------------------------------------------------------------
(* Properties.                                                             *)

Ranges == Nat \X Nat

\* Every variable has its type, and the positions it holds lie on the
\* timeline.
TypeOK ==
  /\ source \in Seq(Records) /\ Len(timeline) = Len(source)
  /\ tickRecords \subseteq DOMAIN source
  /\ ready \in 0..Len(source) /\ terminal \in 0..Len(source)
  /\ \A c \in checkpoints : c.position \in 0..Len(source)
  /\ lifecycle \in {"Opening", "Signon", "Ready", "Ended", "Failed"}
  /\ playback \in {"Playing", "Paused"}
  /\ rate \in Rates /\ accumulated \in Nat
  /\ remainder \in Nat \X (Nat \ {0}) /\ remainder[1] < remainder[2]
  /\ position \in 0..Len(source) /\ (Session => position # 0)
  /\ delivered \in Nat /\ lastRange \in Ranges /\ report \in Ranges
  /\ lastDiscontinuity \in BOOLEAN /\ refused \in BOOLEAN
  /\ call.op \in {"none", "advance", "seek"}
  /\ run.kind \in {"none", "tick", "trailing", "seek"}
  /\ run # NoRun => run.end \in DOMAIN source /\ run.next \in 1..run.end + 1
  /\ Cardinality(saved) <= 1

BeforeRecord(p) == IF p = 0 THEN InitialState ELSE timeline[p]

\* Whatever a session is asked to do, what it shows at a record is what
\* open() computed there: playing on, seeking from a checkpoint and restoring
\* a snapshot agree, in every part of the state but the discontinuity mark,
\* which only a seek may raise; and no record that open() accepted is ever
\* refused afterwards, although entity generations and the event log are
\* checked again.
ReplayMatchesOpening ==
  /\ ~refused
  /\ Session =>
       /\ state.body = timeline[position].body
       /\ timeline[position].discontinuity => state.discontinuity
  /\ run # NoRun => run.state.body = BeforeRecord(run.next - 1).body
  /\ \A c \in checkpoints : c.state = BeforeRecord(c.position)
  /\ \A s \in saved : s.state.body = timeline[s.position].body

\* From the first ready record on, no place is further from a checkpoint than
\* a seek may work, so neither a seek, nor a step, nor the next state of a
\* presentation snapshot can fail for its distance.
SeekWorkBounded ==
  /\ ready # 0 =>
       \A target \in ready..Len(source) :
         target - CheckpointFor(target).position <= MaxSeekRecords
  /\ Cardinality(checkpoints) <= MaxCheckpoints

\* A seek reaches every place, and finds there what playing on finds.
SeeksAreExact == ReplayMatchesOpening /\ SeekWorkBounded

\* The time it takes to play from one place to each of the later ones.
TimeFrom(from) ==
  LET time[p \in from..Len(source)] ==
        IF p = from THEN 0
        ELSE time[p - 1] + IF p \in tickRecords
                           THEN DurationTo(p, timeline[p - 1]) ELSE 0
  IN  time

\* The clock is exact: what has elapsed since the last discontinuity, at the
\* rates in force, is the time between the records crossed plus what is
\* accumulated plus the fraction kept, and no tick that is due stays
\* uncrossed when a call returns.  Where playback stands is therefore a
\* function of the time played, however it was cut into calls.
ClockLedger ==
  lifecycle = "Ready" /\ Idle =>
    /\ earned = Grain * (TimeFrom(anchor)[position] + accumulated)
                  + (Grain * remainder[1]) \div remainder[2]
    /\ position = anchor \/ ~TickDue

Bodies ==
  [ordinal : Nat, tick : Nat, occurrence : Nat, events : Nat, tickEvents : Nat,
   setup : SUBSET Nat, full : BOOLEAN, decoder : Nat,
   entity : [generation : Nat, field : Nat]]

EventsOf(image) == image.events

\* The tape of the abstract session is the timeline without the
\* discontinuity marks, its head the committed position.
Timeline == INSTANCE RecordedTimeline
  WITH Images <- Bodies,
       EventsBefore <- EventsOf,
       tape <- [p \in DOMAIN timeline |-> timeline[p].body],
       head <- position, shown <- state.body,
       sounded <- delivered, heard <- report

\* The session is a tape with one head: it shows the recorded states, rolls
\* forward, hands out every event it rolls over exactly once and in order,
\* and none that a seek, a step or a restore skipped.
ImplementsTimeline == Timeline!Spec

\* ROADMAP.md asks for byte-identical snapshots at equal cursors, reached by
\* uninterrupted playback or by any seeks: the whole state, with the mark.
EqualCursorsEqualSnapshots ==
  Session /\ Idle => state = timeline[position]
=============================================================================
