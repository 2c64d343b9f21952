--------------------------- MODULE FixedStepHost ---------------------------
(***************************************************************************)
(* The single gameplay authority of packages/runtime/simulation: a host    *)
(* that turns wall-clock samples into whole fixed ticks, stages commands,  *)
(* runs the gameplay adapter once per tick and queues one publication per  *)
(* completed host frame behind fixed limits.                               *)
(*                                                                         *)
(* The host is one object used through &mut self: its public operations    *)
(* exclude each other.  pump() is the exception that cannot be one step,   *)
(* because it calls out to the adapter once per tick and can stop at any   *)
(* of those calls, so its progress is the program counter `at` (and its    *)
(* locals), and every other operation waits for at = "idle".               *)
(*                                                                         *)
(* Time is counted in grains, the resolution of the binary64 arithmetic;   *)
(* Single rounds a duration to binary32 the way the `as f32` casts do.     *)
(***************************************************************************)
EXTENDS Integers, Sequences, Functions

CONSTANTS
  Interval, MinElapsed, MaxElapsed,  \* tick_interval and the elapsed filter
  Significand,                       \* 2^24 for binary32
  MaxQueuedCommands, MaxQueuedCommandBytes, MaxPendingFrames,
  MaxSnapshotBytes, MaxEventBytesPerTick, MaxQueuedPublications,
  MaxQueuedSnapshotBytes, MaxQueuedEventBatches, MaxQueuedEventBytes,
  U64Max,                            \* the largest host frame, tick, sequence
  Samples,                           \* the finite clock samples of the caller
  CommandLengths                     \* the byte lengths of submitted commands

MaximumTicksPerHostFrame == (MaxElapsed + Interval - 1) \div Interval

Limits == << MaxQueuedCommands, MaxQueuedCommandBytes, MaxPendingFrames,
             MaxSnapshotBytes, MaxEventBytesPerTick, MaxQueuedPublications,
             MaxQueuedSnapshotBytes, MaxQueuedEventBatches,
             MaxQueuedEventBytes >>

\* What Configuration::new accepts.
ConfigurationAccepted ==
  /\ MinElapsed \in Nat \ {0} /\ Interval \in Nat /\ MaxElapsed \in Nat
  /\ MinElapsed <= Interval /\ Interval <= MaxElapsed
  /\ \A i \in 1..9 : Limits[i] \in Nat \ {0}
  /\ MaxSnapshotBytes <= MaxQueuedSnapshotBytes
  /\ MaximumTicksPerHostFrame <= MaxQueuedEventBatches
  /\ MaxEventBytesPerTick * MaximumTicksPerHostFrame <= MaxQueuedEventBytes

ASSUME ConfigurationAssumption == ConfigurationAccepted

ASSUME ArithmeticAssumption ==
  /\ Significand \in Nat \ {0} /\ U64Max \in Nat \ {0}
  /\ Samples \subseteq Nat /\ CommandLengths \subseteq Nat

VARIABLES
  lifecycle, fault, paused, suspended,
  previous,               \* clock.previous, NoSample for None
  remainder, host_frame, host_tick,
  next_command_sequence, commands, queued_command_bytes,
  pending_frames, pending_ticks,
  publications, queued_snapshot_bytes, queued_event_batches,
  queued_event_bytes,
  at,                     \* "idle", or where the running pump() stands
  frame, tick_index, first_host_tick, latest_snapshot, event_batches,
  event_bytes,            \* the locals of pump() for the frame it executes
  metrics,                \* the HostMetrics that count work
  adapter                 \* external: what the Simulation has been handed

clockVars == << previous, remainder, host_frame >>
commandVars == << next_command_sequence, commands, queued_command_bytes >>
pendingVars == << pending_frames, pending_ticks >>
outputVars == << publications, queued_snapshot_bytes, queued_event_batches,
                 queued_event_bytes >>
pumpVars == << frame, tick_index, first_host_tick, latest_snapshot,
               event_batches, event_bytes >>
controlVars == << lifecycle, fault, paused, suspended >>
vars == << controlVars, clockVars, host_tick, commandVars, pendingVars,
           outputVars, at, pumpVars, metrics, adapter >>

NoSample == -1
NoFrame == [sequence |-> 0, selected_ticks |-> 0, simulating |-> FALSE]
NoSnapshot == [bytes |-> 0, simulating |-> FALSE]

Init ==
  /\ lifecycle = "Running" /\ fault = "None"
  /\ paused = FALSE /\ suspended = FALSE
  /\ previous = NoSample /\ remainder = 0
  /\ host_frame = 0 /\ host_tick = 0
  /\ next_command_sequence = 1 /\ commands = << >> /\ queued_command_bytes = 0
  /\ pending_frames = << >> /\ pending_ticks = 0
  /\ publications = << >> /\ queued_snapshot_bytes = 0
  /\ queued_event_batches = 0 /\ queued_event_bytes = 0
  /\ at = "idle" /\ frame = NoFrame /\ tick_index = 0 /\ first_host_tick = 0
  /\ latest_snapshot = NoSnapshot /\ event_batches = << >> /\ event_bytes = 0
  /\ metrics = [selected_ticks |-> 0, executed_ticks |-> 0,
                published_frames |-> 0, admitted_elapsed |-> 0]
  /\ adapter = [host_tick |-> 0, command |-> 0, shutdowns |-> 0]

-----------------------------------------------------------------------------
(* The wall clock (clock.rs) and the fixed-step arithmetic.                 *)

\* The spacing of binary32 values around x, over its first three binades.
Ulp(x) == IF x < Significand THEN 1 ELSE IF x < 2 * Significand THEN 2 ELSE 4

\* `x as f32`: round to the nearest multiple of the spacing, ties to even.
Single(x) ==
  LET u == Ulp(x)
      q == x \div u
      up == 2 * (x % u) > u \/ (2 * (x % u) = u /\ q % 2 = 1)
  IN  IF up THEN (q + 1) * u ELSE q * u

Clamp(x) == IF x < MinElapsed THEN MinElapsed
            ELSE IF x > MaxElapsed THEN MaxElapsed ELSE x

DurationToNextTick == Single(Interval - remainder)

\* WallClock::observe on a sample that has a predecessor.
AdmittedElapsed(now) ==
  Clamp(IF now < previous THEN DurationToNextTick
                          ELSE Single(now - previous))

\* Variant: a started tick is selected as a whole one.
SelectedRoundedUp(accumulated) == (accumulated + Interval - 1) \div Interval
SelectedTicks(accumulated) == accumulated \div Interval

\* Variant: a frame that selects ticks drops its fraction.
RemainderDropped(accumulated) ==
  IF SelectedTicks(accumulated) > 0 THEN 0 ELSE accumulated
RemainderAfter(accumulated) ==
  accumulated - SelectedTicks(accumulated) * Interval

-----------------------------------------------------------------------------
(* Faults end the pump that raised them and stop the host for good.         *)

LeaveFrame ==
  /\ frame' = NoFrame /\ tick_index' = 0 /\ first_host_tick' = 0
  /\ latest_snapshot' = NoSnapshot /\ event_batches' = << >>
  /\ event_bytes' = 0

\* Variant: the fault is reported and the host goes on.
ReportFault(code) == fault' = code /\ UNCHANGED lifecycle
SetFault(code) == lifecycle' = "Faulted" /\ fault' = code

Running == lifecycle = "Running" /\ at = "idle"

-----------------------------------------------------------------------------
(* Commands, pause and suspension.                                          *)

\* Variant: the byte limit is not checked.
CommandCountFits(length) == Len(commands) + 1 <= MaxQueuedCommands
CommandFits(length) ==
  /\ length > 0
  /\ Len(commands) + 1 <= MaxQueuedCommands
  /\ queued_command_bytes + length <= MaxQueuedCommandBytes

\* submit(bytes): the accepted call; a refused one changes nothing.
Submit(length) ==
  /\ Running
  /\ CommandFits(length)
  /\ next_command_sequence < U64Max
  /\ next_command_sequence' = next_command_sequence + 1
  /\ commands' = Append(commands, [sequence |-> next_command_sequence,
                                   bytes |-> length])
  /\ queued_command_bytes' = queued_command_bytes + length
  /\ UNCHANGED << controlVars, clockVars, host_tick, pendingVars, outputVars,
                  at, pumpVars, metrics, adapter >>

SetPaused(value) ==
  /\ Running
  /\ paused' = value
  /\ UNCHANGED << lifecycle, fault, suspended, clockVars, host_tick,
                  commandVars, pendingVars, outputVars, at, pumpVars, metrics,
                  adapter >>

\* set_suspended(value, now) rebases the clock whether or not it changes.
SetSuspended(value, now) ==
  /\ Running
  /\ suspended' = value
  /\ previous' = now
  /\ UNCHANGED << lifecycle, fault, paused, remainder, host_frame, host_tick,
                  commandVars, pendingVars, outputVars, at, pumpVars, metrics,
                  adapter >>

-----------------------------------------------------------------------------
(* observe(now): sample the clock, schedule a frame, pump.                  *)

\* The first sample is a baseline and a suspended one is only remembered;
\* both go on to pump.
ObserveWithoutFrame(now) ==
  /\ Running
  /\ previous = NoSample \/ suspended
  /\ previous' = now
  /\ at' = "pump"
  /\ UNCHANGED << controlVars, remainder, host_frame, host_tick, commandVars,
                  pendingVars, outputVars, pumpVars, metrics, adapter >>

\* schedule_frame, refused before it commits anything but the clock sample.
ObserveRefused(now) ==
  /\ Running
  /\ previous # NoSample /\ ~suspended
  /\ previous' = now
  /\ \/ host_frame = U64Max /\ SetFault("HostFrameOverflow")
     \/ /\ host_frame < U64Max
        /\ SelectedTicks(remainder + AdmittedElapsed(now)) > 0
        /\ Len(pending_frames) >= MaxPendingFrames
        /\ SetFault("PendingFrameLimit")
  /\ UNCHANGED << paused, suspended, remainder, host_frame, host_tick,
                  commandVars, pendingVars, outputVars, at, pumpVars, metrics,
                  adapter >>

NewFrame(selected) ==
  [sequence |-> host_frame + 1, selected_ticks |-> selected,
   simulating |-> ~paused]

\* schedule_frame, committed.  The pause flag is captured here, not when the
\* frame executes.
ObserveFrame(now) ==
  LET elapsed == AdmittedElapsed(now)
      accumulated == remainder + elapsed
      selected == SelectedTicks(accumulated)
  IN  /\ Running
      /\ previous # NoSample /\ ~suspended
      /\ host_frame < U64Max
      /\ selected > 0 => Len(pending_frames) < MaxPendingFrames
      /\ previous' = now
      /\ host_frame' = host_frame + 1
      /\ remainder' = RemainderAfter(accumulated)
      /\ metrics' = [metrics EXCEPT
                       !.selected_ticks = @ + selected,
                       !.admitted_elapsed = @ + elapsed]
      /\ pending_frames' =
           IF selected = 0 THEN pending_frames
           ELSE Append(pending_frames, NewFrame(selected))
      /\ IF pending_ticks + selected > U64Max
         THEN /\ SetFault("QueueArithmeticOverflow")
              /\ UNCHANGED << pending_ticks, at >>
         ELSE /\ pending_ticks' = pending_ticks + selected
              /\ at' = "pump"
              /\ UNCHANGED << lifecycle, fault >>
      /\ UNCHANGED << paused, suspended, host_tick, commandVars, outputVars,
                      pumpVars, adapter >>

Observe(now) == ObserveWithoutFrame(now) \/ ObserveRefused(now)
                \/ ObserveFrame(now)

-----------------------------------------------------------------------------
(* pump(): execute pending frames while their output is sure to fit.        *)

Pump ==
  /\ Running
  /\ at' = "pump"
  /\ UNCHANGED << controlVars, clockVars, host_tick, commandVars, pendingVars,
                  outputVars, pumpVars, metrics, adapter >>

\* publication_capacity: room for the largest output the frame may produce.
PublicationCapacity(selected) ==
  /\ Len(publications) + 1 <= MaxQueuedPublications
  /\ queued_snapshot_bytes + MaxSnapshotBytes <= MaxQueuedSnapshotBytes
  /\ queued_event_batches + selected <= MaxQueuedEventBatches
  /\ queued_event_bytes + MaxEventBytesPerTick * selected
       <= MaxQueuedEventBytes

FrameReady == /\ ~suspended
              /\ pending_frames # << >>
              /\ PublicationCapacity(Head(pending_frames).selected_ticks)

\* Suspended, Idle, Completed or Backpressured: control returns to the caller.
PumpReturn ==
  /\ at = "pump"
  /\ ~FrameReady
  /\ at' = "idle"
  /\ UNCHANGED << controlVars, clockVars, host_tick, commandVars, pendingVars,
                  outputVars, pumpVars, metrics, adapter >>

PumpTakeFrame ==
  /\ at = "pump"
  /\ FrameReady
  /\ pending_frames' = Tail(pending_frames)
  /\ pending_ticks' = pending_ticks - Head(pending_frames).selected_ticks
  /\ IF host_tick = U64Max
     THEN SetFault("HostTickOverflow") /\ at' = "idle"
          /\ UNCHANGED << frame, first_host_tick >>
     ELSE /\ at' = "frame"
          /\ frame' = Head(pending_frames)
          /\ first_host_tick' = host_tick + 1
          /\ UNCHANGED << lifecycle, fault >>
  /\ UNCHANGED << paused, suspended, clockVars, host_tick, commandVars,
                  outputVars, tick_index, latest_snapshot, event_batches,
                  event_bytes, metrics, adapter >>

ExecutingTick == at = "frame" /\ tick_index < frame.selected_ticks

\* The next tick would not fit in a u64.
TickOverflow ==
  /\ ExecutingTick
  /\ host_tick = U64Max
  /\ SetFault("HostTickOverflow")
  /\ at' = "idle" /\ LeaveFrame
  /\ UNCHANGED << paused, suspended, clockVars, host_tick, commandVars,
                  pendingVars, outputVars, metrics, adapter >>

\* Variant: every tick of a frame is announced as its first.
AdapterAdvancedToFirstTick ==
  adapter' = [adapter EXCEPT
                !.host_tick = first_host_tick,
                !.command = IF tick_index = 0 /\ commands # << >>
                            THEN commands[Len(commands)].sequence ELSE @]

\* What every call of Simulation::advance hands to the adapter: the next tick
\* and, on the frame's first one, the whole queue.
AdapterAdvanced ==
  adapter' = [adapter EXCEPT
                !.host_tick = host_tick + 1,
                !.command = IF tick_index = 0 /\ commands # << >>
                            THEN commands[Len(commands)].sequence ELSE @]

\* advance fails, or validate_output rejects what it returned.
AdvanceRejected ==
  /\ ExecutingTick
  /\ host_tick < U64Max
  /\ AdapterAdvanced
  /\ \E code \in {"Simulation", "EmptySnapshot", "SnapshotLimit", "EventLimit"} :
       SetFault(code)
  /\ at' = "idle" /\ LeaveFrame
  /\ UNCHANGED << paused, suspended, clockVars, host_tick, commandVars,
                  pendingVars, outputVars, metrics >>

\* Variant: the queue is emptied by the frame's last tick.
AdmitCommandsAtEnd ==
  IF tick_index + 1 = frame.selected_ticks
  THEN commands' = << >> /\ queued_command_bytes' = 0
  ELSE UNCHANGED << commands, queued_command_bytes >>

\* The command queue is emptied by the frame's first tick, once it succeeded.
AdmitCommands ==
  IF tick_index = 0 THEN commands' = << >> /\ queued_command_bytes' = 0
  ELSE UNCHANGED << commands, queued_command_bytes >>

\* Variant: the pause flag is read when the frame executes.
SnapshotUnderCurrentPause(size) == [bytes |-> size, simulating |-> ~paused]
\* A snapshot's content is the adapter's; all it says here is its size and the
\* pause disposition (TickContext.simulating) the adapter made it under.
SnapshotOf(size) == [bytes |-> size, simulating |-> frame.simulating]

\* A committed tick.
Advance(size, events) ==
  /\ ExecutingTick
  /\ host_tick < U64Max
  /\ AdapterAdvanced
  /\ host_tick' = host_tick + 1
  /\ AdmitCommands
  /\ event_batches' = Append(event_batches, [host_tick |-> host_tick + 1,
                                             bytes |-> events])
  /\ event_bytes' = event_bytes + events
  /\ latest_snapshot' = SnapshotOf(size)
  /\ tick_index' = tick_index + 1
  /\ metrics' = [metrics EXCEPT !.executed_ticks = @ + 1]
  /\ UNCHANGED << controlVars, clockVars, next_command_sequence, pendingVars,
                  outputVars, at, frame, first_host_tick >>

\* After the frame's last tick: one publication, then the next frame.
Publish ==
  /\ at = "frame"
  /\ tick_index = frame.selected_ticks
  /\ queued_snapshot_bytes' = queued_snapshot_bytes + latest_snapshot.bytes
  /\ queued_event_batches' = queued_event_batches + Len(event_batches)
  /\ queued_event_bytes' = queued_event_bytes + event_bytes
  /\ publications' = Append(publications,
       [host_frame |-> frame.sequence, first_host_tick |-> first_host_tick,
        last_host_tick |-> host_tick, snapshot |-> latest_snapshot,
        events |-> event_batches])
  /\ at' = "pump" /\ LeaveFrame
  /\ metrics' = [metrics EXCEPT !.published_frames = @ + 1]
  /\ UNCHANGED << controlVars, clockVars, host_tick, commandVars, pendingVars,
                  adapter >>

-----------------------------------------------------------------------------
(* The consumer and the end of the host.                                    *)

\* Variant: the event batch count survives the drain.
EmptyOutputKeepingBatches ==
  /\ publications' = << >> /\ queued_snapshot_bytes' = 0
  /\ queued_event_bytes' = 0
  /\ UNCHANGED queued_event_batches
EmptyOutput ==
  /\ publications' = << >> /\ queued_snapshot_bytes' = 0
  /\ queued_event_batches' = 0 /\ queued_event_bytes' = 0

\* drain_publications, in every lifecycle.
DrainPublications ==
  /\ at = "idle"
  /\ EmptyOutput
  /\ UNCHANGED << controlVars, clockVars, host_tick, commandVars, pendingVars,
                  at, pumpVars, metrics, adapter >>

ClearQueues ==
  /\ commands' = << >> /\ queued_command_bytes' = 0
  /\ pending_frames' = << >> /\ pending_ticks' = 0
  /\ EmptyOutput

\* The adapter's own shutdown may fail; the host closes either way.
Shutdown ==
  /\ at = "idle"
  /\ lifecycle # "Closed"
  /\ adapter' = [adapter EXCEPT !.shutdowns = @ + 1]
  /\ fault' \in {fault, "Shutdown"}
  /\ ClearQueues
  /\ lifecycle' = "Closed"
  /\ UNCHANGED << paused, suspended, clockVars, host_tick,
                  next_command_sequence, at, pumpVars, metrics >>

-----------------------------------------------------------------------------

PumpStep ==
  \/ PumpReturn \/ PumpTakeFrame \/ TickOverflow \/ AdvanceRejected
  \/ \E size \in 1..MaxSnapshotBytes, events \in 0..MaxEventBytesPerTick :
       Advance(size, events)
  \/ Publish

Next ==
  \/ \E length \in CommandLengths : Submit(length)
  \/ \E value \in BOOLEAN : SetPaused(value)
  \/ \E value \in BOOLEAN, now \in Samples : SetSuspended(value, now)
  \/ \E now \in Samples : Observe(now)
  \/ Pump
  \/ PumpStep
  \/ DrainPublications
  \/ Shutdown

Spec == Init /\ [][Next]_vars

\* The caller keeps pumping and draining, and the adapter returns from its
\* calls: what the application's frame loop does while it is visible.
FairSpec == Spec /\ WF_vars(Pump \/ PumpStep) /\ SF_vars(DrainPublications)

-----------------------------------------------------------------------------
(* Properties.                                                              *)

Commands == [sequence : 1..U64Max, bytes : Nat]
Frames == [sequence : 1..U64Max, selected_ticks : 1..MaximumTicksPerHostFrame,
           simulating : BOOLEAN]
Snapshots == [bytes : 0..MaxSnapshotBytes, simulating : BOOLEAN]
EventBatches == [host_tick : 1..U64Max, bytes : 0..MaxEventBytesPerTick]
Metrics == [selected_ticks : Nat, executed_ticks : Nat,
            published_frames : Nat, admitted_elapsed : Nat]
Adapters == [host_tick : 0..U64Max, command : 0..U64Max, shutdowns : Nat]
FaultCodes == {"None", "PendingFrameLimit", "HostFrameOverflow",
               "HostTickOverflow", "Simulation", "EmptySnapshot",
               "SnapshotLimit", "EventLimit", "QueueArithmeticOverflow",
               "Shutdown"}
Publications == [host_frame : 1..U64Max, first_host_tick : 1..U64Max,
                 last_host_tick : 1..U64Max, snapshot : Snapshots,
                 events : Seq(EventBatches)]

\* Every variable has its type; in particular no pending frame selects more
\* ticks than Configuration::new sized the output queues for, which the code
\* only debug_asserts.
TypeOK ==
  /\ lifecycle \in {"Running", "Faulted", "Closed"}
  /\ fault \in FaultCodes
  /\ paused \in BOOLEAN /\ suspended \in BOOLEAN
  /\ previous \in Samples \cup {NoSample} /\ remainder \in 0..(Interval - 1)
  /\ host_frame \in 0..U64Max /\ host_tick \in 0..U64Max
  /\ next_command_sequence \in 1..U64Max
  /\ commands \in Seq(Commands)
  /\ queued_command_bytes \in Nat
  /\ pending_frames \in Seq(Frames) /\ pending_ticks \in Int
  /\ publications \in Seq(Publications)
  /\ queued_snapshot_bytes \in Nat /\ queued_event_batches \in Nat
  /\ queued_event_bytes \in Nat
  /\ at \in {"idle", "pump", "frame"}
  /\ frame \in Frames \cup {NoFrame} /\ tick_index \in Nat
  /\ first_host_tick \in 0..U64Max /\ latest_snapshot \in Snapshots
  /\ event_batches \in Seq(EventBatches)
  /\ event_bytes \in Nat
  /\ metrics \in Metrics /\ adapter \in Adapters

\* Where pump() stands: its locals belong to the frame it executes, which is a
\* scheduled one, and only a running host is inside pump().
PumpLocals ==
  /\ at # "idle" => lifecycle = "Running"
  /\ at = "frame" =>
       /\ frame \in Frames
       /\ tick_index <= frame.selected_ticks
       /\ first_host_tick >= 1
       /\ host_tick = first_host_tick + tick_index - 1
  /\ at # "frame" =>
       /\ frame = NoFrame /\ tick_index = 0 /\ event_batches = << >>
       /\ event_bytes = 0

\* The incrementally maintained counters always equal what the queues hold:
\* command bytes, pending ticks, and the three sizes of the output queue.
QueueAccounting ==
  /\ queued_command_bytes = SumFunction([i \in DOMAIN commands |-> commands[i].bytes])
  /\ pending_ticks =
       SumFunction([i \in DOMAIN pending_frames |-> pending_frames[i].selected_ticks])
       \/ fault = "QueueArithmeticOverflow"
  /\ queued_snapshot_bytes =
       SumFunction([i \in DOMAIN publications |-> publications[i].snapshot.bytes])
  /\ queued_event_batches =
       SumFunction([i \in DOMAIN publications |-> Len(publications[i].events)])
  /\ queued_event_bytes =
       SumFunction([i \in DOMAIN publications |->
         SumFunction([j \in DOMAIN publications[i].events |->
                  publications[i].events[j].bytes])])

\* No queue ever exceeds its configured limit, although the room for a frame's
\* output is only reserved when the frame is taken and used ticks later.
QueuesWithinLimits ==
  /\ Len(commands) <= MaxQueuedCommands
  /\ queued_command_bytes <= MaxQueuedCommandBytes
  /\ Len(pending_frames) <= MaxPendingFrames
  /\ Len(publications) <= MaxQueuedPublications
  /\ queued_snapshot_bytes <= MaxQueuedSnapshotBytes
  /\ queued_event_batches <= MaxQueuedEventBatches
  /\ queued_event_bytes <= MaxQueuedEventBytes

\* Why the limits hold: what pump() checked before it took the frame still
\* stands when the frame is published, and the frame used no more than that.
Reservation ==
  /\ event_bytes <= MaxEventBytesPerTick * tick_index
  /\ Len(event_batches) = tick_index
  /\ at = "frame" => PublicationCapacity(frame.selected_ticks)

\* An empty output queue has no bytes and no batches on its counters.
EmptyOutputCounters ==
  publications = << >> =>
    /\ queued_snapshot_bytes = 0 /\ queued_event_batches = 0
    /\ queued_event_bytes = 0

\* Backpressure never outlives a drain: with nothing left to drain, the frame
\* at the front of the pending queue always has its publication capacity.
EmptyOutputAdmitsAnyFrame ==
  publications = << >> /\ pending_frames # << >> =>
    PublicationCapacity(Head(pending_frames).selected_ticks)

\* No admitted time is lost or invented: what the filter admitted is exactly
\* the ticks selected so far and the remainder, whatever was refused.
TimeLedger ==
  metrics.admitted_elapsed = metrics.selected_ticks * Interval + remainder

\* While the host runs, every selected tick is executed or still owed.
TickLedger ==
  /\ metrics.executed_ticks = host_tick
  /\ lifecycle = "Running" =>
       metrics.selected_ticks =
         host_tick + (frame.selected_ticks - tick_index) + pending_ticks

\* Commands reach the adapter once each, in submission order and without a
\* gap: the queue is exactly what was submitted after the last one handed over.
CommandsExactlyOnce ==
  lifecycle = "Running" =>
    /\ next_command_sequence = adapter.command + Len(commands) + 1
    /\ \A i \in DOMAIN commands : commands[i].sequence = adapter.command + i

\* The adapter is advanced through every tick once and in order, also across
\* the tick that faults, and is shut down at most once.
AdapterAdvancesInOrder ==
  [][/\ adapter'.host_tick \in {adapter.host_tick, adapter.host_tick + 1}
     /\ host_tick' # host_tick => adapter'.host_tick = adapter.host_tick + 1
     /\ adapter'.shutdowns <= 1]_vars

\* A faulted or closed host never runs gameplay again and never publishes
\* again; what it had already published stays until it is drained or closed.
StoppedForGood ==
  [][lifecycle # "Running" =>
       /\ lifecycle' # "Running"
       /\ << host_tick, adapter.host_tick, adapter.command >>' =
            << host_tick, adapter.host_tick, adapter.command >>
       /\ publications' \in {publications, << >>}]_vars

\* "A backward absolute clock sample contributes exactly the current duration
\* to the next tick" (ROADMAP.md): a reversal selects the next tick and only it.
ReversalReachesNextTick ==
  [][previous # NoSample /\ previous' < previous /\ host_frame' = host_frame + 1
     => metrics'.selected_ticks = metrics.selected_ticks + 1]_vars

\* A scheduled frame does not wait for ever: it is taken for execution, unless
\* the caller suspends the host or the host stops.
PendingFrameTaken ==
  \A n \in 1..U64Max :
    (\E i \in DOMAIN pending_frames : pending_frames[i].sequence = n)
    ~> \/ \A i \in DOMAIN pending_frames : pending_frames[i].sequence # n
       \/ suspended \/ lifecycle # "Running"

-----------------------------------------------------------------------------
(* What the host implements.  A frame inside pump() is still owed, and none *)
(* of its ticks has happened, until it is published.                        *)

Stream == INSTANCE TickStream WITH
  MaxTicks <- MaximumTicksPerHostFrame,
  running <- lifecycle = "Running",
  selected_frame <- host_frame,
  owed <- (IF at = "frame" THEN << frame >> ELSE << >>) \o pending_frames,
  tick <- IF at = "frame" THEN first_host_tick - 1 ELSE host_tick,
  stream <- [i \in DOMAIN publications |->
              [host_frame |-> publications[i].host_frame,
               first |-> publications[i].first_host_tick,
               last |-> publications[i].last_host_tick,
               ticks |-> [j \in DOMAIN publications[i].events |->
                            publications[i].events[j].host_tick],
               simulating |-> publications[i].snapshot.simulating]]

\* The host implements the tick stream: a frame split over several adapter
\* calls, backpressure and faults in its middle are invisible to the consumer.
ImplementsTickStream == Stream!Spec
=============================================================================
