------------------------ MODULE FixedStepHostProofs ------------------------
(***************************************************************************)
(* Theorems about the fixed-step host, for every configuration that        *)
(* Configuration::new accepts, every clock and every adapter: its types,   *)
(* what its steps never do, that no time, tick or command is lost or       *)
(* repeated, and that its queues keep their limits without ever being      *)
(* blocked by them.  Each invariant is inductive together with TypeInv.    *)
(***************************************************************************)
EXTENDS FixedStepHost, SequenceTheorems, TLAPS

-----------------------------------------------------------------------------
(* Arithmetic of the fixed step.                                            *)

\* Floor division leaves a remainder inside one divisor.
LEMMA DivBounds ==
  ASSUME NEW a \in Nat, NEW b \in Nat \ {0}
  PROVE  /\ a \div b \in Nat
         /\ a - (a \div b) * b \in 0..(b - 1)
  BY SMT

\* Floor division is monotone in its dividend.
LEMMA DivMonotone ==
  ASSUME NEW a \in Nat, NEW c \in Nat, NEW b \in Nat \ {0}, a <= c
  PROVE  a \div b <= c \div b
<1> DEFINE q == a \div b
           p == c \div b
<1>1. q \in Nat /\ p \in Nat /\ a - q * b \in 0..(b - 1)
      /\ c - p * b \in 0..(b - 1)
  BY DivBounds
<1> HIDE DEF q, p
<1>2. SUFFICES ASSUME p < q PROVE FALSE
  BY <1>1 DEF q, p
<1>3. q * b >= p * b + b
  BY <1>1, <1>2
<1> QED BY <1>1, <1>3

LEMMA ConstantTypes ==
  /\ Interval \in Nat \ {0} /\ MinElapsed \in Nat /\ MaxElapsed \in Nat
  /\ MinElapsed <= MaxElapsed
  /\ MaximumTicksPerHostFrame \in Nat
  /\ MaxQueuedCommands \in Nat /\ MaxQueuedCommandBytes \in Nat
  /\ MaxPendingFrames \in Nat
  /\ MaxSnapshotBytes \in Nat /\ MaxEventBytesPerTick \in Nat
  /\ MaxQueuedPublications \in Nat \ {0} /\ MaxQueuedSnapshotBytes \in Nat
  /\ MaxQueuedEventBatches \in Nat /\ MaxQueuedEventBytes \in Nat
<1>1. /\ Interval \in Nat \ {0} /\ MinElapsed \in Nat /\ MaxElapsed \in Nat
      /\ MinElapsed <= MaxElapsed
  BY ConfigurationAssumption DEF ConfigurationAccepted
<1>2. MaximumTicksPerHostFrame \in Nat
  <2>1. MaxElapsed + Interval - 1 \in Nat
    BY <1>1
  <2> QED BY <1>1, <2>1, DivBounds DEF MaximumTicksPerHostFrame
<1>3. \A i \in 1..9 : Limits[i] \in Nat \ {0}
  BY ConfigurationAssumption DEF ConfigurationAccepted
<1>4. /\ MaxQueuedCommands = Limits[1] /\ MaxQueuedCommandBytes = Limits[2]
      /\ MaxPendingFrames = Limits[3] /\ MaxSnapshotBytes = Limits[4]
      /\ MaxEventBytesPerTick = Limits[5] /\ MaxQueuedPublications = Limits[6]
      /\ MaxQueuedSnapshotBytes = Limits[7]
      /\ MaxQueuedEventBatches = Limits[8] /\ MaxQueuedEventBytes = Limits[9]
  BY DEF Limits
<1> QED BY <1>1, <1>2, <1>3, <1>4

\* Rounding a natural number to binary32 gives a natural number.
LEMMA SingleType ==
  ASSUME NEW x \in Nat
  PROVE  Single(x) \in Nat
<1>1. Ulp(x) \in {1, 2, 4}
  BY DEF Ulp
<1> DEFINE u == Ulp(x)
<1> HIDE DEF u
<1>a. u \in Nat \ {0}
  BY <1>1 DEF u
<1>2. x \div u \in Nat /\ u \in Nat \ {0}
  BY <1>a, DivBounds
<1>3. (x \div u) * u \in Nat /\ ((x \div u) + 1) * u \in Nat
  BY <1>2
<1> QED BY <1>3 DEF Single, u

\* The elapsed filter: whatever the two samples, what is admitted lies in
\* [MinElapsed, MaxElapsed].
LEMMA AdmittedElapsedBounds ==
  ASSUME NEW now \in Samples, TypeOK, previous # NoSample
  PROVE  AdmittedElapsed(now) \in MinElapsed..MaxElapsed
<1>1. previous \in Nat /\ now \in Nat /\ Interval - remainder \in Nat
  BY ArithmeticAssumption, ConstantTypes DEF TypeOK
<1>2. Single(Interval - remainder) \in Nat
  BY <1>1, SingleType
<1>3. now >= previous => Single(now - previous) \in Nat
  BY <1>1, SingleType
<1>4. \A x \in Nat : Clamp(x) \in MinElapsed..MaxElapsed
  BY ConstantTypes DEF Clamp
<1> QED BY <1>1, <1>2, <1>3, <1>4 DEF AdmittedElapsed, DurationToNextTick

\* A host frame never selects more ticks than the output queues are sized
\* for, and leaves a remainder inside one tick.
LEMMA SelectionBounds ==
  ASSUME NEW now \in Samples, TypeOK, previous # NoSample
  PROVE  LET accumulated == remainder + AdmittedElapsed(now)
         IN  /\ accumulated \in Nat
             /\ SelectedTicks(accumulated) \in 0..MaximumTicksPerHostFrame
             /\ RemainderAfter(accumulated) \in 0..(Interval - 1)
<1> DEFINE accumulated == remainder + AdmittedElapsed(now)
<1>1. AdmittedElapsed(now) \in MinElapsed..MaxElapsed
  BY AdmittedElapsedBounds
<1>2. remainder \in 0..(Interval - 1)
  BY DEF TypeOK
<1>3. accumulated \in Nat /\ accumulated <= MaxElapsed + Interval - 1
      /\ MaxElapsed + Interval - 1 \in Nat
  BY <1>1, <1>2, ConstantTypes
<1> HIDE DEF accumulated
<1>4. accumulated \div Interval \in Nat
      /\ accumulated - (accumulated \div Interval) * Interval
           \in 0..(Interval - 1)
  BY <1>3, DivBounds, ConstantTypes
<1>5. accumulated \div Interval <= MaximumTicksPerHostFrame
  BY <1>3, DivMonotone, ConstantTypes DEF MaximumTicksPerHostFrame
<1> QED BY <1>3, <1>4, <1>5, ConstantTypes
       DEF SelectedTicks, RemainderAfter, accumulated

-----------------------------------------------------------------------------
(* Type correctness.  The publication of a frame is well typed only because *)
(* the frame was, and because its ticks have really been counted: the type  *)
(* invariant needs PumpLocals.                                              *)

TypeInv == TypeOK /\ PumpLocals

\* Counting work keeps the metrics well typed.
LEMMA MetricsType ==
  ASSUME NEW m \in Metrics, NEW n \in Nat, NEW k \in Nat
  PROVE  /\ [m EXCEPT !.selected_ticks = @ + n, !.admitted_elapsed = @ + k]
              \in Metrics
         /\ [m EXCEPT !.executed_ticks = @ + 1] \in Metrics
         /\ [m EXCEPT !.published_frames = @ + 1] \in Metrics
<1>1. [m EXCEPT !.selected_ticks = @ + n, !.admitted_elapsed = @ + k]
        \in Metrics
  <2> DEFINE l == [m EXCEPT !.selected_ticks = @ + n]
  <2>1. l \in Metrics
    BY DEF Metrics
  <2>2. [m EXCEPT !.selected_ticks = @ + n, !.admitted_elapsed = @ + k]
          = [l EXCEPT !.admitted_elapsed = @ + k]
    BY DEF Metrics
  <2> HIDE DEF l
  <2> QED BY <2>1, <2>2 DEF Metrics
<1>2. [m EXCEPT !.executed_ticks = @ + 1] \in Metrics
  BY DEF Metrics
<1>3. [m EXCEPT !.published_frames = @ + 1] \in Metrics
  BY DEF Metrics
<1> QED BY <1>1, <1>2, <1>3

\* What a scheduled frame says: its sequence and a positive number of ticks.
LEMMA FrameFields ==
  ASSUME NEW f \in Frames
  PROVE  /\ f.sequence \in 1..U64Max /\ f.selected_ticks \in Nat
         /\ f.selected_ticks >= 1
         /\ f.selected_ticks <= MaximumTicksPerHostFrame
BY ConstantTypes DEF Frames

LEMMA TypeInvInit == Init => TypeInv
<1> SUFFICES ASSUME Init PROVE TypeInv
  OBVIOUS
<1>1. remainder \in 0..(Interval - 1)
  BY ConstantTypes DEF Init
<1>2. U64Max \in Nat \ {0}
  BY ArithmeticAssumption
<1>3. NoSnapshot \in Snapshots
  BY ConstantTypes DEF NoSnapshot, Snapshots
<1>4. metrics \in Metrics /\ adapter \in Adapters
  BY <1>2 DEF Init, Metrics, Adapters
<1>5. /\ commands \in Seq(Commands) /\ pending_frames \in Seq(Frames)
      /\ publications \in Seq(Publications)
      /\ event_batches \in Seq(EventBatches)
  BY DEF Init
<1>6. fault \in FaultCodes /\ previous \in Samples \cup {NoSample}
  BY DEF Init, FaultCodes
<1>7. /\ host_frame \in 0..U64Max /\ host_tick \in 0..U64Max
      /\ next_command_sequence \in 1..U64Max
      /\ first_host_tick \in 0..U64Max
  BY <1>2 DEF Init
<1>8. latest_snapshot \in Snapshots
  BY <1>3 DEF Init
<1>9. /\ lifecycle \in {"Running", "Faulted", "Closed"}
      /\ at \in {"idle", "pump", "frame"}
      /\ queued_command_bytes \in Nat /\ pending_ticks \in Int
      /\ queued_snapshot_bytes \in Nat /\ queued_event_batches \in Nat
      /\ queued_event_bytes \in Nat /\ tick_index \in Nat
      /\ event_bytes \in Nat
  BY DEF Init
<1>10. /\ paused \in BOOLEAN /\ suspended \in BOOLEAN
       /\ frame \in Frames \cup {NoFrame}
  BY Zenon DEF Init
<1>11. TypeOK
  BY <1>1, <1>4, <1>5, <1>6, <1>7, <1>8, <1>9, <1>10, Zenon DEF TypeOK
<1> QED BY <1>11 DEF Init, TypeInv, PumpLocals

LEMMA TypeInvSubmit ==
  ASSUME TypeInv, NEW length \in CommandLengths, Submit(length)
  PROVE  TypeInv'
<1>1. length \in Nat /\ U64Max \in Nat
  BY ArithmeticAssumption
<1> QED BY <1>1 DEF TypeInv, TypeOK, PumpLocals, Submit, CommandFits, Running,
       controlVars, clockVars, pendingVars, outputVars, pumpVars, Commands

LEMMA TypeInvSetPaused ==
  ASSUME TypeInv, NEW value \in BOOLEAN, SetPaused(value)
  PROVE  TypeInv'
BY DEF TypeInv, TypeOK, PumpLocals, SetPaused, Running, commandVars,
       clockVars, pendingVars, outputVars, pumpVars

LEMMA TypeInvSetSuspended ==
  ASSUME TypeInv, NEW value \in BOOLEAN, NEW now \in Samples,
         SetSuspended(value, now)
  PROVE  TypeInv'
BY DEF TypeInv, TypeOK, PumpLocals, SetSuspended, Running, commandVars,
       clockVars, pendingVars, outputVars, pumpVars

LEMMA TypeInvObserveNoFrame ==
  ASSUME TypeInv, NEW now \in Samples,
         ObserveWithoutFrame(now) \/ ObserveRefused(now)
  PROVE  TypeInv'
BY DEF TypeInv, TypeOK, PumpLocals, ObserveWithoutFrame, ObserveRefused,
       Running, SetFault, controlVars, commandVars, pendingVars, outputVars,
       pumpVars, FaultCodes

LEMMA TypeInvObserveFrame ==
  ASSUME TypeInv, NEW now \in Samples, ObserveFrame(now)
  PROVE  TypeInv'
<1> DEFINE elapsed == AdmittedElapsed(now)
           accumulated == remainder + elapsed
           selected == SelectedTicks(accumulated)
<1>1. /\ elapsed \in Nat
      /\ selected \in 0..MaximumTicksPerHostFrame
      /\ RemainderAfter(accumulated) \in 0..(Interval - 1)
  <2>1. previous # NoSample
    BY DEF ObserveFrame
  <2> QED BY <2>1, SelectionBounds, AdmittedElapsedBounds, ConstantTypes
         DEF TypeInv
<1>2. host_frame + 1 \in 1..U64Max /\ U64Max \in Nat
  <2>1. host_frame \in 0..U64Max /\ host_frame < U64Max
    BY DEF ObserveFrame, TypeInv, TypeOK
  <2> QED BY <2>1, ArithmeticAssumption
<1>3. selected > 0 => NewFrame(selected) \in Frames
  <2> HIDE DEF selected
  <2>1. (~paused) \in BOOLEAN
    OBVIOUS
  <2>2. selected > 0 => selected \in 1..MaximumTicksPerHostFrame
    BY <1>1, ConstantTypes
  <2>3. QED
    BY <1>2, <2>1, <2>2 DEF NewFrame, Frames
<1>4. ObserveFrame(now)
  OBVIOUS
<1> HIDE DEF selected
<1>5. pending_frames' \in Seq(Frames)
  <2>1. pending_frames' = IF selected = 0 THEN pending_frames
                          ELSE Append(pending_frames, NewFrame(selected))
    BY <1>4 DEF ObserveFrame, selected
  <2>2. pending_frames \in Seq(Frames)
    BY DEF TypeInv, TypeOK
  <2>3. selected # 0 => NewFrame(selected) \in Frames
    BY <1>1, <1>3, ConstantTypes
  <2> QED BY <2>1, <2>2, <2>3
<1>6. /\ remainder' \in 0..(Interval - 1)
      /\ host_frame' \in 0..U64Max
      /\ previous' \in Samples \cup {NoSample}
  <2>1. /\ remainder' = RemainderAfter(accumulated)
        /\ host_frame' = host_frame + 1 /\ previous' = now
    BY <1>4 DEF ObserveFrame
  <2> QED BY <1>1, <1>2, <2>1
<1>7. metrics' \in Metrics
  <2>1. metrics \in Metrics
    BY DEF TypeInv, TypeOK
  <2>2. metrics' = [metrics EXCEPT !.selected_ticks = @ + selected,
                                   !.admitted_elapsed = @ + elapsed]
    BY <1>4 DEF ObserveFrame, selected
  <2>3. selected \in Nat
    BY <1>1, ConstantTypes
  <2>4. elapsed \in Nat
    BY <1>1
  <2> HIDE DEF elapsed
  <2> QED BY <2>1, <2>2, <2>3, <2>4, MetricsType
<1>8. pending_ticks' \in Int
  <2>1. pending_ticks \in Int
    BY DEF TypeInv, TypeOK
  <2>2. pending_ticks' \in {pending_ticks, pending_ticks + selected}
    BY <1>4 DEF ObserveFrame, selected
  <2> QED BY <1>1, <2>1, <2>2, ConstantTypes
<1>9. /\ lifecycle' \in {"Running", "Faulted", "Closed"}
      /\ fault' \in FaultCodes
      /\ at' \in {"idle", "pump"}
      /\ at' # "idle" => lifecycle' = "Running"
  <2>1. lifecycle = "Running" /\ at = "idle" /\ fault \in FaultCodes
    BY <1>4 DEF ObserveFrame, Running, TypeInv, TypeOK
  <2>2. \/ lifecycle' = "Faulted" /\ fault' = "QueueArithmeticOverflow"
           /\ at' = at
        \/ lifecycle' = lifecycle /\ fault' = fault /\ at' = "pump"
    BY <1>4 DEF ObserveFrame, SetFault
  <2> QED BY <2>1, <2>2 DEF FaultCodes
<1> QED BY <1>4, <1>5, <1>6, <1>7, <1>8, <1>9
       DEF ObserveFrame, TypeInv, TypeOK, PumpLocals, Running, commandVars,
           outputVars, pumpVars

LEMMA TypeInvPump ==
  ASSUME TypeInv, Pump \/ PumpReturn
  PROVE  TypeInv'
BY DEF TypeInv, TypeOK, PumpLocals, Pump, PumpReturn, Running, controlVars,
       clockVars, commandVars, pendingVars, outputVars, pumpVars

LEMMA TypeInvPumpTakeFrame ==
  ASSUME TypeInv, PumpTakeFrame
  PROVE  TypeInv'
<1>1. /\ Head(pending_frames) \in Frames
      /\ Tail(pending_frames) \in Seq(Frames)
  BY DEF TypeInv, TypeOK, PumpTakeFrame, FrameReady
<1>2. /\ Head(pending_frames).selected_ticks \in Nat
      /\ Head(pending_frames).selected_ticks >= 1
  BY <1>1, ConstantTypes DEF Frames
<1>3. U64Max \in Nat
  BY ArithmeticAssumption
<1>4. pending_ticks' \in Int
  BY <1>2 DEF PumpTakeFrame, TypeInv, TypeOK
<1>5. CASE host_tick = U64Max
  BY <1>1, <1>4, <1>5
     DEF PumpTakeFrame, TypeInv, TypeOK, PumpLocals, SetFault, FaultCodes,
         clockVars, commandVars, outputVars
<1>6. CASE host_tick # U64Max
  <2>1. /\ at' = "frame" /\ frame' = Head(pending_frames)
        /\ first_host_tick' = host_tick + 1
        /\ lifecycle' = lifecycle /\ fault' = fault
    BY <1>6 DEF PumpTakeFrame
  <2>2. first_host_tick' \in 1..U64Max
    BY <1>3, <1>6, <2>1 DEF TypeInv, TypeOK
  <2> QED BY <1>1, <1>2, <1>3, <1>4, <2>1, <2>2
         DEF PumpTakeFrame, TypeInv, TypeOK, PumpLocals, clockVars,
             commandVars, outputVars
<1> QED BY <1>5, <1>6

LEMMA AdapterType ==
  ASSUME TypeOK, host_tick < U64Max, AdapterAdvanced
  PROVE  adapter' \in Adapters
<1>1. /\ U64Max \in Nat /\ adapter \in Adapters
      /\ host_tick \in 0..U64Max /\ commands \in Seq(Commands)
  BY ArithmeticAssumption DEF TypeOK
<1>2. commands # << >> => commands[Len(commands)].sequence \in 0..U64Max
  <2>1. commands # << >> => commands[Len(commands)] \in Commands
    BY <1>1
  <2> QED BY <1>1, <2>1 DEF Commands
<1> DEFINE taken == IF tick_index = 0 /\ commands # << >>
                    THEN commands[Len(commands)].sequence
                    ELSE adapter.command
<1>3. taken \in 0..U64Max /\ host_tick + 1 \in 0..U64Max
  BY <1>1, <1>2 DEF Adapters
<1>4. adapter' = [adapter EXCEPT !.host_tick = host_tick + 1,
                                 !.command = taken]
  BY <1>1 DEF AdapterAdvanced, Adapters
<1> HIDE DEF taken
<1> QED BY <1>1, <1>3, <1>4 DEF Adapters

LEMMA TypeInvFrameFault ==
  ASSUME TypeInv, TickOverflow \/ AdvanceRejected
  PROVE  TypeInv'
<1>1. adapter' \in Adapters
  BY AdapterType DEF TypeInv, TypeOK, TickOverflow, AdvanceRejected
<1>2. NoSnapshot \in Snapshots /\ U64Max \in Nat
  BY ConstantTypes, ArithmeticAssumption DEF Snapshots, NoSnapshot
<1>3. lifecycle' = "Faulted" /\ fault' \in FaultCodes
  BY DEF TickOverflow, AdvanceRejected, SetFault, FaultCodes
<1>4. /\ at' = "idle" /\ LeaveFrame
      /\ UNCHANGED << paused, suspended, clockVars, host_tick, commandVars,
                      pendingVars, outputVars, metrics >>
  BY DEF TickOverflow, AdvanceRejected
<1>5. event_batches' \in Seq(EventBatches) /\ first_host_tick' \in 0..U64Max
  BY <1>2, <1>4 DEF LeaveFrame
<1> QED BY <1>1, <1>2, <1>3, <1>4, <1>5
       DEF TypeInv, TypeOK, PumpLocals, LeaveFrame, clockVars, commandVars,
           pendingVars, outputVars

LEMMA TypeInvAdvance ==
  ASSUME TypeInv, NEW size \in 1..MaxSnapshotBytes,
         NEW events \in 0..MaxEventBytesPerTick, Advance(size, events)
  PROVE  TypeInv'
<1>1. /\ adapter' \in Adapters
      /\ U64Max \in Nat
  BY AdapterType, ArithmeticAssumption DEF TypeInv, Advance
<1>2. /\ at = "frame" /\ frame \in Frames
      /\ tick_index < frame.selected_ticks /\ host_tick < U64Max
      /\ host_tick = first_host_tick + tick_index - 1
      /\ frame.selected_ticks \in Nat
  <2>1. /\ at = "frame" /\ tick_index < frame.selected_ticks
        /\ host_tick < U64Max
    BY DEF Advance, ExecutingTick
  <2>2. frame \in Frames /\ host_tick = first_host_tick + tick_index - 1
    BY <2>1 DEF TypeInv, PumpLocals
  <2>3. frame.selected_ticks \in Nat
    BY <2>2, FrameFields
  <2> QED BY <2>1, <2>2, <2>3
<1>3. SnapshotOf(size) \in Snapshots
  BY <1>2, ConstantTypes DEF SnapshotOf, Snapshots, Frames
<1>4. /\ event_batches \in Seq(EventBatches) /\ event_bytes \in Nat
      /\ commands \in Seq(Commands) /\ queued_command_bytes \in Nat
      /\ metrics \in Metrics /\ tick_index \in Nat
      /\ host_tick \in 0..U64Max
  BY DEF TypeInv, TypeOK
<1>5. /\ event_batches' = Append(event_batches, [host_tick |-> host_tick + 1,
                                                bytes |-> events])
      /\ event_bytes' = event_bytes + events
      /\ metrics' = [metrics EXCEPT !.executed_ticks = @ + 1]
      /\ host_tick' = host_tick + 1 /\ tick_index' = tick_index + 1
      /\ latest_snapshot' = SnapshotOf(size)
  BY DEF Advance
<1>6. event_batches' \in Seq(EventBatches)
  <2>1. [host_tick |-> host_tick + 1, bytes |-> events] \in EventBatches
    BY <1>1, <1>2, <1>4 DEF EventBatches
  <2> QED BY <1>4, <1>5, <2>1
<1>7. event_bytes' \in Nat /\ metrics' \in Metrics
  <2>1. event_bytes' \in Nat
    <3>1. event_bytes \in Nat /\ event_bytes' = event_bytes + events
      BY <1>4, <1>5
    <3> QED BY <3>1, ConstantTypes
  <2>2. metrics' \in Metrics
    BY <1>4, <1>5, MetricsType
  <2> QED BY <2>1, <2>2
<1>8. commands' \in Seq(Commands) /\ queued_command_bytes' \in Nat
  <2>1. CASE tick_index = 0
    <3>1. commands' = << >> /\ queued_command_bytes' = 0
      BY <2>1 DEF Advance, AdmitCommands
    <3> QED BY <3>1
  <2>2. CASE tick_index # 0
    <3>1. commands' = commands /\ queued_command_bytes' = queued_command_bytes
      BY <2>2 DEF Advance, AdmitCommands
    <3> QED BY <1>4, <3>1
  <2> QED BY <2>1, <2>2
<1>9. /\ host_tick' \in 0..U64Max /\ tick_index' \in Nat
      /\ tick_index' <= frame.selected_ticks
      /\ host_tick' = first_host_tick + tick_index' - 1
  <2>1. first_host_tick \in 0..U64Max
    BY DEF TypeInv, TypeOK
  <2>2. /\ U64Max \in Nat /\ host_tick \in 0..U64Max /\ tick_index \in Nat
        /\ frame.selected_ticks \in Nat /\ tick_index < frame.selected_ticks
        /\ host_tick < U64Max /\ host_tick = first_host_tick + tick_index - 1
        /\ host_tick' = host_tick + 1 /\ tick_index' = tick_index + 1
    BY <1>1, <1>2, <1>4, <1>5
  <2> QED BY <2>1, <2>2
<1>10. UNCHANGED << controlVars, clockVars, next_command_sequence,
                    pendingVars, outputVars, at, frame, first_host_tick >>
  BY DEF Advance
<1> QED BY <1>1, <1>2, <1>3, <1>5, <1>6, <1>7, <1>8, <1>9, <1>10
       DEF TypeInv, TypeOK, PumpLocals, controlVars, clockVars, pendingVars,
           outputVars

LEMMA TypeInvPublish ==
  ASSUME TypeInv, Publish
  PROVE  TypeInv'
<1>1. /\ at = "frame" /\ frame \in Frames
      /\ tick_index = frame.selected_ticks /\ first_host_tick >= 1
      /\ host_tick = first_host_tick + tick_index - 1
      /\ frame.selected_ticks \in Nat /\ frame.selected_ticks >= 1
      /\ frame.sequence \in 1..U64Max
  <2>1. at = "frame" /\ tick_index = frame.selected_ticks
    BY DEF Publish
  <2>2. /\ frame \in Frames /\ first_host_tick >= 1
        /\ host_tick = first_host_tick + tick_index - 1
    BY <2>1 DEF TypeInv, PumpLocals
  <2> QED BY <2>1, <2>2, FrameFields
<1>2. first_host_tick \in 1..U64Max /\ host_tick \in 1..U64Max
      /\ U64Max \in Nat
  BY <1>1, ArithmeticAssumption DEF TypeInv, TypeOK
<1>3. [host_frame |-> frame.sequence, first_host_tick |-> first_host_tick,
       last_host_tick |-> host_tick, snapshot |-> latest_snapshot,
       events |-> event_batches] \in Publications
  BY <1>1, <1>2 DEF TypeInv, TypeOK, Publications
<1>4. publications' \in Seq(Publications)
  BY <1>3 DEF TypeInv, TypeOK, Publish
<1>5. /\ queued_snapshot_bytes' \in Nat /\ queued_event_batches' \in Nat
      /\ queued_event_bytes' \in Nat
  <2>1. latest_snapshot.bytes \in Nat
    BY ConstantTypes DEF TypeInv, TypeOK, Snapshots
  <2>2. /\ Len(event_batches) \in Nat /\ event_bytes \in Nat
        /\ queued_snapshot_bytes \in Nat /\ queued_event_batches \in Nat
        /\ queued_event_bytes \in Nat
    BY DEF TypeInv, TypeOK
  <2>3. /\ queued_snapshot_bytes' =
             queued_snapshot_bytes + latest_snapshot.bytes
        /\ queued_event_batches' = queued_event_batches + Len(event_batches)
        /\ queued_event_bytes' = queued_event_bytes + event_bytes
    BY DEF Publish
  <2> QED BY <2>1, <2>2, <2>3
<1>6. metrics' \in Metrics
  <2>1. metrics \in Metrics
    BY DEF TypeInv, TypeOK
  <2>2. metrics' = [metrics EXCEPT !.published_frames = @ + 1]
    BY DEF Publish
  <2> QED BY <2>1, <2>2 DEF Metrics
<1>7. NoSnapshot \in Snapshots
  BY ConstantTypes DEF Snapshots, NoSnapshot
<1> QED BY <1>1, <1>2, <1>4, <1>5, <1>6, <1>7
       DEF TypeInv, TypeOK, PumpLocals, Publish, LeaveFrame, controlVars,
           clockVars, commandVars, pendingVars

LEMMA TypeInvDrain ==
  ASSUME TypeInv, DrainPublications
  PROVE  TypeInv'
  BY DEF TypeInv, TypeOK, PumpLocals, DrainPublications, EmptyOutput,
           controlVars, clockVars, commandVars, pendingVars, pumpVars

LEMMA TypeInvShutdown ==
  ASSUME TypeInv, Shutdown
  PROVE  TypeInv'
<1>1. adapter' \in Adapters /\ fault' \in FaultCodes
  <2>1. adapter \in Adapters /\ fault \in FaultCodes
    BY DEF TypeInv, TypeOK
  <2>2. /\ adapter' = [adapter EXCEPT !.shutdowns = @ + 1]
        /\ fault' \in {fault, "Shutdown"}
    BY DEF Shutdown
  <2> QED BY <2>1, <2>2 DEF Adapters, FaultCodes
<1>2. /\ commands' = << >> /\ queued_command_bytes' = 0
      /\ pending_frames' = << >> /\ pending_ticks' = 0
      /\ publications' = << >> /\ queued_snapshot_bytes' = 0
      /\ queued_event_batches' = 0 /\ queued_event_bytes' = 0
  BY DEF Shutdown, ClearQueues, EmptyOutput
<1>3. /\ commands' \in Seq(Commands) /\ pending_frames' \in Seq(Frames)
      /\ publications' \in Seq(Publications)
  BY <1>2
<1>4. at = "idle" /\ lifecycle' = "Closed"
      /\ UNCHANGED << paused, suspended, clockVars, host_tick,
                      next_command_sequence, at, pumpVars, metrics >>
  BY DEF Shutdown
<1> QED BY <1>1, <1>2, <1>3, <1>4
       DEF TypeInv, TypeOK, PumpLocals, clockVars, pumpVars

LEMMA TypeInvNext == TypeInv /\ [Next]_vars => TypeInv'
<1> SUFFICES ASSUME TypeInv, [Next]_vars PROVE TypeInv'
  OBVIOUS
<1>1. CASE Next
  <2>1. CASE \E length \in CommandLengths : Submit(length)
    BY <2>1, TypeInvSubmit
  <2>2. CASE \E value \in BOOLEAN : SetPaused(value)
    BY <2>2, TypeInvSetPaused
  <2>3. CASE \E value \in BOOLEAN, now \in Samples : SetSuspended(value, now)
    BY <2>3, TypeInvSetSuspended
  <2>4. CASE \E now \in Samples : Observe(now)
    BY <2>4, TypeInvObserveNoFrame, TypeInvObserveFrame DEF Observe
  <2>5. CASE Pump \/ PumpReturn
    BY <2>5, TypeInvPump
  <2>6. CASE PumpTakeFrame
    BY <2>6, TypeInvPumpTakeFrame
  <2>7. CASE TickOverflow \/ AdvanceRejected
    BY <2>7, TypeInvFrameFault
  <2>8. CASE \E size \in 1..MaxSnapshotBytes,
                events \in 0..MaxEventBytesPerTick : Advance(size, events)
    BY <2>8, TypeInvAdvance
  <2>9. CASE Publish
    BY <2>9, TypeInvPublish
  <2>10. CASE DrainPublications
    BY <2>10, TypeInvDrain
  <2>11. CASE Shutdown
    BY <2>11, TypeInvShutdown
  <2> QED BY <1>1, <2>1, <2>2, <2>3, <2>4, <2>5, <2>6, <2>7, <2>8, <2>9,
             <2>10, <2>11 DEF Next, PumpStep
<1>2. CASE UNCHANGED vars
  BY <1>2 DEF TypeInv, TypeOK, PumpLocals, vars, controlVars, clockVars,
     commandVars, pendingVars, outputVars, pumpVars
<1> QED BY <1>1, <1>2

LEMMA TypeInvAlways == Spec => []TypeInv
BY TypeInvInit, TypeInvNext, PTL DEF Spec

\* The host's state is always well typed; in particular every pending frame
\* selects between one and MaximumTicksPerHostFrame ticks (debug_assert in
\* schedule_frame) and the remainder stays inside one tick.
THEOREM TypeCorrect == Spec => []TypeOK
<1>1. TypeInv => TypeOK
  BY DEF TypeInv
<1>2. QED
  BY <1>1, TypeInvAlways, PTL

-----------------------------------------------------------------------------
(* A stopped host.                                                          *)

Stopped ==
  lifecycle # "Running" =>
    /\ lifecycle' # "Running"
    /\ << host_tick, adapter.host_tick, adapter.command >>' =
         << host_tick, adapter.host_tick, adapter.command >>
    /\ publications' \in {publications, << >>}

\* Only a running host is inside pump(), so a stopped one can only be drained
\* or closed.
LEMMA StoppedStep == TypeInv /\ [Next]_vars => Stopped
<1> SUFFICES ASSUME TypeInv, [Next]_vars, lifecycle # "Running"
             PROVE  Stopped
  BY DEF Stopped
<1>1. at = "idle" /\ ~Running
  BY DEF TypeInv, PumpLocals, Running
<1>2. CASE DrainPublications
  BY <1>2 DEF DrainPublications, EmptyOutput, Stopped, controlVars
<1>3. CASE Shutdown
  <2>1. adapter \in Adapters /\ adapter' = [adapter EXCEPT !.shutdowns = @ + 1]
    BY <1>3 DEF Shutdown, TypeInv, TypeOK
  <2>2. /\ adapter'.host_tick = adapter.host_tick
        /\ adapter'.command = adapter.command
    BY <2>1 DEF Adapters
  <2> QED BY <1>3, <2>2 DEF Shutdown, ClearQueues, EmptyOutput, Stopped
<1>4. CASE UNCHANGED vars
  BY <1>4 DEF vars, controlVars, outputVars, Stopped
<1>5. ~PumpStep
  BY <1>1 DEF PumpStep, PumpReturn, PumpTakeFrame, TickOverflow,
     AdvanceRejected, Advance, Publish, ExecutingTick
<1> QED
  BY <1>1, <1>2, <1>3, <1>4, <1>5
     DEF Next, Submit, SetPaused, SetSuspended, Observe, ObserveWithoutFrame,
         ObserveRefused, ObserveFrame, Pump

\* After a fault or a shutdown no tick runs, no command is admitted and
\* nothing new is published.
THEOREM StoppedIsFinal == Spec => StoppedForGood
<1>1. TypeInv /\ [Next]_vars => [Stopped]_vars
  BY StoppedStep
<1> QED BY <1>1, TypeInvAlways, PTL DEF Spec, StoppedForGood, Stopped

-----------------------------------------------------------------------------
(* Time.                                                                    *)

\* Everything but a scheduled frame leaves the ledger alone.
LEMMA LedgerUntouched ==
  ASSUME TypeInv, [Next]_vars, \A now \in Samples : ~ObserveFrame(now)
  PROVE  /\ remainder' = remainder
         /\ metrics'.selected_ticks = metrics.selected_ticks
         /\ metrics'.admitted_elapsed = metrics.admitted_elapsed
<1>1. metrics \in Metrics
  BY DEF TypeInv, TypeOK
<1>2. \A m \in Metrics :
        /\ [m EXCEPT !.executed_ticks = @ + 1].selected_ticks = m.selected_ticks
        /\ [m EXCEPT !.executed_ticks = @ + 1].admitted_elapsed = m.admitted_elapsed
        /\ [m EXCEPT !.published_frames = @ + 1].selected_ticks = m.selected_ticks
        /\ [m EXCEPT !.published_frames = @ + 1].admitted_elapsed = m.admitted_elapsed
  BY DEF Metrics
<1>3. CASE \E size \in 1..MaxSnapshotBytes,
              events \in 0..MaxEventBytesPerTick : Advance(size, events)
  BY <1>1, <1>2, <1>3 DEF Advance, clockVars
<1>4. CASE Publish
  BY <1>1, <1>2, <1>4 DEF Publish, clockVars
<1>5. CASE Pump \/ PumpReturn \/ PumpTakeFrame \/ TickOverflow \/ AdvanceRejected
  BY <1>5 DEF Pump, PumpReturn, PumpTakeFrame, TickOverflow, AdvanceRejected,
     clockVars
<1>6. CASE DrainPublications \/ Shutdown
  BY <1>6 DEF DrainPublications, Shutdown, clockVars
<1>7. CASE \E length \in CommandLengths : Submit(length)
  BY <1>7 DEF Submit, clockVars
<1>8. CASE \E value \in BOOLEAN : SetPaused(value)
  BY <1>8 DEF SetPaused, clockVars
<1>9. CASE \E value \in BOOLEAN, now \in Samples : SetSuspended(value, now)
  BY <1>9 DEF SetSuspended
<1>10. CASE \E now \in Samples : Observe(now)
  BY <1>10 DEF Observe, ObserveWithoutFrame, ObserveRefused
<1>11. CASE UNCHANGED vars
  BY <1>11 DEF vars, clockVars
<1> QED BY <1>3, <1>4, <1>5, <1>6, <1>7, <1>8, <1>9, <1>10, <1>11
       DEF Next, PumpStep

\* Selecting q ticks moves q intervals from the remainder to the ticks.
LEMMA LedgerArithmetic ==
  ASSUME NEW s \in Nat, NEW q \in Nat, NEW r \in Nat, NEW e \in Nat,
         NEW i \in Nat
  PROVE  (s * i + r) + e = (s + q) * i + ((r + e) - q * i)
<1>1. (s + q) * i = s * i + q * i
  BY SMT
<1>2. s * i \in Nat /\ q * i \in Nat
  BY SMT
<1> DEFINE a == s * i
           b == q * i
<1> HIDE DEF a, b
<1>3. a \in Nat /\ b \in Nat /\ (s + q) * i = a + b
  BY <1>1, <1>2 DEF a, b
<1>4. (a + r) + e = (a + b) + ((r + e) - b)
  BY <1>3
<1> QED BY <1>3, <1>4 DEF a, b

LEMMA TimeLedgerStep ==
  ASSUME TypeInv, TimeLedger, [Next]_vars
  PROVE  TimeLedger'
<1>1. CASE \E now \in Samples : ObserveFrame(now)
  <2> PICK now \in Samples : ObserveFrame(now)
    BY <1>1
  <2> DEFINE elapsed == AdmittedElapsed(now)
             accumulated == remainder + elapsed
             selected == SelectedTicks(accumulated)
  <2>1. /\ elapsed \in Nat /\ selected \in Nat
        /\ metrics \in Metrics /\ remainder \in Nat /\ Interval \in Nat
    <3>1. previous # NoSample /\ TypeOK
      BY DEF ObserveFrame, TypeInv
    <3>2. elapsed \in Nat
      <4>1. elapsed \in MinElapsed..MaxElapsed
        BY <3>1, AdmittedElapsedBounds
      <4> HIDE DEF elapsed
      <4> QED BY <4>1, ConstantTypes
    <3>3. selected \in Nat
      <4>1. selected \in 0..MaximumTicksPerHostFrame
        BY <3>1, SelectionBounds
      <4> HIDE DEF selected
      <4> QED BY <4>1, ConstantTypes
    <3> QED BY <3>1, <3>2, <3>3, ConstantTypes DEF TypeOK
  <2>2. /\ metrics' = [metrics EXCEPT !.selected_ticks = @ + selected,
                                      !.admitted_elapsed = @ + elapsed]
        /\ remainder' = (remainder + elapsed) - selected * Interval
    BY DEF ObserveFrame, RemainderAfter
  <2> HIDE DEF elapsed, selected
  <2>3. /\ metrics'.selected_ticks = metrics.selected_ticks + selected
        /\ metrics'.admitted_elapsed = metrics.admitted_elapsed + elapsed
        /\ metrics.selected_ticks \in Nat
    BY <2>1, <2>2 DEF Metrics
  <2>4. metrics'.admitted_elapsed =
          (metrics.selected_ticks * Interval + remainder) + elapsed
    BY <2>3 DEF TimeLedger
  <2> QED BY <2>1, <2>2, <2>3, <2>4, LedgerArithmetic DEF TimeLedger
<1>2. CASE \A now \in Samples : ~ObserveFrame(now)
  BY <1>2, LedgerUntouched DEF TimeLedger
<1> QED BY <1>1, <1>2

\* The time the wall clock admitted is exactly the ticks selected and the
\* remainder: nothing is lost over pauses, suspension, reversals and refusals.
THEOREM TimeIsConserved == Spec => []TimeLedger
<1>1. Init => TimeLedger
  BY ConstantTypes DEF Init, TimeLedger
<1>2. TypeInv /\ TimeLedger /\ [Next]_vars => TimeLedger'
  BY TimeLedgerStep
<1> QED BY <1>1, <1>2, TypeInvAlways, PTL DEF Spec

-----------------------------------------------------------------------------
(* Ticks.                                                                   *)

TickLedgerRunning ==
  metrics.selected_ticks =
    host_tick + (frame.selected_ticks - tick_index) + pending_ticks

LEMMA TicksSelected ==
  ASSUME TypeInv, TickLedger, NEW now \in Samples, Observe(now)
  PROVE  TickLedger'
<1>1. /\ lifecycle = "Running" /\ TickLedgerRunning
      /\ metrics.executed_ticks = host_tick /\ metrics \in Metrics
      /\ UNCHANGED << host_tick, frame, tick_index >>
  BY DEF Observe, ObserveWithoutFrame, ObserveRefused, ObserveFrame, Running,
     TickLedger, TickLedgerRunning, TypeInv, TypeOK, pumpVars
<1>2. CASE UNCHANGED << metrics, pending_ticks >>
  BY <1>1, <1>2 DEF TickLedger, TickLedgerRunning
<1>3. CASE ObserveFrame(now)
  <2> DEFINE elapsed == AdmittedElapsed(now)
             selected == SelectedTicks(remainder + elapsed)
  <2>1. /\ metrics' = [metrics EXCEPT !.selected_ticks = @ + selected,
                                      !.admitted_elapsed = @ + elapsed]
        /\ lifecycle' = "Faulted" \/ pending_ticks' = pending_ticks + selected
    BY <1>3 DEF ObserveFrame, SetFault
  <2>2. selected \in Nat
    <3>1. previous # NoSample /\ TypeOK
      BY <1>3 DEF ObserveFrame, TypeInv
    <3>2. selected \in 0..MaximumTicksPerHostFrame
      BY <3>1, SelectionBounds
    <3> HIDE DEF selected
    <3> QED BY <3>2, ConstantTypes
  <2> HIDE DEF elapsed, selected
  <2>3. /\ metrics'.selected_ticks = metrics.selected_ticks + selected
        /\ metrics'.executed_ticks = metrics.executed_ticks
    BY <1>1, <2>1, <2>2 DEF Metrics
  <2>4. lifecycle' = "Running" => TickLedgerRunning'
    <3> DEFINE left == frame.selected_ticks - tick_index
    <3>1. left' = left /\ left \in Int
      <4>1. frame.selected_ticks \in Nat /\ tick_index \in Nat
        BY FrameFields DEF TypeInv, TypeOK, NoFrame
      <4> QED BY <1>1, <4>1
    <3>2. metrics.selected_ticks = host_tick + left + pending_ticks
      BY <1>1 DEF TickLedgerRunning
    <3>3. host_tick \in Nat /\ pending_ticks \in Int
      BY ArithmeticAssumption DEF TypeInv, TypeOK
    <3> HIDE DEF left
    <3>4. lifecycle' = "Running" =>
            metrics'.selected_ticks = host_tick' + left' + pending_ticks'
      BY <1>1, <2>1, <2>2, <2>3, <3>1, <3>2, <3>3
    <3> QED BY <3>4 DEF TickLedgerRunning, left
  <2> QED BY <1>1, <2>3, <2>4 DEF TickLedger, TickLedgerRunning
<1> QED BY <1>2, <1>3 DEF Observe, ObserveWithoutFrame, ObserveRefused,
       pendingVars

LEMMA TicksTaken ==
  ASSUME TypeInv, TickLedger, PumpTakeFrame
  PROVE  TickLedger'
<1> DEFINE n == Head(pending_frames).selected_ticks
<1>1. /\ lifecycle = "Running" /\ TickLedgerRunning
      /\ metrics.executed_ticks = host_tick
      /\ UNCHANGED << metrics, host_tick, tick_index >>
      /\ pending_ticks' = pending_ticks - n
      /\ lifecycle' = "Faulted" \/ frame' = Head(pending_frames)
      /\ frame = NoFrame /\ tick_index = 0
  BY DEF PumpTakeFrame, SetFault, TypeInv, PumpLocals, TickLedger,
     TickLedgerRunning
<1>2. n \in Nat
  <2>1. Head(pending_frames) \in Frames
    BY DEF PumpTakeFrame, FrameReady, TypeInv, TypeOK
  <2> QED BY <2>1, FrameFields
<1>3. /\ host_tick \in Nat /\ pending_ticks \in Int
      /\ metrics.selected_ticks = host_tick + pending_ticks
  BY <1>1, ArithmeticAssumption
     DEF TickLedgerRunning, NoFrame, TypeInv, TypeOK
<1>4. frame' = Head(pending_frames) => frame'.selected_ticks = n
  OBVIOUS
<1> HIDE DEF n
<1>5. lifecycle' = "Running" => TickLedgerRunning'
  <2> SUFFICES ASSUME lifecycle' = "Running" PROVE TickLedgerRunning'
    OBVIOUS
  <2>1. frame'.selected_ticks = n /\ tick_index' = 0
    BY <1>1, <1>4
  <2>2. metrics'.selected_ticks = host_tick' + (n - 0) + pending_ticks'
    BY <1>1, <1>2, <1>3
  <2> QED BY <2>1, <2>2 DEF TickLedgerRunning
<1> QED BY <1>1, <1>5 DEF TickLedger, TickLedgerRunning

LEMMA TicksExecuted ==
  ASSUME TypeInv, TickLedger,
         NEW size \in 1..MaxSnapshotBytes,
         NEW events \in 0..MaxEventBytesPerTick, Advance(size, events)
  PROVE  TickLedger'
<1>1. /\ lifecycle = "Running" /\ frame \in Frames
      /\ metrics.executed_ticks = host_tick
      /\ TickLedgerRunning
  BY DEF Advance, ExecutingTick, TypeInv, PumpLocals, TickLedger,
     TickLedgerRunning
<1>2. /\ metrics' = [metrics EXCEPT !.executed_ticks = @ + 1]
      /\ host_tick' = host_tick + 1 /\ tick_index' = tick_index + 1
      /\ frame' = frame /\ pending_ticks' = pending_ticks
  BY DEF Advance, pendingVars
<1>3. /\ metrics \in Metrics /\ host_tick \in Nat /\ tick_index \in Nat
      /\ pending_ticks \in Int
  BY ArithmeticAssumption DEF TypeInv, TypeOK
<1>4. /\ metrics'.executed_ticks = host_tick'
      /\ metrics'.selected_ticks = metrics.selected_ticks
  BY <1>1, <1>2, <1>3 DEF Metrics
<1> DEFINE n == frame.selected_ticks
<1>5. n \in Nat /\ n' = n
  BY <1>1, <1>2, FrameFields
<1>6. metrics.selected_ticks = host_tick + (n - tick_index) + pending_ticks
  BY <1>1 DEF TickLedgerRunning
<1> HIDE DEF n
<1>7. metrics'.selected_ticks =
        host_tick' + (n' - tick_index') + pending_ticks'
  BY <1>2, <1>3, <1>4, <1>5, <1>6
<1> QED BY <1>4, <1>7 DEF TickLedger, n

LEMMA TicksPublished ==
  ASSUME TypeInv, TickLedger, Publish
  PROVE  TickLedger'
<1>1. /\ lifecycle = "Running" /\ frame \in Frames
      /\ tick_index = frame.selected_ticks
      /\ metrics.executed_ticks = host_tick /\ TickLedgerRunning
  BY DEF Publish, TypeInv, PumpLocals, TickLedger, TickLedgerRunning
<1>2. /\ metrics' = [metrics EXCEPT !.published_frames = @ + 1]
      /\ frame' = NoFrame /\ tick_index' = 0
      /\ UNCHANGED << host_tick, pending_ticks >>
  BY DEF Publish, LeaveFrame, pendingVars
<1>3. /\ metrics'.executed_ticks = metrics.executed_ticks
      /\ metrics'.selected_ticks = metrics.selected_ticks
  BY <1>2 DEF TypeInv, TypeOK, Metrics
<1>4. /\ host_tick \in Nat /\ pending_ticks \in Int /\ tick_index \in Nat
      /\ metrics.selected_ticks = host_tick + pending_ticks
  BY <1>1, ArithmeticAssumption DEF TickLedgerRunning, TypeInv, TypeOK
<1>5. TickLedgerRunning'
  BY <1>2, <1>3, <1>4 DEF TickLedgerRunning, NoFrame
<1> QED BY <1>1, <1>2, <1>3, <1>5 DEF TickLedger, TickLedgerRunning

LEMMA TickLedgerStep ==
  ASSUME TypeInv, TickLedger, [Next]_vars
  PROVE  TickLedger'
<1>1. CASE \E now \in Samples : Observe(now)
  BY <1>1, TicksSelected
<1>2. CASE PumpTakeFrame
  BY <1>2, TicksTaken
<1>3. CASE \E size \in 1..MaxSnapshotBytes,
              events \in 0..MaxEventBytesPerTick : Advance(size, events)
  BY <1>3, TicksExecuted
<1>4. CASE Publish
  BY <1>4, TicksPublished
<1>5. CASE TickOverflow \/ AdvanceRejected \/ Shutdown
  <2>1. lifecycle' # "Running" /\ UNCHANGED << metrics, host_tick >>
    BY <1>5 DEF TickOverflow, AdvanceRejected, Shutdown, SetFault
  <2> QED BY <2>1 DEF TickLedger
<1>6. CASE \/ \E length \in CommandLengths : Submit(length)
           \/ \E value \in BOOLEAN : SetPaused(value)
           \/ \E value \in BOOLEAN, now \in Samples : SetSuspended(value, now)
           \/ Pump \/ PumpReturn \/ DrainPublications \/ UNCHANGED vars
  <2>1. UNCHANGED << lifecycle, metrics, host_tick, frame, tick_index,
                     pending_ticks >>
    BY <1>6 DEF Submit, SetPaused, SetSuspended, Pump, PumpReturn,
       DrainPublications, vars, controlVars, pendingVars, pumpVars
  <2> QED BY <2>1 DEF TickLedger
<1> QED BY <1>1, <1>2, <1>3, <1>4, <1>5, <1>6 DEF Next, PumpStep

\* While the host runs, every tick the clock selected has been executed, is
\* part of the frame being executed or is pending.
THEOREM TicksAreConserved == Spec => []TickLedger
<1>1. Init => TickLedger
  BY DEF Init, TickLedger, NoFrame
<1>2. TypeInv /\ TickLedger /\ [Next]_vars => TickLedger'
  BY TickLedgerStep
<1> QED BY <1>1, <1>2, TypeInvAlways, PTL DEF Spec

-----------------------------------------------------------------------------
(* Commands.                                                                *)

\* Every step but a submission, an advance and a stop leaves the commands, and
\* what the adapter has been handed of them, alone.
LEMMA CommandsUntouched ==
  ASSUME [Next]_vars, lifecycle' = "Running",
         \A length \in CommandLengths : ~Submit(length),
         \A size \in 1..MaxSnapshotBytes, events \in 0..MaxEventBytesPerTick :
           ~Advance(size, events)
  PROVE  UNCHANGED << commands, next_command_sequence, adapter >>
<1>1. CASE DrainPublications \/ Publish \/ Pump \/ PumpReturn \/ PumpTakeFrame
  BY <1>1 DEF DrainPublications, Publish, Pump, PumpReturn, PumpTakeFrame,
     commandVars
<1>2. CASE \E value \in BOOLEAN : SetPaused(value)
  BY <1>2 DEF SetPaused, commandVars
<1>3. CASE \E value \in BOOLEAN, now \in Samples : SetSuspended(value, now)
  BY <1>3 DEF SetSuspended, commandVars
<1>4. CASE \E now \in Samples : Observe(now)
  BY <1>4 DEF Observe, ObserveWithoutFrame, ObserveRefused, ObserveFrame,
     commandVars
<1>5. CASE UNCHANGED vars
  BY <1>5 DEF vars, commandVars
<1>6. ~TickOverflow /\ ~AdvanceRejected /\ ~Shutdown
  BY DEF TickOverflow, AdvanceRejected, Shutdown, SetFault
<1> QED BY <1>1, <1>2, <1>3, <1>4, <1>5, <1>6 DEF Next, PumpStep

LEMMA CommandsSubmit ==
  ASSUME TypeInv, CommandsExactlyOnce,
         NEW length \in CommandLengths, Submit(length)
  PROVE  CommandsExactlyOnce'
<1> DEFINE c == [sequence |-> next_command_sequence, bytes |-> length]
<1>1. /\ lifecycle = "Running" /\ adapter' = adapter
      /\ next_command_sequence' = next_command_sequence + 1
      /\ commands' = Append(commands, c)
  BY DEF Submit, Running
<1>2. /\ next_command_sequence = adapter.command + Len(commands) + 1
      /\ \A i \in DOMAIN commands : commands[i].sequence = adapter.command + i
  BY <1>1 DEF CommandsExactlyOnce
<1>3. commands \in Seq(Commands) /\ adapter.command \in Nat
  BY ArithmeticAssumption DEF TypeInv, TypeOK, Adapters
<1>4. /\ Len(commands') = Len(commands) + 1
      /\ DOMAIN commands' = 1..(Len(commands) + 1)
      /\ \A i \in 1..Len(commands) : commands'[i] = commands[i]
      /\ commands'[Len(commands) + 1].sequence = next_command_sequence
  BY <1>1, <1>3
<1>5. \A i \in DOMAIN commands' : commands'[i].sequence = adapter.command + i
  <2> SUFFICES ASSUME NEW i \in DOMAIN commands'
               PROVE  commands'[i].sequence = adapter.command + i
    OBVIOUS
  <2>1. CASE i = Len(commands) + 1
    BY <1>2, <1>3, <1>4, <2>1
  <2>2. CASE i \in 1..Len(commands)
    BY <1>2, <1>3, <1>4, <2>2
  <2> QED BY <1>3, <1>4, <2>1, <2>2
<1>6. next_command_sequence' = adapter.command + Len(commands') + 1
  <2>1. Len(commands) \in Nat /\ Len(commands') = Len(commands) + 1
    BY <1>3, <1>4
  <2>2. next_command_sequence = adapter.command + Len(commands) + 1
    BY <1>2
  <2>3. next_command_sequence' = next_command_sequence + 1
    BY <1>1
  <2> QED BY <1>3, <2>1, <2>2, <2>3
<1> QED BY <1>1, <1>5, <1>6 DEF CommandsExactlyOnce

LEMMA CommandsAdvance ==
  ASSUME TypeInv, CommandsExactlyOnce,
         NEW size \in 1..MaxSnapshotBytes,
         NEW events \in 0..MaxEventBytesPerTick, Advance(size, events)
  PROVE  CommandsExactlyOnce'
<1>1. /\ AdapterAdvanced /\ AdmitCommands
      /\ UNCHANGED next_command_sequence
      /\ at = "frame" /\ lifecycle = "Running"
  BY DEF Advance, ExecutingTick, TypeInv, PumpLocals
<1>2. /\ next_command_sequence = adapter.command + Len(commands) + 1
      /\ \A i \in DOMAIN commands : commands[i].sequence = adapter.command + i
  BY <1>1 DEF CommandsExactlyOnce
<1>3. /\ commands \in Seq(Commands) /\ adapter.command \in Nat
      /\ adapter \in Adapters
  BY ArithmeticAssumption DEF TypeInv, TypeOK, Adapters
<1>4. CASE tick_index = 0 /\ commands # << >>
  <2>1. Len(commands) \in DOMAIN commands /\ Len(commands) \in Nat
    BY <1>3, <1>4
  <2>2. adapter'.command = commands[Len(commands)].sequence
    BY <1>1, <1>3, <1>4 DEF AdapterAdvanced, Adapters
  <2>3. adapter'.command = adapter.command + Len(commands) /\ commands' = << >>
    BY <1>1, <1>2, <1>4, <2>1, <2>2 DEF AdmitCommands
  <2> QED BY <1>1, <1>2, <1>3, <2>1, <2>3 DEF CommandsExactlyOnce
<1>5. CASE ~(tick_index = 0 /\ commands # << >>)
  <2>1. adapter'.command = adapter.command
    BY <1>1, <1>3, <1>5 DEF AdapterAdvanced, Adapters
  <2>2. commands' = commands
    BY <1>1, <1>5 DEF AdmitCommands
  <2> QED BY <1>1, <1>2, <2>1, <2>2 DEF CommandsExactlyOnce
<1> QED BY <1>4, <1>5

LEMMA CommandsStep ==
  ASSUME TypeInv, CommandsExactlyOnce, [Next]_vars
  PROVE  CommandsExactlyOnce'
<1>1. CASE lifecycle' # "Running"
  BY <1>1 DEF CommandsExactlyOnce
<1>2. CASE \E length \in CommandLengths : Submit(length)
  BY <1>2, CommandsSubmit
<1>3. CASE \E size \in 1..MaxSnapshotBytes,
              events \in 0..MaxEventBytesPerTick : Advance(size, events)
  BY <1>3, CommandsAdvance
<1>4. CASE /\ lifecycle' = "Running"
           /\ \A length \in CommandLengths : ~Submit(length)
           /\ \A size \in 1..MaxSnapshotBytes,
                 events \in 0..MaxEventBytesPerTick : ~Advance(size, events)
  <2>1. UNCHANGED << commands, next_command_sequence, adapter >>
    BY <1>4, CommandsUntouched
  <2>2. lifecycle = "Running"
    BY <1>4, StoppedStep DEF Stopped
  <2> QED BY <2>1, <2>2 DEF CommandsExactlyOnce
<1> QED BY <1>1, <1>2, <1>3, <1>4

\* Every submitted command reaches the adapter once, in submission order,
\* however many frames are backpressured, paused or suspended in between.
THEOREM CommandsAreDeliveredOnce == Spec => []CommandsExactlyOnce
<1>1. Init => CommandsExactlyOnce
  BY DEF Init, CommandsExactlyOnce
<1>2. TypeInv /\ CommandsExactlyOnce /\ [Next]_vars => CommandsExactlyOnce'
  BY CommandsStep
<1> QED BY <1>1, <1>2, TypeInvAlways, PTL DEF Spec

-----------------------------------------------------------------------------
(* The adapter.                                                             *)

\* A running host and its adapter agree on the tick, and the adapter is shut
\* down by the step that closes the host.
AdapterInv ==
  /\ lifecycle = "Running" => adapter.host_tick = host_tick
  /\ lifecycle # "Closed" => adapter.shutdowns = 0
  /\ adapter.shutdowns <= 1

InOrder ==
  /\ adapter'.host_tick \in {adapter.host_tick, adapter.host_tick + 1}
  /\ host_tick' # host_tick => adapter'.host_tick = adapter.host_tick + 1
  /\ adapter'.shutdowns <= 1

LEMMA AdapterUntouched ==
  ASSUME AdapterInv, UNCHANGED << adapter, host_tick >>,
         lifecycle' = lifecycle \/ (lifecycle = "Running" /\ lifecycle' = "Faulted")
  PROVE  AdapterInv' /\ InOrder
BY DEF AdapterInv, InOrder

\* A call of advance, committed or refused.
LEMMA AdapterCalled ==
  ASSUME TypeInv, AdapterInv, at = "frame", host_tick < U64Max, AdapterAdvanced,
         \/ lifecycle' = lifecycle /\ host_tick' = host_tick + 1
         \/ lifecycle' = "Faulted" /\ host_tick' = host_tick
  PROVE  AdapterInv' /\ InOrder
<1>1. adapter \in Adapters /\ lifecycle = "Running"
  BY DEF TypeInv, TypeOK, PumpLocals
<1>2. /\ adapter'.host_tick = host_tick + 1
      /\ adapter'.shutdowns = adapter.shutdowns
  BY <1>1 DEF AdapterAdvanced, Adapters
<1>3. adapter.host_tick = host_tick /\ adapter.shutdowns = 0
  BY <1>1 DEF AdapterInv
<1> QED BY <1>1, <1>2, <1>3 DEF AdapterInv, InOrder

LEMMA AdapterStep ==
  ASSUME TypeInv, AdapterInv, [Next]_vars
  PROVE  AdapterInv' /\ InOrder
<1>1. CASE \E size \in 1..MaxSnapshotBytes,
              events \in 0..MaxEventBytesPerTick : Advance(size, events)
  BY <1>1, AdapterCalled DEF Advance, ExecutingTick, controlVars
<1>2. CASE AdvanceRejected
  BY <1>2, AdapterCalled DEF AdvanceRejected, ExecutingTick, SetFault
<1>3. CASE Shutdown
  <2>1. /\ adapter \in Adapters /\ adapter.shutdowns = 0
        /\ adapter' = [adapter EXCEPT !.shutdowns = @ + 1]
        /\ lifecycle' = "Closed" /\ host_tick' = host_tick
    BY <1>3 DEF Shutdown, AdapterInv, TypeInv, TypeOK
  <2>2. adapter'.shutdowns = 1 /\ adapter'.host_tick = adapter.host_tick
    BY <2>1 DEF Adapters
  <2> QED BY <2>1, <2>2 DEF AdapterInv, InOrder
<1>4. CASE \/ Pump \/ PumpReturn \/ PumpTakeFrame \/ TickOverflow \/ Publish
           \/ DrainPublications
  <2>1. UNCHANGED << adapter, host_tick >>
    BY <1>4 DEF Pump, PumpReturn, PumpTakeFrame, TickOverflow, Publish,
       DrainPublications
  <2>2. \/ lifecycle' = lifecycle
        \/ (at # "idle" /\ lifecycle' = "Faulted")
    BY <1>4 DEF Pump, PumpReturn, PumpTakeFrame, TickOverflow, Publish,
       DrainPublications, SetFault, controlVars, ExecutingTick
  <2> QED BY <2>1, <2>2, AdapterUntouched DEF TypeInv, PumpLocals
<1>5. CASE \/ \E length \in CommandLengths : Submit(length)
           \/ \E value \in BOOLEAN : SetPaused(value)
           \/ \E value \in BOOLEAN, now \in Samples : SetSuspended(value, now)
  BY <1>5, AdapterUntouched DEF Submit, SetPaused, SetSuspended, controlVars
<1>6. CASE \E now \in Samples : Observe(now)
  <2> PICK now \in Samples : Observe(now)
    BY <1>6
  <2>1. CASE ObserveWithoutFrame(now)
    BY <2>1, AdapterUntouched DEF ObserveWithoutFrame, controlVars
  <2>2. CASE ObserveRefused(now)
    BY <2>2, AdapterUntouched DEF ObserveRefused, Running, SetFault
  <2>3. CASE ObserveFrame(now)
    <3>1. lifecycle = "Running" /\ lifecycle' \in {"Running", "Faulted"}
      BY <2>3 DEF ObserveFrame, Running, SetFault
    <3>2. UNCHANGED << adapter, host_tick >>
      BY <2>3 DEF ObserveFrame
    <3> QED BY <3>1, <3>2, AdapterUntouched
  <2> QED BY <2>1, <2>2, <2>3 DEF Observe
<1>7. CASE UNCHANGED vars
  BY <1>7, AdapterUntouched DEF vars, controlVars
<1> QED BY <1>1, <1>2, <1>3, <1>4, <1>5, <1>6, <1>7 DEF Next, PumpStep

\* The adapter sees every tick once and in order, the faulting one included,
\* and is shut down at most once.
THEOREM AdapterIsAdvancedInOrder == Spec => AdapterAdvancesInOrder
<1>1. Init => AdapterInv
  BY DEF Init, AdapterInv
<1>2. TypeInv /\ AdapterInv /\ [Next]_vars => AdapterInv' /\ [InOrder]_vars
  BY AdapterStep
<1> QED BY <1>1, <1>2, TypeInvAlways, PTL
       DEF Spec, AdapterAdvancesInOrder, InOrder

-----------------------------------------------------------------------------
(* Limits.  What keeps the output queues within them is the reservation     *)
(* made when a frame is taken; it is used up only when the frame is         *)
(* published, any number of adapter calls later.                            *)

LimitsInv ==
  QueuesWithinLimits /\ Reservation /\ EmptyOutputCounters

\* Publishing uses no more than what was reserved.
LEMMA LimitsPublish ==
  ASSUME TypeInv, LimitsInv, Publish
  PROVE  LimitsInv'
<1>1. /\ at = "frame" /\ tick_index = frame.selected_ticks
      /\ queued_snapshot_bytes' = queued_snapshot_bytes + latest_snapshot.bytes
      /\ queued_event_batches' = queued_event_batches + Len(event_batches)
      /\ queued_event_bytes' = queued_event_bytes + event_bytes
      /\ at' = "pump" /\ tick_index' = 0 /\ event_batches' = << >>
      /\ event_bytes' = 0
  BY DEF Publish, LeaveFrame
<1>2. /\ publications' # << >> /\ Len(publications') = Len(publications) + 1
      /\ Len(publications) \in Nat
  <2>1. publications \in Seq(Publications)
    BY DEF TypeInv, TypeOK
  <2>2. \E p : publications' = Append(publications, p)
    BY DEF Publish
  <2> QED BY <2>1, <2>2
<1>3. /\ latest_snapshot.bytes \in Nat /\ latest_snapshot.bytes <= MaxSnapshotBytes
      /\ queued_snapshot_bytes \in Nat /\ queued_event_batches \in Nat
      /\ queued_event_bytes \in Nat /\ event_bytes \in Nat /\ tick_index \in Nat
  BY ConstantTypes DEF TypeInv, TypeOK, Snapshots
<1> DEFINE reserved == MaxEventBytesPerTick * tick_index
<1>4. /\ Len(event_batches) = tick_index /\ event_bytes <= reserved
      /\ PublicationCapacity(tick_index)
  <2>1. PublicationCapacity(frame.selected_ticks)
    BY <1>1 DEF LimitsInv, Reservation
  <2>2. PublicationCapacity(tick_index)
    BY <1>1, <2>1
  <2> QED BY <2>2 DEF LimitsInv, Reservation
<1>5. /\ Len(publications') <= MaxQueuedPublications
      /\ queued_snapshot_bytes' <= MaxQueuedSnapshotBytes
      /\ queued_event_batches' <= MaxQueuedEventBatches
      /\ queued_event_bytes' <= MaxQueuedEventBytes
  <2>1. reserved \in Nat
    BY <1>3, ConstantTypes
  <2>2. /\ Len(publications) + 1 <= MaxQueuedPublications
        /\ queued_snapshot_bytes + MaxSnapshotBytes <= MaxQueuedSnapshotBytes
        /\ queued_event_batches + tick_index <= MaxQueuedEventBatches
        /\ queued_event_bytes + reserved <= MaxQueuedEventBytes
    BY <1>4 DEF PublicationCapacity
  <2> HIDE DEF reserved
  <2>3. Len(publications') <= MaxQueuedPublications
        /\ queued_event_batches' <= MaxQueuedEventBatches
    BY <1>1, <1>2, <1>4, <2>2
  <2>4. queued_snapshot_bytes' <= MaxQueuedSnapshotBytes
    <3> DEFINE bytes == latest_snapshot.bytes
    <3>1. /\ queued_snapshot_bytes' = queued_snapshot_bytes + bytes
          /\ bytes \in Nat /\ bytes <= MaxSnapshotBytes
          /\ queued_snapshot_bytes \in Nat
      BY <1>1, <1>3
    <3> HIDE DEF bytes
    <3> QED BY <2>2, <3>1, ConstantTypes
  <2>5. queued_event_bytes' <= MaxQueuedEventBytes
    BY <1>1, <1>3, <1>4, <2>1, <2>2, ConstantTypes
  <2> QED BY <2>3, <2>4, <2>5
<1> HIDE DEF reserved
<1>6. UNCHANGED << commandVars, pending_frames >>
  BY DEF Publish, pendingVars
<1>7. QueuesWithinLimits'
  BY <1>5, <1>6 DEF LimitsInv, QueuesWithinLimits, commandVars
<1>8. Reservation' /\ EmptyOutputCounters'
  BY <1>1, <1>2, ConstantTypes DEF Reservation, EmptyOutputCounters
<1> QED BY <1>7, <1>8 DEF LimitsInv

LEMMA LimitsAdvance ==
  ASSUME TypeInv, LimitsInv,
         NEW size \in 1..MaxSnapshotBytes,
         NEW events \in 0..MaxEventBytesPerTick, Advance(size, events)
  PROVE  LimitsInv'
<1>1. /\ at = "frame" /\ at' = at /\ frame' = frame
      /\ tick_index' = tick_index + 1 /\ event_bytes' = event_bytes + events
      /\ UNCHANGED << outputVars, pending_frames >>
      /\ AdmitCommands
  BY DEF Advance, ExecutingTick, pendingVars
<1>2. /\ event_bytes \in Nat /\ tick_index \in Nat /\ events \in Nat
      /\ events <= MaxEventBytesPerTick
      /\ event_batches \in Seq(EventBatches)
  BY ConstantTypes DEF TypeInv, TypeOK
<1>3. /\ event_bytes <= MaxEventBytesPerTick * tick_index
      /\ Len(event_batches) = tick_index
      /\ PublicationCapacity(frame.selected_ticks)
  BY <1>1 DEF LimitsInv, Reservation
<1>4. event_bytes' <= MaxEventBytesPerTick * tick_index'
  <2> DEFINE a == MaxEventBytesPerTick * tick_index
  <2>1. MaxEventBytesPerTick * (tick_index + 1) = a + MaxEventBytesPerTick
        /\ a \in Nat
    BY <1>2, ConstantTypes
  <2> HIDE DEF a
  <2>2. event_bytes <= a
    BY <1>3 DEF a
  <2> QED BY <1>1, <1>2, <2>1, <2>2, ConstantTypes
<1>5. Len(event_batches') = tick_index'
  <2>1. event_batches' = Append(event_batches,
                           [host_tick |-> host_tick + 1, bytes |-> events])
    BY DEF Advance
  <2> QED BY <1>1, <1>2, <1>3, <2>1
<1>6. PublicationCapacity(frame.selected_ticks)'
  BY <1>1, <1>3 DEF PublicationCapacity, outputVars
<1>7. Len(commands') <= MaxQueuedCommands
      /\ queued_command_bytes' <= MaxQueuedCommandBytes
  BY <1>1, ConstantTypes DEF AdmitCommands, LimitsInv, QueuesWithinLimits
<1> QED BY <1>1, <1>4, <1>5, <1>6, <1>7
       DEF LimitsInv, QueuesWithinLimits, Reservation, EmptyOutputCounters,
           outputVars

LEMMA LimitsTakeFrame ==
  ASSUME TypeInv, LimitsInv, PumpTakeFrame
  PROVE  LimitsInv'
<1>1. /\ PublicationCapacity(Head(pending_frames).selected_ticks)
      /\ pending_frames \in Seq(Frames) /\ pending_frames # << >>
      /\ pending_frames' = Tail(pending_frames)
  BY DEF PumpTakeFrame, FrameReady, TypeInv, TypeOK
<1>2. /\ UNCHANGED << commandVars, outputVars, tick_index, event_batches,
                      event_bytes >>
      /\ at' = "frame" => frame' = Head(pending_frames)
  BY DEF PumpTakeFrame
<1>3. Len(pending_frames') <= MaxPendingFrames
  BY <1>1, ConstantTypes DEF LimitsInv, QueuesWithinLimits
<1>4. at' = "frame" => PublicationCapacity(frame.selected_ticks)'
  BY <1>1, <1>2 DEF PublicationCapacity, outputVars
<1> QED BY <1>2, <1>3, <1>4
       DEF LimitsInv, QueuesWithinLimits, Reservation, EmptyOutputCounters,
           commandVars, outputVars

LEMMA LimitsObserve ==
  ASSUME TypeInv, LimitsInv, NEW now \in Samples, Observe(now)
  PROVE  LimitsInv'
<1>1. /\ at = "idle" /\ at' # "frame"
      /\ UNCHANGED << commandVars, outputVars, tick_index, event_batches,
                      event_bytes >>
  BY DEF Observe, ObserveWithoutFrame, ObserveRefused, ObserveFrame, Running,
     pumpVars
<1>2. Len(pending_frames') <= MaxPendingFrames
  <2>1. CASE pending_frames' = pending_frames
    BY <2>1 DEF LimitsInv, QueuesWithinLimits
  <2>2. CASE pending_frames' # pending_frames
    <3> DEFINE selected == SelectedTicks(remainder + AdmittedElapsed(now))
    <3>1. /\ ObserveFrame(now) /\ selected # 0
          /\ pending_frames' = Append(pending_frames, NewFrame(selected))
          /\ selected > 0 => Len(pending_frames) < MaxPendingFrames
      BY <2>2 DEF Observe, ObserveWithoutFrame, ObserveRefused, ObserveFrame,
         pendingVars
    <3>2. selected > 0 /\ pending_frames \in Seq(Frames)
      <4>1. previous # NoSample /\ TypeOK /\ pending_frames \in Seq(Frames)
        BY <3>1 DEF ObserveFrame, TypeInv, TypeOK
      <4>2. selected \in 0..MaximumTicksPerHostFrame
        BY <4>1, SelectionBounds
      <4> HIDE DEF selected
      <4> QED BY <3>1, <4>1, <4>2, ConstantTypes
    <3> HIDE DEF selected
    <3> QED BY <3>1, <3>2, ConstantTypes
  <2> QED BY <2>1, <2>2
<1> QED BY <1>1, <1>2
       DEF LimitsInv, QueuesWithinLimits, Reservation, EmptyOutputCounters,
           commandVars, outputVars

LEMMA LimitsStep ==
  ASSUME TypeInv, LimitsInv, [Next]_vars
  PROVE  LimitsInv'
<1>1. CASE \E length \in CommandLengths : Submit(length)
  <2> PICK length \in CommandLengths : Submit(length)
    BY <1>1
  <2>1. /\ commands \in Seq(Commands)
        /\ commands' = Append(commands, [sequence |-> next_command_sequence,
                                         bytes |-> length])
        /\ Len(commands) + 1 <= MaxQueuedCommands
        /\ queued_command_bytes' <= MaxQueuedCommandBytes
        /\ UNCHANGED << pending_frames, outputVars, at, pumpVars >>
    BY DEF Submit, CommandFits, TypeInv, TypeOK, pendingVars
  <2>2. Len(commands') <= MaxQueuedCommands
    BY <2>1
  <2> QED BY <2>1, <2>2
         DEF LimitsInv, QueuesWithinLimits, Reservation, EmptyOutputCounters,
             PublicationCapacity, outputVars, pumpVars
<1>2. CASE \/ \E value \in BOOLEAN : SetPaused(value)
           \/ \E value \in BOOLEAN, now \in Samples : SetSuspended(value, now)
           \/ Pump \/ PumpReturn
  <2>1. /\ UNCHANGED << commandVars, pendingVars, outputVars, pumpVars >>
        /\ at' = "frame" => at = "frame"
    BY <1>2 DEF SetPaused, SetSuspended, Pump, PumpReturn
  <2> QED BY <2>1
         DEF LimitsInv, QueuesWithinLimits, Reservation, EmptyOutputCounters,
             PublicationCapacity, commandVars, pendingVars, outputVars, pumpVars
<1>3. CASE \E now \in Samples : Observe(now)
  BY <1>3, LimitsObserve
<1>4. CASE PumpTakeFrame
  BY <1>4, LimitsTakeFrame
<1>5. CASE TickOverflow \/ AdvanceRejected
  <2>1. /\ at' = "idle" /\ tick_index' = 0 /\ event_batches' = << >>
        /\ event_bytes' = 0
        /\ UNCHANGED << commandVars, pendingVars, outputVars >>
    BY <1>5 DEF TickOverflow, AdvanceRejected, LeaveFrame
  <2> QED BY <2>1, ConstantTypes
         DEF LimitsInv, QueuesWithinLimits, Reservation, EmptyOutputCounters,
             commandVars, pendingVars, outputVars
<1>6. CASE \E size \in 1..MaxSnapshotBytes,
              events \in 0..MaxEventBytesPerTick : Advance(size, events)
  BY <1>6, LimitsAdvance
<1>7. CASE Publish
  BY <1>7, LimitsPublish
<1>8. CASE DrainPublications \/ Shutdown
  <2>1. /\ at' = "idle" /\ EmptyOutput
        /\ UNCHANGED << tick_index, event_batches, event_bytes >>
        /\ \/ UNCHANGED << commands, queued_command_bytes, pending_frames >>
           \/ /\ commands' = << >> /\ queued_command_bytes' = 0
              /\ pending_frames' = << >>
    BY <1>8 DEF DrainPublications, Shutdown, ClearQueues, commandVars,
       pendingVars, pumpVars
  <2>2. QueuesWithinLimits'
    BY <2>1, ConstantTypes DEF LimitsInv, QueuesWithinLimits, EmptyOutput
  <2>3. Reservation'
    BY <2>1 DEF LimitsInv, Reservation
  <2>4. EmptyOutputCounters'
    BY <2>1 DEF EmptyOutputCounters, EmptyOutput
  <2> QED BY <2>2, <2>3, <2>4 DEF LimitsInv
<1>9. CASE UNCHANGED vars
  BY <1>9 DEF LimitsInv, QueuesWithinLimits, Reservation, EmptyOutputCounters,
     PublicationCapacity, vars, commandVars, pendingVars, outputVars, pumpVars
<1> QED BY <1>1, <1>2, <1>3, <1>4, <1>5, <1>6, <1>7, <1>8, <1>9
       DEF Next, PumpStep

LEMMA LimitsInvAlways == Spec => []LimitsInv
<1>1. Init => LimitsInv
  BY ConstantTypes DEF Init, LimitsInv, QueuesWithinLimits, Reservation,
     EmptyOutputCounters
<1>2. TypeInv /\ LimitsInv /\ [Next]_vars => LimitsInv'
  BY LimitsStep
<1> QED BY <1>1, <1>2, TypeInvAlways, PTL DEF Spec

\* No queue ever exceeds its limit, although the room for a frame's output is
\* reserved when the frame is taken and used several adapter calls later.
THEOREM QueuesKeepTheirLimits == Spec => []QueuesWithinLimits
<1>1. LimitsInv => QueuesWithinLimits
  BY DEF LimitsInv
<1> QED BY <1>1, LimitsInvAlways, PTL

\* The limits cannot block the host for good: once the consumer has drained
\* the output, the frame at the front fits whatever it selected.  This is what
\* the inequalities of Configuration::new are for.
THEOREM DrainedOutputAdmitsAnyFrame == Spec => []EmptyOutputAdmitsAnyFrame
<1>1. TypeInv /\ LimitsInv => EmptyOutputAdmitsAnyFrame
  <2> SUFFICES ASSUME TypeInv, LimitsInv, publications = << >>,
                      pending_frames # << >>
               PROVE  PublicationCapacity(Head(pending_frames).selected_ticks)
    BY DEF EmptyOutputAdmitsAnyFrame
  <2> DEFINE n == Head(pending_frames).selected_ticks
             m == MaximumTicksPerHostFrame
  <2>1. n \in Nat /\ n <= m /\ m \in Nat
    <3>1. Head(pending_frames) \in Frames
      BY DEF TypeInv, TypeOK
    <3> QED BY <3>1, FrameFields, ConstantTypes
  <2>2. /\ queued_snapshot_bytes = 0 /\ queued_event_batches = 0
        /\ queued_event_bytes = 0 /\ Len(publications) = 0
    BY DEF LimitsInv, EmptyOutputCounters
  <2>3. /\ MaxSnapshotBytes <= MaxQueuedSnapshotBytes
        /\ m <= MaxQueuedEventBatches
        /\ MaxEventBytesPerTick * m <= MaxQueuedEventBytes
    BY ConfigurationAssumption DEF ConfigurationAccepted
  <2> HIDE DEF n, m
  <2>4. MaxEventBytesPerTick * n <= MaxEventBytesPerTick * m
        /\ MaxEventBytesPerTick * n \in Nat /\ MaxEventBytesPerTick * m \in Nat
    BY <2>1, ConstantTypes
  <2> QED BY <2>1, <2>2, <2>3, <2>4, ConstantTypes DEF PublicationCapacity, n
<1> QED BY <1>1, TypeInvAlways, LimitsInvAlways, PTL

-----------------------------------------------------------------------------
(* The host implements the tick stream.                                     *)

\* What a frame has collected is what it will publish: a batch for each tick,
\* in order, and a snapshot made under the frame's own pause setting.
FrameOK ==
  at = "frame" =>
    /\ Len(event_batches) = tick_index
    /\ \A i \in 1..tick_index :
         event_batches[i].host_tick = first_host_tick - 1 + i
    /\ tick_index > 0 => latest_snapshot.simulating = frame.simulating

LEMMA TicksAreIntegers ==
  ASSUME TypeInv
  PROVE  host_tick \in Int /\ first_host_tick \in Int
<1>1. /\ U64Max \in Nat /\ host_tick \in 0..U64Max
      /\ first_host_tick \in 0..U64Max
  BY ArithmeticAssumption DEF TypeInv, TypeOK
<1>2. QED
  BY <1>1

LEMMA FrameOKStep ==
  ASSUME TypeInv, FrameOK, [Next]_vars
  PROVE  FrameOK'
<1>1. CASE UNCHANGED << at, pumpVars >>
  BY <1>1 DEF FrameOK, pumpVars
<1>2. CASE at' # "frame"
  BY <1>2 DEF FrameOK
<1>3. CASE PumpTakeFrame
  <2>1. tick_index' = 0 /\ event_batches' = << >>
    BY <1>3 DEF PumpTakeFrame, TypeInv, PumpLocals
  <2>2. QED
    BY <2>1 DEF FrameOK
<1>4. ASSUME NEW size \in 1..MaxSnapshotBytes,
             NEW events \in 0..MaxEventBytesPerTick, Advance(size, events)
      PROVE  FrameOK'
  <2> DEFINE batch == [host_tick |-> host_tick + 1, bytes |-> events]
  <2>1. /\ at = "frame" /\ event_batches' = Append(event_batches, batch)
        /\ latest_snapshot'.simulating = frame.simulating
        /\ tick_index' = tick_index + 1
        /\ UNCHANGED << at, frame, first_host_tick >>
    BY <1>4 DEF Advance, ExecutingTick, SnapshotOf
  <2>2. /\ event_batches \in Seq(EventBatches) /\ tick_index \in Nat
        /\ first_host_tick \in Int /\ host_tick \in Int
        /\ host_tick + 1 = first_host_tick - 1 + (tick_index + 1)
    <3>1. event_batches \in Seq(EventBatches) /\ tick_index \in Nat
      BY DEF TypeInv, TypeOK
    <3>2. host_tick = first_host_tick + tick_index - 1
      BY <2>1 DEF TypeInv, PumpLocals
    <3>3. QED
      BY <3>1, <3>2, TicksAreIntegers
  <2>3. /\ Len(event_batches) = tick_index
        /\ \A i \in 1..tick_index :
             event_batches[i].host_tick = first_host_tick - 1 + i
    BY <2>1 DEF FrameOK
  <2>4. batch.host_tick = host_tick + 1
    OBVIOUS
  <2> HIDE DEF batch
  <2>5. /\ Len(event_batches') = tick_index + 1
        /\ event_batches'[tick_index + 1] = batch
        /\ \A i \in 1..tick_index : event_batches'[i] = event_batches[i]
    BY <2>1, <2>2, <2>3
  <2>6. \A i \in 1..tick_index + 1 :
          event_batches'[i].host_tick = first_host_tick - 1 + i
    <3>1. TAKE i \in 1..tick_index + 1
    <3>2. CASE i = tick_index + 1
      BY <2>2, <2>4, <2>5, <3>2
    <3>3. CASE i # tick_index + 1
      BY <2>2, <2>3, <2>5, <3>3
    <3>4. QED
      BY <3>2, <3>3
  <2>7. QED
    BY <2>1, <2>5, <2>6 DEF FrameOK
<1>5. QED
  BY <1>1, <1>2, <1>3, <1>4
     DEF Next, PumpStep, vars, Submit, SetPaused, SetSuspended, Observe,
         ObserveWithoutFrame, ObserveRefused, ObserveFrame, Running, Pump,
         PumpReturn, TickOverflow, AdvanceRejected, Publish, DrainPublications,
         Shutdown

LEMMA FrameOKAlways == Spec => []FrameOK
<1>1. Init => FrameOK
  BY DEF Init, FrameOK
<1>2. TypeInv /\ FrameOK /\ [Next]_vars => FrameOK'
  BY FrameOKStep
<1>3. QED
  BY <1>1, <1>2, TypeInvAlways, PTL DEF Spec

\* What the stream says of a publication, and the stream's variables.
Told(p) ==
  [host_frame |-> p.host_frame,
   first |-> p.first_host_tick, last |-> p.last_host_tick,
   ticks |-> [j \in DOMAIN p.events |-> p.events[j].host_tick],
   simulating |-> p.snapshot.simulating]

Owed == (IF at = "frame" THEN << frame >> ELSE << >>) \o pending_frames
Tick == IF at = "frame" THEN first_host_tick - 1 ELSE host_tick
Streamed == [i \in DOMAIN publications |-> Told(publications[i])]
StreamVars ==
  << lifecycle = "Running", paused, host_frame, Owed, Tick, Streamed >>

LEMMA OwedBetweenFrames ==
  ASSUME TypeInv, at # "frame"
  PROVE  Owed = pending_frames
BY ConcatEmptySeq DEF Owed, TypeInv, TypeOK

LEMMA HeadTailOfCons ==
  ASSUME NEW S, NEW x \in S, NEW s \in Seq(S)
  PROVE  << x >> \o s # << >> /\ Head(<< x >> \o s) = x /\ Tail(<< x >> \o s) = s
<1> DEFINE one == << x >>
           t == one \o s
<1>1. one \in Seq(S) /\ Len(one) = 1 /\ one[1] = x
  OBVIOUS
<1>2. Len(s) \in Nat
  BY LenProperties
<1> HIDE DEF one
<1>3. /\ t \in Seq(S) /\ Len(t) = 1 + Len(s)
      /\ \A i \in 1..1 + Len(s) : t[i] = IF i <= 1 THEN one[i] ELSE s[i - 1]
  BY <1>1, ConcatProperties
<1> HIDE DEF t
<1>4. t # << >> /\ t[1] = x /\ \A i \in 1..Len(s) : t[i + 1] = s[i]
  BY <1>1, <1>2, <1>3, EmptySeq
<1>5. Head(t) = x
  BY <1>3, <1>4
<1>6. /\ Tail(t) \in Seq(S) /\ Len(Tail(t)) = Len(s)
      /\ \A i \in 1..Len(Tail(t)) : Tail(t)[i] = t[i + 1]
  BY <1>2, <1>3, <1>4, HeadTailProperties
<1>7. Tail(t) = s
  BY <1>4, <1>6, SeqEqual
<1>8. QED
  BY <1>4, <1>5, <1>7 DEF t, one

LEMMA ConsOfHeadTail ==
  ASSUME NEW S, NEW s \in Seq(S), s # << >>
  PROVE  << Head(s) >> \o Tail(s) = s
<1> DEFINE one == << Head(s) >>
           t == one \o Tail(s)
<1>1. /\ Len(s) \in Nat \ {0} /\ Head(s) \in S /\ Head(s) = s[1]
      /\ Tail(s) \in Seq(S) /\ Len(Tail(s)) = Len(s) - 1
      /\ \A i \in 1..Len(Tail(s)) : Tail(s)[i] = s[i + 1]
  BY EmptySeq, HeadTailProperties
<1>2. one \in Seq(S) /\ Len(one) = 1 /\ one[1] = s[1]
  BY <1>1
<1>3. PICK u : u = Tail(s)
  OBVIOUS
<1> HIDE DEF one
<1>4. u \in Seq(S) /\ Len(one) + Len(u) = Len(s)
  BY <1>1, <1>2, <1>3
<1>5. /\ one \o u \in Seq(S) /\ Len(one \o u) = Len(one) + Len(u)
      /\ \A i \in 1..Len(one) + Len(u) :
           (one \o u)[i] = IF i <= Len(one) THEN one[i] ELSE u[i - Len(one)]
  BY <1>2, <1>4, ConcatProperties
<1>6. t \in Seq(S) /\ Len(t) = Len(s)
  BY <1>3, <1>4, <1>5
<1>7. \A i \in 1..Len(s) : t[i] = IF i <= 1 THEN one[i] ELSE u[i - 1]
  BY <1>2, <1>3, <1>4, <1>5
<1> HIDE DEF t
<1>8. \A i \in 1..Len(s) : t[i] = s[i]
  BY <1>1, <1>2, <1>3, <1>7
<1>9. t = s
  BY <1>6, <1>8, SeqEqual
<1>10. QED
  BY <1>9 DEF t, one

LEMMA OwedInFrame ==
  ASSUME TypeInv, at = "frame"
  PROVE  Owed # << >> /\ Head(Owed) = frame /\ Tail(Owed) = pending_frames
<1>1. frame \in Frames /\ pending_frames \in Seq(Frames)
  BY DEF TypeInv, TypeOK, PumpLocals
<1>2. Owed = << frame >> \o pending_frames
  BY DEF Owed
<1>3. QED
  BY <1>1, <1>2, HeadTailOfCons

\* The actions of the stream, in these names.
LEMMA StopMaps ==
  ASSUME lifecycle' # "Running", Tick' >= Tick,
         Owed' \in {Owed, << >>} \cup (IF Owed = << >> THEN {} ELSE {Tail(Owed)}),
         Streamed' \in {Streamed, << >>}, UNCHANGED << paused, host_frame >>
  PROVE  Stream!Stop
BY Zenon DEF Stream!Stop, Owed, Tick, Streamed, Told

LEMMA SelectMaps ==
  ASSUME lifecycle = "Running", host_frame' = host_frame + 1,
         NEW n \in 0..MaximumTicksPerHostFrame,
         Owed' = IF n = 0 THEN Owed
                 ELSE Append(Owed, [sequence |-> host_frame',
                                    selected_ticks |-> n,
                                    simulating |-> ~paused]),
         UNCHANGED << paused, Tick, Streamed >>
  PROVE  Stream!Select
BY Zenon DEF Stream!Select, Owed, Tick, Streamed, Told

LEMMA CompleteMaps ==
  ASSUME lifecycle = "Running", Owed # << >>, Owed' = Tail(Owed),
         Tick' = Tick + Head(Owed).selected_ticks,
         Streamed' = Append(Streamed,
           [host_frame |-> Head(Owed).sequence,
            first |-> Tick + 1, last |-> Tick',
            ticks |-> [i \in 1..Head(Owed).selected_ticks |-> Tick + i],
            simulating |-> Head(Owed).simulating]),
         UNCHANGED << lifecycle, paused, host_frame >>
  PROVE  Stream!Complete
BY Zenon DEF Stream!Complete, Owed, Tick, Streamed, Told

LEMMA DeliverMaps ==
  ASSUME Streamed' = << >>,
         UNCHANGED << lifecycle, paused, host_frame, Owed, Tick >>
  PROVE  Stream!Deliver
BY Zenon DEF Stream!Deliver, Owed, Tick, Streamed, Told

LEMMA PauseMaps ==
  ASSUME lifecycle = "Running", paused' \in BOOLEAN,
         UNCHANGED << lifecycle, host_frame, Owed, Tick, Streamed >>
  PROVE  Stream!Pause
BY Zenon DEF Stream!Pause, Owed, Tick, Streamed, Told

LEMMA StutterMaps ==
  ASSUME UNCHANGED << lifecycle, paused, host_frame, publications, Owed, Tick >>
  PROVE  UNCHANGED StreamVars
BY DEF StreamVars, Streamed

\* Between frames what is owed is what is pending.
LEMMA BetweenFrames ==
  ASSUME TypeInv, TypeInv', at # "frame", at' # "frame"
  PROVE  /\ Owed = pending_frames /\ Owed' = pending_frames'
         /\ Tick = host_tick /\ Tick' = host_tick'
<1>1. (TypeInv /\ at # "frame" => Owed = pending_frames)'
  BY OwedBetweenFrames, PTL
<1>2. QED
  BY <1>1, OwedBetweenFrames DEF Tick

\* What changes nothing the stream speaks of.
LEMMA QuietMaps ==
  ASSUME TypeInv, TypeInv',
         \/ UNCHANGED vars \/ Pump \/ PumpReturn
         \/ \E length \in CommandLengths : Submit(length)
         \/ \E value \in BOOLEAN, now \in Samples : SetSuspended(value, now)
         \/ \E now \in Samples : ObserveWithoutFrame(now)
         \/ \E size \in 1..MaxSnapshotBytes, events \in 0..MaxEventBytesPerTick :
              Advance(size, events)
  PROVE  UNCHANGED StreamVars
<1>1. UNCHANGED << lifecycle, paused, host_frame, publications, pending_frames >>
  BY DEF vars, Pump, PumpReturn, Submit, SetSuspended, ObserveWithoutFrame,
         Advance, controlVars, clockVars, pendingVars, outputVars
<1>2. CASE UNCHANGED << at, frame, first_host_tick >>
           /\ (at # "frame" => UNCHANGED host_tick)
  <2>1. Owed' = Owed /\ Tick' = Tick
    BY <1>1, <1>2 DEF Owed, Tick
  <2>2. QED
    BY <1>1, <2>1, StutterMaps
<1>3. CASE at # "frame" /\ at' # "frame" /\ UNCHANGED host_tick
  <2>1. Owed' = Owed /\ Tick' = Tick
    BY <1>1, <1>3, BetweenFrames
  <2>2. QED
    BY <1>1, <2>1, StutterMaps
<1>4. QED
  BY <1>2, <1>3
     DEF vars, Pump, PumpReturn, Submit, SetSuspended, ObserveWithoutFrame,
         Advance, ExecutingTick, Running, pumpVars

LEMMA PausedMaps ==
  ASSUME TypeInv, TypeInv', NEW value \in BOOLEAN, SetPaused(value)
  PROVE  Stream!Pause
<1>1. /\ lifecycle = "Running" /\ paused' = value
      /\ at # "frame" /\ at' # "frame"
      /\ UNCHANGED << lifecycle, host_frame, host_tick, publications,
                      pending_frames >>
  BY DEF SetPaused, Running, clockVars, pendingVars, outputVars
<1>2. UNCHANGED << Owed, Tick, Streamed >>
  BY <1>1, BetweenFrames DEF Streamed
<1>3. QED
  BY <1>1, <1>2, PauseMaps

LEMMA RefusedMaps ==
  ASSUME TypeInv, TypeInv', NEW now \in Samples, ObserveRefused(now)
  PROVE  Stream!Stop
<1>1. /\ lifecycle' # "Running" /\ at # "frame" /\ at' # "frame"
      /\ UNCHANGED << paused, host_frame, host_tick, publications,
                      pending_frames >>
  BY DEF ObserveRefused, SetFault, Running, pendingVars, outputVars
<1>2. UNCHANGED << Owed, Tick, Streamed >>
  BY <1>1, BetweenFrames DEF Streamed
<1>3. Tick \in Int
  BY <1>1, BetweenFrames, TicksAreIntegers
<1>4. QED
  BY <1>1, <1>2, <1>3, StopMaps

LEMMA SelectedMaps ==
  ASSUME TypeInv, TypeInv', NEW now \in Samples, ObserveFrame(now)
  PROVE  Stream!Select
<1> DEFINE n == SelectedTicks(remainder + AdmittedElapsed(now))
<1>1. n \in 0..MaximumTicksPerHostFrame
  <2>1. previous # NoSample
    BY DEF ObserveFrame
  <2>2. QED
    BY <2>1, SelectionBounds, AdmittedElapsedBounds, ConstantTypes DEF TypeInv
<1>2. /\ lifecycle = "Running" /\ at # "frame" /\ at' # "frame"
      /\ host_frame' = host_frame + 1
      /\ pending_frames' = IF n = 0 THEN pending_frames
                           ELSE Append(pending_frames, NewFrame(n))
      /\ UNCHANGED << paused, host_tick, publications >>
  BY DEF ObserveFrame, Running, outputVars
<1> HIDE DEF n
<1>3. NewFrame(n) = [sequence |-> host_frame', selected_ticks |-> n,
                     simulating |-> ~paused]
  BY <1>2 DEF NewFrame
<1>4. /\ Owed' = IF n = 0 THEN Owed
                 ELSE Append(Owed, [sequence |-> host_frame',
                                    selected_ticks |-> n,
                                    simulating |-> ~paused])
      /\ UNCHANGED << Tick, Streamed >>
  BY <1>2, <1>3, BetweenFrames DEF Streamed
<1>5. QED
  BY <1>1, <1>2, <1>4, SelectMaps

\* A frame that is taken is still owed; if no tick is left for it the host stops.
LEMMA TakenMaps ==
  ASSUME TypeInv, TypeInv', PumpTakeFrame
  PROVE  Stream!Stop \/ UNCHANGED StreamVars
<1>1. /\ at = "pump" /\ pending_frames # << >>
      /\ pending_frames' = Tail(pending_frames)
      /\ UNCHANGED << paused, host_frame, host_tick, publications >>
      /\ pending_frames \in Seq(Frames) /\ host_tick \in Int
  BY ArithmeticAssumption
     DEF PumpTakeFrame, FrameReady, TypeInv, TypeOK, clockVars, outputVars
<1>2. CASE host_tick = U64Max
  <2>1. lifecycle' # "Running" /\ at' # "frame"
    BY <1>2 DEF PumpTakeFrame, SetFault
  <2>2. /\ Owed # << >> /\ Owed' = Tail(Owed) /\ UNCHANGED << Tick, Streamed >>
        /\ Tick \in Int
    BY <1>1, <2>1, BetweenFrames DEF Streamed
  <2>3. QED
    BY <1>1, <2>1, <2>2, StopMaps
<1>3. CASE host_tick # U64Max
  <2>1. /\ lifecycle' = lifecycle /\ at' = "frame"
        /\ frame' = Head(pending_frames) /\ first_host_tick' = host_tick + 1
    BY <1>3 DEF PumpTakeFrame
  <2>2. Tick' = Tick
    BY <1>1, <2>1 DEF Tick
  <2>3. Owed' = << Head(pending_frames) >> \o Tail(pending_frames)
    BY <1>1, <2>1 DEF Owed
  <2>4. << Head(pending_frames) >> \o Tail(pending_frames) = pending_frames
    BY <1>1, ConsOfHeadTail
  <2>5. Owed' = Owed
    BY <1>1, <2>3, <2>4, OwedBetweenFrames
  <2>6. QED
    BY <1>1, <2>1, <2>2, <2>5, StutterMaps
<1>4. QED
  BY <1>2, <1>3

LEMMA FrameFaultMaps ==
  ASSUME TypeInv, TypeInv', TickOverflow \/ AdvanceRejected
  PROVE  Stream!Stop
<1>1. /\ at = "frame" /\ at' # "frame" /\ lifecycle' # "Running"
      /\ UNCHANGED << paused, host_frame, host_tick, publications,
                      pending_frames >>
  BY DEF TickOverflow, AdvanceRejected, ExecutingTick, SetFault, clockVars,
         pendingVars, outputVars
<1>2. Owed # << >> /\ Owed' = Tail(Owed)
  <2>1. (TypeInv /\ at # "frame" => Owed = pending_frames)'
    BY OwedBetweenFrames, PTL
  <2>2. QED
    BY <1>1, <2>1, OwedInFrame
<1>3. Tick' >= Tick
  <2>1. Tick = first_host_tick - 1 /\ Tick' = host_tick
    BY <1>1 DEF Tick
  <2>2. /\ first_host_tick \in Int /\ tick_index \in Nat
        /\ host_tick = first_host_tick + tick_index - 1
    BY <1>1, ArithmeticAssumption DEF TypeInv, TypeOK, PumpLocals
  <2>3. QED
    BY <2>1, <2>2
<1>4. Streamed' = Streamed
  BY <1>1 DEF Streamed
<1>5. QED
  BY <1>1, <1>2, <1>3, <1>4, StopMaps

\* The stream is told of one publication more.
LEMMA ToldAppended ==
  ASSUME publications \in Seq(Publications), NEW p,
         publications' = Append(publications, p)
  PROVE  Streamed' = Append(Streamed, Told(p))
<1> DEFINE n == Len(publications)
<1>1. /\ n \in Nat /\ DOMAIN publications = 1..n
      /\ DOMAIN publications' = 1..n + 1 /\ publications'[n + 1] = p
      /\ \A i \in 1..n : publications'[i] = publications[i]
  BY LenProperties
<1> HIDE DEF n
<1>2. Streamed = [i \in 1..n |-> Told(publications[i])]
  BY <1>1 DEF Streamed
<1>3. Streamed' = [i \in 1..n + 1 |-> Told(publications'[i])]
  BY <1>1 DEF Streamed
<1>4. Len(Streamed) = n
  BY <1>1, <1>2
<1>5. Append(Streamed, Told(p))
        = [i \in 1..n + 1 |-> IF i <= n THEN Streamed[i] ELSE Told(p)]
  BY <1>1, <1>2, <1>4
<1>6. QED
  BY <1>1, <1>2, <1>3, <1>5

\* The last step of a frame is all of it to the consumer.
LEMMA PublishedMaps ==
  ASSUME TypeInv, TypeInv', FrameOK, Publish
  PROVE  Stream!Complete
<1> DEFINE n == frame.selected_ticks
           p == [host_frame |-> frame.sequence,
                 first_host_tick |-> first_host_tick,
                 last_host_tick |-> host_tick, snapshot |-> latest_snapshot,
                 events |-> event_batches]
<1>1. /\ at = "frame" /\ at' # "frame" /\ tick_index = n
      /\ publications' = Append(publications, p)
      /\ UNCHANGED << lifecycle, paused, host_frame, host_tick, pending_frames >>
  BY DEF Publish, controlVars, clockVars, pendingVars
<1>2. /\ lifecycle = "Running" /\ n \in Nat /\ n >= 1
      /\ first_host_tick \in Int /\ host_tick = first_host_tick + n - 1
      /\ event_batches \in Seq(EventBatches)
      /\ publications \in Seq(Publications)
  <2>1. /\ frame \in Frames /\ lifecycle = "Running"
        /\ host_tick = first_host_tick + tick_index - 1
    BY <1>1 DEF TypeInv, PumpLocals
  <2>2. n \in Nat /\ n >= 1
    BY <2>1, FrameFields
  <2>3. event_batches \in Seq(EventBatches) /\ publications \in Seq(Publications)
    BY DEF TypeInv, TypeOK
  <2>4. QED
    BY <1>1, <2>1, <2>2, <2>3, TicksAreIntegers
<1>3. Owed # << >> /\ Head(Owed) = frame /\ Owed' = Tail(Owed)
  <2>1. (TypeInv /\ at # "frame" => Owed = pending_frames)'
    BY OwedBetweenFrames, PTL
  <2>2. QED
    BY <1>1, <2>1, OwedInFrame
<1>4. /\ Tick = first_host_tick - 1 /\ Tick' = host_tick
      /\ Tick' = Tick + n /\ Tick + 1 = first_host_tick
  <2> HIDE DEF n, p
  <2>1. Tick = first_host_tick - 1 /\ Tick' = host_tick
    BY <1>1 DEF Tick
  <2>2. host_tick \in Int
    BY TicksAreIntegers
  <2>3. QED
    BY <1>2, <2>1, <2>2
<1> DEFINE t == [host_frame |-> frame.sequence, first |-> Tick + 1,
                 last |-> Tick', ticks |-> [i \in 1..n |-> Tick + i],
                 simulating |-> frame.simulating]
<1>5. Told(p) = t
  <2>1. [j \in DOMAIN event_batches |-> event_batches[j].host_tick]
          = [i \in 1..n |-> Tick + i]
    <3>1. DOMAIN event_batches = 1..n
      BY <1>1, <1>2, LenProperties DEF FrameOK
    <3>2. \A i \in 1..n : event_batches[i].host_tick = Tick + i
      BY <1>1, <1>4 DEF FrameOK
    <3>3. QED
      BY <3>1, <3>2
  <2>2. latest_snapshot.simulating = frame.simulating
    BY <1>1, <1>2 DEF FrameOK
  <2>3. QED
    BY <1>4, <2>1, <2>2 DEF Told
<1> HIDE DEF p, t
<1>6. Streamed' = Append(Streamed, t)
  BY <1>1, <1>2, <1>5, ToldAppended
<1>7. QED
  BY <1>1, <1>2, <1>3, <1>4, <1>6, CompleteMaps DEF t

LEMMA DrainedMaps ==
  ASSUME TypeInv, TypeInv', DrainPublications
  PROVE  Stream!Deliver
<1>1. /\ at # "frame" /\ at' # "frame" /\ publications' = << >>
      /\ UNCHANGED << lifecycle, paused, host_frame, host_tick, pending_frames >>
  BY DEF DrainPublications, EmptyOutput, controlVars, clockVars, pendingVars
<1>2. Streamed' = << >>
  BY <1>1 DEF Streamed
<1>3. UNCHANGED << Owed, Tick >>
  BY <1>1, BetweenFrames
<1>4. QED
  BY <1>1, <1>2, <1>3, DeliverMaps

LEMMA ShutdownMaps ==
  ASSUME TypeInv, TypeInv', Shutdown
  PROVE  Stream!Stop
<1>1. /\ at # "frame" /\ at' # "frame" /\ publications' = << >>
      /\ lifecycle' # "Running" /\ pending_frames' = << >>
      /\ UNCHANGED << paused, host_frame, host_tick >>
  BY DEF Shutdown, ClearQueues, EmptyOutput, clockVars
<1>2. Streamed' = << >>
  BY <1>1 DEF Streamed
<1>3. Owed' = << >> /\ Tick' = Tick
  BY <1>1, BetweenFrames
<1>4. Tick \in Int
  BY <1>1, BetweenFrames, TicksAreIntegers
<1>5. QED
  BY <1>1, <1>2, <1>3, <1>4, StopMaps

LEMMA StreamStep ==
  ASSUME TypeInv, TypeInv', FrameOK, [Next]_vars
  PROVE  [Stream!Next]_StreamVars
<1>1. CASE \/ UNCHANGED vars \/ Pump \/ PumpReturn
           \/ \E length \in CommandLengths : Submit(length)
           \/ \E value \in BOOLEAN, now \in Samples : SetSuspended(value, now)
           \/ \E now \in Samples : ObserveWithoutFrame(now)
           \/ \E size \in 1..MaxSnapshotBytes,
                 events \in 0..MaxEventBytesPerTick : Advance(size, events)
  BY <1>1, QuietMaps
<1>2. CASE \E value \in BOOLEAN : SetPaused(value)
  BY <1>2, PausedMaps DEF Stream!Next
<1>3. CASE \E now \in Samples : ObserveRefused(now)
  BY <1>3, RefusedMaps DEF Stream!Next
<1>4. CASE \E now \in Samples : ObserveFrame(now)
  BY <1>4, SelectedMaps DEF Stream!Next
<1>5. CASE PumpTakeFrame
  BY <1>5, TakenMaps DEF Stream!Next
<1>6. CASE TickOverflow \/ AdvanceRejected
  BY <1>6, FrameFaultMaps DEF Stream!Next
<1>7. CASE Publish
  BY <1>7, PublishedMaps DEF Stream!Next
<1>8. CASE DrainPublications
  BY <1>8, DrainedMaps DEF Stream!Next
<1>9. CASE Shutdown
  BY <1>9, ShutdownMaps DEF Stream!Next
<1>10. QED
  BY <1>1, <1>2, <1>3, <1>4, <1>5, <1>6, <1>7, <1>8, <1>9
     DEF Next, PumpStep, Observe

\* The host implements the tick stream: frames are completed whole, in the order
\* they were selected, without a gap in their ticks and under the pause setting
\* of their selection, and no publication is lost or repeated.
THEOREM HostImplementsTickStream == Spec => ImplementsTickStream
<1>1. Init => Stream!Init
  BY ConcatEmptySeq DEF Init, Stream!Init
<1>2. TypeInv /\ TypeInv' /\ FrameOK /\ [Next]_vars
        => [Stream!Next]_(Stream!vars)
  BY StreamStep DEF StreamVars, Owed, Tick, Streamed, Told, Stream!vars
<1>3. QED
  BY <1>1, <1>2, TypeInvAlways, FrameOKAlways, PTL
     DEF Spec, ImplementsTickStream, Stream!Spec

=============================================================================
