--------------------------- MODULE PageSimulation ---------------------------
(***************************************************************************)
(* The page of the game (apps/web/tf2/src: runtime.ts with                 *)
(* simulation-clock.ts and application-lifecycle.ts): the loop that steps  *)
(* the worker's simulation from clock samples, the loop that presents what *)
(* a step published, the replacement of the map under both, disconnect and *)
(* close, and the watchdog of a replacement.                               *)
(*                                                                         *)
(* All of it is one thread.  An action is the code from one await to the   *)
(* next; between actions anything else may run, and what was read before   *)
(* an await may be stale after it.  The worker answers requests in order   *)
(* (GameplayWorker); here it is what it does to the two generations.       *)
(*                                                                         *)
(* Left out: the pause menu, replacement by URL, recorded workloads and    *)
(* the first load.  The player does not choose a map while a disconnect is *)
(* under way, nor close the page then.  Taken together: stage() and        *)
(* coverage(), the two discards of one candidate, the two probes of a new  *)
(* map, and the steps in which a candidate's objects are decoded.  The     *)
(* probes and the choice of a team only read from the worker: what it      *)
(* answers them comes at any time.  Releasing equipment does not fail.     *)
(***************************************************************************)
EXTENDS Integers, Sequences, FiniteSets, SequencesExt

CONSTANTS
  MaxTransitions,   \* MAX_PENDING_SIMULATION_CLOCK_TRANSITIONS, 64
  MaxAttempts,      \* observations for the first tick, 32
  Budget,           \* visible time without progress, 60 s
  MaxSwitches,      \* bound: maps the player chooses
  MaxToggles,       \* bound: the times the page is hidden or shown
  MaxTicks          \* bound: the ticks of a generation

ASSUME PageAssumption ==
  /\ {MaxTransitions, MaxAttempts, Budget} \subseteq Nat \ {0}
  /\ {MaxSwitches, MaxToggles, MaxTicks} \subseteq Nat

VARIABLES
  generation, client, closed, teardown,   \* the session
  paused, hidden,                         \* the gate of the frames
  phase, failure, watch,                  \* what the player is shown
  samples, step,                          \* #drainSimulation
  pending, presenting, snapshot,          \* #drainPresentations
  operation, calls, reserved,             \* #switchCatalogMap
  requests, replies, worker,              \* the worker
  toggles, disturbed                      \* history, see Visibility and Probed

sessionVars == << generation, client, closed >>
screenVars == << phase, failure, watch >>
loopVars == << samples, step >>
showVars == << pending, presenting, snapshot >>
userVars == << hidden, toggles, disturbed >>
vars == << sessionVars, teardown, paused, screenVars, loopVars, showVars,
           operation, calls, reserved, requests, replies, worker, userVars >>

Calls == 1..MaxSwitches
None == 0
NoSnapshot == [generation |-> None, tick |-> 0]
NoPublication == [generation |-> None, first |-> 0, last |-> 0]
NoWatch == [state |-> "idle", remaining |-> 0, since |-> 0, visible |-> 0]
NoCall == [at |-> "unused", previous |-> None, candidate |-> None,
           attempts |-> 0, outcome |-> "none"]

Init ==
  /\ generation = 1 /\ client = TRUE /\ closed = FALSE /\ teardown = "none"
  /\ paused = FALSE /\ hidden = FALSE
  /\ phase = "Ready" /\ failure = "none" /\ watch = NoWatch
  /\ samples = << >> /\ step = None
  /\ pending = NoPublication /\ presenting = NoPublication
  /\ snapshot = [generation |-> 1, tick |-> 0]
  /\ operation = None /\ calls = [c \in Calls |-> NoCall] /\ reserved = 1
  /\ requests = << >> /\ replies = << >>
  /\ worker = [active |-> 1, staged |-> None, baselined |-> TRUE, tick |-> 0]
  /\ toggles = 0 /\ disturbed = {}

-----------------------------------------------------------------------------
(* The view and its watchdog.                                               *)

\* ApplicationVisibilityWatchdog.arm
Armed == [state |-> IF hidden THEN "suspended" ELSE "running",
          remaining |-> Budget, since |-> 0, visible |-> 0]

\* Variant: a page which is shown again does not start the timer.
StaysSuspended(hiding) ==
  IF watch.state = "running" /\ hiding
  THEN [watch EXCEPT !.state = "suspended"] ELSE watch
\* visibility(): hiding takes the elapsed time off the budget.
Watched(hiding) ==
  CASE watch.state = "running" /\ hiding ->
         [watch EXCEPT !.state = "suspended", !.since = 0,
            !.remaining = IF @ > watch.since THEN @ - watch.since ELSE 0]
    [] watch.state = "suspended" /\ ~hiding ->
         [watch EXCEPT !.state = "running", !.since = 0]
    [] OTHER -> watch

Elapse ==
  /\ watch.state = "running" /\ watch.since < Budget
  /\ watch' = [watch EXCEPT !.since = @ + 1,
                 !.visible = IF hidden THEN @ ELSE @ + 1]
  /\ UNCHANGED << sessionVars, teardown, paused, phase, failure, loopVars,
                  showVars, operation, calls, reserved, requests, replies,
                  worker, userVars >>

\* The timer fires; the replacement itself is not cancelled.
Expire ==
  /\ watch.state = "running" /\ watch.since >= watch.remaining
  /\ phase' = "Failed" /\ failure' = "watchdog" /\ watch' = NoWatch
  /\ UNCHANGED << sessionVars, teardown, paused, loopVars, showVars, operation,
                  calls, reserved, requests, replies, worker, userVars >>

Fail(cause) ==
  phase' = "Failed" /\ failure' = cause /\ paused' = TRUE /\ watch' = NoWatch

-----------------------------------------------------------------------------
(* The simulation loop.                                                     *)

Sample(suspended) == [generation |-> generation, suspended |-> suspended]
Request(kind, from, target, suspended) ==
  [kind |-> kind, from |-> from, generation |-> target, suspended |-> suspended]
\* Variant: a step of an earlier generation is not waited for.
IdleInGeneration == step # generation
Idle == step = None

\* Who awaits a loop continues when it ends.
Wake(loop, next) ==
  /\ calls' = [c \in Calls |-> IF calls[c].at = loop
                               THEN [calls[c] EXCEPT !.at = next] ELSE calls[c]]
  /\ teardown' = IF teardown = loop THEN next ELSE teardown
AfterPresentation ==
  IF presenting' = NoPublication THEN "presented" ELSE "presentation"
AfterSimulation == IF Idle THEN AfterPresentation ELSE "simulation"

\* The next sample of this generation is sent; without one the loop ends.
TakeSample(queue) ==
  LET next == IF closed \/ ~client THEN 0
              ELSE SelectInSeq(queue, LAMBDA s : s.generation = generation)
  IN  IF next = 0
      THEN /\ samples' = << >> /\ step' = None
           /\ Wake("simulation", AfterPresentation)
           /\ UNCHANGED requests
      ELSE /\ samples' = SubSeq(queue, next + 1, Len(queue))
           /\ step' = generation
           /\ requests' = Append(requests,
                Request("observe", None, generation, queue[next].suspended))
           /\ UNCHANGED << calls, teardown >>

\* Variant: every sample is queued.
AlwaysAppended(sample) == Append(samples, sample)
\* SimulationClockQueue.push: a sample replaces the last one of its kind.
Pushed(sample) ==
  IF samples # << >> /\ Last(samples) = sample THEN samples
  ELSE Append(samples, sample)

\* #scheduleSimulation
Schedule(sample, gate, watched) ==
  IF Len(Pushed(sample)) > MaxTransitions
  THEN /\ samples' = << >> /\ Fail("overflow")
       /\ UNCHANGED << step, requests, calls, teardown >>
  ELSE /\ paused' = gate /\ watch' = watched
       /\ UNCHANGED << phase, failure >>
       /\ IF Idle THEN TakeSample(Pushed(sample))
          ELSE /\ samples' = Pushed(sample)
               /\ UNCHANGED << step, requests, calls, teardown >>

\* An animation frame; a hidden page has none.  Until the renderer is gone a
\* teardown relies on the gate alone.
Frame ==
  /\ ~hidden /\ ~paused /\ ~closed /\ client /\ teardown # "shutting"
  /\ Schedule(Sample(FALSE), paused, watch)
  /\ UNCHANGED << sessionVars, showVars, operation, reserved, replies, worker,
                  userVars >>

\* visibilitychange
Visibility ==
  /\ ~closed /\ toggles < MaxToggles
  /\ toggles' = toggles + 1 /\ hidden' = ~hidden
  /\ disturbed' = disturbed
       \cup (IF \E c \in Calls : calls[c].at \notin {"unused", "queued", "done"}
            THEN {"replacement"} ELSE {})
       \cup (IF teardown \notin {"none", "gone"} THEN {"teardown"} ELSE {})
  /\ IF client THEN Schedule(Sample(hidden'), hidden', Watched(hidden'))
     ELSE /\ paused' = hidden' /\ watch' = Watched(hidden')
          /\ UNCHANGED << phase, failure, loopVars, requests, calls, teardown >>
  /\ UNCHANGED << sessionVars, showVars, operation, reserved, replies, worker >>

\* #enqueuePresentation: an idle presentation loop begins at once.
Enqueue(tick) ==
  LET value == IF pending = NoPublication
               THEN [generation |-> generation, first |-> tick, last |-> tick]
               ELSE [pending EXCEPT !.last = tick]
  IN  IF tick = 0 THEN UNCHANGED << pending, presenting, snapshot >>
      ELSE IF presenting = NoPublication
      THEN /\ presenting' = value /\ pending' = NoPublication
           /\ snapshot' = [generation |-> generation, tick |-> value.last]
      ELSE pending' = value /\ UNCHANGED << presenting, snapshot >>

\* The error of a step that was overtaken is not the player's concern.
ErrorCounts == ~closed /\ step = generation /\ phase # "Replacing"

\* #drainSimulation goes on after observe().
StepReply ==
  /\ replies # << >> /\ Head(replies).from = None
  /\ replies' = Tail(replies)
  /\ IF Head(replies).error # "none"
     THEN /\ UNCHANGED << requests, pending, presenting, snapshot >>
          /\ step' = None /\ Wake("simulation", AfterPresentation)
          /\ IF ErrorCounts
             THEN samples' = << >> /\ Fail(Head(replies).error)
             ELSE UNCHANGED << samples, paused, screenVars >>
     ELSE /\ IF closed \/ step # generation
             THEN UNCHANGED << pending, presenting, snapshot >>
             ELSE Enqueue(Head(replies).tick)
          /\ TakeSample(samples)
          /\ UNCHANGED << paused, screenVars >>
  /\ UNCHANGED << sessionVars, operation, reserved, worker, userVars >>

-----------------------------------------------------------------------------
(* The presentation loop.                                                   *)

\* Variant: what was published and not yet presented is kept.
PendingKept == UNCHANGED pending
ResetPresentation == pending' = NoPublication

\* #present comes to its end; the loop takes what was published meanwhile.
FinishPresent ==
  /\ presenting # NoPublication
  /\ LET current == ~closed /\ presenting.generation = generation
     IN  /\ \/ UNCHANGED << paused, screenVars >>
            \/ current /\ phase # "Replacing" /\ Fail("presentation")
         /\ IF current /\ pending # NoPublication
            THEN /\ presenting' = pending /\ pending' = NoPublication
                 /\ snapshot' = [generation |-> generation, tick |-> pending.last]
                 /\ UNCHANGED << calls, teardown >>
            ELSE /\ presenting' = NoPublication
                 /\ Wake("presentation", "presented")
                 /\ UNCHANGED << pending, snapshot >>
  /\ UNCHANGED << sessionVars, loopVars, operation, reserved, requests,
                  replies, worker, userVars >>

-----------------------------------------------------------------------------
(* The worker.                                                              *)

Answered(error, tick) ==
  replies' = Append(replies,
    [from |-> Head(requests).from, error |-> error, tick |-> tick])

\* The first sample of a generation is its baseline; a step may fail.
AnswerObserve ==
  /\ Head(requests).kind = "observe"
  /\ \/ /\ Head(requests).generation # worker.active
        /\ Answered("stale", 0) /\ UNCHANGED worker
     \/ /\ Head(requests).generation = worker.active
        /\ Answered("fault", 0) /\ UNCHANGED worker
     \/ /\ Head(requests).generation = worker.active
        /\ worker' = [worker EXCEPT !.baselined = TRUE]
        /\ Answered("none", 0)
     \/ /\ Head(requests).generation = worker.active /\ worker.baselined
        /\ ~Head(requests).suspended /\ worker.tick < MaxTicks
        /\ worker' = [worker EXCEPT !.tick = @ + 1]
        /\ Answered("none", worker'.tick)

AnswerStage ==
  LET target == Head(requests).generation
  IN  /\ Head(requests).kind = "stage"
      /\ \/ /\ target <= worker.active \/ target <= worker.staged
            /\ Answered("stale", 0) /\ UNCHANGED worker
         \/ Answered("fault", 0) /\ UNCHANGED worker
         \/ /\ target > worker.active /\ target > worker.staged
            /\ worker' = [worker EXCEPT !.staged = target]
            /\ Answered("none", 0)

AnswerActivate ==
  /\ Head(requests).kind = "activate"
  /\ IF worker.staged = Head(requests).generation
     THEN /\ worker' = [active |-> worker.staged, staged |-> None,
                        baselined |-> FALSE, tick |-> 0]
          /\ Answered("none", 0)
     ELSE Answered("stale", 0) /\ UNCHANGED worker

AnswerDiscard ==
  /\ Head(requests).kind = "discard"
  /\ IF worker.active = Head(requests).generation
     THEN Answered("stale", 0) /\ UNCHANGED worker
     ELSE /\ worker' = [worker EXCEPT
                !.staged = IF @ = Head(requests).generation THEN None ELSE @]
          /\ Answered("none", 0)

Answer ==
  /\ requests # << >> /\ requests' = Tail(requests)
  /\ AnswerObserve \/ AnswerStage \/ AnswerActivate \/ AnswerDiscard
  /\ UNCHANGED << sessionVars, teardown, paused, screenVars, loopVars, showVars,
                  operation, calls, reserved, userVars >>

-----------------------------------------------------------------------------
(* The replacement of the map.                                              *)

Current(c) == operation = c
Move(c, place) == calls' = [calls EXCEPT ![c].at = place]
\* A call is over, its map finished or not; its locals are gone.
End(c, cause) ==
  calls' = [calls EXCEPT ![c] = [NoCall EXCEPT
              !.at = "done", !.candidate = calls[c].candidate,
              !.outcome = IF cause \in {"none", "selection"} THEN "none"
                          ELSE "refused"]]

Conclude(c, cause) ==
  /\ End(c, cause)
  /\ IF ~Current(c) THEN UNCHANGED << paused, screenVars >>
     ELSE IF generation # calls[c].previous THEN Fail(cause)
     ELSE /\ paused' = hidden
          /\ phase' = "Ready" /\ failure' = "none" /\ watch' = NoWatch

\* A candidate which did not become the generation is discarded first.
CallFails(c, cause) ==
  IF client /\ calls[c].candidate \notin {None, generation}
  THEN /\ requests' = Append(requests,
              Request("discard", c, calls[c].candidate, FALSE))
       /\ calls' = [calls EXCEPT ![c].at = "discarding", ![c].outcome = cause]
       /\ UNCHANGED << paused, screenVars >>
  ELSE Conclude(c, cause) /\ UNCHANGED requests

\* The player chooses a map; the operation before it is superseded at once.
Choose(c) ==
  /\ client /\ ~closed /\ teardown = "none"
  /\ calls[c].at = "unused" /\ \A d \in Calls : d < c => calls[d].at # "unused"
  /\ operation' = c /\ Move(c, "queued")
  /\ UNCHANGED << sessionVars, teardown, paused, screenVars, loopVars, showVars,
                  reserved, requests, replies, worker, userVars >>

\* The call before has come to its end, however it did.
Start(c) ==
  /\ calls[c].at = "queued" /\ \A d \in Calls : d < c => calls[d].at = "done"
  /\ IF Current(c)
     THEN /\ calls' = [calls EXCEPT ![c].at = "acquiring",
                                    ![c].previous = generation]
          /\ phase' = "Replacing" /\ failure' = "none" /\ watch' = Armed
     ELSE Move(c, "done") /\ UNCHANGED screenVars
  /\ UNCHANGED << sessionVars, teardown, paused, loopVars, showVars, operation,
                  reserved, requests, replies, worker, userVars >>

\* #trackBootstrapObject
Progress(c) ==
  /\ calls[c].at = "acquiring" /\ Current(c)
  /\ phase = "Replacing" /\ watch.since > 0
  /\ watch' = Armed
  /\ UNCHANGED << sessionVars, teardown, paused, phase, failure, loopVars,
                  showVars, operation, calls, reserved, requests, replies,
                  worker, userVars >>

\* The objects are there, or they are not: #replace begins.
AcquireMap(c) ==
  /\ calls[c].at = "acquiring"
  /\ UNCHANGED << sessionVars, teardown, step, showVars, operation, replies,
                  worker, userVars >>
  /\ \/ /\ Current(c)
        /\ reserved' = (IF generation > reserved THEN generation ELSE reserved) + 1
        /\ calls' = [calls EXCEPT ![c].candidate = reserved',
                                  ![c].at = AfterSimulation]
        /\ paused' = TRUE /\ samples' = << >>
        /\ UNCHANGED << screenVars, requests >>
     \/ CallFails(c, "refused") /\ UNCHANGED << reserved, samples >>

\* Goes on with a request if no other operation has begun meanwhile.
GoOn(c, place, kind) ==
  IF Current(c)
  THEN /\ Move(c, place)
       /\ requests' = Append(requests,
              Request(kind, c, calls[c].candidate, FALSE))
       /\ UNCHANGED << paused, screenVars >>
  ELSE CallFails(c, "superseded")

PassPresentation(c) ==
  /\ calls[c].at = "presented"
  /\ ResetPresentation /\ GoOn(c, "staging", "stage")
  /\ UNCHANGED << sessionVars, teardown, loopVars, presenting, snapshot,
                  operation, reserved, replies, worker, userVars >>

\* renderer.loadMap
LoadMap(c) ==
  /\ calls[c].at = "loading"
  /\ GoOn(c, "activating", "activate") \/ CallFails(c, "refused")
  /\ UNCHANGED << sessionVars, teardown, loopVars, showVars, operation,
                  reserved, replies, worker, userVars >>

\* The equipment of the prior generation is released; then the candidate
\* becomes the generation, superseded or not.
Adopt(c) ==
  /\ calls[c].at = "releasing"
  /\ generation' = calls[c].candidate
  /\ ResetPresentation /\ Move(c, "baseline")
  /\ UNCHANGED << client, closed, teardown, paused, screenVars, loopVars,
                  presenting, snapshot, operation, reserved, requests, replies,
                  worker, userVars >>

\* The equipment of the map is admitted, then #initialPublication asks in an
\* animation frame.
AskInitial(c) ==
  /\ calls[c].at = "baseline"
  /\ \/ /\ client /\ ~hidden /\ Move(c, "observing")
        /\ requests' = Append(requests,
              Request("observe", c, calls[c].candidate, FALSE))
        /\ UNCHANGED << paused, screenVars >>
     \/ ~client /\ CallFails(c, "closed")
     \/ calls[c].attempts = 0 /\ CallFails(c, "refused")
  /\ UNCHANGED << sessionVars, teardown, loopVars, showVars, operation,
                  reserved, replies, worker, userVars >>

\* The pipelines of the new map; whether the operation is still the current
\* one is not asked after this.
Initialize(c) ==
  /\ calls[c].at = "initializing"
  /\ \/ /\ Current(c) /\ Move(c, "probing")
        /\ UNCHANGED << paused, screenVars, requests >>
     \/ CallFails(c, "refused")
  /\ UNCHANGED << sessionVars, teardown, loopVars, showVars, operation,
                  reserved, replies, worker, userVars >>

\* The map is ready, superseded and left or not; one that comes to its end in
\* a teardown opens the gate there.  Then the player may be asked for a team.
Probed(c) ==
  /\ calls[c].at = "probing"
  /\ \/ /\ End(c, "none") \/ Move(c, "selecting")
        /\ paused' = hidden
        /\ phase' = "Ready" /\ failure' = "none" /\ watch' = NoWatch
        /\ disturbed' = disturbed
             \cup (IF teardown # "none" THEN {"teardown"} ELSE {})
        /\ UNCHANGED requests
     \/ CallFails(c, "refused") /\ UNCHANGED disturbed
  /\ UNCHANGED << sessionVars, teardown, loopVars, showVars, operation,
                  reserved, replies, worker, hidden, toggles >>

\* #showTeamSelection
Selected(c) ==
  /\ calls[c].at = "selecting"
  /\ \/ End(c, "none") /\ UNCHANGED << paused, screenVars, requests >>
     \/ CallFails(c, "selection")
  /\ UNCHANGED << sessionVars, teardown, loopVars, showVars, operation,
                  reserved, replies, worker, userVars >>

-----------------------------------------------------------------------------
(* What a replacement does with an answer.                                  *)

Staged(c) ==
  /\ calls[c].at = "staging"
  /\ IF Current(c)
     THEN Move(c, "loading") /\ UNCHANGED << paused, screenVars, requests >>
     ELSE CallFails(c, "superseded")
  /\ UNCHANGED << generation, pending, snapshot >>

Activated(c) ==
  /\ calls[c].at = "activating" /\ Move(c, "releasing")
  /\ UNCHANGED << generation, paused, screenVars, requests, pending,
                  snapshot >>

Observed(c, tick) ==
  /\ calls[c].at = "observing"
  /\ IF tick # 0 /\ calls[c].attempts > 0
     THEN /\ snapshot' = [generation |-> calls[c].candidate, tick |-> tick]
          /\ IF Current(c)
             THEN Move(c, "initializing")
                  /\ UNCHANGED << paused, screenVars, requests >>
             ELSE CallFails(c, "superseded")
     ELSE /\ UNCHANGED snapshot
          /\ IF tick # 0 THEN CallFails(c, "baseline")
             ELSE IF calls[c].attempts = MaxAttempts THEN CallFails(c, "unpublished")
             ELSE /\ calls' = [calls EXCEPT ![c].at = "baseline",
                                            ![c].attempts = @ + 1]
                  /\ UNCHANGED << paused, screenVars, requests >>
  /\ UNCHANGED << generation, pending >>

Discarded(c) ==
  /\ calls[c].at = "discarding" /\ Conclude(c, calls[c].outcome)
  /\ UNCHANGED << generation, requests, pending, snapshot >>

CallReply(c) ==
  /\ replies # << >> /\ Head(replies).from = c /\ replies' = Tail(replies)
  /\ \/ /\ Head(replies).error = "none"
        /\ Staged(c) \/ Activated(c) \/ Observed(c, Head(replies).tick)
     \/ /\ Head(replies).error # "none" /\ calls[c].at # "discarding"
        /\ CallFails(c, "refused")
        /\ UNCHANGED << generation, pending, snapshot >>
     \/ Discarded(c)
  /\ UNCHANGED << client, closed, teardown, loopVars, presenting, operation,
                  reserved, worker, userVars >>

-----------------------------------------------------------------------------
(* Disconnect and close.                                                    *)

\* Every call is superseded; nothing of the generation is shown any more.
Leave(closing) ==
  /\ client /\ ~closed /\ teardown = "none"
  /\ closed' = closing /\ operation' = None
  /\ paused' = TRUE /\ generation' = generation + 1 /\ samples' = << >>
  /\ watch' = IF closing THEN NoWatch ELSE watch
  /\ UNCHANGED << client, phase, failure, step, showVars, calls, reserved,
                  requests, replies, worker, userVars >>
  /\ teardown' = AfterSimulation

TearDown ==
  /\ teardown = "presented" /\ teardown' = "disposing" /\ ResetPresentation
  /\ UNCHANGED << sessionVars, paused, screenVars, loopVars, presenting,
                  snapshot, operation, calls, reserved, requests, replies,
                  worker, userVars >>

\* The renderer is gone, and with it the frames.
Dispose ==
  /\ teardown = "disposing" /\ teardown' = "shutting"
  /\ UNCHANGED << sessionVars, paused, screenVars, loopVars, showVars,
                  operation, calls, reserved, requests, replies, worker,
                  userVars >>

\* The worker answers a shutdown after what it was asked before.
Shutdown ==
  /\ teardown = "shutting" /\ requests = << >> /\ replies = << >>
  /\ \A c \in Calls : calls[c].at \notin {"probing", "selecting"}
  /\ teardown' = "gone" /\ client' = FALSE /\ snapshot' = NoSnapshot
  /\ phase' = IF closed THEN "Closed" ELSE "MainMenu"
  /\ failure' = "none" /\ watch' = NoWatch
  /\ UNCHANGED << generation, closed, paused, loopVars, pending, presenting,
                  operation, calls, reserved, requests, replies,
                  worker, userVars >>

-----------------------------------------------------------------------------
Next ==
  \/ Elapse \/ Expire \/ Frame \/ Visibility \/ StepReply \/ FinishPresent
  \/ Answer \/ TearDown \/ Dispose \/ Shutdown
  \/ \E closing \in BOOLEAN : Leave(closing)
  \/ \E c \in Calls :
       \/ Choose(c) \/ Start(c) \/ Progress(c) \/ AcquireMap(c)
       \/ PassPresentation(c) \/ LoadMap(c)
       \/ Adopt(c) \/ AskInitial(c) \/ Initialize(c)
       \/ Probed(c) \/ Selected(c) \/ CallReply(c)

Spec == Init /\ [][Next]_vars
\* The timer of a visible page fires; nothing else is relied on.
FairSpec == Spec /\ WF_watch(Elapse \/ Expire)

-----------------------------------------------------------------------------
Generations == 1..(2 * MaxSwitches + 2)
Publications ==
  {NoPublication}
    \cup [generation : Generations, first : 1..MaxTicks, last : 1..MaxTicks]
Places == {"unused", "queued", "acquiring", "simulation",
           "presentation", "presented", "staging", "loading", "activating",
           "releasing", "baseline", "observing", "initializing", "probing",
           "selecting", "discarding", "done"}
Causes == {"none", "watchdog", "overflow", "stale", "fault", "presentation",
           "refused", "baseline", "unpublished", "superseded", "closed",
           "selection"}

\* Types; the queue of samples keeps its limit, and of all the steps one is
\* with the worker, of whatever generation.
TypeOK ==
  /\ generation \in Generations /\ {client, closed, paused, hidden} \subseteq BOOLEAN
  /\ teardown \in {"none", "simulation", "presentation",
                   "presented", "disposing", "shutting", "gone"}
  /\ phase \in {"Ready", "Replacing", "Failed", "MainMenu", "Closed"}
  /\ failure \in Causes
  /\ watch \in [state : {"idle", "running", "suspended"},
                remaining : 0..Budget, since : 0..Budget, visible : Nat]
  /\ samples \in BoundedSeq([generation : Generations, suspended : BOOLEAN],
                            MaxTransitions)
  /\ step \in Generations \cup {None}
  /\ {pending, presenting} \subseteq Publications
  /\ snapshot \in {NoSnapshot} \cup [generation : Generations, tick : 0..MaxTicks]
  /\ operation \in Calls \cup {None} /\ reserved \in Generations
  /\ calls \in [Calls -> [at : Places, previous : Generations \cup {None},
                         candidate : Generations \cup {None},
                         attempts : 0..MaxAttempts,
                         outcome : Causes]]
  /\ Cardinality({i \in DOMAIN requests : requests[i].from = None})
       + Cardinality({i \in DOMAIN replies : replies[i].from = None})
     = (IF step = None THEN 0 ELSE 1)
  /\ worker \in [active : Generations, staged : Generations \cup {None},
                 baselined : BOOLEAN, tick : 0..MaxTicks]
  /\ toggles \in 0..MaxToggles
  /\ disturbed \subseteq {"replacement", "teardown"}

\* A superseded call had activated the generation and left it as it was; if
\* the call after it fails, the page plays on with what that one left.
Abandoned ==
  \E c \in Calls : calls[c].candidate = generation /\ calls[c].outcome # "none"
Settled == phase = "Ready" /\ teardown = "none" /\ ~Abandoned

\* What waits to be shown is of the generation the page plays, which is, when
\* the page says that it is ready, the worker's active one and that of the
\* snapshot; and since each call waits for the one before, however that one
\* ended, the worker finds no request of a replacement out of date.
GenerationsAgree ==
  /\ teardown = "none" =>
       /\ pending.generation \in {None, generation}
       /\ \A i \in DOMAIN replies :
            replies[i].from # None => replies[i].error # "stale"
  /\ Settled => worker.active = generation /\ snapshot.generation = generation

\* While the page is neither hidden nor shown, no tick the worker published is
\* lost, doubled or out of order between the worker and the presentation, not
\* even when a replacement fails and the prior map is retained: both loops
\* have come to their end before it drops what they left.
NoTickLost ==
  LET shown == IF pending = NoPublication THEN snapshot.tick ELSE pending.last
      coming == {i \in DOMAIN replies : replies[i].from = None /\ replies[i].tick # 0}
  IN  Settled /\ disturbed = {} =>
        /\ pending # NoPublication => pending.first = snapshot.tick + 1
        /\ \A i \in coming : replies[i].tick = shown + 1
        /\ worker.tick = shown + Cardinality(coming)

\* What is presented is what the worker simulates.
PresentationSound == GenerationsAgree /\ NoTickLost

\* The player sees no failure the page made itself, but for the gate of the
\* frames opened where it ought to be closed.  The watchdog expires only after
\* its time with the page visible.  A step is refused as out of date only if
\* the page was hidden or shown during a replacement, or, while the session is
\* being left, if it was hidden or shown or a replacement came to its end then;
\* the first sample of a map publishes only if the page was hidden or shown
\* during a replacement.  Only hiding and showing fill the queue of samples,
\* never mere waiting.
FailuresAreReal ==
  [][failure' # failure =>
       /\ failure' = "watchdog" => watch.visible >= Budget
       /\ failure' = "stale" =>
            "replacement" \in disturbed
              \/ (teardown # "none" /\ "teardown" \in disturbed)
       /\ failure' = "baseline" => "replacement" \in disturbed
       /\ failure' = "overflow" => toggles' >= MaxTransitions]_failure

\* Whatever hangs, the network, the worker or the renderer, the player is not
\* left with "Replacing" on a visible page, unless objects keep arriving.
ReplacementEnds ==
  \/ []<>(phase # "Replacing" \/ hidden \/ closed)
  \/ []<><<watch' = Armed>>_watch
=============================================================================
