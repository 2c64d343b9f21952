------------------------- MODULE EntityWorldProofs -------------------------
(***************************************************************************)
(* What holds of the entity world for all limits, maps and commands.       *)
(*                                                                         *)
(* First that it implements PhasedWorld.  What an operation makes of the   *)
(* world need not be known for that: the argument rests on where a phase   *)
(* keeps the state it may return to.                                       *)
(*                                                                         *)
(* Then that every operation keeps the world sound: well typed and within  *)
(* its limits, each entity linked to its parent from both ends, no cycle,  *)
(* nothing queued by an entity for itself after it is gone.  Good(g) is    *)
(* the set of the sound worlds whose slots are in the generations g; each  *)
(* operation leads from Good(g) to Good(g), a loop over such operations    *)
(* does too, and only the end of a phase moves generations on.             *)
(*                                                                         *)
(* And that timers and relays stay armed.  Ready(g, X) is the set of the   *)
(* sound worlds in which each timer and relay not in X has the events it   *)
(* waits for; an operation may disarm the entity it is for, which must be  *)
(* armed again, or marked for removal, before the operation returns.       *)
(***************************************************************************)
EXTENDS EntityWorld, SequenceTheorems, FiniteSetTheorems, FunctionTheorems,
        NaturalsInduction, TLAPS

-----------------------------------------------------------------------------
(* Phases: the refinement of PhasedWorld.                                   *)

\* Between phases the state is what the game saw last; within one, the tick
\* has not gone back, and one that services nothing has only added events.
PhaseInv ==
  /\ phase \in {"idle", "commands", "drain"}
  /\ tick \in Nat /\ start.tick \in Nat /\ start.tick <= tick
  /\ revision \in Nat
  /\ start = [world |-> start.world, tick |-> start.tick]
  /\ Idle => world = start.world /\ tick = start.tick
  /\ ~Idle /\ restart # "none" => service
  /\ ~service => start.world.queue \subseteq world.queue

\* Scheduling, refused or not, takes nothing from the queue.
LEMMA ScheduleKeepsEvents ==
  ASSUME NEW w, NEW event, NEW delay
  PROVE  w.queue \subseteq ScheduleEvent(w, event, delay).queue
BY DEF ScheduleEvent, Fail, World

LEMMA CommitKeepsEvents ==
  ASSUME NEW w
  PROVE  CommitRemovals(w).queue = w.queue
BY DEF CommitRemovals, World

LEMMA ClearedIsEmpty ==
  ASSUME NEW w
  PROVE  /\ Cleared(w).queue = {}
         /\ Cleared(w).entity = w.entity
BY DEF Cleared, World

\* An operation either stays in its phase or ends it by rolling back.
LEMMA OutcomeKeepsInv ==
  ASSUME PhaseInv, ~Idle, NEW w, Outcome(w),
         service \/ world.queue \subseteq w.queue
  PROVE  PhaseInv' /\ start' = start /\ revision' = revision /\ dead' = dead
<1>1. CASE w.failed
  BY <1>1 DEF PhaseInv, Idle, Outcome, RollBack, Leave
<1>2. CASE ~w.failed
  BY <1>2 DEF PhaseInv, Idle, Outcome
<1> QED BY <1>1, <1>2

LEMMA InitInv == Init => PhaseInv
BY DEF Init, PhaseInv, Idle

LEMMA CommandOutcome ==
  ASSUME NEW w, Command(w)
  PROVE  ~Idle /\ service /\ Outcome(w)
BY DEF Command, Commanded, Idle

\* Which operation a step applies matters only to a phase without service.
LEMMA OperationOutcome ==
  ASSUME \/ Spawn \/ Input \/ QueueInput \/ RemoveEntity \/ ChangeParent
         \/ EmitOutput \/ SetTargetname \/ ServiceEvent \/ RestartRemovals
         \/ RestartSpawn,
         PhaseInv
  PROVE  \E w : /\ ~Idle /\ Outcome(w)
                /\ service \/ world.queue \subseteq w.queue
<1>1. CASE Spawn
  BY <1>1, CommandOutcome DEF Spawn
<1>2. CASE Input
  BY <1>2, CommandOutcome DEF Input
<1>3. CASE QueueInput
  <2>1. PICK i \in Inputs, h \in Held, delay \in Delays :
          Commanded(ScheduleEvent(world, InputRecord(i, h), delay),
                    IF service THEN MaxCommands ELSE 1)
    BY <1>3 DEF QueueInput
  <2> QED BY <2>1, ScheduleKeepsEvents DEF Commanded, Idle
<1>4. CASE RemoveEntity
  BY <1>4, CommandOutcome DEF RemoveEntity
<1>5. CASE ChangeParent
  BY <1>5, CommandOutcome DEF ChangeParent
<1>6. CASE EmitOutput
  BY <1>6, CommandOutcome DEF EmitOutput
<1>7. CASE SetTargetname
  <2>1. PICK h \in Held, name \in Names :
          Command(IF Resolvable(world, h)
                  THEN [world EXCEPT !.entity[h].name = name] ELSE world)
    BY <1>7 DEF SetTargetname
  <2> DEFINE w == IF Resolvable(world, h)
                  THEN [world EXCEPT !.entity[h].name = name] ELSE world
  <2>2. Command(w)
    BY <2>1
  <2> HIDE DEF w
  <2> QED BY <2>2, CommandOutcome
<1>8. CASE ServiceEvent
  BY <1>8 DEF ServiceEvent, DueEvents, Idle
<1>9. CASE RestartRemovals
  BY <1>9 DEF RestartRemovals, Commanded, PhaseInv, Idle
<1>10. CASE RestartSpawn
  BY <1>10 DEF RestartSpawn, Commanded, PhaseInv, Idle
<1> QED
  BY <1>1, <1>2, <1>3, <1>4, <1>5, <1>6, <1>7, <1>8, <1>9, <1>10

LEMMA BeginKeepsInv ==
  ASSUME PhaseInv, Idle, NEW w, NEW now \in Nat, tick <= now,
         NEW serviceEvents \in BOOLEAN, Begin(w, now, serviceEvents),
         restart' # "none" => serviceEvents
  PROVE  /\ PhaseInv'
         /\ start' = [world |-> w, tick |-> tick]
BY DEF PhaseInv, Begin, Idle

\* What a step is to the game: nothing, a phase, an input queued from the
\* console, or the events discarded.
LEMMA StepRefines ==
  ASSUME PhaseInv, Next, MaxTick \in Nat
  PROVE  PhaseInv' /\ (Phased!Next \/ UNCHANGED Phased!vars)
<1>0. tick \in Nat /\ MaxTick \in Nat
  BY DEF PhaseInv
<1>1. CASE \/ Spawn \/ Input \/ QueueInput \/ RemoveEntity \/ ChangeParent
           \/ EmitOutput \/ SetTargetname \/ ServiceEvent \/ RestartRemovals
           \/ RestartSpawn
  <2>1. PICK w : /\ ~Idle /\ Outcome(w)
                 /\ service \/ world.queue \subseteq w.queue
    BY <1>1, OperationOutcome
  <2> QED BY <2>1, OutcomeKeepsInv DEF Phased!vars
<1>2. CASE BeginPhase
  <2>1. PICK now \in Nat, serviceEvents \in BOOLEAN :
          tick <= now /\ Begin(world, now, serviceEvents)
    BY <1>2 DEF BeginPhase, PhaseInv
  <2>2. Idle /\ restart' = "none"
    BY <1>2 DEF BeginPhase
  <2>3. PhaseInv' /\ start' = [world |-> world, tick |-> tick]
    BY <2>1, <2>2, BeginKeepsInv
  <2>4. start' = start
    BY <2>2, <2>3 DEF PhaseInv
  <2> QED BY <2>1, <2>3, <2>4 DEF Begin, Phased!vars
<1>3. CASE BeginRestart \/ BeginRespawn
  <2>1. PICK now \in Nat : tick <= now /\ Begin(Cleared(world), now, TRUE)
    <3>1. CASE BeginRestart
      <4>1. PICK now \in tick..MaxTick : Begin(Cleared(world), now, TRUE)
        BY <3>1 DEF BeginRestart
      <4>2. now \in Nat /\ tick <= now
        BY <1>0 DEF PhaseInv
      <4> QED BY <4>1, <4>2
    <3>2. CASE BeginRespawn
      BY <3>2 DEF BeginRespawn, PhaseInv
    <3> QED BY <1>3, <3>1, <3>2
  <2>2. Idle
    BY <1>3 DEF BeginRestart, BeginRespawn
  <2>3. PhaseInv' /\ start' = [world |-> Cleared(world), tick |-> tick]
    BY <2>1, <2>2, BeginKeepsInv
  <2>4. Phased!DiscardEvents
    BY <2>1, <2>2, <2>3, ClearedIsEmpty
       DEF Phased!DiscardEvents, Begin, PhaseInv
  <2> QED BY <2>3, <2>4 DEF Phased!Next
<1>4. CASE EndCommands
  BY <1>4 DEF EndCommands, PhaseInv, Idle, Phased!vars
<1>5. CASE CommitPhase
  <2>1. /\ phase = "drain" /\ DueEvents = {}
        /\ world' = CommitRemovals(world)
        /\ dead \subseteq dead' /\ revision' = revision + 1
        /\ start' = [world |-> world', tick |-> tick]
        /\ tick' = tick
        /\ phase' = "idle" /\ service' = TRUE
    BY <1>5 DEF CommitPhase, Leave
  <2>2. PhaseInv'
    BY <2>1 DEF PhaseInv, Idle
  <2>3. start.world.queue \subseteq start'.world.queue \/ service
    BY <2>1, CommitKeepsEvents DEF PhaseInv
  <2>4. Phased!Commit
    BY <2>1 DEF Phased!Commit, PhaseInv
  <2>5. CASE service
    <3>1. \A e \in start'.world.queue : ~(e.due <= start'.tick)
      BY <2>1, <2>5, CommitKeepsEvents DEF DueEvents
    <3> QED BY <2>2, <2>4, <3>1 DEF Phased!Next, Phased!Phase
  <2>6. CASE ~service
    BY <2>2, <2>3, <2>4, <2>6 DEF Phased!Next, Phased!Enqueue
  <2> QED BY <2>5, <2>6
<1> QED
  BY <1>1, <1>2, <1>3, <1>4, <1>5 DEF Next

LEMMA StutterRefines ==
  ASSUME PhaseInv, UNCHANGED vars
  PROVE  PhaseInv' /\ UNCHANGED Phased!vars
BY DEF vars, PhaseInv, Idle, Phased!vars

\* Whatever the limits, the map and the commands: the world the game sees
\* changes by whole phases, and a failure anywhere in one changes nothing.
THEOREM EntityWorldImplementsPhases == Spec => ImplementsPhasedWorld
<1>0. MaxTick \in Nat
  BY LimitsAssumption DEF LimitsAssumption
<1>1. Init => PhaseInv /\ Phased!Init
  BY InitInv DEF Init, Phased!Init
<1>2. PhaseInv /\ [Next]_vars => PhaseInv' /\ [Phased!Next]_(Phased!vars)
  BY <1>0, StepRefines, StutterRefines
<1> QED BY <1>1, <1>2, PTL DEF Spec, ImplementsPhasedWorld, Phased!Spec

-----------------------------------------------------------------------------
(* Natural numbers.                                                         *)

\* A nonempty set of natural numbers has a least element.
LEMMA LeastExists ==
  ASSUME NEW S, S \subseteq Nat, S # {}
  PROVE  \E x \in S : \A y \in S : x <= y
<1>1. PICK x \in S : \A y \in S : <<y, x>> \notin OpToRel(<, Nat)
  BY NatLessThanWellFounded, WFMin
<1>2. \A y \in S : ~(y < x)
  BY <1>1 DEF OpToRel
<1>3. QED
  BY <1>2

\* Induction over the natural numbers, for sets.
LEMMA SetInduction ==
  ASSUME NEW P, 0 \in P, \A n \in Nat : n \in P => n + 1 \in P
  PROVE  Nat \subseteq P
<1>1. SUFFICES ASSUME Nat \ P # {} PROVE FALSE
  OBVIOUS
<1>2. PICK x \in Nat \ P : \A y \in Nat \ P : x <= y
  BY <1>1, LeastExists
<1>3. x - 1 \in Nat /\ x - 1 \notin Nat \ P
  BY <1>2
<1>4. QED
  BY <1>2, <1>3


\* A loop in the set W: n steps from base, each a value of the table step.
Closed(W, n, base, step) ==
  /\ n \in Nat /\ base \in W
  /\ \A x \in W, i \in 1..n : step[x][i] \in W

Tabulated(W, n, base, step) ==
  \E f \in [0..n -> W] :
    f[0] = base /\ \A i \in 1..n : f[i] = step[f[i - 1]][i]

LEMMA TableExists ==
  ASSUME NEW W, NEW n, NEW base, NEW step, Closed(W, n, base, step)
  PROVE  Tabulated(W, n, base, step)
<1>0. /\ n \in Nat /\ base \in W
      /\ \A x \in W, i \in 1..n : step[x][i] \in W
  BY DEF Closed
<1> DEFINE Is(f, m) == /\ f \in [0..m -> W] /\ f[0] = base
                       /\ \A i \in 1..m : f[i] = step[f[i - 1]][i]
           P == {m \in Nat : m <= n => \E f : Is(f, m)}
<1>1. 0 \in P
  <2>1. Is([i \in 0..0 |-> base], 0)
    BY <1>0
  <2>2. QED
    BY <2>1
<1>2. ASSUME NEW m \in Nat, m \in P PROVE m + 1 \in P
  <2>1. SUFFICES ASSUME m + 1 <= n PROVE \E f : Is(f, m + 1)
    OBVIOUS
  <2>2. PICK g : Is(g, m)
    BY <1>0, <1>2, <2>1
  <2> DEFINE last == step[g[m]][m + 1]
             f == [i \in 0..(m + 1) |-> IF i <= m THEN g[i] ELSE last]
  <2>3. last \in W
    <3>1. g[m] \in W /\ m + 1 \in 1..n
      BY <1>0, <2>1, <2>2
    <3>2. QED
      BY <1>0, <3>1
  <2>4. \A i \in 0..(m + 1) : f[i] = IF i <= m THEN g[i] ELSE last
    OBVIOUS
  <2>5. f \in [0..(m + 1) -> W]
    <3> HIDE DEF last
    <3>1. QED
      BY <2>2, <2>3
  <2> HIDE DEF f
  <2>6. ASSUME NEW i \in 1..(m + 1) PROVE f[i] = step[f[i - 1]][i]
    <3>1. CASE i <= m
      <4>1. f[i] = g[i] /\ f[i - 1] = g[i - 1] /\ i \in 1..m
        BY <2>4, <3>1
      <4>2. QED
        BY <2>2, <4>1
    <3>2. CASE i = m + 1
      <4>1. f[i] = last /\ f[i - 1] = g[m]
        BY <2>4, <3>2
      <4>2. QED
        BY <3>2, <4>1 DEF last
    <3>3. QED
      BY <3>1, <3>2
  <2>7. f[0] = base
    BY <2>2, <2>4
  <2>8. QED
    BY <2>5, <2>6, <2>7
<1> HIDE DEF Is
<1>3. Nat \subseteq P
  <2> HIDE DEF P
  <2>1. QED
    BY <1>1, <1>2, SetInduction
<1>4. PICK f : Is(f, n)
  BY <1>0, <1>3
<1>5. QED
  BY <1>4 DEF Is, Tabulated

\* What holds of the first value and is kept by a step holds throughout.
LEMMA TableStays ==
  ASSUME NEW W, NEW n \in Nat, NEW f, f[0] \in W,
         \A i \in 1..n : f[i - 1] \in W => f[i] \in W
  PROVE  \A i \in 0..n : f[i] \in W
<1> DEFINE P == {m \in Nat : m <= n => f[m] \in W}
<1>1. 0 \in P
  OBVIOUS
<1>2. ASSUME NEW m \in Nat, m \in P PROVE m + 1 \in P
  <2>1. m + 1 <= n => m + 1 \in 1..n /\ (m + 1) - 1 = m
    OBVIOUS
  <2>2. QED
    BY <1>2, <2>1
<1> HIDE DEF P
<1>3. Nat \subseteq P
  BY <1>1, <1>2, SetInduction
<1>4. QED
  BY <1>3 DEF P



LEMMA KeptTable ==
  ASSUME NEW X, NEW s \in Seq(X), NEW S
  PROVE  \E g \in [0..Len(s) -> Seq(X)] :
           /\ Kept(s, S) = g[Len(s)] /\ g[0] = << >>
           /\ \A i \in 1..Len(s) :
                g[i] = IF s[i] \in S THEN Append(g[i - 1], s[i]) ELSE g[i - 1]
<1> DEFINE W == Seq(X)
           n == Len(s)
           base == << >>
           Op(t, i) == IF s[i] \in S THEN Append(t, s[i]) ELSE t
           Is(g) == g = [i \in 0..n |-> IF i = 0 THEN base ELSE Op(g[i - 1], i)]
           step == [t \in W |-> [i \in 1..n |-> Op(t, i)]]
<1>0. n \in Nat /\ \A i \in 1..n : s[i] \in X
  BY LenProperties, ElementOfSeq
<1>1. base \in W /\ \A t \in W, i \in 1..n : Op(t, i) \in W
  BY <1>0
<1>2. Kept(s, S) = (CHOOSE g : Is(g))[n]
  BY DEF Kept, Folded
<1>3. \A t, i : Op(t, i) = IF s[i] \in S THEN Append(t, s[i]) ELSE t
  OBVIOUS
<1> HIDE DEF W, n, base, Op
<1>4. \A t \in W, i \in 1..n : step[t][i] = Op(t, i)
  OBVIOUS
<1>5. \A t \in W, i \in 1..n : step[t][i] \in W
  BY <1>1, <1>4
<1> HIDE DEF step
<1>6. PICK f \in [0..n -> W] :
        f[0] = base /\ \A i \in 1..n : f[i] = step[f[i - 1]][i]
  <2>1. Closed(W, n, base, step)
    BY <1>0, <1>1, <1>5 DEF Closed
  <2>2. Tabulated(W, n, base, step)
    BY <2>1, TableExists
  <2>3. QED
    BY <2>2 DEF Tabulated
<1>7. \A i \in 0..n : f[i] = IF i = 0 THEN base ELSE Op(f[i - 1], i)
  <2>1. \A i \in 1..n : f[i - 1] \in W
    BY <1>0
  <2>2. QED
    BY <1>0, <1>4, <1>6, <2>1
<1>8. Is(f)
  BY <1>7
<1>9. PICK g : Is(g) /\ Kept(s, S) = g[n]
  <2> HIDE DEF Is
  <2>1. QED
    BY <1>2, <1>8
<1> DEFINE at(i) == IF i = 0 THEN base ELSE Op(g[i - 1], i)
           h == [i \in 0..n |-> at(i)]
<1>10. g = h
  BY <1>9
<1>11. h[0] = base /\ \A i \in 1..n : h[i] = at(i)
  BY <1>0
<1>12. \A i \in 1..n : at(i) = Op(g[i - 1], i)
  BY <1>0
<1>13. DOMAIN h = 0..n
  OBVIOUS
<1>14. h = [i \in 0..n |-> h[i]]
  OBVIOUS
<1> HIDE DEF h, at, Is
<1>15. g[0] = base /\ \A i \in 1..n : g[i] = Op(g[i - 1], i)
  BY <1>10, <1>11, <1>12
<1>16. \A i \in 0..n : g[i] \in W
  <2>1. \A i \in 1..n : g[i - 1] \in W => g[i] \in W
    BY <1>1, <1>15
  <2>2. g[0] \in W
    BY <1>1, <1>15
  <2>3. QED
    BY <1>0, <2>1, <2>2, TableStays
<1>17. g \in [0..n -> W]
  BY <1>10, <1>14, <1>16
<1>18. QED
  BY <1>3, <1>9, <1>15, <1>17 DEF W, n, base

LEMMA AppendSet ==
  ASSUME NEW X, NEW s \in Seq(X), NEW x \in X
  PROVE  /\ ToSet(Append(s, x)) = ToSet(s) \cup {x}
         /\ IsInjective(s) /\ x \notin ToSet(s) => IsInjective(Append(s, x))
<1> DEFINE n == Len(s)
           t == Append(s, x)
<1>1. /\ n \in Nat /\ DOMAIN s = 1..n /\ DOMAIN t = 1..(n + 1)
      /\ \A i \in 1..(n + 1) : t[i] = IF i = n + 1 THEN x ELSE s[i]
  OBVIOUS
<1> HIDE DEF n, t
<1>2. ToSet(t) = ToSet(s) \cup {x}
  <2>1. n + 1 \in 1..(n + 1) /\ \A i \in 1..n : i \in 1..(n + 1) /\ i # n + 1
    BY <1>1
  <2>2. QED
    BY <1>1, <2>1 DEF ToSet
<1>3. ASSUME IsInjective(s), x \notin ToSet(s) PROVE IsInjective(t)
  BY <1>1, <1>3 DEF IsInjective, ToSet
<1>4. QED
  BY <1>2, <1>3 DEF t

\* A sequence filtered.
LEMMA KeptFacts ==
  ASSUME NEW X, NEW s \in Seq(X), NEW S
  PROVE  /\ Kept(s, S) \in Seq(X)
         /\ ToSet(Kept(s, S)) = ToSet(s) \cap S
         /\ IsInjective(s) => IsInjective(Kept(s, S))
<1>1. PICK g \in [0..Len(s) -> Seq(X)] :
        /\ Kept(s, S) = g[Len(s)] /\ g[0] = << >>
        /\ \A i \in 1..Len(s) :
             g[i] = IF s[i] \in S THEN Append(g[i - 1], s[i]) ELSE g[i - 1]
  BY KeptTable
<1> DEFINE n == Len(s)
<1>2. n \in Nat /\ DOMAIN s = 1..n /\ \A i \in 1..n : s[i] \in X
  BY LenProperties, ElementOfSeq
<1> DEFINE First(m) == {s[j] : j \in 1..m}
           Holds(m) == /\ ToSet(g[m]) = First(m) \cap S
                       /\ IsInjective(s) => IsInjective(g[m])
           P == {m \in Nat : m <= n => Holds(m)}
<1>3. 0 \in P
  <2>1. First(0) = {}
    OBVIOUS
  <2>2. ToSet(g[0]) = {} /\ IsInjective(g[0])
    BY <1>1 DEF ToSet, IsInjective
  <2>3. QED
    BY <2>1, <2>2
<1>4. ASSUME NEW m \in Nat, m \in P PROVE m + 1 \in P
  <2>1. SUFFICES ASSUME m + 1 <= n PROVE Holds(m + 1)
    OBVIOUS
  <2>2. Holds(m) /\ m \in 0..n /\ m + 1 \in 1..n
    BY <1>2, <1>4, <2>1
  <2>3. g[m] \in Seq(X) /\ s[m + 1] \in X
    BY <1>1, <1>2, <2>2
  <2>4. First(m + 1) = First(m) \cup {s[m + 1]}
    <3>1. \A j \in 1..(m + 1) : j \in 1..m \/ j = m + 1
      OBVIOUS
    <3>2. m + 1 \in 1..(m + 1) /\ \A j \in 1..m : j \in 1..(m + 1)
      OBVIOUS
    <3>3. QED
      BY <3>1, <3>2
  <2>5. IsInjective(s) => s[m + 1] \notin First(m)
    BY <1>2, <2>2 DEF IsInjective
  <2>6. g[m + 1] = IF s[m + 1] \in S THEN Append(g[m], s[m + 1]) ELSE g[m]
    BY <1>1, <2>2
  <2> HIDE DEF First, P
  <2>7. CASE s[m + 1] \in S
    <3>1. /\ ToSet(g[m + 1]) = ToSet(g[m]) \cup {s[m + 1]}
          /\ IsInjective(g[m]) /\ s[m + 1] \notin ToSet(g[m])
               => IsInjective(g[m + 1])
      BY <2>3, <2>6, <2>7, AppendSet
    <3>2. QED
      BY <2>2, <2>4, <2>5, <2>7, <3>1
  <2>8. CASE s[m + 1] \notin S
    BY <2>2, <2>4, <2>6, <2>8
  <2>9. QED
    BY <2>7, <2>8
<1>5. Nat \subseteq P
  <2> HIDE DEF P
  <2>1. QED
    BY <1>3, <1>4, SetInduction
<1>6. Holds(n)
  BY <1>2, <1>5
<1>7. First(n) = ToSet(s)
  BY <1>2 DEF ToSet
<1>8. QED
  BY <1>1, <1>2, <1>6, <1>7

-----------------------------------------------------------------------------
(* What a world is made of.                                                 *)

\* The texts of the map and of the game, and those of the code itself.
Words == STRING \cup {NoName, "__timer_fire", "EnableRefire", "__relay_spawn"}

HandleOrNone == Handles \cup {NoHandle}

Events ==
  [target : HandleOrNone, name : Words, input : Words, text : Words,
   units : Nat, activator : HandleOrNone, caller : HandleOrNone,
   callerName : Words, due : Nat, seq : Nat]

Entities ==
  [class : Words, name : Words, pending : BOOLEAN, enabled : BOOLEAN,
   waiting : BOOLEAN, fire : Int, outputs : Seq(Actions),
   parent : HandleOrNone, children : Seq(Handles), once : BOOLEAN,
   fast : BOOLEAN, interval : Nat, parentName : Words]

EntityMaps == UNION {[D -> Entities] : D \in SUBSET Handles}

Worlds ==
  [entity : EntityMaps, generation : [Slots -> Nat \ {0}], order : Seq(Handles),
   queue : SUBSET Events, next : Nat, failed : BOOLEAN]

\* A handle in use is the one its slot gives out, and creation_order lists it.
Placed(w) ==
  /\ \A h \in Occupied(w) : w.generation[h.slot] = h.generation
  /\ IsInjective(w.order) /\ ToSet(w.order) = Occupied(w)

\* The queue is within its limit, and its events are told apart.
Queued(w) ==
  /\ IsFiniteSet(w.queue) /\ Cardinality(w.queue) <= MaxQueued
  /\ \A q \in w.queue : q.seq < w.next
  /\ \A q, r \in w.queue : q.seq = r.seq => q = r

\* What an entity queued for itself does not outlive it.
Owned(w) ==
  \A q \in w.queue :
    q.target = q.caller /\ q.target # NoHandle => Resolvable(w, q.target)

Linked(w) ==
  \A p \in Occupied(w) :
    /\ IsInjective(w.entity[p].children)
    /\ ToSet(w.entity[p].children) =
         {h \in Occupied(w) : w.entity[h].parent = p}

Parented(w) ==
  \A h \in Occupied(w) :
    /\ w.entity[h].parent \in Occupied(w) \cup {NoHandle}
    /\ Resolvable(w, h) /\ w.entity[h].parent # NoHandle
         => Resolvable(w, w.entity[h].parent)

Acyclic(w) ==
  \A S \in SUBSET Occupied(w) :
    S # {} => \E h \in S : w.entity[h].parent \notin S

Sound(w) == Placed(w) /\ Queued(w) /\ Owned(w) /\ Linked(w) /\ Parented(w) /\ Acyclic(w)

\* The sound worlds in which the slots are in given generations.
Good(g) == {w \in Worlds : w.generation = g /\ Sound(w)}

-----------------------------------------------------------------------------
(* Changes that leave the shape of the world alone.                         *)

LEMMA WorldParts ==
  ASSUME NEW w \in Worlds
  PROVE  /\ w.entity \in [Occupied(w) -> Entities]
         /\ Occupied(w) \subseteq Handles
         /\ w.generation \in [Slots -> Nat \ {0}]
         /\ w.order \in Seq(Handles) /\ w.queue \subseteq Events
         /\ w.next \in Nat /\ w.failed \in BOOLEAN
         /\ w = World(w.entity, w.generation, w.order, w.queue, w.next, w.failed)
<1>1. w.entity \in EntityMaps
  BY DEF Worlds
<1>2. PICK D \in SUBSET Handles : w.entity \in [D -> Entities]
  BY <1>1 DEF EntityMaps
<1>3. D = Occupied(w)
  BY <1>2 DEF Occupied
<1>4. QED
  BY <1>2, <1>3 DEF Worlds, World

LEMMA WorldMade ==
  ASSUME NEW D, D \subseteq Handles, NEW entity \in [D -> Entities],
         NEW generation \in [Slots -> Nat \ {0}], NEW order \in Seq(Handles),
         NEW queue, queue \subseteq Events, NEW next \in Nat,
         NEW failed \in BOOLEAN
  PROVE  /\ World(entity, generation, order, queue, next, failed) \in Worlds
         /\ Occupied(World(entity, generation, order, queue, next, failed)) = D
<1>1. entity \in EntityMaps
  BY DEF EntityMaps
<1>2. QED
  BY <1>1 DEF Worlds, World, Occupied

LEMMA WorldIs ==
  ASSUME NEW v, NEW D, D \subseteq Handles, v.entity \in [D -> Entities],
         v.generation \in [Slots -> Nat \ {0}], v.order \in Seq(Handles),
         v.queue \subseteq Events, v.next \in Nat, v.failed \in BOOLEAN,
         v = World(v.entity, v.generation, v.order, v.queue, v.next, v.failed)
  PROVE  v \in Worlds /\ Occupied(v) = D
<1>1. v.entity \in EntityMaps
  BY DEF EntityMaps
<1>2. Occupied(v) = D
  BY DEF Occupied
<1> DEFINE a == v.entity
           b == v.generation
           c == v.order
           d == v.queue
           e == v.next
           f == v.failed
<1>3. v = World(a, b, c, d, e, f)
  OBVIOUS
<1>4. /\ a \in EntityMaps /\ b \in [Slots -> Nat \ {0}] /\ c \in Seq(Handles)
      /\ d \in SUBSET Events /\ e \in Nat /\ f \in BOOLEAN
  BY <1>1
<1> HIDE DEF a, b, c, d, e, f
<1>5. World(a, b, c, d, e, f) \in Worlds
  BY <1>4 DEF World, Worlds
<1>6. QED
  BY <1>2, <1>3, <1>5

LEMMA EntityParts ==
  ASSUME NEW w \in Worlds, NEW h \in Occupied(w)
  PROVE  w.entity[h] \in Entities /\ h \in Handles
BY WorldParts

\* Who is there, who is whose parent and what the slots give out.
SameShape(w, v) ==
  /\ v.generation = w.generation /\ v.order = w.order
  /\ Occupied(v) = Occupied(w)
  /\ \A h \in Occupied(w) :
       /\ v.entity[h].pending = w.entity[h].pending
       /\ v.entity[h].parent = w.entity[h].parent
       /\ v.entity[h].children = w.entity[h].children

LEMMA ShapeKept ==
  ASSUME NEW w, NEW v, SameShape(w, v)
  PROVE  /\ \A h : Resolvable(v, h) <=> Resolvable(w, h)
         /\ Placed(w) => Placed(v)
         /\ Linked(w) => Linked(v)
         /\ Parented(w) => Parented(v)
         /\ Acyclic(w) => Acyclic(v)
<1>1. \A h : Resolvable(v, h) <=> Resolvable(w, h)
  BY DEF SameShape, Resolvable
<1>2. Placed(w) => Placed(v)
  BY DEF SameShape, Placed
<1>3. Linked(w) => Linked(v)
  <2>1. SUFFICES ASSUME Linked(w), NEW p \in Occupied(v)
                 PROVE  /\ IsInjective(v.entity[p].children)
                        /\ ToSet(v.entity[p].children) =
                             {h \in Occupied(v) : v.entity[h].parent = p}
    BY DEF Linked
  <2>2. /\ IsInjective(w.entity[p].children)
        /\ ToSet(w.entity[p].children) =
             {h \in Occupied(w) : w.entity[h].parent = p}
    BY <2>1 DEF SameShape, Linked
  <2>3. {h \in Occupied(v) : v.entity[h].parent = p} =
        {h \in Occupied(w) : w.entity[h].parent = p}
    BY DEF SameShape
  <2>4. v.entity[p].children = w.entity[p].children
    BY <2>1 DEF SameShape
  <2>5. QED
    BY <2>2, <2>3, <2>4
<1>4. Parented(w) => Parented(v)
  BY <1>1 DEF SameShape, Parented
<1>5. Acyclic(w) => Acyclic(v)
  BY DEF SameShape, Acyclic
<1>6. QED
  BY <1>1, <1>2, <1>3, <1>4, <1>5

\* Events may go, and fields that are not links may change.
LEMMA SameShapeGood ==
  ASSUME NEW g, NEW w \in Good(g), NEW v \in Worlds, SameShape(w, v),
         v.queue \subseteq w.queue, v.next = w.next
  PROVE  v \in Good(g) /\ \A h : Resolvable(v, h) <=> Resolvable(w, h)
<1>1. w \in Worlds /\ w.generation = g /\ Sound(w)
  BY DEF Good
<1>2. Queued(v)
  <2>1. IsFiniteSet(v.queue) /\ Cardinality(v.queue) <= Cardinality(w.queue)
        /\ Cardinality(v.queue) \in Nat /\ Cardinality(w.queue) \in Nat
    BY <1>1, FS_Subset, FS_CardinalityType DEF Sound, Queued
  <2>2. Cardinality(v.queue) <= MaxQueued
    BY <1>1, <2>1, LimitsAssumption DEF Sound, Queued, LimitsAssumption
  <2>3. QED
    BY <1>1, <2>1, <2>2 DEF Sound, Queued
<1>3. \A h : Resolvable(v, h) <=> Resolvable(w, h)
  BY ShapeKept
<1>4. Owned(v)
  BY <1>1, <1>3 DEF Sound, Owned
<1>5. Placed(v) /\ Linked(v) /\ Parented(v) /\ Acyclic(v)
  BY <1>1, ShapeKept DEF Sound
<1>6. v.generation = g
  BY <1>1 DEF SameShape
<1>7. QED
  BY <1>2, <1>3, <1>4, <1>5, <1>6 DEF Good, Sound

LEMMA SameShapeSelf ==
  ASSUME NEW w
  PROVE  SameShape(w, w)
BY DEF SameShape

LEMMA FailGood ==
  ASSUME NEW g, NEW w \in Good(g)
  PROVE  /\ Fail(w) \in Good(g) /\ \A h : Resolvable(Fail(w), h) <=> Resolvable(w, h)
         /\ Fail(w).entity = w.entity /\ Fail(w).queue = w.queue /\ Fail(w).failed
<1>1. w \in Worlds
  BY DEF Good
<1>2. Fail(w) \in Worlds
  BY <1>1, WorldParts, WorldMade DEF Fail
<1>3. SameShape(w, Fail(w)) /\ Fail(w).queue = w.queue /\ Fail(w).next = w.next
      /\ Fail(w).entity = w.entity /\ Fail(w).failed
  BY DEF SameShape, Fail, World, Occupied
<1>4. QED
  BY <1>2, <1>3, SameShapeGood

\* One entity, changed in fields that are no links.
WithEntity(w, h, e) == [w EXCEPT !.entity[h] = e]

LEMMA WithEntityGood ==
  ASSUME NEW g, NEW w \in Good(g), NEW h \in Occupied(w), NEW e \in Entities,
         e.pending = w.entity[h].pending, e.parent = w.entity[h].parent,
         e.children = w.entity[h].children
  PROVE  /\ WithEntity(w, h, e) \in Good(g)
         /\ \A i : Resolvable(WithEntity(w, h, e), i) <=> Resolvable(w, i)
         /\ WithEntity(w, h, e).queue = w.queue
         /\ WithEntity(w, h, e).next = w.next
         /\ WithEntity(w, h, e).failed = w.failed
         /\ Occupied(WithEntity(w, h, e)) = Occupied(w)
         /\ WithEntity(w, h, e).entity = [w.entity EXCEPT ![h] = e]
<1> DEFINE v == WithEntity(w, h, e)
<1>1. w \in Worlds
  BY DEF Good
<1>2. /\ v.entity = [w.entity EXCEPT ![h] = e] /\ v.generation = w.generation
      /\ v.order = w.order /\ v.queue = w.queue /\ v.next = w.next
      /\ v.failed = w.failed
  BY <1>1 DEF WithEntity, Worlds
<1>a. v = World(v.entity, v.generation, v.order, v.queue, v.next, v.failed)
  <2> DEFINE m == [w.entity EXCEPT ![h] = e]
  <2>1. v = [w EXCEPT !.entity = m]
    BY DEF WithEntity
  <2> HIDE DEF m
  <2>2. QED
    BY <1>1, <2>1 DEF Worlds, World
<1> HIDE DEF v
<1>3. v.entity \in [Occupied(w) -> Entities]
  BY <1>1, <1>2, WorldParts
<1>4. v \in Worlds /\ Occupied(v) = Occupied(w)
  <2>1. /\ Occupied(w) \subseteq Handles
        /\ v.generation \in [Slots -> Nat \ {0}] /\ v.order \in Seq(Handles)
        /\ v.queue \subseteq Events /\ v.next \in Nat /\ v.failed \in BOOLEAN
    BY <1>1, <1>2, WorldParts
  <2>2. QED
    BY <1>a, <1>3, <2>1, WorldIs
<1>5. SameShape(w, v)
  <2>1. \A i \in Occupied(w) : v.entity[i] = IF i = h THEN e ELSE w.entity[i]
    BY <1>1, <1>2, WorldParts
  <2>2. QED
    BY <1>2, <1>4, <2>1 DEF SameShape
<1>6. v \in Good(g) /\ \A i : Resolvable(v, i) <=> Resolvable(w, i)
  BY <1>2, <1>4, <1>5, SameShapeGood
<1>7. QED
  BY <1>2, <1>4, <1>6 DEF v

\* Events that are taken out.
LEMMA FewerEventsGood ==
  ASSUME NEW g, NEW w \in Good(g), NEW queue, queue \subseteq w.queue
  PROVE  /\ [w EXCEPT !.queue = queue] \in Good(g)
         /\ [w EXCEPT !.queue = queue].entity = w.entity
         /\ [w EXCEPT !.queue = queue].queue = queue
         /\ [w EXCEPT !.queue = queue].failed = w.failed
         /\ \A h : Resolvable([w EXCEPT !.queue = queue], h) <=> Resolvable(w, h)
<1> DEFINE v == [w EXCEPT !.queue = queue]
<1>1. w \in Worlds
  BY DEF Good
<1>2. /\ v.entity = w.entity /\ v.generation = w.generation
      /\ v.order = w.order /\ v.queue = queue /\ v.next = w.next
      /\ v.failed = w.failed
      /\ v = World(v.entity, v.generation, v.order, v.queue, v.next, v.failed)
  BY <1>1 DEF Worlds, World
<1> HIDE DEF v
<1>3. v \in Worlds /\ Occupied(v) = Occupied(w)
  <2>1. /\ Occupied(w) \subseteq Handles /\ v.entity \in [Occupied(w) -> Entities]
        /\ v.generation \in [Slots -> Nat \ {0}] /\ v.order \in Seq(Handles)
        /\ v.queue \subseteq Events /\ v.next \in Nat /\ v.failed \in BOOLEAN
    BY <1>1, <1>2, WorldParts
  <2>2. QED
    BY <1>2, <2>1, WorldIs
<1>4. SameShape(w, v)
  BY <1>2, <1>3 DEF SameShape
<1>5. v \in Good(g) /\ \A h : Resolvable(v, h) <=> Resolvable(w, h)
  BY <1>2, <1>3, <1>4, SameShapeGood
<1>6. QED
  BY <1>2, <1>5 DEF v

LEMMA TicksOfInt ==
  ASSUME NEW delay \in Nat
  PROVE  TicksOf(delay) \in Nat
<1>1. TickUnits \in Nat \ {0}
  BY LimitsAssumption DEF LimitsAssumption
<1> DEFINE a == delay + TickUnits - 1
<1>2. a \in Nat
  BY <1>1
<1> HIDE DEF a
<1>3. a \div TickUnits \in Nat
  BY <1>1, <1>2
<1>4. QED
  BY <1>3 DEF TicksOf, a

\* An event that is queued is numbered, so it is none of the others.
LEMMA ScheduleGood ==
  ASSUME NEW g, NEW w \in Good(g), NEW event \in Events, NEW delay \in Nat,
         tick \in Nat,
         event.target = event.caller /\ event.target # NoHandle
           => Resolvable(w, event.target)
  PROVE  /\ ScheduleEvent(w, event, delay) \in Good(g)
         /\ ScheduleEvent(w, event, delay).entity = w.entity
         /\ \A h : Resolvable(ScheduleEvent(w, event, delay), h)
                     <=> Resolvable(w, h)
<1>1. CASE Cardinality(w.queue) >= MaxQueued
  BY <1>1, FailGood DEF ScheduleEvent
<1>2. CASE ~(Cardinality(w.queue) >= MaxQueued)
  <2> DEFINE name == IF event.caller \in Occupied(w)
                     THEN w.entity[event.caller].name ELSE NoName
             due == tick + TicksOf(delay)
             queued == [event EXCEPT !.due = due, !.seq = w.next,
                                     !.callerName = name]
             v == World(w.entity, w.generation, w.order, w.queue \cup {queued},
                        w.next + 1, w.failed)
  <2>1. w \in Worlds /\ w.generation = g /\ Sound(w)
    BY DEF Good
  <2>2. ScheduleEvent(w, event, delay) = v
    BY <1>2 DEF ScheduleEvent
  <2>3. name \in Words
    <3>1. CASE event.caller \in Occupied(w)
      BY <2>1, <3>1, EntityParts DEF Entities
    <3>2. QED
      BY <3>1 DEF Words
  <2>4. due \in Nat
    BY TicksOfInt
  <2> HIDE DEF name, due
  <2>5. /\ queued \in Events /\ queued.target = event.target
        /\ queued.caller = event.caller /\ queued.seq = w.next
    BY <2>1, <2>3, <2>4, WorldParts DEF Events
  <2> HIDE DEF queued
  <2>7. /\ v.entity = w.entity /\ v.generation = w.generation
        /\ v.order = w.order /\ v.queue = w.queue \cup {queued}
        /\ v.next = w.next + 1 /\ v.failed = w.failed
    BY DEF World
  <2>a. v = World(v.entity, v.generation, v.order, v.queue, v.next, v.failed)
    BY DEF World
  <2> HIDE DEF v
  <2>6. v \in Worlds /\ Occupied(v) = Occupied(w)
    <3>1. /\ Occupied(w) \subseteq Handles
          /\ v.entity \in [Occupied(w) -> Entities]
          /\ v.generation \in [Slots -> Nat \ {0}] /\ v.order \in Seq(Handles)
          /\ v.queue \subseteq Events /\ v.next \in Nat /\ v.failed \in BOOLEAN
      BY <2>1, <2>5, <2>7, WorldParts
    <3>2. QED
      BY <2>a, <3>1, WorldIs
  <2>8. SameShape(w, v)
    BY <2>6, <2>7 DEF SameShape
  <2>9. Placed(v) /\ Linked(v) /\ Parented(v) /\ Acyclic(v)
        /\ \A h : Resolvable(v, h) <=> Resolvable(w, h)
    BY <2>1, <2>8, ShapeKept DEF Sound
  <2>10. Queued(v)
    <3>1. /\ IsFiniteSet(w.queue) /\ Cardinality(w.queue) \in Nat
          /\ Cardinality(w.queue) < MaxQueued /\ MaxQueued \in Nat
      BY <1>2, <2>1, FS_CardinalityType, LimitsAssumption
         DEF Sound, Queued, LimitsAssumption
    <3>2. \A q \in w.queue : q.seq < w.next /\ q.seq \in Nat
      BY <2>1, WorldParts DEF Sound, Queued, Events
    <3>3. queued \notin w.queue
      BY <2>1, <2>5, <3>2, WorldParts
    <3>4. IsFiniteSet(v.queue) /\ Cardinality(v.queue) = Cardinality(w.queue) + 1
      <4>1. PICK old : old = w.queue
        OBVIOUS
      <4>2. IsFiniteSet(old) /\ queued \notin old
        BY <3>1, <3>3, <4>1
      <4>3. /\ IsFiniteSet(old \cup {queued})
            /\ Cardinality(old \cup {queued}) = Cardinality(old) + 1
        BY <4>2, FS_AddElement
      <4>4. QED
        BY <2>7, <4>1, <4>3
    <3>5. \A q \in v.queue : q.seq < v.next
      BY <2>1, <2>5, <2>7, <3>2, WorldParts
    <3>6. \A q, r \in v.queue : q.seq = r.seq => q = r
      BY <2>1, <2>5, <2>7, <3>2, WorldParts DEF Sound, Queued
    <3>7. QED
      BY <3>1, <3>4, <3>5, <3>6 DEF Queued
  <2>11. Owned(v)
    BY <2>1, <2>5, <2>7, <2>9 DEF Owned, Sound
  <2>12. v \in Good(g)
    BY <2>1, <2>6, <2>7, <2>9, <2>10, <2>11 DEF Good, Sound
  <2>13. QED
    BY <2>2, <2>7, <2>9, <2>12
<1>3. QED
  BY <1>1, <1>2

-----------------------------------------------------------------------------
(* The loops of the world, each over a sequence of actions, handles or      *)
(* definitions.  What such a loop leaves lies in every set that holds what  *)
(* it starts from and is closed under its operation.  There is one lemma    *)
(* for each loop, with one argument, since an operation is no value.        *)

\* FireOutput: the actions of an output, queued.
ActionEvent(a, activator, caller) ==
  Event(NoHandle, a.target, a.input, a.text, a.units, activator, caller)

EnqueuedAll(w, s, activator, caller) ==
  Folded(LAMBDA v, x : ScheduleEvent(v, ActionEvent(x, activator, caller), x.delay), w, s)

LEMMA EnqueuedAllIn ==
  ASSUME NEW X, NEW s \in Seq(X), NEW W, NEW w \in W, NEW activator, NEW caller,
         \A v \in W, x \in X : ScheduleEvent(v, ActionEvent(x, activator, caller), x.delay) \in W
  PROVE  EnqueuedAll(w, s, activator, caller) \in W
<1> DEFINE n == Len(s)
           Op(v, i) == ScheduleEvent(v, ActionEvent(s[i], activator, caller), s[i].delay)
           Is(f) == f = [i \in 0..n |-> IF i = 0 THEN w ELSE Op(f[i - 1], i)]
           step == [v \in W |-> [i \in 1..n |-> Op(v, i)]]
<1>1. n \in Nat /\ \A i \in 1..n : s[i] \in X
  BY LenProperties, ElementOfSeq
<1>2. \A v \in W, i \in 1..n : Op(v, i) \in W
  BY <1>1
<1>3. EnqueuedAll(w, s, activator, caller) = (CHOOSE f : Is(f))[n]
  BY DEF EnqueuedAll, Folded
<1> HIDE DEF n, Op
<1>4. \A v \in W, i \in 1..n : step[v][i] = Op(v, i)
  OBVIOUS
<1>5. \A v \in W, i \in 1..n : step[v][i] \in W
  BY <1>2, <1>4
<1> HIDE DEF step
<1>6. PICK f \in [0..n -> W] :
        f[0] = w /\ \A i \in 1..n : f[i] = step[f[i - 1]][i]
  <2>1. Closed(W, n, w, step)
    BY <1>1, <1>5 DEF Closed
  <2>2. QED
    BY <2>1, TableExists DEF Tabulated
<1>7. \A i \in 0..n : f[i] = IF i = 0 THEN w ELSE Op(f[i - 1], i)
  <2>1. \A i \in 1..n : f[i - 1] \in W
    BY <1>1
  <2>2. QED
    BY <1>1, <1>4, <1>6, <2>1
<1>8. Is(f)
  BY <1>7
<1>9. PICK h : Is(h) /\ EnqueuedAll(w, s, activator, caller) = h[n]
  <2> HIDE DEF Is
  <2>1. QED
    BY <1>3, <1>8
<1>10. h[0] = w /\ \A i \in 1..n : h[i] = Op(h[i - 1], i)
  <2> DEFINE at(i) == IF i = 0 THEN w ELSE Op(h[i - 1], i)
             k == [i \in 0..n |-> at(i)]
  <2>1. h = k
    BY <1>9
  <2>2. k[0] = w /\ \A i \in 1..n : k[i] = at(i)
    BY <1>1
  <2>3. \A i \in 1..n : at(i) = Op(h[i - 1], i)
    BY <1>1
  <2> HIDE DEF k, at, Is
  <2>4. QED
    BY <2>1, <2>2, <2>3
<1>11. \A i \in 0..n : h[i] \in W
  <2>1. \A i \in 1..n : h[i - 1] \in W => h[i] \in W
    BY <1>2, <1>10
  <2>2. h[0] \in W
    BY <1>10
  <2> HIDE DEF Is
  <2>3. QED
    BY <1>1, <2>1, <2>2, TableStays
<1>12. QED
  BY <1>1, <1>9, <1>11

-----------------------------------------------------------------------------
(* The operations on a sound world, which leave it sound.                   *)

LEMMA FieldsSet ==
  ASSUME NEW e \in Entities, NEW b \in BOOLEAN, NEW t \in Int,
         NEW o \in Seq(Actions), NEW n \in Words
  PROVE  /\ [e EXCEPT !.enabled = b] \in Entities
         /\ [e EXCEPT !.waiting = b] \in Entities
         /\ [e EXCEPT !.fire = t] \in Entities
         /\ [e EXCEPT !.outputs = o] \in Entities
         /\ [e EXCEPT !.name = n] \in Entities
BY DEF Entities

\* What a step that moves no entity does to a world.
Stays(g, w, v) == v \in Good(g) /\ \A h : Resolvable(v, h) <=> Resolvable(w, h)

LEMMA StaysTrans ==
  ASSUME NEW g, NEW u, NEW v, NEW w, Stays(g, u, v), Stays(g, v, w)
  PROVE  Stays(g, u, w)
BY DEF Stays

LEMMA FieldStays ==
  ASSUME NEW g, NEW w \in Good(g), NEW h \in Occupied(w), NEW e \in Entities,
         e.pending = w.entity[h].pending, e.parent = w.entity[h].parent,
         e.children = w.entity[h].children, NEW v, v = WithEntity(w, h, e)
  PROVE  Stays(g, w, v)
BY WithEntityGood DEF Stays

LEMMA EnabledSet ==
  ASSUME NEW g, NEW w \in Good(g), NEW h \in Occupied(w), NEW b \in BOOLEAN
  PROVE  Stays(g, w, [w EXCEPT !.entity[h].enabled = b])
<1> DEFINE e == [w.entity[h] EXCEPT !.enabled = b]
<1>1. w.entity[h] \in Entities
  BY EntityParts DEF Good
<1>2. e \in Entities
  BY <1>1 DEF Entities
<1>3. /\ e.pending = w.entity[h].pending /\ e.parent = w.entity[h].parent
      /\ e.children = w.entity[h].children
  BY <1>1 DEF Entities
<1>4. [w EXCEPT !.entity[h].enabled = b] = WithEntity(w, h, e)
  BY DEF WithEntity
<1> HIDE DEF e
<1>5. PICK v : v = [w EXCEPT !.entity[h].enabled = b]
  OBVIOUS
<1>6. v = WithEntity(w, h, e)
  BY <1>4, <1>5
<1>7. Stays(g, w, v)
  BY <1>2, <1>3, <1>6, FieldStays
<1>8. QED
  BY <1>5, <1>7

LEMMA WaitingSet ==
  ASSUME NEW g, NEW w \in Good(g), NEW h \in Occupied(w), NEW b \in BOOLEAN
  PROVE  Stays(g, w, [w EXCEPT !.entity[h].waiting = b])
<1> DEFINE e == [w.entity[h] EXCEPT !.waiting = b]
<1>1. w.entity[h] \in Entities
  BY EntityParts DEF Good
<1>2. e \in Entities
  BY <1>1 DEF Entities
<1>3. /\ e.pending = w.entity[h].pending /\ e.parent = w.entity[h].parent
      /\ e.children = w.entity[h].children
  BY <1>1 DEF Entities
<1>4. [w EXCEPT !.entity[h].waiting = b] = WithEntity(w, h, e)
  BY DEF WithEntity
<1> HIDE DEF e
<1>5. PICK v : v = [w EXCEPT !.entity[h].waiting = b]
  OBVIOUS
<1>6. v = WithEntity(w, h, e)
  BY <1>4, <1>5
<1>7. Stays(g, w, v)
  BY <1>2, <1>3, <1>6, FieldStays
<1>8. QED
  BY <1>5, <1>7

LEMMA FireSet ==
  ASSUME NEW g, NEW w \in Good(g), NEW h \in Occupied(w), NEW t \in Int
  PROVE  Stays(g, w, [w EXCEPT !.entity[h].fire = t])
<1> DEFINE e == [w.entity[h] EXCEPT !.fire = t]
<1>1. w.entity[h] \in Entities
  BY EntityParts DEF Good
<1>2. e \in Entities
  BY <1>1 DEF Entities
<1>3. /\ e.pending = w.entity[h].pending /\ e.parent = w.entity[h].parent
      /\ e.children = w.entity[h].children
  BY <1>1 DEF Entities
<1>4. [w EXCEPT !.entity[h].fire = t] = WithEntity(w, h, e)
  BY DEF WithEntity
<1> HIDE DEF e
<1>5. PICK v : v = [w EXCEPT !.entity[h].fire = t]
  OBVIOUS
<1>6. v = WithEntity(w, h, e)
  BY <1>4, <1>5
<1>7. Stays(g, w, v)
  BY <1>2, <1>3, <1>6, FieldStays
<1>8. QED
  BY <1>5, <1>7

LEMMA IntervalSet ==
  ASSUME NEW g, NEW w \in Good(g), NEW h \in Occupied(w), NEW t \in Nat
  PROVE  Stays(g, w, [w EXCEPT !.entity[h].interval = t])
<1> DEFINE e == [w.entity[h] EXCEPT !.interval = t]
<1>1. w.entity[h] \in Entities
  BY EntityParts DEF Good
<1>2. e \in Entities
  BY <1>1 DEF Entities
<1>3. /\ e.pending = w.entity[h].pending /\ e.parent = w.entity[h].parent
      /\ e.children = w.entity[h].children
  BY <1>1 DEF Entities
<1>4. [w EXCEPT !.entity[h].interval = t] = WithEntity(w, h, e)
  BY DEF WithEntity
<1> HIDE DEF e
<1>5. PICK v : v = [w EXCEPT !.entity[h].interval = t]
  OBVIOUS
<1>6. v = WithEntity(w, h, e)
  BY <1>4, <1>5
<1>7. Stays(g, w, v)
  BY <1>2, <1>3, <1>6, FieldStays
<1>8. QED
  BY <1>5, <1>7

LEMMA CancelsGood ==
  ASSUME NEW g, NEW w \in Good(g), NEW h, NEW input
  PROVE  /\ Stays(g, w, CancelCaller(w, h))
         /\ Stays(g, w, CancelDirect(w, h, input))
         /\ CancelDirect(w, h, input).entity = w.entity
<1>1. Stays(g, w, CancelCaller(w, h))
  <2> DEFINE queue == {q \in w.queue : ~(/\ q.caller = h
                                          /\ q.callerName = w.entity[h].name)}
  <2>1. CancelCaller(w, h) = [w EXCEPT !.queue = queue]
    BY DEF CancelCaller
  <2>2. queue \subseteq w.queue
    OBVIOUS
  <2> HIDE DEF queue
  <2>3. QED
    BY <2>1, <2>2, FewerEventsGood DEF Stays
<1>2. /\ Stays(g, w, CancelDirect(w, h, input))
      /\ CancelDirect(w, h, input).entity = w.entity
  <2> DEFINE queue == {q \in w.queue : ~(q.target = h /\ q.input = input)}
  <2>1. CancelDirect(w, h, input) = [w EXCEPT !.queue = queue]
    BY DEF CancelDirect
  <2>2. queue \subseteq w.queue
    OBVIOUS
  <2> HIDE DEF queue
  <2>3. QED
    BY <2>1, <2>2, FewerEventsGood DEF Stays
<1>3. QED
  BY <1>1, <1>2

\* What an entity queues for itself is an event.
LEMMA InternalEvents ==
  ASSUME NEW h \in Handles
  PROVE  /\ Internal(h, "__timer_fire") \in Events
         /\ Internal(h, "EnableRefire") \in Events
         /\ Internal(h, "__relay_spawn") \in Events
         /\ \A input : Internal(h, input).target = h
<1>1. /\ "__timer_fire" \in Words /\ "EnableRefire" \in Words
      /\ "__relay_spawn" \in Words /\ NoName \in Words
      /\ h \in HandleOrNone
  BY DEF Words, HandleOrNone
<1> HIDE DEF Words, HandleOrNone
<1>2. ASSUME NEW input \in Words PROVE Internal(h, input) \in Events
  BY <1>1 DEF Internal, Event, Events
<1>3. \A input : Internal(h, input).target = h
  BY DEF Internal, Event
<1>4. QED
  BY <1>1, <1>2, <1>3

LEMMA ScheduleInternal ==
  ASSUME NEW g, NEW w \in Good(g), NEW h, Resolvable(w, h), tick \in Nat,
         NEW input, Internal(h, input) \in Events, NEW delay \in Nat
  PROVE  Stays(g, w, ScheduleEvent(w, Internal(h, input), delay))
<1>1. Internal(h, input).target = h
  BY DEF Internal, Event
<1>2. QED
  BY <1>1, ScheduleGood DEF Stays

LEMMA FiresType ==
  ASSUME NEW e \in Entities, NEW output
  PROVE  Fires(e, output) \in Seq(Actions)
<1>1. e.outputs \in Seq(Actions)
  BY DEF Entities
<1> DEFINE k == Kept(e.outputs, {a \in ToSet(e.outputs) : a.output = output})
<1>2. k \in Seq(Actions)
  BY <1>1, KeptFacts
<1>3. Fires(e, output) = Reverse(k)
  BY DEF Fires
<1> HIDE DEF k
<1>4. Reverse(k) \in Seq(Actions)
  BY <1>2 DEF Reverse
<1>5. QED
  BY <1>3, <1>4

LEMMA SpentType ==
  ASSUME NEW e \in Entities, NEW output
  PROVE  Spent(e, output) \in Seq(Actions)
<1>1. e.outputs \in Seq(Actions)
  BY DEF Entities
<1> DEFINE spend(a) == IF a.output = output /\ a.fires > 0
                       THEN [a EXCEPT !.fires = @ - 1] ELSE a
           spent == [i \in DOMAIN e.outputs |-> spend(e.outputs[i])]
           S == {a \in ToSet(spent) : a.fires # 0}
<1>2. \A a \in Actions : spend(a) \in Actions
  BY DEF Actions
<1> HIDE DEF spend
<1>3. spent \in Seq(Actions)
  BY <1>1, <1>2
<1>4. Spent(e, output) = Kept(spent, S)
  BY DEF Spent, spend
<1> HIDE DEF spent, S
<1>5. QED
  BY <1>3, <1>4, KeptFacts

LEMMA ActionEvents ==
  ASSUME NEW a \in Actions, NEW activator \in HandleOrNone,
         NEW caller \in HandleOrNone
  PROVE  /\ ActionEvent(a, activator, caller) \in Events
         /\ ActionEvent(a, activator, caller).target = NoHandle
<1>1. /\ a.target \in Words /\ a.input \in Words /\ a.text \in Words
      /\ a.units \in Nat /\ NoName \in Words /\ NoHandle \in HandleOrNone
  BY DEF Actions, Words, HandleOrNone
<1> HIDE DEF Words, HandleOrNone
<1>2. QED
  BY <1>1 DEF ActionEvent, Event, Events

LEMMA FireOutputStays ==
  ASSUME NEW g, NEW w \in Good(g), NEW h, NEW output,
         NEW activator \in HandleOrNone, NEW caller \in HandleOrNone,
         tick \in Nat
  PROVE  Stays(g, w, FireOutput(w, h, output, activator, caller))
<1> DEFINE e == w.entity[h]
           actions == Fires(e, output)
           o == Spent(e, output)
           v0 == [w EXCEPT !.entity[h].outputs = o]
           all == EnqueuedAll(v0, actions, activator, caller)
<1>1. FireOutput(w, h, output, activator, caller)
        \in {Fail(w)} \cup (IF h \in Occupied(w) THEN {all} ELSE {})
  BY DEF FireOutput, EnqueuedAll, ActionEvent
<1>2. Stays(g, w, Fail(w))
  BY FailGood DEF Stays
<1>3. ASSUME h \in Occupied(w) PROVE Stays(g, w, all)
  <2> DEFINE W == {v \in Good(g) : Stays(g, w, v)}
             f == [e EXCEPT !.outputs = o]
  <2>1. e \in Entities
    BY <1>3, EntityParts DEF Good
  <2>2. o \in Seq(Actions) /\ actions \in Seq(Actions)
    BY <2>1, FiresType, SpentType
  <2>3. Stays(g, w, v0)
    <3> HIDE DEF o
    <3>1. f \in Entities
      BY <2>1, <2>2 DEF Entities
    <3>2. /\ f.pending = e.pending /\ f.parent = e.parent
          /\ f.children = e.children
      BY <2>1 DEF Entities
    <3>3. v0 = WithEntity(w, h, f)
      BY DEF WithEntity
    <3> HIDE DEF v0, f
    <3>4. QED
      BY <1>3, <3>1, <3>2, <3>3, FieldStays
  <2> HIDE DEF v0, actions
  <2>4. ASSUME NEW v \in W, NEW a \in Actions
        PROVE  ScheduleEvent(v, ActionEvent(a, activator, caller), a.delay) \in W
    <3>1. a.delay \in Nat
      BY DEF Actions
    <3>2. /\ ActionEvent(a, activator, caller) \in Events
          /\ ActionEvent(a, activator, caller).target = NoHandle
      BY ActionEvents
    <3> DEFINE x == ActionEvent(a, activator, caller)
               d == a.delay
    <3> HIDE DEF x, d
    <3>3. v \in Good(g) /\ Stays(g, w, v)
      OBVIOUS
    <3>4. x \in Events /\ d \in Nat /\ x.target = NoHandle
      BY <3>1, <3>2 DEF x, d
    <3>5. Stays(g, v, ScheduleEvent(v, x, d))
      BY <3>3, <3>4, ScheduleGood DEF Stays
    <3>6. Stays(g, w, ScheduleEvent(v, x, d))
      BY <3>3, <3>5, StaysTrans
    <3>7. ScheduleEvent(v, x, d) \in W
      BY <3>6 DEF Stays
    <3>8. QED
      BY <3>7 DEF x, d
  <2>5. v0 \in W
    BY <2>3 DEF Stays
  <2> HIDE DEF W
  <2>6. all \in W
    BY <2>2, <2>4, <2>5, EnqueuedAllIn
  <2>7. QED
    BY <2>6 DEF W
<1>4. QED
  BY <1>1, <1>2, <1>3

LEMMA MaxOfTwo ==
  ASSUME NEW a \in Int, NEW b \in Int
  PROVE  Max({a, b}) \in {a, b} /\ Max({a, b}) >= a /\ Max({a, b}) >= b
<1>1. \E x \in {a, b} : \A y \in {a, b} : x >= y
  OBVIOUS
<1>2. QED
  BY <1>1 DEF Max

\* The interval RefireTime sets is a number of ticks.
LEMMA RefireIntervalType ==
  ASSUME NEW event \in Events
  PROVE  RefireInterval(event) \in Nat
<1>1. event.units \in Int /\ event.units \in Nat /\ 1 \in Int
  BY DEF Events
<1>2. Max({event.units, 1}) \in {event.units, 1}
  BY <1>1, MaxOfTwo
<1>3. QED
  BY <1>1, <1>2 DEF RefireInterval

\* The queue has a first event: the least tick, and there the least number.
LEMMA FirstExists ==
  ASSUME NEW S, S \subseteq Events, S # {},
         \A q, r \in S : q.seq = r.seq => q = r
  PROVE  \E q \in S : \A r \in S : r = q \/ Before(q, r)
<1>0. \A q \in S : q.due \in Nat /\ q.seq \in Nat
  BY DEF Events
<1> DEFINE Dues == {q.due : q \in S}
<1>1. PICK d \in Dues : \A x \in Dues : d <= x
  <2>1. Dues \subseteq Nat /\ Dues # {}
    BY <1>0
  <2> HIDE DEF Dues
  <2>2. QED
    BY <2>1, LeastExists
<1> DEFINE Seqs == {q.seq : q \in {r \in S : r.due = d}}
<1>2. PICK n \in Seqs : \A x \in Seqs : n <= x
  <2>1. Seqs \subseteq Nat /\ Seqs # {}
    BY <1>0, <1>1
  <2> HIDE DEF Seqs
  <2>2. QED
    BY <2>1, LeastExists
<1>3. PICK q \in S : q.due = d /\ q.seq = n
  BY <1>2
<1>4. ASSUME NEW r \in S PROVE r = q \/ Before(q, r)
  <2>1. d <= r.due /\ d \in Nat /\ r.due \in Nat /\ r.seq \in Nat /\ n \in Nat
    BY <1>0, <1>1, <1>3
  <2>2. r.due = d => n <= r.seq
    BY <1>2
  <2>3. CASE r.due = d /\ r.seq = n
    BY <1>3, <2>3
  <2>4. CASE ~(r.due = d /\ r.seq = n)
    BY <1>3, <2>1, <2>2, <2>4 DEF Before
  <2>5. QED
    BY <2>3, <2>4
<1>5. QED
  BY <1>3, <1>4

LEMMA ResetTimerStays ==
  ASSUME NEW g, NEW w \in Good(g), NEW h, Resolvable(w, h), tick \in Nat
  PROVE  Stays(g, w, ResetTimer(w, h))
<1> DEFINE e == w.entity[h]
           calm == CancelDirect(w, h, "__timer_fire")
           t == tick + TicksOf(e.interval)
           off == [calm EXCEPT !.entity[h].fire = NoTick]
           on == [calm EXCEPT !.entity[h].fire = t]
<1>1. Stays(g, w, calm) /\ h \in Occupied(w) /\ h \in Occupied(calm)
  <2>1. Stays(g, w, calm) /\ calm.entity = w.entity
    BY CancelsGood
  <2>2. QED
    BY <2>1 DEF Resolvable, Occupied
<1>2. e \in Entities /\ h \in Handles
  BY <1>1, EntityParts DEF Good
<1>3. e.interval \in Nat /\ t \in Nat
  <2>1. PICK i : i = e.interval
    OBVIOUS
  <2>2. i \in Nat
    BY <1>2, <2>1 DEF Entities
  <2>3. TicksOf(i) \in Nat
    BY <2>2, TicksOfInt
  <2>4. QED
    BY <2>1, <2>2, <2>3
<1>4. ResetTimer(w, h) = IF ~e.enabled THEN off
        ELSE ScheduleEvent(on, Internal(h, "__timer_fire"), e.interval)
  BY DEF ResetTimer
<1> HIDE DEF calm, t
<1>5. calm \in Good(g)
  BY <1>1 DEF Stays
<1>6. NoTick \in Int
  BY DEF NoTick
<1>7. Stays(g, calm, off) /\ Stays(g, calm, on)
  BY <1>1, <1>3, <1>5, <1>6, FireSet
<1> HIDE DEF off, on, e
<1>8. Stays(g, w, off) /\ Stays(g, w, on)
  BY <1>1, <1>7, StaysTrans
<1>9. Stays(g, on, ScheduleEvent(on, Internal(h, "__timer_fire"), e.interval))
  <2>1. on \in Good(g) /\ Resolvable(on, h)
    BY <1>8 DEF Stays
  <2>2. Internal(h, "__timer_fire") \in Events
    BY <1>2, InternalEvents
  <2>3. QED
    BY <1>3, <2>1, <2>2, ScheduleInternal
<1>10. QED
  BY <1>4, <1>8, <1>9, StaysTrans

\* An event moved is the event it was.
LEMMA MovedGood ==
  ASSUME NEW g, NEW w \in Good(g), NEW first \in w.queue, NEW due \in Nat
  PROVE  Stays(g, w, [w EXCEPT !.queue = (@ \ {first})
                                   \cup {[first EXCEPT !.due = due]}])
<1> DEFINE moved == [first EXCEPT !.due = due]
           queue == (w.queue \ {first}) \cup {moved}
           v == [w EXCEPT !.queue = queue]
<1>1. w \in Worlds /\ w.generation = g /\ Sound(w) /\ first \in Events
  BY WorldParts DEF Good
<1>2. /\ moved \in Events /\ moved.target = first.target
      /\ moved.caller = first.caller /\ moved.seq = first.seq
  BY <1>1 DEF Events
<1> HIDE DEF moved
<1>3. /\ v.entity = w.entity /\ v.generation = w.generation
      /\ v.order = w.order /\ v.queue = queue /\ v.next = w.next
      /\ v.failed = w.failed
  BY <1>1 DEF Worlds
<1>4. v = World(v.entity, v.generation, v.order, v.queue, v.next, v.failed)
  <2> HIDE DEF queue
  <2>1. QED
    BY <1>1 DEF Worlds, World
<1>5. queue \subseteq Events
  BY <1>1, <1>2, WorldParts
<1>6. [w EXCEPT !.queue = (@ \ {first}) \cup {[first EXCEPT !.due = due]}] = v
  BY DEF moved
<1> HIDE DEF v
<1>7. v \in Worlds /\ Occupied(v) = Occupied(w)
  <2> HIDE DEF queue
  <2>1. /\ Occupied(w) \subseteq Handles /\ v.entity \in [Occupied(w) -> Entities]
        /\ v.generation \in [Slots -> Nat \ {0}] /\ v.order \in Seq(Handles)
        /\ v.queue \subseteq Events /\ v.next \in Nat /\ v.failed \in BOOLEAN
    BY <1>1, <1>3, <1>5, WorldParts
  <2>2. QED
    BY <1>4, <2>1, WorldIs
<1>8. SameShape(w, v)
  BY <1>3, <1>7 DEF SameShape
<1>9. Placed(v) /\ Linked(v) /\ Parented(v) /\ Acyclic(v)
      /\ \A h : Resolvable(v, h) <=> Resolvable(w, h)
  BY <1>1, <1>8, ShapeKept DEF Sound
<1>10. Queued(v)
  <2>1. IsFiniteSet(w.queue) /\ Cardinality(w.queue) \in Nat
    BY <1>1, FS_CardinalityType DEF Sound, Queued
  <2>2. IsFiniteSet(queue) /\ Cardinality(queue) <= Cardinality(w.queue)
    <3>1. PICK rest : rest = w.queue \ {first}
      OBVIOUS
    <3>2. IsFiniteSet(rest) /\ Cardinality(rest) = Cardinality(w.queue) - 1
      BY <2>1, <3>1, FS_RemoveElement
    <3>3. /\ IsFiniteSet(rest \cup {moved})
          /\ Cardinality(rest \cup {moved}) <= Cardinality(rest) + 1
      <4>1. Cardinality(rest) \in Nat
        BY <3>2, FS_CardinalityType
      <4>2. CASE moved \in rest
        <5>1. PICK more : more = rest \cup {moved}
          OBVIOUS
        <5>2. more = rest
          BY <4>2, <5>1
        <5>3. IsFiniteSet(more) /\ Cardinality(more) = Cardinality(rest)
          BY <3>2, <5>2
        <5>4. Cardinality(more) <= Cardinality(rest) + 1
          BY <4>1, <5>3
        <5>5. QED
          BY <5>1, <5>3, <5>4
      <4>3. CASE moved \notin rest
        <5>1. /\ IsFiniteSet(rest \cup {moved})
              /\ Cardinality(rest \cup {moved}) = Cardinality(rest) + 1
          BY <3>2, <4>3, FS_AddElement
        <5>2. QED
          BY <4>1, <5>1
      <4>4. QED
        BY <4>2, <4>3
    <3>4. QED
      BY <2>1, <3>1, <3>2, <3>3
  <2>3. \A q \in queue : q.seq < w.next
    BY <1>1, <1>2 DEF Sound, Queued
  <2>4. \A q, r \in queue : q.seq = r.seq => q = r
    BY <1>1, <1>2 DEF Sound, Queued
  <2>5. Cardinality(queue) <= MaxQueued
    <3>1. Cardinality(queue) \in Nat /\ MaxQueued \in Nat
      BY <2>2, FS_CardinalityType, LimitsAssumption DEF LimitsAssumption
    <3>2. QED
      BY <1>1, <2>1, <2>2, <3>1 DEF Sound, Queued
  <2>6. QED
    BY <1>3, <2>2, <2>3, <2>4, <2>5 DEF Queued
<1>11. Owned(v)
  BY <1>1, <1>2, <1>3, <1>9 DEF Sound, Owned
<1>12. v \in Good(g)
  BY <1>1, <1>3, <1>7, <1>9, <1>10, <1>11 DEF Good, Sound
<1>13. QED
  BY <1>6, <1>9, <1>12 DEF Stays

LEMMA ShiftTimerStays ==
  ASSUME NEW g, NEW w \in Good(g), NEW h, h \in Occupied(w),
         NEW ticks \in Int, NEW least \in Nat
  PROVE  Stays(g, w, ShiftTimer(w, h, ticks, least))
<1> DEFINE own == {q \in w.queue : q.target = h /\ q.input = "__timer_fire"}
           first == CHOOSE q \in own : \A r \in own : r = q \/ Before(q, r)
           due == Max({first.due + ticks, least})
           v == [w EXCEPT !.queue = (@ \ {first}) \cup {[first EXCEPT !.due = due]}]
<1>1. ShiftTimer(w, h, ticks, least) =
        IF own = {} THEN [w EXCEPT !.entity[h].fire = NoTick]
        ELSE [w EXCEPT
                !.queue = (@ \ {first}) \cup {[first EXCEPT !.due = due]},
                !.entity[h].fire = due]
  BY DEF ShiftTimer
<1>2. CASE own = {}
  <2>1. NoTick \in Int
    BY DEF NoTick
  <2>2. QED
    BY <1>1, <1>2, <2>1, FireSet
<1>3. CASE own # {}
  <2>1. own \subseteq Events /\ \A q, r \in own : q.seq = r.seq => q = r
    BY WorldParts DEF Good, Sound, Queued
  <2>2. \E q \in own : \A r \in own : r = q \/ Before(q, r)
    <3> HIDE DEF own
    <3>1. QED
      BY <1>3, <2>1, FirstExists
  <2>3. first \in own
    <3> HIDE DEF own
    <3>1. QED
      BY <2>2
  <2> HIDE DEF first
  <2>4. first \in w.queue /\ first.due \in Nat
    BY <2>1, <2>3 DEF Events
  <2>5. due \in Nat
    <3> DEFINE a == first.due + ticks
    <3>1. a \in Int
      BY <2>4
    <3> HIDE DEF a
    <3>2. Max({a, least}) \in Nat
      BY <3>1, MaxOfTwo
    <3>3. QED
      BY <3>2 DEF a
  <2> HIDE DEF due
  <2>6. Stays(g, w, v)
    BY <2>4, <2>5, MovedGood
  <2>7. v.entity = w.entity
    BY DEF Good, Worlds
  <2>8. h \in Occupied(v) /\ v \in Good(g)
    BY <2>6, <2>7 DEF Occupied, Stays
  <2>9. ShiftTimer(w, h, ticks, least) = [v EXCEPT !.entity[h].fire = due]
    BY <1>1, <1>3
  <2> HIDE DEF v
  <2>10. Stays(g, v, [v EXCEPT !.entity[h].fire = due])
    BY <2>5, <2>8, FireSet
  <2>11. QED
    BY <2>6, <2>9, <2>10, StaysTrans
<1>4. QED
  BY <1>2, <1>3

-----------------------------------------------------------------------------
(* Timers and relays: what each operation leaves of the events they wait    *)
(* for.                                                                     *)

Own(w, h, input) ==
  {q \in w.queue : q.target = h /\ q.caller = h /\ q.input = input}

SameTiming(d, e) ==
  /\ e.class = d.class /\ e.enabled = d.enabled
  /\ e.waiting = d.waiting /\ e.fire = d.fire

TimerArmed(w, h) ==
  IF w.entity[h].enabled
  THEN \E q : Own(w, h, "__timer_fire") = {q} /\ q.due = w.entity[h].fire
  ELSE Own(w, h, "__timer_fire") = {} /\ w.entity[h].fire = NoTick

ArmedAt(w, h) ==
  /\ w.entity[h].class = "logic_timer" => TimerArmed(w, h)
  /\ w.entity[h].class = "logic_relay" /\ w.entity[h].waiting
       => Own(w, h, "EnableRefire") # {}

\* An event that fires a timer directly is the timer's own.
Direct(w) ==
  \A q \in w.queue :
    q.target # NoHandle /\ q.input = "__timer_fire" => q.caller = q.target

\* The timers and relays not in X wait for the events they need.
Ready(g, X) ==
  {w \in Good(g) :
     w.failed \/ (Direct(w) /\ \A h : Resolvable(w, h) /\ h \notin X => ArmedAt(w, h))}

\* A step that touches the timing of none but the entities in Y.
Frame(w, v, Y) ==
  /\ Direct(w) => Direct(v)
  /\ \A h : Resolvable(v, h) /\ h \notin Y =>
       /\ Resolvable(w, h) /\ SameTiming(w.entity[h], v.entity[h])
       /\ Own(v, h, "__timer_fire") = Own(w, h, "__timer_fire")
       /\ Own(w, h, "EnableRefire") \subseteq Own(v, h, "EnableRefire")

\* A failed operation stays failed: what follows is rolled back.
Steps(g, w, v, Y) ==
  /\ v \in Good(g)
  /\ w.failed => v.failed
  /\ v.failed \/ Frame(w, v, Y)

LEMMA StepsSelf ==
  ASSUME NEW g, NEW w \in Good(g), NEW Y
  PROVE  Steps(g, w, w, Y)
BY DEF Steps, Frame, SameTiming

LEMMA StepsTrans ==
  ASSUME NEW g, NEW u, NEW v, NEW w, NEW Y, NEW Z,
         Steps(g, u, v, Y), Steps(g, v, w, Z)
  PROVE  Steps(g, u, w, Y \cup Z)
<1>1. v \in Good(g) /\ w \in Good(g) /\ (u.failed => w.failed)
  BY DEF Steps
<1>2. CASE w.failed
  BY <1>1, <1>2 DEF Steps
<1>3. CASE ~w.failed
  <2>1. ~v.failed /\ Frame(u, v, Y) /\ Frame(v, w, Z)
    BY <1>3 DEF Steps
  <2>2. Direct(u) => Direct(w)
    BY <2>1 DEF Frame
  <2>3. ASSUME NEW h, Resolvable(w, h), h \notin Y \cup Z
        PROVE  /\ Resolvable(u, h) /\ SameTiming(u.entity[h], w.entity[h])
               /\ Own(w, h, "__timer_fire") = Own(u, h, "__timer_fire")
               /\ Own(u, h, "EnableRefire") \subseteq Own(w, h, "EnableRefire")
    <3>1. /\ Resolvable(v, h) /\ SameTiming(v.entity[h], w.entity[h])
          /\ Own(w, h, "__timer_fire") = Own(v, h, "__timer_fire")
          /\ Own(v, h, "EnableRefire") \subseteq Own(w, h, "EnableRefire")
      BY <2>1, <2>3 DEF Frame
    <3>2. /\ Resolvable(u, h) /\ SameTiming(u.entity[h], v.entity[h])
          /\ Own(v, h, "__timer_fire") = Own(u, h, "__timer_fire")
          /\ Own(u, h, "EnableRefire") \subseteq Own(v, h, "EnableRefire")
      BY <2>1, <2>3, <3>1 DEF Frame
    <3>3. QED
      BY <3>1, <3>2 DEF SameTiming
  <2>4. QED
    BY <1>1, <2>2, <2>3 DEF Steps, Frame
<1>4. QED
  BY <1>2, <1>3

LEMMA StepsReady ==
  ASSUME NEW g, NEW X, NEW Y, NEW w \in Ready(g, X), NEW v, Steps(g, w, v, Y)
  PROVE  v \in Ready(g, X \cup Y)
<1>1. v \in Good(g) /\ (w.failed => v.failed) /\ (v.failed \/ Frame(w, v, Y))
  BY DEF Steps
<1>2. CASE v.failed
  BY <1>1, <1>2 DEF Ready
<1>3. CASE ~v.failed
  <2>1. /\ Frame(w, v, Y) /\ Direct(w)
        /\ \A h : Resolvable(w, h) /\ h \notin X => ArmedAt(w, h)
    BY <1>1, <1>3 DEF Ready
  <2>2. ASSUME NEW h, Resolvable(v, h), h \notin X \cup Y PROVE ArmedAt(v, h)
    <3>1. /\ Resolvable(w, h) /\ SameTiming(w.entity[h], v.entity[h])
          /\ Own(v, h, "__timer_fire") = Own(w, h, "__timer_fire")
          /\ Own(w, h, "EnableRefire") \subseteq Own(v, h, "EnableRefire")
      BY <2>1, <2>2 DEF Frame
    <3>2. ArmedAt(w, h)
      BY <2>1, <2>2, <3>1
    <3>3. TimerArmed(w, h) => TimerArmed(v, h)
      BY <3>1 DEF TimerArmed, SameTiming
    <3>4. QED
      BY <3>1, <3>2, <3>3 DEF ArmedAt, SameTiming
  <2>3. Direct(v)
    BY <2>1 DEF Frame
  <2>4. QED
    BY <1>1, <2>2, <2>3 DEF Ready
<1>4. QED
  BY <1>2, <1>3

LEMMA ReadyLess ==
  ASSUME NEW g, NEW X, NEW h, NEW w \in Ready(g, X),
         w.failed \/ ~Resolvable(w, h) \/ ArmedAt(w, h)
  PROVE  w \in Ready(g, X \ {h})
BY DEF Ready

LEMMA ReadyMore ==
  ASSUME NEW g, NEW X, NEW Y, X \subseteq Y, NEW w \in Ready(g, X)
  PROVE  w \in Ready(g, Y)
BY DEF Ready

\* Failing.
LEMMA FailSteps ==
  ASSUME NEW g, NEW w \in Good(g), NEW Y
  PROVE  Steps(g, w, Fail(w), Y)
BY FailGood DEF Steps

-----------------------------------------------------------------------------
(* The forest of parents.                                                   *)

\* One level down, and one step up.
Below(w, X) ==
  UNION {ToSet(w.entity[p].children) : p \in X \cap Occupied(w)}

Above(w, h) == IF h \in Occupied(w) THEN w.entity[h].parent ELSE NoHandle

LEMMA LevelTable ==
  ASSUME NEW w \in Worlds, NEW h \in Handles
  PROVE  /\ Level(w, h)[0] = {h}
         /\ \A i \in 1..MaxDepth + 1 : Level(w, h)[i] = Below(w, Level(w, h)[i - 1])
         /\ \A i \in 0..MaxDepth + 1 : Level(w, h)[i] \in SUBSET Handles
<1> DEFINE W == SUBSET Handles
           n == MaxDepth + 1
           base == {h}
           Op(v) == Below(w, v)
           Is(f) == f = [i \in 0..n |-> IF i = 0 THEN base ELSE Op(f[i - 1])]
           step == [v \in W |-> [i \in 1..n |-> Op(v)]]
<1>1. n \in Nat
  BY LimitsAssumption DEF LimitsAssumption
<1>2. base \in W /\ \A v \in W : Op(v) \in W
  <2>1. \A p \in Occupied(w) : ToSet(w.entity[p].children) \subseteq Handles
    <3>1. TAKE p \in Occupied(w)
    <3>2. w.entity[p].children \in Seq(Handles)
      BY EntityParts DEF Entities
    <3>3. QED
      BY <3>2, ElementOfSeq DEF ToSet
  <2>2. QED
    BY <2>1 DEF Below
<1>3. Level(w, h) = CHOOSE f : Is(f)
  BY DEF Level, Below
<1>4. \A v : Op(v) = Below(w, v)
  OBVIOUS
<1> HIDE DEF n, Op, W, base
<1>5. \A v \in W, i \in 1..n : step[v][i] = Op(v)
  OBVIOUS
<1>6. \A v \in W, i \in 1..n : step[v][i] \in W
  BY <1>2, <1>5
<1> HIDE DEF step
<1>7. PICK f \in [0..n -> W] :
        f[0] = base /\ \A i \in 1..n : f[i] = step[f[i - 1]][i]
  <2>1. Closed(W, n, base, step)
    BY <1>1, <1>2, <1>6 DEF Closed
  <2>2. QED
    BY <2>1, TableExists DEF Tabulated
<1>8. \A i \in 0..n : f[i] = IF i = 0 THEN base ELSE Op(f[i - 1])
  <2>1. \A i \in 1..n : f[i - 1] \in W
    BY <1>1
  <2>2. QED
    BY <1>1, <1>5, <1>7, <2>1
<1>9. Is(f)
  BY <1>8
<1>10. PICK l : Is(l) /\ Level(w, h) = l
  <2> HIDE DEF Is
  <2>1. QED
    BY <1>3, <1>9
<1>11. l[0] = base /\ \A i \in 1..n : l[i] = Op(l[i - 1])
  <2> DEFINE at(i) == IF i = 0 THEN base ELSE Op(l[i - 1])
             k == [i \in 0..n |-> at(i)]
  <2>1. l = k
    BY <1>10
  <2>2. k[0] = base /\ \A i \in 1..n : k[i] = at(i)
    BY <1>1
  <2>3. \A i \in 1..n : at(i) = Op(l[i - 1])
    BY <1>1
  <2> HIDE DEF k, at, Is
  <2>4. QED
    BY <2>1, <2>2, <2>3
<1>12. \A i \in 0..n : l[i] \in W
  <2>1. \A i \in 1..n : l[i - 1] \in W => l[i] \in W
    BY <1>2, <1>11
  <2>2. l[0] \in W
    BY <1>2, <1>11
  <2> HIDE DEF Is
  <2>3. QED
    BY <1>1, <2>1, <2>2, TableStays
<1>13. QED
  BY <1>4, <1>10, <1>11, <1>12 DEF n, W, base

LEMMA AncestorTable ==
  ASSUME NEW w \in Worlds, NEW h \in HandleOrNone
  PROVE  /\ Ancestor(w, h)[0] = h
         /\ \A i \in 1..MaxDepth : Ancestor(w, h)[i] = Above(w, Ancestor(w, h)[i - 1])
         /\ \A i \in 0..MaxDepth : Ancestor(w, h)[i] \in HandleOrNone
<1> DEFINE W == HandleOrNone
           n == MaxDepth
           base == h
           Op(v) == Above(w, v)
           Is(f) == f = [i \in 0..n |-> IF i = 0 THEN base ELSE Op(f[i - 1])]
           step == [v \in W |-> [i \in 1..n |-> Op(v)]]
<1>1. n \in Nat
  BY LimitsAssumption DEF LimitsAssumption
<1>2. base \in W /\ \A v \in W : Op(v) \in W
  <2>1. \A p \in Occupied(w) : w.entity[p].parent \in HandleOrNone
    BY EntityParts DEF Entities
  <2>2. NoHandle \in HandleOrNone
    BY DEF HandleOrNone
  <2>3. QED
    BY <2>1, <2>2 DEF Above
<1>3. Ancestor(w, h) = CHOOSE f : Is(f)
  BY DEF Ancestor, Above
<1>4. \A v : Op(v) = Above(w, v)
  OBVIOUS
<1> HIDE DEF n, Op, W, base
<1>5. \A v \in W, i \in 1..n : step[v][i] = Op(v)
  OBVIOUS
<1>6. \A v \in W, i \in 1..n : step[v][i] \in W
  BY <1>2, <1>5
<1> HIDE DEF step
<1>7. PICK f \in [0..n -> W] :
        f[0] = base /\ \A i \in 1..n : f[i] = step[f[i - 1]][i]
  <2>1. Closed(W, n, base, step)
    BY <1>1, <1>2, <1>6 DEF Closed
  <2>2. QED
    BY <2>1, TableExists DEF Tabulated
<1>8. \A i \in 0..n : f[i] = IF i = 0 THEN base ELSE Op(f[i - 1])
  <2>1. \A i \in 1..n : f[i - 1] \in W
    BY <1>1
  <2>2. QED
    BY <1>1, <1>5, <1>7, <2>1
<1>9. Is(f)
  BY <1>8
<1>10. PICK l : Is(l) /\ Ancestor(w, h) = l
  <2> HIDE DEF Is
  <2>1. QED
    BY <1>3, <1>9
<1>11. l[0] = base /\ \A i \in 1..n : l[i] = Op(l[i - 1])
  <2> DEFINE at(i) == IF i = 0 THEN base ELSE Op(l[i - 1])
             k == [i \in 0..n |-> at(i)]
  <2>1. l = k
    BY <1>10
  <2>2. k[0] = base /\ \A i \in 1..n : k[i] = at(i)
    BY <1>1
  <2>3. \A i \in 1..n : at(i) = Op(l[i - 1])
    BY <1>1
  <2> HIDE DEF k, at, Is
  <2>4. QED
    BY <2>1, <2>2, <2>3
<1>12. \A i \in 0..n : l[i] \in W
  <2>1. \A i \in 1..n : l[i - 1] \in W => l[i] \in W
    BY <1>2, <1>11
  <2>2. l[0] \in W
    BY <1>2, <1>11
  <2> HIDE DEF Is
  <2>3. QED
    BY <1>1, <2>1, <2>2, TableStays
<1>13. QED
  BY <1>4, <1>10, <1>11, <1>12 DEF n, W, base

\* Whoever is below a marked entity is marked, since the walk has ended.
Marked(w, h) == UNION {Level(w, h)[n] : n \in 0..MaxDepth}

LEMMA MarkedClosed ==
  ASSUME NEW w \in Worlds, NEW h \in Handles, ~TooDeep(w, h),
         NEW p \in Marked(w, h) \cap Occupied(w),
         NEW c \in ToSet(w.entity[p].children)
  PROVE  c \in Marked(w, h)
<1>0. MaxDepth \in Nat
  BY LimitsAssumption DEF LimitsAssumption
<1>1. PICK n \in 0..MaxDepth : p \in Level(w, h)[n]
  BY DEF Marked
<1>2. n + 1 \in 1..(MaxDepth + 1) /\ (n + 1) - 1 = n
  BY <1>0
<1>3. Level(w, h)[n + 1] = Below(w, Level(w, h)[n])
  BY <1>2, LevelTable
<1>4. c \in Level(w, h)[n + 1]
  BY <1>1, <1>3 DEF Below
<1>5. n + 1 # MaxDepth + 1
  BY <1>4 DEF TooDeep
<1>6. n + 1 \in 0..MaxDepth
  BY <1>0, <1>2, <1>5
<1>7. QED
  BY <1>4, <1>6 DEF Marked

LEMMA MarkedItself ==
  ASSUME NEW w \in Worlds, NEW h \in Handles
  PROVE  h \in Marked(w, h)
<1>1. 0 \in 0..MaxDepth
  BY LimitsAssumption DEF LimitsAssumption
<1>2. Level(w, h)[0] = {h}
  BY LevelTable
<1>3. QED
  BY <1>1, <1>2 DEF Marked

\* Nothing is removed yet: who was live may not be, with all below.
Removes(g, w, v) ==
  /\ v \in Good(g) /\ \A h : Resolvable(v, h) => Resolvable(w, h)
  /\ v.order = w.order

LEMMA MarkRemovalGood ==
  ASSUME NEW g, NEW w \in Good(g), NEW h
  PROVE  /\ Removes(g, w, MarkRemoval(w, h))
         /\ ~MarkRemoval(w, h).failed => ~Resolvable(MarkRemoval(w, h), h)
         /\ Steps(g, w, MarkRemoval(w, h), {})
<1> DEFINE marked == Marked(w, h)
           queue == {q \in w.queue : ~(q.target \in marked /\ q.caller = q.target)}
           entity == [e \in Occupied(w) |->
                        IF e \in marked THEN [w.entity[e] EXCEPT !.pending = TRUE]
                        ELSE w.entity[e]]
           v == [w EXCEPT !.queue = queue, !.entity = entity]
<1>1. MarkRemoval(w, h) = IF ~Resolvable(w, h) THEN w
                          ELSE IF TooDeep(w, h) THEN Fail(w) ELSE v
  BY DEF MarkRemoval, Marked
<1>2. w \in Worlds /\ w.generation = g /\ Sound(w)
  BY DEF Good
<1>3. CASE ~Resolvable(w, h)
  BY <1>1, <1>3, StepsSelf DEF Removes
<1>4. CASE TooDeep(w, h) /\ Resolvable(w, h)
  <2>1. Steps(g, w, Fail(w), {})
    BY FailSteps
  <2>2. QED
    BY <1>1, <1>4, <2>1, FailGood DEF Removes, Fail, World
<1>5. CASE Resolvable(w, h) /\ ~TooDeep(w, h)
  <2>0. h \in Occupied(w) /\ h \in Handles
    BY <1>2, <1>5, WorldParts DEF Resolvable
  <2>1. \A p \in marked \cap Occupied(w) :
          \A c \in ToSet(w.entity[p].children) : c \in marked
    BY <1>2, <1>5, <2>0, MarkedClosed
  <2>2. h \in marked
    BY <1>2, <2>0, MarkedItself
  <2> HIDE DEF marked
  <2>3. \A e \in Occupied(w) :
          /\ entity[e] \in Entities
          /\ entity[e].pending = (w.entity[e].pending \/ e \in marked)
          /\ entity[e].parent = w.entity[e].parent
          /\ entity[e].children = w.entity[e].children
          /\ e \notin marked => entity[e] = w.entity[e]
    <3>1. TAKE e \in Occupied(w)
    <3>2. w.entity[e] \in Entities /\ w.entity[e].pending \in BOOLEAN
      BY <1>2, EntityParts DEF Entities
    <3>3. CASE e \in marked
      <4>1. entity[e] = [w.entity[e] EXCEPT !.pending = TRUE]
        BY <3>3
      <4> HIDE DEF entity
      <4>2. entity[e] \in Entities /\ entity[e].pending = TRUE
            /\ entity[e].parent = w.entity[e].parent
            /\ entity[e].children = w.entity[e].children
        BY <3>2, <4>1 DEF Entities
      <4>3. QED
        BY <3>3, <4>2
    <3>4. CASE e \notin marked
      BY <3>2, <3>4
    <3>5. QED
      BY <3>3, <3>4
  <2>4. DOMAIN entity = Occupied(w) /\ entity \in [Occupied(w) -> Entities]
    BY <2>3
  <2>5. queue \subseteq w.queue
    OBVIOUS
  <2> HIDE DEF entity
  <2>6. /\ v.entity = entity /\ v.generation = w.generation
        /\ v.order = w.order /\ v.queue = queue /\ v.next = w.next
        /\ v.failed = w.failed
    BY <1>2 DEF Worlds
  <2>7. v = World(v.entity, v.generation, v.order, v.queue, v.next, v.failed)
    <3> HIDE DEF queue
    <3> DEFINE u == [w EXCEPT !.queue = queue]
    <3>1. u = World(w.entity, w.generation, w.order, queue, w.next, w.failed)
      BY <1>2 DEF Worlds, World
    <3>2. v = [u EXCEPT !.entity = entity]
      OBVIOUS
    <3> HIDE DEF u
    <3>3. v = World(entity, w.generation, w.order, queue, w.next, w.failed)
      BY <3>1, <3>2 DEF World
    <3> HIDE DEF v
    <3>4. QED
      BY <2>6, <3>3
  <2>a. \A q \in w.queue : q \in queue <=> ~(q.target \in marked /\ q.caller = q.target)
    OBVIOUS
  <2> HIDE DEF v, queue
  <2>8. v \in Worlds /\ Occupied(v) = Occupied(w)
    <3>1. /\ Occupied(w) \subseteq Handles
          /\ v.entity \in [Occupied(w) -> Entities]
          /\ v.generation \in [Slots -> Nat \ {0}] /\ v.order \in Seq(Handles)
          /\ v.queue \subseteq Events /\ v.next \in Nat /\ v.failed \in BOOLEAN
      BY <1>2, <2>4, <2>5, <2>6, WorldParts
    <3>2. QED
      BY <2>7, <3>1, WorldIs
  <2>9. \A e : Resolvable(v, e) <=> Resolvable(w, e) /\ e \notin marked
    BY <2>3, <2>6, <2>8 DEF Resolvable
  <2>10. Placed(v)
    BY <1>2, <2>6, <2>8 DEF Sound, Placed
  <2>11. Queued(v)
    <3>1. /\ IsFiniteSet(queue) /\ Cardinality(queue) <= Cardinality(w.queue)
          /\ Cardinality(queue) \in Nat /\ Cardinality(w.queue) \in Nat
      BY <1>2, <2>5, FS_Subset, FS_CardinalityType DEF Sound, Queued
    <3>2. Cardinality(queue) <= MaxQueued
      BY <1>2, <3>1, LimitsAssumption DEF Sound, Queued, LimitsAssumption
    <3>3. QED
      BY <1>2, <2>5, <2>6, <3>1, <3>2 DEF Sound, Queued
  <2>12. Owned(v)
    BY <1>2, <2>5, <2>6, <2>9, <2>a DEF Sound, Owned
  <2>13. Linked(v)
    <3>1. SUFFICES ASSUME NEW p \in Occupied(w)
                   PROVE  /\ IsInjective(v.entity[p].children)
                          /\ ToSet(v.entity[p].children) =
                               {i \in Occupied(v) : v.entity[i].parent = p}
      BY <2>8 DEF Linked
    <3>2. {i \in Occupied(v) : v.entity[i].parent = p} =
          {i \in Occupied(w) : w.entity[i].parent = p}
      BY <2>3, <2>6, <2>8
    <3>3. v.entity[p].children = w.entity[p].children
      BY <2>3, <2>6
    <3>4. QED
      BY <1>2, <3>2, <3>3 DEF Sound, Linked
  <2>14. Parented(v)
    <3>1. SUFFICES ASSUME NEW i \in Occupied(w)
                   PROVE  /\ w.entity[i].parent \in Occupied(w) \cup {NoHandle}
                          /\ Resolvable(v, i) /\ w.entity[i].parent # NoHandle
                               => Resolvable(v, w.entity[i].parent)
      BY <2>3, <2>6, <2>8 DEF Parented
    <3>2. w.entity[i].parent \in Occupied(w) \cup {NoHandle}
      BY <1>2 DEF Sound, Parented
    <3>3. ASSUME Resolvable(v, i), w.entity[i].parent # NoHandle
          PROVE  Resolvable(v, w.entity[i].parent)
      <4>1. Resolvable(w, i) /\ i \notin marked
        BY <2>9, <3>3
      <4>2. Resolvable(w, w.entity[i].parent)
        BY <1>2, <3>3, <4>1 DEF Sound, Parented
      <4>3. i \in ToSet(w.entity[w.entity[i].parent].children)
        BY <1>2, <3>2, <3>3 DEF Sound, Linked
      <4>4. w.entity[i].parent \notin marked
        BY <2>1, <3>2, <3>3, <4>1, <4>3
      <4>5. QED
        BY <2>9, <4>2, <4>4
    <3>4. QED
      BY <3>2, <3>3
  <2>15. Acyclic(v)
    BY <1>2, <2>3, <2>6, <2>8 DEF Sound, Acyclic
  <2>16. v \in Good(g)
    BY <1>2, <2>6, <2>8, <2>10, <2>11, <2>12, <2>13, <2>14, <2>15
       DEF Good, Sound
  <2>17. Steps(g, w, v, {})
    <3>1. Direct(w) => Direct(v)
      BY <2>5, <2>6 DEF Direct
    <3>2. ASSUME NEW i, Resolvable(v, i)
          PROVE  /\ Resolvable(w, i) /\ v.entity[i] = w.entity[i]
                 /\ \A input : Own(v, i, input) = Own(w, i, input)
      <4>1. Resolvable(w, i) /\ i \notin marked /\ i \in Occupied(w)
        BY <2>9, <3>2 DEF Resolvable
      <4>2. \A input : Own(v, i, input) = Own(w, i, input)
        BY <2>5, <2>6, <2>a, <4>1 DEF Own
      <4>3. QED
        BY <2>3, <2>6, <4>1, <4>2
    <3>3. Frame(w, v, {})
      BY <3>1, <3>2 DEF Frame, SameTiming
    <3>4. QED
      BY <2>6, <2>16, <3>3 DEF Steps
  <2>18. QED
    BY <1>1, <1>5, <2>2, <2>6, <2>9, <2>16, <2>17 DEF Removes
<1>6. QED
  BY <1>3, <1>4, <1>5

LEMMA NoHandleIsNone == NoHandle \notin Handles
BY LimitsAssumption DEF LimitsAssumption, NoHandle, Handles, Slots

\* A sequence of children without one of them.
LEMMA WithoutFacts ==
  ASSUME NEW s \in Seq(Handles), NEW h
  PROVE  /\ Without(s, h) \in Seq(Handles)
         /\ ToSet(Without(s, h)) = ToSet(s) \ {h}
         /\ IsInjective(s) => IsInjective(Without(s, h))
<1>1. PICK S : S = ToSet(s) \ {h}
  OBVIOUS
<1>2. Without(s, h) = Kept(s, S)
  BY <1>1 DEF Without
<1>3. /\ Kept(s, S) \in Seq(Handles) /\ ToSet(Kept(s, S)) = ToSet(s) \cap S
      /\ IsInjective(s) => IsInjective(Kept(s, S))
  BY KeptFacts
<1>4. QED
  BY <1>1, <1>2, <1>3

\* The links after a child was given another parent.
Relinks(w, v, child, parent) ==
  /\ v \in Worlds /\ v.generation = w.generation /\ v.order = w.order
  /\ v.queue = w.queue /\ v.next = w.next /\ v.failed = w.failed
  /\ Occupied(v) = Occupied(w) /\ Linked(v)
  /\ \A i \in Occupied(w) :
       /\ v.entity[i].pending = w.entity[i].pending
       /\ v.entity[i].parent = IF i = child THEN parent ELSE w.entity[i].parent
       /\ SameTiming(w.entity[i], v.entity[i])

LEMMA ReparentedLinks ==
  ASSUME NEW w \in Worlds, Linked(w), NEW child \in Occupied(w),
         NEW parent \in Occupied(w) \cup {NoHandle}, parent # child
  PROVE  Relinks(w, Reparented(w, child, parent), child, parent)
<1> DEFINE D == Occupied(w)
           entity == w.entity
           old == entity[child].parent
           left == IF old \in D
                   THEN [entity EXCEPT ![old].children = Without(@, child)]
                   ELSE entity
           moved == [left EXCEPT ![child].parent = parent]
           final == IF parent \in D
                    THEN [moved EXCEPT ![parent].children = Append(@, child)]
                    ELSE moved
           v == [w EXCEPT !.entity = final]
           kids(i) == IF i = old THEN Without(entity[i].children, child)
                      ELSE entity[i].children
<1>1. Reparented(w, child, parent) = v
  BY DEF Reparented
<1>2. entity \in [D -> Entities] /\ D \subseteq Handles
  BY WorldParts
<1>3. /\ left \in [D -> Entities]
      /\ \A i \in D : /\ left[i].pending = entity[i].pending
                      /\ left[i].parent = entity[i].parent
                      /\ left[i].children = kids(i)
                      /\ SameTiming(entity[i], left[i])
  <2> HIDE DEF entity, D
  <2>1. CASE old \in D
    <3> DEFINE e == [entity[old] EXCEPT !.children = Without(@, child)]
    <3>1. entity[old] \in Entities /\ entity[old].children \in Seq(Handles)
      BY <1>2, <2>1 DEF Entities
    <3>2. Without(entity[old].children, child) \in Seq(Handles)
      BY <3>1, WithoutFacts
    <3>3. /\ e \in Entities /\ e.pending = entity[old].pending
          /\ e.parent = entity[old].parent
          /\ e.children = Without(entity[old].children, child)
          /\ SameTiming(entity[old], e)
      BY <3>1, <3>2 DEF Entities, SameTiming
    <3>4. left = [entity EXCEPT ![old] = e]
      BY <2>1
    <3> HIDE DEF e, left, old
    <3>5. left \in [D -> Entities] /\ \A i \in D : left[i] = IF i = old THEN e ELSE entity[i]
      BY <1>2, <2>1, <3>3, <3>4
    <3>6. \A i \in D : SameTiming(entity[i], left[i])
      BY <3>3, <3>5 DEF SameTiming
    <3>7. QED
      BY <3>3, <3>5, <3>6 DEF old
  <2>2. CASE old \notin D
    BY <1>2, <2>2 DEF SameTiming
  <2>3. QED
    BY <2>1, <2>2
<1>4. child \in D /\ (parent \in HandleOrNone)
  BY <1>2 DEF HandleOrNone
<1> HIDE DEF left, kids
<1>5. /\ moved \in [D -> Entities]
      /\ \A i \in D : /\ moved[i].pending = entity[i].pending
                      /\ moved[i].parent =
                           IF i = child THEN parent ELSE entity[i].parent
                      /\ moved[i].children = kids(i)
                      /\ SameTiming(entity[i], moved[i])
  <2> HIDE DEF D
  <2> DEFINE e == [left[child] EXCEPT !.parent = parent]
  <2>1. left[child] \in Entities
    BY <1>3, <1>4
  <2>2. /\ e \in Entities /\ e.pending = left[child].pending
        /\ e.parent = parent /\ e.children = left[child].children
        /\ SameTiming(left[child], e)
    BY <1>4, <2>1 DEF Entities, SameTiming
  <2>3. moved = [left EXCEPT ![child] = e]
    OBVIOUS
  <2> HIDE DEF e, moved
  <2>4. moved \in [D -> Entities] /\ \A i \in D : moved[i] = IF i = child THEN e ELSE left[i]
    BY <1>3, <1>4, <2>2, <2>3
  <2>5. \A i \in D : SameTiming(left[i], moved[i])
    BY <2>2, <2>4 DEF SameTiming
  <2>6. \A i \in D : SameTiming(entity[i], moved[i])
    BY <1>3, <2>5 DEF SameTiming
  <2>7. QED
    BY <1>3, <2>2, <2>4, <2>6
<1> HIDE DEF moved
<1>6. \A i \in D : kids(i) \in Seq(Handles)
  BY <1>5 DEF Entities
<1>7. /\ final \in [D -> Entities]
      /\ \A i \in D : /\ final[i].pending = entity[i].pending
                      /\ final[i].parent =
                           IF i = child THEN parent ELSE entity[i].parent
                      /\ final[i].children =
                           IF i = parent THEN Append(kids(i), child) ELSE kids(i)
                      /\ SameTiming(entity[i], final[i])
  <2> HIDE DEF D
  <2>1. CASE parent \in D
    <3> DEFINE e == [moved[parent] EXCEPT !.children = Append(@, child)]
    <3>1. /\ moved[parent] \in Entities
          /\ moved[parent].children \in Seq(Handles) /\ child \in Handles
      BY <1>2, <1>4, <1>5, <2>1 DEF Entities
    <3>2. Append(moved[parent].children, child) \in Seq(Handles)
      BY <3>1
    <3>3. /\ e \in Entities /\ e.pending = moved[parent].pending
          /\ e.parent = moved[parent].parent
          /\ e.children = Append(moved[parent].children, child)
          /\ SameTiming(moved[parent], e)
      BY <3>1, <3>2 DEF Entities, SameTiming
    <3>4. final = [moved EXCEPT ![parent] = e]
      BY <2>1
    <3> HIDE DEF e, final
    <3>5. final \in [D -> Entities] /\ \A i \in D : final[i] = IF i = parent THEN e ELSE moved[i]
      BY <1>5, <2>1, <3>3, <3>4
    <3>6. \A i \in D : SameTiming(moved[i], final[i])
      BY <3>3, <3>5 DEF SameTiming
    <3>7. \A i \in D : SameTiming(entity[i], final[i])
      BY <1>5, <3>6 DEF SameTiming
    <3>8. QED
      BY <1>5, <3>3, <3>5, <3>7
  <2>2. CASE parent \notin D
    BY <1>5, <2>2
  <2>3. QED
    BY <2>1, <2>2
<1> HIDE DEF final
<1>8. /\ v.entity = final /\ v.generation = w.generation
      /\ v.order = w.order /\ v.queue = w.queue /\ v.next = w.next
      /\ v.failed = w.failed
      /\ v = World(final, w.generation, w.order, w.queue, w.next, w.failed)
  BY DEF Worlds, World
<1> HIDE DEF v
<1>9. v \in Worlds /\ Occupied(v) = D
  <2>1. /\ D \subseteq Handles /\ v.entity \in [D -> Entities]
        /\ v.generation \in [Slots -> Nat \ {0}] /\ v.order \in Seq(Handles)
        /\ v.queue \subseteq Events /\ v.next \in Nat /\ v.failed \in BOOLEAN
    BY <1>2, <1>7, <1>8, WorldParts
  <2>2. v = World(v.entity, v.generation, v.order, v.queue, v.next, v.failed)
    BY <1>8
  <2> HIDE DEF D
  <2>3. QED
    BY <2>1, <2>2, WorldIs
<1>10. \A i \in D : ToSet(entity[i].children) = {h \in D : entity[h].parent = i}
                    /\ IsInjective(entity[i].children)
                    /\ entity[i].children \in Seq(Handles)
  BY <1>2 DEF Linked, Entities
<1>11. Linked(v)
  <2>1. SUFFICES ASSUME NEW i \in D
                 PROVE  /\ IsInjective(final[i].children)
                        /\ ToSet(final[i].children) = {h \in D : final[h].parent = i}
    BY <1>8, <1>9 DEF Linked
  <2>2. /\ ToSet(kids(i)) = ToSet(entity[i].children) \ {child}
        /\ IsInjective(kids(i))
    <3>1. CASE i = old
      BY <1>10, <3>1, WithoutFacts DEF kids
    <3>2. CASE i # old
      <4>1. child \notin ToSet(entity[i].children)
        BY <1>10, <3>2
      <4>2. QED
        BY <1>10, <3>2, <4>1 DEF kids
    <3>3. QED
      BY <3>1, <3>2
  <2>3. {h \in D : final[h].parent = i} =
          (ToSet(entity[i].children) \ {child}) \cup (IF i = parent THEN {child} ELSE {})
    BY <1>4, <1>7, <1>10
  <2>4. CASE i = parent
    <3>1. child \in Handles /\ kids(i) \in Seq(Handles)
      BY <1>2, <1>4, <1>6
    <3>2. /\ ToSet(Append(kids(i), child)) = ToSet(kids(i)) \cup {child}
          /\ IsInjective(Append(kids(i), child))
      BY <2>2, <3>1, AppendSet
    <3>3. QED
      BY <1>7, <2>2, <2>3, <2>4, <3>2
  <2>5. CASE i # parent
    BY <1>7, <2>2, <2>3, <2>5
  <2>6. QED
    BY <2>4, <2>5
<1>12. QED
  BY <1>1, <1>7, <1>8, <1>9, <1>11 DEF Relinks

\* The ancestors of an entity of a forest in which the walk up ends.
LEMMA AncestorsClosed ==
  ASSUME NEW w \in Worlds, NEW child \in Handles, NEW h \in HandleOrNone,
         ~IsDescendant(w, child, h), ~TooHigh(w, child, h),
         NEW S, S \subseteq Occupied(w), h \in S,
         \A i \in S \ {child} : w.entity[i].parent \in S
  PROVE  FALSE
<1>0. MaxDepth \in Nat /\ 0 \in 0..MaxDepth /\ MaxDepth \in 0..MaxDepth
  BY LimitsAssumption DEF LimitsAssumption
<1> DEFINE a == Ancestor(w, h)
<1>1. /\ a[0] = h /\ \A i \in 1..MaxDepth : a[i] = Above(w, a[i - 1])
  BY AncestorTable
<1>2. \A i \in 0..MaxDepth : a[i] # child
  BY DEF IsDescendant
<1>3. a[MaxDepth] = NoHandle
  BY DEF TooHigh
<1> HIDE DEF a
<1>4. ASSUME NEW i \in 1..MaxDepth, a[i - 1] \in S PROVE a[i] \in S
  <2>1. i - 1 \in 0..MaxDepth
    BY <1>0
  <2>2. a[i - 1] # child /\ a[i - 1] \in Occupied(w)
    BY <1>2, <1>4, <2>1
  <2>3. QED
    BY <1>1, <1>4, <2>2 DEF Above
<1>5. \A i \in 0..MaxDepth : a[i] \in S
  BY <1>0, <1>1, <1>4, TableStays
<1>6. NoHandle \in Handles
  BY <1>0, <1>3, <1>5, WorldParts
<1>7. QED
  BY <1>6, NoHandleIsNone

\* Parents set in any order: the guards keep the forest a forest.
LEMMA SetParentStays ==
  ASSUME NEW g, NEW w \in Good(g), NEW child, NEW parent
  PROVE  Stays(g, w, SetParent(w, child, parent))
<1> DEFINE v == Reparented(w, child, parent)
<1>1. w \in Worlds /\ w.generation = g /\ Sound(w)
  BY DEF Good
<1>2. SetParent(w, child, parent) \in {w, Fail(w), v}
  BY DEF SetParent
<1>3. Stays(g, w, w) /\ Stays(g, w, Fail(w))
  BY FailGood DEF Stays
<1>4. CASE ~(/\ Resolvable(w, child)
             /\ parent # NoHandle => /\ Resolvable(w, parent)
                                     /\ ~IsDescendant(w, child, parent)
                                     /\ ~TooHigh(w, child, parent)
             /\ parent # child)
  BY <1>3, <1>4 DEF SetParent
<1>5. CASE /\ Resolvable(w, child)
           /\ parent # NoHandle => /\ Resolvable(w, parent)
                                   /\ ~IsDescendant(w, child, parent)
                                   /\ ~TooHigh(w, child, parent)
           /\ parent # child
  <2>1. child \in Occupied(w) /\ parent \in Occupied(w) \cup {NoHandle}
    BY <1>5 DEF Resolvable
  <2>2. Relinks(w, v, child, parent)
    BY <1>1, <1>5, <2>1, ReparentedLinks DEF Sound
  <2> HIDE DEF v
  <2>3. \A h : Resolvable(v, h) <=> Resolvable(w, h)
    BY <2>2 DEF Relinks, Resolvable
  <2>4. Placed(v) /\ Queued(v) /\ Owned(v)
    BY <1>1, <2>2, <2>3 DEF Sound, Placed, Queued, Owned, Relinks
  <2>5. Parented(v)
    BY <1>1, <1>5, <2>1, <2>2, <2>3 DEF Sound, Parented, Relinks
  <2>6. Acyclic(v)
    <3>a. SUFFICES ASSUME NEW S \in SUBSET Occupied(v), S # {},
                          ~ \E h \in S : v.entity[h].parent \notin S
                   PROVE  FALSE
      BY DEF Acyclic
    <3>b. Occupied(v) = Occupied(w)
      BY <2>2 DEF Relinks
    <3>1. S \subseteq Occupied(w) /\ S # {} /\ \A h \in S : v.entity[h].parent \in S
      BY <3>a, <3>b
    <3>2. \A h \in S : v.entity[h].parent =
                         IF h = child THEN parent ELSE w.entity[h].parent
      BY <3>1, <2>2 DEF Relinks
    <3>3. PICK h \in S : w.entity[h].parent \notin S
      BY <1>1, <3>1 DEF Sound, Acyclic
    <3>4. h = child /\ parent \in S
      BY <3>1, <3>2, <3>3
    <3>5. \A i \in S \ {child} : w.entity[i].parent \in S
      BY <3>1, <3>2
    <3>6. parent \in Handles /\ child \in Handles /\ parent # NoHandle
      BY <1>1, <2>1, <3>1, <3>4, WorldParts, NoHandleIsNone
    <3>7. parent \in HandleOrNone
      BY <3>6 DEF HandleOrNone
    <3>8. QED
      BY <1>1, <1>5, <3>1, <3>4, <3>5, <3>6, <3>7, AncestorsClosed
  <2>7. v \in Good(g)
    BY <1>1, <2>2, <2>4, <2>5, <2>6 DEF Good, Sound, Relinks
  <2>8. QED
    BY <1>2, <1>3, <2>3, <2>7 DEF Stays
<1>6. QED
  BY <1>4, <1>5

-----------------------------------------------------------------------------
(* Inputs, dispatched.                                                      *)

LEMMA TimerInputStays ==
  ASSUME NEW g, NEW w \in Good(g), NEW h, Resolvable(w, h), tick \in Nat,
         NEW event \in Events
  PROVE  Stays(g, w, TimerInput(w, h, event))
<1> DEFINE on == [w EXCEPT !.entity[h].enabled = TRUE]
           off1 == [w EXCEPT !.entity[h].enabled = FALSE]
           off2 == [off1 EXCEPT !.entity[h].fire = NoTick]
           off == CancelDirect(off2, h, "__timer_fire")
           fired == FireOutput(w, h, "OnTimer", h, h)
           units == event.units
           interval == RefireInterval(event)
           timed == [w EXCEPT !.entity[h].interval = interval]
<1>1. h \in Occupied(w) /\ h \in HandleOrNone
  BY WorldParts DEF Resolvable, Good, HandleOrNone
<1>2. Stays(g, w, on) /\ Stays(g, w, off1)
  BY <1>1, EnabledSet
<1>3. \A v : Stays(g, w, v) => v \in Good(g) /\ Resolvable(v, h) /\ h \in Occupied(v)
  BY DEF Stays, Resolvable
<1>4. Stays(g, w, fired)
  BY <1>1, FireOutputStays
<1>5. units \in Nat
  BY DEF Events
<1>6. TimerInput(w, h, event) \in
        {ResetTimer(on, h), off, ResetTimer(fired, h), ResetTimer(w, h),
         ShiftTimer(w, h, TicksOf(units), 0),
         ShiftTimer(w, h, -TicksOf(units), tick), ResetTimer(timed, h),
         timed, w}
  BY DEF TimerInput
<1>7. interval \in Nat
  BY RefireIntervalType
<1> HIDE DEF on, off1, fired, units, interval
<1>8. Stays(g, w, off2)
  <2>1. Stays(g, off1, off2)
    BY <1>2, <1>3, FireSet DEF NoTick
  <2>2. QED
    BY <1>2, <2>1, StaysTrans
<1> HIDE DEF off2
<1>9. Stays(g, w, off)
  BY <1>3, <1>8, CancelsGood, StaysTrans
<1>10. Stays(g, w, ResetTimer(on, h))
  BY <1>2, <1>3, ResetTimerStays, StaysTrans
<1>11. Stays(g, w, ResetTimer(fired, h))
  BY <1>3, <1>4, ResetTimerStays, StaysTrans
<1>12. Stays(g, w, ResetTimer(w, h)) /\ Stays(g, w, w)
  BY ResetTimerStays DEF Stays
<1>13. /\ Stays(g, w, ShiftTimer(w, h, TicksOf(units), 0))
       /\ Stays(g, w, ShiftTimer(w, h, -TicksOf(units), tick))
  <2>1. TicksOf(units) \in Int /\ -TicksOf(units) \in Int
    BY <1>5, TicksOfInt
  <2>2. QED
    BY <1>1, <2>1, ShiftTimerStays
<1>14. Stays(g, w, timed)
  BY <1>1, <1>7, IntervalSet
<1> HIDE DEF timed
<1>15. Stays(g, w, ResetTimer(timed, h))
  BY <1>3, <1>14, ResetTimerStays, StaysTrans
<1>16. QED
  BY <1>6, <1>9, <1>10, <1>11, <1>12, <1>13, <1>14, <1>15

\* Finitely many natural numbers have a bound.
LEMMA BoundExists ==
  ASSUME NEW n \in Nat, NEW f, \A i \in 1..n : f[i] \in Nat
  PROVE  \E b \in Nat : \A i \in 1..n : f[i] <= b
<1> DEFINE P == {m \in Nat : m <= n => \E b \in Nat : \A i \in 1..m : f[i] <= b}
<1>1. 0 \in P
  OBVIOUS
<1>2. ASSUME NEW m \in Nat, m \in P PROVE m + 1 \in P
  <2>1. SUFFICES ASSUME m + 1 <= n
                 PROVE  \E b \in Nat : \A i \in 1..(m + 1) : f[i] <= b
    OBVIOUS
  <2>2. PICK b \in Nat : \A i \in 1..m : f[i] <= b
    BY <1>2, <2>1
  <2>3. f[m + 1] \in Nat
    BY <2>1
  <2>4. \A i \in 1..(m + 1) : i \in 1..m \/ i = m + 1
    OBVIOUS
  <2>5. CASE f[m + 1] <= b
    BY <2>2, <2>4, <2>5
  <2>6. CASE ~(f[m + 1] <= b)
    <3>1. \A i \in 1..m : f[i] \in Nat
      BY <2>1
    <3>2. \A i \in 1..(m + 1) : f[i] <= f[m + 1]
      BY <2>2, <2>3, <2>4, <2>6, <3>1
    <3>3. QED
      BY <2>3, <3>2
  <2>7. QED
    BY <2>5, <2>6
<1>3. Nat \subseteq P
  <2> HIDE DEF P
  <2>1. QED
    BY <1>1, <1>2, SetInduction
<1>4. n \in P
  <2> HIDE DEF P
  <2>1. QED
    BY <1>3
<1>5. QED
  BY <1>4

LEMMA MaxExists ==
  ASSUME NEW S, S \subseteq Nat, S # {}, NEW m \in Nat, \A x \in S : x <= m
  PROVE  Max(S) \in S /\ \A x \in S : x <= Max(S)
<1> DEFINE U == {b \in Nat : \A x \in S : x <= b}
<1>1. U \subseteq Nat /\ U # {}
  OBVIOUS
<1>2. PICK b \in U : \A c \in U : b <= c
  <2> HIDE DEF U
  <2>1. QED
    BY <1>1, LeastExists
<1>3. b \in S
  <2>1. SUFFICES ASSUME b \notin S PROVE FALSE
    OBVIOUS
  <2>2. \A x \in S : x <= b - 1
    BY <2>1
  <2>3. PICK x \in S : TRUE
    OBVIOUS
  <2>4. b - 1 \in U
    BY <2>2, <2>3
  <2>5. QED
    BY <1>2, <2>4
<1>4. \E x \in S : \A y \in S : x >= y
  BY <1>3
<1>5. QED
  BY <1>4 DEF Max

LEMMA DelayType ==
  ASSUME NEW e \in Entities, NEW output
  PROVE  AfterMillisecond(MaxOutputDelay(e, output)) \in Nat
<1> DEFINE S == {0} \cup {a.delay : a \in {b \in ToSet(e.outputs) : b.output = output}}
<1>1. PICK o \in Seq(Actions) : o = e.outputs
  BY DEF Entities
<1>2. /\ Len(o) \in Nat /\ DOMAIN o = 1..Len(o)
      /\ \A i \in 1..Len(o) : o[i] \in Actions
  BY LenProperties, ElementOfSeq
<1>3. PICK b \in Nat : \A i \in 1..Len(o) : o[i].delay <= b
  <2> DEFINE f == [i \in 1..Len(o) |-> o[i].delay]
  <2>1. \A i \in 1..Len(o) : f[i] \in Nat /\ f[i] = o[i].delay
    BY <1>2 DEF Actions
  <2> HIDE DEF f
  <2>2. \E b \in Nat : \A i \in 1..Len(o) : f[i] <= b
    BY <1>2, <2>1, BoundExists
  <2>3. QED
    BY <2>1, <2>2
<1>4. \A a \in ToSet(o) : a.delay \in Nat /\ a.delay <= b
  BY <1>2, <1>3 DEF ToSet, Actions
<1>5. S \subseteq Nat /\ S # {} /\ \A x \in S : x <= b
  BY <1>1, <1>4
<1>6. MaxOutputDelay(e, output) = Max(S)
  BY DEF MaxOutputDelay
<1> HIDE DEF S
<1>7. PICK m \in Nat : m = MaxOutputDelay(e, output)
  BY <1>5, <1>6, MaxExists
<1>8. TickUnits \in Nat \ {0}
  BY LimitsAssumption DEF LimitsAssumption
<1>9. m \div TickUnits \in Nat
  BY <1>8
<1>10. AfterMillisecond(m) \in Nat
  BY <1>8, <1>9 DEF AfterMillisecond
<1>11. QED
  BY <1>7, <1>10

LEMMA TriggerGood ==
  ASSUME NEW g, NEW w \in Good(g), NEW h, Resolvable(w, h), tick \in Nat,
         NEW event \in Events
  PROVE  Trigger(w, h, event) \in Good(g)
<1> DEFINE e == w.entity[h]
           deaf == ~e.once /\ ~e.fast
           set == [w EXCEPT !.entity[h].waiting = deaf]
           fired == FireOutput(set, h, "OnTrigger", event.activator, h)
           delay == AfterMillisecond(MaxOutputDelay(e, "OnTrigger"))
<1>1. h \in Occupied(w) /\ h \in Handles /\ h \in HandleOrNone
  BY WorldParts DEF Resolvable, Good, HandleOrNone
<1>2. e \in Entities
  BY <1>1, EntityParts DEF Good
<1>3. delay \in Nat
  BY <1>2, DelayType
<1>4. event.activator \in HandleOrNone
  BY DEF Events
<1>5. Trigger(w, h, event) \in
        {w, MarkRemoval(fired, h), fired,
         ScheduleEvent(fired, Internal(h, "EnableRefire"), delay)}
  BY DEF Trigger
<1>6. Stays(g, w, set)
  <2>1. PICK b \in BOOLEAN : b = deaf
    BY <1>2 DEF Entities
  <2>2. Stays(g, w, [w EXCEPT !.entity[h].waiting = b])
    BY <1>1, WaitingSet
  <2>3. QED
    BY <2>1, <2>2
<1> HIDE DEF e, deaf, set, delay
<1>7. Stays(g, w, fired)
  BY <1>1, <1>4, <1>6, FireOutputStays, StaysTrans DEF Stays
<1> HIDE DEF fired
<1>8. fired \in Good(g) /\ Resolvable(fired, h)
  BY <1>7 DEF Stays
<1>9. MarkRemoval(fired, h) \in Good(g)
  BY <1>8, MarkRemovalGood DEF Removes
<1>10. ScheduleEvent(fired, Internal(h, "EnableRefire"), delay) \in Good(g)
  BY <1>1, <1>3, <1>8, InternalEvents, ScheduleInternal DEF Stays
<1>11. QED
  BY <1>5, <1>8, <1>9, <1>10

LEMMA RelayInputGood ==
  ASSUME NEW g, NEW w \in Good(g), NEW h, Resolvable(w, h), tick \in Nat,
         NEW event \in Events
  PROVE  RelayInput(w, h, event) \in Good(g)
<1> DEFINE e == w.entity[h]
           on == [w EXCEPT !.entity[h].enabled = TRUE]
           off == [w EXCEPT !.entity[h].enabled = FALSE]
           toggled == [w EXCEPT !.entity[h].enabled = ~e.enabled]
           armed == [w EXCEPT !.entity[h].waiting = FALSE]
           spawned == FireOutput(w, h, "OnSpawn", h, h)
<1>1. h \in Occupied(w) /\ h \in HandleOrNone
  BY WorldParts DEF Resolvable, Good, HandleOrNone
<1>2. RelayInput(w, h, event) \in
        {on, off, toggled, armed, CancelCaller(armed, h), Trigger(w, h, event),
         MarkRemoval(spawned, h), spawned, w}
  BY DEF RelayInput
<1>3. on \in Good(g) /\ off \in Good(g) /\ armed \in Good(g)
  BY <1>1, EnabledSet, WaitingSet DEF Stays
<1>4. toggled \in Good(g)
  <2>1. e.enabled \in BOOLEAN
    BY <1>1, EntityParts DEF Entities, Good
  <2>2. PICK b \in BOOLEAN : b = ~e.enabled
    BY <2>1
  <2>3. Stays(g, w, [w EXCEPT !.entity[h].enabled = b])
    BY <1>1, EnabledSet
  <2>4. QED
    BY <2>2, <2>3 DEF Stays
<1>5. spawned \in Good(g)
  BY <1>1, FireOutputStays DEF Stays
<1> HIDE DEF on, off, toggled, armed, spawned
<1>6. CancelCaller(armed, h) \in Good(g)
  BY <1>3, CancelsGood DEF Stays
<1>7. MarkRemoval(spawned, h) \in Good(g)
  BY <1>5, MarkRemovalGood DEF Removes
<1>8. Trigger(w, h, event) \in Good(g)
  BY TriggerGood
<1>9. QED
  BY <1>2, <1>3, <1>4, <1>5, <1>6, <1>7, <1>8

LEMMA DispatchInputGood ==
  ASSUME NEW g, NEW w \in Good(g), NEW h, tick \in Nat, NEW event \in Events
  PROVE  DispatchInput(w, h, event) \in Good(g)
<1> DEFINE parents == ResolveTarget(w, event.text, event.activator, event.caller)
<1>1. CASE w.failed \/ ~Resolvable(w, h)
  BY <1>1 DEF DispatchInput
<1>2. CASE ~w.failed /\ Resolvable(w, h)
  <2>1. DispatchInput(w, h, event) \in
          {w, MarkRemoval(w, h), SetParent(w, h, NoHandle),
           SetParent(w, h, parents[1]),
           FireOutput(w, h, "OnUser1", event.activator, h),
           ClassInput(w, h, event)}
    BY <1>2 DEF DispatchInput
  <2>2. ClassInput(w, h, event) \in
          {w, RelayInput(w, h, event), TimerInput(w, h, event)}
    BY DEF ClassInput
  <2> HIDE DEF parents
  <2>3. /\ SetParent(w, h, NoHandle) \in Good(g)
        /\ SetParent(w, h, parents[1]) \in Good(g)
    BY SetParentStays DEF Stays
  <2>4. event.activator \in HandleOrNone /\ h \in HandleOrNone
    BY <1>2, WorldParts DEF Resolvable, Good, HandleOrNone, Events
  <2>5. FireOutput(w, h, "OnUser1", event.activator, h) \in Good(g)
    BY <2>4, FireOutputStays DEF Stays
  <2>6. MarkRemoval(w, h) \in Good(g)
    BY MarkRemovalGood DEF Removes
  <2>7. RelayInput(w, h, event) \in Good(g) /\ TimerInput(w, h, event) \in Good(g)
    BY <1>2, RelayInputGood, TimerInputStays DEF Stays
  <2>8. QED
    BY <2>1, <2>2, <2>3, <2>5, <2>6, <2>7
<1>3. QED
  BY <1>1, <1>2

-----------------------------------------------------------------------------
(* The other loops.                                                         *)

\* DispatchRecord: an event, to each of its targets.
DispatchedAll(w, s, event) ==
  Folded(LAMBDA v, x : DispatchInput(v, x, event), w, s)

DispatchedStepwise(W, w, s, event) ==
  \E f : /\ f[0] = w /\ \A i \in 0..Len(s) : f[i] \in W
         /\ \A i \in 1..Len(s) : f[i] = DispatchInput(f[i - 1], s[i], event)
         /\ DispatchedAll(w, s, event) = f[Len(s)]

LEMMA DispatchedAllIn ==
  ASSUME NEW X, NEW s \in Seq(X), NEW W, NEW w \in W, NEW event,
         \A v \in W, x \in X : DispatchInput(v, x, event) \in W
  PROVE  /\ DispatchedAll(w, s, event) \in W
         /\ DispatchedStepwise(W, w, s, event)
<1> DEFINE n == Len(s)
           Op(v, i) == DispatchInput(v, s[i], event)
           Is(f) == f = [i \in 0..n |-> IF i = 0 THEN w ELSE Op(f[i - 1], i)]
           step == [v \in W |-> [i \in 1..n |-> Op(v, i)]]
<1>1. n \in Nat /\ \A i \in 1..n : s[i] \in X
  BY LenProperties, ElementOfSeq
<1>2. \A v \in W, i \in 1..n : Op(v, i) \in W
  BY <1>1
<1>3. DispatchedAll(w, s, event) = (CHOOSE f : Is(f))[n]
  BY DEF DispatchedAll, Folded
<1> HIDE DEF n, Op
<1>4. \A v \in W, i \in 1..n : step[v][i] = Op(v, i)
  OBVIOUS
<1>5. \A v \in W, i \in 1..n : step[v][i] \in W
  BY <1>2, <1>4
<1> HIDE DEF step
<1>6. PICK f \in [0..n -> W] :
        f[0] = w /\ \A i \in 1..n : f[i] = step[f[i - 1]][i]
  <2>1. Closed(W, n, w, step)
    BY <1>1, <1>5 DEF Closed
  <2>2. QED
    BY <2>1, TableExists DEF Tabulated
<1>7. \A i \in 0..n : f[i] = IF i = 0 THEN w ELSE Op(f[i - 1], i)
  <2>1. \A i \in 1..n : f[i - 1] \in W
    BY <1>1
  <2>2. QED
    BY <1>1, <1>4, <1>6, <2>1
<1>8. Is(f)
  BY <1>7
<1>9. PICK h : Is(h) /\ DispatchedAll(w, s, event) = h[n]
  <2> HIDE DEF Is
  <2>1. QED
    BY <1>3, <1>8
<1>10. h[0] = w /\ \A i \in 1..n : h[i] = Op(h[i - 1], i)
  <2> DEFINE at(i) == IF i = 0 THEN w ELSE Op(h[i - 1], i)
             k == [i \in 0..n |-> at(i)]
  <2>1. h = k
    BY <1>9
  <2>2. k[0] = w /\ \A i \in 1..n : k[i] = at(i)
    BY <1>1
  <2>3. \A i \in 1..n : at(i) = Op(h[i - 1], i)
    BY <1>1
  <2> HIDE DEF k, at, Is
  <2>4. QED
    BY <2>1, <2>2, <2>3
<1>11. \A i \in 0..n : h[i] \in W
  <2>1. \A i \in 1..n : h[i - 1] \in W => h[i] \in W
    BY <1>2, <1>10
  <2>2. h[0] \in W
    BY <1>10
  <2> HIDE DEF Is
  <2>3. QED
    BY <1>1, <2>1, <2>2, TableStays
<1>12. DispatchedAll(w, s, event) \in W
  BY <1>1, <1>9, <1>11
<1>13. QED
  <2> HIDE DEF Is
  <2>1. QED
    BY <1>1, <1>9, <1>10, <1>11, <1>12 DEF n, Op, DispatchedStepwise

\* RestartRemovals.
MarkedAll(w, s) ==
  Folded(MarkRemoval, w, s)

MarkedStepwise(W, w, s) ==
  \E f : /\ f[0] = w /\ \A i \in 0..Len(s) : f[i] \in W
         /\ \A i \in 1..Len(s) : f[i] = MarkRemoval(f[i - 1], s[i])
         /\ MarkedAll(w, s) = f[Len(s)]

LEMMA MarkedAllIn ==
  ASSUME NEW X, NEW s \in Seq(X), NEW W, NEW w \in W,
         \A v \in W, x \in X : MarkRemoval(v, x) \in W
  PROVE  /\ MarkedAll(w, s) \in W
         /\ MarkedStepwise(W, w, s)
<1> DEFINE n == Len(s)
           Op(v, i) == MarkRemoval(v, s[i])
           Is(f) == f = [i \in 0..n |-> IF i = 0 THEN w ELSE Op(f[i - 1], i)]
           step == [v \in W |-> [i \in 1..n |-> Op(v, i)]]
<1>1. n \in Nat /\ \A i \in 1..n : s[i] \in X
  BY LenProperties, ElementOfSeq
<1>2. \A v \in W, i \in 1..n : Op(v, i) \in W
  BY <1>1
<1>3. MarkedAll(w, s) = (CHOOSE f : Is(f))[n]
  BY DEF MarkedAll, Folded
<1> HIDE DEF n, Op
<1>4. \A v \in W, i \in 1..n : step[v][i] = Op(v, i)
  OBVIOUS
<1>5. \A v \in W, i \in 1..n : step[v][i] \in W
  BY <1>2, <1>4
<1> HIDE DEF step
<1>6. PICK f \in [0..n -> W] :
        f[0] = w /\ \A i \in 1..n : f[i] = step[f[i - 1]][i]
  <2>1. Closed(W, n, w, step)
    BY <1>1, <1>5 DEF Closed
  <2>2. QED
    BY <2>1, TableExists DEF Tabulated
<1>7. \A i \in 0..n : f[i] = IF i = 0 THEN w ELSE Op(f[i - 1], i)
  <2>1. \A i \in 1..n : f[i - 1] \in W
    BY <1>1
  <2>2. QED
    BY <1>1, <1>4, <1>6, <2>1
<1>8. Is(f)
  BY <1>7
<1>9. PICK h : Is(h) /\ MarkedAll(w, s) = h[n]
  <2> HIDE DEF Is
  <2>1. QED
    BY <1>3, <1>8
<1>10. h[0] = w /\ \A i \in 1..n : h[i] = Op(h[i - 1], i)
  <2> DEFINE at(i) == IF i = 0 THEN w ELSE Op(h[i - 1], i)
             k == [i \in 0..n |-> at(i)]
  <2>1. h = k
    BY <1>9
  <2>2. k[0] = w /\ \A i \in 1..n : k[i] = at(i)
    BY <1>1
  <2>3. \A i \in 1..n : at(i) = Op(h[i - 1], i)
    BY <1>1
  <2> HIDE DEF k, at, Is
  <2>4. QED
    BY <2>1, <2>2, <2>3
<1>11. \A i \in 0..n : h[i] \in W
  <2>1. \A i \in 1..n : h[i - 1] \in W => h[i] \in W
    BY <1>2, <1>10
  <2>2. h[0] \in W
    BY <1>10
  <2> HIDE DEF Is
  <2>3. QED
    BY <1>1, <2>1, <2>2, TableStays
<1>12. MarkedAll(w, s) \in W
  BY <1>1, <1>9, <1>11
<1>13. QED
  <2> HIDE DEF Is
  <2>1. QED
    BY <1>1, <1>9, <1>10, <1>11, <1>12 DEF n, Op, MarkedStepwise

\* SpawnMap: the entities, their parents, their activations.
CreatedAll(w, s) ==
  Folded(Created, w, s)

LEMMA CreatedAllIn ==
  ASSUME NEW X, NEW s \in Seq(X), NEW W, NEW w \in W,
         \A v \in W, x \in X : Created(v, x) \in W
  PROVE  CreatedAll(w, s) \in W
<1> DEFINE n == Len(s)
           Op(v, i) == Created(v, s[i])
           Is(f) == f = [i \in 0..n |-> IF i = 0 THEN w ELSE Op(f[i - 1], i)]
           step == [v \in W |-> [i \in 1..n |-> Op(v, i)]]
<1>1. n \in Nat /\ \A i \in 1..n : s[i] \in X
  BY LenProperties, ElementOfSeq
<1>2. \A v \in W, i \in 1..n : Op(v, i) \in W
  BY <1>1
<1>3. CreatedAll(w, s) = (CHOOSE f : Is(f))[n]
  BY DEF CreatedAll, Folded
<1> HIDE DEF n, Op
<1>4. \A v \in W, i \in 1..n : step[v][i] = Op(v, i)
  OBVIOUS
<1>5. \A v \in W, i \in 1..n : step[v][i] \in W
  BY <1>2, <1>4
<1> HIDE DEF step
<1>6. PICK f \in [0..n -> W] :
        f[0] = w /\ \A i \in 1..n : f[i] = step[f[i - 1]][i]
  <2>1. Closed(W, n, w, step)
    BY <1>1, <1>5 DEF Closed
  <2>2. QED
    BY <2>1, TableExists DEF Tabulated
<1>7. \A i \in 0..n : f[i] = IF i = 0 THEN w ELSE Op(f[i - 1], i)
  <2>1. \A i \in 1..n : f[i - 1] \in W
    BY <1>1
  <2>2. QED
    BY <1>1, <1>4, <1>6, <2>1
<1>8. Is(f)
  BY <1>7
<1>9. PICK h : Is(h) /\ CreatedAll(w, s) = h[n]
  <2> HIDE DEF Is
  <2>1. QED
    BY <1>3, <1>8
<1>10. h[0] = w /\ \A i \in 1..n : h[i] = Op(h[i - 1], i)
  <2> DEFINE at(i) == IF i = 0 THEN w ELSE Op(h[i - 1], i)
             k == [i \in 0..n |-> at(i)]
  <2>1. h = k
    BY <1>9
  <2>2. k[0] = w /\ \A i \in 1..n : k[i] = at(i)
    BY <1>1
  <2>3. \A i \in 1..n : at(i) = Op(h[i - 1], i)
    BY <1>1
  <2> HIDE DEF k, at, Is
  <2>4. QED
    BY <2>1, <2>2, <2>3
<1>11. \A i \in 0..n : h[i] \in W
  <2>1. \A i \in 1..n : h[i - 1] \in W => h[i] \in W
    BY <1>2, <1>10
  <2>2. h[0] \in W
    BY <1>10
  <2> HIDE DEF Is
  <2>3. QED
    BY <1>1, <2>1, <2>2, TableStays
<1>12. QED
  BY <1>1, <1>9, <1>11

ParentedAll(w, s) ==
  Folded(InitialParent, w, s)

LEMMA ParentedAllIn ==
  ASSUME NEW X, NEW s \in Seq(X), NEW W, NEW w \in W,
         \A v \in W, x \in X : InitialParent(v, x) \in W
  PROVE  ParentedAll(w, s) \in W
<1> DEFINE n == Len(s)
           Op(v, i) == InitialParent(v, s[i])
           Is(f) == f = [i \in 0..n |-> IF i = 0 THEN w ELSE Op(f[i - 1], i)]
           step == [v \in W |-> [i \in 1..n |-> Op(v, i)]]
<1>1. n \in Nat /\ \A i \in 1..n : s[i] \in X
  BY LenProperties, ElementOfSeq
<1>2. \A v \in W, i \in 1..n : Op(v, i) \in W
  BY <1>1
<1>3. ParentedAll(w, s) = (CHOOSE f : Is(f))[n]
  BY DEF ParentedAll, Folded
<1> HIDE DEF n, Op
<1>4. \A v \in W, i \in 1..n : step[v][i] = Op(v, i)
  OBVIOUS
<1>5. \A v \in W, i \in 1..n : step[v][i] \in W
  BY <1>2, <1>4
<1> HIDE DEF step
<1>6. PICK f \in [0..n -> W] :
        f[0] = w /\ \A i \in 1..n : f[i] = step[f[i - 1]][i]
  <2>1. Closed(W, n, w, step)
    BY <1>1, <1>5 DEF Closed
  <2>2. QED
    BY <2>1, TableExists DEF Tabulated
<1>7. \A i \in 0..n : f[i] = IF i = 0 THEN w ELSE Op(f[i - 1], i)
  <2>1. \A i \in 1..n : f[i - 1] \in W
    BY <1>1
  <2>2. QED
    BY <1>1, <1>4, <1>6, <2>1
<1>8. Is(f)
  BY <1>7
<1>9. PICK h : Is(h) /\ ParentedAll(w, s) = h[n]
  <2> HIDE DEF Is
  <2>1. QED
    BY <1>3, <1>8
<1>10. h[0] = w /\ \A i \in 1..n : h[i] = Op(h[i - 1], i)
  <2> DEFINE at(i) == IF i = 0 THEN w ELSE Op(h[i - 1], i)
             k == [i \in 0..n |-> at(i)]
  <2>1. h = k
    BY <1>9
  <2>2. k[0] = w /\ \A i \in 1..n : k[i] = at(i)
    BY <1>1
  <2>3. \A i \in 1..n : at(i) = Op(h[i - 1], i)
    BY <1>1
  <2> HIDE DEF k, at, Is
  <2>4. QED
    BY <2>1, <2>2, <2>3
<1>11. \A i \in 0..n : h[i] \in W
  <2>1. \A i \in 1..n : h[i - 1] \in W => h[i] \in W
    BY <1>2, <1>10
  <2>2. h[0] \in W
    BY <1>10
  <2> HIDE DEF Is
  <2>3. QED
    BY <1>1, <2>1, <2>2, TableStays
<1>12. QED
  BY <1>1, <1>9, <1>11

ActivatedAll(w, s) ==
  Folded(Activated, w, s)

ActivatedStepwise(W, w, s) ==
  \E f : /\ f[0] = w /\ \A i \in 0..Len(s) : f[i] \in W
         /\ \A i \in 1..Len(s) : f[i] = Activated(f[i - 1], s[i])
         /\ ActivatedAll(w, s) = f[Len(s)]

LEMMA ActivatedAllIn ==
  ASSUME NEW X, NEW s \in Seq(X), NEW W, NEW w \in W,
         \A v \in W, x \in X : Activated(v, x) \in W
  PROVE  /\ ActivatedAll(w, s) \in W
         /\ ActivatedStepwise(W, w, s)
<1> DEFINE n == Len(s)
           Op(v, i) == Activated(v, s[i])
           Is(f) == f = [i \in 0..n |-> IF i = 0 THEN w ELSE Op(f[i - 1], i)]
           step == [v \in W |-> [i \in 1..n |-> Op(v, i)]]
<1>1. n \in Nat /\ \A i \in 1..n : s[i] \in X
  BY LenProperties, ElementOfSeq
<1>2. \A v \in W, i \in 1..n : Op(v, i) \in W
  BY <1>1
<1>3. ActivatedAll(w, s) = (CHOOSE f : Is(f))[n]
  BY DEF ActivatedAll, Folded
<1> HIDE DEF n, Op
<1>4. \A v \in W, i \in 1..n : step[v][i] = Op(v, i)
  OBVIOUS
<1>5. \A v \in W, i \in 1..n : step[v][i] \in W
  BY <1>2, <1>4
<1> HIDE DEF step
<1>6. PICK f \in [0..n -> W] :
        f[0] = w /\ \A i \in 1..n : f[i] = step[f[i - 1]][i]
  <2>1. Closed(W, n, w, step)
    BY <1>1, <1>5 DEF Closed
  <2>2. QED
    BY <2>1, TableExists DEF Tabulated
<1>7. \A i \in 0..n : f[i] = IF i = 0 THEN w ELSE Op(f[i - 1], i)
  <2>1. \A i \in 1..n : f[i - 1] \in W
    BY <1>1
  <2>2. QED
    BY <1>1, <1>4, <1>6, <2>1
<1>8. Is(f)
  BY <1>7
<1>9. PICK h : Is(h) /\ ActivatedAll(w, s) = h[n]
  <2> HIDE DEF Is
  <2>1. QED
    BY <1>3, <1>8
<1>10. h[0] = w /\ \A i \in 1..n : h[i] = Op(h[i - 1], i)
  <2> DEFINE at(i) == IF i = 0 THEN w ELSE Op(h[i - 1], i)
             k == [i \in 0..n |-> at(i)]
  <2>1. h = k
    BY <1>9
  <2>2. k[0] = w /\ \A i \in 1..n : k[i] = at(i)
    BY <1>1
  <2>3. \A i \in 1..n : at(i) = Op(h[i - 1], i)
    BY <1>1
  <2> HIDE DEF k, at, Is
  <2>4. QED
    BY <2>1, <2>2, <2>3
<1>11. \A i \in 0..n : h[i] \in W
  <2>1. \A i \in 1..n : h[i - 1] \in W => h[i] \in W
    BY <1>2, <1>10
  <2>2. h[0] \in W
    BY <1>10
  <2> HIDE DEF Is
  <2>3. QED
    BY <1>1, <2>1, <2>2, TableStays
<1>12. ActivatedAll(w, s) \in W
  BY <1>1, <1>9, <1>11
<1>13. QED
  <2> HIDE DEF Is
  <2>1. QED
    BY <1>1, <1>9, <1>10, <1>11, <1>12 DEF n, Op, ActivatedStepwise

LEMMA ResolveTargetType ==
  ASSUME NEW g, NEW w \in Good(g), NEW name, NEW activator, NEW caller
  PROVE  ResolveTarget(w, name, activator, caller) \in Seq(Handles)
<1> DEFINE live == {h \in Occupied(w) : Resolvable(w, h)}
           N == {h \in live : w.entity[h].name = name}
           C == {h \in live : w.entity[h].class = name}
           named == Kept(w.order, N)
           classed == Kept(w.order, C)
           oneCaller == IF Resolvable(w, caller) THEN << caller >> ELSE << >>
           oneActivator == IF Resolvable(w, activator) THEN << activator >> ELSE << >>
<1>1. w.order \in Seq(Handles) /\ \A h : Resolvable(w, h) => h \in Handles
  BY WorldParts DEF Good, Resolvable
<1>2. oneCaller \in Seq(Handles) /\ oneActivator \in Seq(Handles)
      /\ << >> \in Seq(Handles)
  BY <1>1
<1>3. ResolveTarget(w, name, activator, caller) \in
        {oneCaller, oneActivator, << >>, named, classed}
  BY DEF ResolveTarget
<1> HIDE DEF N, C, oneCaller, oneActivator
<1>4. named \in Seq(Handles) /\ classed \in Seq(Handles)
  BY <1>1, KeptFacts
<1>5. QED
  BY <1>2, <1>3, <1>4

LEMMA DispatchRecordGood ==
  ASSUME NEW g, NEW w \in Good(g), tick \in Nat, NEW event \in Events
  PROVE  DispatchRecord(w, event) \in Good(g)
<1> DEFINE one == IF Resolvable(w, event.target) THEN << event.target >> ELSE << >>
           all == ResolveTarget(w, event.name, event.activator, event.caller)
           targets == IF event.target # NoHandle THEN one ELSE all
<1>1. DispatchRecord(w, event) = DispatchedAll(w, targets, event)
  BY DEF DispatchRecord, DispatchedAll
<1>2. targets \in Seq(Handles)
  <2>1. \A h : Resolvable(w, h) => h \in Handles
    BY WorldParts DEF Good, Resolvable
  <2>2. one \in Seq(Handles)
    BY <2>1
  <2>3. all \in Seq(Handles)
    BY <2>1, ResolveTargetType
  <2>4. QED
    BY <2>2, <2>3
<1> HIDE DEF targets
<1>3. \A v \in Good(g), h \in Handles : DispatchInput(v, h, event) \in Good(g)
  BY DispatchInputGood
<1>4. QED
  BY <1>1, <1>2, <1>3, DispatchedAllIn

-----------------------------------------------------------------------------
(* Spawning.                                                                *)

LEMMA EntityOfType ==
  ASSUME NEW d \in Definitions
  PROVE  /\ EntityOf(d) \in Entities /\ EntityOf(d).pending = FALSE
         /\ EntityOf(d).parent = NoHandle /\ EntityOf(d).children = << >>
         /\ EntityOf(d).waiting = FALSE /\ EntityOf(d).fire = NoTick
<1>1. /\ d.class \in Words /\ d.name \in Words /\ d.parentName \in Words
      /\ d.enabled \in BOOLEAN /\ d.once \in BOOLEAN /\ d.fast \in BOOLEAN
      /\ d.interval \in Nat /\ d.outputs \in Seq(Actions)
  BY DEF Definitions, Words
<1>2. /\ NoHandle \in HandleOrNone /\ NoTick \in Int /\ << >> \in Seq(Handles)
  BY DEF HandleOrNone, NoTick
<1> HIDE DEF Words, HandleOrNone
<1>3. QED
  BY <1>1, <1>2 DEF EntityOf, Entities

LEMMA FreeSlot ==
  ASSUME NEW w, FreeSlots(w) # {}
  PROVE  Min(FreeSlots(w)) \in FreeSlots(w)
<1> DEFINE S == FreeSlots(w)
<1>1. S \subseteq Nat
  BY LimitsAssumption DEF FreeSlots, Slots, LimitsAssumption
<1> HIDE DEF S
<1>2. PICK x \in S : \A y \in S : x <= y
  BY <1>1, LeastExists DEF S
<1>3. Min(S) \in S
  BY <1>2 DEF Min
<1>4. QED
  BY <1>3 DEF S

\* One entity more, and nothing else.
Adds(g, w, v) ==
  /\ v \in Good(g) /\ v.failed = w.failed
  /\ \A h : Resolvable(w, h) => Resolvable(v, h)
  /\ v.queue = w.queue
  /\ \E h \in Handles :
       /\ Resolvable(v, h) /\ v.order = Append(w.order, h)
       /\ h \notin Occupied(w) /\ Occupied(v) = Occupied(w) \cup {h}
       /\ v.entity[h].waiting = FALSE /\ v.entity[h].fire = NoTick
  /\ \A h \in Occupied(w) : v.entity[h] = w.entity[h]

LEMMA CreatedAdds ==
  ASSUME NEW g, NEW w \in Good(g), NEW d \in Definitions
  PROVE  Created(w, d) = Fail(w) \/ Adds(g, w, Created(w, d))
<1>1. SUFFICES ASSUME FreeSlots(w) # {}
               PROVE  Adds(g, w, Created(w, d))
  BY DEF Created
<1> DEFINE D == Occupied(w)
           s == Min(FreeSlots(w))
           h == HandleIn(w, s)
           E == D \cup {h}
           entity == [e \in E |-> IF e = h THEN EntityOf(d) ELSE w.entity[e]]
           order == Append(w.order, h)
           v == [w EXCEPT !.entity = entity, !.order = order]
<1>2. Created(w, d) = v
  BY <1>1 DEF Created
<1>3. w \in Worlds /\ w.generation = g /\ Sound(w)
  BY DEF Good
<1>4. s \in Slots /\ \A e \in D : e.slot # s
  BY <1>1, FreeSlot DEF FreeSlots
<1> HIDE DEF s
<1>5. /\ h \in Handles /\ h \notin D /\ h.slot = s
      /\ w.generation[h.slot] = h.generation
  BY <1>3, <1>4, WorldParts DEF HandleIn, Handles
<1>6. EntityOf(d) \in Entities
  BY EntityOfType
<1> HIDE DEF h
<1>7. w.entity \in [D -> Entities] /\ D \subseteq Handles /\ w.order \in Seq(Handles)
  BY <1>3, WorldParts
<1> HIDE DEF D
<1>8. /\ entity \in [E -> Entities] /\ E \subseteq Handles
      /\ entity[h] = EntityOf(d) /\ \A e \in D : entity[e] = w.entity[e]
  BY <1>5, <1>6, <1>7
<1>9. order \in Seq(Handles)
  BY <1>5, <1>7
<1> HIDE DEF entity, order
<1>10. /\ v.entity = entity /\ v.generation = w.generation
       /\ v.order = order /\ v.queue = w.queue /\ v.next = w.next
       /\ v.failed = w.failed
       /\ v = World(entity, w.generation, order, w.queue, w.next, w.failed)
  <2> DEFINE u == [w EXCEPT !.entity = entity]
  <2>1. u = World(entity, w.generation, w.order, w.queue, w.next, w.failed)
    BY <1>3 DEF Worlds, World
  <2>2. v = [u EXCEPT !.order = order]
    OBVIOUS
  <2> HIDE DEF u, v
  <2>3. v = World(entity, w.generation, order, w.queue, w.next, w.failed)
    BY <2>1, <2>2 DEF World
  <2>4. QED
    BY <2>3 DEF World
<1> HIDE DEF v
<1>11. v \in Worlds /\ Occupied(v) = E
  <2>1. /\ v.entity \in [E -> Entities]
        /\ v.generation \in [Slots -> Nat \ {0}] /\ v.order \in Seq(Handles)
        /\ v.queue \subseteq Events /\ v.next \in Nat /\ v.failed \in BOOLEAN
    BY <1>3, <1>8, <1>9, <1>10, WorldParts
  <2>2. v = World(v.entity, v.generation, v.order, v.queue, v.next, v.failed)
    BY <1>10
  <2> HIDE DEF E
  <2>3. QED
    BY <1>8, <2>1, <2>2, WorldIs
<1>12. /\ v.entity[h].pending = FALSE /\ v.entity[h].parent = NoHandle
       /\ v.entity[h].children = << >>
       /\ v.entity[h].waiting = FALSE /\ v.entity[h].fire = NoTick
  BY <1>8, <1>10, EntityOfType
<1>13. /\ Resolvable(v, h)
       /\ \A e : Resolvable(w, e) => Resolvable(v, e)
       /\ \A e \in D : Resolvable(v, e) => Resolvable(w, e)
  BY <1>8, <1>10, <1>11, <1>12 DEF Resolvable, D
<1>14. NoHandle \notin Handles
  BY NoHandleIsNone
<1>15. Placed(v)
  <2>1. \A e \in E : v.generation[e.slot] = e.generation
    BY <1>3, <1>5, <1>10 DEF Sound, Placed, D
  <2>2. IsInjective(w.order) /\ ToSet(w.order) = D
    BY <1>3 DEF Sound, Placed, D
  <2>3. IsInjective(order) /\ ToSet(order) = E
    BY <1>5, <1>7, <2>2, AppendSet DEF order
  <2>4. QED
    BY <1>10, <1>11, <2>1, <2>3 DEF Placed
<1>16. Queued(v)
  BY <1>3, <1>10 DEF Sound, Queued
<1>17. Owned(v)
  BY <1>3, <1>10, <1>13 DEF Sound, Owned
<1>18. \A e \in D : w.entity[e].parent # h
  BY <1>3, <1>5, <1>14 DEF Sound, Parented, D
<1>19. Linked(v)
  <2>1. SUFFICES ASSUME NEW p \in E
                 PROVE  /\ IsInjective(v.entity[p].children)
                        /\ ToSet(v.entity[p].children) =
                             {e \in E : v.entity[e].parent = p}
    BY <1>11 DEF Linked
  <2>2. CASE p = h
    <3>1. {e \in E : v.entity[e].parent = h} = {}
      BY <1>5, <1>8, <1>10, <1>12, <1>14, <1>18
    <3>2. IsInjective(<< >>) /\ ToSet(<< >>) = {}
      BY DEF IsInjective, ToSet
    <3>3. QED
      BY <1>12, <2>2, <3>1, <3>2
  <2>3. CASE p \in D
    <3>1. /\ IsInjective(w.entity[p].children)
          /\ ToSet(w.entity[p].children) = {e \in D : w.entity[e].parent = p}
      BY <1>3, <2>3 DEF Sound, Linked, D
    <3>2. {e \in E : v.entity[e].parent = p} = {e \in D : w.entity[e].parent = p}
      BY <1>7, <1>8, <1>10, <1>12, <1>14, <2>3
    <3>3. v.entity[p].children = w.entity[p].children
      BY <1>8, <1>10, <2>3
    <3>4. QED
      BY <3>1, <3>2, <3>3
  <2>4. QED
    BY <2>2, <2>3
<1>20. Parented(v)
  <2>1. SUFFICES ASSUME NEW e \in E
                 PROVE  /\ v.entity[e].parent \in E \cup {NoHandle}
                        /\ Resolvable(v, e) /\ v.entity[e].parent # NoHandle
                             => Resolvable(v, v.entity[e].parent)
    BY <1>11 DEF Parented
  <2>2. CASE e = h
    BY <1>12, <2>2
  <2>3. CASE e \in D
    BY <1>3, <1>8, <1>10, <1>13, <2>3 DEF Sound, Parented, D
  <2>4. QED
    BY <2>2, <2>3
<1>21. Acyclic(v)
  <2>1. SUFFICES ASSUME NEW S \in SUBSET E, S # {},
                        \A e \in S : v.entity[e].parent \in S
                 PROVE  FALSE
    BY <1>11 DEF Acyclic
  <2>2. h \notin S
    BY <1>8, <1>12, <1>14, <2>1
  <2>3. S \in SUBSET D /\ \A e \in S : w.entity[e].parent \in S
    BY <1>8, <1>10, <2>1, <2>2
  <2>4. QED
    BY <1>3, <2>1, <2>3 DEF Sound, Acyclic, D
<1>22. v \in Good(g)
  BY <1>3, <1>10, <1>11, <1>15, <1>16, <1>17, <1>19, <1>20, <1>21
     DEF Good, Sound
<1>23. Adds(g, w, v)
  <2>1. \A e \in D : v.entity[e] = w.entity[e]
    BY <1>8, <1>10
  <2>2. v.order = Append(w.order, h) /\ Occupied(v) = D \cup {h}
    BY <1>10, <1>11 DEF order
  <2>3. QED
    BY <1>5, <1>10, <1>12, <1>13, <1>22, <2>1, <2>2 DEF Adds, D
<1>24. QED
  BY <1>2, <1>23

LEMMA ActivatedStays ==
  ASSUME NEW g, NEW w \in Good(g), NEW h, Resolvable(w, h), tick \in Nat
  PROVE  Stays(g, w, Activated(w, h))
<1>1. Activated(w, h) \in
        {w, ScheduleEvent(w, Internal(h, "__relay_spawn"), 1), ResetTimer(w, h)}
  BY DEF Activated
<1>2. h \in Handles
  BY WorldParts DEF Good, Resolvable
<1>3. Stays(g, w, ScheduleEvent(w, Internal(h, "__relay_spawn"), 1))
  BY <1>2, InternalEvents, ScheduleInternal
<1>4. QED
  BY <1>1, <1>3, ResetTimerStays DEF Stays

LEMMA InitialParentStays ==
  ASSUME NEW g, NEW w \in Good(g), NEW h
  PROVE  Stays(g, w, InitialParent(w, h))
<1> DEFINE found == ResolveTarget(w, w.entity[h].parentName, NoHandle, NoHandle)
<1>1. InitialParent(w, h) \in {w, SetParent(w, h, found[1])}
  BY DEF InitialParent
<1> HIDE DEF found
<1>2. QED
  BY <1>1, SetParentStays DEF Stays

LEMMA SpawnOneGood ==
  ASSUME NEW g, NEW w \in Good(g), NEW d \in Definitions, tick \in Nat
  PROVE  SpawnOne(w, d) \in Good(g)
<1> DEFINE made == Created(w, d)
<1>1. made = Fail(w) \/ Adds(g, w, made)
  BY CreatedAdds
<1>2. CASE made = Fail(w)
  BY <1>2, FailGood DEF SpawnOne
<1>3. CASE Adds(g, w, made)
  <2>1. PICK h \in Handles : Resolvable(made, h) /\ made.order = Append(w.order, h)
    BY <1>3 DEF Adds
  <2>2. Last(made.order) = h
    BY <2>1, WorldParts DEF Good, Last
  <2>3. made \in Good(g) /\ SpawnOne(w, d) \in {made, Activated(made, h)}
    BY <1>3, <2>2 DEF SpawnOne, Adds
  <2> HIDE DEF made
  <2>4. QED
    BY <2>1, <2>3, ActivatedStays DEF Stays
<1>4. QED
  BY <1>1, <1>2, <1>3

\* Whoever creation_order lists after the first n is there.
Grown(n, v) ==
  /\ Len(v.order) >= n
  /\ \A i \in (n + 1)..Len(v.order) : Resolvable(v, v.order[i])

LEMMA CreatedGrown ==
  ASSUME NEW g, NEW v \in Good(g), NEW n \in Nat, Grown(n, v),
         NEW d \in Definitions
  PROVE  Created(v, d) \in Good(g) /\ Grown(n, Created(v, d))
<1> DEFINE u == Created(v, d)
<1>1. u = Fail(v) \/ Adds(g, v, u)
  BY CreatedAdds
<1> HIDE DEF u
<1>2. CASE u = Fail(v)
  <2>1. u \in Good(g) /\ \A h : Resolvable(u, h) <=> Resolvable(v, h)
    BY <1>2, FailGood
  <2>2. u.order = v.order
    BY <1>2 DEF Fail, World
  <2>3. Grown(n, u)
    BY <2>1, <2>2 DEF Grown
  <2>4. QED
    BY <2>1, <2>3 DEF u
<1>3. CASE Adds(g, v, u)
  <2>1. PICK h \in Handles : Resolvable(u, h) /\ u.order = Append(v.order, h)
    BY <1>3 DEF Adds
  <2>2. v.order \in Seq(Handles) /\ Len(v.order) \in Nat
    BY WorldParts, LenProperties DEF Good
  <2>3. /\ Len(u.order) = Len(v.order) + 1
        /\ \A i \in 1..Len(v.order) : u.order[i] = v.order[i]
        /\ u.order[Len(v.order) + 1] = h
    BY <2>1, <2>2
  <2>4. \A i : Resolvable(v, i) => Resolvable(u, i)
    BY <1>3 DEF Adds
  <2>5. Grown(n, u)
    BY <2>1, <2>2, <2>3, <2>4 DEF Grown
  <2>6. QED
    BY <1>3, <2>5 DEF Adds, u
<1>4. QED
  BY <1>1, <1>2, <1>3

LEMMA SpawnMapGood ==
  ASSUME NEW g, NEW w \in Good(g), NEW definitions \in Seq(Definitions),
         tick \in Nat
  PROVE  SpawnMap(w, definitions) \in Good(g)
<1> DEFINE n == Len(w.order)
           made == CreatedAll(w, definitions)
           new == SubSeq(made.order, n + 1, Len(made.order))
           parented == ParentedAll(made, Reverse(new))
           activated == ActivatedAll(parented, new)
<1>1. SpawnMap(w, definitions) \in {made, activated}
  BY DEF SpawnMap, CreatedAll, ParentedAll, ActivatedAll
<1>2. n \in Nat
  BY WorldParts, LenProperties DEF Good
<1>3. made \in Good(g) /\ Grown(n, made)
  <2> DEFINE W == {v \in Good(g) : Grown(n, v)}
  <2>1. w \in W
    BY <1>2 DEF Grown
  <2>2. \A v \in W, d \in Definitions : Created(v, d) \in W
    BY <1>2, CreatedGrown
  <2> HIDE DEF W
  <2>3. made \in W
    BY <2>1, <2>2, CreatedAllIn
  <2>4. QED
    BY <2>3 DEF W
<1> HIDE DEF made
<1> DEFINE R == {h \in Handles : Resolvable(made, h)}
<1>4. new \in Seq(R)
  <2>1. made.order \in Seq(Handles) /\ Len(made.order) \in Nat
    BY <1>3, WorldParts, LenProperties DEF Good
  <2>2. \A i \in (n + 1)..Len(made.order) : made.order[i] \in R
    BY <1>2, <1>3, <2>1, ElementOfSeq DEF Grown
  <2> HIDE DEF R, n
  <2>3. QED
    BY <1>2, <2>1, <2>2
<1> HIDE DEF new
<1>5. Reverse(new) \in Seq(R)
  <2> HIDE DEF R
  <2>1. QED
    BY <1>4 DEF Reverse
<1> DEFINE W == {v \in Good(g) : Stays(g, made, v)}
<1>6. made \in W
  BY <1>3 DEF Stays
<1>7. \A v \in W : v \in Good(g) /\ \A h \in R : Resolvable(v, h)
  BY DEF Stays
<1>8. ASSUME NEW v \in W, NEW h \in R
      PROVE  InitialParent(v, h) \in W /\ Activated(v, h) \in W
  <2>1. v \in Good(g) /\ Stays(g, made, v) /\ Resolvable(v, h)
    BY <1>7
  <2>2. Stays(g, v, InitialParent(v, h)) /\ Stays(g, v, Activated(v, h))
    BY <2>1, InitialParentStays, ActivatedStays
  <2>3. Stays(g, made, InitialParent(v, h)) /\ Stays(g, made, Activated(v, h))
    BY <2>1, <2>2, StaysTrans
  <2>4. QED
    BY <2>3 DEF Stays
<1> HIDE DEF W, R
<1>9. parented \in W
  BY <1>5, <1>6, <1>8, ParentedAllIn
<1> HIDE DEF parented
<1>10. activated \in W
  BY <1>4, <1>8, <1>9, ActivatedAllIn
<1>11. QED
  BY <1>1, <1>3, <1>10 DEF W

LEMMA EmptyWorldGood == EmptyWorld \in Good([s \in Slots |-> 1])
<1> DEFINE w == EmptyWorld
           generation == [s \in Slots |-> 1]
           entity == [h \in {} |-> NoHandle]
<1>1. entity \in [{} -> Entities] /\ generation \in [Slots -> Nat \ {0}]
      /\ << >> \in Seq(Handles)
  OBVIOUS
<1>2. w = World(entity, generation, << >>, {}, 1, FALSE)
  BY DEF EmptyWorld
<1> HIDE DEF w, entity, generation
<1>3. w \in Worlds /\ Occupied(w) = {}
  BY <1>1, <1>2, WorldMade
<1>4. w.generation = generation /\ w.order = << >> /\ w.queue = {}
  BY <1>2 DEF World
<1>5. Placed(w)
  BY <1>3, <1>4 DEF Placed, IsInjective, ToSet
<1>6. Queued(w)
  BY <1>4, FS_EmptySet, LimitsAssumption DEF Queued, LimitsAssumption
<1>7. Owned(w) /\ Linked(w) /\ Parented(w) /\ Acyclic(w)
  BY <1>3, <1>4 DEF Owned, Linked, Parented, Acyclic
<1>8. QED
  BY <1>3, <1>4, <1>5, <1>6, <1>7 DEF Good, Sound, w, generation

-----------------------------------------------------------------------------
(* The removals.                                                            *)

Gone(w) == {h \in Occupied(w) : w.entity[h].pending}

\* The slots of the removed give out later generations, the others the same.
Raises(w, v) ==
  /\ \A s \in Slots : v.generation[s] >= w.generation[s]
  /\ \A h \in Gone(w) : h.generation < v.generation[h.slot]

LEMMA CommitRemovalsGood ==
  ASSUME NEW g, NEW w \in Good(g)
  PROVE  /\ CommitRemovals(w) \in Good(CommitRemovals(w).generation)
         /\ CommitRemovals(w).failed = w.failed
         /\ CommitRemovals(w).generation \in [Slots -> Nat \ {0}]
         /\ Raises(w, CommitRemovals(w))
         /\ CommitRemovals(w).queue = w.queue
         /\ \A h : Resolvable(CommitRemovals(w), h) =>
              /\ Resolvable(w, h)
              /\ SameTiming(w.entity[h], CommitRemovals(w).entity[h])
<1> DEFINE D == Occupied(w)
           gone == Gone(w)
           mine(p) == {c \in gone : w.entity[c].parent = p}
           unlinked(p) == Kept(w.entity[p].children, ToSet(w.entity[p].children) \ mine(p))
           entity == [h \in D \ gone |-> [w.entity[h] EXCEPT !.children = unlinked(h)]]
           generation == [s \in Slots |-> IF \E h \in gone : h.slot = s
                                          THEN w.generation[s] + 1 ELSE w.generation[s]]
           order == Kept(w.order, D \ gone)
           v == World(entity, generation, order, w.queue, w.next, w.failed)
<1>1. CommitRemovals(w) = v
  BY DEF CommitRemovals, Gone
<1>2. w \in Worlds /\ w.generation = g /\ Sound(w)
  BY DEF Good
<1>3. /\ D \subseteq Handles /\ w.entity \in [D -> Entities]
      /\ w.generation \in [Slots -> Nat \ {0}] /\ w.order \in Seq(Handles)
      /\ w.queue \subseteq Events /\ w.next \in Nat /\ w.failed \in BOOLEAN
  BY <1>2, WorldParts
<1>4. gone \subseteq D /\ \A h \in D : Resolvable(w, h) <=> h \notin gone
  BY DEF Gone, Resolvable
<1>5. \A p \in D : /\ w.entity[p].children \in Seq(Handles)
                   /\ IsInjective(w.entity[p].children)
                   /\ ToSet(w.entity[p].children) = {h \in D : w.entity[h].parent = p}
  BY <1>2, <1>3 DEF Sound, Linked, Entities
<1> HIDE DEF D, gone
<1>6. ASSUME NEW p \in D
      PROVE  /\ unlinked(p) \in Seq(Handles) /\ IsInjective(unlinked(p))
             /\ ToSet(unlinked(p)) = {h \in D \ gone : w.entity[h].parent = p}
  <2>1. PICK S : S = ToSet(w.entity[p].children) \ mine(p)
    OBVIOUS
  <2>2. PICK s \in Seq(Handles) : s = w.entity[p].children
    BY <1>5
  <2>3. /\ Kept(s, S) \in Seq(Handles) /\ ToSet(Kept(s, S)) = ToSet(s) \cap S
        /\ IsInjective(s) => IsInjective(Kept(s, S))
    BY KeptFacts
  <2>4. unlinked(p) = Kept(s, S)
    BY <2>1, <2>2
  <2>5. ToSet(s) \cap S = {h \in D \ gone : w.entity[h].parent = p}
    BY <1>4, <1>5, <2>1, <2>2
  <2>6. QED
    BY <1>5, <2>2, <2>3, <2>4, <2>5
<1> HIDE DEF unlinked
<1>7. \A h \in D \ gone :
        /\ entity[h] \in Entities /\ entity[h].pending = w.entity[h].pending
        /\ entity[h].parent = w.entity[h].parent
        /\ entity[h].children = unlinked(h)
        /\ SameTiming(w.entity[h], entity[h])
  <2>1. TAKE h \in D \ gone
  <2>2. w.entity[h] \in Entities /\ unlinked(h) \in Seq(Handles)
    BY <1>3, <1>6
  <2>3. entity[h] = [w.entity[h] EXCEPT !.children = unlinked(h)]
    OBVIOUS
  <2> HIDE DEF entity
  <2>4. QED
    BY <2>2, <2>3 DEF Entities, SameTiming
<1>8. entity \in [D \ gone -> Entities]
  BY <1>7
<1> HIDE DEF entity
<1>9. generation \in [Slots -> Nat \ {0}]
  BY <1>3
<1>10. /\ order \in Seq(Handles)
       /\ ToSet(order) = ToSet(w.order) \cap (D \ gone)
       /\ IsInjective(w.order) => IsInjective(order)
  <2>1. PICK S : S = D \ gone
    OBVIOUS
  <2>2. order = Kept(w.order, S)
    BY <2>1
  <2> HIDE DEF order
  <2>3. QED
    BY <1>3, <2>1, <2>2, KeptFacts
<1>11. \A s \in Slots : /\ generation[s] >= w.generation[s]
                        /\ (\A h \in gone : h.slot # s)
                             => generation[s] = w.generation[s]
                        /\ (\E h \in gone : h.slot = s)
                             => generation[s] = w.generation[s] + 1
  BY <1>3
<1> HIDE DEF generation, order
<1>12. /\ v.entity = entity /\ v.generation = generation /\ v.order = order
       /\ v.queue = w.queue /\ v.next = w.next /\ v.failed = w.failed
       /\ v = World(v.entity, v.generation, v.order, v.queue, v.next, v.failed)
  BY DEF World
<1> HIDE DEF v
<1>13. v \in Worlds /\ Occupied(v) = D \ gone
  <2>1. /\ v.entity \in [D \ gone -> Entities] /\ v.generation \in [Slots -> Nat \ {0}]
        /\ v.order \in Seq(Handles) /\ v.queue \subseteq Events /\ v.next \in Nat
        /\ v.failed \in BOOLEAN /\ D \ gone \subseteq Handles
    BY <1>3, <1>8, <1>9, <1>10, <1>12
  <2>2. QED
    BY <1>12, <2>1, WorldIs
<1>14. \A h \in D : h \in Handles /\ w.generation[h.slot] = h.generation
  BY <1>2, <1>3 DEF Sound, Placed, D
<1>15. Placed(v)
  <2>1. ASSUME NEW h \in D \ gone PROVE v.generation[h.slot] = h.generation
    <3>1. ASSUME NEW i \in gone, i.slot = h.slot PROVE FALSE
      <4>1. i = h
        BY <1>4, <1>14, <3>1 DEF Handles
      <4>2. QED
        BY <4>1
    <3>2. h.slot \in Slots
      BY <1>14 DEF Handles
    <3>3. QED
      BY <1>11, <1>12, <1>14, <3>1, <3>2
  <2>2. IsInjective(order) /\ ToSet(order) = D \ gone
    BY <1>2, <1>10 DEF Sound, Placed, D
  <2>3. QED
    BY <1>12, <1>13, <2>1, <2>2 DEF Placed
<1>16. \A h : Resolvable(w, h) => Resolvable(v, h)
  <2>1. TAKE h
  <2>2. HAVE Resolvable(w, h)
  <2>3. h \in D \ gone /\ ~w.entity[h].pending
    BY <1>4, <2>2 DEF Resolvable, D
  <2>4. QED
    BY <1>7, <1>12, <1>13, <2>3 DEF Resolvable
<1>17. Queued(v) /\ Owned(v)
  BY <1>2, <1>12, <1>16 DEF Sound, Queued, Owned
<1>18. Linked(v)
  <2>1. SUFFICES ASSUME NEW p \in D \ gone
                 PROVE  /\ IsInjective(v.entity[p].children)
                        /\ ToSet(v.entity[p].children) =
                             {h \in D \ gone : v.entity[h].parent = p}
    BY <1>13 DEF Linked
  <2>2. {h \in D \ gone : v.entity[h].parent = p} =
        {h \in D \ gone : w.entity[h].parent = p}
    BY <1>7, <1>12
  <2>3. QED
    BY <1>6, <1>7, <1>12, <2>2
<1>19. Parented(v)
  <2>1. SUFFICES ASSUME NEW h \in D \ gone
                 PROVE  /\ v.entity[h].parent \in (D \ gone) \cup {NoHandle}
                        /\ Resolvable(v, h) /\ v.entity[h].parent # NoHandle
                             => Resolvable(v, v.entity[h].parent)
    BY <1>13 DEF Parented
  <2>2. v.entity[h].parent = w.entity[h].parent
    BY <1>7, <1>12
  <2>3. CASE w.entity[h].parent = NoHandle
    BY <2>2, <2>3
  <2>4. CASE w.entity[h].parent # NoHandle
    <3>1. Resolvable(w, w.entity[h].parent) /\ w.entity[h].parent \in D
      BY <1>2, <1>4, <2>4 DEF Sound, Parented, D
    <3>2. QED
      BY <1>4, <1>16, <2>2, <3>1
  <2>5. QED
    BY <2>3, <2>4
<1>20. Acyclic(v)
  <2>1. SUFFICES ASSUME NEW S \in SUBSET (D \ gone), S # {},
                        \A h \in S : v.entity[h].parent \in S
                 PROVE  FALSE
    BY <1>13 DEF Acyclic
  <2>2. S \in SUBSET D /\ \A h \in S : w.entity[h].parent \in S
    BY <1>7, <1>12, <2>1
  <2>3. QED
    BY <1>2, <2>1, <2>2 DEF Sound, Acyclic, D
<1>21. v \in Good(v.generation)
  BY <1>13, <1>15, <1>17, <1>18, <1>19, <1>20 DEF Good, Sound
<1>22. Raises(w, v)
  <2>1. ASSUME NEW h \in gone PROVE h.generation < v.generation[h.slot]
    <3>1. /\ h.slot \in Slots /\ h.generation \in Nat
          /\ w.generation[h.slot] = h.generation
      BY <1>4, <1>14 DEF Handles
    <3>2. generation[h.slot] = w.generation[h.slot] + 1
      BY <1>11, <3>1
    <3>3. QED
      BY <1>12, <3>1, <3>2
  <2>2. \A s \in Slots : v.generation[s] >= w.generation[s]
    BY <1>11, <1>12
  <2>3. QED
    BY <2>1, <2>2 DEF Raises, gone
<1>23. \A h : Resolvable(v, h) => /\ Resolvable(w, h)
                                  /\ SameTiming(w.entity[h], v.entity[h])
  BY <1>4, <1>7, <1>12, <1>13 DEF Resolvable
<1>24. QED
  BY <1>1, <1>9, <1>12, <1>21, <1>22, <1>23

-----------------------------------------------------------------------------
(* The inductive invariant.                                                 *)

\* Where a phase may stand, and how many phases are left to it.
StageInv ==
  /\ tick \in 0..MaxTick
  /\ phase \in {"idle", "commands", "drain"} /\ service \in BOOLEAN
  /\ restart \in {"none", "remove", "removed", "respawn", "lost"}
  /\ restart = "remove" => ~Idle
  /\ restart = "removed" => Idle
  /\ revision \in 1..MaxPhases + 1
  /\ restart \in {"removed", "respawn"} => revision <= MaxPhases
  /\ ~Idle /\ restart # "respawn" => revision < MaxPhases
  /\ serviced \in 0..MaxEventsPerTick
  /\ phase # "drain" => serviced = 0

\* The world and the state it may go back to are sound, with the same slots;
\* whatever was removed belongs to an earlier generation of its slot.
WorldInv ==
  /\ start = [world |-> start.world, tick |-> start.tick]
  /\ start.tick \in 0..MaxTick
  /\ Idle => world = start.world /\ tick = start.tick
  /\ world \in Good(world.generation) /\ ~world.failed
  /\ start.world \in Good(world.generation) /\ ~start.world.failed
  /\ \A h \in dead : h \in Handles /\ h.generation < world.generation[h.slot]

LEMMA HeldType ==
  ASSUME world \in Worlds
  PROVE  Held \subseteq Handles
<1> DEFINE S == {world.generation[s] : s \in Slots}
<1>1. MaxEntities \in Nat \ {0} /\ world.generation \in [Slots -> Nat \ {0}]
  BY LimitsAssumption, WorldParts DEF LimitsAssumption
<1>2. \A i \in 1..MaxEntities : world.generation[i] \in Nat
  BY <1>1 DEF Slots
<1>3. PICK b \in Nat : \A i \in 1..MaxEntities : world.generation[i] <= b
  <2>1. PICK f : f = world.generation
    OBVIOUS
  <2>2. \E b \in Nat : \A i \in 1..MaxEntities : f[i] <= b
    BY <1>1, <1>2, <2>1, BoundExists
  <2>3. QED
    BY <2>1, <2>2
<1>4. S \subseteq Nat /\ S # {} /\ \A x \in S : x <= b
  BY <1>1, <1>2, <1>3 DEF Slots
<1> HIDE DEF S
<1>5. PICK m \in Nat : m = Max(S)
  BY <1>4, MaxExists
<1>6. Held = {[slot |-> s, generation |-> i] : s \in Slots, i \in 1..m}
  BY <1>5 DEF Held, S
<1>7. QED
  BY <1>6 DEF Handles

LEMMA InputRecordType ==
  ASSUME NEW i \in Inputs, NEW h \in Handles
  PROVE  /\ InputRecord(i, h) \in Events
         /\ InputRecord(i, h).caller = NoHandle
<1>1. /\ i.target \in Words /\ i.input \in Words /\ i.text \in Words
      /\ i.units \in Nat /\ NoName \in Words
      /\ h \in HandleOrNone /\ NoHandle \in HandleOrNone
  BY MapAssumption DEF MapAssumption, Words, HandleOrNone
<1> DEFINE target == IF i.target = NoName THEN h ELSE NoHandle
<1>2. InputRecord(i, h) = Event(target, i.target, i.input, i.text, i.units, h, NoHandle)
  BY DEF InputRecord
<1>3. target \in HandleOrNone
  BY <1>1
<1> HIDE DEF target, Words, HandleOrNone
<1>4. QED
  BY <1>1, <1>2, <1>3 DEF Event, Events

LEMMA OfNowType ==
  ASSUME NEW q \in Events
  PROVE  OfNow(q) \in Events
<1> DEFINE kept(h) == IF Resolvable(world, h) THEN h ELSE NoHandle
<1>1. /\ kept(q.activator) \in HandleOrNone /\ kept(q.caller) \in HandleOrNone
  BY DEF Events, HandleOrNone
<1>2. OfNow(q) = [q EXCEPT !.activator = kept(q.activator),
                           !.caller = kept(q.caller)]
  BY DEF OfNow
<1> HIDE DEF kept
<1>3. QED
  BY <1>1, <1>2 DEF Events

LEMMA OutcomeKeepsWorld ==
  ASSUME StageInv, WorldInv, ~Idle, NEW w \in Good(world.generation), Outcome(w),
         phase = "drain" => w.failed \/ serviced < MaxEventsPerTick
  PROVE  StageInv' /\ WorldInv'
<1>0. MaxEventsPerTick \in Nat /\ MaxPhases \in Nat /\ MaxTick \in Nat
  BY LimitsAssumption DEF LimitsAssumption
<1>1. CASE w.failed
  <2>1. /\ world' = start.world /\ tick' = start.tick /\ phase' = "idle"
        /\ service' = TRUE /\ serviced' = 0
        /\ restart' = IF restart = "none" THEN "none" ELSE "lost"
        /\ revision' = revision /\ start' = start /\ dead' = dead
    BY <1>1 DEF Outcome, RollBack, Leave
  <2>2. start.world.generation = world.generation
    BY DEF WorldInv, Good
  <2>3. StageInv'
    BY <1>0, <2>1 DEF StageInv, WorldInv, Idle
  <2>4. WorldInv'
    BY <2>1, <2>2 DEF WorldInv, Idle
  <2>5. QED
    BY <2>3, <2>4
<1>2. CASE ~w.failed
  <2>1. /\ world' = w /\ tick' = tick /\ phase' = phase /\ service' = service
        /\ serviced' = IF phase = "drain" THEN serviced + 1 ELSE serviced
        /\ restart' = restart /\ revision' = revision /\ start' = start
        /\ dead' = dead
    BY <1>2 DEF Outcome
  <2>2. w.generation = world.generation
    BY DEF Good
  <2>3. StageInv'
    BY <1>0, <1>2, <2>1 DEF StageInv, Idle
  <2>4. WorldInv'
    BY <1>2, <2>1, <2>2 DEF WorldInv, Idle
  <2>5. QED
    BY <2>3, <2>4
<1>3. QED
  BY <1>1, <1>2

LEMMA ClearedGood ==
  ASSUME NEW g, NEW w \in Good(g)
  PROVE  Cleared(w) \in Good(g) /\ Cleared(w).failed = w.failed
<1>1. PICK queue : queue = {}
  OBVIOUS
<1>2. w \in Worlds
  BY DEF Good
<1>3. Cleared(w) = [w EXCEPT !.queue = queue]
  <2>1. [w EXCEPT !.queue = queue] =
          World(w.entity, w.generation, w.order, queue, w.next, w.failed)
    BY <1>2 DEF Worlds, World
  <2>2. QED
    BY <1>1, <2>1 DEF Cleared
<1>4. queue \subseteq w.queue
  BY <1>1
<1>5. QED
  BY <1>3, <1>4, FewerEventsGood

\* An operation of a phase finds a sound world and leaves one.
LEMMA OperationSound ==
  ASSUME \/ Spawn \/ Input \/ QueueInput \/ RemoveEntity \/ ChangeParent
         \/ EmitOutput \/ SetTargetname \/ ServiceEvent \/ RestartRemovals
         \/ RestartSpawn,
         StageInv, WorldInv
  PROVE  \E w \in Good(world.generation) :
           /\ ~Idle /\ Outcome(w)
           /\ phase = "drain" => w.failed \/ serviced < MaxEventsPerTick
<1> DEFINE g == world.generation
<1>1. world \in Good(g) /\ world \in Worlds
  BY DEF WorldInv, Good
<1>2. tick \in Nat
  BY LimitsAssumption DEF StageInv, LimitsAssumption
<1>3. Held \subseteq Handles
  BY <1>1, HeldType
<1> HIDE DEF g
<1>4. ASSUME NEW w \in Good(g), NEW limit, Commanded(w, limit)
      PROVE  \E v \in Good(g) :
               /\ ~Idle /\ Outcome(v)
               /\ phase = "drain" => v.failed \/ serviced < MaxEventsPerTick
  BY <1>4 DEF Commanded, Idle
<1>5. CASE Spawn
  <2>1. PICK d \in Spawnable : Command(SpawnOne(world, d))
    BY <1>5 DEF Spawn
  <2>2. SpawnOne(world, d) \in Good(g)
    BY <1>1, <1>2, SpawnOneGood, MapAssumption DEF MapAssumption
  <2>3. QED
    BY <1>4, <2>1, <2>2 DEF Command, g
<1>6. CASE Input
  <2>1. PICK i \in Inputs, h \in Held : Command(DispatchRecord(world, InputRecord(i, h)))
    BY <1>6 DEF Input
  <2>2. DispatchRecord(world, InputRecord(i, h)) \in Good(g)
    BY <1>1, <1>2, <1>3, InputRecordType, DispatchRecordGood
  <2>3. QED
    BY <1>4, <2>1, <2>2 DEF Command, g
<1>7. CASE QueueInput
  <2>1. PICK i \in Inputs, h \in Held, delay \in Delays :
          Commanded(ScheduleEvent(world, InputRecord(i, h), delay),
                    IF service THEN MaxCommands ELSE 1)
    BY <1>7 DEF QueueInput
  <2>2. ScheduleEvent(world, InputRecord(i, h), delay) \in Good(g)
    <3>1. delay \in Nat
      BY MapAssumption DEF MapAssumption
    <3>2. InputRecord(i, h) \in Events /\ InputRecord(i, h).caller = NoHandle
      BY <1>3, InputRecordType
    <3>3. QED
      BY <1>1, <1>2, <3>1, <3>2, ScheduleGood
  <2>3. QED
    BY <1>4, <2>1, <2>2 DEF g
<1>8. CASE RemoveEntity
  <2>1. PICK h \in Held : Command(MarkRemoval(world, h))
    BY <1>8 DEF RemoveEntity
  <2>2. MarkRemoval(world, h) \in Good(g)
    BY <1>1, MarkRemovalGood DEF Removes
  <2>3. QED
    BY <1>4, <2>1, <2>2 DEF Command, g
<1>9. CASE ChangeParent
  <2>1. PICK child \in Held, parent \in Held \cup {NoHandle} :
          Command(SetParent(world, child, parent))
    BY <1>9 DEF ChangeParent
  <2>2. SetParent(world, child, parent) \in Good(g)
    BY <1>1, SetParentStays DEF Stays
  <2>3. QED
    BY <1>4, <2>1, <2>2 DEF Command, g
<1>10. CASE EmitOutput
  <2>1. PICK h \in Held, output \in Emitted :
          Command(FireOutput(world, h, output, h, h))
    BY <1>10 DEF EmitOutput
  <2>2. FireOutput(world, h, output, h, h) \in Good(g)
    <3>1. h \in HandleOrNone
      BY <1>3 DEF HandleOrNone
    <3>2. QED
      BY <1>1, <1>2, <3>1, FireOutputStays DEF Stays
  <2>3. QED
    BY <1>4, <2>1, <2>2 DEF Command, g
<1>11. CASE SetTargetname
  <2>1. PICK h \in Held, name \in Names :
          Command(IF Resolvable(world, h)
                  THEN [world EXCEPT !.entity[h].name = name] ELSE world)
    BY <1>11 DEF SetTargetname
  <2> DEFINE named == [world EXCEPT !.entity[h].name = name]
             w == IF Resolvable(world, h) THEN named ELSE world
  <2>2. ASSUME Resolvable(world, h) PROVE named \in Good(g)
    <3> DEFINE e == [world.entity[h] EXCEPT !.name = name]
    <3>1. h \in Occupied(world)
      BY <2>2 DEF Resolvable
    <3>2. world.entity[h] \in Entities
      BY <1>1, <3>1, EntityParts
    <3>3. name \in Words
      BY MapAssumption DEF MapAssumption, Words
    <3>4. /\ e \in Entities /\ e.pending = world.entity[h].pending
          /\ e.parent = world.entity[h].parent
          /\ e.children = world.entity[h].children
      BY <3>2, <3>3 DEF Entities
    <3>5. named = WithEntity(world, h, e)
      BY DEF WithEntity
    <3> HIDE DEF named, e
    <3>6. QED
      BY <1>1, <3>1, <3>4, <3>5, FieldStays DEF Stays
  <2>3. w \in Good(g)
    BY <1>1, <2>2
  <2>4. Command(w)
    BY <2>1
  <2> HIDE DEF w
  <2>5. QED
    BY <1>4, <2>3, <2>4 DEF Command, g
<1>12. CASE ServiceEvent
  <2> DEFINE v == [world EXCEPT !.queue = @ \ {FirstEvent}]
             served == DispatchRecord(v, OfNow(FirstEvent))
             w == IF serviced >= MaxEventsPerTick THEN Fail(world) ELSE served
  <2>1. phase = "drain" /\ DueEvents # {} /\ Outcome(w)
    BY <1>12 DEF ServiceEvent
  <2>2. DueEvents \subseteq world.queue
    BY DEF DueEvents
  <2>3. FirstEvent \in DueEvents
    <3>1. PICK S : S = DueEvents
      OBVIOUS
    <3>2. S \subseteq Events /\ S # {} /\ \A q, r \in S : q.seq = r.seq => q = r
      BY <1>1, <2>1, <2>2, <3>1, WorldParts DEF Good, Sound, Queued
    <3>3. \E q \in S : \A r \in S : r = q \/ Before(q, r)
      BY <3>2, FirstExists
    <3>4. (CHOOSE q \in S : \A r \in S : r = q \/ Before(q, r)) \in S
      BY <3>3
    <3>5. QED
      BY <3>1, <3>4 DEF FirstEvent
  <2>4. v \in Good(g)
    <3>1. PICK queue : queue = world.queue \ {FirstEvent}
      OBVIOUS
    <3>2. v = [world EXCEPT !.queue = queue]
      BY <3>1
    <3> HIDE DEF v
    <3>3. QED
      BY <1>1, <3>1, <3>2, FewerEventsGood
  <2>5. OfNow(FirstEvent) \in Events
    <3>1. FirstEvent \in Events
      BY <1>1, <2>2, <2>3, WorldParts
    <3>2. QED
      BY <3>1, OfNowType
  <2> HIDE DEF v
  <2>6. served \in Good(g)
    BY <1>2, <2>4, <2>5, DispatchRecordGood
  <2> HIDE DEF served
  <2>7. w \in Good(g)
    BY <1>1, <2>6, FailGood
  <2>8. w.failed \/ serviced < MaxEventsPerTick
    <3>1. MaxEventsPerTick \in Nat /\ serviced \in Nat
      BY LimitsAssumption DEF LimitsAssumption, StageInv
    <3>2. Fail(world).failed
      BY <1>1, FailGood
    <3>3. CASE serviced >= MaxEventsPerTick
      BY <3>2, <3>3
    <3>4. QED
      BY <3>1, <3>3
  <2> HIDE DEF w
  <2>9. QED
    BY <2>1, <2>7, <2>8 DEF Idle, g
<1>13. CASE RestartRemovals
  <2> DEFINE removals == Kept(world.order, {h \in Occupied(world) :
                           /\ Resolvable(world, h)
                           /\ ~Preserved(world.entity[h].class)})
             w == MarkedAll(world, removals)
  <2>1. Commanded(w, 1)
    BY <1>13 DEF RestartRemovals, MarkedAll
  <2>2. removals \in Seq(Handles)
    BY <1>1, WorldParts, KeptFacts
  <2> HIDE DEF removals
  <2>3. \A v \in Good(g), h \in Handles : MarkRemoval(v, h) \in Good(g)
    BY MarkRemovalGood DEF Removes
  <2>4. w \in Good(g)
    BY <1>1, <2>2, <2>3, MarkedAllIn
  <2> HIDE DEF w
  <2>5. QED
    BY <1>4, <2>1, <2>4 DEF g
<1>14. CASE RestartSpawn
  <2> DEFINE definitions == Kept(MapDefinitions,
                              {d \in ToSet(MapDefinitions) : ~Preserved(d.class)})
             w == SpawnMap(world, definitions)
  <2>1. Commanded(w, 1)
    BY <1>14 DEF RestartSpawn
  <2>2. definitions \in Seq(Definitions)
    BY MapAssumption, KeptFacts DEF MapAssumption
  <2> HIDE DEF definitions
  <2>3. w \in Good(g)
    BY <1>1, <1>2, <2>2, SpawnMapGood
  <2> HIDE DEF w
  <2>4. QED
    BY <1>4, <2>1, <2>3 DEF g
<1>15. QED
  BY <1>5, <1>6, <1>7, <1>8, <1>9, <1>10, <1>11, <1>12, <1>13, <1>14 DEF g

LEMMA InitSound == Init => StageInv /\ WorldInv
<1>1. SUFFICES ASSUME Init PROVE StageInv /\ WorldInv
  OBVIOUS
<1>2. /\ MaxEventsPerTick \in Nat /\ MaxPhases \in Nat /\ MaxTick \in Nat
      /\ MapDefinitions \in Seq(Definitions)
  BY LimitsAssumption, MapAssumption DEF LimitsAssumption, MapAssumption
<1>3. /\ tick = 0 /\ revision = 1 /\ phase = "idle" /\ service = TRUE
      /\ serviced = 0 /\ restart = "none" /\ dead = {}
      /\ start = [world |-> world, tick |-> 0] /\ ~world.failed
      /\ world = SpawnMap(EmptyWorld, MapDefinitions)
  BY <1>1 DEF Init
<1>4. world \in Good([s \in Slots |-> 1])
  BY <1>2, <1>3, EmptyWorldGood, SpawnMapGood
<1>5. world \in Good(world.generation)
  BY <1>4 DEF Good
<1>6. StageInv
  BY <1>2, <1>3 DEF StageInv, Idle
<1>7. WorldInv
  BY <1>2, <1>3, <1>5 DEF WorldInv, Idle
<1>8. QED
  BY <1>6, <1>7

LEMMA BeginKeepsWorld ==
  ASSUME StageInv, WorldInv, Idle, NEW w \in Good(world.generation), ~w.failed,
         NEW now \in tick..MaxTick, NEW serviceEvents \in BOOLEAN,
         Begin(w, now, serviceEvents), restart' \in {"none", "remove", "respawn"},
         restart' # "respawn" => revision < MaxPhases,
         revision <= MaxPhases
  PROVE  StageInv' /\ WorldInv'
<1>1. /\ start' = [world |-> w, tick |-> tick] /\ world' = w /\ tick' = now
      /\ phase' = "commands" /\ service' = serviceEvents /\ serviced' = 0
      /\ revision' = revision /\ dead' = dead
  BY DEF Begin
<1>2. MaxEventsPerTick \in Nat /\ MaxPhases \in Nat /\ MaxTick \in Nat
  BY LimitsAssumption DEF LimitsAssumption
<1>3. w.generation = world.generation
  BY DEF Good
<1>4. StageInv'
  BY <1>1, <1>2 DEF StageInv, Idle
<1>5. WorldInv'
  BY <1>1, <1>2, <1>3 DEF WorldInv, StageInv, Idle
<1>6. QED
  BY <1>4, <1>5

LEMMA CommitKeepsWorld ==
  ASSUME StageInv, WorldInv, CommitPhase
  PROVE  StageInv' /\ WorldInv'
<1> DEFINE w == CommitRemovals(world)
<1>1. /\ phase = "drain" /\ world' = w /\ dead' = dead \cup Gone(world)
      /\ revision' = revision + 1 /\ start' = [world |-> world', tick |-> tick]
      /\ phase' = "idle" /\ service' = TRUE /\ serviced' = 0 /\ tick' = tick
      /\ restart' = CASE restart = "remove"  -> "removed"
                      [] restart = "respawn" -> "none"
                      [] OTHER               -> restart
  BY DEF CommitPhase, Leave, Gone
<1>2. world \in Good(world.generation) /\ world \in Worlds
  BY DEF WorldInv, Good
<1>3. /\ w \in Good(w.generation) /\ w.failed = world.failed
      /\ w.generation \in [Slots -> Nat \ {0}] /\ Raises(world, w)
  BY <1>2, CommitRemovalsGood
<1> HIDE DEF w
<1>4. MaxEventsPerTick \in Nat /\ MaxPhases \in Nat /\ MaxTick \in Nat
  BY LimitsAssumption DEF LimitsAssumption
<1>5. StageInv'
  <2>1. restart \in {"none", "remove", "respawn", "lost"}
    BY <1>1 DEF StageInv, Idle
  <2>2. restart' \in {"removed", "none", "lost"}
        /\ (restart' = "removed" => restart = "remove")
    BY <1>1, <2>1
  <2>3. revision' \in 1..MaxPhases + 1 /\ (restart = "remove" => revision' <= MaxPhases)
    BY <1>1, <1>4, <2>1 DEF StageInv, Idle
  <2>4. QED
    BY <1>1, <1>4, <2>2, <2>3 DEF StageInv, Idle
<1>6. \A h \in dead' : h \in Handles /\ h.generation < w.generation[h.slot]
  <2>1. world.generation \in [Slots -> Nat \ {0}]
    BY <1>2, WorldParts
  <2>2. ASSUME NEW h \in dead
        PROVE  h \in Handles /\ h.generation < w.generation[h.slot]
    <3>1. /\ h \in Handles /\ h.slot \in Slots /\ h.generation \in Nat
          /\ h.generation < world.generation[h.slot]
      BY DEF WorldInv, Handles
    <3>2. w.generation[h.slot] >= world.generation[h.slot]
      BY <1>3, <3>1 DEF Raises
    <3>3. w.generation[h.slot] \in Nat /\ world.generation[h.slot] \in Nat
      BY <1>3, <2>1, <3>1
    <3>4. QED
      BY <3>1, <3>2, <3>3
  <2>3. ASSUME NEW h \in Gone(world)
        PROVE  h \in Handles /\ h.generation < w.generation[h.slot]
    BY <1>2, <1>3, WorldParts DEF Raises, Gone
  <2>4. QED
    BY <1>1, <2>2, <2>3
<1>7. WorldInv'
  BY <1>1, <1>3, <1>6 DEF WorldInv, StageInv, Idle
<1>8. QED
  BY <1>5, <1>7

LEMMA StepSound ==
  StageInv /\ WorldInv /\ [Next]_vars => StageInv' /\ WorldInv'
<1>1. SUFFICES ASSUME StageInv, WorldInv, [Next]_vars PROVE StageInv' /\ WorldInv'
  OBVIOUS
<1>2. MaxPhases \in Nat /\ MaxTick \in Nat
  BY LimitsAssumption DEF LimitsAssumption
<1>3. world \in Good(world.generation) /\ ~world.failed
  BY <1>1 DEF WorldInv
<1>4. CASE \/ Spawn \/ Input \/ QueueInput \/ RemoveEntity \/ ChangeParent
           \/ EmitOutput \/ SetTargetname \/ ServiceEvent \/ RestartRemovals
           \/ RestartSpawn
  <2>1. PICK w \in Good(world.generation) :
          /\ ~Idle /\ Outcome(w)
          /\ phase = "drain" => w.failed \/ serviced < MaxEventsPerTick
    BY <1>1, <1>4, OperationSound
  <2>2. QED
    BY <1>1, <2>1, OutcomeKeepsWorld
<1>5. CASE BeginPhase
  <2>1. PICK now \in tick..MaxTick, serviceEvents \in BOOLEAN :
          Begin(world, now, serviceEvents)
    BY <1>5 DEF BeginPhase
  <2>2. Idle /\ restart' = "none" /\ revision < MaxPhases /\ revision <= MaxPhases
    BY <1>1, <1>2, <1>5 DEF BeginPhase, StageInv
  <2>3. QED
    BY <1>1, <1>3, <2>1, <2>2, BeginKeepsWorld
<1>6. CASE BeginRestart
  <2>1. PICK now \in tick..MaxTick : Begin(Cleared(world), now, TRUE)
    BY <1>6 DEF BeginRestart
  <2>2. Idle /\ restart' = "remove" /\ revision < MaxPhases /\ revision <= MaxPhases
    BY <1>1, <1>2, <1>6 DEF BeginRestart, StageInv
  <2>3. Cleared(world) \in Good(world.generation) /\ ~Cleared(world).failed
    BY <1>3, ClearedGood
  <2>4. QED
    BY <1>1, <2>1, <2>2, <2>3, BeginKeepsWorld
<1>7. CASE BeginRespawn
  <2>0. tick \in tick..MaxTick
    BY <1>1, <1>2 DEF StageInv
  <2>1. Begin(Cleared(world), tick, TRUE)
    BY <1>7 DEF BeginRespawn
  <2>2. Idle /\ restart' = "respawn" /\ revision <= MaxPhases
    BY <1>1, <1>7 DEF BeginRespawn, StageInv
  <2>3. Cleared(world) \in Good(world.generation) /\ ~Cleared(world).failed
    BY <1>3, ClearedGood
  <2>4. QED
    BY <1>1, <2>0, <2>1, <2>2, <2>3, BeginKeepsWorld
<1>8. CASE EndCommands
  <2>1. /\ phase = "commands" /\ phase' = "drain" /\ tick' = tick
        /\ revision' = revision /\ world' = world /\ start' = start
        /\ service' = service /\ serviced' = serviced /\ restart' = restart
        /\ dead' = dead
    BY <1>8 DEF EndCommands
  <2>2. StageInv'
    BY <1>1, <2>1 DEF StageInv, Idle
  <2>3. WorldInv'
    BY <1>1, <2>1 DEF WorldInv, Idle
  <2>4. QED
    BY <2>2, <2>3
<1>9. CASE CommitPhase
  BY <1>1, <1>9, CommitKeepsWorld
<1>10. CASE UNCHANGED vars
  BY <1>1, <1>10 DEF vars, StageInv, WorldInv, Idle
<1>11. QED
  BY <1>1, <1>4, <1>5, <1>6, <1>7, <1>8, <1>9, <1>10 DEF Next

\* creation_order is as long as there are entities.
LEMMA OrderCounts ==
  ASSUME NEW w \in Worlds, Placed(w)
  PROVE  Len(w.order) = Cardinality(Occupied(w))
<1> DEFINE D == Occupied(w)
<1>1. PICK s \in Seq(Handles) : s = w.order
  BY WorldParts
<1>2. Len(s) \in Nat /\ DOMAIN s = 1..Len(s)
  BY LenProperties
<1>3. IsInjective(s) /\ ToSet(s) = D
  BY <1>1 DEF Placed
<1> HIDE DEF D
<1>4. /\ s \in [1..Len(s) -> D] /\ \A d \in D : \E i \in 1..Len(s) : s[i] = d
      /\ \A i, j \in 1..Len(s) : s[i] = s[j] => i = j
  BY <1>2, <1>3 DEF ToSet, IsInjective
<1>5. s \in Bijection(1..Len(s), D)
  BY <1>4, Fun_IsBij
<1>6. ExistsBijection(1..Len(s), D)
  BY <1>5 DEF ExistsBijection
<1>7. Cardinality(D) = Len(s)
  BY <1>2, <1>6, FS_CountingElements
<1>8. QED
  BY <1>1, <1>7 DEF D

LEMMA SoundIsTyped == StageInv /\ WorldInv => TypeOK
<1>1. SUFFICES ASSUME StageInv, WorldInv PROVE TypeOK
  OBVIOUS
<1>2. world \in Worlds /\ Sound(world) /\ ~world.failed
  BY <1>1 DEF WorldInv, Good
<1>3. Occupied(world) \subseteq Handles
  BY <1>2, WorldParts
<1>4. ASSUME NEW g \in Occupied(world), NEW h \in Occupied(world), g.slot = h.slot
      PROVE  g = h
  BY <1>2, <1>3, <1>4 DEF Sound, Placed, Handles
<1>5. ToSet(world.order) = Occupied(world)
      /\ Len(world.order) = Cardinality(Occupied(world))
  BY <1>2, OrderCounts DEF Sound, Placed
<1>6. /\ Cardinality(world.queue) <= MaxQueued
      /\ \A q, r \in world.queue : q.seq = r.seq => q = r
  BY <1>2 DEF Sound, Queued
<1>7. Idle => start = [world |-> world, tick |-> tick]
  BY <1>1 DEF WorldInv
<1>8. QED
  BY <1>1, <1>2, <1>3, <1>4, <1>5, <1>6, <1>7 DEF TypeOK, StageInv

LEMMA SoundIsLinked == WorldInv => LinksSound
<1>1. SUFFICES ASSUME WorldInv PROVE LinksSound
  OBVIOUS
<1>2. world \in Worlds /\ Sound(world)
  BY <1>1 DEF WorldInv, Good
<1>3. ForestSound
  <2>1. \A h \in Occupied(world) :
          LET p == world.entity[h].parent
          IN  /\ p \in Occupied(world) \cup {NoHandle}
              /\ p # NoHandle /\ Resolvable(world, h) => Resolvable(world, p)
    BY <1>2 DEF Sound, Parented
  <2>2. QED
    BY <1>2, <2>1 DEF Sound, Linked, Acyclic, ForestSound
<1>4. dead \cap Occupied(world) = {}
  <2>1. ASSUME NEW h \in dead, h \in Occupied(world) PROVE FALSE
    <3>1. /\ h.generation < world.generation[h.slot] /\ h \in Handles
          /\ world.generation[h.slot] = h.generation
      BY <1>1, <1>2, <2>1 DEF WorldInv, Sound, Placed
    <3>2. QED
      BY <3>1 DEF Handles
  <2>2. QED
    BY <2>1
<1>5. QED
  BY <1>2, <1>3, <1>4 DEF LinksSound, HandlesStayDead, Sound, Owned

THEOREM TypesHold == Spec => []TypeOK
<1>1. QED
  BY InitSound, StepSound, SoundIsTyped, PTL DEF Spec

THEOREM LinksStaySound == Spec => []LinksSound
<1>1. QED
  BY InitSound, StepSound, SoundIsLinked, PTL DEF Spec

-----------------------------------------------------------------------------
(* What each operation does to the timing of entities.                      *)

\* An entity changed in fields that are no links.
LEMMA FieldSteps ==
  ASSUME NEW g, NEW w \in Good(g), NEW h \in Occupied(w), NEW e \in Entities,
         e.pending = w.entity[h].pending, e.parent = w.entity[h].parent,
         e.children = w.entity[h].children, NEW v, v = WithEntity(w, h, e)
  PROVE  /\ Stays(g, w, v) /\ Steps(g, w, v, {h})
         /\ SameTiming(w.entity[h], e) => Steps(g, w, v, {})
         /\ v.queue = w.queue /\ v.failed = w.failed /\ v.entity[h] = e
<1>1. /\ v \in Good(g) /\ \A i : Resolvable(v, i) <=> Resolvable(w, i)
      /\ v.queue = w.queue /\ v.failed = w.failed
      /\ v.entity = [w.entity EXCEPT ![h] = e]
  BY WithEntityGood
<1>2. w.entity \in [Occupied(w) -> Entities]
  BY WorldParts DEF Good
<1>3. \A i \in Occupied(w) : v.entity[i] = IF i = h THEN e ELSE w.entity[i]
  BY <1>1, <1>2
<1>4. \A i, input : Own(v, i, input) = Own(w, i, input)
  BY <1>1 DEF Own
<1>5. Direct(w) => Direct(v)
  BY <1>1 DEF Direct
<1>6. \A i : Resolvable(v, i) /\ i # h => SameTiming(w.entity[i], v.entity[i])
  BY <1>1, <1>3 DEF Resolvable, SameTiming
<1>7. SameTiming(w.entity[h], e) =>
        \A i : Resolvable(v, i) => SameTiming(w.entity[i], v.entity[i])
  BY <1>3, <1>6
<1>8. Frame(w, v, {h}) /\ (SameTiming(w.entity[h], e) => Frame(w, v, {}))
  BY <1>1, <1>4, <1>5, <1>6, <1>7 DEF Frame
<1>9. QED
  BY <1>1, <1>3, <1>8 DEF Steps, Stays

\* Events taken out that no other entity waits for.
Cancels(w, v, h) ==
  /\ v = [w EXCEPT !.queue = v.queue] /\ v.queue \subseteq w.queue
  /\ \A q \in w.queue : q \in v.queue \/ q.target = h \/ q.caller = h

LEMMA CancelSteps ==
  ASSUME NEW g, NEW w \in Good(g), NEW h, NEW v, Cancels(w, v, h)
  PROVE  /\ Stays(g, w, v) /\ Steps(g, w, v, {h})
         /\ v.entity = w.entity /\ v.failed = w.failed
<1>1. /\ v \in Good(g) /\ v.entity = w.entity
      /\ v.failed = w.failed /\ \A i : Resolvable(v, i) <=> Resolvable(w, i)
  <2>1. PICK queue : queue = v.queue
    OBVIOUS
  <2>2. v = [w EXCEPT !.queue = queue] /\ queue \subseteq w.queue
    BY <2>1 DEF Cancels
  <2>3. QED
    BY <2>2, FewerEventsGood
<1>2. ASSUME NEW i, i # h, NEW input PROVE Own(v, i, input) = Own(w, i, input)
  BY <1>1, <1>2 DEF Own, Cancels
<1>3. Direct(w) => Direct(v)
  BY <1>1 DEF Direct, Cancels
<1>4. Frame(w, v, {h})
  BY <1>1, <1>2, <1>3 DEF Frame, SameTiming
<1>5. QED
  BY <1>1, <1>4 DEF Steps, Stays

LEMMA CancelCallerSteps ==
  ASSUME NEW g, NEW w \in Good(g), NEW h
  PROVE  /\ Stays(g, w, CancelCaller(w, h)) /\ Steps(g, w, CancelCaller(w, h), {h})
         /\ CancelCaller(w, h).entity = w.entity
<1> DEFINE queue == {q \in w.queue : ~(/\ q.caller = h
                                        /\ q.callerName = w.entity[h].name)}
<1>1. PICK v : v = CancelCaller(w, h)
  OBVIOUS
<1>2. v = [w EXCEPT !.queue = queue]
  BY <1>1 DEF CancelCaller
<1>3. queue \subseteq w.queue /\ \A q \in w.queue : q \in queue \/ q.caller = h
  OBVIOUS
<1> HIDE DEF queue
<1>4. v.queue = queue
  BY <1>2, <1>3, FewerEventsGood
<1>5. Cancels(w, v, h)
  BY <1>2, <1>3, <1>4 DEF Cancels
<1>6. QED
  BY <1>1, <1>5, CancelSteps

LEMMA CancelDirectSteps ==
  ASSUME NEW g, NEW w \in Good(g), NEW h, NEW input
  PROVE  /\ Stays(g, w, CancelDirect(w, h, input))
         /\ Steps(g, w, CancelDirect(w, h, input), {h})
         /\ CancelDirect(w, h, input).entity = w.entity
         /\ CancelDirect(w, h, input).failed = w.failed
         /\ \A q \in CancelDirect(w, h, input).queue : ~(q.target = h /\ q.input = input)
<1> DEFINE queue == {q \in w.queue : ~(q.target = h /\ q.input = input)}
<1>1. PICK v : v = CancelDirect(w, h, input)
  OBVIOUS
<1>2. v = [w EXCEPT !.queue = queue]
  BY <1>1 DEF CancelDirect
<1>3. queue \subseteq w.queue /\ \A q \in w.queue : q \in queue \/ q.target = h
  OBVIOUS
<1>4. \A q \in queue : ~(q.target = h /\ q.input = input)
  OBVIOUS
<1> HIDE DEF queue
<1>5. v.queue = queue
  BY <1>2, <1>3, FewerEventsGood
<1>6. Cancels(w, v, h)
  BY <1>2, <1>3, <1>5 DEF Cancels
<1>7. QED
  BY <1>1, <1>4, <1>5, <1>6, CancelSteps

\* One event more.
Scheduled(w, v, event, delay) ==
  /\ v.entity = w.entity /\ v.failed = w.failed
  /\ \E q : /\ v.queue = w.queue \cup {q} /\ q.target = event.target
            /\ q.caller = event.caller /\ q.input = event.input
            /\ q.due = tick + TicksOf(delay)

LEMMA ScheduleIs ==
  ASSUME NEW w, NEW event \in Events, NEW delay
  PROVE  \/ ScheduleEvent(w, event, delay) = Fail(w)
         \/ Scheduled(w, ScheduleEvent(w, event, delay), event, delay)
<1> DEFINE name == IF event.caller \in Occupied(w)
                   THEN w.entity[event.caller].name ELSE NoName
           due == tick + TicksOf(delay)
           queued == [event EXCEPT !.due = due, !.seq = w.next, !.callerName = name]
           v == World(w.entity, w.generation, w.order, w.queue \cup {queued},
                      w.next + 1, w.failed)
<1>1. CASE Cardinality(w.queue) >= MaxQueued
  BY <1>1 DEF ScheduleEvent
<1>2. CASE ~(Cardinality(w.queue) >= MaxQueued)
  <2>1. ScheduleEvent(w, event, delay) = v
    BY <1>2 DEF ScheduleEvent
  <2> HIDE DEF name, due
  <2>2. /\ queued.target = event.target /\ queued.caller = event.caller
        /\ queued.input = event.input /\ queued.due = due
    BY DEF Events
  <2> HIDE DEF queued
  <2>3. /\ v.entity = w.entity /\ v.failed = w.failed
        /\ v.queue = w.queue \cup {queued}
    BY DEF World
  <2> HIDE DEF v
  <2>4. QED
    BY <2>1, <2>2, <2>3 DEF Scheduled, due
<1>3. QED
  BY <1>1, <1>2

LEMMA ScheduleSteps ==
  ASSUME NEW g, NEW w \in Good(g), NEW event \in Events, NEW delay \in Nat,
         tick \in Nat,
         event.target = event.caller /\ event.target # NoHandle
           => Resolvable(w, event.target),
         event.target # NoHandle => event.input # "__timer_fire"
  PROVE  /\ Steps(g, w, ScheduleEvent(w, event, delay), {})
         /\ Stays(g, w, ScheduleEvent(w, event, delay))
<1> DEFINE v == ScheduleEvent(w, event, delay)
<1>1. v \in Good(g) /\ v.entity = w.entity /\ Stays(g, w, v)
  BY ScheduleGood DEF Stays
<1>2. v = Fail(w) \/ Scheduled(w, v, event, delay)
  BY ScheduleIs
<1> HIDE DEF v
<1>3. CASE v = Fail(w)
  BY <1>1, <1>3, FailSteps DEF v
<1>4. CASE Scheduled(w, v, event, delay)
  <2>1. PICK q : /\ v.queue = w.queue \cup {q} /\ q.target = event.target
                 /\ q.caller = event.caller /\ q.input = event.input
    BY <1>4 DEF Scheduled
  <2>2. Direct(w) => Direct(v)
    BY <2>1 DEF Direct
  <2>3. ASSUME NEW h, Resolvable(v, h)
        PROVE  /\ Own(v, h, "__timer_fire") = Own(w, h, "__timer_fire")
               /\ Own(w, h, "EnableRefire") \subseteq Own(v, h, "EnableRefire")
    <3>1. h # NoHandle
      BY <1>1, <2>3, WorldParts, NoHandleIsNone DEF Resolvable, Good
    <3>2. QED
      BY <2>1, <3>1 DEF Own
  <2>4. Frame(w, v, {})
    BY <1>1, <2>2, <2>3 DEF Frame, SameTiming, Stays
  <2>5. v.failed = w.failed
    BY <1>4 DEF Scheduled
  <2>6. QED
    BY <1>1, <2>4, <2>5 DEF Steps, v
<1>5. QED
  BY <1>2, <1>3, <1>4

\* Another parent changes no timing.
LEMMA SetParentSteps ==
  ASSUME NEW g, NEW w \in Good(g), NEW child, NEW parent
  PROVE  Steps(g, w, SetParent(w, child, parent), {})
<1> DEFINE v == Reparented(w, child, parent)
<1>1. w \in Worlds /\ Sound(w) /\ SetParent(w, child, parent) \in Good(g)
  BY SetParentStays DEF Good, Stays
<1>2. Steps(g, w, w, {}) /\ Steps(g, w, Fail(w), {})
  BY StepsSelf, FailSteps
<1>3. SetParent(w, child, parent) \in {w, Fail(w), v}
  BY DEF SetParent
<1>4. CASE SetParent(w, child, parent) \in {w, Fail(w)}
  BY <1>2, <1>4
<1>5. CASE SetParent(w, child, parent) = v /\ SetParent(w, child, parent) # w
  <2>1. /\ Resolvable(w, child) /\ parent # child
        /\ parent # NoHandle => Resolvable(w, parent)
    BY <1>5 DEF SetParent
  <2>2. child \in Occupied(w) /\ parent \in Occupied(w) \cup {NoHandle}
    BY <2>1 DEF Resolvable
  <2>3. Relinks(w, v, child, parent)
    BY <1>1, <2>1, <2>2, ReparentedLinks DEF Sound
  <2> HIDE DEF v
  <2>4. v.queue = w.queue /\ v.failed = w.failed
    BY <2>3 DEF Relinks
  <2>5. \A i : Resolvable(v, i) =>
                 Resolvable(w, i) /\ SameTiming(w.entity[i], v.entity[i])
    BY <2>3 DEF Relinks, Resolvable
  <2>6. Frame(w, v, {})
    BY <2>4, <2>5 DEF Frame, Own, Direct
  <2>7. QED
    BY <1>1, <1>5, <2>4, <2>6 DEF Steps
<1>6. QED
  BY <1>3, <1>4, <1>5

\* The actions of an output are addressed by name: no timer's own event.
LEMMA FireOutputSteps ==
  ASSUME NEW g, NEW w \in Good(g), NEW h, NEW output,
         NEW activator \in HandleOrNone, NEW caller \in HandleOrNone,
         tick \in Nat
  PROVE  Steps(g, w, FireOutput(w, h, output, activator, caller), {})
<1> DEFINE e == w.entity[h]
           actions == Fires(e, output)
           o == Spent(e, output)
           v0 == [w EXCEPT !.entity[h].outputs = o]
           all == EnqueuedAll(v0, actions, activator, caller)
<1>1. FireOutput(w, h, output, activator, caller)
        \in {Fail(w)} \cup (IF h \in Occupied(w) THEN {all} ELSE {})
  BY DEF FireOutput, EnqueuedAll, ActionEvent
<1>2. Steps(g, w, Fail(w), {})
  BY FailSteps
<1>3. ASSUME h \in Occupied(w) PROVE Steps(g, w, all, {})
  <2> DEFINE W == {v \in Good(g) : Steps(g, w, v, {})}
             f == [e EXCEPT !.outputs = o]
  <2>1. e \in Entities
    BY <1>3, EntityParts DEF Good
  <2>2. o \in Seq(Actions) /\ actions \in Seq(Actions)
    BY <2>1, FiresType, SpentType
  <2>3. Steps(g, w, v0, {})
    <3> HIDE DEF o
    <3>1. f \in Entities
      BY <2>1, <2>2 DEF Entities
    <3>2. /\ f.pending = e.pending /\ f.parent = e.parent
          /\ f.children = e.children /\ SameTiming(e, f)
      BY <2>1 DEF Entities, SameTiming
    <3>3. v0 = WithEntity(w, h, f)
      BY DEF WithEntity
    <3> HIDE DEF v0, f
    <3>4. QED
      BY <1>3, <3>1, <3>2, <3>3, FieldSteps
  <2> HIDE DEF v0, actions
  <2>4. ASSUME NEW v \in W, NEW a \in Actions
        PROVE  ScheduleEvent(v, ActionEvent(a, activator, caller), a.delay) \in W
    <3>1. a.delay \in Nat
      BY DEF Actions
    <3>2. /\ ActionEvent(a, activator, caller) \in Events
          /\ ActionEvent(a, activator, caller).target = NoHandle
      BY ActionEvents
    <3> DEFINE x == ActionEvent(a, activator, caller)
               d == a.delay
    <3> HIDE DEF x, d
    <3>3. v \in Good(g) /\ Steps(g, w, v, {})
      OBVIOUS
    <3>4. x \in Events /\ d \in Nat /\ x.target = NoHandle
      BY <3>1, <3>2 DEF x, d
    <3>5. Steps(g, v, ScheduleEvent(v, x, d), {})
      BY <3>3, <3>4, ScheduleSteps
    <3>6. Steps(g, w, ScheduleEvent(v, x, d), {} \cup {})
      BY <3>3, <3>5, StepsTrans
    <3>7. ScheduleEvent(v, x, d) \in W
      BY <3>6 DEF Steps
    <3>8. QED
      BY <3>7 DEF x, d
  <2>5. v0 \in W
    BY <2>3 DEF Steps
  <2> HIDE DEF W
  <2>6. all \in W
    BY <2>2, <2>4, <2>5, EnqueuedAllIn
  <2>7. QED
    BY <2>6 DEF W
<1>4. QED
  BY <1>1, <1>2, <1>3

\* An event that an entity queues for itself.
LEMMA ScheduleOwnSteps ==
  ASSUME NEW g, NEW w \in Good(g), NEW event \in Events, NEW delay \in Nat,
         tick \in Nat, Resolvable(w, event.target), event.caller = event.target
  PROVE  /\ Steps(g, w, ScheduleEvent(w, event, delay), {event.target})
         /\ Stays(g, w, ScheduleEvent(w, event, delay))
<1> DEFINE v == ScheduleEvent(w, event, delay)
<1>1. v \in Good(g) /\ v.entity = w.entity /\ Stays(g, w, v)
  BY ScheduleGood DEF Stays
<1>2. v = Fail(w) \/ Scheduled(w, v, event, delay)
  BY ScheduleIs
<1> HIDE DEF v
<1>3. CASE v = Fail(w)
  BY <1>1, <1>3, FailSteps DEF v
<1>4. CASE Scheduled(w, v, event, delay)
  <2>1. PICK q : /\ v.queue = w.queue \cup {q} /\ q.target = event.target
                 /\ q.caller = event.caller /\ q.input = event.input
    BY <1>4 DEF Scheduled
  <2>2. Direct(w) => Direct(v)
    BY <2>1 DEF Direct
  <2>3. \A h, input : h # event.target => Own(v, h, input) = Own(w, h, input)
    BY <2>1 DEF Own
  <2>4. Frame(w, v, {event.target})
    BY <1>1, <2>2, <2>3 DEF Frame, SameTiming, Stays
  <2>5. v.failed = w.failed
    BY <1>4 DEF Scheduled
  <2>6. QED
    BY <1>1, <2>4, <2>5 DEF Steps, v
<1>5. QED
  BY <1>2, <1>3, <1>4

\* One field of an entity, set.
WithFire(w, h, t) == [w EXCEPT !.entity[h].fire = t]

WithEnabled(w, h, b) == [w EXCEPT !.entity[h].enabled = b]

WithWaiting(w, h, b) == [w EXCEPT !.entity[h].waiting = b]

WithInterval(w, h, t) == [w EXCEPT !.entity[h].interval = t]

LEMMA FireFieldSteps ==
  ASSUME NEW g, NEW w \in Good(g), NEW h \in Occupied(w), NEW t \in Int,
         NEW v, v = WithFire(w, h, t)
  PROVE  /\ Stays(g, w, v) /\ Steps(g, w, v, {h})
         /\ v.queue = w.queue /\ v.failed = w.failed
         /\ v.entity[h].fire = t /\ v.entity[h].enabled = w.entity[h].enabled
         /\ v.entity[h].class = w.entity[h].class
<1> DEFINE e == w.entity[h]
           f == [e EXCEPT !.fire = t]
<1>1. e \in Entities
  BY EntityParts DEF Good
<1>0. w \in Good(g) /\ h \in Occupied(w)
  OBVIOUS
<1>2. /\ f \in Entities /\ f.pending = e.pending /\ f.parent = e.parent
      /\ f.children = e.children /\ f.fire = t /\ f.enabled = e.enabled
      /\ f.class = e.class
  BY <1>1 DEF Entities
<1>3. v = WithEntity(w, h, f)
  BY DEF WithEntity, WithFire
<1> HIDE DEF f
<1>4. /\ Stays(g, w, v) /\ Steps(g, w, v, {h}) /\ v.entity[h] = f
      /\ v.queue = w.queue /\ v.failed = w.failed
  BY ONLY <1>0, <1>2, <1>3, FieldSteps
<1>5. QED
  BY <1>2, <1>4

LEMMA EnabledFieldSteps ==
  ASSUME NEW g, NEW w \in Good(g), NEW h \in Occupied(w), NEW b \in BOOLEAN,
         NEW v, v = WithEnabled(w, h, b)
  PROVE  /\ Stays(g, w, v) /\ Steps(g, w, v, {h})
         /\ v.queue = w.queue /\ v.failed = w.failed
         /\ v.entity[h].enabled = b /\ v.entity[h].fire = w.entity[h].fire
         /\ v.entity[h].class = w.entity[h].class
         /\ v.entity[h].waiting = w.entity[h].waiting
<1> DEFINE e == w.entity[h]
           f == [e EXCEPT !.enabled = b]
<1>1. e \in Entities
  BY EntityParts DEF Good
<1>0. w \in Good(g) /\ h \in Occupied(w)
  OBVIOUS
<1>2. /\ f \in Entities /\ f.pending = e.pending /\ f.parent = e.parent
      /\ f.children = e.children /\ f.enabled = b /\ f.fire = e.fire
      /\ f.class = e.class /\ f.waiting = e.waiting
  BY <1>1 DEF Entities
<1>3. v = WithEntity(w, h, f)
  BY DEF WithEntity, WithEnabled
<1> HIDE DEF f
<1>4. /\ Stays(g, w, v) /\ Steps(g, w, v, {h}) /\ v.entity[h] = f
      /\ v.queue = w.queue /\ v.failed = w.failed
  BY ONLY <1>0, <1>2, <1>3, FieldSteps
<1>5. QED
  BY <1>2, <1>4

LEMMA WaitingFieldSteps ==
  ASSUME NEW g, NEW w \in Good(g), NEW h \in Occupied(w), NEW b \in BOOLEAN,
         NEW v, v = WithWaiting(w, h, b)
  PROVE  /\ Stays(g, w, v) /\ Steps(g, w, v, {h})
         /\ v.queue = w.queue /\ v.failed = w.failed
         /\ v.entity[h].waiting = b
         /\ v.entity[h].class = w.entity[h].class
<1> DEFINE e == w.entity[h]
           f == [e EXCEPT !.waiting = b]
<1>1. e \in Entities
  BY EntityParts DEF Good
<1>0. w \in Good(g) /\ h \in Occupied(w)
  OBVIOUS
<1>2. /\ f \in Entities /\ f.pending = e.pending /\ f.parent = e.parent
      /\ f.children = e.children /\ f.waiting = b /\ f.class = e.class
  BY <1>1 DEF Entities
<1>3. v = WithEntity(w, h, f)
  BY DEF WithEntity, WithWaiting
<1> HIDE DEF f
<1>4. /\ Stays(g, w, v) /\ Steps(g, w, v, {h}) /\ v.entity[h] = f
      /\ v.queue = w.queue /\ v.failed = w.failed
  BY ONLY <1>0, <1>2, <1>3, FieldSteps
<1>5. QED
  BY <1>2, <1>4

LEMMA IntervalFieldSteps ==
  ASSUME NEW g, NEW w \in Good(g), NEW h \in Occupied(w), NEW t \in Nat,
         NEW v, v = WithInterval(w, h, t)
  PROVE  /\ Stays(g, w, v) /\ Steps(g, w, v, {})
         /\ v.failed = w.failed /\ v.entity[h].class = w.entity[h].class
<1> DEFINE f == [w.entity[h] EXCEPT !.interval = t]
<1>1. w.entity[h] \in Entities
  BY EntityParts DEF Good
<1>2. w \in Good(g) /\ h \in Occupied(w)
  OBVIOUS
<1>3. /\ f \in Entities /\ f.pending = w.entity[h].pending
      /\ f.parent = w.entity[h].parent /\ f.children = w.entity[h].children
  BY <1>1 DEF Entities
<1>4. SameTiming(w.entity[h], f)
  BY <1>1 DEF Entities, SameTiming
<1>5. v = WithEntity(w, h, f)
  BY DEF WithEntity, WithInterval
<1> HIDE DEF f
<1>6. /\ Stays(g, w, v) /\ Steps(g, w, v, {h}) /\ v.entity[h] = f
      /\ v.queue = w.queue /\ v.failed = w.failed
  BY ONLY <1>2, <1>3, <1>5, FieldSteps
<1>7. Steps(g, w, v, {})
  BY ONLY <1>2, <1>3, <1>4, <1>5, FieldSteps
<1>8. f.class = w.entity[h].class
  BY <1>4 DEF SameTiming
<1>9. QED
  BY <1>6, <1>7, <1>8

\* An enabled timer is given its one event, a disabled one none.
LEMMA ResetTimerSteps ==
  ASSUME NEW g, NEW w \in Good(g), NEW h, Resolvable(w, h),
         w.failed \/ w.entity[h].class = "logic_timer", tick \in Nat
  PROVE  /\ Steps(g, w, ResetTimer(w, h), {h})
         /\ ResetTimer(w, h).failed \/ ArmedAt(ResetTimer(w, h), h)
<1> DEFINE e == w.entity[h]
           calm == CancelDirect(w, h, "__timer_fire")
           t == tick + TicksOf(e.interval)
           off == [calm EXCEPT !.entity[h].fire = NoTick]
           on == [calm EXCEPT !.entity[h].fire = t]
           event == Internal(h, "__timer_fire")
           armed == ScheduleEvent(on, event, e.interval)
           r == ResetTimer(w, h)
<1>1. h \in Occupied(w) /\ h \in Handles /\ e \in Entities
  BY EntityParts DEF Good, Resolvable
<1>2. e.interval \in Nat /\ e.enabled \in BOOLEAN
  BY <1>1 DEF Entities
<1>3. t \in Nat /\ NoTick \in Int
  BY <1>2, TicksOfInt DEF NoTick
<1>4. r = IF ~e.enabled THEN off ELSE armed
  BY DEF ResetTimer
<1>5. /\ Stays(g, w, calm) /\ Steps(g, w, calm, {h}) /\ calm.entity = w.entity
      /\ \A q \in calm.queue : ~(q.target = h /\ q.input = "__timer_fire")
  BY CancelDirectSteps
<1>6. event \in Events /\ event.target = h /\ event.caller = h
      /\ event.input = "__timer_fire"
  BY <1>1, InternalEvents DEF Internal, Event
<1> HIDE DEF calm, t, event
<1>7. calm \in Good(g) /\ h \in Occupied(calm) /\ calm.entity[h] = e
  BY <1>1, <1>5 DEF Stays, Occupied
<1> HIDE DEF r
<1>8. CASE ~e.enabled
  <2>0. off = WithFire(calm, h, NoTick)
    BY DEF WithFire
  <2> HIDE DEF off, e
  <2>1. /\ Stays(g, calm, off) /\ Steps(g, calm, off, {h})
        /\ off.queue = calm.queue /\ off.entity[h].fire = NoTick
        /\ off.entity[h].enabled = e.enabled /\ off.entity[h].class = e.class
    BY ONLY <1>3, <1>7, <2>0, FireFieldSteps
  <2>2. Steps(g, w, off, {h} \cup {h}) /\ off \in Good(g)
    BY <1>5, <2>1, StepsTrans DEF Stays
  <2>3. Own(off, h, "__timer_fire") = {}
    BY <1>5, <2>1 DEF Own
  <2>4. off.failed \/ ArmedAt(off, h)
    BY <1>8, <2>1, <2>2, <2>3 DEF ArmedAt, TimerArmed, Steps, e
  <2>5. Steps(g, w, off, {h}) /\ ResetTimer(w, h) = off
    BY <1>4, <1>8, <2>2 DEF r
  <2>6. QED
    BY <2>4, <2>5
<1>9. CASE e.enabled
  <2>0. on = WithFire(calm, h, t)
    BY DEF WithFire
  <2> HIDE DEF on, e
  <2>1. /\ Stays(g, calm, on) /\ Steps(g, calm, on, {h})
        /\ on.queue = calm.queue /\ on.entity[h].fire = t
        /\ on.entity[h].enabled = e.enabled /\ on.entity[h].class = e.class
    BY ONLY <1>3, <1>7, <2>0, FireFieldSteps
  <2>2. Steps(g, w, on, {h} \cup {h}) /\ on \in Good(g) /\ Stays(g, w, on)
    BY <1>5, <2>1, StepsTrans, StaysTrans DEF Stays
  <2>3. Resolvable(on, h)
    BY <2>2 DEF Stays
  <2>4. PICK d \in Nat : d = e.interval
    BY <1>2
  <2>5. armed = ScheduleEvent(on, event, d)
    BY <2>4
  <2>6. Steps(g, on, armed, {h}) /\ armed \in Good(g)
    BY <1>6, <2>2, <2>3, <2>5, ScheduleOwnSteps DEF Stays
  <2>7. armed = Fail(on) \/ Scheduled(on, armed, event, d)
    BY <1>6, <2>5, ScheduleIs
  <2> HIDE DEF armed
  <2>8. Steps(g, w, armed, ({h} \cup {h}) \cup {h})
    BY <2>2, <2>6, StepsTrans
  <2>9. armed.failed \/ ArmedAt(armed, h)
    <3>1. CASE armed = Fail(on)
      BY <3>1, <2>2, FailGood
    <3>2. CASE Scheduled(on, armed, event, d)
      <4>1. PICK q : /\ armed.queue = calm.queue \cup {q} /\ q.target = h
                     /\ q.caller = h /\ q.input = "__timer_fire"
                     /\ q.due = tick + TicksOf(d)
        BY <3>2, <1>6, <2>1 DEF Scheduled
      <4>2. Own(armed, h, "__timer_fire") = {q} /\ q.due = t
        BY <1>5, <2>4, <4>1 DEF Own, t, e
      <4>3. armed.entity = on.entity
        BY <3>2 DEF Scheduled
      <4>4. QED
        BY <1>9, <2>1, <2>8, <4>2, <4>3 DEF ArmedAt, TimerArmed, Steps, e
    <3>3. QED
      BY <2>7, <3>1, <3>2
  <2>10. Steps(g, w, armed, {h}) /\ ResetTimer(w, h) = armed
    BY <1>4, <1>9, <2>8 DEF r
  <2>11. QED
    BY <2>9, <2>10
<1>10. QED
  BY <1>2, <1>8, <1>9

LEMMA ResetTimerReady ==
  ASSUME NEW g, NEW X, NEW w \in Ready(g, X), NEW h, Resolvable(w, h),
         w.failed \/ w.entity[h].class = "logic_timer", tick \in Nat
  PROVE  ResetTimer(w, h) \in Ready(g, X \ {h})
<1> DEFINE v == ResetTimer(w, h)
<1>1. Steps(g, w, v, {h}) /\ (v.failed \/ ArmedAt(v, h))
  BY ResetTimerSteps DEF Ready
<1> HIDE DEF v
<1>2. v \in Ready(g, X \cup {h})
  BY <1>1, StepsReady
<1>3. v \in Ready(g, (X \cup {h}) \ {h})
  BY <1>1, <1>2, ReadyLess
<1>4. (X \cup {h}) \ {h} = X \ {h}
  OBVIOUS
<1>5. QED
  BY <1>3, <1>4 DEF v

MovedTo(w, first, due) ==
  [w EXCEPT !.queue = (@ \ {first}) \cup {[first EXCEPT !.due = due]}]

LEMMA MovedIs ==
  ASSUME NEW g, NEW w \in Good(g), NEW first \in w.queue, NEW due \in Nat,
         NEW v, v = MovedTo(w, first, due)
  PROVE  /\ Stays(g, w, v) /\ v.entity = w.entity /\ v.failed = w.failed
         /\ \E m : /\ v.queue = (w.queue \ {first}) \cup {m}
                   /\ m.target = first.target /\ m.caller = first.caller
                   /\ m.input = first.input /\ m.due = due
<1> DEFINE m == [first EXCEPT !.due = due]
           queue == (w.queue \ {first}) \cup {m}
<1>1. Stays(g, w, v)
  BY MovedGood DEF MovedTo
<1>2. first \in Events
  BY WorldParts DEF Good
<1>3. /\ m.target = first.target /\ m.caller = first.caller
      /\ m.input = first.input /\ m.due = due
  BY <1>2 DEF Events
<1>4. v = [w EXCEPT !.queue = queue]
  BY DEF MovedTo
<1> HIDE DEF m
<1>5. v.entity = w.entity /\ v.failed = w.failed /\ v.queue = queue
  BY ONLY <1>4, w \in Good(g) DEF Good, Worlds
<1>6. QED
  BY <1>1, <1>3, <1>5

\* Moving a timer's event moves the tick it shows.
LEMMA ShiftTimerReady ==
  ASSUME NEW g, NEW w \in Ready(g, {}), ~w.failed, NEW h, Resolvable(w, h),
         w.entity[h].class = "logic_timer", w.entity[h].enabled,
         NEW ticks \in Int, NEW least \in Nat
  PROVE  ShiftTimer(w, h, ticks, least) \in Ready(g, {})
<1> DEFINE own == {q \in w.queue : q.target = h /\ q.input = "__timer_fire"}
           first == CHOOSE q \in own : \A r \in own : r = q \/ Before(q, r)
           due == Max({first.due + ticks, least})
           u == MovedTo(w, first, due)
           r == ShiftTimer(w, h, ticks, least)
<1>0. w \in Good(g) /\ Direct(w) /\ ArmedAt(w, h)
  BY DEF Ready
<1>1. h \in Occupied(w) /\ h # NoHandle /\ w.entity[h] \in Entities
  BY <1>0, EntityParts, NoHandleIsNone DEF Good, Resolvable
<1>2. PICK q : Own(w, h, "__timer_fire") = {q}
  BY <1>0 DEF ArmedAt, TimerArmed
<1>3. own = {q}
  BY <1>0, <1>1, <1>2 DEF Own, Direct
<1>4. first = q
  <2> HIDE DEF own
  <2>1. QED
    BY <1>3
<1>5. q \in w.queue /\ q.target = h /\ q.caller = h /\ q.input = "__timer_fire"
  BY <1>2 DEF Own
<1>6. q.due \in Nat
  BY <1>0, <1>5, WorldParts DEF Good, Events
<1>7. due \in Nat
  <2> HIDE DEF own, first
  <2> DEFINE a == first.due + ticks
  <2>1. a \in Int
    BY <1>4, <1>6
  <2> HIDE DEF a
  <2>2. Max({a, least}) \in Nat
    <3>1. least \in Nat
      OBVIOUS
    <3>2. QED
      BY ONLY <2>1, <3>1, MaxOfTwo
  <2>3. QED
    BY <2>2 DEF a
<1>8. r = WithFire(u, h, due)
  <2>1. r = [w EXCEPT
              !.queue = (@ \ {first}) \cup {[first EXCEPT !.due = due]},
              !.entity[h].fire = due]
    BY <1>3 DEF ShiftTimer
  <2> HIDE DEF due, first, r
  <2>2. u.entity = w.entity
    BY <1>0 DEF MovedTo, Good, Worlds
  <2>3. QED
    BY <2>1 DEF MovedTo, WithFire
<1> HIDE DEF own, first, due, u, r
<1>9. /\ Stays(g, w, u) /\ u.entity = w.entity /\ u.failed = w.failed
      /\ \E m : /\ u.queue = (w.queue \ {q}) \cup {m} /\ m.target = h
                /\ m.caller = h /\ m.input = "__timer_fire" /\ m.due = due
  BY <1>0, <1>4, <1>5, <1>7, MovedIs DEF u
<1>10. PICK m : /\ u.queue = (w.queue \ {q}) \cup {m} /\ m.target = h
                /\ m.caller = h /\ m.input = "__timer_fire" /\ m.due = due
  BY <1>9
<1>11. Own(u, h, "__timer_fire") = {m}
  BY <1>2, <1>10 DEF Own
<1>12. Steps(g, w, u, {h})
  <2>1. \A i, input : i # h => Own(u, i, input) = Own(w, i, input)
    BY <1>5, <1>10 DEF Own
  <2>2. Direct(u)
    BY <1>0, <1>10 DEF Direct
  <2>3. Frame(w, u, {h})
    BY <1>9, <2>1, <2>2 DEF Frame, SameTiming, Stays
  <2>4. QED
    BY <1>9, <2>3 DEF Steps, Stays
<1>13. u \in Good(g) /\ h \in Occupied(u) /\ due \in Int
  BY <1>1, <1>7, <1>9 DEF Stays, Occupied
<1>14. /\ Steps(g, u, r, {h}) /\ r.queue = u.queue /\ r.entity[h].fire = due
       /\ r.entity[h].enabled = u.entity[h].enabled
       /\ r.entity[h].class = u.entity[h].class
  BY ONLY <1>8, <1>13, FireFieldSteps
<1>15. ArmedAt(r, h)
  <2>1. Own(r, h, "__timer_fire") = {m}
    BY <1>11, <1>14 DEF Own
  <2>2. QED
    BY <1>9, <1>10, <1>14, <2>1 DEF ArmedAt, TimerArmed
<1>16. Steps(g, w, r, {h} \cup {h})
  BY <1>12, <1>14, StepsTrans
<1>17. r \in Ready(g, {} \cup ({h} \cup {h}))
  BY <1>16, StepsReady
<1>18. r \in Ready(g, ({} \cup ({h} \cup {h})) \ {h})
  BY <1>15, <1>17, ReadyLess
<1>19. ({} \cup ({h} \cup {h})) \ {h} = {}
  OBVIOUS
<1>20. QED
  BY <1>18, <1>19 DEF r

\* A timer fires: it must be enabled, and need not have its event any more.
LEMMA TimerFires ==
  ASSUME NEW g, NEW h, NEW w \in Ready(g, {h}), Resolvable(w, h),
         w.entity[h].class = "logic_timer", tick \in Nat
  PROVE  ResetTimer(FireOutput(w, h, "OnTimer", h, h), h) \in Ready(g, {})
<1> DEFINE v == FireOutput(w, h, "OnTimer", h, h)
<1>1. w \in Good(g)
  BY DEF Ready
<1>2. h \in HandleOrNone /\ h \in Occupied(w)
  BY <1>1, WorldParts DEF Resolvable, Good, HandleOrNone
<1>3. Steps(g, w, v, {}) /\ Stays(g, w, v)
  BY <1>1, <1>2, FireOutputSteps, FireOutputStays
<1>4. Resolvable(v, h)
  BY <1>3 DEF Stays
<1>5. v.failed \/ v.entity[h].class = "logic_timer"
  BY <1>3, <1>4 DEF Steps, Frame, SameTiming
<1>6. v \in Ready(g, {h} \cup {})
  BY <1>3, StepsReady
<1> HIDE DEF v
<1>7. ResetTimer(v, h) \in Ready(g, ({h} \cup {}) \ {h})
  BY <1>4, <1>5, <1>6, ResetTimerReady
<1>8. ({h} \cup {}) \ {h} = {}
  OBVIOUS
<1>9. QED
  BY <1>7, <1>8 DEF v

\* Whoever a step touched is armed again, removed, or the phase fails.
LEMMA Rearmed ==
  ASSUME NEW g, NEW h, NEW w \in Ready(g, {h}), NEW v, Steps(g, w, v, {h}),
         v.failed \/ ~Resolvable(v, h) \/ ArmedAt(v, h)
  PROVE  v \in Ready(g, {})
<1>1. v \in Ready(g, {h} \cup {h})
  BY StepsReady
<1>2. v \in Ready(g, ({h} \cup {h}) \ {h})
  BY <1>1, ReadyLess
<1>3. ({h} \cup {h}) \ {h} = {}
  OBVIOUS
<1>4. QED
  BY <1>2, <1>3

LEMMA StepsStayReady ==
  ASSUME NEW g, NEW w \in Ready(g, {}), NEW v, Steps(g, w, v, {})
  PROVE  v \in Ready(g, {})
<1>1. v \in Ready(g, {} \cup {})
  BY StepsReady
<1>2. {} \cup {} = {}
  OBVIOUS
<1>3. QED
  BY <1>1, <1>2

LEMMA TimerInputReady ==
  ASSUME NEW g, NEW w \in Ready(g, {}), ~w.failed, NEW h, Resolvable(w, h),
         w.entity[h].class = "logic_timer", tick \in Nat, NEW event \in Events
  PROVE  TimerInput(w, h, event) \in Ready(g, {})
<1> DEFINE on == WithEnabled(w, h, TRUE)
           off1 == WithEnabled(w, h, FALSE)
           off2 == WithFire(off1, h, NoTick)
           off == CancelDirect(off2, h, "__timer_fire")
           fired == FireOutput(w, h, "OnTimer", h, h)
           units == event.units
           interval == RefireInterval(event)
           timed == WithInterval(w, h, interval)
           shifted == {ShiftTimer(w, h, TicksOf(units), 0),
                       ShiftTimer(w, h, -TicksOf(units), tick)}
<1>1. w \in Good(g) /\ h \in Occupied(w) /\ w \in Ready(g, {h})
  BY ReadyMore DEF Ready, Resolvable
<1>2. units \in Nat
  BY DEF Events
<1>3. TimerInput(w, h, event) \in
        {ResetTimer(on, h), off, ResetTimer(fired, h), ResetTimer(w, h),
         ResetTimer(timed, h), timed, w}
          \cup (IF w.entity[h].enabled THEN shifted ELSE {})
  BY DEF TimerInput, WithEnabled, WithFire, WithInterval
<1>4. interval \in Nat
  BY RefireIntervalType
<1> HIDE DEF on, off1, fired, units, interval
<1>5. ResetTimer(on, h) \in Ready(g, {})
  <2>0. PICK b \in BOOLEAN : on = WithEnabled(w, h, b)
    BY DEF on
  <2>1. /\ Stays(g, w, on) /\ Steps(g, w, on, {h})
        /\ on.entity[h].class = w.entity[h].class
    BY ONLY <1>1, <2>0, EnabledFieldSteps
  <2>2. on \in Ready(g, {h} \cup {h})
    BY <1>1, <2>1, StepsReady
  <2>3. Resolvable(on, h)
    BY <2>1 DEF Stays
  <2>4. ResetTimer(on, h) \in Ready(g, ({h} \cup {h}) \ {h})
    BY <2>1, <2>2, <2>3, ResetTimerReady
  <2>5. ({h} \cup {h}) \ {h} = {}
    OBVIOUS
  <2>6. QED
    BY <2>4, <2>5
<1>6. off \in Ready(g, {})
  <2>0. PICK b \in BOOLEAN : b = FALSE /\ off1 = WithEnabled(w, h, b)
    BY DEF off1
  <2>1. /\ Stays(g, w, off1) /\ Steps(g, w, off1, {h})
        /\ off1.entity[h].enabled = FALSE
        /\ off1.entity[h].class = w.entity[h].class
    <3>1. /\ Stays(g, w, off1) /\ Steps(g, w, off1, {h})
          /\ off1.entity[h].enabled = b
          /\ off1.entity[h].class = w.entity[h].class
      BY ONLY <1>1, <2>0, EnabledFieldSteps
    <3>2. QED
      BY <2>0, <3>1
  <2>2. off1 \in Good(g) /\ h \in Occupied(off1) /\ NoTick \in Int
    BY <2>1 DEF Stays, Resolvable, NoTick
  <2>2b. PICK t \in Int : t = NoTick /\ off2 = WithFire(off1, h, t)
    BY <2>2 DEF off2
  <2>3. /\ Stays(g, off1, off2) /\ Steps(g, off1, off2, {h})
        /\ off2.entity[h].enabled = FALSE /\ off2.entity[h].fire = NoTick
        /\ off2.entity[h].class = w.entity[h].class
    <3>1. /\ Stays(g, off1, off2) /\ Steps(g, off1, off2, {h})
          /\ off2.entity[h].fire = t
          /\ off2.entity[h].enabled = off1.entity[h].enabled
          /\ off2.entity[h].class = off1.entity[h].class
      BY ONLY <2>2, <2>2b, FireFieldSteps
    <3>2. QED
      BY <2>1, <2>2b, <3>1
  <2> HIDE DEF off2
  <2>4. /\ Steps(g, off2, off, {h}) /\ off.entity = off2.entity
        /\ \A q \in off.queue : ~(q.target = h /\ q.input = "__timer_fire")
    <3>1. off2 \in Good(g) /\ off = CancelDirect(off2, h, "__timer_fire")
      BY <2>3 DEF Stays
    <3>2. PICK input : input = "__timer_fire"
      OBVIOUS
    <3> HIDE DEF off
    <3>3. off = CancelDirect(off2, h, input)
      BY <3>1, <3>2
    <3>4. /\ Steps(g, off2, off, {h}) /\ off.entity = off2.entity
          /\ \A q \in off.queue : ~(q.target = h /\ q.input = input)
      BY ONLY <3>1, <3>3, CancelDirectSteps
    <3>5. QED
      BY <3>2, <3>4
  <2> HIDE DEF off
  <2>5. ArmedAt(off, h)
    BY <2>3, <2>4 DEF ArmedAt, TimerArmed, Own
  <2>6. Steps(g, w, off, ({h} \cup {h}) \cup {h})
    BY <2>1, <2>3, <2>4, StepsTrans
  <2>7. ({h} \cup {h}) \cup {h} = {h}
    OBVIOUS
  <2>8. QED
    BY <1>1, <2>5, <2>6, <2>7, Rearmed
<1>7. ResetTimer(fired, h) \in Ready(g, {})
  BY <1>1, TimerFires DEF fired
<1>8. ResetTimer(w, h) \in Ready(g, {})
  <2>1. ResetTimer(w, h) \in Ready(g, {} \ {h})
    BY ResetTimerReady
  <2>2. {} \ {h} = {}
    OBVIOUS
  <2>3. QED
    BY <2>1, <2>2
<1>9. ASSUME w.entity[h].enabled PROVE shifted \subseteq Ready(g, {})
  <2>1. TicksOf(units) \in Int /\ -TicksOf(units) \in Int
    BY <1>2, TicksOfInt
  <2>2. QED
    BY <1>9, <2>1, ShiftTimerReady
<1>10. timed \in Ready(g, {}) /\ ResetTimer(timed, h) \in Ready(g, {})
  <2>1. /\ Stays(g, w, timed) /\ Steps(g, w, timed, {})
        /\ timed.entity[h].class = w.entity[h].class
    BY ONLY <1>1, <1>4, IntervalFieldSteps
  <2> HIDE DEF timed
  <2>2. timed \in Ready(g, {})
    BY <2>1, StepsStayReady
  <2>3. timed \in Ready(g, {h}) /\ Resolvable(timed, h)
    BY <2>1, <2>2, ReadyMore DEF Stays
  <2>4. ResetTimer(timed, h) \in Ready(g, {h} \ {h})
    BY <2>1, <2>3, ResetTimerReady
  <2>5. {h} \ {h} = {}
    OBVIOUS
  <2>6. QED
    BY <2>2, <2>4, <2>5
<1> HIDE DEF off2, off, shifted, timed
<1>11. QED
  BY <1>3, <1>5, <1>6, <1>7, <1>8, <1>9, <1>10

\* A relay that turns deaf has queued the event that rearms it.
LEMMA TriggerReady ==
  ASSUME NEW g, NEW w \in Ready(g, {}), ~w.failed, NEW h, Resolvable(w, h),
         w.entity[h].class = "logic_relay", tick \in Nat, NEW event \in Events
  PROVE  Trigger(w, h, event) \in Ready(g, {})
<1> DEFINE e == w.entity[h]
           deaf == ~e.once /\ ~e.fast
           set == WithWaiting(w, h, deaf)
           fired == FireOutput(set, h, "OnTrigger", event.activator, h)
           delay == AfterMillisecond(MaxOutputDelay(e, "OnTrigger"))
           rearm == Internal(h, "EnableRefire")
           last == ScheduleEvent(fired, rearm, delay)
<1>0. w \in Good(g) /\ w \in Ready(g, {h})
  BY ReadyMore DEF Ready
<1>1. h \in Occupied(w) /\ h \in Handles /\ h \in HandleOrNone
  BY <1>0, WorldParts DEF Resolvable, Good, HandleOrNone
<1>2. e \in Entities /\ e.once \in BOOLEAN /\ e.fast \in BOOLEAN
  BY <1>0, <1>1, EntityParts DEF Good, Entities
<1>3. delay \in Nat
  BY <1>2, DelayType
<1>4. event.activator \in HandleOrNone
  BY DEF Events
<1>5. Trigger(w, h, event) =
        IF ~e.enabled \/ e.waiting THEN w
        ELSE IF e.once THEN MarkRemoval(fired, h)
        ELSE IF e.fast THEN fired ELSE last
  BY DEF Trigger, WithWaiting
<1>6. rearm \in Events /\ rearm.target = h /\ rearm.caller = h
      /\ rearm.input = "EnableRefire"
  BY <1>1, InternalEvents DEF Internal, Event
<1>7. PICK b \in BOOLEAN : b = deaf
  BY <1>2
<1>8. /\ Stays(g, w, set) /\ Steps(g, w, set, {h})
      /\ set.entity[h].waiting = b /\ set.entity[h].class = e.class
  <2>1. set = WithWaiting(w, h, b)
    BY <1>7
  <2> HIDE DEF e, set
  <2>2. QED
    BY <1>0, <1>1, <2>1, WaitingFieldSteps DEF e
<1> HIDE DEF set, delay, rearm
<1>9. Stays(g, set, fired) /\ Steps(g, set, fired, {})
  BY <1>1, <1>4, <1>8, FireOutputStays, FireOutputSteps DEF Stays
<1> HIDE DEF fired
<1>10. /\ fired \in Good(g) /\ Resolvable(fired, h)
       /\ fired.failed \/ SameTiming(set.entity[h], fired.entity[h])
  BY <1>8, <1>9 DEF Stays, Steps, Frame
<1>11. Steps(g, w, fired, {h})
  <2>1. Steps(g, w, fired, {h} \cup {})
    BY <1>8, <1>9, StepsTrans
  <2>2. {h} \cup {} = {h}
    OBVIOUS
  <2>3. QED
    BY <2>1, <2>2
<1>12. MarkRemoval(fired, h) \in Ready(g, {})
  <2> DEFINE v == MarkRemoval(fired, h)
  <2>1. /\ Steps(g, fired, v, {}) /\ (v.failed \/ ~Resolvable(v, h))
    BY <1>10, MarkRemovalGood
  <2> HIDE DEF v
  <2>2. Steps(g, w, v, {h} \cup {})
    BY <1>11, <2>1, StepsTrans
  <2>3. {h} \cup {} = {h}
    OBVIOUS
  <2>4. v \in Ready(g, {})
    BY <1>0, <2>1, <2>2, <2>3, Rearmed
  <2>5. QED
    BY <2>4 DEF v
<1>13. ASSUME e.fast PROVE fired \in Ready(g, {})
  <2>1. b = FALSE
    BY <1>7, <1>13
  <2>2. fired.failed \/ ArmedAt(fired, h)
    BY <1>8, <1>10, <2>1 DEF ArmedAt, SameTiming
  <2>3. QED
    BY <1>0, <1>11, <2>2, Rearmed
<1>14. last \in Ready(g, {})
  <2>1. /\ Steps(g, fired, last, {h})
        /\ last = Fail(fired) \/ Scheduled(fired, last, rearm, delay)
    BY <1>3, <1>6, <1>10, ScheduleOwnSteps, ScheduleIs
  <2> HIDE DEF last
  <2>2. last.failed \/ Own(last, h, "EnableRefire") # {}
    BY <1>6, <1>10, <2>1, FailGood DEF Scheduled, Own
  <2>3. last.failed \/ last.entity[h].class = "logic_relay"
    BY <1>8, <1>10, <2>1, FailGood DEF Scheduled, SameTiming
  <2>4. last.failed \/ ArmedAt(last, h)
    BY <2>2, <2>3 DEF ArmedAt
  <2>5. Steps(g, w, last, {h} \cup {h})
    BY <1>11, <2>1, StepsTrans
  <2>6. {h} \cup {h} = {h}
    OBVIOUS
  <2>7. QED
    BY <1>0, <2>4, <2>5, <2>6, Rearmed
<1> HIDE DEF last, e
<1>15. QED
  BY <1>2, <1>5, <1>12, <1>13, <1>14

\* A relay that is no longer deaf waits for nothing.
LEMMA RelayRearms ==
  ASSUME NEW g, NEW h, NEW w \in Ready(g, {h}), Resolvable(w, h),
         w.entity[h].class = "logic_relay", NEW v, v = WithWaiting(w, h, FALSE)
  PROVE  v \in Ready(g, {}) /\ Stays(g, w, v)
<1>1. w \in Good(g) /\ h \in Occupied(w)
  BY DEF Ready, Resolvable
<1>2. PICK b \in BOOLEAN : b = FALSE
  OBVIOUS
<1>3. v = WithWaiting(w, h, b)
  BY <1>2
<1>4. /\ Stays(g, w, v) /\ Steps(g, w, v, {h})
      /\ v.entity[h].waiting = b /\ v.entity[h].class = w.entity[h].class
  BY ONLY <1>1, <1>3, WaitingFieldSteps
<1>5. ArmedAt(v, h)
  BY <1>2, <1>4 DEF ArmedAt
<1>6. QED
  BY <1>4, <1>5, Rearmed

\* A relay is as deaf as it was, enabled or not.
LEMMA RelayEnabledReady ==
  ASSUME NEW g, NEW w \in Ready(g, {}), ~w.failed, NEW h, Resolvable(w, h),
         w.entity[h].class = "logic_relay", NEW b \in BOOLEAN,
         NEW v, v = WithEnabled(w, h, b)
  PROVE  v \in Ready(g, {})
<1>1. w \in Good(g) /\ h \in Occupied(w) /\ w \in Ready(g, {h})
  BY ReadyMore DEF Ready, Resolvable
<1>2. /\ Stays(g, w, v) /\ Steps(g, w, v, {h}) /\ v.queue = w.queue
      /\ v.entity[h].class = w.entity[h].class
      /\ v.entity[h].waiting = w.entity[h].waiting
  BY <1>1, EnabledFieldSteps
<1>3. ArmedAt(w, h)
  BY DEF Ready
<1>4. ArmedAt(v, h)
  BY <1>2, <1>3 DEF ArmedAt, Own
<1>5. QED
  BY <1>1, <1>2, <1>4, Rearmed

\* Events cancelled for a relay that waits for none.
LEMMA CancelledReady ==
  ASSUME NEW g, NEW w \in Ready(g, {}), NEW h, Resolvable(w, h),
         w.failed \/ w.entity[h].class = "logic_relay",
         w.failed \/ ~w.entity[h].waiting
  PROVE  CancelCaller(w, h) \in Ready(g, {})
<1> DEFINE v == CancelCaller(w, h)
<1>1. w \in Good(g) /\ w \in Ready(g, {h})
  BY ReadyMore DEF Ready
<1>2. Stays(g, w, v) /\ Steps(g, w, v, {h}) /\ v.entity = w.entity
  BY <1>1, CancelCallerSteps
<1> HIDE DEF v
<1>3. v.failed \/ ArmedAt(v, h)
  BY <1>2 DEF ArmedAt, Steps
<1>4. v \in Ready(g, {})
  BY <1>1, <1>2, <1>3, Rearmed
<1>5. QED
  BY <1>4 DEF v

LEMMA RemovalReady ==
  ASSUME NEW g, NEW w \in Ready(g, {}), NEW h
  PROVE  MarkRemoval(w, h) \in Ready(g, {})
<1>1. w \in Good(g)
  BY DEF Ready
<1>2. Steps(g, w, MarkRemoval(w, h), {})
  BY <1>1, MarkRemovalGood
<1>3. QED
  BY <1>2, StepsStayReady

LEMMA FireOutputReady ==
  ASSUME NEW g, NEW w \in Ready(g, {}), NEW h, NEW output,
         NEW activator \in HandleOrNone, NEW caller \in HandleOrNone,
         tick \in Nat
  PROVE  FireOutput(w, h, output, activator, caller) \in Ready(g, {})
<1>1. w \in Good(g)
  BY DEF Ready
<1>2. Steps(g, w, FireOutput(w, h, output, activator, caller), {})
  BY <1>1, FireOutputSteps
<1>3. QED
  BY <1>2, StepsStayReady

LEMMA SetParentReady ==
  ASSUME NEW g, NEW w \in Ready(g, {}), NEW child, NEW parent
  PROVE  SetParent(w, child, parent) \in Ready(g, {})
<1>1. w \in Good(g)
  BY DEF Ready
<1>2. Steps(g, w, SetParent(w, child, parent), {})
  BY <1>1, SetParentSteps
<1>3. QED
  BY <1>2, StepsStayReady

LEMMA RelayInputReady ==
  ASSUME NEW g, NEW w \in Ready(g, {}), ~w.failed, NEW h, Resolvable(w, h),
         w.entity[h].class = "logic_relay", tick \in Nat, NEW event \in Events
  PROVE  RelayInput(w, h, event) \in Ready(g, {})
<1> DEFINE e == w.entity[h]
           set(b) == WithEnabled(w, h, b)
           armed == WithWaiting(w, h, FALSE)
           spawned == FireOutput(w, h, "OnSpawn", h, h)
<1>1. w \in Good(g) /\ h \in Occupied(w) /\ h \in HandleOrNone /\ w \in Ready(g, {h})
  BY WorldParts, ReadyMore DEF Ready, Resolvable, Good, HandleOrNone
<1>2. RelayInput(w, h, event) \in
        {set(TRUE), set(FALSE), set(~e.enabled), armed, CancelCaller(armed, h),
         Trigger(w, h, event), MarkRemoval(spawned, h), spawned, w}
  BY DEF RelayInput, WithEnabled, WithWaiting
<1>3. e.enabled \in BOOLEAN
  BY <1>1, EntityParts DEF Entities, Good
<1>4. \A b \in BOOLEAN : set(b) \in Ready(g, {})
  BY RelayEnabledReady
<1>5. set(TRUE) \in Ready(g, {}) /\ set(FALSE) \in Ready(g, {})
      /\ set(~e.enabled) \in Ready(g, {})
  <2>1. PICK b \in BOOLEAN : b = TRUE
    OBVIOUS
  <2>2. PICK c \in BOOLEAN : c = FALSE
    OBVIOUS
  <2>3. PICK d \in BOOLEAN : d = ~e.enabled
    BY <1>3
  <2> HIDE DEF set
  <2>4. QED
    BY <1>4, <2>1, <2>2, <2>3
<1>6. armed \in Ready(g, {}) /\ Stays(g, w, armed) /\ armed.entity[h].class = e.class
      /\ armed.entity[h].waiting = FALSE
  <2>1. PICK b \in BOOLEAN : b = FALSE
    OBVIOUS
  <2>2. armed = WithWaiting(w, h, b)
    BY <2>1
  <2> HIDE DEF armed
  <2>3. armed.entity[h].waiting = b /\ armed.entity[h].class = w.entity[h].class
    BY ONLY <1>1, <2>2, WaitingFieldSteps
  <2>4. armed \in Ready(g, {}) /\ Stays(g, w, armed)
    BY <1>1, RelayRearms DEF armed
  <2>5. QED
    BY <2>1, <2>3, <2>4
<1>7. spawned \in Ready(g, {})
  BY <1>1, FireOutputReady
<1> HIDE DEF set, armed, spawned
<1>8. CancelCaller(armed, h) \in Ready(g, {})
  BY <1>6, CancelledReady DEF Stays
<1>9. MarkRemoval(spawned, h) \in Ready(g, {})
  BY <1>7, RemovalReady
<1>10. Trigger(w, h, event) \in Ready(g, {})
  BY TriggerReady
<1> HIDE DEF e
<1>11. QED
  BY <1>2, <1>5, <1>6, <1>7, <1>8, <1>9, <1>10

\* Whoever an input goes to, every timer and relay stays armed.
LEMMA DispatchInputReady ==
  ASSUME NEW g, NEW w \in Ready(g, {}), NEW h, tick \in Nat, NEW event \in Events
  PROVE  DispatchInput(w, h, event) \in Ready(g, {})
<1> DEFINE parents == ResolveTarget(w, event.text, event.activator, event.caller)
<1>1. CASE w.failed \/ ~Resolvable(w, h)
  BY <1>1 DEF DispatchInput
<1>2. CASE ~w.failed /\ Resolvable(w, h)
  <2>1. DispatchInput(w, h, event) \in
          {w, MarkRemoval(w, h), SetParent(w, h, NoHandle),
           SetParent(w, h, parents[1]),
           FireOutput(w, h, "OnUser1", event.activator, h),
           ClassInput(w, h, event)}
    BY <1>2 DEF DispatchInput
  <2> HIDE DEF parents
  <2>2. ClassInput(w, h, event) \in Ready(g, {})
    <3>1. CASE w.entity[h].class = "logic_relay"
      BY <1>2, <3>1, RelayInputReady DEF ClassInput
    <3>2. CASE w.entity[h].class = "logic_timer"
      BY <1>2, <3>2, TimerInputReady DEF ClassInput
    <3>3. CASE w.entity[h].class \notin {"logic_relay", "logic_timer"}
      BY <3>3 DEF ClassInput
    <3>4. QED
      BY <3>1, <3>2, <3>3
  <2>3. /\ SetParent(w, h, NoHandle) \in Ready(g, {})
        /\ SetParent(w, h, parents[1]) \in Ready(g, {})
    BY SetParentReady
  <2>4. event.activator \in HandleOrNone /\ h \in HandleOrNone
    BY <1>2, WorldParts DEF Resolvable, Ready, Good, HandleOrNone, Events
  <2>5. FireOutput(w, h, "OnUser1", event.activator, h) \in Ready(g, {})
    BY <2>4, FireOutputReady
  <2>6. MarkRemoval(w, h) \in Ready(g, {})
    BY RemovalReady
  <2>7. QED
    BY <2>1, <2>2, <2>3, <2>5, <2>6
<1>3. QED
  BY <1>1, <1>2

LEMMA DispatchRecordReady ==
  ASSUME NEW g, NEW w \in Ready(g, {}), tick \in Nat, NEW event \in Events
  PROVE  DispatchRecord(w, event) \in Ready(g, {})
<1> DEFINE one == IF Resolvable(w, event.target) THEN << event.target >> ELSE << >>
           all == ResolveTarget(w, event.name, event.activator, event.caller)
           targets == IF event.target # NoHandle THEN one ELSE all
<1>1. DispatchRecord(w, event) = DispatchedAll(w, targets, event)
  BY DEF DispatchRecord, DispatchedAll
<1>2. targets \in Seq(Handles)
  <2>1. w \in Good(g) /\ \A h : Resolvable(w, h) => h \in Handles
    BY WorldParts DEF Ready, Good, Resolvable
  <2>2. one \in Seq(Handles)
    BY <2>1
  <2>3. all \in Seq(Handles)
    BY <2>1, ResolveTargetType
  <2>4. QED
    BY <2>2, <2>3
<1> HIDE DEF targets
<1>3. \A v \in Ready(g, {}), h \in Handles : DispatchInput(v, h, event) \in Ready(g, {})
  BY DispatchInputReady
<1>4. QED
  BY <1>1, <1>2, <1>3, DispatchedAllIn

\* An event for one entity that is there is one input.
LEMMA DispatchedOne ==
  ASSUME NEW g, NEW w \in Good(g), NEW event \in Events, event.target # NoHandle,
         Resolvable(w, event.target), tick \in Nat
  PROVE  DispatchRecord(w, event) = DispatchInput(w, event.target, event)
<1>1. PICK h \in Handles : h = event.target
  BY WorldParts DEF Good, Resolvable
<1>2. PICK s \in Seq(Handles) : s = << h >>
  <2>1. << h >> \in Seq(Handles)
    BY <1>1
  <2>2. QED
    BY <2>1
<1>3. Len(s) = 1 /\ s[1] = h
  BY <1>2
<1>4. DispatchRecord(w, event) = DispatchedAll(w, s, event)
  BY <1>1, <1>2 DEF DispatchRecord, DispatchedAll
<1>5. \A v \in Good(g), i \in Handles : DispatchInput(v, i, event) \in Good(g)
  BY DispatchInputGood
<1>6. PICK f : /\ f[0] = w
               /\ \A i \in 1..Len(s) : f[i] = DispatchInput(f[i - 1], s[i], event)
               /\ DispatchedAll(w, s, event) = f[Len(s)]
  <2>1. DispatchedStepwise(Good(g), w, s, event)
    BY <1>2, <1>5, DispatchedAllIn
  <2>2. QED
    BY <2>1 DEF DispatchedStepwise
<1>7. f[1] = DispatchInput(f[0], s[1], event)
  BY <1>3, <1>6
<1>8. QED
  BY <1>1, <1>3, <1>4, <1>6, <1>7

\* The queue without one of its events: who waited for it is no longer armed.
TakenFrom(w, q) == [w EXCEPT !.queue = @ \ {q}]

LEMMA TakenReady ==
  ASSUME NEW g, NEW w \in Ready(g, {}), NEW q \in w.queue, ~w.failed
  PROVE  /\ Stays(g, w, TakenFrom(w, q)) /\ TakenFrom(w, q).entity = w.entity
         /\ TakenFrom(w, q).failed = w.failed
         /\ TakenFrom(w, q) \in Ready(g, {q.target})
         /\ \/ q.target # q.caller
            \/ q.input \notin {"__timer_fire", "EnableRefire"}
            \/ Resolvable(w, q.target) /\ w.entity[q.target].class = "logic_timer"
               /\ q.input # "__timer_fire"
            \/ Resolvable(w, q.target) /\ w.entity[q.target].class = "logic_relay"
               /\ q.input # "EnableRefire"
            \/ Resolvable(w, q.target)
               /\ w.entity[q.target].class \notin {"logic_timer", "logic_relay"}
            \/ ~Resolvable(w, q.target)
            => TakenFrom(w, q) \in Ready(g, {})
<1> DEFINE v == TakenFrom(w, q)
           queue == w.queue \ {q}
<1>1. w \in Good(g) /\ Direct(w) /\ \A h : Resolvable(w, h) => ArmedAt(w, h)
  BY DEF Ready
<1>2. v = [w EXCEPT !.queue = queue]
  BY DEF TakenFrom
<1>3. queue \subseteq w.queue
  OBVIOUS
<1> HIDE DEF v, queue
<1>4. /\ Stays(g, w, v) /\ v.entity = w.entity /\ v.failed = w.failed
      /\ v.queue = queue /\ v \in Good(g)
  BY <1>1, <1>2, <1>3, FewerEventsGood DEF Stays
<1>5. Direct(v)
  BY <1>1, <1>3, <1>4 DEF Direct
<1>6. \A h : Resolvable(v, h) <=> Resolvable(w, h)
  BY <1>4 DEF Stays
<1>7. ASSUME NEW h, Resolvable(w, h),
             \/ q.target # h \/ q.caller # h
             \/ w.entity[h].class # "logic_timer" /\ w.entity[h].class # "logic_relay"
             \/ w.entity[h].class = "logic_timer" /\ q.input # "__timer_fire"
             \/ w.entity[h].class = "logic_relay" /\ q.input # "EnableRefire"
      PROVE  ArmedAt(v, h)
  <2>1. ArmedAt(w, h)
    BY <1>1, <1>7
  <2>2. CASE q.target # h \/ q.caller # h
    <3>1. \A input : Own(v, h, input) = Own(w, h, input)
      BY <1>4, <2>2 DEF Own, queue
    <3>2. QED
      BY <1>4, <2>1, <3>1 DEF ArmedAt, TimerArmed
  <2>3. CASE w.entity[h].class # "logic_timer" /\ w.entity[h].class # "logic_relay"
    BY <1>4, <2>3 DEF ArmedAt
  <2>4. CASE w.entity[h].class = "logic_timer" /\ q.input # "__timer_fire"
    <3>1. Own(v, h, "__timer_fire") = Own(w, h, "__timer_fire")
      BY <1>4, <2>4 DEF Own, queue
    <3>2. QED
      BY <1>4, <2>1, <2>4, <3>1 DEF ArmedAt, TimerArmed
  <2>5. CASE w.entity[h].class = "logic_relay" /\ q.input # "EnableRefire"
    <3>1. Own(v, h, "EnableRefire") = Own(w, h, "EnableRefire")
      BY <1>4, <2>5 DEF Own, queue
    <3>2. QED
      BY <1>4, <2>1, <2>5, <3>1 DEF ArmedAt
  <2>6. QED
    BY <1>7, <2>2, <2>3, <2>4, <2>5
<1>8. v \in Ready(g, {q.target})
  BY <1>4, <1>5, <1>6, <1>7 DEF Ready
<1>9. ASSUME \/ q.target # q.caller
             \/ q.input \notin {"__timer_fire", "EnableRefire"}
             \/ Resolvable(w, q.target) /\ w.entity[q.target].class = "logic_timer"
                /\ q.input # "__timer_fire"
             \/ Resolvable(w, q.target) /\ w.entity[q.target].class = "logic_relay"
                /\ q.input # "EnableRefire"
             \/ Resolvable(w, q.target)
                /\ w.entity[q.target].class \notin {"logic_timer", "logic_relay"}
             \/ ~Resolvable(w, q.target)
      PROVE  v \in Ready(g, {})
  <2>1. ASSUME NEW h, Resolvable(w, h) PROVE ArmedAt(v, h)
    BY <1>7, <1>9, <2>1
  <2>2. QED
    BY <1>4, <1>5, <1>6, <2>1 DEF Ready
<1>10. QED
  BY <1>4, <1>8, <1>9 DEF v

-----------------------------------------------------------------------------
(* Timers that are spawned, and start.                                      *)

\* Among the entities in X there may be enabled timers that do not run yet.
Starting(g, X) ==
  {w \in Good(g) :
     w.failed \/ (/\ Direct(w)
                  /\ \A h : Resolvable(w, h) =>
                       \/ ArmedAt(w, h)
                       \/ /\ h \in X /\ w.entity[h].enabled
                          /\ w.entity[h].class = "logic_timer")}

LEMMA StartingNone ==
  ASSUME NEW g
  PROVE  Starting(g, {}) = Ready(g, {})
BY DEF Starting, Ready

LEMMA StartingSteps ==
  ASSUME NEW g, NEW X, NEW Y, NEW w \in Starting(g, X), NEW v, Steps(g, w, v, Y),
         v.failed \/ \A h \in Y : Resolvable(v, h) => ArmedAt(v, h)
  PROVE  v \in Starting(g, X \ Y)
<1>1. v \in Good(g) /\ (w.failed => v.failed) /\ (v.failed \/ Frame(w, v, Y))
  BY DEF Steps
<1>2. CASE v.failed
  BY <1>1, <1>2 DEF Starting
<1>3. CASE ~v.failed
  <2>1. Frame(w, v, Y) /\ Direct(w)
    BY <1>1, <1>3 DEF Starting
  <2>2. ASSUME NEW h, Resolvable(v, h), ~ArmedAt(v, h)
        PROVE  /\ h \in X \ Y /\ v.entity[h].enabled
               /\ v.entity[h].class = "logic_timer"
    <3>1. h \notin Y
      BY <1>3, <2>2
    <3>2. /\ Resolvable(w, h) /\ SameTiming(w.entity[h], v.entity[h])
          /\ Own(v, h, "__timer_fire") = Own(w, h, "__timer_fire")
          /\ Own(w, h, "EnableRefire") \subseteq Own(v, h, "EnableRefire")
      BY <2>1, <2>2, <3>1 DEF Frame
    <3>3. TimerArmed(w, h) => TimerArmed(v, h)
      BY <3>2 DEF TimerArmed, SameTiming
    <3>4. ~ArmedAt(w, h)
      BY <2>2, <3>2, <3>3 DEF ArmedAt, SameTiming
    <3>5. QED
      BY <1>1, <1>3, <3>1, <3>2, <3>4 DEF Starting, SameTiming
  <2>3. Direct(v)
    BY <2>1 DEF Frame
  <2>4. QED
    BY <1>1, <2>2, <2>3 DEF Starting
<1>4. QED
  BY <1>2, <1>3

LEMMA StartingStay ==
  ASSUME NEW g, NEW X, NEW w \in Starting(g, X), NEW v, Steps(g, w, v, {})
  PROVE  v \in Starting(g, X)
<1>1. v \in Starting(g, X \ {})
  BY StartingSteps
<1>2. X \ {} = X
  OBVIOUS
<1>3. QED
  BY <1>1, <1>2

\* An entity that is activated is armed.
LEMMA ActivatedStarts ==
  ASSUME NEW g, NEW X, NEW w \in Starting(g, X), NEW h, Resolvable(w, h),
         tick \in Nat
  PROVE  Activated(w, h) \in Starting(g, X \ {h})
<1> DEFINE v == Activated(w, h)
           e == w.entity[h]
           event == Internal(h, "__relay_spawn")
           spawned == ScheduleEvent(w, event, 1)
<1>1. w \in Good(g) /\ h \in Handles
  BY WorldParts DEF Starting, Good, Resolvable
<1>2. CASE w.failed \/ ArmedAt(w, h)
  <2>1. w \in Starting(g, X \ {h})
    BY <1>2 DEF Starting
  <2>2. CASE v = w
    BY <2>1, <2>2
  <2>3. CASE v = spawned
    <3>1. event \in Events /\ event.input # "__timer_fire" /\ event.target = h
      BY <1>1, InternalEvents DEF Internal, Event
    <3>2. PICK d \in Nat : d = 1
      OBVIOUS
    <3> HIDE DEF event
    <3>3. Steps(g, w, ScheduleEvent(w, event, d), {})
      BY <1>1, <3>1, ScheduleSteps
    <3>4. Steps(g, w, v, {})
      BY <2>3, <3>2, <3>3
    <3> HIDE DEF v
    <3>5. v \in Starting(g, X \ {h})
      BY <2>1, <3>4, StartingStay
    <3>6. QED
      BY <3>5 DEF v
  <2>4. CASE ~w.failed /\ e.class = "logic_timer" /\ v = ResetTimer(w, h)
    <3>1. Steps(g, w, v, {h}) /\ (v.failed \/ ArmedAt(v, h))
      BY <1>1, <2>4, ResetTimerSteps
    <3> HIDE DEF v
    <3>2. v \in Starting(g, X \ {h})
      BY <3>1, StartingSteps
    <3>3. QED
      BY <3>2 DEF v
  <2>5. \/ v = w \/ v = spawned
        \/ ~w.failed /\ e.class = "logic_timer" /\ v = ResetTimer(w, h)
    BY DEF Activated
  <2>6. QED
    BY <2>2, <2>3, <2>4, <2>5
<1>3. CASE ~w.failed /\ ~ArmedAt(w, h)
  <2>1. e.enabled /\ e.class = "logic_timer"
    BY <1>3 DEF Starting
  <2>2. v = ResetTimer(w, h)
    BY <1>3, <2>1 DEF Activated
  <2>3. Steps(g, w, v, {h}) /\ (v.failed \/ ArmedAt(v, h))
    BY <1>1, <2>1, <2>2, ResetTimerSteps
  <2> HIDE DEF v
  <2>4. v \in Starting(g, X \ {h})
    BY <2>3, StartingSteps
  <2>5. QED
    BY <2>4 DEF v
<1>4. QED
  BY <1>2, <1>3

\* The handles creation_order lists after the first n.
Late(n, v) == {v.order[i] : i \in (n + 1)..Len(v.order)}

\* Of the entities created, the enabled timers are yet to start.
LEMMA CreatedStarts ==
  ASSUME NEW g, NEW n \in Nat, NEW v, v \in Starting(g, Late(n, v)), Grown(n, v),
         NEW d \in Definitions
  PROVE  /\ Grown(n, Created(v, d))
         /\ Created(v, d) \in Starting(g, Late(n, Created(v, d)))
<1> DEFINE u == Created(v, d)
<1>1. v \in Good(g)
  BY DEF Starting
<1>2. u \in Good(g) /\ Grown(n, u) /\ (u = Fail(v) \/ Adds(g, v, u))
  BY <1>1, CreatedGrown, CreatedAdds
<1> HIDE DEF u
<1>3. CASE u = Fail(v)
  <2>1. u.failed
    BY <1>1, <1>3, FailGood
  <2>2. QED
    BY <1>2, <2>1 DEF Starting, u
<1>4. CASE Adds(g, v, u)
  <2>1. PICK h \in Handles :
          /\ Resolvable(u, h) /\ u.order = Append(v.order, h)
          /\ h \notin Occupied(v) /\ Occupied(u) = Occupied(v) \cup {h}
          /\ u.entity[h].waiting = FALSE /\ u.entity[h].fire = NoTick
    BY <1>4 DEF Adds
  <2>2. /\ u.queue = v.queue /\ u.failed = v.failed
        /\ \A i \in Occupied(v) : u.entity[i] = v.entity[i]
    BY <1>4 DEF Adds
  <2>3. v.order \in Seq(Handles) /\ Len(v.order) \in Nat
    BY <1>1, WorldParts, LenProperties DEF Good
  <2>4. Len(v.order) >= n
    BY DEF Grown
  <2>5. Late(n, u) = Late(n, v) \cup {h}
    <3>1. /\ Len(u.order) = Len(v.order) + 1
          /\ \A i \in 1..Len(v.order) : u.order[i] = v.order[i]
          /\ u.order[Len(v.order) + 1] = h
      BY <2>1, <2>3
    <3>2. \A i : i \in (n + 1)..(Len(v.order) + 1) <=>
                   i \in (n + 1)..Len(v.order) \/ i = Len(v.order) + 1
      BY <2>3, <2>4
    <3>3. \A i \in (n + 1)..Len(v.order) : i \in 1..Len(v.order)
      BY <2>3
    <3>4. QED
      BY <3>1, <3>2, <3>3 DEF Late
  <2>6. CASE u.failed
    BY <1>2, <2>6 DEF Starting, u
  <2>7. CASE ~u.failed
    <3>1. Direct(v) /\ Owned(v)
      BY <1>1, <2>2, <2>7 DEF Starting, Good, Sound
    <3>2. Direct(u)
      BY <2>2, <3>1 DEF Direct
    <3>3. \A i, input : Own(u, i, input) = Own(v, i, input)
      BY <2>2 DEF Own
    <3>4. \A input : Own(u, h, input) = {}
      <4>1. h # NoHandle /\ ~Resolvable(v, h)
        BY <2>1, NoHandleIsNone DEF Resolvable
      <4>2. \A q \in v.queue : ~(q.target = h /\ q.caller = h)
        BY <3>1, <4>1 DEF Owned
      <4>3. QED
        BY <3>3, <4>2 DEF Own
    <3>5. \/ ArmedAt(u, h)
          \/ u.entity[h].enabled /\ u.entity[h].class = "logic_timer"
      BY <2>1, <3>4 DEF ArmedAt, TimerArmed
    <3>6. ASSUME NEW i, Resolvable(u, i), i # h, ~ArmedAt(u, i)
          PROVE  i \in Late(n, u) /\ u.entity[i].enabled
                 /\ u.entity[i].class = "logic_timer"
      <4>1. i \in Occupied(v) /\ u.entity[i] = v.entity[i]
        BY <2>1, <2>2, <3>6 DEF Resolvable
      <4>2. Resolvable(v, i) /\ ~ArmedAt(v, i)
        BY <3>3, <3>6, <4>1 DEF Resolvable, ArmedAt, TimerArmed
      <4>3. QED
        BY <2>2, <2>5, <2>7, <4>1, <4>2 DEF Starting
    <3>7. QED
      BY <1>2, <2>5, <3>2, <3>5, <3>6 DEF Starting, u
  <2>8. QED
    BY <2>6, <2>7
<1>5. QED
  BY <1>2, <1>3, <1>4

LEMMA SpawnOneReady ==
  ASSUME NEW g, NEW w \in Ready(g, {}), NEW d \in Definitions, tick \in Nat
  PROVE  SpawnOne(w, d) \in Ready(g, {})
<1> DEFINE made == Created(w, d)
           n == Len(w.order)
<1>1. w \in Good(g) /\ w \in Starting(g, {}) /\ w.order \in Seq(Handles) /\ n \in Nat
  BY StartingNone, WorldParts, LenProperties DEF Ready, Good
<1>2. made = Fail(w) \/ Adds(g, w, made)
  BY <1>1, CreatedAdds
<1>3. CASE made = Fail(w)
  <2>1. made.failed /\ made \in Good(g)
    BY <1>1, <1>3, FailGood
  <2>2. QED
    BY <2>1 DEF SpawnOne, Ready
<1>4. CASE Adds(g, w, made)
  <2>1. PICK h \in Handles : Resolvable(made, h) /\ made.order = Append(w.order, h)
    BY <1>4 DEF Adds
  <2>2. Last(made.order) = h /\ Len(made.order) = n + 1 /\ made.order[n + 1] = h
    BY <1>1, <2>1 DEF Last
  <2>3. Late(n, w) = {} /\ Grown(n, w)
    BY <1>1 DEF Late, Grown
  <2>4. made \in Starting(g, Late(n, made))
    BY <1>1, <2>3, CreatedStarts
  <2>5. Late(n, made) = {h}
    BY <1>1, <2>2 DEF Late
  <2>6. SpawnOne(w, d) = IF made.failed THEN made ELSE Activated(made, h)
    BY <2>2 DEF SpawnOne
  <2> HIDE DEF made
  <2>7. Activated(made, h) \in Starting(g, {h} \ {h})
    BY <2>1, <2>4, <2>5, ActivatedStarts
  <2>8. {h} \ {h} = {}
    OBVIOUS
  <2>9. made.failed => made \in Ready(g, {})
    BY <2>4 DEF Starting, Ready
  <2>10. QED
    BY <2>6, <2>7, <2>8, <2>9, StartingNone
<1>5. QED
  BY <1>2, <1>3, <1>4

LEMMA InitialParentSteps ==
  ASSUME NEW g, NEW w \in Good(g), NEW h
  PROVE  Steps(g, w, InitialParent(w, h), {})
<1> DEFINE found == ResolveTarget(w, w.entity[h].parentName, NoHandle, NoHandle)
<1>1. InitialParent(w, h) \in {w, SetParent(w, h, found[1])}
  BY DEF InitialParent
<1> HIDE DEF found
<1>2. QED
  BY <1>1, SetParentSteps, StepsSelf

\* A map's timers all run when it is spawned.
LEMMA SpawnMapReady ==
  ASSUME NEW g, NEW w \in Ready(g, {}), NEW definitions \in Seq(Definitions),
         tick \in Nat
  PROVE  SpawnMap(w, definitions) \in Ready(g, {})
<1> DEFINE n == Len(w.order)
           made == CreatedAll(w, definitions)
           new == SubSeq(made.order, n + 1, Len(made.order))
           parented == ParentedAll(made, Reverse(new))
           activated == ActivatedAll(parented, new)
<1>1. SpawnMap(w, definitions) = IF made.failed THEN made ELSE activated
  BY DEF SpawnMap, CreatedAll, ParentedAll, ActivatedAll
<1>2. n \in Nat /\ w \in Good(g) /\ w \in Starting(g, {})
  BY StartingNone, WorldParts, LenProperties DEF Ready, Good
<1>3. made \in Good(g) /\ Grown(n, made) /\ made \in Starting(g, Late(n, made))
  <2> DEFINE W == {v \in Good(g) : Grown(n, v) /\ v \in Starting(g, Late(n, v))}
  <2>1. w \in W
    BY <1>2 DEF Grown, Late, Starting
  <2>2. \A v \in W, d \in Definitions : Created(v, d) \in W
    BY <1>2, CreatedStarts DEF Starting
  <2> HIDE DEF W
  <2>3. made \in W
    BY <2>1, <2>2, CreatedAllIn
  <2>4. QED
    BY <2>3 DEF W
<1> HIDE DEF made
<1> DEFINE R == {h \in Handles : Resolvable(made, h)}
           m == Len(new)
<1>4. new \in Seq(R) /\ Late(n, made) = {new[i] : i \in 1..m}
  <2>1. made.order \in Seq(Handles) /\ Len(made.order) \in Nat
        /\ Len(made.order) >= n
    BY <1>3, WorldParts, LenProperties DEF Good, Grown
  <2>2. \A i \in (n + 1)..Len(made.order) : made.order[i] \in R
    BY <1>2, <1>3, <2>1, ElementOfSeq DEF Grown
  <2> HIDE DEF R, n
  <2>3. new \in Seq(R)
    BY <1>2, <2>1, <2>2
  <2>4. m = Len(made.order) - n /\ \A i \in 1..m : new[i] = made.order[n + i]
    BY <1>2, <2>1
  <2>5. \A j \in (n + 1)..Len(made.order) : j - n \in 1..m /\ made.order[j] = new[j - n]
    BY <1>2, <2>1, <2>4
  <2>6. \A i \in 1..m : n + i \in (n + 1)..Len(made.order)
    BY <1>2, <2>1, <2>4
  <2> HIDE DEF new, m
  <2>7. Late(n, made) = {new[i] : i \in 1..m}
    <3>1. Late(n, made) \subseteq {new[i] : i \in 1..m}
      BY <2>5 DEF Late
    <3>2. ASSUME NEW i \in 1..m PROVE new[i] \in Late(n, made)
      BY <2>4, <2>6 DEF Late
    <3>3. QED
      BY <3>1, <3>2
  <2>8. QED
    BY <2>3, <2>7
<1> HIDE DEF new
<1>5. Reverse(new) \in Seq(R) /\ m \in Nat /\ \A i \in 1..m : new[i] \in R
  <2> HIDE DEF R
  <2>1. QED
    BY <1>4, LenProperties, ElementOfSeq DEF Reverse
<1> DEFINE L(i) == {new[j] : j \in (i + 1)..m}
           V == {v \in Starting(g, L(0)) : Stays(g, made, v)}
<1>6. made \in V
  <2>1. L(0) = Late(n, made)
    BY <1>4
  <2>2. QED
    BY <1>3, <2>1 DEF Stays
<1>7. ASSUME NEW v \in V, NEW h \in R PROVE InitialParent(v, h) \in V
  <2>1. v \in Good(g) /\ v \in Starting(g, L(0)) /\ Stays(g, made, v)
    BY DEF Stays
  <2>2. Stays(g, v, InitialParent(v, h)) /\ Steps(g, v, InitialParent(v, h), {})
    BY <2>1, InitialParentStays, InitialParentSteps
  <2> HIDE DEF L
  <2>3. InitialParent(v, h) \in Starting(g, L(0))
    BY <2>1, <2>2, StartingStay
  <2>4. Stays(g, made, InitialParent(v, h))
    BY <2>1, <2>2, StaysTrans
  <2>5. QED
    BY <2>3, <2>4
<1> HIDE DEF V
<1>8. parented \in V
  <2> HIDE DEF R, L
  <2>1. QED
    BY <1>5, <1>6, <1>7, ParentedAllIn
<1> HIDE DEF parented
<1> DEFINE W == {v \in Good(g) : Stays(g, made, v)}
<1>9. parented \in W /\ parented \in Starting(g, L(0))
  BY <1>8 DEF V, Stays
<1>10. ASSUME NEW v \in W, NEW h \in R PROVE Activated(v, h) \in W
  <2>1. v \in Good(g) /\ Stays(g, made, v) /\ Resolvable(v, h)
    BY DEF Stays
  <2>2. Stays(g, v, Activated(v, h))
    BY <2>1, ActivatedStays
  <2>3. Stays(g, made, Activated(v, h))
    BY <2>1, <2>2, StaysTrans
  <2>4. QED
    BY <2>3 DEF Stays
<1>11. \A v \in W, h \in R : v \in Good(g) /\ Resolvable(v, h)
  BY DEF Stays
<1> HIDE DEF W, R, L
<1>12. PICK f : /\ f[0] = parented /\ \A i \in 0..m : f[i] \in W
                /\ \A i \in 1..m : f[i] = Activated(f[i - 1], new[i])
                /\ activated = f[m]
  <2>1. ActivatedStepwise(W, parented, new)
    BY <1>4, <1>9, <1>10, ActivatedAllIn
  <2>2. QED
    BY <2>1 DEF ActivatedStepwise
<1> HIDE DEF activated, m
<1>13. \A i \in 1..m : L(i - 1) \ {new[i]} \subseteq L(i)
  <2>1. \A i \in 1..m : \A j \in ((i - 1) + 1)..m : j = i \/ j \in (i + 1)..m
    BY <1>5
  <2>2. QED
    BY <2>1 DEF L
<1> DEFINE P == {i \in Nat : i <= m => f[i] \in Starting(g, L(i))}
<1>14. Nat \subseteq P
  <2>1. 0 \in P
    BY <1>9, <1>12
  <2>2. ASSUME NEW i \in Nat, i \in P PROVE i + 1 \in P
    <3>1. SUFFICES ASSUME i + 1 <= m PROVE f[i + 1] \in Starting(g, L(i + 1))
      BY <2>2
    <3>2. /\ i \in 0..m /\ i + 1 \in 1..m /\ (i + 1) - 1 = i /\ i <= m
      BY <1>5, <3>1
    <3>3. f[i] \in Starting(g, L(i)) /\ f[i + 1] = Activated(f[i], new[i + 1])
      BY <1>12, <2>2, <3>2
    <3>4. Resolvable(f[i], new[i + 1])
      BY <1>5, <1>11, <1>12, <3>2
    <3>5. f[i + 1] \in Starting(g, L(i) \ {new[i + 1]})
      BY <3>3, <3>4, ActivatedStarts
    <3>6. L(i) \ {new[i + 1]} \subseteq L(i + 1)
      BY <1>13, <3>2
    <3>7. QED
      BY <3>5, <3>6 DEF Starting
  <2> HIDE DEF P
  <2>3. QED
    BY <2>1, <2>2, SetInduction
<1>15. activated \in Starting(g, L(m))
  BY <1>5, <1>12, <1>14
<1>16. L(m) = {}
  BY <1>5 DEF L
<1>17. made.failed => made \in Ready(g, {})
  BY <1>3 DEF Starting, Ready
<1>18. QED
  BY <1>1, <1>15, <1>16, <1>17, StartingNone

-----------------------------------------------------------------------------
(* Timers and relays, from phase to phase and through a round restart.      *)

OnlyPreserved(w) ==
  \A h : Resolvable(w, h) => Preserved(w.entity[h].class)

\* The world, and the one a failed phase goes back to, is ready unless a
\* restart has cleared the queue; then only what it preserves is left.
TimingInv ==
  /\ restart \in {"none", "respawn"} => world \in Ready(world.generation, {})
  /\ restart = "none" => start.world \in Ready(world.generation, {})
  /\ restart = "remove" =>
       world.queue = {} /\ ((phase = "commands" /\ commands = 0) \/ OnlyPreserved(world))
  /\ restart = "removed" => world.queue = {} /\ OnlyPreserved(world)
  /\ restart = "lost" => Idle

LEMMA PreservedReady ==
  ASSUME NEW g, NEW w \in Good(g), w.queue = {}, OnlyPreserved(w)
  PROVE  w \in Ready(g, {})
<1>1. Direct(w)
  BY DEF Direct
<1>2. \A h : Resolvable(w, h) => ArmedAt(w, h)
  BY DEF OnlyPreserved, Preserved, ArmedAt
<1>3. QED
  BY <1>1, <1>2 DEF Ready

\* Every entity that is not preserved is marked, or the restart fails.
LEMMA MarkRemovalQueue ==
  ASSUME NEW w, NEW h, w.queue = {}
  PROVE  MarkRemoval(w, h).queue = {}
<1> DEFINE marked == UNION {Level(w, h)[n] : n \in 0..MaxDepth}
           queue == {q \in w.queue : ~(q.target \in marked /\ q.caller = q.target)}
           entity == [e \in Occupied(w) |->
                        IF e \in marked THEN [w.entity[e] EXCEPT !.pending = TRUE]
                        ELSE w.entity[e]]
           v == [w EXCEPT !.queue = queue, !.entity = entity]
<1>1. MarkRemoval(w, h) = IF ~Resolvable(w, h) THEN w
                          ELSE IF TooDeep(w, h) THEN Fail(w) ELSE v
  BY DEF MarkRemoval
<1>2. Fail(w).queue = {}
  BY DEF Fail, World
<1>3. queue = {}
  OBVIOUS
<1> HIDE DEF entity, queue
<1>4. v.queue = {} \/ v.queue = w.queue
  BY <1>3
<1> HIDE DEF v
<1>5. QED
  BY <1>1, <1>2, <1>4

LEMMA RemovalsClear ==
  ASSUME NEW g, NEW w \in Good(g), w.queue = {}, ~w.failed,
         NEW s \in Seq(Handles),
         \A h : Resolvable(w, h) /\ ~Preserved(w.entity[h].class) => h \in ToSet(s)
  PROVE  /\ MarkedAll(w, s).queue = {}
         /\ MarkedAll(w, s).failed \/ OnlyPreserved(MarkedAll(w, s))
<1> DEFINE n == Len(s)
           v == MarkedAll(w, s)
<1>1. n \in Nat /\ \A i \in 1..n : s[i] \in Handles
  BY LenProperties, ElementOfSeq
<1>2. PICK f : /\ f[0] = w /\ \A i \in 0..n : f[i] \in Good(g)
               /\ \A i \in 1..n : f[i] = MarkRemoval(f[i - 1], s[i])
               /\ v = f[n]
  <2>1. \A u \in Good(g), h \in Handles : MarkRemoval(u, h) \in Good(g)
    BY MarkRemovalGood DEF Removes
  <2>2. MarkedStepwise(Good(g), w, s)
    BY <2>1, MarkedAllIn
  <2>3. QED
    BY <2>2 DEF MarkedStepwise
<1> HIDE DEF v, n
<1> DEFINE Clears(i) ==
             /\ f[i].queue = {}
             /\ f[i].failed \/ \A h : Resolvable(f[i], h) =>
                  /\ Resolvable(w, h) /\ f[i].entity[h].class = w.entity[h].class
                  /\ \A j \in 1..i : h # s[j]
           P == {i \in Nat : i <= n => Clears(i)}
<1>3. 0 \in P
  BY <1>2
<1>4. ASSUME NEW i \in Nat, i \in P PROVE i + 1 \in P
  <2>1. SUFFICES ASSUME i + 1 <= n PROVE Clears(i + 1)
    OBVIOUS
  <2>2. i \in 0..n /\ i + 1 \in 1..n /\ (i + 1) - 1 = i /\ i <= n
    BY <1>1, <2>1
  <2>3. PICK a, b, h : a = f[i] /\ b = f[i + 1] /\ h = s[i + 1]
    OBVIOUS
  <2>4. a \in Good(g) /\ b = MarkRemoval(a, h)
    BY <1>2, <2>2, <2>3
  <2>5. a.queue = {} /\ (a.failed \/ \A k : Resolvable(a, k) =>
                            /\ Resolvable(w, k) /\ a.entity[k].class = w.entity[k].class
                            /\ \A j \in 1..i : k # s[j])
    BY <1>4, <2>2, <2>3
  <2>6. b.queue = {}
    BY <2>4, <2>5, MarkRemovalQueue
  <2>7. Steps(g, a, b, {}) /\ (~b.failed => ~Resolvable(b, h))
    BY <2>4, MarkRemovalGood
  <2>8. ASSUME ~b.failed, NEW k, Resolvable(b, k)
        PROVE  /\ Resolvable(w, k) /\ b.entity[k].class = w.entity[k].class
               /\ \A j \in 1..(i + 1) : k # s[j]
    <3>1. /\ ~a.failed /\ Resolvable(a, k) /\ k # h
          /\ b.entity[k].class = a.entity[k].class
      BY <2>7, <2>8 DEF Steps, Frame, SameTiming
    <3>2. /\ Resolvable(w, k) /\ a.entity[k].class = w.entity[k].class
          /\ \A j \in 1..i : k # s[j]
      BY <2>5, <3>1
    <3>3. \A j \in 1..(i + 1) : j \in 1..i \/ j = i + 1
      BY <2>2
    <3>4. QED
      BY <2>3, <3>1, <3>2, <3>3
  <2>9. QED
    BY <2>3, <2>6, <2>8
<1>5. Clears(n)
  <2> HIDE DEF Clears
  <2>1. P \subseteq Nat /\ Nat \subseteq P
    <3> HIDE DEF P
    <3>1. Nat \subseteq P
      BY <1>3, <1>4, SetInduction
    <3>2. QED
      BY <3>1 DEF P
  <2>2. QED
    BY <1>1, <2>1
<1>6. ASSUME ~v.failed, NEW h, Resolvable(v, h) PROVE Preserved(v.entity[h].class)
  <2>1. /\ Resolvable(w, h) /\ v.entity[h].class = w.entity[h].class
        /\ \A j \in 1..n : h # s[j]
    BY <1>2, <1>5, <1>6
  <2>2. h \notin ToSet(s)
    BY <2>1 DEF ToSet, n
  <2>3. QED
    BY <2>1, <2>2
<1>7. QED
  BY <1>2, <1>5, <1>6 DEF OnlyPreserved, v

\* What is left when a phase is committed is as ready as it was.
LEMMA CommitReady ==
  ASSUME NEW g, NEW w \in Good(g), NEW v, v = CommitRemovals(w)
  PROVE  /\ w \in Ready(g, {}) => v \in Ready(v.generation, {})
         /\ OnlyPreserved(w) => OnlyPreserved(v)
         /\ v.queue = w.queue
<1>1. /\ v \in Good(v.generation) /\ v.failed = w.failed /\ v.queue = w.queue
      /\ \A h : Resolvable(v, h) => /\ Resolvable(w, h)
                                    /\ SameTiming(w.entity[h], v.entity[h])
  BY CommitRemovalsGood
<1>2. ASSUME w \in Ready(g, {}) PROVE v \in Ready(v.generation, {})
  <2>1. Direct(w) => Direct(v)
    BY <1>1 DEF Direct
  <2>2. ASSUME NEW h, Resolvable(v, h), ArmedAt(w, h) PROVE ArmedAt(v, h)
    <3>1. SameTiming(w.entity[h], v.entity[h]) /\ \A input : Own(v, h, input) = Own(w, h, input)
      BY <1>1, <2>2 DEF Own
    <3>2. TimerArmed(w, h) => TimerArmed(v, h)
      BY <3>1 DEF TimerArmed, SameTiming
    <3>3. QED
      BY <2>2, <3>1, <3>2 DEF ArmedAt, SameTiming
  <2>3. QED
    BY <1>1, <1>2, <2>1, <2>2 DEF Ready
<1>3. ASSUME OnlyPreserved(w) PROVE OnlyPreserved(v)
  BY <1>1, <1>3 DEF OnlyPreserved, SameTiming
<1>4. QED
  BY <1>1, <1>2, <1>3

\* The event a timer or a relay waits for is replaced, or no longer needed.
LEMMA ServedReady ==
  ASSUME NEW g, NEW w \in Ready(g, {}), ~w.failed, NEW q \in w.queue, tick \in Nat,
         NEW event \in Events, event.target = q.target, event.input = q.input
  PROVE  DispatchRecord(TakenFrom(w, q), event) \in Ready(g, {})
<1> DEFINE v == TakenFrom(w, q)
           h == q.target
           e == w.entity[h]
           own == q.target = q.caller /\ Resolvable(w, h)
<1>1. /\ w \in Good(g) /\ Direct(w) /\ Stays(g, w, v) /\ v.entity = w.entity
      /\ ~v.failed /\ v \in Ready(g, {h})
      /\ \A i : Resolvable(w, i) => ArmedAt(w, i)
  BY TakenReady DEF Ready
<1>2. CASE own /\ e.class = "logic_timer" /\ q.input = "__timer_fire"
  <2>1. Resolvable(v, h) /\ h # NoHandle /\ v.entity[h] = e
    BY <1>1, <1>2, NoHandleIsNone, WorldParts DEF Stays, Good, Resolvable
  <2>2. q \in Own(w, h, "__timer_fire") /\ ArmedAt(w, h)
    BY <1>1, <1>2 DEF Own
  <2>3. e.enabled
    BY <1>2, <2>2 DEF ArmedAt, TimerArmed
  <2> HIDE DEF v, e
  <2>4. DispatchRecord(v, event) = DispatchInput(v, h, event)
    BY <1>1, <2>1, DispatchedOne DEF Stays
  <2>5. DispatchInput(v, h, event) = ResetTimer(FireOutput(v, h, "OnTimer", h, h), h)
    BY <1>1, <1>2, <2>1, <2>3 DEF DispatchInput, ClassInput, TimerInput
  <2>6. ResetTimer(FireOutput(v, h, "OnTimer", h, h), h) \in Ready(g, {})
    BY <1>1, <1>2, <2>1, TimerFires
  <2>7. QED
    BY <2>4, <2>5, <2>6 DEF v
<1>3. CASE own /\ e.class = "logic_relay" /\ q.input = "EnableRefire"
  <2>1. Resolvable(v, h) /\ h # NoHandle /\ v.entity[h] = e
    BY <1>1, <1>3, NoHandleIsNone, WorldParts DEF Stays, Good, Resolvable
  <2> HIDE DEF v, e
  <2>2. DispatchRecord(v, event) = DispatchInput(v, h, event)
    BY <1>1, <2>1, DispatchedOne DEF Stays
  <2>3. DispatchInput(v, h, event) = WithWaiting(v, h, FALSE)
    BY <1>1, <1>3, <2>1 DEF DispatchInput, ClassInput, RelayInput, WithWaiting
  <2>4. WithWaiting(v, h, FALSE) \in Ready(g, {})
    BY <1>1, <1>3, <2>1, RelayRearms
  <2>5. QED
    BY <2>2, <2>3, <2>4 DEF v
<1>4. CASE /\ ~(own /\ e.class = "logic_timer" /\ q.input = "__timer_fire")
           /\ ~(own /\ e.class = "logic_relay" /\ q.input = "EnableRefire")
  <2>1. v \in Ready(g, {})
    BY <1>4, TakenReady
  <2> HIDE DEF v
  <2>2. DispatchRecord(v, event) \in Ready(g, {})
    BY <2>1, DispatchRecordReady
  <2>3. QED
    BY <2>2 DEF v
<1>5. QED
  BY <1>2, <1>3, <1>4

LEMMA OutcomeKeepsTiming ==
  ASSUME StageInv, WorldInv, TimingInv, restart \in {"none", "respawn"},
         NEW w \in Ready(world.generation, {}), Outcome(w)
  PROVE  TimingInv'
<1>1. CASE w.failed
  <2>1. /\ world' = start.world /\ start' = start /\ phase' = "idle"
        /\ restart' = IF restart = "none" THEN "none" ELSE "lost"
    BY <1>1 DEF Outcome, RollBack, Leave
  <2>2. start.world.generation = world.generation
    BY DEF WorldInv, Good
  <2>3. QED
    BY <2>1, <2>2 DEF TimingInv, Idle
<1>2. CASE ~w.failed
  <2>1. world' = w /\ start' = start /\ restart' = restart
    BY <1>2 DEF Outcome
  <2>2. w.generation = world.generation
    BY DEF Ready, Good
  <2>3. QED
    BY <2>1, <2>2 DEF TimingInv
<1>3. QED
  BY <1>1, <1>2

\* The first of the due events is one of them.
LEMMA FirstIsDue ==
  ASSUME WorldInv, DueEvents # {}
  PROVE  FirstEvent \in world.queue
<1>1. DueEvents \subseteq world.queue
  BY DEF DueEvents
<1>2. PICK S : S = DueEvents
  OBVIOUS
<1>3. S \subseteq Events /\ S # {} /\ \A q, r \in S : q.seq = r.seq => q = r
  BY <1>1, <1>2, WorldParts DEF WorldInv, Good, Sound, Queued
<1>4. \E q \in S : \A r \in S : r = q \/ Before(q, r)
  BY <1>3, FirstExists
<1>5. (CHOOSE q \in S : \A r \in S : r = q \/ Before(q, r)) \in S
  BY <1>4
<1>6. QED
  BY <1>1, <1>2, <1>5 DEF FirstEvent

\* Whatever a phase does to the world, but for the removals of a restart.
LEMMA OperationReady ==
  ASSUME \/ Spawn \/ Input \/ QueueInput \/ RemoveEntity \/ ChangeParent
         \/ EmitOutput \/ SetTargetname \/ ServiceEvent \/ RestartSpawn,
         StageInv, WorldInv, TimingInv
  PROVE  /\ restart \in {"none", "respawn"}
         /\ \E w \in Ready(world.generation, {}) : Outcome(w)
<1> DEFINE g == world.generation
<1>1. /\ world \in Good(g) /\ world \in Worlds /\ ~world.failed
      /\ restart \in {"none", "respawn"} => world \in Ready(g, {})
  BY DEF WorldInv, Good, TimingInv
<1>2. tick \in Nat
  BY LimitsAssumption DEF StageInv, LimitsAssumption
<1>3. Held \subseteq Handles
  BY <1>1, HeldType
<1> HIDE DEF g
<1>4. CASE Spawn
  <2>1. PICK d \in Spawnable : Command(SpawnOne(world, d))
    BY <1>4 DEF Spawn
  <2>2. restart = "none" /\ Outcome(SpawnOne(world, d))
    BY <2>1 DEF Command, Commanded
  <2>3. SpawnOne(world, d) \in Ready(g, {})
    BY <1>1, <1>2, <2>2, SpawnOneReady, MapAssumption DEF MapAssumption
  <2>4. QED
    BY <2>2, <2>3 DEF g
<1>5. CASE Input
  <2>1. PICK i \in Inputs, h \in Held : Command(DispatchRecord(world, InputRecord(i, h)))
    BY <1>5 DEF Input
  <2>2. restart = "none" /\ Outcome(DispatchRecord(world, InputRecord(i, h)))
    BY <2>1 DEF Command, Commanded
  <2>3. DispatchRecord(world, InputRecord(i, h)) \in Ready(g, {})
    BY <1>1, <1>2, <1>3, <2>2, InputRecordType, DispatchRecordReady
  <2>4. QED
    BY <2>2, <2>3 DEF g
<1>6. CASE QueueInput
  <2>1. PICK i \in Inputs, h \in Held, delay \in Delays :
          /\ restart = "none"
          /\ Commanded(ScheduleEvent(world, InputRecord(i, h), delay),
                       IF service THEN MaxCommands ELSE 1)
    BY <1>6 DEF QueueInput
  <2> DEFINE event == InputRecord(i, h)
  <2>2. delay \in Nat
    BY MapAssumption DEF MapAssumption
  <2>3. event \in Events /\ event.caller = NoHandle
    BY <1>3, InputRecordType
  <2>4. event.target # NoHandle => event.input # "__timer_fire"
    BY MapAssumption DEF MapAssumption, InputRecord, Event, NoName
  <2>5. Outcome(ScheduleEvent(world, event, delay))
    BY <2>1 DEF Commanded
  <2> HIDE DEF event
  <2>6. Steps(g, world, ScheduleEvent(world, event, delay), {})
    BY <1>1, <1>2, <2>2, <2>3, <2>4, ScheduleSteps
  <2>7. ScheduleEvent(world, event, delay) \in Ready(g, {})
    BY <1>1, <2>1, <2>6, StepsStayReady
  <2>8. QED
    BY <2>1, <2>5, <2>7 DEF g
<1>7. CASE RemoveEntity
  <2>1. PICK h \in Held : Command(MarkRemoval(world, h))
    BY <1>7 DEF RemoveEntity
  <2>2. restart = "none" /\ Outcome(MarkRemoval(world, h))
    BY <2>1 DEF Command, Commanded
  <2>3. MarkRemoval(world, h) \in Ready(g, {})
    BY <1>1, <2>2, RemovalReady
  <2>4. QED
    BY <2>2, <2>3 DEF g
<1>8. CASE ChangeParent
  <2>1. PICK child \in Held, parent \in Held \cup {NoHandle} :
          Command(SetParent(world, child, parent))
    BY <1>8 DEF ChangeParent
  <2>2. restart = "none" /\ Outcome(SetParent(world, child, parent))
    BY <2>1 DEF Command, Commanded
  <2>3. SetParent(world, child, parent) \in Ready(g, {})
    BY <1>1, <2>2, SetParentReady
  <2>4. QED
    BY <2>2, <2>3 DEF g
<1>9. CASE EmitOutput
  <2>1. PICK h \in Held, output \in Emitted :
          Command(FireOutput(world, h, output, h, h))
    BY <1>9 DEF EmitOutput
  <2>2. restart = "none" /\ Outcome(FireOutput(world, h, output, h, h))
    BY <2>1 DEF Command, Commanded
  <2>3. h \in HandleOrNone
    BY <1>3 DEF HandleOrNone
  <2>4. FireOutput(world, h, output, h, h) \in Ready(g, {})
    BY <1>1, <1>2, <2>2, <2>3, FireOutputReady
  <2>5. QED
    BY <2>2, <2>4 DEF g
<1>10. CASE SetTargetname
  <2>1. PICK h \in Held, name \in Names :
          Command(IF Resolvable(world, h)
                  THEN [world EXCEPT !.entity[h].name = name] ELSE world)
    BY <1>10 DEF SetTargetname
  <2> DEFINE named == [world EXCEPT !.entity[h].name = name]
             w == IF Resolvable(world, h) THEN named ELSE world
  <2>2. restart = "none" /\ Outcome(w)
    BY <2>1 DEF Command, Commanded
  <2>3. ASSUME Resolvable(world, h) PROVE named \in Ready(g, {})
    <3> DEFINE e == [world.entity[h] EXCEPT !.name = name]
    <3>1. h \in Occupied(world)
      BY <2>3 DEF Resolvable
    <3>2. world.entity[h] \in Entities
      BY <1>1, <3>1, EntityParts
    <3>3. name \in Words
      BY MapAssumption DEF MapAssumption, Words
    <3>4. /\ e \in Entities /\ e.pending = world.entity[h].pending
          /\ e.parent = world.entity[h].parent
          /\ e.children = world.entity[h].children
          /\ SameTiming(world.entity[h], e)
      BY <3>2, <3>3 DEF Entities, SameTiming
    <3>5. named = WithEntity(world, h, e)
      BY DEF WithEntity
    <3> HIDE DEF named, e, w
    <3>6. Steps(g, world, named, {})
      BY ONLY <1>1, <3>1, <3>4, <3>5, FieldSteps
    <3>7. QED
      BY <1>1, <2>2, <3>6, StepsStayReady
  <2>4. w \in Ready(g, {})
    BY <1>1, <2>2, <2>3
  <2> HIDE DEF w
  <2>5. QED
    BY <2>2, <2>4 DEF g
<1>11. CASE ServiceEvent
  <2> DEFINE q == FirstEvent
             served == DispatchRecord(TakenFrom(world, q), OfNow(q))
             w == IF serviced >= MaxEventsPerTick THEN Fail(world) ELSE served
  <2>1. phase = "drain" /\ DueEvents # {} /\ Outcome(w)
    BY <1>11 DEF ServiceEvent, TakenFrom
  <2>2. q \in world.queue
    BY <2>1, FirstIsDue
  <2>3. restart \in {"none", "respawn"}
    BY <2>1, <2>2 DEF StageInv, TimingInv, Idle, WorldInv
  <2> HIDE DEF q
  <2>4. q \in Events
    BY <1>1, <2>2, WorldParts
  <2>5. OfNow(q) \in Events /\ OfNow(q).target = q.target /\ OfNow(q).input = q.input
    BY <2>4, OfNowType DEF OfNow, Events
  <2>6. served \in Ready(g, {})
    BY <1>1, <1>2, <2>2, <2>3, <2>5, ServedReady
  <2>7. Fail(world) \in Ready(g, {})
    BY <1>1, FailGood DEF Ready
  <2> HIDE DEF served
  <2>8. w \in Ready(g, {})
    BY <2>6, <2>7
  <2> HIDE DEF w
  <2>9. QED
    BY <2>1, <2>3, <2>8 DEF g
<1>12. CASE RestartSpawn
  <2> DEFINE definitions == Kept(MapDefinitions,
                              {d \in ToSet(MapDefinitions) : ~Preserved(d.class)})
             w == SpawnMap(world, definitions)
  <2>1. restart = "respawn" /\ Outcome(w)
    BY <1>12 DEF RestartSpawn, Commanded
  <2>2. definitions \in Seq(Definitions)
    BY MapAssumption, KeptFacts DEF MapAssumption
  <2> HIDE DEF definitions
  <2>3. w \in Ready(g, {})
    BY <1>1, <1>2, <2>1, <2>2, SpawnMapReady
  <2> HIDE DEF w
  <2>4. QED
    BY <2>1, <2>3 DEF g
<1>13. QED
  BY <1>4, <1>5, <1>6, <1>7, <1>8, <1>9, <1>10, <1>11, <1>12 DEF g

LEMMA InitReady == Init => TimingInv
<1>1. SUFFICES ASSUME Init PROVE TimingInv
  OBVIOUS
<1> DEFINE g == [s \in Slots |-> 1]
<1>2. /\ restart = "none" /\ tick \in Nat /\ start.world = world
      /\ world = SpawnMap(EmptyWorld, MapDefinitions)
      /\ MapDefinitions \in Seq(Definitions)
  BY <1>1, MapAssumption DEF Init, MapAssumption
<1>3. EmptyWorld \in Good(g) /\ EmptyWorld.queue = {} /\ Occupied(EmptyWorld) = {}
  BY EmptyWorldGood DEF EmptyWorld, World, Occupied
<1> HIDE DEF g
<1>4. EmptyWorld \in Ready(g, {})
  BY <1>3, PreservedReady DEF OnlyPreserved, Resolvable
<1>5. world \in Ready(g, {})
  BY <1>2, <1>4, SpawnMapReady
<1>6. world.generation = g
  BY <1>5 DEF Ready, Good
<1>7. QED
  BY <1>2, <1>5, <1>6 DEF TimingInv

LEMMA RemovalsKeepTiming ==
  ASSUME StageInv, WorldInv, TimingInv, RestartRemovals
  PROVE  TimingInv'
<1> DEFINE S == {h \in Occupied(world) : /\ Resolvable(world, h)
                                         /\ ~Preserved(world.entity[h].class)}
           removals == Kept(world.order, S)
           w == MarkedAll(world, removals)
<1>1. /\ world \in Good(world.generation) /\ ~world.failed /\ world \in Worlds
      /\ restart = "remove" /\ world.queue = {}
  BY DEF WorldInv, TimingInv, Good, RestartRemovals
<1>2. Outcome(w)
  BY DEF RestartRemovals, MarkedAll, Commanded
<1>3. removals \in Seq(Handles) /\ ToSet(removals) = ToSet(world.order) \cap S
  <2>1. PICK T : T = S
    OBVIOUS
  <2>2. removals = Kept(world.order, T)
    BY <2>1
  <2> HIDE DEF S, removals
  <2>3. QED
    BY <1>1, <2>1, <2>2, WorldParts, KeptFacts
<1>4. ToSet(world.order) = Occupied(world)
  BY <1>1 DEF Good, Sound, Placed
<1> HIDE DEF removals
<1>5. \A h : Resolvable(world, h) /\ ~Preserved(world.entity[h].class)
               => h \in ToSet(removals)
  BY <1>3, <1>4 DEF Resolvable
<1>6. w.queue = {} /\ (w.failed \/ OnlyPreserved(w))
  BY <1>1, <1>3, <1>5, RemovalsClear
<1> HIDE DEF w
<1>7. CASE w.failed
  <2>1. restart' = "lost" /\ phase' = "idle"
    BY <1>1, <1>2, <1>7 DEF Outcome, Leave
  <2>2. QED
    BY <2>1 DEF TimingInv, Idle
<1>8. CASE ~w.failed
  <2>1. restart' = "remove" /\ world' = w
    BY <1>1, <1>2, <1>8 DEF Outcome
  <2>2. w.queue = {} /\ OnlyPreserved(w)
    BY <1>6, <1>8
  <2>3. world'.queue = {} /\ OnlyPreserved(world')
    BY <2>1, <2>2
  <2>4. OnlyPreserved(world)'
    BY <2>3 DEF OnlyPreserved, Resolvable, Occupied
  <2>5. QED
    BY <2>1, <2>3, <2>4 DEF TimingInv
<1>9. QED
  BY <1>7, <1>8

LEMMA CommitKeepsTiming ==
  ASSUME StageInv, WorldInv, TimingInv, CommitPhase
  PROVE  TimingInv'
<1> DEFINE w == CommitRemovals(world)
<1>1. /\ phase = "drain" /\ world' = w /\ start'.world = w /\ phase' = "idle"
      /\ restart' = CASE restart = "remove"  -> "removed"
                      [] restart = "respawn" -> "none"
                      [] OTHER               -> restart
  BY DEF CommitPhase, Leave
<1>2. world \in Good(world.generation)
  BY DEF WorldInv
<1>3. /\ world \in Ready(world.generation, {}) => w \in Ready(w.generation, {})
      /\ OnlyPreserved(world) => OnlyPreserved(w)
      /\ w.queue = world.queue
  BY <1>2, CommitReady
<1> HIDE DEF w
<1>4. restart \in {"none", "remove", "respawn"}
  BY <1>1 DEF StageInv, TimingInv, Idle
<1>5. CASE restart = "remove"
  <2>1. restart' = "removed" /\ w.queue = {} /\ OnlyPreserved(w)
    BY <1>1, <1>3, <1>5 DEF TimingInv
  <2>2. OnlyPreserved(world)' /\ world'.queue = {}
    BY <1>1, <2>1 DEF OnlyPreserved, Resolvable, Occupied
  <2>3. QED
    BY <2>1, <2>2 DEF TimingInv
<1>6. CASE restart \in {"none", "respawn"}
  <2>1. restart' = "none" /\ w \in Ready(w.generation, {})
    BY <1>1, <1>3, <1>6 DEF TimingInv
  <2>2. QED
    BY <1>1, <2>1 DEF TimingInv
<1>7. QED
  BY <1>4, <1>5, <1>6

LEMMA StepReady ==
  StageInv /\ WorldInv /\ TimingInv /\ [Next]_vars => TimingInv'
<1>1. SUFFICES ASSUME StageInv, WorldInv, TimingInv, [Next]_vars PROVE TimingInv'
  OBVIOUS
<1>2. world \in Good(world.generation)
  BY <1>1 DEF WorldInv
<1>3. CASE \/ Spawn \/ Input \/ QueueInput \/ RemoveEntity \/ ChangeParent
           \/ EmitOutput \/ SetTargetname \/ ServiceEvent \/ RestartSpawn
  <2>1. /\ restart \in {"none", "respawn"}
        /\ \E w \in Ready(world.generation, {}) : Outcome(w)
    BY <1>1, <1>3, OperationReady
  <2>2. QED
    BY <1>1, <2>1, OutcomeKeepsTiming
<1>4. CASE RestartRemovals
  BY <1>1, <1>4, RemovalsKeepTiming
<1>5. CASE CommitPhase
  BY <1>1, <1>5, CommitKeepsTiming
<1>6. CASE BeginPhase
  <2>1. restart = "none" /\ restart' = restart /\ world' = world /\ start'.world = world
    BY <1>6 DEF BeginPhase, Begin
  <2>2. QED
    BY <1>1, <2>1 DEF TimingInv
<1>7. CASE BeginRestart
  <2>1. /\ restart' = "remove" /\ world' = Cleared(world) /\ phase' = "commands"
        /\ commands' = 0
    BY <1>7 DEF BeginRestart, Begin
  <2>2. world'.queue = {}
    BY <2>1 DEF Cleared, World
  <2>3. QED
    BY <2>1, <2>2 DEF TimingInv
<1>8. CASE BeginRespawn
  <2> DEFINE w == Cleared(world)
  <2>1. restart = "removed" /\ restart' = "respawn" /\ world' = w
    BY <1>8 DEF BeginRespawn, Begin
  <2>2. w \in Good(world.generation) /\ w.queue = {} /\ w.entity = world.entity
    BY <1>2, ClearedGood DEF Cleared, World
  <2>3. OnlyPreserved(world)
    BY <1>1, <2>1 DEF TimingInv
  <2> HIDE DEF w
  <2>4. OnlyPreserved(w)
    BY <2>2, <2>3 DEF OnlyPreserved, Resolvable, Occupied
  <2>5. w \in Ready(world.generation, {}) /\ w.generation = world.generation
    BY <2>2, <2>4, PreservedReady DEF Good
  <2>6. QED
    BY <2>1, <2>5 DEF TimingInv
<1>9. CASE EndCommands
  <2>1. /\ phase = "commands" /\ (commands = 1 \/ (service /\ restart = "none"))
        /\ world' = world /\ start' = start /\ restart' = restart
        /\ phase' = "drain"
    BY <1>9 DEF EndCommands
  <2>2. restart = "lost" => Idle
    BY <1>1 DEF TimingInv
  <2>3. restart # "lost"
    BY <2>1, <2>2 DEF Idle
  <2>4. restart = "remove" => OnlyPreserved(world)
    BY <1>1, <2>1 DEF TimingInv
  <2>5. OnlyPreserved(world)' <=> OnlyPreserved(world)
    BY <2>1 DEF OnlyPreserved, Resolvable, Occupied
  <2>6. QED
    BY <1>1, <2>1, <2>3, <2>4, <2>5 DEF TimingInv
<1>10. CASE UNCHANGED vars
  <2>1. /\ world' = world /\ start' = start /\ restart' = restart /\ phase' = phase
        /\ commands' = commands
    BY <1>10 DEF vars
  <2>2. OnlyPreserved(world)' <=> OnlyPreserved(world)
    BY <2>1 DEF OnlyPreserved, Resolvable, Occupied
  <2>3. QED
    BY <1>1, <2>1, <2>2 DEF TimingInv, Idle
<1>11. QED
  BY <1>1, <1>3, <1>4, <1>5, <1>6, <1>7, <1>8, <1>9, <1>10 DEF Next

LEMMA ReadyIsArmed == StageInv /\ WorldInv /\ TimingInv => TimersAndRelaysArmed
<1>1. SUFFICES ASSUME StageInv, WorldInv, TimingInv, restart \notin {"remove", "lost"},
                      NEW h \in Occupied(world), Resolvable(world, h)
               PROVE  LET e == world.entity[h]
                          firing == OwnEvents(h, "__timer_fire")
                      IN  /\ e.class = "logic_timer" =>
                               IF e.enabled
                               THEN Cardinality(firing) = 1
                                    /\ \A q \in firing : q.due = e.fire
                               ELSE firing = {} /\ e.fire = NoTick
                          /\ e.class = "logic_relay" /\ e.waiting =>
                               OwnEvents(h, "EnableRefire") # {}
  BY DEF TimersAndRelaysArmed
<1>2. world \in Ready(world.generation, {}) /\ ~world.failed
  <2>1. CASE restart = "removed"
    BY <1>1, <2>1, PreservedReady DEF TimingInv, WorldInv
  <2>2. CASE restart \in {"none", "respawn"}
    BY <1>1, <2>2 DEF TimingInv, WorldInv
  <2>3. QED
    BY <1>1, <2>1, <2>2 DEF StageInv
<1>3. ArmedAt(world, h)
  BY <1>1, <1>2 DEF Ready
<1>4. \A input : OwnEvents(h, input) = Own(world, h, input)
  BY DEF OwnEvents, Own
<1>5. \A q : Cardinality({q}) = 1
  BY FS_Singleton
<1>6. QED
  BY <1>3, <1>4, <1>5 DEF ArmedAt, TimerArmed

\* Any timer that is enabled has one event to fire it, when it says it will
\* fire, and any relay that is deaf an event to rearm it, whatever is done to
\* them, by commands, by events, by failed phases and by round restarts.
THEOREM TimersStayArmed == Spec => []TimersAndRelaysArmed
<1>1. QED
  BY InitSound, StepSound, InitReady, StepReady, ReadyIsArmed, PTL DEF Spec
=============================================================================
