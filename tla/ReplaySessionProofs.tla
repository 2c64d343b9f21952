------------------------ MODULE ReplaySessionProofs ------------------------
(***************************************************************************)
(* A replay session agrees with the timeline that open() computed, for     *)
(* every source of records, every limit, every rate and every sequence of  *)
(* calls.                                                                  *)
(***************************************************************************)
EXTENDS ReplaySession, FiniteSetTheorems, SequenceTheorems,
        WellFoundedInduction, TLAPS

-----------------------------------------------------------------------------
(* The invariant.                                                           *)

States == [body : Bodies, discontinuity : BOOLEAN]
Happenings == [tick : Nat, occurrence : Nat, ordinal : Nat, operation : Nat]

\* The places that a session has.
Places == 1..Len(source)

\* The record after a place leads from the state at that place to the state at
\* the next one, whoever replays it.
Replays(p) ==
  LET r == Applied(BeforeRecord(p - 1), source[p], p, log, FALSE)
  IN  r.ok /\ r.state = timeline[p]

\* What open() has built so far.
OpenedOK ==
  /\ source \in Seq(Records) /\ timeline \in Seq(States)
  /\ Len(timeline) = Len(source)
  /\ log \in Seq(Happenings) /\ Len(log) = LastState.body.events
  /\ \A p \in Places : Replays(p)
  /\ ready \in 0..Len(source) /\ terminal \in 0..Len(source)
  /\ tickRecords \subseteq Places

\* Where a tick begins, as far as a session may step; and the first ready state
\* is the first one.
PlacesOK ==
  /\ \A p \in Places : p \in tickRecords => source[p].tick # NoTick
  /\ \A p \in Places : source[p].tick # NoTick /\ ready <= p => p \in tickRecords
  /\ lifecycle = "Opening" =>
       \A p \in Places : source[p].tick # NoTick => p \in tickRecords
  /\ \A p \in Places : IsReady(timeline[p]) => ready # 0 /\ ready <= p

\* A checkpoint is the state at its place, and from the first ready state on
\* one is within reach of every place, the last one by the count of records.
CheckpointsOK ==
  /\ \A c \in checkpoints :
       /\ c.position \in 0..Len(source)
       /\ c = CheckpointOf(c.position, BeforeRecord(c.position))
  /\ \E c \in checkpoints : c.position = 0
  /\ IsFiniteSet(checkpoints) /\ Cardinality(checkpoints) <= MaxCheckpoints
  /\ sinceTicks \in Nat /\ sinceRecords \in Nat
  /\ ready # 0 =>
       /\ sinceRecords < MaxSeekRecords
       /\ \E c \in checkpoints : c.position = Len(source) - sinceRecords
       /\ \A target \in ready..Len(source) :
            \E c \in checkpoints :
              c.position <= target /\ target - c.position <= MaxSeekRecords

\* A state that is shown at a place differs from the one that open() computed
\* there by the mark at most.
Shown(s, p) ==
  /\ p \in Places /\ s \in States
  /\ s.body = timeline[p].body
  /\ timeline[p].discontinuity => s.discontinuity

\* Until a session is there it has no place, no call and no snapshot.
LifecycleOK ==
  /\ lifecycle \in {"Opening", "Signon", "Ready", "Ended", "Failed"}
  /\ playback \in {"Playing", "Paused"}
  /\ ~Session => /\ position = 0 /\ state = InitialState
                 /\ call = NoCall /\ run = NoRun /\ saved = {}
  /\ Session => ready # 0 /\ Shown(state, position)
  /\ refused = FALSE

\* What a reader of events has seen, while no call rolls over new ones.
DeliveryOK ==
  /\ delivered \in Nat /\ lastRange \in Ranges /\ report \in Ranges
  /\ lastDiscontinuity \in BOOLEAN
  /\ Session /\ call.op # "advance" => delivered = state.body.events

Kinds == {"none", "tick", "trailing", "seek"}

\* A loop over records has the state at the place it has come to, and ends
\* ahead of the session when it is to take it forward.
RunOK ==
  /\ call.op \in {"none", "advance", "seek"}
  /\ call.op = "none" => call = NoCall
  /\ call.op = "advance" => call.first = delivered
  /\ run.kind \in Kinds
  /\ run.kind = "none" => run = NoRun
  /\ run.kind = "seek" <=> call.op = "seek"
  /\ run.kind \in {"tick", "trailing"} =>
       call.op = "advance" /\ position < run.next /\ position < run.end
  /\ run.kind # "none" =>
       /\ run \in [kind : Kinds, state : States, next : Nat, end : Nat,
                   terminal : BOOLEAN]
       /\ run.end \in Places /\ run.next \in 1..run.end + 1
       /\ run.state.body = BeforeRecord(run.next - 1).body
       /\ run.next # 1 => Shown(run.state, run.next - 1)

Clocks(r, part, whole) ==
  /\ r \in Rates /\ whole \in Nat
  /\ part \in Nat \X (Nat \ {0}) /\ part[1] < part[2]

ClockOK == Clocks(rate, remainder, accumulated)

\* A snapshot is a session between two calls.
SavedOK ==
  /\ \A s, t \in saved : s = t
  /\ \A s \in saved :
       /\ Shown(s.state, s.position)
       /\ s.delivered = s.state.body.events
       /\ s.lifecycle \in {"Signon", "Ready", "Ended"}
       /\ s.playback \in {"Playing", "Paused"}
       /\ Clocks(s.rate, s.remainder, s.accumulated)

IInv ==
  /\ OpenedOK /\ PlacesOK /\ CheckpointsOK /\ LifecycleOK /\ DeliveryOK
  /\ RunOK /\ ClockOK /\ SavedOK

-----------------------------------------------------------------------------
(* Natural numbers.                                                         *)

\* A nonempty set of natural numbers has a least element.
LEMMA LeastExists ==
  ASSUME NEW S, S \subseteq Nat, S # {}
  PROVE  \E x \in S : \A y \in S : x <= y
<1>1. PICK x \in S : \A y \in S : <<y, x>> \notin OpToRel(<, Nat)
  BY NatLessThanWellFounded, WFMin
<1>2. \A y \in S : ~(y < x)
  BY <1>1 DEF OpToRel
<1>3. QED
  BY <1>2

\* Induction over the natural numbers, for sets.
LEMMA SetInduction ==
  ASSUME NEW P, 0 \in P, \A n \in Nat : n \in P => n + 1 \in P
  PROVE  Nat \subseteq P
<1>1. SUFFICES ASSUME Nat \ P # {} PROVE FALSE
  OBVIOUS
<1>2. PICK x \in Nat \ P : \A y \in Nat \ P : x <= y
  BY <1>1, LeastExists
<1>3. x - 1 \in Nat /\ x - 1 \notin Nat \ P
  BY <1>2
<1>4. QED
  BY <1>2, <1>3

LEMMA MinOf ==
  ASSUME NEW S, S \subseteq Nat, S # {}
  PROVE  Min(S) \in S /\ \A y \in S : Min(S) <= y
<1>1. PICK x \in S : \A y \in S : x <= y
  BY LeastExists
<1>2. QED
  BY <1>1 DEF Min

LEMMA MaxOf ==
  ASSUME NEW S, NEW n \in Nat, S \subseteq 0..n, S # {}
  PROVE  Max(S) \in S /\ \A y \in S : y <= Max(S)
<1> DEFINE T == {n - y : y \in S}
<1>0. \A y \in S : y \in Int
  OBVIOUS
<1>1. T \subseteq Nat /\ T # {}
  <2>1. PICK y \in S : TRUE
    OBVIOUS
  <2>2. n - y \in T
    BY <2>1
  <2>3. QED
    BY <2>2
<1>2. PICK t \in T : \A u \in T : t <= u
  BY <1>1, LeastExists
<1>3. PICK x \in S : t = n - x
  OBVIOUS
<1>4. \A y \in S : n - x <= n - y
  BY <1>2, <1>3
<1>5. ASSUME NEW y \in S PROVE x >= y
  <2>1. x \in Int /\ y \in Int
    BY <1>0
  <2>2. n - x <= n - y
    BY <1>4
  <2>3. QED
    BY <2>1, <2>2
<1>6. QED
  BY <1>5 DEF Max

-----------------------------------------------------------------------------
(* The operations of a record.                                              *)

\* What Operated tabulates, up to the n-th operation.
IsOperated(f, body, rec, ordinal, events, building, n) ==
  f = [i \in 0..n |->
         IF i = 0 THEN [ok |-> TRUE, terminal |-> FALSE, body |-> body,
                        log |-> events]
         ELSE OperationStep(f[i - 1], rec, ordinal, i, building)]

\* One operation takes d to e.
Steps(d, e, rec, ordinal, i, building) ==
  e = OperationStep(d, rec, ordinal, i, building)

\* The first n operations take a body and a log through the values of f.
Tabulates(f, body, rec, ordinal, events, building, n) ==
  /\ f[0].ok = TRUE /\ f[0].terminal = FALSE
  /\ f[0].body = body /\ f[0].log = events
  /\ \A i \in 1..n : Steps(f[i - 1], f[i], rec, ordinal, i, building)

\* Its values, one by one.
LEMMA OperatedAt ==
  ASSUME NEW f, NEW body, NEW rec, NEW ordinal, NEW events, NEW building,
         NEW n \in Nat, IsOperated(f, body, rec, ordinal, events, building, n)
  PROVE  /\ f[0] = [ok |-> TRUE, terminal |-> FALSE, body |-> body,
                    log |-> events]
         /\ Tabulates(f, body, rec, ordinal, events, building, n)
<1> DEFINE first == [ok |-> TRUE, terminal |-> FALSE, body |-> body,
                     log |-> events]
           step(i) == IF i = 0 THEN first
                      ELSE OperationStep(f[i - 1], rec, ordinal, i, building)
           h == [i \in 0..n |-> step(i)]
<1>1. f = h
  BY DEF IsOperated
<1> HIDE DEF first
<1>2. h[0] = first /\ \A i \in 1..n : h[i] = step(i)
  OBVIOUS
<1>3. \A i \in 1..n :
        step(i) = OperationStep(f[i - 1], rec, ordinal, i, building)
  OBVIOUS
<1> HIDE DEF h, step
<1>4. f[0] = first
  BY <1>1, <1>2
<1>5. \A i \in 1..n : f[i] = step(i)
  BY <1>1, <1>2
<1>6. \A i \in 1..n : Steps(f[i - 1], f[i], rec, ordinal, i, building)
  BY <1>3, <1>5 DEF Steps
<1>7. /\ first.ok = TRUE /\ first.terminal = FALSE
      /\ first.body = body /\ first.log = events
  BY DEF first
<1>8. first = [ok |-> TRUE, terminal |-> FALSE, body |-> body, log |-> events]
  BY DEF first
<1>9. QED
  BY <1>4, <1>6, <1>7, <1>8 DEF Tabulates

\* There is such a table for every length.
LEMMA OperatedExists ==
  ASSUME NEW body, NEW rec, NEW ordinal, NEW events, NEW building, NEW n \in Nat
  PROVE  \E f : IsOperated(f, body, rec, ordinal, events, building, n)
<1> DEFINE first == [ok |-> TRUE, terminal |-> FALSE, body |-> body,
                     log |-> events]
           Op(d, i) == OperationStep(d, rec, ordinal, i, building)
           Is(f, m) == IsOperated(f, body, rec, ordinal, events, building, m)
           P == {m \in Nat : \E f : Is(f, m)}
<1>0. \A f, m : Is(f, m) <=>
        f = [i \in 0..m |-> IF i = 0 THEN first ELSE Op(f[i - 1], i)]
  BY DEF IsOperated
<1>a. ASSUME NEW f, NEW m \in Nat, Is(f, m)
      PROVE  f[0] = first /\ \A i \in 1..m : f[i] = Op(f[i - 1], i)
  <2>1. /\ f[0] = first
        /\ Tabulates(f, body, rec, ordinal, events, building, m)
    BY <1>a, OperatedAt
  <2>2. QED
    BY <2>1 DEF Tabulates, Steps
<1> HIDE DEF first, Op, Is
<1>1. 0 \in P
  <2> DEFINE f == [i \in 0..0 |-> first]
  <2>1. f = [i \in 0..0 |-> IF i = 0 THEN first ELSE Op(f[i - 1], i)]
    OBVIOUS
  <2> HIDE DEF f
  <2>2. Is(f, 0)
    BY <1>0, <2>1
  <2>3. QED
    BY <2>2
<1>2. ASSUME NEW m \in Nat, m \in P PROVE m + 1 \in P
  <2>1. PICK g : Is(g, m)
    BY <1>2
  <2>2. g[0] = first /\ \A i \in 1..m : g[i] = Op(g[i - 1], i)
    BY <1>a, <2>1
  <2> DEFINE last == Op(g[m], m + 1)
             f == [i \in 0..(m + 1) |-> IF i <= m THEN g[i] ELSE last]
  <2> HIDE DEF last
  <2>3. \A i \in 0..(m + 1) : f[i] = IF i = 0 THEN first ELSE Op(f[i - 1], i)
    <3>1. TAKE i \in 0..(m + 1)
    <3>2. CASE i = 0
      BY <2>2, <3>2
    <3>3. CASE i \in 1..m
      <4>1. f[i] = g[i] /\ f[i - 1] = g[i - 1] /\ i # 0
        BY <3>3
      <4> HIDE DEF f
      <4>2. QED
        BY <2>2, <3>3, <4>1
    <3>4. CASE i = m + 1
      <4>1. f[i] = last /\ f[i - 1] = g[m] /\ i # 0
        BY <3>4
      <4> HIDE DEF f
      <4>2. QED
        BY <3>4, <4>1 DEF last
    <3>5. QED
      BY <3>2, <3>3, <3>4
  <2>4. f = [i \in 0..(m + 1) |-> IF i = 0 THEN first ELSE Op(f[i - 1], i)]
    <3> DEFINE h == [i \in 0..(m + 1) |-> IF i = 0 THEN first
                                          ELSE Op(f[i - 1], i)]
    <3>1. f = h
      BY <2>3
    <3>2. QED
      BY <3>1
  <2> HIDE DEF f
  <2>5. Is(f, m + 1)
    BY <1>0, <2>4
  <2>6. QED
    BY <2>5
<1>3. QED
  <2> HIDE DEF P
  <2>1. Nat \subseteq P
    BY <1>1, <1>2, SetInduction
  <2>2. QED
    BY <2>1 DEF P, Is

LEMMA OperatedSteps ==
  ASSUME NEW body, NEW rec, NEW ordinal, NEW events, NEW building,
         NEW n \in Nat, n = Len(rec.operations)
  PROVE  Tabulates(Operated(body, rec, ordinal, events, building),
                   body, rec, ordinal, events, building, n)
<1> DEFINE f == Operated(body, rec, ordinal, events, building)
<1>1. f = CHOOSE g : IsOperated(g, body, rec, ordinal, events, building, n)
  BY DEF Operated, IsOperated
<1> HIDE DEF f
<1>2. IsOperated(f, body, rec, ordinal, events, building, n)
  BY <1>1, OperatedExists
<1>3. QED
  BY <1>2, OperatedAt DEF f

-----------------------------------------------------------------------------
(* What one operation does.                                                 *)

Commands == [kind : STRING, value : Nat, field : Nat]

LEMMA RecordFacts ==
  ASSUME NEW rec \in Records
  PROVE  /\ rec.tick \in Nat /\ rec.noInterpolation \in BOOLEAN
         /\ Len(rec.operations) \in Nat
         /\ \A i \in 1..Len(rec.operations) : rec.operations[i] \in Commands
<1>1. /\ rec.tick \in Nat /\ rec.noInterpolation \in BOOLEAN
      /\ rec.operations \in Seq(Commands)
  BY RecordsAssumption DEF RecordsAssumption, Commands
<1>2. QED
  BY <1>1, ElementOfSeq, LenProperties

LEMMA ClockedType ==
  ASSUME NEW body \in Bodies, NEW rec \in Records
  PROVE  Clocked(body, rec) \in Bodies /\ Clocked(body, rec).events = body.events
<1>1. rec.tick \in Nat /\ body.occurrence \in Nat
  BY RecordFacts DEF Bodies
<1>2. LET next == [body EXCEPT !.occurrence = @ + 1]
      IN  next \in Bodies /\ next.events = body.events
  <2> DEFINE more == body.occurrence + 1
  <2>1. more \in Nat
    BY <1>1
  <2> HIDE DEF more
  <2>2. LET next == [body EXCEPT !.occurrence = more]
        IN  next \in Bodies /\ next.events = body.events
    BY <2>1 DEF Bodies
  <2>3. QED
    BY <2>2 DEF more
<1>3. LET next == [body EXCEPT !.tick = rec.tick, !.occurrence = 0,
                               !.tickEvents = 0]
      IN  next \in Bodies /\ next.events = body.events
  BY <1>1 DEF Bodies
<1>4. QED
  BY <1>2, <1>3 DEF Clocked

LEMMA OperationAppliedType ==
  ASSUME NEW body \in Bodies, NEW op \in Commands
  PROVE  /\ OperationApplied(body, op) \in Bodies
         /\ OperationApplied(body, op).events =
              IF op.kind = "event" THEN body.events + 1 ELSE body.events
<1>1. CASE op.kind = "setup"
  BY <1>1 DEF OperationApplied, Bodies, Commands
<1>2. CASE op.kind = "full"
  BY <1>2 DEF OperationApplied, Bodies, Commands
<1>3. CASE op.kind = "create"
  BY <1>3 DEF OperationApplied, Bodies, Commands
<1>4. CASE op.kind = "patch"
  BY <1>4 DEF OperationApplied, Bodies, Commands
<1>5. CASE op.kind = "delete"
  BY <1>5 DEF OperationApplied, Bodies, Commands, NoEntity
<1>6. CASE op.kind = "decoder"
  BY <1>6 DEF OperationApplied, Bodies, Commands
<1>7. CASE op.kind = "event"
  <2> DEFINE events == body.events + 1
             tickEvents == body.tickEvents + 1
  <2>1. events \in Nat /\ tickEvents \in Nat
    BY DEF Bodies
  <2>2. OperationApplied(body, op) =
          [body EXCEPT !.events = events, !.tickEvents = tickEvents]
    BY <1>7 DEF OperationApplied
  <2> HIDE DEF events, tickEvents
  <2>3. /\ OperationApplied(body, op) \in Bodies
        /\ OperationApplied(body, op).events = events
    BY <2>1, <2>2 DEF Bodies
  <2>4. QED
    BY <1>7, <2>3 DEF events
<1>8. CASE op.kind \notin {"setup", "full", "create", "patch", "delete",
                           "decoder", "event"}
  BY <1>8 DEF OperationApplied
<1>9. QED
  BY <1>1, <1>2, <1>3, <1>4, <1>5, <1>6, <1>7, <1>8

\* A log that another one continues.
Extends(s, t) == Len(s) <= Len(t) /\ \A i \in 1..Len(s) : t[i] = s[i]

LEMMA ExtendsTransitive ==
  ASSUME NEW r \in Seq(Happenings), NEW s \in Seq(Happenings),
         NEW t \in Seq(Happenings), Extends(r, s), Extends(s, t)
  PROVE  Extends(r, t)
<1>1. Len(r) \in Nat /\ Len(s) \in Nat /\ Len(t) \in Nat
  BY LenProperties
<1>2. QED
  BY <1>1 DEF Extends

\* A log has as many events as the state that it belongs to.
Logs(body, events) ==
  body \in Bodies /\ events \in Seq(Happenings) /\ Len(events) = body.events

\* While the session is built, the log grows with the state.
LEMMA BuildStep ==
  ASSUME NEW d, NEW rec \in Records, NEW ordinal \in Nat,
         NEW i \in 1..Len(rec.operations), Logs(d.body, d.log),
         NEW e, Steps(d, e, rec, ordinal, i, TRUE)
  PROVE  Logs(e.body, e.log) /\ Extends(d.log, e.log)
<1> DEFINE op == rec.operations[i]
           event == EventOf(d.body, ordinal, i)
<1>1. op \in Commands
  BY RecordFacts
<1>2. i \in Nat /\ d.body \in Bodies /\ d.log \in Seq(Happenings)
      /\ Len(d.log) = d.body.events /\ Len(d.log) \in Nat
  BY RecordFacts, LenProperties DEF Logs
<1>3. event \in Happenings
  BY <1>2 DEF EventOf, Happenings, Bodies
<1>4. /\ e.body = OperationApplied(d.body, op)
      /\ e.log = IF op.kind = "event" THEN Append(d.log, event) ELSE d.log
  BY DEF Steps, OperationStep
<1> HIDE DEF op, event
<1>5. /\ e.body \in Bodies
      /\ e.body.events = IF op.kind = "event" THEN d.body.events + 1
                         ELSE d.body.events
  BY <1>1, <1>2, <1>4, OperationAppliedType
<1>6. /\ Append(d.log, event) \in Seq(Happenings)
      /\ Len(Append(d.log, event)) = Len(d.log) + 1
      /\ \A j \in 1..Len(d.log) : Append(d.log, event)[j] = d.log[j]
  BY <1>2, <1>3, AppendProperties
<1>7. ASSUME op.kind = "event"
      PROVE  Logs(e.body, e.log) /\ Extends(d.log, e.log)
  BY <1>2, <1>4, <1>5, <1>6, <1>7 DEF Logs, Extends
<1>8. ASSUME op.kind # "event"
      PROVE  Logs(e.body, e.log) /\ Extends(d.log, e.log)
  BY <1>2, <1>4, <1>5, <1>8 DEF Logs, Extends
<1>9. QED
  BY <1>7, <1>8

\* Both have done the same, g with that log.
Agrees(g, d, events) ==
  g.ok /\ g.body = d.body /\ g.terminal = d.terminal /\ g.log = events

\* What was built is accepted again, by a log that has kept the event.
LEMMA ReplayStep ==
  ASSUME NEW d, NEW g, NEW rec \in Records, NEW ordinal \in Nat,
         NEW i \in 1..Len(rec.operations), NEW long \in Seq(Happenings),
         Logs(d.body, d.log),
         Agrees(g, d, long),
         NEW e, Steps(d, e, rec, ordinal, i, TRUE),
         NEW h, Steps(g, h, rec, ordinal, i, FALSE),
         e.ok, Extends(e.log, long)
  PROVE  Agrees(h, e, long)
<1>0. g.ok /\ g.body = d.body /\ g.terminal = d.terminal /\ g.log = long
  BY DEF Agrees
<1> DEFINE op == rec.operations[i]
           event == EventOf(d.body, ordinal, i)
<1>1. op \in Commands
  BY RecordFacts
<1>2. i \in Nat /\ d.body \in Bodies /\ d.log \in Seq(Happenings)
      /\ Len(d.log) = d.body.events /\ Len(d.log) \in Nat /\ Len(long) \in Nat
  BY RecordFacts, LenProperties DEF Logs
<1>3. event \in Happenings
  BY <1>2 DEF EventOf, Happenings, Bodies
<1>4. /\ h.body = e.body /\ h.terminal = e.terminal /\ h.log = long
      /\ e.log = IF op.kind = "event" THEN Append(d.log, event) ELSE d.log
  BY <1>0 DEF Steps, OperationStep
<1>5. ~d.terminal /\ EntityAllows(d.body, op)
      /\ (op.kind = "event" => EventAllowed(d.body, event, d.log, TRUE))
  BY DEF Steps, OperationStep
<1>6. h.ok <=> /\ g.ok /\ ~d.terminal /\ EntityAllows(d.body, op)
               /\ op.kind = "event" => EventAllowed(d.body, event, long, FALSE)
  BY <1>0 DEF Steps, OperationStep
<1> HIDE DEF op, event
<1>7. op.kind = "event" => EventAllowed(d.body, event, long, FALSE)
  <2>1. SUFFICES ASSUME op.kind = "event"
                 PROVE  EventAllowed(d.body, event, long, FALSE)
    OBVIOUS
  <2>2. e.log = Append(d.log, event) /\ Extends(e.log, long)
    BY <1>4, <2>1
  <2>3. /\ Len(e.log) = Len(d.log) + 1
        /\ e.log[Len(d.log) + 1] = event
    BY <1>2, <1>3, <2>2, AppendProperties
  <2>4. Len(d.log) + 1 <= Len(long) /\ long[Len(d.log) + 1] = event
    BY <1>2, <2>2, <2>3 DEF Extends
  <2>5. QED
    BY <1>2, <1>5, <2>1, <2>4 DEF EventAllowed
<1>8. QED
  BY <1>0, <1>4, <1>5, <1>6, <1>7 DEF Agrees

\* What a log accepted, one that continues it accepts.
LEMMA LongerStep ==
  ASSUME NEW d, NEW g, NEW rec \in Records, NEW ordinal \in Nat,
         NEW i \in 1..Len(rec.operations),
         NEW short \in Seq(Happenings), NEW long \in Seq(Happenings),
         Extends(short, long), d.body \in Bodies, d.log = short,
         Agrees(g, d, long),
         NEW e, Steps(d, e, rec, ordinal, i, FALSE),
         NEW h, Steps(g, h, rec, ordinal, i, FALSE), e.ok
  PROVE  Agrees(h, e, long)
<1>0. g.ok /\ g.body = d.body /\ g.terminal = d.terminal /\ g.log = long
  BY DEF Agrees
<1> DEFINE op == rec.operations[i]
           event == EventOf(d.body, ordinal, i)
<1>1. Len(short) \in Nat /\ Len(long) \in Nat /\ d.body.events \in Nat
  BY LenProperties DEF Bodies
<1>2. h.body = e.body /\ h.terminal = e.terminal /\ h.log = long
  BY <1>0 DEF Steps, OperationStep
<1>3. ~d.terminal /\ EntityAllows(d.body, op)
      /\ (op.kind = "event" => EventAllowed(d.body, event, short, FALSE))
  BY DEF Steps, OperationStep
<1>4. h.ok <=> /\ g.ok /\ ~d.terminal /\ EntityAllows(d.body, op)
               /\ op.kind = "event" => EventAllowed(d.body, event, long, FALSE)
  BY <1>0 DEF Steps, OperationStep
<1> HIDE DEF op, event
<1>5. EventAllowed(d.body, event, short, FALSE) =>
        EventAllowed(d.body, event, long, FALSE)
  BY <1>1 DEF EventAllowed, Extends
<1>6. QED
  BY <1>0, <1>2, <1>3, <1>4, <1>5 DEF Agrees

-----------------------------------------------------------------------------
(* What a record does.                                                      *)

\* While the session is built, after any number of operations.
LEMMA BuildingTable ==
  ASSUME NEW body, NEW rec \in Records, NEW ordinal \in Nat, NEW events,
         Logs(body, events), NEW n \in Nat, n = Len(rec.operations),
         NEW f, Tabulates(f, body, rec, ordinal, events, TRUE, n)
  PROVE  \A i \in 0..n : Logs(f[i].body, f[i].log)
                         /\ Extends(events, f[i].log)
<1> DEFINE Good(i) == Logs(f[i].body, f[i].log) /\ Extends(events, f[i].log)
           P == {i \in Nat : i <= n => Good(i)}
<1>1. /\ f[0].ok /\ f[0].terminal = FALSE /\ f[0].body = body /\ f[0].log = events
      /\ \A i \in 1..n : Steps(f[i - 1], f[i], rec, ordinal, i, TRUE)
  BY DEF Tabulates
<1>2. 0 \in P
  <2>1. f[0].body = body /\ f[0].log = events
    BY <1>1
  <2>2. Extends(events, events)
    BY LenProperties DEF Logs, Extends
  <2>3. QED
    BY <2>1, <2>2
<1>3. ASSUME NEW k \in Nat, k \in P PROVE k + 1 \in P
  <2>1. SUFFICES ASSUME k + 1 <= n PROVE Good(k + 1)
    OBVIOUS
  <2>2. PICK i \in 1..n : i = k + 1 /\ i - 1 = k /\ k \in 0..n
    BY <2>1
  <2>a. i \in 1..Len(rec.operations) /\ k <= n
    BY <2>2
  <2>b. Good(k)
    BY <1>3, <2>a
  <2>3. Good(k) /\ Steps(f[k], f[i], rec, ordinal, i, TRUE)
    BY <1>1, <2>2, <2>b
  <2>4. Logs(f[i].body, f[i].log) /\ Extends(f[k].log, f[i].log)
    BY <2>3, <2>a, BuildStep
  <2>5. Extends(events, f[i].log)
    BY <2>3, <2>4, ExtendsTransitive DEF Logs
  <2>6. QED
    BY <2>2, <2>4, <2>5
<1>4. Nat \subseteq P
  <2> HIDE DEF P
  <2>1. QED
    BY <1>2, <1>3, SetInduction
<1>5. \A i \in 0..n : Good(i)
  BY <1>4
<1>6. QED
  BY <1>5

\* What was built up to some operation is accepted again up to there.
LEMMA ReplayingTable ==
  ASSUME NEW body, NEW rec \in Records, NEW ordinal \in Nat, NEW events,
         Logs(body, events), NEW n \in Nat, n = Len(rec.operations),
         NEW long \in Seq(Happenings),
         NEW f, Tabulates(f, body, rec, ordinal, events, TRUE, n),
         NEW g, Tabulates(g, body, rec, ordinal, long, FALSE, n),
         f[n].ok, Extends(f[n].log, long)
  PROVE  Agrees(g[n], f[n], long)
<1> DEFINE Good(i) == f[i].ok /\ Extends(f[i].log, long) =>
                        Agrees(g[i], f[i], long)
           P == {i \in Nat : i <= n => Good(i)}
<1>1. /\ f[0].ok /\ f[0].terminal = FALSE /\ f[0].body = body /\ f[0].log = events
      /\ \A i \in 1..n : Steps(f[i - 1], f[i], rec, ordinal, i, TRUE)
  BY DEF Tabulates
<1>2. /\ g[0].ok /\ g[0].terminal = FALSE /\ g[0].body = body /\ g[0].log = long
      /\ \A i \in 1..n : Steps(g[i - 1], g[i], rec, ordinal, i, FALSE)
  BY DEF Tabulates
<1>3. \A i \in 0..n : Logs(f[i].body, f[i].log)
  BY BuildingTable
<1>4. 0 \in P
  BY <1>1, <1>2 DEF Agrees
<1>5. ASSUME NEW k \in Nat, k \in P PROVE k + 1 \in P
  <2>1. SUFFICES ASSUME k + 1 <= n, f[k + 1].ok, Extends(f[k + 1].log, long)
                 PROVE  Agrees(g[k + 1], f[k + 1], long)
    OBVIOUS
  <2>2. PICK i \in 1..n : i = k + 1 /\ i - 1 = k /\ k \in 0..n
    BY <2>1
  <2>a. i \in 1..Len(rec.operations) /\ k <= n
    BY <2>2
  <2>3. /\ Steps(f[k], f[i], rec, ordinal, i, TRUE)
        /\ Steps(g[k], g[i], rec, ordinal, i, FALSE)
        /\ Logs(f[k].body, f[k].log)
    BY <1>1, <1>2, <1>3, <2>1, <2>2
  <2>4. f[k].ok
    BY <2>1, <2>2, <2>3 DEF Steps, OperationStep
  <2>5. Extends(f[k].log, f[i].log) /\ Logs(f[i].body, f[i].log)
    BY <2>3, <2>a, BuildStep
  <2>6. Extends(f[k].log, long)
    BY <2>1, <2>2, <2>3, <2>5, ExtendsTransitive DEF Logs
  <2>7. Agrees(g[k], f[k], long)
    BY <1>5, <2>1, <2>4, <2>6
  <2>8. f[i].ok /\ Extends(f[i].log, long)
    BY <2>1, <2>2
  <2>9. Agrees(g[i], f[i], long)
    BY <2>3, <2>7, <2>8, <2>a, ReplayStep
  <2>10. QED
    BY <2>2, <2>9
<1>6. Nat \subseteq P
  <2> HIDE DEF P
  <2>1. QED
    BY <1>4, <1>5, SetInduction
<1>7. Good(n)
  BY <1>6
<1>8. QED
  BY <1>7

\* What a log accepted up to some operation, a longer one accepts.
LEMMA LongerTable ==
  ASSUME NEW body \in Bodies, NEW rec \in Records, NEW ordinal \in Nat,
         NEW n \in Nat, n = Len(rec.operations),
         NEW short \in Seq(Happenings), NEW long \in Seq(Happenings),
         Extends(short, long),
         NEW f, Tabulates(f, body, rec, ordinal, short, FALSE, n),
         NEW g, Tabulates(g, body, rec, ordinal, long, FALSE, n), f[n].ok
  PROVE  Agrees(g[n], f[n], long)
<1> DEFINE Typed(i) == f[i].body \in Bodies /\ f[i].log = short
           Good(i) == f[i].ok =>
                        Agrees(g[i], f[i], long)
           P == {i \in Nat : i <= n => Typed(i) /\ Good(i)}
<1>1. /\ f[0].ok /\ f[0].terminal = FALSE /\ f[0].body = body /\ f[0].log = short
      /\ \A i \in 1..n : Steps(f[i - 1], f[i], rec, ordinal, i, FALSE)
  BY DEF Tabulates
<1>2. /\ g[0].ok /\ g[0].terminal = FALSE /\ g[0].body = body /\ g[0].log = long
      /\ \A i \in 1..n : Steps(g[i - 1], g[i], rec, ordinal, i, FALSE)
  BY DEF Tabulates
<1>3. 0 \in P
  BY <1>1, <1>2 DEF Agrees
<1>4. ASSUME NEW k \in Nat, k \in P PROVE k + 1 \in P
  <2>1. SUFFICES ASSUME k + 1 <= n PROVE Typed(k + 1) /\ Good(k + 1)
    OBVIOUS
  <2>2. PICK i \in 1..n : i = k + 1 /\ i - 1 = k /\ k \in 0..n
    BY <2>1
  <2>a. i \in 1..Len(rec.operations) /\ k <= n
    BY <2>2
  <2>3. /\ Steps(f[k], f[i], rec, ordinal, i, FALSE)
        /\ Steps(g[k], g[i], rec, ordinal, i, FALSE)
        /\ Typed(k) /\ Good(k)
    <3>1. Typed(k) /\ Good(k)
      BY <1>4, <2>a
    <3>2. Steps(f[i - 1], f[i], rec, ordinal, i, FALSE)
          /\ Steps(g[i - 1], g[i], rec, ordinal, i, FALSE)
      BY <1>1, <1>2
    <3>3. QED
      BY <2>2, <3>1, <3>2
  <2>4. /\ f[i].body = OperationApplied(f[k].body, rec.operations[i])
        /\ f[i].log = f[k].log /\ (f[i].ok => f[k].ok)
    <3>1. f[i] = OperationStep(f[k], rec, ordinal, i, FALSE)
      BY <2>3 DEF Steps
    <3> HIDE DEF Typed, Good
    <3>2. /\ f[i].body = OperationApplied(f[k].body, rec.operations[i])
          /\ f[i].log = f[k].log
      BY <3>1 DEF OperationStep
    <3>3. f[i].ok => f[k].ok
      BY <3>1 DEF OperationStep
    <3>4. QED
      BY <3>2, <3>3
  <2>5. Typed(i)
    BY <2>3, <2>4, RecordFacts, OperationAppliedType
  <2>6. Good(i)
    <3>1. SUFFICES ASSUME f[i].ok PROVE Good(i)
      OBVIOUS
    <3>3. Agrees(g[k], f[k], long)
      BY <2>3, <2>4, <3>1
    <3>4. QED
      <4>1. f[k].body \in Bodies /\ f[k].log = short
        BY <2>3
      <4>2. Agrees(g[i], f[i], long)
        BY <2>3, <2>a, <3>1, <3>3, <4>1, LongerStep
      <4>3. QED
        BY <4>2
  <2>7. QED
    BY <2>2, <2>5, <2>6
<1>5. Nat \subseteq P
  <2> HIDE DEF P
  <2>1. QED
    BY <1>3, <1>4, SetInduction
<1>6. Good(n)
  BY <1>5
<1>7. QED
  BY <1>6

LEMMA DiscontinuousType ==
  ASSUME NEW rec \in Records
  PROVE  Discontinuous(rec) \in BOOLEAN
BY RecordFacts DEF Discontinuous

LEMMA StateType ==
  ASSUME NEW body \in Bodies, NEW rec \in Records, NEW ordinal \in Nat
  PROVE  LET s == [body |-> [body EXCEPT !.ordinal = ordinal],
                   discontinuity |-> Discontinuous(rec)]
         IN  s \in States /\ s.body.events = body.events
BY DiscontinuousType DEF States, Bodies

\* A record that is accepted while the session is built makes a state and
\* continues the log, and is accepted again.
LEMMA AppliedBuilds ==
  ASSUME NEW s \in States, NEW rec \in Records, NEW ordinal \in Nat,
         NEW events, Logs(s.body, events)
  PROVE  LET r == Applied(s, rec, ordinal, events, TRUE)
             again == Applied(s, rec, ordinal, r.log, FALSE)
         IN  /\ r.state \in States /\ Logs(r.state.body, r.log)
             /\ Extends(events, r.log)
             /\ r.ok => again.ok /\ again.state = r.state
<1> DEFINE body == Clocked(s.body, rec)
           n == Len(rec.operations)
           r == Applied(s, rec, ordinal, events, TRUE)
           again == Applied(s, rec, ordinal, r.log, FALSE)
           F == Operated(body, rec, ordinal, events, TRUE)
           d == F[n]
           G == Operated(body, rec, ordinal, d.log, FALSE)
           g == G[n]
<1>1. body \in Bodies /\ Logs(body, events)
  BY ClockedType DEF States, Logs
<1>2. n \in Nat
  BY RecordFacts
<1>3. /\ r.ok = d.ok /\ r.log = d.log
      /\ r.state = [body |-> [d.body EXCEPT !.ordinal = ordinal],
                    discontinuity |-> Discontinuous(rec)]
  BY DEF Applied
<1>4. /\ again.ok = g.ok
      /\ again.state = [body |-> [g.body EXCEPT !.ordinal = ordinal],
                        discontinuity |-> Discontinuous(rec)]
  BY <1>3 DEF Applied
<1>a. n = Len(rec.operations) /\ Tabulates(F, body, rec, ordinal, events, TRUE, n)
      /\ Tabulates(G, body, rec, ordinal, d.log, FALSE, n)
  BY <1>2, OperatedSteps
<1> HIDE DEF r, again, body, n, F, G
<1>5. Logs(d.body, d.log) /\ Extends(events, d.log)
  <2>1. n \in 0..n
    BY <1>2
  <2>2. \A i \in 0..n : Logs(F[i].body, F[i].log) /\ Extends(events, F[i].log)
    BY <1>1, <1>2, <1>a, BuildingTable
  <2>3. QED
    BY <2>1, <2>2
<1> HIDE DEF d
<1>6. d.ok => g.ok /\ g.body = d.body
  <2>1. Extends(d.log, d.log) /\ d.log \in Seq(Happenings)
    BY <1>5, LenProperties DEF Extends, Logs
  <2>2. QED
    <3>1. d = F[n] /\ g = G[n]
      BY DEF d
    <3>2. SUFFICES ASSUME F[n].ok, Extends(F[n].log, d.log)
                   PROVE  G[n].ok /\ G[n].body = F[n].body
      BY <2>1, <3>1
    <3> HIDE DEF g
    <3>3. Agrees(G[n], F[n], d.log)
      BY <1>1, <1>2, <1>a, <2>1, <3>2, ReplayingTable
    <3>4. QED
      BY <3>3 DEF Agrees
<1> HIDE DEF g
<1>7. r.state \in States /\ r.state.body.events = d.body.events
  BY <1>3, <1>5, StateType DEF Logs
<1>8. Logs(r.state.body, r.log)
  BY <1>3, <1>5, <1>7 DEF Logs, States
<1>9. r.ok => again.ok /\ again.state = r.state
  BY <1>3, <1>4, <1>6
<1>10. QED
  BY <1>3, <1>5, <1>7, <1>8, <1>9 DEF r, again

\* A longer log accepts what a shorter one did, with the same outcome.
LEMMA AppliedLonger ==
  ASSUME NEW s \in States, NEW rec \in Records, NEW ordinal \in Nat,
         NEW short \in Seq(Happenings), NEW long \in Seq(Happenings),
         Extends(short, long), Applied(s, rec, ordinal, short, FALSE).ok
  PROVE  LET r == Applied(s, rec, ordinal, long, FALSE)
         IN  /\ r.ok
             /\ r.state = Applied(s, rec, ordinal, short, FALSE).state
<1> DEFINE body == Clocked(s.body, rec)
           n == Len(rec.operations)
           F == Operated(body, rec, ordinal, short, FALSE)
           d == F[n]
           G == Operated(body, rec, ordinal, long, FALSE)
           g == G[n]
<1>1. body \in Bodies
  BY ClockedType DEF States
<1>2. n \in Nat
  BY RecordFacts
<1>3. /\ Applied(s, rec, ordinal, short, FALSE).ok = d.ok
      /\ Applied(s, rec, ordinal, long, FALSE).ok = g.ok
      /\ Applied(s, rec, ordinal, short, FALSE).state =
           [body |-> [d.body EXCEPT !.ordinal = ordinal],
            discontinuity |-> Discontinuous(rec)]
      /\ Applied(s, rec, ordinal, long, FALSE).state =
           [body |-> [g.body EXCEPT !.ordinal = ordinal],
            discontinuity |-> Discontinuous(rec)]
  BY DEF Applied
<1>a. n = Len(rec.operations) /\ Tabulates(F, body, rec, ordinal, short, FALSE, n)
      /\ Tabulates(G, body, rec, ordinal, long, FALSE, n)
  BY <1>2, OperatedSteps
<1> HIDE DEF body, n, F, G
<1>4. d.ok => g.ok /\ g.body = d.body
  <2>1. SUFFICES ASSUME F[n].ok PROVE G[n].ok /\ G[n].body = F[n].body
    OBVIOUS
  <2> HIDE DEF d, g
  <2>2. Agrees(G[n], F[n], long)
    BY <1>1, <1>2, <1>a, <2>1, LongerTable
  <2>3. QED
    BY <2>2 DEF Agrees
<1> HIDE DEF d, g
<1>5. QED
  BY <1>3, <1>4

-----------------------------------------------------------------------------
(* What an action leaves alone stays sound.                                 *)

LEMMA ShownStays ==
  ASSUME NEW s, NEW p, UNCHANGED opened, Shown(s, p)
  PROVE  Shown(s, p)'
BY DEF Shown, Places, opened

LEMMA OpenedStays ==
  ASSUME OpenedOK, PlacesOK, CheckpointsOK, UNCHANGED opened,
         lifecycle' = "Opening" => lifecycle = "Opening"
  PROVE  OpenedOK' /\ PlacesOK' /\ CheckpointsOK'
<1>1. /\ source' = source /\ timeline' = timeline /\ log' = log
      /\ checkpoints' = checkpoints /\ tickRecords' = tickRecords
      /\ ready' = ready /\ terminal' = terminal
      /\ sinceTicks' = sinceTicks /\ sinceRecords' = sinceRecords
  BY DEF opened
<1>2. \A p \in Places : Replays(p) => Replays(p)'
  BY <1>1 DEF Replays, BeforeRecord
<1>3. OpenedOK'
  BY <1>1, <1>2 DEF OpenedOK, Places, LastState
<1>4. PlacesOK'
  BY <1>1 DEF PlacesOK, Places
<1>5. CheckpointsOK'
  BY <1>1 DEF CheckpointsOK, BeforeRecord
<1>6. QED
  BY <1>3, <1>4, <1>5

LEMMA RunStays ==
  ASSUME RunOK, UNCHANGED << opened, call, run, position >>,
         call.op = "advance" => delivered' = delivered
  PROVE  RunOK'
BY DEF RunOK, opened, Shown, Places, BeforeRecord

LEMMA ClockStays ==
  ASSUME ClockOK, UNCHANGED clock
  PROVE  ClockOK'
BY DEF ClockOK, Clocks, clock

LEMMA SavedStays ==
  ASSUME SavedOK, UNCHANGED << opened, saved >>
  PROVE  SavedOK'
BY DEF SavedOK, opened, Shown, Places

\* A call is over when its loop is.
LEMMA IdleFacts ==
  ASSUME RunOK, Idle
  PROVE  run = NoRun /\ call = NoCall /\ call.op = "none"
BY DEF RunOK, Idle, NoCall, Kinds

LEMMA PlaceFacts ==
  ASSUME OpenedOK, NEW p \in Places
  PROVE  /\ Len(source) \in Nat /\ p \in Nat \ {0} /\ p <= Len(source)
         /\ DOMAIN source = Places
         /\ source[p] \in Records /\ timeline[p] \in States
         /\ BeforeRecord(p) = timeline[p]
<1>1. /\ source \in Seq(Records) /\ timeline \in Seq(States)
      /\ Len(timeline) = Len(source)
  BY DEF OpenedOK
<1>2. Len(source) \in Nat /\ DOMAIN source = Places
  BY <1>1, LenProperties DEF Places
<1>3. p \in Nat \ {0} /\ p <= Len(source)
  BY <1>2 DEF Places
<1>4. source[p] \in Records
  BY <1>1, ElementOfSeq DEF Places
<1>5. timeline[p] \in States
  BY <1>1, ElementOfSeq DEF Places
<1>6. QED
  BY <1>2, <1>3, <1>4, <1>5 DEF BeforeRecord

LEMMA InitialStateType == InitialState \in States
BY DEF InitialState, States, Bodies, NoEntity, NoTick

LEMMA BeforeRecordType ==
  ASSUME OpenedOK, NEW p \in 0..Len(source)
  PROVE  BeforeRecord(p) \in States
<1>1. CASE p = 0
  BY <1>1, InitialStateType DEF BeforeRecord
<1>2. CASE p # 0
  <2>1. Len(source) \in Nat
    BY LenProperties DEF OpenedOK
  <2>2. p \in Places
    BY <1>2, <2>1 DEF Places
  <2>3. QED
    BY <2>2, PlaceFacts
<1>3. QED
  BY <1>1, <1>2

-----------------------------------------------------------------------------
(* The controls.                                                            *)

LEMMA PauseStep ==
  ASSUME IInv, Pause
  PROVE  IInv'
<1>1. /\ call = NoCall /\ Session /\ delivered = state.body.events
      /\ call.op = "none"
  BY IdleFacts DEF IInv, Pause, Idle, DeliveryOK
<1>2. OpenedOK' /\ PlacesOK' /\ CheckpointsOK'
  BY OpenedStays DEF IInv, Pause
<1>3. LifecycleOK'
  BY <1>1 DEF IInv, Pause, LifecycleOK, Session, opened, Shown, Places, history
<1>4. DeliveryOK'
  BY <1>1 DEF IInv, Pause, DeliveryOK, SilentRange, Ranges, Session
<1>5. RunOK'
  BY RunStays DEF IInv, Pause
<1>6. ClockOK' /\ SavedOK'
  BY ClockStays, SavedStays DEF IInv, Pause
<1>7. QED
  BY <1>2, <1>3, <1>4, <1>5, <1>6 DEF IInv

LEMMA ResumeStep ==
  ASSUME IInv, Resume
  PROVE  IInv'
<1>1. /\ call = NoCall /\ Session /\ delivered = state.body.events
      /\ call.op = "none"
  BY IdleFacts DEF IInv, Resume, Idle, DeliveryOK
<1>2. OpenedOK' /\ PlacesOK' /\ CheckpointsOK'
  BY OpenedStays DEF IInv, Resume
<1>3. LifecycleOK'
  BY <1>1 DEF IInv, Resume, LifecycleOK, Session, opened, Shown, Places, history
<1>4. DeliveryOK'
  BY <1>1 DEF IInv, Resume, DeliveryOK, SilentRange, Ranges, Session
<1>5. RunOK'
  BY RunStays DEF IInv, Resume
<1>6. ClockOK' /\ SavedOK'
  BY ClockStays, SavedStays DEF IInv, Resume
<1>7. QED
  BY <1>2, <1>3, <1>4, <1>5, <1>6 DEF IInv

LEMMA SetRateStep ==
  ASSUME IInv, NEW new \in Rates, SetRate(new)
  PROVE  IInv'
<1>1. call = NoCall /\ Session /\ call.op = "none"
  BY IdleFacts DEF IInv, SetRate, Idle
<1>2. OpenedOK' /\ PlacesOK' /\ CheckpointsOK'
  BY OpenedStays DEF IInv, SetRate
<1>3. LifecycleOK'
  BY <1>1 DEF IInv, SetRate, LifecycleOK, Session, opened, Shown, Places, history
<1>4. DeliveryOK'
  BY <1>1 DEF IInv, SetRate, DeliveryOK, outputs, Session
<1>5. RunOK'
  BY RunStays DEF IInv, SetRate, outputs
<1>6. ClockOK'
  BY DEF IInv, SetRate, ClockOK, Clocks
<1>7. SavedOK'
  BY SavedStays DEF IInv, SetRate
<1>8. QED
  BY <1>2, <1>3, <1>4, <1>5, <1>6, <1>7 DEF IInv

LEMMA AdvanceInertStep ==
  ASSUME IInv, AdvanceInert
  PROVE  IInv'
<1>1. /\ call = NoCall /\ Session /\ delivered = state.body.events
      /\ call.op = "none"
  BY IdleFacts DEF IInv, AdvanceInert, Idle, DeliveryOK
<1>2. OpenedOK' /\ PlacesOK' /\ CheckpointsOK'
  BY OpenedStays DEF IInv, AdvanceInert
<1>3. LifecycleOK'
  BY <1>1 DEF IInv, AdvanceInert, LifecycleOK, Session, opened, Shown, Places,
              history
<1>4. DeliveryOK'
  BY <1>1 DEF IInv, AdvanceInert, DeliveryOK, Ranges, Session
<1>5. RunOK'
  BY RunStays DEF IInv, AdvanceInert
<1>6. ClockOK' /\ SavedOK'
  BY ClockStays, SavedStays DEF IInv, AdvanceInert
<1>7. QED
  BY <1>2, <1>3, <1>4, <1>5, <1>6 DEF IInv

-----------------------------------------------------------------------------
(* A session begins at the first ready state.                               *)

LEMMA PublishedSound ==
  ASSUME OpenedOK, LifecycleOK, ready # 0, Published,
         call = NoCall, run = NoRun,
         UNCHANGED << source, timeline, log, checkpoints, ready, terminal >>
  PROVE  /\ LifecycleOK' /\ DeliveryOK' /\ RunOK' /\ ClockOK'
<1>1. /\ ready \in Places
  BY LenProperties DEF OpenedOK, Places
<1>2. timeline[ready] \in States
  BY <1>1, PlaceFacts
<1>3. timeline[ready].body.events \in Nat
  BY <1>2 DEF States, Bodies
<1>4. LifecycleOK'
  BY <1>1, <1>2 DEF LifecycleOK, Published, Session, Shown, Places
<1>5. DeliveryOK'
  BY <1>3 DEF DeliveryOK, Published, Ranges
<1>6. RunOK'
  BY DEF Published, RunOK, NoCall, NoRun, Kinds
<1>7. ClockOK'
  BY RatesAssumption DEF Published, ClockOK, Clocks, RatesAssumption
<1>8. QED
  BY <1>4, <1>5, <1>6, <1>7

LEMMA ReopenStep ==
  ASSUME IInv, Reopen
  PROVE  IInv'
<1>1. call = NoCall /\ run = NoRun /\ ready # 0
  BY IdleFacts DEF IInv, Reopen, LifecycleOK
<1>2. LifecycleOK' /\ DeliveryOK' /\ RunOK' /\ ClockOK'
  BY <1>1, PublishedSound DEF IInv, Reopen, opened
<1>3. OpenedOK' /\ PlacesOK' /\ CheckpointsOK'
  BY OpenedStays DEF IInv, Reopen, Published
<1>4. SavedOK'
  BY SavedStays DEF IInv, Reopen
<1>5. QED
  BY <1>2, <1>3, <1>4 DEF IInv

LEMMA OpenReturnStep ==
  ASSUME IInv, OpenReturn
  PROVE  IInv'
<1>1. ~Session /\ call = NoCall /\ run = NoRun /\ saved = {}
  BY DEF IInv, OpenReturn, LifecycleOK, Session
<1>2. ASSUME Refuse PROVE IInv'
  <2>1. OpenedOK' /\ PlacesOK' /\ CheckpointsOK'
    BY <1>2, OpenedStays DEF IInv, Refuse
  <2>2. LifecycleOK'
    BY <1>1, <1>2 DEF IInv, LifecycleOK, Refuse, Session, history
  <2>3. DeliveryOK'
    BY <1>2 DEF IInv, DeliveryOK, Refuse, Session, outputs
  <2>4. RunOK' /\ ClockOK' /\ SavedOK'
    BY <1>2, RunStays, ClockStays, SavedStays DEF IInv, Refuse, outputs
  <2>5. QED
    BY <2>1, <2>2, <2>3, <2>4 DEF IInv
<1>3. ASSUME ready # 0, Published, tickRecords' = {r \in tickRecords : r >= ready},
             UNCHANGED << source, timeline, log, checkpoints, ready, terminal,
                          sinceTicks, sinceRecords, saved >>
      PROVE  IInv'
  <2>1. LifecycleOK' /\ DeliveryOK' /\ RunOK' /\ ClockOK'
    BY <1>1, <1>3, PublishedSound DEF IInv
  <2>2. \A p \in Places : Replays(p) => Replays(p)'
    BY <1>3 DEF Replays, BeforeRecord
  <2>3. OpenedOK'
    BY <1>3, <2>2 DEF IInv, OpenedOK, Places, LastState
  <2>4. PlacesOK'
    <3>1. lifecycle' = "Ready" /\ lifecycle = "Opening"
      BY <1>3 DEF Published, OpenReturn
    <3>2. \A p \in Places : p \in Nat
      BY <1>1, PlaceFacts DEF IInv
    <3>3. ready \in Nat
      BY LenProperties DEF IInv, OpenedOK
    <3>4. QED
      BY <1>3, <3>1, <3>2, <3>3 DEF IInv, PlacesOK, Places
  <2>5. CheckpointsOK'
    BY <1>3 DEF IInv, CheckpointsOK, BeforeRecord
  <2>6. SavedOK'
    BY <1>1, <1>3 DEF SavedOK
  <2>7. QED
    BY <2>1, <2>3, <2>4, <2>5, <2>6 DEF IInv
<1>4. QED
  BY <1>2, <1>3 DEF OpenReturn

-----------------------------------------------------------------------------
(* The clock.                                                               *)

LEMMA GcdDivides ==
  ASSUME NEW a \in Nat, NEW b \in Nat \ {0}
  PROVE  /\ Gcd(a, b) \in 1..b
         /\ a % Gcd(a, b) = 0 /\ b % Gcd(a, b) = 0
<1> DEFINE S == {d \in 1..b : a % d = 0 /\ b % d = 0}
<1>1. 1 \in S
  OBVIOUS
<1>2. S \subseteq 0..b /\ S # {}
  BY <1>1
<1>3. Max(S) \in S
  BY <1>2, MaxOf
<1>4. Gcd(a, b) = Max(S)
  BY DEF Gcd
<1>5. QED
  BY <1>3, <1>4

LEMMA ReducedType ==
  ASSUME NEW a \in Nat, NEW b \in Nat \ {0}, a < b
  PROVE  /\ Reduced(a, b) \in Nat \X (Nat \ {0})
         /\ Reduced(a, b)[1] < Reduced(a, b)[2]
<1> DEFINE g == Gcd(a, b)
<1>1. g \in 1..b /\ a % g = 0 /\ b % g = 0
  BY GcdDivides
<1>2. Reduced(a, b) = << a \div g, b \div g >>
  BY DEF Reduced
<1> HIDE DEF g
<1>3. g \in Nat \ {0}
  BY <1>1
<1> DEFINE x == a \div g
           y == b \div g
<1>4. x \in Nat /\ y \in Nat /\ a = x * g /\ b = y * g
  BY <1>1, <1>3
<1> HIDE DEF x, y
<1>5. x < y
  <2>1. SUFFICES ASSUME y <= x PROVE FALSE
    BY <1>4
  <2>2. y * g <= x * g
    BY <1>3, <1>4, <2>1
  <2>3. QED
    BY <1>4, <2>2
<1>6. Reduced(a, b) = << x, y >>
  BY <1>2 DEF x, y
<1>7. QED
  BY <1>4, <1>5, <1>6

LEMMA AccumulateSound ==
  ASSUME ClockOK, NEW elapsed \in Elapsed, Accumulate(elapsed)
  PROVE  ClockOK'
<1>1. /\ elapsed \in Nat /\ rate \in (Nat \ {0}) \X (Nat \ {0})
      /\ accumulated \in Nat /\ remainder \in Nat \X (Nat \ {0})
      /\ rate \in Rates
  BY RatesAssumption DEF RatesAssumption, ClockOK, Clocks
<1> DEFINE n == remainder[1] * rate[2] + elapsed * rate[1] * remainder[2]
           d == remainder[2] * rate[2]
<1>2. n \in Nat
  <2>1. remainder[1] * rate[2] \in Nat
    BY <1>1
  <2>2. elapsed * rate[1] \in Nat
    BY <1>1
  <2>3. elapsed * rate[1] * remainder[2] \in Nat
    BY <1>1, <2>2
  <2>4. QED
    BY <2>1, <2>3
<1>3. d \in Nat \ {0}
  BY <1>1
<1>4. /\ accumulated' = accumulated + n \div d
      /\ remainder' = Fraction(n, d) /\ rate' = rate
  BY DEF Accumulate
<1> HIDE DEF n, d
<1>5. n % d \in Nat /\ n % d < d /\ n \div d \in Nat
  BY <1>2, <1>3
<1>6. /\ remainder' \in Nat \X (Nat \ {0})
      /\ remainder'[1] < remainder'[2]
  BY <1>3, <1>4, <1>5, ReducedType DEF Fraction
<1>7. accumulated' \in Nat
  BY <1>1, <1>4, <1>5
<1>8. QED
  BY <1>1, <1>4, <1>6, <1>7 DEF ClockOK, Clocks

LEMMA AdvanceStep ==
  ASSUME IInv, NEW elapsed \in Elapsed, Advance(elapsed)
  PROVE  IInv'
<1>1. call = NoCall /\ run = NoRun /\ Session
  BY IdleFacts DEF IInv, Advance, Session
<1>2. OpenedOK' /\ PlacesOK' /\ CheckpointsOK'
  BY OpenedStays DEF IInv, Advance
<1>3. LifecycleOK'
  BY <1>1 DEF IInv, Advance, LifecycleOK, Session, opened, Shown, Places
<1>4. DeliveryOK'
  BY DEF IInv, Advance, DeliveryOK, outputs
<1>5. RunOK'
  BY <1>1 DEF Advance, RunOK, NoRun, Kinds, outputs
<1>6. ClockOK'
  BY AccumulateSound DEF IInv, Advance
<1>7. SavedOK'
  BY SavedStays DEF IInv, Advance
<1>8. QED
  BY <1>2, <1>3, <1>4, <1>5, <1>6, <1>7 DEF IInv

-----------------------------------------------------------------------------
(* Going forward.                                                           *)

\* A tick reaches from its record to the one before the next tick.
LEMMA TickGroup ==
  ASSUME OpenedOK, NEW r \in Places
  PROVE  TickGroupEnd(r) \in r..Len(source) /\ TickGroupEnd(r) \in Places
<1> DEFINE later == {t \in tickRecords : t > r}
<1>1. /\ Len(source) \in Nat /\ r \in Nat \ {0} /\ r <= Len(source)
      /\ tickRecords \subseteq Places
  BY PlaceFacts DEF OpenedOK
<1>a. Places \subseteq Nat
  BY <1>1 DEF Places
<1>2. CASE later = {}
  BY <1>1, <1>2 DEF TickGroupEnd, Places
<1>3. CASE later # {}
  <2>1. later \subseteq Nat
    BY <1>1, <1>a
  <2>2. Min(later) \in later
    BY <1>3, <2>1, MinOf
  <2>3. TickGroupEnd(r) = Min(later) - 1
    BY <1>3 DEF TickGroupEnd
  <2>4. Min(later) \in Places /\ Min(later) > r
    BY <1>1, <2>2
  <2>5. QED
    BY <1>1, <2>3, <2>4 DEF Places
<1>4. QED
  BY <1>2, <1>3

LEMMA NextTickFacts ==
  ASSUME OpenedOK, NextTickRecord # 0
  PROVE  /\ NextTickRecord \in tickRecords /\ NextTickRecord \in Places
         /\ NextTickRecord > position
<1> DEFINE S == {r \in tickRecords : r > position}
<1>1. NextTickRecord = Min(S) /\ S # {}
  BY DEF NextTickRecord, EarliestOf
<1>a. Places \subseteq Nat
  BY LenProperties DEF OpenedOK, Places
<1>2. S \subseteq Nat /\ tickRecords \subseteq Places
  BY <1>a DEF OpenedOK
<1>3. Min(S) \in S
  BY <1>1, <1>2, MinOf
<1>4. QED
  BY <1>1, <1>2, <1>3

LEMMA DurationType ==
  ASSUME OpenedOK, NEW r \in Places, NEW before \in States
  PROVE  DurationTo(r, before) \in Nat
<1> DEFINE next == source[r].tick
           current == before.body.tick
<1>1. next \in Nat /\ current \in Nat /\ TickInterval \in Nat
  BY PlaceFacts, RecordFacts, LimitsAssumption
     DEF LimitsAssumption, States, Bodies
<1>2. DurationTo(r, before) =
        IF current = NoTick \/ next < current THEN TickInterval
        ELSE (next - current) * TickInterval
  BY DEF DurationTo
<1> HIDE DEF next, current
<1>3. CASE next < current
  BY <1>1, <1>2, <1>3
<1>4. CASE ~(next < current)
  <2>1. next - current \in Nat
    BY <1>1, <1>4
  <2>2. (next - current) * TickInterval \in Nat
    BY <1>1, <2>1
  <2>3. QED
    BY <1>1, <1>2, <2>2
<1>5. QED
  BY <1>3, <1>4

\* A run that begins at the session's place.
LEMMA ForwardSound ==
  ASSUME OpenedOK, RunOK, Shown(state, position), call.op = "advance",
         NEW kind \in {"tick", "trailing"}, NEW end \in Places,
         end > position, run' = Forward(kind, end),
         UNCHANGED << opened, call, position, delivered >>
  PROVE  RunOK'
<1>1. /\ position \in Nat \ {0} /\ end \in Nat /\ position \in Places
      /\ state \in States /\ state.body = BeforeRecord(position).body
  BY PlaceFacts DEF Shown
<1> DEFINE next == position + 1
<1>2. PICK x : x = [kind |-> kind, state |-> state, next |-> next,
                    end |-> end, terminal |-> FALSE]
  OBVIOUS
<1>3. next \in Nat /\ next - 1 = position /\ next \in 1..end + 1 /\ next # 1
      /\ position < next
  BY <1>1
<1>4. run' = x
  BY <1>2 DEF Forward
<1> HIDE DEF next
<1>5. /\ x.kind = kind /\ x.state = state /\ x.next = next /\ x.end = end
      /\ x.kind \notin {"none", "seek"}
      /\ x \in [kind : Kinds, state : States, next : Nat, end : Nat,
                terminal : BOOLEAN]
  <2>1. x.kind = kind /\ x.state = state /\ x.next = next /\ x.end = end
    BY <1>2
  <2>2. x.kind \notin {"none", "seek"}
    BY <2>1
  <2>3. kind \in Kinds
    BY DEF Kinds
  <2>4. x \in [kind : Kinds, state : States, next : Nat, end : Nat,
               terminal : BOOLEAN]
    BY <1>1, <1>2, <1>3, <2>3
  <2>5. QED
    BY <2>1, <2>2, <2>4
<1>8. Shown(x.state, x.next - 1)'
  BY <1>3, <1>5 DEF Shown, Places, opened
<1>9. x.state.body = BeforeRecord(x.next - 1)'.body
  BY <1>1, <1>3, <1>5 DEF BeforeRecord, opened
<1>10. /\ x.end \in Places' /\ x.next \in 1..x.end + 1
       /\ position' < x.next /\ position' < x.end
  BY <1>3, <1>5 DEF Places, opened
<1>11. QED
  BY <1>3, <1>4, <1>5, <1>8, <1>9, <1>10 DEF RunOK, Kinds

LEMMA AdvanceTickStep ==
  ASSUME IInv, AdvanceTick
  PROVE  IInv'
<1>1. Session /\ Shown(state, position) /\ call.op = "advance" /\ run = NoRun
  BY DEF IInv, AdvanceTick, Advancing, LifecycleOK, Session
<1> DEFINE r == NextTickRecord
           d == DurationTo(r, state)
           end == TickGroupEnd(r)
<1>2. r \in Places /\ r > position /\ accumulated >= d
  BY NextTickFacts DEF IInv, AdvanceTick, TickDue
<1>3. position \in Nat /\ r \in Nat /\ state \in States
  BY <1>1, <1>2, PlaceFacts DEF IInv, Shown
<1>4. end \in Places /\ end > position
  <2>1. end \in r..Len(source) /\ end \in Places
    BY <1>2, TickGroup DEF IInv
  <2>2. end \in Nat
    BY <2>1, PlaceFacts DEF IInv
  <2> HIDE DEF end, r
  <2>3. QED
    BY <1>2, <1>3, <2>1, <2>2
<1>5. d \in Nat
  BY <1>2, <1>3, DurationType DEF IInv
<1>6. /\ accumulated' = accumulated - d /\ run' = Forward("tick", end)
      /\ UNCHANGED << opened, lifecycle, playback, rate, remainder, position,
                      state, outputs, call, saved, history >>
  BY DEF AdvanceTick
<1> HIDE DEF r, d, end
<1>7. OpenedOK' /\ PlacesOK' /\ CheckpointsOK'
  BY <1>6, OpenedStays DEF IInv
<1>8. LifecycleOK'
  BY <1>1, <1>6 DEF IInv, LifecycleOK, Session, opened, Shown, Places, history
<1>9. DeliveryOK'
  BY <1>6 DEF IInv, DeliveryOK, outputs, Session
<1>10. RunOK'
  BY <1>1, <1>4, <1>6, ForwardSound DEF IInv, outputs
<1>11. ClockOK'
  BY <1>2, <1>5, <1>6 DEF IInv, ClockOK, Clocks
<1>12. SavedOK'
  BY <1>6, SavedStays DEF IInv
<1>13. QED
  BY <1>7, <1>8, <1>9, <1>10, <1>11, <1>12 DEF IInv

LEMMA AdvanceTrailingStep ==
  ASSUME IInv, AdvanceTrailing
  PROVE  IInv'
<1>1. Session /\ Shown(state, position) /\ call.op = "advance" /\ run = NoRun
  BY DEF IInv, AdvanceTrailing, Advancing, LifecycleOK, Session, NoCall
<1>2. Len(source) \in Places /\ Len(source) > position
  BY <1>1, PlaceFacts DEF IInv, AdvanceTrailing, TrailingDue, Shown, Places
<1>3. OpenedOK' /\ PlacesOK' /\ CheckpointsOK'
  BY OpenedStays DEF IInv, AdvanceTrailing
<1>4. LifecycleOK'
  BY <1>1 DEF IInv, AdvanceTrailing, LifecycleOK, Session, opened, Shown, Places,
              history
<1>5. DeliveryOK'
  BY DEF IInv, AdvanceTrailing, DeliveryOK, outputs, Session
<1>6. RunOK'
  BY <1>1, <1>2, ForwardSound DEF IInv, AdvanceTrailing, outputs
<1>7. ClockOK' /\ SavedOK'
  BY ClockStays, SavedStays DEF IInv, AdvanceTrailing
<1>8. QED
  BY <1>3, <1>4, <1>5, <1>6, <1>7 DEF IInv

LEMMA AdvanceReturnStep ==
  ASSUME IInv, AdvanceReturn
  PROVE  IInv'
<1>1. /\ Session /\ Shown(state, position) /\ run = NoRun
      /\ call.op = "advance" /\ call.first = delivered
  BY DEF IInv, AdvanceReturn, Advancing, LifecycleOK, Session, NoCall, RunOK
<1>2. state.body.events \in Nat /\ delivered \in Nat
  BY <1>1 DEF IInv, DeliveryOK, Shown, States, Bodies
<1>3. OpenedOK' /\ PlacesOK' /\ CheckpointsOK'
  BY OpenedStays DEF IInv, AdvanceReturn
<1>4. LifecycleOK'
  BY <1>1 DEF IInv, AdvanceReturn, LifecycleOK, Session, opened, Shown, Places,
              history
<1>5. DeliveryOK'
  BY <1>1, <1>2 DEF AdvanceReturn, Deliver, DeliveryOK, Ranges
<1>6. RunOK'
  BY <1>1 DEF AdvanceReturn, RunOK, NoRun, NoCall, Kinds
<1>7. ClockOK' /\ SavedOK'
  BY ClockStays, SavedStays DEF IInv, AdvanceReturn
<1>8. QED
  BY <1>3, <1>4, <1>5, <1>6, <1>7 DEF IInv

-----------------------------------------------------------------------------
(* The loop over records.                                                   *)

\* Only an operation can end a record, and it says so.
LEMMA AppliedTerminal ==
  ASSUME NEW s, NEW rec \in Records, NEW ordinal, NEW events, NEW building
  PROVE  Applied(s, rec, ordinal, events, building).terminal \in BOOLEAN
<1> DEFINE body == Clocked(s.body, rec)
           n == Len(rec.operations)
           F == Operated(body, rec, ordinal, events, building)
<1>1. n \in Nat
  BY RecordFacts
<1>2. Tabulates(F, body, rec, ordinal, events, building, n)
  BY <1>1, OperatedSteps
<1>3. Applied(s, rec, ordinal, events, building).terminal = F[n].terminal
  BY DEF Applied
<1> HIDE DEF F, n, body
<1>4. CASE n = 0
  BY <1>2, <1>3, <1>4 DEF Tabulates
<1>5. CASE n # 0
  <2>1. Steps(F[n - 1], F[n], rec, ordinal, n, building)
    BY <1>1, <1>2, <1>5 DEF Tabulates
  <2>2. F[n].terminal = (rec.operations[n].kind = "terminal")
    BY <2>1 DEF Steps, OperationStep
  <2>3. QED
    BY <1>3, <2>2
<1>6. QED
  BY <1>4, <1>5

LEMMA ReplayRecordStep ==
  ASSUME IInv, ReplayRecord
  PROVE  IInv'
<1> DEFINE next == run.next
           r == Applied(run.state, source[next], next, log, FALSE)
           q == Applied(BeforeRecord(next - 1), source[next], next, log, FALSE)
<1>1. /\ run.kind # "none" /\ run.next <= run.end
      /\ run \in [kind : Kinds, state : States, next : Nat, end : Nat,
                  terminal : BOOLEAN]
      /\ run.end \in Places /\ next \in 1..run.end + 1
      /\ run.state.body = BeforeRecord(next - 1).body
  BY DEF IInv, ReplayRecord, Looping, RunOK
<1>2. Session /\ call.op # "none"
  <2>1. Session
    BY <1>1 DEF IInv, LifecycleOK, NoRun
  <2>2. call.op # "none"
    BY <1>1 DEF IInv, RunOK, Kinds
  <2>3. QED
    BY <2>1, <2>2
<1>3. run.end \in Nat /\ run.end <= Len(source) /\ Len(source) \in Nat
  BY <1>1, PlaceFacts DEF IInv
<1>4. next \in Places /\ next \in Nat /\ next + 1 \in 1..run.end + 1
      /\ next + 1 - 1 = next /\ next + 1 # 1
  BY <1>1, <1>3 DEF Places
<1>5. q.ok /\ q.state = timeline[next]
  <2>1. Replays(next)
    BY <1>4 DEF IInv, OpenedOK
  <2>2. QED
    BY <2>1 DEF Replays
<1>6. r = q
  BY <1>1 DEF Applied
<1>7. source[next] \in Records /\ timeline[next] \in States
      /\ BeforeRecord(next) = timeline[next]
  BY <1>4, PlaceFacts DEF IInv
<1>8. r.terminal \in BOOLEAN
  BY <1>7, AppliedTerminal
<1>9. /\ run' = [run EXCEPT !.state = r.state, !.next = @ + 1,
                            !.terminal = r.terminal]
      /\ UNCHANGED << call, refused >>
      /\ UNCHANGED << opened, lifecycle, playback, clock, position, state,
                      outputs, saved, anchor, earned >>
  BY <1>5, <1>6 DEF ReplayRecord
<1>10. r.state = timeline[next]
  BY <1>5, <1>6
<1> DEFINE more == next + 1
           ended == r.terminal
<1>11. run' = [run EXCEPT !.state = timeline[next], !.next = more,
                          !.terminal = ended]
  BY <1>9, <1>10
<1>12. /\ more \in 1..run.end + 1 /\ more - 1 = next /\ more # 1 /\ more \in Nat
       /\ more = next + 1 /\ ended \in BOOLEAN
  <2> HIDE DEF r, q, next
  <2>1. QED
    BY <1>4, <1>8
<1> HIDE DEF r, q, more, ended, next
<1>13. OpenedOK' /\ PlacesOK' /\ CheckpointsOK'
  BY <1>9, OpenedStays DEF IInv
<1>14. LifecycleOK'
  BY <1>2, <1>9 DEF IInv, LifecycleOK, Session, opened, Shown, Places
<1>15. DeliveryOK'
  BY <1>9 DEF IInv, DeliveryOK, outputs, Session
<1>16. RunOK'
  <2>1. PICK x : x = [run EXCEPT !.state = timeline[next], !.next = more,
                                 !.terminal = ended]
    OBVIOUS
  <2>2. /\ x.kind = run.kind /\ x.end = run.end /\ x.next = more
        /\ x.state = timeline[next]
        /\ x \in [kind : Kinds, state : States, next : Nat, end : Nat,
                  terminal : BOOLEAN]
    BY <1>1, <1>7, <1>12, <2>1
  <2>3. run' = x
    BY <1>11, <2>1
  <2>4. Shown(x.state, x.next - 1)'
    BY <1>4, <1>7, <1>9, <1>12, <2>2 DEF Shown, Places, opened
  <2>5. x.state.body = BeforeRecord(x.next - 1)'.body
    BY <1>4, <1>7, <1>9, <1>12, <2>2 DEF BeforeRecord, opened
  <2>6. x.end \in Places' /\ x.next \in 1..x.end + 1 /\ x.kind # "none"
    BY <1>1, <1>9, <1>12, <2>2 DEF Places, opened
  <2>7. x.kind \in {"tick", "trailing"} => position' < x.next /\ position' < x.end
    <3>1. SUFFICES ASSUME x.kind \in {"tick", "trailing"}
                   PROVE  position < more /\ position < x.end
      BY <1>9, <2>2
    <3>2. position < next /\ position < run.end
      BY <2>2, <3>1 DEF IInv, RunOK, next
    <3>3. position \in Nat
      BY <1>2, PlaceFacts DEF IInv, LifecycleOK, Shown
    <3>4. QED
      BY <1>4, <1>12, <2>2, <3>2, <3>3
  <2>8. /\ call' = call /\ delivered' = delivered
    BY <1>9 DEF outputs
  <2>9. /\ call.op \in {"none", "advance", "seek"}
        /\ call.op = "none" => call = NoCall
        /\ call.op = "advance" => call.first = delivered
        /\ x.kind \in Kinds
        /\ x.kind = "seek" <=> call.op = "seek"
        /\ x.kind \in {"tick", "trailing"} => call.op = "advance"
    BY <2>2 DEF IInv, RunOK
  <2>10. QED
    BY <2>2, <2>3, <2>4, <2>5, <2>6, <2>7, <2>8, <2>9 DEF RunOK
<1>17. ClockOK' /\ SavedOK'
  BY <1>9, ClockStays, SavedStays DEF IInv
<1>18. QED
  BY <1>13, <1>14, <1>15, <1>16, <1>17 DEF IInv

\* A loop that is over has come to its end.
LEMMA LoopedFacts ==
  ASSUME IInv, run.kind # "none", run.next > run.end
  PROVE  Session /\ Shown(run.state, run.end)
<1>1. /\ run.end \in Places /\ run.next \in 1..run.end + 1
      /\ run.next # 1 => Shown(run.state, run.next - 1)
  BY DEF IInv, RunOK
<1>2. run.end \in Nat \ {0}
  BY <1>1, PlaceFacts DEF IInv
<1>3. run.next # 1 /\ run.next - 1 = run.end
  BY <1>1, <1>2
<1>4. Session
  BY DEF IInv, LifecycleOK, NoRun
<1>5. QED
  BY <1>1, <1>3, <1>4

LEMMA ForwardCommitStep ==
  ASSUME IInv, ForwardCommit
  PROVE  IInv'
<1>1. run.kind \in {"tick", "trailing"} /\ run.next > run.end
  BY DEF ForwardCommit, Looped
<1>2. /\ Session /\ Shown(run.state, run.end) /\ call.op = "advance"
      /\ call.first = delivered
  BY <1>1, LoopedFacts DEF IInv, RunOK
<1>3. OpenedOK' /\ PlacesOK' /\ CheckpointsOK'
  BY <1>2, OpenedStays DEF IInv, ForwardCommit, Session
<1>5. LifecycleOK'
  BY <1>2 DEF IInv, ForwardCommit, LifecycleOK, Session, opened, Shown, Places,
              history
<1>6. DeliveryOK'
  BY <1>2 DEF IInv, ForwardCommit, DeliveryOK, outputs, Session
<1>7. RunOK'
  BY <1>2 DEF ForwardCommit, RunOK, NoRun, Kinds, outputs
<1>8. ClockOK'
  BY DEF IInv, ForwardCommit, ClockOK, Clocks
<1>9. SavedOK'
  BY SavedStays DEF IInv, ForwardCommit
<1>10. QED
  BY <1>3, <1>5, <1>6, <1>7, <1>8, <1>9 DEF IInv

-----------------------------------------------------------------------------
(* Seeks.                                                                   *)

\* There is a checkpoint at or before every place, and the nearest one is the
\* one that a seek starts from.
LEMMA NearestCheckpoint ==
  ASSUME OpenedOK, CheckpointsOK, NEW target \in 0..Len(source)
  PROVE  LET c == CheckpointFor(target)
         IN  /\ c \in checkpoints /\ c.position <= target
             /\ \A d \in checkpoints :
                  d.position <= target => d.position <= c.position
<1> DEFINE near == {c \in checkpoints : c.position <= target}
           S == {c.position : c \in near}
<1>1. target \in Nat /\ Len(source) \in Nat
  BY LenProperties DEF OpenedOK
<1>2. \A c \in checkpoints : c.position \in Nat
  BY <1>1 DEF CheckpointsOK
<1>3. S \subseteq 0..target
  BY <1>1, <1>2
<1>4. S # {}
  <2>1. PICK c \in checkpoints : c.position = 0
    BY DEF CheckpointsOK
  <2>2. c.position \in S
    BY <1>1, <2>1
  <2>3. QED
    BY <2>2
<1>5. PICK c \in near : c.position = Max(S)
  <2> HIDE DEF near
  <2>1. Max(S) \in S
    BY <1>1, <1>3, <1>4, MaxOf
  <2>2. QED
    BY <2>1
<1>6. \A d \in near : d.position <= c.position
  <2>1. TAKE d \in near
  <2>2. d.position \in S
    OBVIOUS
  <2> HIDE DEF S, near
  <2>3. QED
    BY <1>1, <1>3, <1>4, <1>5, <2>2, MaxOf
<1>7. /\ c \in checkpoints /\ c.position <= target
      /\ \A d \in checkpoints : d.position <= target => d.position <= c.position
  BY <1>6
<1>8. QED
  BY <1>7 DEF CheckpointFor

\* From the first ready state on it is near enough.
LEMMA SeekDistance ==
  ASSUME OpenedOK, CheckpointsOK, ready # 0, NEW target \in ready..Len(source)
  PROVE  target - CheckpointFor(target).position <= MaxSeekRecords
<1>1. /\ Len(source) \in Nat /\ ready \in Nat /\ target \in Nat
      /\ target \in 0..Len(source) /\ MaxSeekRecords \in Nat
  BY LenProperties, LimitsAssumption DEF OpenedOK, LimitsAssumption
<1>2. PICK d \in checkpoints :
        d.position <= target /\ target - d.position <= MaxSeekRecords
  BY DEF CheckpointsOK
<1> DEFINE c == CheckpointFor(target)
<1>3. c \in checkpoints /\ d.position <= c.position
  BY <1>1, <1>2, NearestCheckpoint
<1>4. c.position \in Nat /\ d.position \in Nat
  BY <1>1, <1>2, <1>3 DEF CheckpointsOK
<1> HIDE DEF c
<1>5. target - c.position <= MaxSeekRecords
  BY <1>1, <1>2, <1>3, <1>4
<1>6. QED
  BY <1>5 DEF c

LEMMA SeekRecordStep ==
  ASSUME IInv, Idle, Session, NEW target \in Places, SeekRecord(target)
  PROVE  IInv'
<1> DEFINE c == CheckpointFor(target)
<1>1. call = NoCall /\ call.op = "none" /\ run = NoRun
  BY IdleFacts DEF IInv
<1>2. /\ target \in Nat /\ target <= Len(source) /\ Len(source) \in Nat
      /\ target \in 0..Len(source)
  BY PlaceFacts DEF IInv
<1>3. c \in checkpoints /\ c.position <= target
  BY <1>2, NearestCheckpoint DEF IInv
<1>4. /\ call' = [NoCall EXCEPT !.op = "seek"]
      /\ run' = [kind |-> "seek", state |-> c.state, next |-> c.position + 1,
                 end |-> target, terminal |-> FALSE]
      /\ UNCHANGED << opened, lifecycle, playback, clock, position, state,
                      outputs, saved, history >>
  BY DEF SeekRecord
<1> HIDE DEF c
<1>5. /\ c.position \in 0..Len(source) /\ c.position \in Nat
      /\ c.state = BeforeRecord(c.position)
  BY <1>2, <1>3 DEF IInv, CheckpointsOK, CheckpointOf
<1>6. c.state \in States
  BY <1>5, BeforeRecordType DEF IInv
<1>7. OpenedOK' /\ PlacesOK' /\ CheckpointsOK'
  BY <1>4, OpenedStays DEF IInv
<1>8. LifecycleOK'
  BY <1>4 DEF IInv, LifecycleOK, Session, opened, Shown, Places, history
<1>9. DeliveryOK'
  BY <1>1, <1>4 DEF IInv, DeliveryOK, outputs, Session
<1>10. RunOK'
  <2> DEFINE next == c.position + 1
  <2>1. /\ next \in Nat /\ next - 1 = c.position /\ next \in 1..target + 1
        /\ (next # 1 => c.position \in Places /\ c.position # 0)
    BY <1>2, <1>3, <1>5 DEF Places
  <2>2. PICK x : x = [kind |-> "seek", state |-> c.state, next |-> next,
                      end |-> target, terminal |-> FALSE]
    OBVIOUS
  <2>3. run' = x
    BY <1>4, <2>2
  <2> HIDE DEF next
  <2>4. /\ x.kind = "seek" /\ x.state = c.state /\ x.next = next
        /\ x.end = target
        /\ x \in [kind : Kinds, state : States, next : Nat, end : Nat,
                  terminal : BOOLEAN]
    BY <1>2, <1>6, <2>1, <2>2 DEF Kinds
  <2>5. x.state.body = BeforeRecord(x.next - 1)'.body
    BY <1>4, <1>5, <2>1, <2>4 DEF BeforeRecord, opened
  <2>6. x.next # 1 => Shown(x.state, x.next - 1)'
    BY <1>4, <1>5, <1>6, <2>1, <2>4 DEF Shown, BeforeRecord, Places, opened
  <2>7. x.end \in Places' /\ x.next \in 1..x.end + 1
    BY <1>4, <2>1, <2>4 DEF Places, opened
  <2>8. call'.op = "seek"
    BY <1>4 DEF NoCall
  <2>9. QED
    BY <2>3, <2>4, <2>5, <2>6, <2>7, <2>8 DEF RunOK, Kinds
<1>11. ClockOK' /\ SavedOK'
  BY <1>4, ClockStays, SavedStays DEF IInv
<1>12. QED
  BY <1>7, <1>8, <1>9, <1>10, <1>11 DEF IInv

LEMMA SeekStep ==
  ASSUME IInv, NEW target \in DOMAIN source, Seek(target)
  PROVE  IInv'
<1>1. target \in Places
  BY LenProperties DEF IInv, OpenedOK, Places
<1>2. QED
  BY <1>1, SeekRecordStep DEF Seek

LEMMA SeekServerTickStep ==
  ASSUME IInv, NEW tick, SeekServerTick(tick)
  PROVE  IInv'
<1> DEFINE found == {r \in DOMAIN source : source[r].tick = tick}
<1>1. found # {} /\ Idle /\ Session /\ SeekRecord(TickGroupEnd(Max(found)))
  BY DEF SeekServerTick
<1>2. DOMAIN source = Places /\ Len(source) \in Nat
  BY LenProperties DEF IInv, OpenedOK, Places
<1>3. found \subseteq 0..Len(source)
  BY <1>2 DEF Places
<1>4. Max(found) \in found
  BY <1>1, <1>2, <1>3, MaxOf
<1>5. Max(found) \in Places
  BY <1>2, <1>4
<1>6. TickGroupEnd(Max(found)) \in Places
  BY <1>5, TickGroup DEF IInv
<1>7. QED
  BY <1>1, <1>6, SeekRecordStep

LEMMA StepStep ==
  ASSUME IInv, NEW ticks, Step(ticks)
  PROVE  IInv'
<1>1. PICK r \in tickRecords : SeekRecord(TickGroupEnd(r))
  BY DEF Step
<1>2. TickGroupEnd(r) \in Places
  BY <1>1, TickGroup DEF IInv, OpenedOK
<1>3. Idle /\ Session
  BY DEF Step
<1>4. QED
  BY <1>1, <1>2, <1>3, SeekRecordStep

LEMMA SeekCommitStep ==
  ASSUME IInv, SeekCommit
  PROVE  IInv'
<1>1. run.kind = "seek" /\ run.next > run.end
  BY DEF SeekCommit, Looped
<1>2. Session /\ Shown(run.state, run.end)
  BY <1>1, LoopedFacts
<1> DEFINE s == [run.state EXCEPT !.discontinuity = TRUE]
<1>3. /\ s \in States /\ s.body = run.state.body /\ s.discontinuity = TRUE
      /\ s.body.events \in Nat
  BY <1>2 DEF Shown, States, Bodies
<1>4. /\ position' = run.end /\ state' = s
      /\ lifecycle' \in {"Ended", "Ready", "Signon"}
      /\ playback' \in {"Paused", playback}
      /\ accumulated' = 0 /\ remainder' = << 0, 1 >>
      /\ delivered' = s.body.events
      /\ lastRange' = << delivered', delivered' >> /\ report' = lastRange'
      /\ lastDiscontinuity' = TRUE
      /\ call' = NoCall /\ run' = NoRun
      /\ UNCHANGED << opened, rate, saved, refused >>
  BY <1>3 DEF SeekCommit
<1> HIDE DEF s
<1>5. OpenedOK' /\ PlacesOK' /\ CheckpointsOK'
  BY <1>4, OpenedStays DEF IInv
<1>6. LifecycleOK'
  <2>1. Shown(s, run.end)
    BY <1>2, <1>3 DEF Shown
  <2>2. Shown(state, position)'
    BY <1>4, <2>1 DEF Shown, Places, opened
  <2>3. QED
    BY <1>2, <1>4, <2>2 DEF IInv, LifecycleOK, Session, opened
<1>7. DeliveryOK'
  BY <1>3, <1>4 DEF DeliveryOK, Ranges
<1>8. RunOK'
  BY <1>4 DEF RunOK, NoRun, NoCall, Kinds
<1>9. ClockOK'
  BY <1>4 DEF IInv, ClockOK, Clocks
<1>10. SavedOK'
  BY <1>4, SavedStays DEF IInv
<1>11. QED
  BY <1>5, <1>6, <1>7, <1>8, <1>9, <1>10 DEF IInv

-----------------------------------------------------------------------------
(* Snapshots.                                                               *)

LEMMA SnapshotStep ==
  ASSUME IInv, Snapshot
  PROVE  IInv'
<1>1. call = NoCall /\ call.op = "none" /\ Session
  BY IdleFacts DEF IInv, Snapshot, Idle
<1>2. OpenedOK' /\ PlacesOK' /\ CheckpointsOK'
  BY OpenedStays DEF IInv, Snapshot
<1>3. LifecycleOK'
  BY <1>1 DEF IInv, Snapshot, LifecycleOK, Session, opened, Shown, Places,
              history
<1>4. DeliveryOK'
  BY <1>1 DEF IInv, Snapshot, DeliveryOK, outputs, Session
<1>5. RunOK'
  BY RunStays DEF IInv, Snapshot, outputs
<1>6. ClockOK'
  BY ClockStays DEF IInv, Snapshot
<1>7. SavedOK'
  <2>1. Shown(state, position) /\ delivered = state.body.events
    BY <1>1 DEF IInv, LifecycleOK, DeliveryOK
  <2>2. PICK s : s = [lifecycle |-> lifecycle, playback |-> playback,
                      rate |-> rate, remainder |-> remainder,
                      accumulated |-> accumulated, position |-> position,
                      delivered |-> delivered, state |-> state]
    OBVIOUS
  <2>3. saved' = {s}
    BY <2>2 DEF Snapshot
  <2>4. /\ s.state = state /\ s.position = position /\ s.delivered = delivered
        /\ s.lifecycle = lifecycle /\ s.playback = playback
        /\ s.rate = rate /\ s.remainder = remainder
        /\ s.accumulated = accumulated
    BY <2>2
  <2>5. Shown(s.state, s.position)'
    BY <2>1, <2>4 DEF Snapshot, Shown, Places, opened
  <2>6. s.lifecycle \in {"Signon", "Ready", "Ended"}
        /\ s.playback \in {"Playing", "Paused"}
    BY <1>1, <2>4 DEF IInv, LifecycleOK, Session
  <2>7. Clocks(s.rate, s.remainder, s.accumulated)
    BY <2>4 DEF IInv, ClockOK
  <2>8. QED
    BY <2>1, <2>3, <2>4, <2>5, <2>6, <2>7 DEF SavedOK
<1>8. QED
  BY <1>2, <1>3, <1>4, <1>5, <1>6, <1>7 DEF IInv

LEMMA RestoreStep ==
  ASSUME IInv, Restore
  PROVE  IInv'
<1>1. call = NoCall /\ call.op = "none" /\ run = NoRun /\ Session
  BY IdleFacts DEF IInv, Restore, Idle
<1>2. PICK s \in saved :
        /\ lifecycle' = s.lifecycle /\ playback' = s.playback /\ rate' = s.rate
        /\ remainder' = s.remainder /\ accumulated' = s.accumulated
        /\ position' = s.position /\ state' = s.state
        /\ delivered' = s.delivered
        /\ lastRange' = << s.delivered, s.delivered >>
  BY DEF Restore
<1>3. /\ Shown(s.state, s.position) /\ s.delivered = s.state.body.events
      /\ s.lifecycle \in {"Signon", "Ready", "Ended"}
      /\ s.playback \in {"Playing", "Paused"}
      /\ Clocks(s.rate, s.remainder, s.accumulated)
  BY DEF IInv, SavedOK
<1>4. s.delivered \in Nat
  BY <1>3 DEF Shown, States, Bodies
<1>5. OpenedOK' /\ PlacesOK' /\ CheckpointsOK'
  BY <1>2, <1>3, OpenedStays DEF IInv, Restore
<1>6. LifecycleOK'
  BY <1>1, <1>2, <1>3 DEF IInv, Restore, LifecycleOK, Session, opened, Shown,
                          Places
<1>7. DeliveryOK'
  BY <1>2, <1>3, <1>4 DEF Restore, DeliveryOK, Ranges
<1>8. RunOK'
  BY <1>1 DEF Restore, RunOK, NoRun, NoCall, Kinds
<1>9. ClockOK'
  BY <1>2, <1>3 DEF ClockOK, Clocks
<1>10. SavedOK'
  BY SavedStays DEF IInv, Restore
<1>11. QED
  BY <1>5, <1>6, <1>7, <1>8, <1>9, <1>10 DEF IInv

-----------------------------------------------------------------------------
(* Opening a session.                                                       *)

LEMMA LastStateFacts ==
  ASSUME OpenedOK
  PROVE  LastState = BeforeRecord(Len(source)) /\ LastState \in States
<1>1. /\ timeline \in Seq(States) /\ Len(timeline) = Len(source)
      /\ Len(source) \in Nat
  BY LenProperties DEF OpenedOK
<1>2. timeline = << >> <=> Len(timeline) = 0
  BY <1>1, EmptySeq
<1>3. LastState = BeforeRecord(Len(source))
  BY <1>1, <1>2 DEF LastState, BeforeRecord
<1>4. QED
  BY <1>1, <1>3, BeforeRecordType

\* open() accepts a record, at the place p and with the outcome r.
Accepts(rec, p, r) ==
  /\ p = Len(source) + 1 /\ r = Applied(LastState, rec, p, log, TRUE)
  /\ r.ok
  /\ source' = Append(source, rec)
  /\ timeline' = Append(timeline, r.state)
  /\ log' = r.log

\* A record that open() accepts continues the timeline and the log.
LEMMA OpenedGrows ==
  ASSUME OpenedOK, NEW rec \in Records, NEW p, NEW r, Accepts(rec, p, r)
  PROVE  /\ r.state \in States
         /\ source' \in Seq(Records) /\ timeline' \in Seq(States)
         /\ Len(source') = p /\ Len(timeline') = p
         /\ \A q \in 0..Len(source) : BeforeRecord(q)' = BeforeRecord(q)
         /\ \A q \in Places : source'[q] = source[q] /\ timeline'[q] = timeline[q]
         /\ source'[p] = rec /\ timeline'[p] = r.state
         /\ log' \in Seq(Happenings) /\ Len(log') = LastState'.body.events
         /\ \A q \in 1..p : Replays(q)'
<1>0. /\ p = Len(source) + 1 /\ r = Applied(LastState, rec, p, log, TRUE)
      /\ r.ok /\ source' = Append(source, rec)
      /\ timeline' = Append(timeline, r.state) /\ log' = r.log
  BY DEF Accepts
<1>1. /\ source \in Seq(Records) /\ timeline \in Seq(States)
      /\ Len(timeline) = Len(source) /\ Len(source) \in Nat
      /\ p \in Nat /\ p # 0 /\ p - 1 = Len(source)
  BY <1>0, LenProperties DEF OpenedOK
<1>2. LastState = BeforeRecord(Len(source)) /\ LastState \in States
  BY LastStateFacts
<1>3. Logs(LastState.body, log)
  BY <1>2 DEF OpenedOK, Logs, States
<1>4. PICK again : again = Applied(LastState, rec, p, r.log, FALSE)
  OBVIOUS
<1>5. /\ r.state \in States /\ Logs(r.state.body, r.log) /\ Extends(log, r.log)
      /\ again.ok /\ again.state = r.state
  BY <1>0, <1>1, <1>2, <1>3, <1>4, AppliedBuilds
<1>6. /\ source' \in Seq(Records) /\ Len(source') = Len(source) + 1
      /\ source'[Len(source) + 1] = rec
      /\ \A q \in 1..Len(source) : source'[q] = source[q]
  BY <1>0, <1>1, AppendProperties
<1>7. /\ timeline' \in Seq(States) /\ Len(timeline') = Len(timeline) + 1
      /\ timeline'[Len(timeline) + 1] = r.state
      /\ \A q \in 1..Len(timeline) : timeline'[q] = timeline[q]
  <2>1. PICK new \in States : new = r.state
    BY <1>5
  <2>2. timeline' = Append(timeline, new)
    BY <1>0, <2>1
  <2>a. PICK longer : longer = Append(timeline, new)
    OBVIOUS
  <2>b. /\ longer \in Seq(States) /\ Len(longer) = Len(timeline) + 1
        /\ longer[Len(timeline) + 1] = new
        /\ \A q \in 1..Len(timeline) : longer[q] = timeline[q]
    <3>1. timeline \in Seq(States)
      BY <1>1
    <3>2. QED
      BY ONLY <2>a, <3>1, AppendProperties
  <2>3. /\ timeline' \in Seq(States) /\ Len(timeline') = Len(timeline) + 1
        /\ timeline'[Len(timeline) + 1] = new
        /\ \A q \in 1..Len(timeline) : timeline'[q] = timeline[q]
    BY <2>2, <2>a, <2>b
  <2>4. QED
    BY <2>1, <2>3
<1>8. \A q \in 0..Len(source) : BeforeRecord(q)' = BeforeRecord(q)
  <2>1. TAKE q \in 0..Len(source)
  <2>2. q = 0 \/ q \in 1..Len(timeline)
    BY <1>1
  <2>3. q = 0 \/ timeline'[q] = timeline[q]
    BY <1>7, <2>2
  <2>4. QED
    BY <2>3 DEF BeforeRecord
<1>9. log' \in Seq(Happenings) /\ log \in Seq(Happenings) /\ Extends(log, log')
  BY <1>0, <1>5 DEF OpenedOK, Logs
<1>10. LastState' = r.state
  <2>1. timeline' # << >>
    BY <1>1, <1>7
  <2>2. QED
    BY <1>1, <1>7, <2>1 DEF LastState
<1>11. \A q \in 1..p : Replays(q)'
  <2>1. TAKE q \in 1..p
  <2>2. CASE q \in Places
    <3>1. q \in Nat /\ q - 1 \in 0..Len(source) /\ q \in 1..Len(source)
      BY <1>1, <2>2 DEF Places
    <3>2. source[q] \in Records /\ BeforeRecord(q - 1) \in States
      BY <2>2, <3>1, PlaceFacts, BeforeRecordType
    <3>3. /\ Applied(BeforeRecord(q - 1), source[q], q, log, FALSE).ok
          /\ Applied(BeforeRecord(q - 1), source[q], q, log, FALSE).state
               = timeline[q]
      <4>1. Replays(q)
        BY <2>2 DEF OpenedOK
      <4>2. QED
        BY <4>1 DEF Replays
    <3>4. /\ Applied(BeforeRecord(q - 1), source[q], q, log', FALSE).ok
          /\ Applied(BeforeRecord(q - 1), source[q], q, log', FALSE).state
               = timeline[q]
      BY <1>9, <3>1, <3>2, <3>3, AppliedLonger
    <3>5. /\ source'[q] = source[q] /\ timeline'[q] = timeline[q]
          /\ BeforeRecord(q - 1)' = BeforeRecord(q - 1)
      BY <1>1, <1>6, <1>7, <1>8, <3>1
    <3>6. QED
      BY <3>4, <3>5 DEF Replays
  <2>3. CASE q = p
    <3>1. BeforeRecord(p - 1)' = LastState
      BY <1>1, <1>2, <1>8
    <3>2. source'[p] = rec /\ timeline'[p] = r.state
      BY <1>1, <1>6, <1>7
    <3>3. /\ Applied(LastState, rec, p, log', FALSE).ok
          /\ Applied(LastState, rec, p, log', FALSE).state = r.state
      BY <1>0, <1>4, <1>5
    <3>4. QED
      BY <2>3, <3>1, <3>2, <3>3 DEF Replays
  <2>4. QED
    BY <1>1, <2>2, <2>3 DEF Places
<1>12. Len(log') = LastState'.body.events
  BY <1>0, <1>5, <1>10 DEF Logs
<1>13. QED
  BY <1>1, <1>5, <1>6, <1>7, <1>8, <1>9, <1>11, <1>12 DEF Places

\* A refused record ends the attempt to open a session.
LEMMA RefuseStep ==
  ASSUME IInv, lifecycle = "Opening", Refuse
  PROVE  IInv'
<1>1. OpenedOK' /\ PlacesOK' /\ CheckpointsOK'
  BY OpenedStays DEF IInv, Refuse
<1>2. LifecycleOK'
  BY DEF IInv, LifecycleOK, Refuse, Session, history
<1>3. DeliveryOK'
  BY DEF IInv, DeliveryOK, Refuse, Session, outputs
<1>4. RunOK' /\ ClockOK' /\ SavedOK'
  BY RunStays, ClockStays, SavedStays DEF IInv, Refuse, outputs
<1>5. QED
  BY <1>1, <1>2, <1>3, <1>4 DEF IInv

LEMMA OpenRecordStep ==
  ASSUME IInv, NEW rec \in Records, OpenRecord(rec)
  PROVE  IInv'
<1> DEFINE becomesReady(r) == ready = 0 /\ IsReady(r.state)
           count == sinceTicks + (IF rec.tick = NoTick THEN 0 ELSE 1)
           due(r) == CheckpointDue(becomesReady(r), count, sinceRecords + 1)
           kept(p, r) == IF due(r) THEN {CheckpointOf(p, r.state)} ELSE {}
<1>0. lifecycle = "Opening"
  BY DEF OpenRecord
<1>1. PICK p : p = Len(source) + 1
  OBVIOUS
<1>2. PICK r : r = Applied(LastState, rec, p, log, TRUE)
  OBVIOUS
<1>3. \/ Refuse
      \/ /\ r.ok
         /\ Cardinality(checkpoints \cup kept(p, r)) <= MaxCheckpoints
         /\ source' = Append(source, rec)
         /\ timeline' = Append(timeline, r.state)
         /\ log' = r.log
         /\ checkpoints' = checkpoints \cup kept(p, r)
         /\ tickRecords' = tickRecords \cup
                             (IF rec.tick = NoTick THEN {} ELSE {p})
         /\ ready' = IF becomesReady(r) THEN p ELSE ready
         /\ terminal' \in {p, terminal}
         /\ sinceTicks' = IF due(r) THEN 0 ELSE count
         /\ sinceRecords' = IF due(r) THEN 0 ELSE sinceRecords + 1
         /\ UNCHANGED << lifecycle, playback, clock, position, state,
                         outputs, call, run, saved, history >>
  <2>1. Cardinality(checkpoints \cup kept(p, r)) \in Int
    <3>1. IsFiniteSet(checkpoints)
      BY DEF IInv, CheckpointsOK
    <3>2. IsFiniteSet({CheckpointOf(p, r.state)}) /\ IsFiniteSet({})
      BY FS_Singleton, FS_EmptySet
    <3>3. IsFiniteSet(kept(p, r))
      BY <3>2
    <3> HIDE DEF kept
    <3>4. IsFiniteSet(checkpoints \cup kept(p, r))
      BY <3>1, <3>3, FS_Union
    <3>5. Cardinality(checkpoints \cup kept(p, r)) \in Nat
      BY <3>4, FS_CardinalityType
    <3>6. QED
      BY <3>5
  <2>2. MaxCheckpoints \in Nat
    BY LimitsAssumption DEF LimitsAssumption
  <2> DEFINE P == Len(source) + 1
             R == Applied(LastState, rec, P, log, TRUE)
  <2>3. \/ Refuse
        \/ /\ R.ok
           /\ ~(Cardinality(checkpoints \cup kept(P, R)) > MaxCheckpoints)
           /\ source' = Append(source, rec)
           /\ timeline' = Append(timeline, R.state)
           /\ log' = R.log
           /\ checkpoints' = checkpoints \cup kept(P, R)
           /\ tickRecords' = tickRecords \cup
                               (IF rec.tick = NoTick THEN {} ELSE {P})
           /\ ready' = IF becomesReady(R) THEN P ELSE ready
           /\ terminal' = IF R.terminal THEN P ELSE terminal
           /\ sinceTicks' = IF due(R) THEN 0 ELSE count
           /\ sinceRecords' = IF due(R) THEN 0 ELSE sinceRecords + 1
           /\ UNCHANGED << lifecycle, playback, clock, position, state,
                           outputs, call, run, saved, history >>
    BY DEF OpenRecord
  <2>4. P = p /\ R = r
    BY <1>1, <1>2
  <2> HIDE DEF P, R, kept, due, becomesReady, count
  <2>5. QED
    BY <2>1, <2>2, <2>3, <2>4
<1>4. ASSUME Refuse PROVE IInv'
  BY <1>0, <1>4, RefuseStep
<1>5. ASSUME r.ok,
             Cardinality(checkpoints \cup kept(p, r)) <= MaxCheckpoints,
             source' = Append(source, rec),
             timeline' = Append(timeline, r.state),
             log' = r.log,
             checkpoints' = checkpoints \cup kept(p, r),
             tickRecords' = tickRecords \cup
                              (IF rec.tick = NoTick THEN {} ELSE {p}),
             ready' = IF becomesReady(r) THEN p ELSE ready,
             terminal' \in {p, terminal},
             sinceTicks' = IF due(r) THEN 0 ELSE count,
             sinceRecords' = IF due(r) THEN 0 ELSE sinceRecords + 1,
             UNCHANGED << lifecycle, playback, clock, position, state,
                          outputs, call, run, saved, history >>
      PROVE  IInv'
  <2> HIDE DEF due, kept
  <2>1. /\ Len(source) \in Nat /\ p \in Nat /\ p = Len(source) + 1 /\ p # 0
        /\ ready \in 0..Len(source) /\ terminal \in 0..Len(source)
        /\ tickRecords \subseteq Places /\ Places = 1..Len(source)
    BY <1>1, LenProperties DEF IInv, OpenedOK, Places
  <2>2. /\ r.state \in States
        /\ source' \in Seq(Records) /\ timeline' \in Seq(States)
        /\ Len(source') = p /\ Len(timeline') = p
        /\ \A q \in 0..Len(source) : BeforeRecord(q)' = BeforeRecord(q)
        /\ \A q \in Places : source'[q] = source[q] /\ timeline'[q] = timeline[q]
        /\ source'[p] = rec /\ timeline'[p] = r.state
        /\ log' \in Seq(Happenings) /\ Len(log') = LastState'.body.events
        /\ \A q \in 1..p : Replays(q)'
    <3>1. OpenedOK /\ Accepts(rec, p, r)
      BY <1>1, <1>2, <1>5 DEF IInv, Accepts
    <3> HIDE DEF becomesReady, count
    <3>2. QED
      BY <3>1, OpenedGrows
  <2>3. Places' = 1..p /\ \A q \in Places' : q = p \/ q \in Places
    BY <2>1, <2>2 DEF Places
  <2>4. ready' \in {p, ready}
    BY <1>5
  <2>5. OpenedOK'
    <3>0. terminal' \in {p, terminal}
      BY <1>5
    <3>1. ready' \in 0..p /\ terminal' \in 0..p
      BY <2>1, <2>4, <3>0
    <3>2. tickRecords' \subseteq 1..p
      <4>1. tickRecords' \subseteq tickRecords \cup {p}
        BY <1>5
      <4>2. tickRecords \subseteq 1..p /\ {p} \subseteq 1..p
        BY <2>1
      <4>3. QED
        BY <4>1, <4>2
    <3>3. QED
      BY <2>2, <2>3, <3>1, <3>2 DEF OpenedOK
  <2>6. PlacesOK'
    <3>1. ASSUME NEW q \in Places', q \in tickRecords'
          PROVE  source'[q].tick # NoTick
      <4>1. CASE q = p
        <5>1. p \notin tickRecords
          BY <2>1
        <5>2. rec.tick # NoTick
          BY <1>5, <3>1, <4>1, <5>1
        <5>3. QED
          BY <2>2, <4>1, <5>2
      <4>2. CASE q # p
        <5>1. q \in Places /\ q \in tickRecords
          BY <1>5, <2>3, <3>1, <4>2
        <5>2. QED
          BY <2>2, <5>1 DEF IInv, PlacesOK
      <4>3. QED
        BY <4>1, <4>2
    <3>2. ASSUME NEW q \in Places', source'[q].tick # NoTick
          PROVE  q \in tickRecords'
      <4>1. CASE q = p
        BY <1>5, <2>2, <3>2, <4>1
      <4>2. CASE q # p
        <5>1. q \in Places /\ source[q].tick # NoTick
          BY <2>2, <2>3, <3>2, <4>2
        <5>2. q \in tickRecords
          BY <1>0, <5>1 DEF IInv, PlacesOK
        <5>3. QED
          BY <1>5, <5>2
      <4>3. QED
        BY <4>1, <4>2
    <3>3. ASSUME NEW q \in Places', IsReady(timeline'[q])
          PROVE  ready' # 0 /\ ready' <= q
      <4>1. CASE q = p
        <5>1. IsReady(r.state)
          BY <2>2, <3>3, <4>1
        <5>2. CASE ready = 0
          BY <1>5, <2>1, <4>1, <5>1, <5>2
        <5>3. CASE ready # 0
          BY <1>5, <2>1, <4>1, <5>3
        <5>4. QED
          BY <5>2, <5>3
      <4>2. CASE q # p
        <5>1. q \in Places /\ IsReady(timeline[q])
          BY <2>2, <2>3, <3>3, <4>2
        <5>2. ready # 0 /\ ready <= q
          BY <5>1 DEF IInv, PlacesOK
        <5>3. QED
          BY <1>5, <5>2
      <4>3. QED
        BY <4>1, <4>2
    <3>4. QED
      BY <3>1, <3>2, <3>3 DEF PlacesOK, IsReady
  <2>7. CheckpointsOK'
    <3>1. ASSUME NEW c \in checkpoints'
          PROVE  /\ c.position \in 0..p
                 /\ c = CheckpointOf(c.position, BeforeRecord(c.position)')
      <4>1. CASE c \in checkpoints
        <5>1. /\ c.position \in 0..Len(source)
              /\ c = CheckpointOf(c.position, BeforeRecord(c.position))
          BY <4>1 DEF IInv, CheckpointsOK
        <5>2. BeforeRecord(c.position)' = BeforeRecord(c.position)
          BY <2>2, <5>1
        <5>3. QED
          BY <2>1, <5>1, <5>2
      <4>2. CASE c = CheckpointOf(p, r.state)
        <5>1. c.position = p
          BY <4>2 DEF CheckpointOf
        <5>2. BeforeRecord(p)' = r.state
          BY <2>1, <2>2 DEF BeforeRecord
        <5>3. QED
          BY <2>1, <4>2, <5>1, <5>2
      <4>3. QED
        BY <1>5, <3>1, <4>1, <4>2 DEF kept
    <3>2. \E c \in checkpoints' : c.position = 0
      BY <1>5 DEF IInv, CheckpointsOK
    <3>3. IsFiniteSet(checkpoints') /\ Cardinality(checkpoints') <= MaxCheckpoints
      <4>1. IsFiniteSet(kept(p, r))
        BY FS_Singleton, FS_EmptySet DEF kept
      <4>2. IsFiniteSet(checkpoints)
        BY DEF IInv, CheckpointsOK
      <4>3. QED
        BY <1>5, <4>1, <4>2, FS_Union
    <3>4. sinceTicks' \in Nat /\ sinceRecords' \in Nat
      BY <1>5 DEF IInv, CheckpointsOK
    <3>5. ASSUME ready' # 0
          PROVE  /\ sinceRecords' < MaxSeekRecords
                 /\ \E c \in checkpoints' : c.position = p - sinceRecords'
                 /\ \A target \in ready'..p : \E c \in checkpoints' :
                      c.position <= target /\ target - c.position <= MaxSeekRecords
      <4>0. /\ MaxSeekRecords \in Nat \ {0} /\ sinceRecords \in Nat
            /\ checkpoints \subseteq checkpoints'
        BY <1>5, LimitsAssumption DEF LimitsAssumption, IInv, CheckpointsOK
      <4>1. ASSUME ready # 0, NEW target \in ready..Len(source)
            PROVE  \E c \in checkpoints' :
                     c.position <= target /\ target - c.position <= MaxSeekRecords
        BY <4>0, <4>1 DEF IInv, CheckpointsOK
      <4>2. CASE due(r)
        <5>1. sinceRecords' = 0 /\ CheckpointOf(p, r.state) \in checkpoints'
          BY <1>5, <4>2 DEF kept
        <5>2. CheckpointOf(p, r.state).position = p
          BY DEF CheckpointOf
        <5>3. ASSUME NEW target \in ready'..p
              PROVE  \E c \in checkpoints' :
                       c.position <= target /\ target - c.position <= MaxSeekRecords
          <6>1. CASE target = p
            BY <2>1, <4>0, <5>1, <5>2, <6>1
          <6>2. CASE target # p
            <7>1. ready' # p
              BY <2>1, <5>3, <6>2
            <7>2. ready # 0 /\ target \in ready..Len(source)
              BY <2>1, <2>4, <3>5, <5>3, <6>2, <7>1
            <7>3. QED
              BY <4>1, <7>2
          <6>3. QED
            BY <6>1, <6>2
        <5>4. QED
          BY <2>1, <4>0, <5>1, <5>2, <5>3
      <4>3. CASE ~due(r)
        <5>1. /\ ~becomesReady(r) /\ (ready # 0 => sinceRecords + 1 < MaxSeekRecords)
          BY <4>0, <4>3 DEF due, CheckpointDue
        <5>2. ready' = ready /\ ready # 0 /\ sinceRecords' = sinceRecords + 1
              /\ sinceRecords' < MaxSeekRecords
          BY <1>5, <3>5, <4>3, <5>1
        <5>3. PICK c \in checkpoints : c.position = Len(source) - sinceRecords
          BY <5>2 DEF IInv, CheckpointsOK
        <5>4. c.position = p - sinceRecords'
          BY <2>1, <4>0, <5>2, <5>3
        <5>5. ASSUME NEW target \in ready..p
              PROVE  \E d \in checkpoints' :
                       d.position <= target /\ target - d.position <= MaxSeekRecords
          <6>1. CASE target = p
            BY <2>1, <4>0, <5>2, <5>3, <5>4, <6>1
          <6>2. CASE target # p
            <7>1. target \in ready..Len(source)
              BY <2>1, <5>5, <6>2
            <7>2. QED
              BY <4>1, <5>2, <7>1
          <6>3. QED
            BY <6>1, <6>2
        <5>6. QED
          BY <4>0, <5>2, <5>3, <5>4, <5>5
      <4>4. QED
        BY <4>2, <4>3
    <3>6. QED
      BY <2>2, <3>1, <3>2, <3>3, <3>4, <3>5 DEF CheckpointsOK
  <2>8. /\ ~Session /\ lifecycle' = "Opening"
        /\ position = 0 /\ state = InitialState
        /\ call = NoCall /\ run = NoRun /\ saved = {}
    BY <1>0, <1>5 DEF IInv, LifecycleOK, Session
  <2>9. LifecycleOK'
    BY <1>5, <2>8 DEF IInv, LifecycleOK, Session, history
  <2>10. DeliveryOK'
    BY <1>5, <2>8 DEF IInv, DeliveryOK, outputs, Session
  <2>11. RunOK'
    BY <1>5, <2>8 DEF RunOK, NoRun, NoCall, Kinds
  <2>12. ClockOK'
    BY <1>5, ClockStays DEF IInv
  <2>13. SavedOK'
    BY <1>5, <2>8 DEF SavedOK
  <2>14. QED
    BY <2>5, <2>6, <2>7, <2>9, <2>10, <2>11, <2>12, <2>13 DEF IInv
<1>6. QED
  BY <1>3, <1>4, <1>5

-----------------------------------------------------------------------------
(* The theorems.                                                            *)

LEMMA InitIInv ==
  ASSUME Init
  PROVE  IInv
<1>1. /\ << >> \in Seq(Records) /\ << >> \in Seq(States) /\ << >> \in Seq(Happenings)
      /\ Len(<< >>) = 0
  BY EmptySeq
<1>2. Places = {} /\ LastState = InitialState /\ InitialState.body.events = 0
  BY <1>1 DEF Init, Places, LastState, InitialState
<1>3. OpenedOK
  BY <1>1, <1>2 DEF Init, OpenedOK
<1>4. PlacesOK
  BY <1>2 DEF PlacesOK
<1>5. CheckpointsOK
  <2>1. MaxCheckpoints \in Nat \ {0}
    BY LimitsAssumption DEF LimitsAssumption
  <2>2. PICK c : c = [position |-> 0, state |-> InitialState]
    OBVIOUS
  <2>3. checkpoints = {c}
    BY <2>2 DEF Init
  <2>4. IsFiniteSet(checkpoints) /\ Cardinality(checkpoints) = 1
    BY <2>3, FS_Singleton
  <2>5. /\ c.position = 0 /\ c = CheckpointOf(c.position, BeforeRecord(c.position))
    BY <2>2 DEF CheckpointOf, BeforeRecord
  <2>6. 0 \in 0..Len(source) /\ ready = 0 /\ sinceTicks = 0 /\ sinceRecords = 0
    BY <1>1 DEF Init
  <2>7. QED
    BY <2>1, <2>3, <2>4, <2>5, <2>6 DEF CheckpointsOK
<1>6. LifecycleOK
  BY DEF Init, LifecycleOK, Session
<1>7. DeliveryOK
  BY DEF Init, DeliveryOK, Session, Ranges
<1>8. RunOK
  BY DEF Init, RunOK, NoRun, NoCall, Kinds
<1>9. ClockOK
  BY RatesAssumption DEF Init, ClockOK, Clocks, RatesAssumption
<1>10. SavedOK
  BY DEF Init, SavedOK
<1>11. QED
  BY <1>3, <1>4, <1>5, <1>6, <1>7, <1>8, <1>9, <1>10 DEF IInv

LEMMA StepIInv ==
  ASSUME IInv, [Next]_vars
  PROVE  IInv'
<1>1. CASE UNCHANGED vars
  <2>1. OpenedOK' /\ PlacesOK' /\ CheckpointsOK'
    BY <1>1, OpenedStays DEF IInv, vars
  <2>2. LifecycleOK'
    BY <1>1 DEF IInv, LifecycleOK, vars, Session, opened, Shown, Places, history
  <2>3. DeliveryOK'
    BY <1>1 DEF IInv, DeliveryOK, vars, Session, outputs
  <2>4. RunOK' /\ ClockOK' /\ SavedOK'
    BY <1>1, RunStays, ClockStays, SavedStays DEF IInv, vars, outputs
  <2>5. QED
    BY <2>1, <2>2, <2>3, <2>4 DEF IInv
<1>2. CASE \E rec \in Records : OpenRecord(rec)
  BY <1>2, OpenRecordStep
<1>3. CASE OpenReturn
  BY <1>3, OpenReturnStep
<1>4. CASE Reopen
  BY <1>4, ReopenStep
<1>5. CASE Pause
  BY <1>5, PauseStep
<1>6. CASE Resume
  BY <1>6, ResumeStep
<1>7. CASE \E new \in Rates : SetRate(new)
  BY <1>7, SetRateStep
<1>8. CASE AdvanceInert
  BY <1>8, AdvanceInertStep
<1>9. CASE \E elapsed \in Elapsed : Advance(elapsed)
  BY <1>9, AdvanceStep
<1>10. CASE AdvanceTick
  BY <1>10, AdvanceTickStep
<1>11. CASE AdvanceTrailing
  BY <1>11, AdvanceTrailingStep
<1>12. CASE AdvanceReturn
  BY <1>12, AdvanceReturnStep
<1>13. CASE ReplayRecord
  BY <1>13, ReplayRecordStep
<1>14. CASE ForwardCommit
  BY <1>14, ForwardCommitStep
<1>15. CASE \E target \in DOMAIN source : Seek(target)
  BY <1>15, SeekStep
<1>16. CASE \E tick \in Ticks : SeekServerTick(tick)
  BY <1>16, SeekServerTickStep
<1>17. CASE \E ticks \in -MaxStepTicks..MaxStepTicks : Step(ticks)
  BY <1>17, StepStep
<1>18. CASE SeekCommit
  BY <1>18, SeekCommitStep
<1>19. CASE Snapshot
  BY <1>19, SnapshotStep
<1>20. CASE Restore
  BY <1>20, RestoreStep
<1>21. QED
  BY <1>1, <1>2, <1>3, <1>4, <1>5, <1>6, <1>7, <1>8, <1>9, <1>10, <1>11,
     <1>12, <1>13, <1>14, <1>15, <1>16, <1>17, <1>18, <1>19, <1>20 DEF Next

\* The inductive invariant of a replay session.
THEOREM Invariance ==
  Spec => []IInv
<1>1. Init => IInv
  BY InitIInv
<1>2. IInv /\ [Next]_vars => IInv'
  BY StepIInv
<1>3. QED
  BY <1>1, <1>2, PTL DEF Spec

\* The variables keep their types, the positions lie on the timeline, and the
\* fraction of a nanosecond stays one.
THEOREM TypesHold ==
  Spec => []TypeOK
<1>1. IInv => TypeOK
  <2>1. SUFFICES ASSUME IInv PROVE TypeOK
    OBVIOUS
  <2>2. /\ source \in Seq(Records) /\ Len(timeline) = Len(source)
        /\ Len(source) \in Nat /\ DOMAIN source = Places
        /\ tickRecords \subseteq Places
        /\ ready \in 0..Len(source) /\ terminal \in 0..Len(source)
    BY <2>1, LenProperties DEF IInv, OpenedOK, Places
  <2>3. position \in 0..Len(source) /\ (Session => position # 0)
    BY <2>1, <2>2 DEF IInv, LifecycleOK, Shown, Places
  <2>4. rate \in Rates /\ accumulated \in Nat
        /\ remainder \in Nat \X (Nat \ {0}) /\ remainder[1] < remainder[2]
    BY <2>1 DEF IInv, ClockOK, Clocks
  <2>5. Cardinality(saved) <= 1
    <3>1. CASE saved = {}
      BY <3>1, FS_EmptySet
    <3>2. CASE saved # {}
      <4>1. PICK s \in saved : TRUE
        BY <3>2
      <4>2. \A t \in saved : t = s
        BY <2>1 DEF IInv, SavedOK
      <4>3. saved = {s}
        BY <4>2
      <4>4. QED
        BY <4>3, FS_Singleton
    <3>3. QED
      BY <3>1, <3>2
  <2>6. /\ call.op \in {"none", "advance", "seek"}
        /\ run.kind \in {"none", "tick", "trailing", "seek"}
        /\ run # NoRun => run.end \in Places /\ run.next \in 1..run.end + 1
    BY <2>1 DEF IInv, RunOK, Kinds
  <2>7. \A c \in checkpoints : c.position \in 0..Len(source)
    BY <2>1 DEF IInv, CheckpointsOK
  <2>8. /\ lifecycle \in {"Opening", "Signon", "Ready", "Ended", "Failed"}
        /\ playback \in {"Playing", "Paused"} /\ refused \in BOOLEAN
        /\ delivered \in Nat /\ lastRange \in Ranges /\ report \in Ranges
        /\ lastDiscontinuity \in BOOLEAN
    BY <2>1 DEF IInv, LifecycleOK, DeliveryOK
  <2>9. QED
    BY <2>2, <2>3, <2>4, <2>5, <2>6, <2>7, <2>8 DEF TypeOK
<1>2. QED
  BY <1>1, Invariance, PTL

\* Whatever a session is asked to do, what it shows at a record is what open()
\* computed there, no record that open() accepted is refused afterwards, and
\* a seek reaches every place within its bound of work.
THEOREM SeeksAreAlwaysExact ==
  Spec => []SeeksAreExact
<1>1. IInv => SeeksAreExact
  <2>1. SUFFICES ASSUME IInv PROVE ReplayMatchesOpening /\ SeekWorkBounded
    BY DEF SeeksAreExact
  <2>2. /\ ~refused
        /\ Session => /\ state.body = timeline[position].body
                      /\ timeline[position].discontinuity => state.discontinuity
    BY <2>1 DEF IInv, LifecycleOK, Shown
  <2>3. run # NoRun => run.state.body = BeforeRecord(run.next - 1).body
    BY <2>1 DEF IInv, RunOK
  <2>4. \A c \in checkpoints : c.state = BeforeRecord(c.position)
    <3>1. TAKE c \in checkpoints
    <3>2. c = CheckpointOf(c.position, BeforeRecord(c.position))
      BY <2>1 DEF IInv, CheckpointsOK
    <3>3. QED
      BY <3>2 DEF CheckpointOf
  <2>5. \A s \in saved : s.state.body = timeline[s.position].body
    BY <2>1 DEF IInv, SavedOK, Shown
  <2>6. SeekWorkBounded
    BY <2>1, SeekDistance DEF IInv, SeekWorkBounded, CheckpointsOK
  <2>7. QED
    BY <2>2, <2>3, <2>4, <2>5, <2>6 DEF ReplayMatchesOpening
<1>2. QED
  BY <1>1, Invariance, PTL

-----------------------------------------------------------------------------
(* A session is a tape with one head.                                       *)

Tape == [p \in DOMAIN timeline |-> timeline[p].body]
TapeVars == << Tape, position, state.body, delivered, report >>

TapeOK ==
  /\ Tape \in Seq(Bodies) /\ Len(Tape) = Len(source) /\ DOMAIN Tape = Places
  /\ \A p \in Places : Tape[p] = timeline[p].body /\ Tape[p] \in Bodies

LEMMA TapeFacts == OpenedOK => TapeOK
<1>0. SUFFICES ASSUME OpenedOK PROVE TapeOK
  OBVIOUS
<1>1. /\ DOMAIN timeline = Places /\ Places = 1..Len(source)
      /\ Len(source) \in Nat
  BY <1>0, LenProperties DEF OpenedOK, Places
<1>2. \A p \in Places : timeline[p].body \in Bodies
  BY <1>0, PlaceFacts DEF States
<1>3. /\ DOMAIN Tape = Places
      /\ \A p \in Places : Tape[p] = timeline[p].body
  BY <1>1 DEF Tape
<1>4. Tape \in [1..Len(source) -> Bodies]
  BY <1>1, <1>2 DEF Tape
<1>5. Tape \in Seq(Bodies)
  BY <1>1, <1>4, SeqDef
<1>6. Len(Tape) \in Nat /\ DOMAIN Tape = 1..Len(Tape)
  BY <1>5, LenProperties
<1>7. Len(Tape) = Len(source)
  BY <1>1, <1>3, <1>6
<1>8. QED
  BY <1>2, <1>3, <1>5, <1>7 DEF TapeOK

LEMMA TapeKept ==
  ASSUME UNCHANGED opened
  PROVE  Tape' = Tape
BY DEF Tape, opened

\* Where no call is rolling, nothing is left undelivered.
LEMMA JumpSound ==
  ASSUME OpenedOK, LifecycleOK, DeliveryOK, call.op # "advance",
         timeline' = timeline, NEW p \in Places,
         position' = p, state'.body = timeline[p].body,
         delivered' = state'.body.events, report' = << delivered', delivered' >>
  PROVE  Timeline!Jump
<1>1. position # 0 => delivered = state.body.events
  BY DEF LifecycleOK, DeliveryOK
<1>2. /\ Len(Tape) = Len(source) /\ Tape[p] = timeline[p].body
      /\ p \in 1..Len(Tape) /\ Tape' = Tape
  BY TapeFacts DEF TapeOK, Places, Tape
<1>3. QED
  BY <1>1, <1>2 DEF Timeline!Jump, Tape, EventsOf

LEMMA RecordMaps ==
  ASSUME IInv, IInv', NEW rec \in Records, OpenRecord(rec)
  PROVE  [Timeline!Next]_TapeVars
<1>1. CASE Refuse
  BY <1>1, TapeKept DEF Refuse, TapeVars, outputs
<1>2. CASE ~Refuse
  <2>1. PICK p, r : Accepts(rec, p, r)
    BY <1>2 DEF OpenRecord, Accepts
  <2>2. /\ Len(source) \in Nat /\ p = Len(source) + 1 /\ Len(source') = p
        /\ \A q \in Places : timeline'[q] = timeline[q]
    <3>1. OpenedOK
      BY DEF IInv
    <3>2. Len(source) \in Nat
      BY <3>1, LenProperties DEF OpenedOK
    <3>3. /\ Len(source') = p
          /\ \A q \in Places : source'[q] = source[q] /\ timeline'[q] = timeline[q]
      BY <2>1, <3>1, OpenedGrows
    <3>4. p = Len(source) + 1
      BY <2>1 DEF Accepts
    <3>5. QED
      BY <3>2, <3>3, <3>4
  <2>3. /\ Len(Tape) = Len(source) /\ DOMAIN Tape = Places
        /\ \A q \in Places : Tape[q] = timeline[q].body
    BY TapeFacts DEF IInv, TapeOK
  <2>4. TapeOK'
    <3>1. OpenedOK' => TapeOK'
      BY TapeFacts, PTL
    <3>2. QED
      BY <3>1 DEF IInv
  <2>5. p \in Places' /\ \A q \in Places : q \in Places'
    BY <2>2 DEF Places
  <2>6. /\ Len(Tape') = Len(Tape) + 1 /\ Tape'[Len(Tape')] \in Bodies
        /\ \A i \in DOMAIN Tape : Tape'[i] = Tape[i]
    BY <2>2, <2>3, <2>4, <2>5 DEF TapeOK
  <2>7. /\ position = 0 /\ UNCHANGED << position, state, delivered, report >>
    BY <1>2 DEF IInv, LifecycleOK, OpenRecord, Session, outputs
  <2>8. Timeline!Record
    BY <2>6, <2>7 DEF Timeline!Record, Tape
  <2>9. QED
    BY <2>8 DEF Timeline!Next
<1>3. QED
  BY <1>1, <1>2

LEMMA PublishedMaps ==
  ASSUME IInv, Published, ready # 0, call = NoCall, timeline' = timeline
  PROVE  [Timeline!Next]_TapeVars
<1>1. ready \in Places
  BY LenProperties DEF IInv, OpenedOK, Places
<1>2. /\ position' = ready /\ state'.body = timeline[ready].body
      /\ delivered' = state'.body.events
      /\ report' = << delivered', delivered' >> /\ call.op # "advance"
  BY DEF Published, NoCall
<1>3. Timeline!Jump
  BY <1>1, <1>2, JumpSound DEF IInv
<1>4. QED
  BY <1>3 DEF Timeline!Next

LEMMA OpenReturnMaps ==
  ASSUME IInv, OpenReturn
  PROVE  [Timeline!Next]_TapeVars
<1>1. CASE Refuse
  BY <1>1, TapeKept DEF Refuse, TapeVars, outputs
<1>2. CASE ~Refuse
  <2>1. Published /\ ready # 0 /\ timeline' = timeline
    BY <1>2 DEF OpenReturn
  <2>2. call = NoCall
    BY DEF IInv, LifecycleOK, OpenReturn, Session
  <2>3. QED
    BY <2>1, <2>2, PublishedMaps
<1>3. QED
  BY <1>1, <1>2

LEMMA ReopenMaps ==
  ASSUME IInv, Reopen
  PROVE  [Timeline!Next]_TapeVars
<1>1. Published /\ ready # 0 /\ call = NoCall /\ timeline' = timeline
  BY DEF IInv, LifecycleOK, Reopen, Idle, opened
<1>2. QED
  BY <1>1, PublishedMaps

\* What is reported of nothing is the empty range where delivery stands.
LEMMA InertMaps ==
  ASSUME IInv, AdvanceInert
  PROVE  [Timeline!Next]_TapeVars
<1>1. call.op = "none" /\ Session /\ position # 0 /\ delivered = state.body.events
  <2>1. call.op = "none" /\ Session
    BY IdleFacts DEF IInv, AdvanceInert
  <2>2. position \in Places
    BY <2>1 DEF IInv, LifecycleOK, Shown
  <2>3. position # 0
    BY <2>2, PlaceFacts DEF IInv
  <2>4. QED
    BY <2>1, <2>3 DEF IInv, DeliveryOK
<1>2. /\ UNCHANGED << position, state, delivered >> /\ Tape' = Tape
      /\ report' = << delivered, delivered >>
  BY TapeKept DEF AdvanceInert
<1>3. Timeline!Deliver
  BY <1>1, <1>2 DEF Timeline!Deliver, Tape, EventsOf
<1>4. QED
  BY <1>3 DEF Timeline!Next

LEMMA AdvanceReturnMaps ==
  ASSUME IInv, AdvanceReturn
  PROVE  [Timeline!Next]_TapeVars
<1>1. call.op = "advance" /\ call.first = delivered /\ Session
  BY DEF IInv, AdvanceReturn, Advancing, LifecycleOK, RunOK, NoCall, Session
<1>2. position # 0
  <2>1. position \in Places
    BY <1>1 DEF IInv, LifecycleOK, Shown
  <2>2. QED
    BY <2>1, PlaceFacts DEF IInv
<1>3. /\ UNCHANGED << position, state >> /\ Tape' = Tape
      /\ delivered' = state.body.events
      /\ report' = << delivered, delivered' >>
  BY <1>1, TapeKept DEF AdvanceReturn, Deliver
<1>4. Timeline!Deliver
  BY <1>2, <1>3 DEF Timeline!Deliver, Tape, EventsOf
<1>5. QED
  BY <1>4 DEF Timeline!Next

LEMMA ForwardCommitMaps ==
  ASSUME IInv, ForwardCommit
  PROVE  [Timeline!Next]_TapeVars
<1>1. run.kind \in {"tick", "trailing"} /\ run.next > run.end
  BY DEF ForwardCommit, Looped
<1>2. Session /\ Shown(run.state, run.end) /\ position < run.end
  BY <1>1, LoopedFacts DEF IInv, RunOK
<1>3. position \in Places /\ run.end \in Places
  BY <1>2 DEF IInv, LifecycleOK, Shown
<1>4. /\ position \in Nat \ {0} /\ run.end \in Nat /\ Len(source) \in Nat
      /\ run.end <= Len(source)
  BY <1>3, PlaceFacts DEF IInv
<1>5. /\ Len(Tape) = Len(source) /\ Tape[run.end] = timeline[run.end].body
      /\ run.end \in position..Len(Tape)
  BY <1>2, <1>3, <1>4, TapeFacts DEF IInv, TapeOK
<1>6. /\ position' = run.end /\ state' = run.state /\ Tape' = Tape
      /\ UNCHANGED << delivered, report >>
  BY TapeKept DEF ForwardCommit, outputs
<1>7. state'.body = Tape[run.end]
  BY <1>2, <1>5, <1>6 DEF Shown
<1>8. Timeline!Roll
  BY <1>4, <1>5, <1>6, <1>7 DEF Timeline!Roll, Tape
<1>9. QED
  BY <1>8 DEF Timeline!Next

LEMMA SeekCommitMaps ==
  ASSUME IInv, SeekCommit
  PROVE  [Timeline!Next]_TapeVars
<1>1. run.kind = "seek" /\ run.next > run.end /\ call.op = "seek"
  BY DEF SeekCommit, Looped, IInv, RunOK
<1>2. Shown(run.state, run.end)
  BY <1>1, LoopedFacts
<1>3. run.end \in Places /\ run.state.body = timeline[run.end].body
  BY <1>2 DEF Shown
<1>4. state'.body = run.state.body
  <2>1. run.state \in States
    BY <1>2 DEF Shown
  <2>2. QED
    BY <2>1 DEF SeekCommit, States
<1>5. /\ position' = run.end /\ delivered' = state'.body.events
      /\ report' = << delivered', delivered' >> /\ timeline' = timeline
  BY <1>4 DEF SeekCommit, opened
<1>6. Timeline!Jump
  BY <1>1, <1>3, <1>4, <1>5, JumpSound DEF IInv
<1>7. QED
  BY <1>6 DEF Timeline!Next

LEMMA RestoreMaps ==
  ASSUME IInv, Restore
  PROVE  [Timeline!Next]_TapeVars
<1>1. call.op = "none"
  BY IdleFacts DEF IInv, Restore
<1>2. PICK s \in saved :
        /\ position' = s.position /\ state' = s.state
        /\ delivered' = s.delivered
        /\ lastRange' = << s.delivered, s.delivered >>
  BY DEF Restore
<1>3. Shown(s.state, s.position) /\ s.delivered = s.state.body.events
  BY DEF IInv, SavedOK
<1>4. /\ s.position \in Places /\ state'.body = timeline[s.position].body
      /\ delivered' = state'.body.events
      /\ report' = << delivered', delivered' >> /\ timeline' = timeline
  BY <1>2, <1>3 DEF Restore, Shown, opened
<1>5. Timeline!Jump
  BY <1>1, <1>2, <1>4, JumpSound DEF IInv
<1>6. QED
  BY <1>5 DEF Timeline!Next

LEMMA StepMaps ==
  ASSUME IInv, IInv', [Next]_vars
  PROVE  [Timeline!Next]_TapeVars
<1>1. ASSUME UNCHANGED << opened, position, state, delivered, report >>
      PROVE  [Timeline!Next]_TapeVars
  BY <1>1, TapeKept DEF TapeVars
<1>2. CASE UNCHANGED vars
  BY <1>1, <1>2 DEF vars, outputs
<1>3. CASE \E rec \in Records : OpenRecord(rec)
  BY <1>3, RecordMaps
<1>4. CASE OpenReturn
  BY <1>4, OpenReturnMaps
<1>5. CASE Reopen
  BY <1>5, ReopenMaps
<1>6. CASE Pause \/ Resume
  BY <1>1, <1>6 DEF Pause, Resume
<1>7. CASE \E new \in Rates : SetRate(new)
  BY <1>1, <1>7 DEF SetRate, outputs
<1>8. CASE AdvanceInert
  BY <1>8, InertMaps
<1>9. CASE \E elapsed \in Elapsed : Advance(elapsed)
  BY <1>1, <1>9 DEF Advance, outputs
<1>10. CASE AdvanceTick \/ AdvanceTrailing
  BY <1>1, <1>10 DEF AdvanceTick, AdvanceTrailing, outputs
<1>11. CASE AdvanceReturn
  BY <1>11, AdvanceReturnMaps
<1>12. CASE ReplayRecord
  BY <1>1, <1>12 DEF ReplayRecord, outputs
<1>13. CASE ForwardCommit
  BY <1>13, ForwardCommitMaps
<1>14. ASSUME NEW target, SeekRecord(target)
       PROVE  [Timeline!Next]_TapeVars
  BY <1>1, <1>14 DEF SeekRecord, outputs
<1>15. CASE \/ \E target \in DOMAIN source : Seek(target)
            \/ \E tick \in Ticks : SeekServerTick(tick)
            \/ \E ticks \in -MaxStepTicks..MaxStepTicks : Step(ticks)
  BY <1>14, <1>15 DEF Seek, SeekServerTick, Step
<1>16. CASE SeekCommit
  BY <1>16, SeekCommitMaps
<1>17. CASE Snapshot
  BY <1>1, <1>17 DEF Snapshot, outputs
<1>18. CASE Restore
  BY <1>18, RestoreMaps
<1>19. QED
  BY <1>2, <1>3, <1>4, <1>5, <1>6, <1>7, <1>8, <1>9, <1>10, <1>11, <1>12,
     <1>13, <1>15, <1>16, <1>17, <1>18 DEF Next

\* A session implements the recorded tape: it shows the recorded states, rolls
\* forward, hands out every event it rolls over exactly once and in order, and
\* none that a seek, a step, a reopening or a restore skipped.
THEOREM SessionImplementsTimeline ==
  Spec => ImplementsTimeline
<1>1. Init => Timeline!Init
  <2>1. SUFFICES ASSUME Init PROVE Timeline!Init
    OBVIOUS
  <2>2. InitialState.body \in Bodies
    BY InitialStateType DEF States
  <2>3. Tape = << >>
    <3>1. TapeOK
      BY <2>1, InitIInv, TapeFacts DEF IInv
    <3>2. source = << >> /\ Len(<< >>) = 0
      BY <2>1, EmptySeq DEF Init
    <3>3. Tape \in Seq(Bodies) /\ Len(Tape) = 0
      BY <3>1, <3>2 DEF TapeOK
    <3>4. QED
      BY <3>3, EmptySeq
  <2>4. QED
    BY <2>1, <2>2, <2>3 DEF Init, Timeline!Init, Tape
<1>2. IInv /\ IInv' /\ [Next]_vars => [Timeline!Next]_(Timeline!vars)
  BY StepMaps DEF TapeVars, Tape, Timeline!vars
<1>3. QED
  BY <1>1, <1>2, Invariance, PTL DEF Spec, ImplementsTimeline, Timeline!Spec

-----------------------------------------------------------------------------
(* The time between places.                                                 *)

\* The time that a record takes.
Cost(p) == IF p \in tickRecords THEN DurationTo(p, timeline[p - 1]) ELSE 0

\* What TimeFrom tabulates, up to the n-th place.
IsTime(time, from, n) ==
  time = [p \in from..n |-> IF p = from THEN 0 ELSE time[p - 1] + Cost(p)]

Timed(time, from, n) ==
  /\ from <= n => time[from] = 0
  /\ \A p \in from + 1..n : time[p] = time[p - 1] + Cost(p)

LEMMA TimeAt ==
  ASSUME NEW time, NEW from \in Nat, NEW n \in Nat, IsTime(time, from, n)
  PROVE  Timed(time, from, n)
<1> DEFINE value(p) == IF p = from THEN 0 ELSE time[p - 1] + Cost(p)
           h == [p \in from..n |-> value(p)]
<1>1. time = h
  BY DEF IsTime
<1>2. \A p \in from..n : h[p] = value(p)
  OBVIOUS
<1>3. value(from) = 0
  OBVIOUS
<1>4. \A p \in from + 1..n : value(p) = time[p - 1] + Cost(p) /\ p \in from..n
  OBVIOUS
<1>5. from <= n => from \in from..n
  OBVIOUS
<1> HIDE DEF value, h
<1>6. \A p \in from..n : time[p] = value(p)
  BY <1>1, <1>2
<1>7. QED
  BY <1>3, <1>4, <1>5, <1>6 DEF Timed

LEMMA TimeExists ==
  ASSUME NEW from \in Nat \ {0}, NEW n \in Nat
  PROVE  \E time : IsTime(time, from, n)
<1> DEFINE Is(f, m) == IsTime(f, from, m)
           P == {m \in Nat : \E f : Is(f, m)}
<1>0. \A f, m : Is(f, m) <=>
        f = [p \in from..m |-> IF p = from THEN 0 ELSE f[p - 1] + Cost(p)]
  BY DEF IsTime
<1>a. ASSUME NEW f, NEW m \in Nat, Is(f, m)
      PROVE  /\ from <= m => f[from] = 0
             /\ \A p \in from + 1..m : f[p] = f[p - 1] + Cost(p)
  BY <1>a, TimeAt DEF Timed
<1> HIDE DEF Is
<1>1. 0 \in P
  <2> DEFINE f == [p \in from..0 |-> 0]
  <2>1. f = [p \in from..0 |-> IF p = from THEN 0 ELSE f[p - 1] + Cost(p)]
    OBVIOUS
  <2> HIDE DEF f
  <2>2. Is(f, 0)
    BY <1>0, <2>1
  <2>3. QED
    BY <2>2
<1>2. ASSUME NEW m \in Nat, m \in P PROVE m + 1 \in P
  <2>1. PICK g : Is(g, m)
    BY <1>2
  <2>2. /\ from <= m => g[from] = 0
        /\ \A p \in from + 1..m : g[p] = g[p - 1] + Cost(p)
    BY <1>a, <2>1
  <2> DEFINE last == IF m + 1 = from THEN 0 ELSE g[m] + Cost(m + 1)
             f == [p \in from..(m + 1) |-> IF p <= m THEN g[p] ELSE last]
             value(p) == IF p = from THEN 0 ELSE f[p - 1] + Cost(p)
  <2>3. \A p \in from..(m + 1) : f[p] = value(p)
    <3>1. TAKE p \in from..(m + 1)
    <3>2. CASE p = from /\ p <= m
      <4>1. f[p] = g[p]
        BY <3>2
      <4>2. value(p) = 0 /\ g[p] = 0
        BY <2>2, <3>2
      <4>3. QED
        BY <4>1, <4>2
    <3>3. CASE p # from /\ p <= m
      <4>1. f[p] = g[p] /\ f[p - 1] = g[p - 1] /\ p \in from + 1..m
        BY <3>3
      <4> HIDE DEF f
      <4>2. value(p) = g[p - 1] + Cost(p)
        BY <3>3, <4>1
      <4>3. g[p] = g[p - 1] + Cost(p)
        BY <2>2, <4>1
      <4>4. QED
        BY <4>1, <4>2, <4>3
    <3>4. CASE p = m + 1 /\ p = from
      <4>1. f[p] = last /\ last = 0 /\ value(p) = 0
        BY <3>4
      <4>2. QED
        BY <4>1
    <3>5. CASE p = m + 1 /\ p # from
      <4>1. f[p] = last /\ f[p - 1] = g[m] /\ last = g[m] + Cost(p)
        BY <3>5
      <4> HIDE DEF f, last
      <4>2. value(p) = g[m] + Cost(p)
        BY <3>5, <4>1
      <4>3. QED
        BY <4>1, <4>2
    <3>6. QED
      BY <3>2, <3>3, <3>4, <3>5
  <2>4. f = [p \in from..(m + 1) |-> value(p)]
    <3> DEFINE h == [p \in from..(m + 1) |-> value(p)]
    <3>1. f = h
      BY <2>3
    <3>2. QED
      BY <3>1
  <2>5. f = [p \in from..(m + 1) |-> IF p = from THEN 0 ELSE f[p - 1] + Cost(p)]
    BY <2>4
  <2> HIDE DEF f
  <2>6. Is(f, m + 1)
    BY <1>0, <2>5
  <2>7. QED
    BY <2>6
<1>3. QED
  <2> HIDE DEF P
  <2>1. Nat \subseteq P
    BY <1>1, <1>2, SetInduction
  <2>2. QED
    BY <2>1 DEF P, Is

LEMMA TimeSteps ==
  ASSUME OpenedOK, NEW from \in Places
  PROVE  Timed(TimeFrom(from), from, Len(source))
<1> DEFINE n == Len(source)
           time == TimeFrom(from)
<1>1. n \in Nat /\ from \in Nat \ {0}
  BY PlaceFacts
<1>2. time = CHOOSE f : IsTime(f, from, n)
  BY DEF TimeFrom, IsTime, Cost
<1> HIDE DEF n, time
<1>3. IsTime(time, from, n)
  BY <1>1, <1>2, TimeExists
<1>4. Timed(time, from, n)
  BY <1>1, <1>3, TimeAt
<1>5. QED
  BY <1>4 DEF n, time

LEMMA TimeStays ==
  ASSUME UNCHANGED opened, NEW from
  PROVE  TimeFrom(from)' = TimeFrom(from)
BY DEF TimeFrom, DurationTo, opened

LEMMA CostType ==
  ASSUME OpenedOK, NEW from \in Places, NEW p \in from + 1..Len(source)
  PROVE  Cost(p) \in Nat /\ p \in Places /\ p - 1 \in Places
<1>1. Len(source) \in Nat /\ from \in Nat \ {0}
  BY PlaceFacts
<1>2. p \in Places /\ p - 1 \in Places
  BY <1>1 DEF Places
<1>3. timeline[p - 1] \in States
  BY <1>2, PlaceFacts
<1>4. DurationTo(p, timeline[p - 1]) \in Nat
  BY <1>2, <1>3, DurationType
<1>5. QED
  BY <1>2, <1>4 DEF Cost

LEMMA TimeType ==
  ASSUME OpenedOK, NEW from \in Places, NEW p \in from..Len(source)
  PROVE  TimeFrom(from)[p] \in Nat
<1> DEFINE n == Len(source)
           T == TimeFrom(from)
           P == {k \in Nat : from + k <= n => T[from + k] \in Nat}
<1>1. n \in Nat /\ from \in Nat \ {0} /\ from <= n
  BY PlaceFacts
<1>2. T[from] = 0 /\ \A q \in from + 1..n : T[q] = T[q - 1] + Cost(q)
  BY <1>1, TimeSteps DEF Timed
<1>3. \A q \in from + 1..n : Cost(q) \in Nat
  BY CostType
<1> HIDE DEF T, n
<1>4. 0 \in P
  BY <1>1, <1>2
<1>5. ASSUME NEW k \in Nat, k \in P PROVE k + 1 \in P
  <2>1. SUFFICES ASSUME from + k + 1 <= n PROVE T[from + k + 1] \in Nat
    BY <1>1
  <2>2. PICK q \in from + 1..n : q = from + k + 1 /\ q - 1 = from + k
    BY <1>1, <2>1
  <2>3. T[from + k] \in Nat
    BY <1>1, <1>5, <2>1
  <2>4. T[q] = T[q - 1] + Cost(q) /\ Cost(q) \in Nat
    BY <1>2, <1>3
  <2>5. QED
    BY <2>2, <2>3, <2>4
<1>6. Nat \subseteq P
  <2> HIDE DEF P
  <2>1. QED
    BY <1>4, <1>5, SetInduction
<1>7. p - from \in Nat /\ from + (p - from) = p /\ p <= n
  BY <1>1 DEF n
<1>8. T[p] \in Nat
  BY <1>6, <1>7
<1>9. QED
  BY <1>8 DEF T

\* Records without a tick take no time.
LEMMA TimeFlat ==
  ASSUME OpenedOK, NEW from \in Places, NEW a \in from..Len(source),
         NEW b \in a..Len(source), \A q \in a + 1..b : q \notin tickRecords
  PROVE  TimeFrom(from)[b] = TimeFrom(from)[a]
<1> DEFINE n == Len(source)
           T == TimeFrom(from)
           P == {k \in Nat : a + k <= b => T[a + k] = T[a]}
<1>1. n \in Nat /\ from \in Nat \ {0} /\ from <= n /\ a \in Nat /\ b \in Nat
      /\ from <= a /\ a <= b /\ b <= n
  BY PlaceFacts
<1>2. \A q \in from + 1..n : T[q] = T[q - 1] + Cost(q)
  BY <1>1, TimeSteps DEF Timed
<1>3. \A q \in from..n : T[q] \in Nat
  BY TimeType
<1> HIDE DEF T, n
<1>4. 0 \in P
  BY <1>1
<1>5. ASSUME NEW k \in Nat, k \in P PROVE k + 1 \in P
  <2>1. SUFFICES ASSUME a + k + 1 <= b PROVE T[a + k + 1] = T[a]
    BY <1>1
  <2>2. PICK q \in a + 1..b : q = a + k + 1 /\ q - 1 = a + k
    BY <1>1, <2>1
  <2>3. T[a + k] = T[a] /\ T[a] \in Nat
    BY <1>1, <1>3, <1>5, <2>1
  <2>4. Cost(q) = 0
    BY <2>2 DEF Cost
  <2>5. q \in from + 1..n
    BY <1>1, <2>2
  <2>6. T[q] = T[q - 1] + 0
    BY <1>2, <2>4, <2>5
  <2>7. QED
    BY <2>2, <2>3, <2>6
<1>6. Nat \subseteq P
  <2> HIDE DEF P
  <2>1. QED
    BY <1>4, <1>5, SetInduction
<1>7. b - a \in Nat /\ a + (b - a) = b
  BY <1>1
<1>8. T[b] = T[a]
  BY <1>1, <1>6, <1>7
<1>9. QED
  BY <1>8 DEF T

-----------------------------------------------------------------------------
(* The tick of a state.                                                     *)

LEMMA OperationKeepsTick ==
  ASSUME NEW body \in Bodies, NEW op \in Commands
  PROVE  OperationApplied(body, op).tick = body.tick
<1>1. CASE op.kind = "setup"
  BY <1>1 DEF OperationApplied, Bodies
<1>2. CASE op.kind = "full"
  BY <1>2 DEF OperationApplied, Bodies
<1>3. CASE op.kind = "create"
  BY <1>3 DEF OperationApplied, Bodies
<1>4. CASE op.kind = "patch"
  BY <1>4 DEF OperationApplied, Bodies
<1>5. CASE op.kind = "delete"
  BY <1>5 DEF OperationApplied, Bodies
<1>6. CASE op.kind = "decoder"
  BY <1>6 DEF OperationApplied, Bodies
<1>7. CASE op.kind = "event"
  BY <1>7 DEF OperationApplied, Bodies
<1>8. CASE op.kind \notin {"setup", "full", "create", "patch", "delete",
                           "decoder", "event"}
  BY <1>8 DEF OperationApplied
<1>9. QED
  BY <1>1, <1>2, <1>3, <1>4, <1>5, <1>6, <1>7, <1>8

LEMMA AppliedKeepsTick ==
  ASSUME NEW s \in States, NEW rec \in Records, NEW ordinal \in Nat,
         NEW events, rec.tick = NoTick
  PROVE  Applied(s, rec, ordinal, events, FALSE).state.body.tick = s.body.tick
<1> DEFINE body == Clocked(s.body, rec)
           n == Len(rec.operations)
           F == Operated(body, rec, ordinal, events, FALSE)
           Good(i) == F[i].body \in Bodies /\ F[i].body.tick = body.tick
           P == {i \in Nat : i <= n => Good(i)}
<1>1. n \in Nat /\ \A i \in 1..n : rec.operations[i] \in Commands
  BY RecordFacts
<1>2. Tabulates(F, body, rec, ordinal, events, FALSE, n)
  BY <1>1, OperatedSteps
<1>3. Applied(s, rec, ordinal, events, FALSE).state.body =
        [F[n].body EXCEPT !.ordinal = ordinal]
  BY DEF Applied
<1>4. body = s.body /\ body \in Bodies
  BY DEF Clocked, States
<1> HIDE DEF F, n, body
<1>5. 0 \in P
  BY <1>2, <1>4 DEF Tabulates
<1>6. ASSUME NEW k \in Nat, k \in P PROVE k + 1 \in P
  <2>1. SUFFICES ASSUME k + 1 <= n PROVE Good(k + 1)
    OBVIOUS
  <2>2. PICK i \in 1..n : i = k + 1 /\ i - 1 = k /\ k <= n
    BY <1>1, <2>1
  <2>3. Good(k)
    BY <1>6, <2>2
  <2>4. Steps(F[i - 1], F[i], rec, ordinal, i, FALSE)
    BY <1>2 DEF Tabulates
  <2>5. F[i].body = OperationApplied(F[k].body, rec.operations[i])
    BY <2>2, <2>4 DEF Steps, OperationStep
  <2>6. Good(i)
    BY <1>1, <2>3, <2>5, OperationKeepsTick, OperationAppliedType
  <2>7. QED
    BY <2>2, <2>6
<1>7. Nat \subseteq P
  <2> HIDE DEF P
  <2>1. QED
    BY <1>5, <1>6, SetInduction
<1>8. Good(n)
  BY <1>1, <1>7
<1>9. [F[n].body EXCEPT !.ordinal = ordinal].tick = F[n].body.tick
  BY <1>8 DEF Bodies
<1>10. QED
  BY <1>3, <1>4, <1>8, <1>9

\* Records without a tick keep the tick of the state.
LEMMA TickFlat ==
  ASSUME OpenedOK, NEW a \in Places, NEW b \in a..Len(source),
         \A q \in a + 1..b : source[q].tick = NoTick
  PROVE  timeline[b].body.tick = timeline[a].body.tick
<1> DEFINE P == {k \in Nat : a + k <= b =>
                   timeline[a + k].body.tick = timeline[a].body.tick}
<1>1. a \in Nat \ {0} /\ b \in Nat /\ a <= b /\ b <= Len(source)
      /\ Len(source) \in Nat
  BY PlaceFacts
<1>2. 0 \in P
  BY <1>1
<1>3. ASSUME NEW k \in Nat, k \in P PROVE k + 1 \in P
  <2>1. SUFFICES ASSUME a + k + 1 <= b
                 PROVE  timeline[a + k + 1].body.tick = timeline[a].body.tick
    BY <1>1
  <2>2. PICK q \in a + 1..b : q = a + k + 1 /\ q - 1 = a + k
    BY <1>1, <2>1
  <2>3. q \in Places /\ q - 1 \in Places /\ q \in Nat
    BY <1>1, <2>2 DEF Places
  <2>4. /\ BeforeRecord(q - 1) = timeline[q - 1] /\ timeline[q - 1] \in States
        /\ source[q] \in Records
    BY <2>3, PlaceFacts
  <2>5. timeline[q] = Applied(timeline[q - 1], source[q], q, log, FALSE).state
    <3>1. Replays(q)
      BY <2>3 DEF OpenedOK
    <3>2. QED
      BY <2>4, <3>1 DEF Replays
  <2>6. timeline[q].body.tick = timeline[q - 1].body.tick
    <3>1. source[q].tick = NoTick
      BY <2>2
    <3>2. PICK s \in States, rec \in Records :
            s = timeline[q - 1] /\ rec = source[q]
      BY <2>4
    <3>3. rec.tick = NoTick /\ q \in Nat
      BY <2>3, <3>1, <3>2
    <3>4. Applied(s, rec, q, log, FALSE).state.body.tick = s.body.tick
      BY <3>3, AppliedKeepsTick
    <3>5. QED
      BY <2>5, <3>2, <3>4
  <2>7. timeline[a + k].body.tick = timeline[a].body.tick
    BY <1>1, <1>3, <2>1
  <2>8. QED
    BY <2>2, <2>6, <2>7
<1>4. Nat \subseteq P
  <2> HIDE DEF P
  <2>1. QED
    BY <1>2, <1>3, SetInduction
<1>5. b - a \in Nat /\ a + (b - a) = b
  BY <1>1
<1>6. QED
  BY <1>1, <1>4, <1>5

-----------------------------------------------------------------------------
(* The ledger of the clock.                                                 *)

\* A fraction of a nanosecond in grains, of which it is a whole number.
Grains(fraction) == (Grain * fraction[1]) \div fraction[2]
Grained(fraction) ==
  \E g \in Nat : fraction[2] * g = Grain * fraction[1]

\* The place that the session has paid for.
Reached == IF run.kind \in {"tick", "trailing"} THEN run.end ELSE position

\* The time that it has paid for since the last discontinuity.
Spent == TimeFrom(anchor)[Reached]

BalanceOK ==
  /\ anchor \in Places /\ anchor <= position /\ ready <= position
  /\ earned = Grain * (Spent + accumulated) + Grains(remainder)
  /\ Idle => position = anchor \/ ~TickDue

LedgerOK ==
  /\ Grained(remainder)
  /\ \A s \in saved :
       Grained(s.remainder) /\ (s.lifecycle = "Ready" => ready <= s.position)
  /\ lifecycle = "Ready" => BalanceOK

LEMMA GrainsOfGrained ==
  ASSUME NEW f \in Nat \X (Nat \ {0}), NEW g \in Nat, f[2] * g = Grain * f[1]
  PROVE  Grains(f) = g
<1> DEFINE d == f[2]
           n == Grain * f[1]
<1>1. d \in Nat \ {0} /\ n = d * g
  OBVIOUS
<1> HIDE DEF d, n
<1>2. n \div d = g
  BY <1>1
<1>3. QED
  BY <1>2 DEF Grains, n, d

\* Reducing a fraction keeps its grains.
LEMMA ReducedGrained ==
  ASSUME NEW a \in Nat, NEW b \in Nat \ {0}, NEW g \in Nat, b * g = Grain * a
  PROVE  Reduced(a, b)[2] * g = Grain * Reduced(a, b)[1]
<1> DEFINE c == Gcd(a, b)
           x == a \div c
           y == b \div c
<1>1. c \in 1..b /\ a % c = 0 /\ b % c = 0
  BY GcdDivides
<1>2. Reduced(a, b) = << x, y >>
  BY DEF Reduced
<1> HIDE DEF c
<1>3. c \in Nat \ {0} /\ x \in Nat /\ y \in Nat /\ a = x * c /\ b = y * c
  BY <1>1
<1>4. Grain \in Nat
  BY RatesAssumption DEF RatesAssumption
<1> HIDE DEF x, y
<1>5. y * g \in Nat /\ Grain * x \in Nat
  BY <1>3, <1>4
<1>6. (y * g) * c = (Grain * x) * c
  <2>1. (y * g) * c = (y * c) * g
    BY <1>3
  <2>2. (Grain * x) * c = Grain * (x * c)
    BY <1>3, <1>4
  <2>3. QED
    BY <1>3, <2>1, <2>2
<1>7. y * g = Grain * x
  BY <1>3, <1>5, <1>6
<1>8. QED
  BY <1>2, <1>7

\* What is accumulated and the fraction kept grow by what has elapsed.
LEMMA AccumulateBalances ==
  ASSUME ClockOK, Grained(remainder), NEW elapsed \in Elapsed,
         Accumulate(elapsed)
  PROVE  /\ Grained(remainder')
         /\ GrainsOf(elapsed) \in Nat
         /\ Grain * accumulated' + Grains(remainder')
              = Grain * accumulated + Grains(remainder) + GrainsOf(elapsed)
<1>1. /\ elapsed \in Nat /\ rate \in (Nat \ {0}) \X (Nat \ {0})
      /\ accumulated \in Nat /\ remainder \in Nat \X (Nat \ {0})
      /\ rate \in Rates /\ Grain \in Nat \ {0} /\ Grain % rate[2] = 0
  BY RatesAssumption DEF RatesAssumption, ClockOK, Clocks
<1>2. PICK g \in Nat : remainder[2] * g = Grain * remainder[1]
  BY DEF Grained
<1>3. Grains(remainder) = g
  BY <1>1, <1>2, GrainsOfGrained
<1> DEFINE a == remainder[1]
           b == remainder[2]
           p == rate[1]
           q == rate[2]
           unit == Grain \div q
           n == a * q + elapsed * p * b
           d == b * q
           m == n % d
           w == n \div d
           grains == elapsed * p * unit
<1>4. /\ a \in Nat /\ b \in Nat \ {0} /\ p \in Nat \ {0} /\ q \in Nat \ {0}
      /\ b * g = Grain * a
  BY <1>1, <1>2
<1>5. unit \in Nat /\ Grain = unit * q
  <2> HIDE DEF q
  <2>1. QED
    BY <1>1, <1>4 DEF q
<1>6. GrainsOf(elapsed) = grains
  BY DEF GrainsOf
<1>7. accumulated' = accumulated + w /\ remainder' = Fraction(n, d)
  BY DEF Accumulate
<1> HIDE DEF a, b, p, q, unit
<1>8. elapsed * p \in Nat
  BY <1>1, <1>4
<1> DEFINE ep == elapsed * p
<1>9. ep \in Nat /\ n = a * q + ep * b /\ grains = ep * unit
  BY <1>8
<1> HIDE DEF ep
<1>10. n \in Nat /\ d \in Nat \ {0} /\ grains \in Nat
  <2>1. a * q \in Nat /\ ep * b \in Nat /\ ep * unit \in Nat
    BY <1>4, <1>5, <1>9
  <2>2. QED
    BY <1>4, <1>9, <2>1
\* In grains the numerator is the sum of both.
<1>11. d * (g + grains) = Grain * n
  <2>1. d * g = Grain * (a * q)
    <3>1. d * g = (b * g) * q
      BY <1>4
    <3>2. (Grain * a) * q = Grain * (a * q)
      BY <1>1, <1>4
    <3>3. QED
      BY <1>4, <3>1, <3>2
  <2>2. d * grains = Grain * (ep * b)
    <3>1. d * (ep * unit) = (unit * q) * (ep * b)
      BY <1>4, <1>5, <1>9
    <3>2. QED
      BY <1>5, <1>9, <3>1
  <2>3. d * (g + grains) = d * g + d * grains
    BY <1>10
  <2>4. Grain * n = Grain * (a * q) + Grain * (ep * b)
    BY <1>1, <1>4, <1>9
  <2>5. QED
    BY <2>1, <2>2, <2>3, <2>4
<1> HIDE DEF n, d, grains
<1>12. w \in Nat /\ m \in Nat /\ m < d /\ n = d * w + m
  BY <1>10
<1> HIDE DEF m, w
<1> DEFINE rest == g + grains - Grain * w
<1>13. d * rest = Grain * m
  <2>1. d * rest = d * (g + grains) - d * (Grain * w)
    BY <1>1, <1>10, <1>12
  <2>2. Grain * n = Grain * (d * w) + Grain * m
    BY <1>1, <1>10, <1>12
  <2>3. d * (Grain * w) = Grain * (d * w)
    BY <1>1, <1>10, <1>12
  <2>4. d * (Grain * w) \in Int /\ Grain * m \in Int /\ Grain * n \in Int
    BY <1>1, <1>10, <1>12
  <2>5. QED
    BY <1>11, <2>1, <2>2, <2>3, <2>4
<1>14. rest \in Nat
  <2>1. rest \in Int
    BY <1>1, <1>10, <1>12
  <2>2. Grain * m \in Nat
    BY <1>1, <1>12
  <2> HIDE DEF rest
  <2>3. ~(rest < 0)
    <3>1. SUFFICES ASSUME rest < 0 PROVE FALSE
      OBVIOUS
    <3>2. d * rest < 0
      BY <1>10, <2>1, <3>1
    <3>3. QED
      BY <1>13, <2>2, <3>2
  <2>4. QED
    BY <2>1, <2>3
<1>15. remainder' = Reduced(m, d)
  BY <1>7 DEF Fraction, m
<1>16. remainder' \in Nat \X (Nat \ {0})
  BY <1>10, <1>12, <1>15, ReducedType
<1> HIDE DEF rest
<1>17. remainder'[2] * rest = Grain * remainder'[1]
  BY <1>10, <1>12, <1>13, <1>14, <1>15, ReducedGrained
<1>18. Grained(remainder') /\ Grains(remainder') = rest
  BY <1>14, <1>16, <1>17, GrainsOfGrained DEF Grained
<1>19. Grain * accumulated' = Grain * accumulated + Grain * w
  BY <1>1, <1>7, <1>12
<1>20. Grain * accumulated' + rest = Grain * accumulated + g + grains
  <2>1. Grain * accumulated \in Nat /\ Grain * w \in Nat
    BY <1>1, <1>12
  <2>2. QED
    BY <1>10, <1>19, <2>1 DEF rest
<1>21. QED
  BY <1>3, <1>6, <1>10, <1>18, <1>20

-----------------------------------------------------------------------------
(* The ledger is kept.                                                      *)

\* What an action leaves alone stays balanced.
LEMMA SpentStays ==
  ASSUME UNCHANGED << opened, anchor >>, Reached' = Reached
  PROVE  Spent' = Spent
BY DEF Spent, TimeFrom, DurationTo, opened

LEMMA SavedLedgerStays ==
  ASSUME LedgerOK, UNCHANGED << opened, saved >>
  PROVE  \A s \in saved' :
           Grained(s.remainder)
           /\ (s.lifecycle = "Ready" => ready' <= s.position)
BY DEF LedgerOK, opened

LEMMA LedgerStays ==
  ASSUME LedgerOK, UNCHANGED << opened, position, state, remainder, accumulated,
                                earned, anchor, saved >>,
         Reached' = Reached, lifecycle' = "Ready" => lifecycle = "Ready",
         Idle' => Idle \/ ~TickDue
  PROVE  LedgerOK'
<1>1. Spent' = Spent
  BY SpentStays
<1>2. TickDue' <=> TickDue
  BY DEF TickDue, NextTickRecord, DurationTo, opened
<1>3. Grained(remainder)'
  BY DEF LedgerOK, Grained
<1>4. lifecycle' = "Ready" => BalanceOK'
  <2>1. SUFFICES ASSUME lifecycle' = "Ready" PROVE BalanceOK'
    OBVIOUS
  <2>2. BalanceOK
    BY <2>1 DEF LedgerOK
  <2>3. (anchor \in Places /\ anchor <= position /\ ready <= position)'
    BY <2>2 DEF BalanceOK, Places, opened
  <2>4. (earned = Grain * (Spent + accumulated) + Grains(remainder))'
    BY <1>1, <2>2 DEF BalanceOK, Grains
  <2>5. (Idle => position = anchor \/ ~TickDue)'
    BY <1>2, <2>2 DEF BalanceOK
  <2>6. QED
    BY <2>3, <2>4, <2>5 DEF BalanceOK
<1>5. QED
  BY <1>3, <1>4, SavedLedgerStays DEF LedgerOK

\* Until a session is ready there is nothing to balance.
LEMMA LedgerClosed ==
  ASSUME LedgerOK, saved = {}, UNCHANGED << remainder, saved >>,
         lifecycle' # "Ready"
  PROVE  LedgerOK'
BY DEF LedgerOK, Grained

\* At a discontinuity nothing has been spent.
AtOrigin ==
  /\ anchor \in Places /\ position = anchor /\ Reached = anchor
  /\ lifecycle = "Ready" => ready <= position
  /\ accumulated \in Nat
  /\ earned = Grain * accumulated + Grains(remainder)

LEMMA OriginBalances ==
  OpenedOK /\ AtOrigin => (lifecycle = "Ready" => BalanceOK)
<1>1. SUFFICES ASSUME OpenedOK, AtOrigin, lifecycle = "Ready" PROVE BalanceOK
  OBVIOUS
<1>2. PICK from \in Places : from = anchor
  BY <1>1 DEF AtOrigin
<1>3. from \in Nat /\ from <= Len(source)
  BY <1>1, PlaceFacts
<1>4. TimeFrom(from)[from] = 0
  BY <1>1, <1>3, TimeSteps DEF Timed
<1>5. Spent = 0
  BY <1>1, <1>2, <1>4 DEF Spent, AtOrigin
<1>6. 0 + accumulated = accumulated
  BY <1>1 DEF AtOrigin
<1>7. QED
  BY <1>1, <1>2, <1>3, <1>5, <1>6 DEF AtOrigin, BalanceOK

LEMMA LedgerStarts ==
  ASSUME IInv', AtOrigin', Grained(remainder'),
         \A s \in saved' : Grained(s.remainder)
                           /\ (s.lifecycle = "Ready" => ready' <= s.position)
  PROVE  LedgerOK'
<1>1. (OpenedOK /\ AtOrigin => (lifecycle = "Ready" => BalanceOK))'
  BY OriginBalances, PTL
<1>2. (lifecycle = "Ready" => BalanceOK)'
  BY <1>1 DEF IInv
<1>3. QED
  BY <1>2 DEF LedgerOK, Grained

\* A clock that is set back.
LEMMA NothingGrained ==
  Grained(<< 0, 1 >>) /\ Grains(<< 0, 1 >>) = 0
<1>1. Grain \in Nat \ {0}
  BY RatesAssumption DEF RatesAssumption
<1>2. << 0, 1 >> \in Nat \X (Nat \ {0}) /\ << 0, 1 >>[2] * 0 = Grain * << 0, 1 >>[1]
  BY <1>1
<1>3. QED
  BY <1>2, GrainsOfGrained DEF Grained

LEMMA PublishedLedger ==
  ASSUME IInv, IInv', LedgerOK, Published, run = NoRun,
         UNCHANGED << ready, saved >>, ready # 0
  PROVE  LedgerOK'
<1>1. /\ remainder' = << 0, 1 >> /\ accumulated' = 0 /\ earned' = 0
      /\ anchor' = ready' /\ position' = ready' /\ run' = NoRun
  BY DEF Published
<1>2. Reached' = ready'
  BY <1>1 DEF Reached, NoRun
<1>3. ready' \in Places' /\ ready' \in Nat
  <2>1. ready' \in 0..Len(source') /\ source' \in Seq(Records)
    BY DEF IInv, OpenedOK
  <2>2. QED
    BY <2>1, LenProperties DEF Places
<1>4. Grain \in Nat
  BY RatesAssumption DEF RatesAssumption
<1>5. AtOrigin'
  BY <1>1, <1>2, <1>3, <1>4, NothingGrained DEF AtOrigin, Grains
<1>6. Grained(remainder')
  BY <1>1, NothingGrained
<1>7. QED
  BY <1>5, <1>6, LedgerStarts DEF LedgerOK

LEMMA SeekCommitLedger ==
  ASSUME IInv, IInv', LedgerOK, SeekCommit
  PROVE  LedgerOK'
<1>1. /\ remainder' = << 0, 1 >> /\ accumulated' = 0 /\ earned' = 0
      /\ anchor' = run.end /\ position' = run.end /\ run' = NoRun
      /\ UNCHANGED << opened, saved >>
  BY DEF SeekCommit
<1>2. Reached' = run.end
  BY <1>1 DEF Reached, NoRun
<1>3. Shown(run.state, run.end)
  BY LoopedFacts DEF SeekCommit, Looped
<1>4. run.end \in Places /\ run.state.body = timeline[run.end].body
  BY <1>3 DEF Shown
<1>5. lifecycle' = "Ready" => ready <= run.end
  BY <1>4 DEF SeekCommit, IInv, PlacesOK, IsReady
<1>6. Grain \in Nat
  BY RatesAssumption DEF RatesAssumption
<1>7. AtOrigin'
  BY <1>1, <1>2, <1>4, <1>5, <1>6, NothingGrained
     DEF AtOrigin, Grains, Places, opened
<1>8. Grained(remainder')
  BY <1>1, NothingGrained
<1>9. QED
  BY <1>1, <1>7, <1>8, LedgerStarts, SavedLedgerStays

LEMMA RestoreLedger ==
  ASSUME IInv, IInv', LedgerOK, Restore
  PROVE  LedgerOK'
<1>1. PICK s \in saved :
        /\ lifecycle' = s.lifecycle
        /\ remainder' = s.remainder /\ accumulated' = s.accumulated
        /\ position' = s.position /\ anchor' = s.position
        /\ earned' = Grain * s.accumulated
                       + (Grain * s.remainder[1]) \div s.remainder[2]
  BY DEF Restore
<1>2. run' = NoRun /\ UNCHANGED << opened, saved >>
  BY IdleFacts DEF IInv, Restore
<1>3. s.position \in Places /\ s.accumulated \in Nat
  BY DEF IInv, SavedOK, Shown, Clocks
<1>4. /\ Grained(s.remainder)
      /\ s.lifecycle = "Ready" => ready <= s.position
  BY DEF LedgerOK
<1>5. Reached' = s.position
  BY <1>1, <1>2 DEF Reached, NoRun
<1>6. AtOrigin'
  BY <1>1, <1>2, <1>3, <1>4, <1>5 DEF AtOrigin, Grains, Places, opened
<1>7. Grained(remainder')
  BY <1>1, <1>4
<1>8. QED
  BY <1>2, <1>6, <1>7, LedgerStarts, SavedLedgerStays

LEMMA SnapshotLedger ==
  ASSUME IInv, LedgerOK, Snapshot
  PROVE  LedgerOK'
<1>1. /\ UNCHANGED << opened, position, state, clock, anchor, earned, run,
                      call, lifecycle >>
      /\ saved' = {[lifecycle |-> lifecycle, playback |-> playback,
                    rate |-> rate, remainder |-> remainder,
                    accumulated |-> accumulated, position |-> position,
                    delivered |-> delivered, state |-> state]}
  BY DEF Snapshot, history
<1>2. Grained(remainder)' /\ Grained(remainder)
  BY <1>1 DEF LedgerOK, Grained, clock
<1>3. Spent' = Spent
  BY <1>1, SpentStays DEF Reached
<1>4. TickDue' <=> TickDue
  BY <1>1 DEF TickDue, NextTickRecord, DurationTo, opened, clock
<1>5. lifecycle = "Ready" => BalanceOK /\ BalanceOK'
  BY <1>1, <1>3, <1>4
     DEF LedgerOK, BalanceOK, Grains, Places, opened, clock, Idle
<1>6. \A s \in saved' :
        Grained(s.remainder) /\ (s.lifecycle = "Ready" => ready' <= s.position)
  <2>1. TAKE s \in saved'
  <2>2. s.remainder = remainder /\ s.lifecycle = lifecycle
        /\ s.position = position
    BY <1>1
  <2>3. ready' = ready
    BY <1>1 DEF opened
  <2>4. QED
    BY <1>2, <1>5, <2>2, <2>3 DEF BalanceOK
<1>7. QED
  BY <1>1, <1>2, <1>5, <1>6 DEF LedgerOK

-----------------------------------------------------------------------------
(* Playing on.                                                              *)

LEMMA AdvanceLedger ==
  ASSUME IInv, LedgerOK, NEW elapsed \in Elapsed, Advance(elapsed)
  PROVE  LedgerOK'
<1>1. /\ run = NoRun /\ lifecycle = "Ready" /\ call'.op = "advance"
      /\ UNCHANGED << opened, position, run, saved, anchor >>
      /\ earned' = earned + GrainsOf(elapsed)
      /\ Accumulate(elapsed)
  <2>1. call' = [op |-> "advance", elapsed |-> elapsed, first |-> delivered]
    BY DEF Advance
  <2>2. call'.op = "advance"
    BY <2>1
  <2>3. QED
    BY <2>2, IdleFacts DEF IInv, Advance
<1>2. Reached = position /\ Spent' = Spent
  BY <1>1, SpentStays DEF Reached, NoRun
<1>3. BalanceOK
  BY <1>1 DEF LedgerOK
<1>4. /\ Grained(remainder')
      /\ GrainsOf(elapsed) \in Nat
      /\ Grain * accumulated' + Grains(remainder')
           = Grain * accumulated + Grains(remainder) + GrainsOf(elapsed)
  BY <1>1, AccumulateBalances DEF IInv, LedgerOK
<1>5. Spent \in Nat
  <2>1. position \in Places /\ OpenedOK
    BY <1>1 DEF IInv, LifecycleOK, Session, Shown
  <2>2. PICK from \in Places, p \in Places : from = anchor /\ p = position
    BY <1>3, <2>1 DEF BalanceOK
  <2>3. p \in from..Len(source)
    BY <1>3, <2>1, <2>2, PlaceFacts DEF BalanceOK
  <2>4. TimeFrom(from)[p] \in Nat
    BY <2>1, <2>3, TimeType
  <2>5. QED
    BY <1>2, <2>2, <2>4 DEF Spent
<1>6. /\ Grain \in Nat /\ accumulated \in Nat
      /\ accumulated' \in Nat /\ Grains(remainder) \in Int
      /\ Grains(remainder') \in Int
  <2>1. ClockOK /\ ClockOK'
    BY AdvanceStep DEF IInv
  <2>2. Grain \in Nat
    BY RatesAssumption DEF RatesAssumption
  <2>3. ASSUME NEW f \in Nat \X (Nat \ {0}) PROVE Grains(f) \in Int
    <3> DEFINE n == Grain * f[1]
               d == f[2]
    <3>1. n \in Nat /\ d \in Nat \ {0}
      BY <2>2
    <3> HIDE DEF n, d
    <3>2. n \div d \in Int
      BY <3>1
    <3>3. QED
      BY <3>2 DEF Grains, n, d
  <2>4. QED
    BY <2>1, <2>2, <2>3 DEF ClockOK, Clocks
<1>7. earned' = Grain * (Spent + accumulated') + Grains(remainder')
  <2>1. earned = Grain * (Spent + accumulated) + Grains(remainder)
    BY <1>3 DEF BalanceOK
  <2>2. /\ Grain * (Spent + accumulated) = Grain * Spent + Grain * accumulated
        /\ Grain * (Spent + accumulated') = Grain * Spent + Grain * accumulated'
        /\ Grain * Spent \in Int /\ Grain * accumulated \in Int
        /\ Grain * accumulated' \in Int
    BY <1>5, <1>6
  <2>3. QED
    BY <1>1, <1>4, <1>6, <2>1, <2>2
<1>8. BalanceOK'
  <2>1. ~Idle'
    BY <1>1 DEF Idle, NoCall
  <2>2. (anchor \in Places /\ anchor <= position /\ ready <= position)'
    BY <1>1, <1>3 DEF BalanceOK, Places, opened
  <2>3. QED
    BY <1>2, <1>7, <2>1, <2>2 DEF BalanceOK, Grains
<1>9. QED
  BY <1>1, <1>4, <1>8, SavedLedgerStays DEF LedgerOK, Grained

\* Between the place of a ready session and the next tick no record takes time.
LEMMA NextTickTime ==
  ASSUME OpenedOK, PlacesOK, NEW from \in Places, NEW p \in Places,
         from <= p, ready <= p, p = position, state.body = timeline[p].body,
         NEW r, r = NextTickRecord, r # 0
  PROVE  TimeFrom(from)[TickGroupEnd(r)]
           = TimeFrom(from)[p] + DurationTo(r, state)
<1> DEFINE n == Len(source)
           end == TickGroupEnd(r)
           T == TimeFrom(from)
<1>1. r \in tickRecords /\ r \in Places /\ r > p
  BY NextTickFacts
<1>2. /\ n \in Nat /\ from \in Nat \ {0} /\ p \in Nat /\ r \in Nat
      /\ r <= n /\ ready \in Nat /\ p \in from..n
  BY <1>1, PlaceFacts DEF OpenedOK
<1>3. end \in r..n
  BY <1>1, TickGroup
<1>4. Places \subseteq Nat /\ tickRecords \subseteq Places /\ Places = 1..n
  BY <1>2 DEF OpenedOK, Places
\* Neither before the tick nor after it.
<1>5. \A q \in p + 1..(r - 1) : q \notin tickRecords
  <2> DEFINE S == {q \in tickRecords : q > p}
  <2>1. r = Min(S) /\ S # {} /\ S \subseteq Nat
    BY <1>1, <1>4 DEF NextTickRecord, EarliestOf
  <2>2. \A q \in S : r <= q
    BY <2>1, MinOf
  <2>3. QED
    BY <1>2, <2>2
<1>6. \A q \in r + 1..end : q \notin tickRecords
  <2> DEFINE later == {t \in tickRecords : t > r}
  <2>1. CASE later = {}
    BY <1>2, <1>3, <2>1
  <2>2. CASE later # {}
    <3>1. end = Min(later) - 1 /\ later \subseteq Nat
      BY <1>4, <2>2 DEF TickGroupEnd
    <3>2. Min(later) \in Nat /\ \A q \in later : Min(later) <= q
      BY <2>2, <3>1, MinOf
    <3> HIDE DEF later
    <3>3. TAKE q \in r + 1..end
    <3>4. q < Min(later) /\ q > r
      BY <1>2, <1>3, <3>1, <3>2, <3>3
    <3>5. q \notin later
      BY <1>2, <1>3, <3>2, <3>3, <3>4
    <3>6. QED
      BY <3>4, <3>5 DEF later
  <2>3. QED
    BY <2>1, <2>2
<1>7. r - 1 \in p..n /\ r - 1 \in from..n /\ r \in from + 1..n
  BY <1>1, <1>2
<1> HIDE DEF end
<1>8. T[r - 1] = T[p]
  BY <1>2, <1>5, <1>7, TimeFlat
<1>9. T[end] = T[r]
  <2>1. r \in from..n
    BY <1>2, <1>7
  <2>2. QED
    BY <1>3, <1>6, <2>1, TimeFlat
<1>10. T[r] = T[r - 1] + DurationTo(r, timeline[r - 1])
  <2>1. T[r] = T[r - 1] + Cost(r)
    BY <1>7, TimeSteps DEF Timed
  <2>2. QED
    BY <1>1, <2>1 DEF Cost
<1>11. timeline[r - 1].body.tick = timeline[p].body.tick
  <2>1. \A q \in p + 1..(r - 1) : source[q].tick = NoTick
    BY <1>2, <1>4, <1>5 DEF PlacesOK
  <2>2. QED
    BY <1>7, <2>1, TickFlat
<1>12. DurationTo(r, timeline[r - 1]) = DurationTo(r, state)
  BY <1>11 DEF DurationTo
<1>13. QED
  BY <1>8, <1>9, <1>10, <1>12 DEF end

LEMMA AdvanceTickLedger ==
  ASSUME IInv, LedgerOK, AdvanceTick
  PROVE  LedgerOK'
<1>1. /\ Session /\ Shown(state, position) /\ run = NoRun
      /\ call.op = "advance" /\ lifecycle = "Ready"
  BY DEF IInv, AdvanceTick, Advancing, LifecycleOK, Session
<1>2. BalanceOK
  BY <1>1 DEF LedgerOK
<1>3. PICK r, end, d : /\ r = NextTickRecord /\ end = TickGroupEnd(r)
                       /\ d = DurationTo(r, state)
  OBVIOUS
<1>4. /\ r # 0 /\ accumulated' = accumulated - d /\ accumulated >= d
      /\ run' = Forward("tick", end)
      /\ UNCHANGED << opened, lifecycle, remainder, position, state, call,
                      saved, history >>
  BY <1>3 DEF AdvanceTick, TickDue
<1>5. PICK from \in Places, p \in Places : from = anchor /\ p = position
  BY <1>1, <1>2 DEF BalanceOK, Shown
<1>6. TimeFrom(from)[end] = TimeFrom(from)[p] + d
  <2>1. from <= p /\ ready <= p /\ state.body = timeline[p].body
    BY <1>1, <1>2, <1>5 DEF BalanceOK, Shown
  <2>2. QED
    BY <1>3, <1>4, <1>5, <2>1, NextTickTime DEF IInv
<1>7. Spent = TimeFrom(from)[p]
  BY <1>1, <1>5 DEF Spent, Reached, NoRun
<1>8. Spent' = TimeFrom(from)[end]
  <2>1. Reached' = end
    BY <1>4 DEF Reached, Forward
  <2>2. anchor' = from
    BY <1>4, <1>5 DEF history
  <2>3. QED
    BY <1>4, <2>1, <2>2 DEF Spent, TimeFrom, DurationTo, opened
<1>9. TimeFrom(from)[p] \in Nat /\ d \in Nat /\ accumulated \in Nat
  <2>1. p \in from..Len(source) /\ state \in States
    BY <1>1, <1>2, <1>5, PlaceFacts DEF BalanceOK, IInv, Shown
  <2>2. r \in Places
    BY <1>3, <1>4, NextTickFacts DEF IInv
  <2>3. DurationTo(r, state) \in Nat
    BY <2>1, <2>2, DurationType DEF IInv
  <2>4. TimeFrom(from)[p] \in Nat
    BY <2>1, TimeType DEF IInv
  <2>5. QED
    BY <1>3, <2>3, <2>4 DEF IInv, ClockOK, Clocks
<1>10. Spent' + accumulated' = Spent + accumulated
  BY <1>4, <1>6, <1>7, <1>8, <1>9
<1>11. ~Idle'
  BY <1>1, <1>4 DEF Idle, NoCall
<1>12. BalanceOK'
  BY <1>2, <1>4, <1>10, <1>11
     DEF BalanceOK, Grains, Places, opened, history
<1>13. QED
  BY <1>4, <1>12, SavedLedgerStays DEF LedgerOK, Grained

LEMMA AdvanceTrailingLedger ==
  ASSUME IInv, LedgerOK, AdvanceTrailing
  PROVE  LedgerOK'
<1>1. /\ Session /\ Shown(state, position) /\ run = NoRun
      /\ call.op = "advance"
  BY DEF IInv, AdvanceTrailing, Advancing, LifecycleOK, NoCall
<1>2. /\ NextTickRecord = 0 /\ position < Len(source)
      /\ run' = Forward("trailing", Len(source))
      /\ UNCHANGED << opened, lifecycle, clock, position, state, call, saved,
                      history >>
  BY DEF AdvanceTrailing, TrailingDue
<1>3. SUFFICES ASSUME lifecycle = "Ready" PROVE BalanceOK'
  BY <1>2, SavedLedgerStays DEF LedgerOK, Grained, clock
<1>4. BalanceOK
  BY <1>3 DEF LedgerOK
<1>5. PICK from \in Places, p \in Places : from = anchor /\ p = position
  BY <1>1, <1>4 DEF BalanceOK, Shown
<1> DEFINE n == Len(source)
<1>6. /\ n \in Nat /\ from \in Nat \ {0} /\ p \in from..n /\ p \in Nat
      /\ Places \subseteq Nat /\ tickRecords \subseteq Places
  BY <1>4, <1>5, PlaceFacts DEF BalanceOK, IInv, OpenedOK, Places
<1>7. \A q \in p + 1..n : q \notin tickRecords
  <2> DEFINE S == {q \in tickRecords : q > p}
  <2>1. S = {}
    <3>1. SUFFICES ASSUME S # {} PROVE FALSE
      OBVIOUS
    <3>2. NextTickRecord = Min(S) /\ S \subseteq Nat
      BY <1>5, <1>6, <3>1 DEF NextTickRecord, EarliestOf
    <3>3. Min(S) \in S
      BY <3>1, <3>2, MinOf
    <3>4. QED
      BY <1>2, <1>6, <3>2, <3>3
  <2>2. QED
    BY <1>6, <2>1
<1>8. TimeFrom(from)[n] = TimeFrom(from)[p]
  <2>1. n \in p..n
    BY <1>6
  <2>2. QED
    BY <1>6, <1>7, <2>1, TimeFlat DEF IInv
<1>9. Spent = TimeFrom(from)[p]
  BY <1>1, <1>5 DEF Spent, Reached, NoRun
<1>10. Spent' = TimeFrom(from)[n]
  <2>1. Reached' = n
    BY <1>2 DEF Reached, Forward
  <2>2. anchor' = from
    BY <1>2, <1>5 DEF history
  <2>3. QED
    BY <1>2, <2>1, <2>2 DEF Spent, TimeFrom, DurationTo, opened
<1>11. ~Idle'
  BY <1>1, <1>2 DEF Idle, NoCall
<1>12. QED
  BY <1>2, <1>4, <1>8, <1>9, <1>10, <1>11
     DEF BalanceOK, Grains, Places, opened, history, clock

LEMMA ForwardCommitLedger ==
  ASSUME IInv, LedgerOK, ForwardCommit
  PROVE  LedgerOK'
<1>1. /\ run.kind \in {"tick", "trailing"} /\ run' = NoRun
      /\ position' = run.end /\ call.op = "advance" /\ position < run.end
      /\ UNCHANGED << opened, remainder, call, saved, history >>
      /\ lifecycle' = "Ready" => lifecycle = "Ready" /\ accumulated' = accumulated
  BY DEF ForwardCommit, Looped, IInv, RunOK
<1>2. Reached' = Reached
  BY <1>1 DEF Reached, NoRun
<1>3. Spent' = Spent
  BY <1>1, <1>2, SpentStays DEF history
<1>4. SUFFICES ASSUME lifecycle' = "Ready" PROVE BalanceOK'
  BY <1>1, SavedLedgerStays DEF LedgerOK, Grained
<1>5. BalanceOK /\ accumulated' = accumulated
  BY <1>1, <1>4 DEF LedgerOK
<1>6. /\ position \in Nat /\ run.end \in Nat /\ anchor \in Nat /\ ready \in Nat
  <2>1. position \in Places /\ run.end \in Places /\ anchor \in Places
    BY <1>1, <1>4, <1>5
       DEF IInv, LifecycleOK, Session, Shown, RunOK, BalanceOK
  <2>2. QED
    BY <2>1, PlaceFacts DEF IInv, OpenedOK
<1>7. (anchor \in Places /\ anchor <= position /\ ready <= position)'
  BY <1>1, <1>5, <1>6 DEF BalanceOK, Places, opened, history
<1>8. ~Idle'
  BY <1>1 DEF Idle, NoCall
<1>9. QED
  BY <1>1, <1>3, <1>5, <1>7, <1>8 DEF BalanceOK, Grains, history

-----------------------------------------------------------------------------
(* The clock is exact.                                                      *)

LEMMA InitLedger ==
  ASSUME Init
  PROVE  LedgerOK
BY NothingGrained DEF Init, LedgerOK

LEMMA StepLedger ==
  ASSUME IInv, IInv', LedgerOK, [Next]_vars
  PROVE  LedgerOK'
<1>1. CASE UNCHANGED vars \/ Pause \/ Resume \/ AdvanceInert
  <2>1. /\ UNCHANGED << opened, position, state, clock, earned, anchor, saved,
                        run, call, lifecycle >>
    BY <1>1 DEF vars, Pause, Resume, AdvanceInert, history
  <2>2. QED
    BY <2>1, LedgerStays DEF Reached, Idle, clock
<1>2. CASE \E new \in Rates : SetRate(new)
  <2>1. /\ UNCHANGED << opened, position, state, remainder, accumulated, earned,
                        anchor, saved, run, call, lifecycle >>
    BY <1>2 DEF SetRate, history
  <2>2. QED
    BY <2>1, LedgerStays DEF Reached, Idle
<1>3. CASE \E rec \in Records : OpenRecord(rec)
  <2>1. lifecycle = "Opening" /\ saved = {}
    BY <1>3 DEF OpenRecord, IInv, LifecycleOK, Session
  <2>2. UNCHANGED << remainder, saved >> /\ lifecycle' # "Ready"
    BY <1>3, <2>1 DEF OpenRecord, Refuse, clock
  <2>3. QED
    BY <2>1, <2>2, LedgerClosed
<1>4. CASE OpenReturn
  <2>1. saved = {} /\ run = NoRun
    BY <1>4 DEF OpenReturn, IInv, LifecycleOK, Session
  <2>2. CASE Refuse
    BY <2>1, <2>2, LedgerClosed DEF Refuse, clock
  <2>3. CASE ~Refuse
    BY <1>4, <2>1, <2>3, PublishedLedger DEF OpenReturn
  <2>4. QED
    BY <2>2, <2>3
<1>5. CASE Reopen
  <2>1. run = NoRun /\ ready # 0 /\ Published /\ UNCHANGED << ready, saved >>
    BY <1>5, IdleFacts DEF Reopen, IInv, LifecycleOK, opened
  <2>2. QED
    BY <2>1, PublishedLedger
<1>6. CASE \E elapsed \in Elapsed : Advance(elapsed)
  BY <1>6, AdvanceLedger
<1>7. CASE AdvanceTick
  BY <1>7, AdvanceTickLedger
<1>8. CASE AdvanceTrailing
  BY <1>8, AdvanceTrailingLedger
<1>9. CASE AdvanceReturn
  <2>1. /\ UNCHANGED << opened, position, state, clock, earned, anchor, saved,
                        run, lifecycle >>
        /\ ~TickDue
    BY <1>9 DEF AdvanceReturn, history
  <2>2. QED
    BY <2>1, LedgerStays DEF Reached, clock
<1>10. CASE ReplayRecord
  <2>1. refused' # TRUE
    BY DEF IInv, LifecycleOK
  <2>2. PICK s, terminates : /\ run' = [run EXCEPT !.state = s, !.next = @ + 1,
                                             !.terminal = terminates]
                             /\ call' = call
    BY <1>10, <2>1 DEF ReplayRecord
  <2>3. run \in [kind : Kinds, state : States, next : Nat, end : Nat,
                 terminal : BOOLEAN]
    BY <1>10 DEF ReplayRecord, Looping, IInv, RunOK
  <2>4. run'.kind = run.kind /\ run'.end = run.end
    BY <2>2, <2>3
  <2>5. UNCHANGED << opened, position, state, clock, earned, anchor, saved,
                     lifecycle >>
    BY <1>10 DEF ReplayRecord
  <2>6. Reached' = Reached
    BY <2>4, <2>5 DEF Reached
  <2>7. QED
    BY <2>2, <2>5, <2>6, LedgerStays DEF Idle, clock
<1>11. CASE ForwardCommit
  BY <1>11, ForwardCommitLedger
<1>12. ASSUME NEW target, SeekRecord(target), Idle
       PROVE  LedgerOK'
  <2>1. /\ UNCHANGED << opened, position, state, clock, earned, anchor, saved,
                        lifecycle >>
    BY <1>12 DEF SeekRecord, history
  <2>2. run = NoRun
    BY <1>12, IdleFacts DEF IInv
  <2>3. run'.kind = "seek" /\ ~Idle'
    <3>1. run'.kind = "seek"
      BY <1>12 DEF SeekRecord
    <3>2. call'.op = "seek"
      BY <1>12 DEF SeekRecord, NoCall
    <3>3. QED
      BY <3>1, <3>2 DEF Idle, NoCall
  <2>4. Reached' = Reached
    BY <2>1, <2>2, <2>3 DEF Reached, NoRun
  <2>5. QED
    BY <2>1, <2>3, <2>4, LedgerStays DEF clock
<1>13. CASE \/ \E target \in DOMAIN source : Seek(target)
            \/ \E tick \in Ticks : SeekServerTick(tick)
            \/ \E ticks \in -MaxStepTicks..MaxStepTicks : Step(ticks)
  BY <1>12, <1>13 DEF Seek, SeekServerTick, Step
<1>14. CASE SeekCommit
  BY <1>14, SeekCommitLedger
<1>15. CASE Snapshot
  BY <1>15, SnapshotLedger
<1>16. CASE Restore
  BY <1>16, RestoreLedger
<1>17. QED
  BY <1>1, <1>2, <1>3, <1>4, <1>5, <1>6, <1>7, <1>8, <1>9, <1>10, <1>11,
     <1>13, <1>14, <1>15, <1>16 DEF Next

\* What has elapsed since the last discontinuity, at the rates in force, is the
\* time between the records crossed plus what is accumulated plus the fraction
\* kept, and no tick that is due stays uncrossed when a call returns.
THEOREM ClockIsExact ==
  Spec => []ClockLedger
<1>1. Init => LedgerOK
  BY InitLedger
<1>2. IInv /\ IInv' /\ LedgerOK /\ [Next]_vars => LedgerOK'
  BY StepLedger
<1>3. IInv /\ LedgerOK => ClockLedger
  <2>1. SUFFICES ASSUME IInv, LedgerOK, lifecycle = "Ready", Idle
                 PROVE  /\ earned = Grain * (TimeFrom(anchor)[position]
                                               + accumulated)
                                      + (Grain * remainder[1]) \div remainder[2]
                        /\ position = anchor \/ ~TickDue
    BY DEF ClockLedger
  <2>2. Reached = position
    BY <2>1, IdleFacts DEF IInv, Reached, NoRun
  <2>3. BalanceOK
    BY <2>1 DEF LedgerOK
  <2>4. QED
    BY <2>1, <2>2, <2>3 DEF BalanceOK, Spent, Grains
<1>4. QED
  BY <1>1, <1>2, <1>3, Invariance, PTL DEF Spec
=============================================================================
