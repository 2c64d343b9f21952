----------------------------- MODULE PageProofs -----------------------------
(***************************************************************************)
(* The page and what it loads: PageSimulation, for any number of map       *)
(* changes, retries, samples and ticks, and at the end the acquirer that   *)
(* fetches the objects of a map.                                           *)
(*                                                                         *)
(* The invariant of the page, IInv, says what each of its parts may take   *)
(* for granted of the others:                                              *)
(*   MessagesOK  the loop and a call that waits have one request or reply  *)
(*               between page and worker, of the kind they wait for;       *)
(*   CallsOK     map changes run one after the other, and what they know   *)
(*               of their candidate follows from how far they have come;   *)
(*   WorkerOK    the worker is on the page's generation, except from its   *)
(*               activation of a candidate to the page's adoption of it,   *)
(*               and holds no candidate but that of the call under way;    *)
(*   PlacesOK    a call that has not adopted its candidate leaves the      *)
(*               page's generation alone;                                  *)
(*   StillOK     nothing is sampled or stepped while a map is replaced;    *)
(*   QuietOK     nothing is presented then, and a step, a publication and  *)
(*               a reply are of the page's generation;                     *)
(*   ShownOK     what is on the screen, queued for it and on its way to    *)
(*               it is one sequence of ticks that ends at the worker's;    *)
(*   QueueOK     samples coalesce: no more than one for each time that the *)
(*               page was hidden or shown;                                 *)
(*   WatchOK     the watchdog never expires before its budget was visible. *)
(* StillOK and QuietOK hold until the page is shown or hidden during a     *)
(* replacement or a teardown, or a replacement comes to its end in a       *)
(* teardown: either lets the page sample again (Visibility, Probed).       *)
(***************************************************************************)
EXTENDS PageSimulation, ObjectAcquirer, SequenceTheorems, FiniteSetTheorems,
        WellFoundedInduction, TLAPS

Waits == {"staging", "activating", "observing", "discarding"}
Halting == {"simulation", "presentation", "presented"}
Ahead == Halting \cup {"staging", "loading", "activating", "releasing"}
Adopted == {"baseline", "observing", "initializing", "probing"}
\* A call whose map is ready no longer keeps the page from playing.
Replaces(c) ==
  \/ calls[c].at \in Ahead \cup Adopted
  \/ calls[c].at = "discarding" /\ calls[c].outcome # "selection"
Busy(c) == calls[c].at \notin {"unused", "queued", "done"}

SampleType == [generation : Generations, suspended : BOOLEAN]
RequestType == [kind : {"observe", "stage", "activate", "discard"},
                from : Calls \cup {None}, generation : Generations,
                suspended : BOOLEAN]
ReplyType == [from : Calls \cup {None}, error : {"none", "stale", "fault"},
              tick : 0..MaxTicks]
CallType == [at : Places, previous : Generations \cup {None},
             candidate : Generations \cup {None},
             attempts : 0..MaxAttempts, outcome : Causes]
Shots == {NoSnapshot} \cup [generation : Generations, tick : 0..MaxTicks]
Workers == [active : Generations, staged : Generations \cup {None},
            baselined : BOOLEAN, tick : 0..MaxTicks]
Watches == [state : {"idle", "running", "suspended"},
            remaining : 0..Budget, since : 0..Budget, visible : Nat]

SessionTypes ==
  /\ generation \in Generations /\ reserved \in Generations
  /\ client \in BOOLEAN /\ closed \in BOOLEAN
  /\ paused \in BOOLEAN /\ hidden \in BOOLEAN
  /\ teardown \in {"none", "simulation", "presentation",
                   "presented", "disposing", "shutting", "gone"}
  /\ operation \in Calls \cup {None}
  /\ toggles \in 0..MaxToggles
  /\ disturbed \in SUBSET {"replacement", "teardown"}
ScreenTypes ==
  /\ phase \in {"Ready", "Replacing", "Failed", "MainMenu", "Closed"}
  /\ failure \in Causes /\ watch \in Watches
LoopTypes ==
  /\ samples \in Seq(SampleType) /\ Len(samples) <= MaxTransitions
  /\ step \in Generations \cup {None}
ShowTypes ==
  pending \in Publications /\ presenting \in Publications /\ snapshot \in Shots
WorkTypes ==
  /\ calls \in [Calls -> CallType] /\ worker \in Workers
  /\ requests \in Seq(RequestType) /\ replies \in Seq(ReplyType)
Types == SessionTypes /\ ScreenTypes /\ LoopTypes /\ ShowTypes /\ WorkTypes

\* Messages between the page and the worker: of a sender none, one that is
\* asked, or one that is answered.
Absent(q, f) == \A i \in DOMAIN q : q[i].from # f
Once(q, f) == \E i \in DOMAIN q : \A j \in DOMAIN q : q[j].from = f <=> j = i
NoMessage(q, p, f) == Absent(q, f) /\ Absent(p, f)
Asked(q, p, f) == Once(q, f) /\ Absent(p, f)
Told(q, p, f) == Absent(q, f) /\ Once(p, f)

Asks == [staging |-> "stage", activating |-> "activate",
         observing |-> "observe", discarding |-> "discard"]

\* q are the requests, p the replies, s is the step and k the calls.
MessagesIn(q, p, s, k) ==
  /\ s = None => NoMessage(q, p, None)
  /\ s # None => Asked(q, p, None) \/ Told(q, p, None)
  /\ \A c \in Calls :
       /\ k[c].at \in Waits => Asked(q, p, c) \/ Told(q, p, c)
       /\ k[c].at \notin Waits => NoMessage(q, p, c)
  /\ \A i \in DOMAIN q :
       /\ q[i].from = None => q[i].kind = "observe" /\ q[i].generation = s
       /\ q[i].from # None => /\ q[i].kind = Asks[k[q[i].from].at]
                              /\ q[i].generation = k[q[i].from].candidate
  /\ \A i \in DOMAIN p : p[i].error # "none" => p[i].tick = 0
MessagesOK == MessagesIn(requests, replies, step, calls)

\* One call after the other.
CallsOK ==
  /\ \A c, d \in Calls : d < c =>
       /\ calls[c].at # "unused" => calls[d].at # "unused"
       /\ calls[c].at \notin {"unused", "queued"} => calls[d].at = "done"
  /\ \A c \in Calls :
       /\ calls[c].at \in {"unused", "queued", "acquiring"} =>
            calls[c].candidate = None /\ calls[c].attempts = 0 /\ reserved <= c
       /\ calls[c].at = "unused" => operation # c
       /\ Replaces(c) => calls[c].candidate = reserved
       /\ calls[c].candidate # None => calls[c].candidate > 1
       /\ calls[c].at \in Ahead => calls[c].attempts = 0
       /\ calls[c].at \notin {"discarding", "done"} => calls[c].outcome = "none"
       /\ calls[c].at = "discarding" => calls[c].outcome # "none"
       /\ calls[c].outcome \notin {"watchdog", "stale", "overflow"}
  /\ reserved <= MaxSwitches + 1 /\ generation <= MaxSwitches + 2

SessionOK ==
  /\ closed => teardown # "none"
  /\ client <=> teardown # "gone"
  /\ operation # None => teardown = "none"
  /\ teardown = "none" => /\ phase \in {"Ready", "Replacing", "Failed"}
                          /\ generation <= reserved
                          /\ "teardown" \notin disturbed
  /\ teardown = "gone" => step = None

WatchOK ==
  /\ watch.state = "running" => ~hidden
  /\ watch.state = "suspended" => hidden /\ watch.since = 0
  /\ watch.state # "idle" => watch.visible + watch.remaining >= Budget + watch.since

\* What the worker has of a call.
ToldOf(c) == Told(requests, replies, c)
AskedOf(c) == Asked(requests, replies, c)
Swapped(c) == calls[c].at = "releasing" \/ (calls[c].at = "activating" /\ ToldOf(c))
StagedOnce(c) ==
  /\ calls[c].at = "staging" /\ ToldOf(c)
  /\ \E i \in DOMAIN replies : replies[i].from = c /\ replies[i].error = "none"
Holds(c) ==
  \/ calls[c].at = "loading"
  \/ calls[c].at = "activating" /\ AskedOf(c)
  \/ StagedOnce(c)
MayHold(c) == Holds(c) \/ (calls[c].at = "discarding" /\ AskedOf(c))

WorkerOK ==
  /\ \A c \in Calls : Swapped(c) => worker.active = calls[c].candidate
  /\ (\A c \in Calls : ~Swapped(c)) => worker.active = generation
  /\ \A c \in Calls : Holds(c) => worker.staged = calls[c].candidate
  /\ worker.staged # None =>
       \E c \in Calls : MayHold(c) /\ worker.staged = calls[c].candidate
  /\ \A i \in DOMAIN replies : replies[i].from # None =>
       /\ replies[i].error # "stale"
       /\ calls[replies[i].from].at = "activating" => replies[i].error = "none"

PlacesOK ==
  /\ \A c \in Calls :
       /\ calls[c].at \in Ahead \cup {"discarding"} => calls[c].candidate > generation
       /\ calls[c].at \in Adopted \cup {"selecting"} =>
            calls[c].candidate = generation /\ calls[c].previous # generation
       /\ calls[c].at \in Ahead \cup {"acquiring", "discarding"} =>
            calls[c].previous = generation
       /\ Busy(c) /\ calls[c].at # "selecting" => phase # "Ready"
  /\ pending.generation \in {None, generation}

Unseen == \E c \in Calls : calls[c].at \in {"baseline", "observing"}
Coming == {i \in DOMAIN replies : replies[i].from = None /\ replies[i].tick # 0}
Presented == IF pending = NoPublication THEN snapshot.tick ELSE pending.last

TicksOK ==
  /\ pending # NoPublication => pending.first = snapshot.tick + 1
  /\ \A i \in Coming :
       replies[i].tick = Presented + 1 /\ worker.tick = Presented + 1
  /\ Coming = {} => worker.tick = Presented

ShownOK ==
  ~Abandoned /\ ~Unseen =>
     /\ snapshot.generation = generation
     /\ disturbed = {} /\ (\A c \in Calls : ~Swapped(c)) => TicksOK

\* Unless something opens the gate of the frames.
StillOK ==
  /\ \A c \in Calls : Replaces(c) => paused /\ samples = << >>
  /\ \A c \in Calls : Replaces(c) /\ calls[c].at # "simulation" => step = None
  /\ teardown \notin {"none", "gone"} =>
       paused /\ samples = << >> /\ step # generation

Untouched(c) ==
  \/ calls[c].at \in {"releasing", "baseline"}
  \/ calls[c].at = "activating" /\ ToldOf(c)
  \/ calls[c].at = "observing" /\ AskedOf(c)

QuietOK ==
  /\ \A c \in Calls : Replaces(c) /\ calls[c].at \notin {"simulation", "presentation"} =>
       presenting = NoPublication /\ pending = NoPublication
  /\ step # None => step = generation
  /\ \A i \in DOMAIN replies : replies[i].error # "stale"
  /\ pending # NoPublication => presenting # NoPublication
  /\ presenting # NoPublication => presenting.generation = generation
  /\ \A c \in Calls : Untouched(c) /\ calls[c].attempts = 0 => ~worker.baselined
  /\ \A i \in DOMAIN replies :
       replies[i].from # None /\ calls[replies[i].from].at = "observing" =>
          /\ calls[replies[i].from].attempts = 0 => replies[i].tick = 0
          /\ replies[i].tick # 0 => replies[i].tick = worker.tick

\* The queue of samples.
LastIsCurrent == samples # << >> /\ Last(samples) = Sample(hidden)
QueueOK ==
  /\ Len(samples) <= toggles \/ (Len(samples) <= toggles + 1 /\ LastIsCurrent)
  /\ \A c \in Calls : calls[c].at \in Ahead =>
       /\ Len(samples) <= toggles
       /\ ~paused => Len(samples) < toggles \/ LastIsCurrent

IInv ==
  /\ Types /\ MessagesOK /\ CallsOK /\ SessionOK /\ WatchOK /\ QueueOK
  /\ disturbed = {} => StillOK
  /\ teardown = "none" => WorkerOK /\ PlacesOK /\ ShownOK
  /\ teardown = "none" /\ disturbed = {} => QuietOK

-----------------------------------------------------------------------------
(* Messages.                                                                *)

\* An element of a queue to which one was appended.
LEMMA Appended ==
  ASSUME NEW S, NEW q \in Seq(S), NEW r \in S
  PROVE  /\ Append(q, r) \in Seq(S) /\ Append(q, r) # << >>
         /\ Len(Append(q, r)) = Len(q) + 1
         /\ DOMAIN Append(q, r) = DOMAIN q \cup {Len(q) + 1}
         /\ Len(q) + 1 \notin DOMAIN q
         /\ Append(q, r)[Len(q) + 1] = r
         /\ \A i \in DOMAIN q : Append(q, r)[i] = q[i]
  OBVIOUS

LEMMA Elements ==
  ASSUME NEW S, NEW q \in Seq(S)
  PROVE  \A i \in DOMAIN q : q[i] \in S
  BY ElementOfSeq, LenProperties

\* The elements of a queue without its first.
LEMMA Taken ==
  ASSUME NEW S, NEW q \in Seq(S), q # << >>
  PROVE  /\ Head(q) \in S /\ Tail(q) \in Seq(S) /\ Head(q) = q[1]
         /\ 1 \in DOMAIN q /\ DOMAIN q \subseteq Nat /\ DOMAIN Tail(q) \subseteq Nat \ {0}
         /\ \A i \in DOMAIN Tail(q) : i + 1 \in DOMAIN q /\ Tail(q)[i] = q[i + 1]
         /\ \A i \in DOMAIN q : i # 1 => i - 1 \in DOMAIN Tail(q)
  <1>1. Head(q) = q[1] /\ Len(q) \in Nat \ {0} /\ DOMAIN q = 1..Len(q)
    OBVIOUS
  <1>2. Len(Tail(q)) = Len(q) - 1 /\ DOMAIN Tail(q) = 1..(Len(q) - 1)
    BY HeadTailProperties
  <1>3. QED
    BY <1>1, <1>2, HeadTailProperties

LEMMA AppendedFrom ==
  ASSUME NEW S, NEW q \in Seq(S), NEW r \in S
  PROVE  /\ Absent(q, r.from) => Once(Append(q, r), r.from)
         /\ \A f : f # r.from => /\ Absent(Append(q, r), f) <=> Absent(q, f)
                                 /\ Once(Append(q, r), f) <=> Once(q, f)
<1>1. ASSUME Absent(q, r.from) PROVE Once(Append(q, r), r.from)
  <2>1. \A j \in DOMAIN Append(q, r) :
          Append(q, r)[j].from = r.from <=> j = Len(q) + 1
    BY <1>1, Appended DEF Absent
  <2>2. QED
    BY <2>1, Appended DEF Once
<1>2. ASSUME NEW f, f # r.from
      PROVE  /\ Absent(Append(q, r), f) <=> Absent(q, f)
             /\ Once(Append(q, r), f) <=> Once(q, f)
  <2>1. Absent(Append(q, r), f) <=> Absent(q, f)
    BY <1>2, Appended DEF Absent
  <2>2. ASSUME Once(q, f) PROVE Once(Append(q, r), f)
    <3>1. PICK i \in DOMAIN q : \A j \in DOMAIN q : q[j].from = f <=> j = i
      BY <2>2 DEF Once
    <3>2. i \in DOMAIN Append(q, r) /\ \A j \in DOMAIN Append(q, r) :
            Append(q, r)[j].from = f <=> j = i
      BY <1>2, <3>1, Appended
    <3>3. QED
      BY <3>2 DEF Once
  <2>3. ASSUME Once(Append(q, r), f) PROVE Once(q, f)
    <3>1. PICK i \in DOMAIN Append(q, r) :
            \A j \in DOMAIN Append(q, r) : Append(q, r)[j].from = f <=> j = i
      BY <2>3 DEF Once
    <3>2. i \in DOMAIN q /\ \A j \in DOMAIN q : q[j].from = f <=> j = i
      BY <1>2, <3>1, Appended
    <3>3. QED
      BY <3>2 DEF Once
  <2>4. QED
    BY <2>1, <2>2, <2>3
<1>3. QED
  BY <1>1, <1>2

LEMMA TakenFrom ==
  ASSUME NEW S, NEW q \in Seq(S), q # << >>
  PROVE  /\ ~Absent(q, Head(q).from)
         /\ Once(q, Head(q).from) => Absent(Tail(q), Head(q).from)
         /\ \A f : f # Head(q).from => /\ Absent(Tail(q), f) <=> Absent(q, f)
                                       /\ Once(Tail(q), f) <=> Once(q, f)
<1>1. ~Absent(q, Head(q).from)
  BY Taken DEF Absent
<1>2. ASSUME Once(q, Head(q).from) PROVE Absent(Tail(q), Head(q).from)
  <2>1. \A j \in DOMAIN q : q[j].from = Head(q).from <=> j = 1
    BY <1>2, Taken DEF Once
  <2>2. \A j \in DOMAIN Tail(q) : j + 1 # 1
    BY Taken
  <2>3. QED
    BY <2>1, <2>2, Taken DEF Absent
<1>3. ASSUME NEW f, f # Head(q).from
      PROVE  /\ Absent(Tail(q), f) <=> Absent(q, f)
             /\ Once(Tail(q), f) <=> Once(q, f)
  <2>0. \A i \in DOMAIN q : i \in Int /\ (i - 1) + 1 = i
    BY Taken
  <2>5. \A i \in DOMAIN q : i # 1 => Tail(q)[i - 1] = q[i]
    BY <2>0, Taken
  <2>1. Absent(Tail(q), f) <=> Absent(q, f)
    BY <1>3, <2>5, Taken DEF Absent
  <2>2. ASSUME Once(q, f) PROVE Once(Tail(q), f)
    <3>1. PICK i \in DOMAIN q : \A j \in DOMAIN q : q[j].from = f <=> j = i
      BY <2>2 DEF Once
    <3>2. i # 1
      BY <1>3, <3>1, Taken
    <3>3. i - 1 \in DOMAIN Tail(q)
      BY <3>2, Taken
    <3>4. i \in Int /\ DOMAIN Tail(q) \subseteq Int
      BY <2>0, Taken
    <3>5. \A j \in DOMAIN Tail(q) : j + 1 = i <=> j = i - 1
      BY <3>4
    <3>6. \A j \in DOMAIN Tail(q) : Tail(q)[j].from = f <=> j = i - 1
      BY <3>1, <3>5, Taken
    <3>7. QED
      BY <3>3, <3>6 DEF Once
  <2>3. ASSUME Once(Tail(q), f) PROVE Once(q, f)
    <3>1. PICK i \in DOMAIN Tail(q) :
            \A j \in DOMAIN Tail(q) : Tail(q)[j].from = f <=> j = i
      BY <2>3 DEF Once
    <3>2. \A j \in DOMAIN q : q[j].from = f <=> j = i + 1
      <4>1. TAKE j \in DOMAIN q
      <4>2. CASE j = 1
        <5>1. i \in Nat /\ i # 0
          BY Taken
        <5>2. QED
          BY <1>3, <4>2, <5>1, Taken
      <4>3. CASE j # 1
        <5>1. j - 1 \in DOMAIN Tail(q) /\ q[j] = Tail(q)[j - 1]
          BY <4>3, <2>5, Taken
        <5>2. i \in Int /\ j \in Int
          BY <2>0, Taken
        <5>3. QED
          BY <3>1, <5>1, <5>2
      <4>4. QED
        BY <4>2, <4>3
    <3>3. QED
      BY <3>2, Taken DEF Once
  <2>4. QED
    BY <2>1, <2>2, <2>3
<1>4. QED
  BY <1>1, <1>2, <1>3

\* A request is sent.
LEMMA Sent ==
  ASSUME NEW q \in Seq(RequestType), NEW p \in Seq(ReplyType), NEW r \in RequestType
  PROVE  /\ NoMessage(q, p, r.from) => Asked(Append(q, r), p, r.from)
         /\ \A f : f # r.from =>
              /\ NoMessage(Append(q, r), p, f) <=> NoMessage(q, p, f)
              /\ Asked(Append(q, r), p, f) <=> Asked(q, p, f)
              /\ Told(Append(q, r), p, f) <=> Told(q, p, f)
  BY AppendedFrom DEF NoMessage, Asked, Told

\* The first request is answered.
LEMMA Served ==
  ASSUME NEW q \in Seq(RequestType), NEW p \in Seq(ReplyType), q # << >>,
         NEW r \in ReplyType, r.from = Head(q).from
  PROVE  /\ ~NoMessage(q, p, r.from) /\ ~Told(q, p, r.from)
         /\ Asked(q, p, r.from) => Told(Tail(q), Append(p, r), r.from)
         /\ \A f : f # r.from =>
              /\ NoMessage(Tail(q), Append(p, r), f) <=> NoMessage(q, p, f)
              /\ Asked(Tail(q), Append(p, r), f) <=> Asked(q, p, f)
              /\ Told(Tail(q), Append(p, r), f) <=> Told(q, p, f)
  BY AppendedFrom, TakenFrom DEF NoMessage, Asked, Told

\* The first reply is received.
LEMMA Received ==
  ASSUME NEW q \in Seq(RequestType), NEW p \in Seq(ReplyType), p # << >>
  PROVE  /\ ~NoMessage(q, p, Head(p).from) /\ ~Asked(q, p, Head(p).from)
         /\ Told(q, p, Head(p).from) => NoMessage(q, Tail(p), Head(p).from)
         /\ \A f : f # Head(p).from =>
              /\ NoMessage(q, Tail(p), f) <=> NoMessage(q, p, f)
              /\ Asked(q, Tail(p), f) <=> Asked(q, p, f)
              /\ Told(q, Tail(p), f) <=> Told(q, p, f)
  BY TakenFrom DEF NoMessage, Asked, Told

\* No sender is in two of the three conditions.
LEMMA Exclusive ==
  ASSUME NEW q, NEW p, NEW f
  PROVE  /\ ~(Asked(q, p, f) /\ Told(q, p, f))
         /\ ~(Asked(q, p, f) /\ NoMessage(q, p, f))
         /\ ~(Told(q, p, f) /\ NoMessage(q, p, f))
<1>1. ~(Absent(q, f) /\ Once(q, f)) /\ ~(Absent(p, f) /\ Once(p, f))
  BY DEF Absent, Once
<1>2. QED
  BY <1>1 DEF NoMessage, Asked, Told

-----------------------------------------------------------------------------
(* Samples and loops.                                                       *)

LEMMA CallNumbers == Calls \subseteq Nat \ {0} /\ None \notin Calls
  BY PageAssumption DEF Calls, None

\* One call at most is under way.
LEMMA OneLive ==
  ASSUME CallsOK, NEW c \in Calls, NEW d \in Calls, Busy(c), Busy(d)
  PROVE  c = d
<1>1. c \in Nat /\ d \in Nat
  BY CallNumbers
<1>2. ~(d < c) /\ ~(c < d)
  BY DEF CallsOK, Busy
<1>3. QED
  BY <1>1, <1>2

LEMMA LastOf ==
  ASSUME NEW q \in Seq(SampleType), q # << >>
  PROVE  Last(q) \in SampleType /\ Last(q) = q[Len(q)] /\ Len(q) \in Nat \ {0}
  BY DEF Last

LEMMA Pushing ==
  ASSUME samples \in Seq(SampleType), NEW sample \in SampleType
  PROVE  /\ Pushed(sample) \in Seq(SampleType) /\ Pushed(sample) # << >>
         /\ Last(Pushed(sample)) = sample
         /\ IF samples # << >> /\ Last(samples) = sample
            THEN Len(Pushed(sample)) = Len(samples)
            ELSE Len(Pushed(sample)) = Len(samples) + 1
<1>1. CASE samples # << >> /\ Last(samples) = sample
  BY <1>1 DEF Pushed
<1>2. CASE ~(samples # << >> /\ Last(samples) = sample)
  BY <1>2, Appended DEF Pushed, Last
<1>3. QED
  BY <1>1, <1>2

\* The least element of a set of natural numbers.
LEMMA LeastNatural ==
  ASSUME NEW S \in SUBSET Nat, S # {}
  PROVE  Min(S) \in S
<1>1. PICK x \in S : \A y \in S : <<y, x>> \notin OpToRel(<, Nat)
  BY NatLessThanWellFounded, WFMin
<1>2. \A y \in S : ~(y < x)
  BY <1>1 DEF OpToRel
<1>3. \A y \in S : x <= y
  BY <1>2
<1>4. QED
  BY <1>3 DEF Min

LastIs(q, p) == p # << >> => Last(p) = Last(q)
NextSample(queued) ==
  /\ client /\ ~closed /\ queued # << >>
  /\ samples' \in Seq(SampleType) /\ Len(samples') < Len(queued)
  /\ LastIs(queued, samples')
  /\ step' = generation
  /\ \E suspended \in BOOLEAN : requests' =
       Append(requests, Request("observe", None, generation, suspended))
  /\ UNCHANGED << calls, teardown >>
NoSample ==
  /\ samples' = << >> /\ step' = None /\ UNCHANGED requests
  /\ Wake("simulation", AfterPresentation)

LEMMA TakingSample ==
  ASSUME NEW queued \in Seq(SampleType), TakeSample(queued)
  PROVE  NextSample(queued) \/ NoSample
<1> DEFINE I == {i \in 1..Len(queued) : queued[i].generation = generation}
           next == IF closed \/ ~client THEN 0 ELSE IF I # {} THEN Min(I) ELSE 0
<1>1. SelectInSeq(queued, LAMBDA s : s.generation = generation) =
        IF I # {} THEN Min(I) ELSE 0
  BY DEF SelectInSeq
<1>2. IF next = 0 THEN NoSample
      ELSE /\ samples' = SubSeq(queued, next + 1, Len(queued))
           /\ step' = generation
           /\ requests' = Append(requests,
                Request("observe", None, generation, queued[next].suspended))
           /\ UNCHANGED << calls, teardown >>
  BY <1>1 DEF TakeSample, NoSample
<1>3. CASE next = 0
  BY <1>2, <1>3
<1>4. CASE next # 0
  <2>1. I \in SUBSET Nat
    OBVIOUS
  <2>2. client /\ ~closed /\ next \in 1..Len(queued)
    BY <1>4, <2>1, LeastNatural
  <2>3. queued[next] \in SampleType
    BY <2>2, ElementOfSeq
  <2>4. queued[next].suspended \in BOOLEAN
    BY <2>3 DEF SampleType
  <2>5. Len(queued) \in Nat /\ queued # << >>
    BY <2>2
  <2> DEFINE rest == SubSeq(queued, next + 1, Len(queued))
  <2>6. /\ rest \in Seq(SampleType)
        /\ Len(rest) = IF next + 1 <= Len(queued) THEN Len(queued) - next ELSE 0
        /\ \A i \in 1..(Len(queued) - next) : rest[i] = queued[next + i]
    <3>1. \A i \in (next + 1)..Len(queued) : queued[i] \in SampleType
      BY <2>2, <2>5, ElementOfSeq
    <3>2. next \in Int /\ next + 1 \in Int /\ Len(queued) \in Int
      BY <2>2, <2>5
    <3> HIDE DEF next
    <3>3. /\ rest \in Seq(SampleType)
          /\ Len(rest) = IF next + 1 <= Len(queued)
                         THEN Len(queued) - (next + 1) + 1 ELSE 0
          /\ \A i \in 1..(Len(queued) - (next + 1) + 1) :
               rest[i] = queued[(next + 1) + i - 1]
      BY <3>1, <3>2, SubSeqProperties
    <3> HIDE DEF rest
    <3>4. \A i \in 1..(Len(queued) - next) : rest[i] = queued[next + i]
      <4>1. TAKE i \in 1..(Len(queued) - next)
      <4>2. i \in 1..(Len(queued) - (next + 1) + 1) /\ (next + 1) + i - 1 = next + i
        BY <3>2
      <4>3. QED
        BY <3>3, <4>2
    <3>5. Len(queued) - (next + 1) + 1 = Len(queued) - next
      BY <3>2
    <3>6. QED
      BY <3>3, <3>4, <3>5
  <2> HIDE DEF rest, next
  <2>7. Len(rest) < Len(queued)
    BY <2>2, <2>5, <2>6
  <2>8. LastIs(queued, rest)
    <3>1. SUFFICES ASSUME rest # << >> PROVE Last(rest) = Last(queued)
      BY DEF LastIs
    <3>2. Len(rest) # 0
      BY <3>1, <2>6, EmptySeq
    <3>3. Len(rest) = Len(queued) - next /\ Len(rest) \in 1..(Len(queued) - next)
      BY <3>2, <2>2, <2>5, <2>6
    <3>4. rest[Len(rest)] = queued[next + Len(rest)] /\ next + Len(rest) = Len(queued)
      BY <3>3, <2>2, <2>5, <2>6
    <3>5. QED
      BY <3>4 DEF Last
  <2>9. samples' = rest /\ step' = generation /\ UNCHANGED << calls, teardown >>
        /\ requests' = Append(requests,
             Request("observe", None, generation, queued[next].suspended))
    BY <1>2, <1>4 DEF rest
  <2>10. QED
    BY <2>2, <2>4, <2>5, <2>6, <2>7, <2>8, <2>9 DEF NextSample
<1>5. QED
  BY <1>3, <1>4

\* Only the halting of the loops has gone on, and who waits for it with it.
Rested ==
  /\ calls' \in [Calls -> CallType]
  /\ \A c \in Calls :
       /\ calls'[c].previous = calls[c].previous
       /\ calls'[c].candidate = calls[c].candidate
       /\ calls'[c].attempts = calls[c].attempts
       /\ calls'[c].outcome = calls[c].outcome
       /\ \/ calls'[c].at = calls[c].at
          \/ calls'[c].at \in Halting /\ calls[c].at \in Halting

LEMMA Waking ==
  ASSUME calls \in [Calls -> CallType], NEW loop \in Halting, NEW next \in Halting,
         Wake(loop, next)
  PROVE  /\ Rested
         /\ teardown' = IF teardown = loop THEN next ELSE teardown
         /\ \A c \in Calls : calls'[c].at = IF calls[c].at = loop THEN next
                                            ELSE calls[c].at
<1>1. next \in Places
  BY DEF Halting, Places
<1>2. ASSUME NEW c \in Calls
      PROVE  /\ calls'[c] = IF calls[c].at = loop THEN [calls[c] EXCEPT !.at = next]
                            ELSE calls[c]
             /\ calls'[c] \in CallType
  BY <1>1, <1>2 DEF Wake, CallType
<1>3. calls' \in [Calls -> CallType]
  BY <1>2 DEF Wake
<1>4. \A c \in Calls : calls[c] \in CallType
  OBVIOUS
<1>5. QED
  BY <1>2, <1>3, <1>4 DEF Rested, Wake, CallType

-----------------------------------------------------------------------------
(* The initial state and the steps that touch the screen only.              *)

LEMMA InitHolds == Init => IInv
<1> SUFFICES ASSUME Init PROVE IInv
  OBVIOUS
<1> USE DEF None
<1>1. 1 \in Generations /\ {1} \subseteq 1..(2 * MaxSwitches + 2)
  BY PageAssumption DEF Generations
<1>2. \A c \in Calls : calls[c] = NoCall
  BY DEF Init
<1>3. SessionTypes /\ ScreenTypes
  <2>1. SessionTypes
    <3>1. /\ client \in BOOLEAN /\ closed \in BOOLEAN
          /\ paused \in BOOLEAN /\ hidden \in BOOLEAN
      BY DEF Init
    <3>2. toggles \in 0..MaxToggles /\ disturbed \in SUBSET {"replacement", "teardown"}
      BY PageAssumption DEF Init
    <3>3. QED
      BY <1>1, <3>1, <3>2 DEF Init, SessionTypes
  <2>2. NoWatch \in Watches
    BY PageAssumption DEF NoWatch, Watches
  <2>3. QED
    BY <2>1, <2>2 DEF Init, ScreenTypes, Causes
<1>4. LoopTypes /\ ShowTypes
  BY <1>1, PageAssumption DEF Init, LoopTypes, ShowTypes, Shots, Publications
<1>5. WorkTypes
  <2>1. NoCall \in CallType
    BY PageAssumption DEF NoCall, CallType, Places, Causes
  <2>2. worker \in Workers
    BY <1>1, PageAssumption DEF Init, Workers
  <2>3. QED
    BY <2>1, <2>2 DEF Init, WorkTypes
<1>6. \A f : NoMessage(requests, replies, f)
  BY DEF Init, NoMessage, Absent
<1>7. MessagesOK
  BY <1>2, <1>6 DEF Init, MessagesOK, MessagesIn, NoCall, Waits
<1>8. CallsOK
  BY <1>2, CallNumbers, PageAssumption
     DEF Init, CallsOK, NoCall, Replaces, Ahead, Adopted, Halting
<1>9. SessionOK /\ WatchOK
  BY DEF Init, SessionOK, WatchOK, NoWatch
<1>10. QueueOK
  BY <1>2, <1>3 DEF Init, QueueOK, NoCall, Ahead, Halting, SessionTypes
<1>11. StillOK /\ QuietOK
  BY <1>2 DEF Init, StillOK, QuietOK, NoCall, Replaces, Ahead, Adopted, Halting,
              Untouched
<1>12. WorkerOK /\ PlacesOK
  BY <1>2 DEF Init, WorkerOK, PlacesOK, NoCall, Swapped, Holds, StagedOnce,
              Ahead, Adopted, Halting, Busy, NoPublication
<1>13. ShownOK
  BY <1>2 DEF Init, ShownOK, TicksOK, Presented, Coming, NoPublication
<1>14. QED
  BY <1>3, <1>4, <1>5, <1>7, <1>8, <1>9, <1>10, <1>11, <1>12, <1>13
     DEF IInv, Types

\* What the player is shown is changed and nothing else.
LEMMA ScreenKeeps ==
  ASSUME IInv, ScreenTypes', WatchOK', phase' \in {phase, "Failed"},
         UNCHANGED << sessionVars, teardown, paused, loopVars, showVars,
                      operation, calls, reserved, requests, replies, worker,
                      userVars >>
  PROVE  IInv'
<1> USE DEF sessionVars, loopVars, showVars, userVars
<1>1. Types'
  BY DEF IInv, Types, SessionTypes, LoopTypes, ShowTypes, WorkTypes
<1>2. MessagesOK' /\ CallsOK'
  BY DEF IInv, MessagesOK, MessagesIn, CallsOK, Replaces
<1>3. SessionOK' /\ QueueOK'
  BY DEF IInv, SessionOK, QueueOK, LastIsCurrent, Sample
<1>4. disturbed' = {} => StillOK'
  BY DEF IInv, StillOK, Replaces
<1>5. teardown' = "none" => WorkerOK'
  BY DEF IInv, WorkerOK, Swapped, MayHold, Holds, StagedOnce, ToldOf, AskedOf
<1>6. teardown' = "none" => PlacesOK'
  BY DEF IInv, PlacesOK, Busy
<1>7. teardown' = "none" => ShownOK'
  BY DEF IInv, ShownOK, TicksOK, Presented, Coming, Abandoned, Unseen, Swapped,
         ToldOf
<1>8. teardown' = "none" /\ disturbed' = {} => QuietOK'
  BY DEF IInv, QuietOK, Untouched, Replaces, ToldOf, AskedOf
<1>9. QED
  BY <1>1, <1>2, <1>3, <1>4, <1>5, <1>6, <1>7, <1>8 DEF IInv

LEMMA ElapseKeeps == ASSUME IInv, Elapse PROVE IInv'
<1>1. watch \in Watches /\ Budget \in Nat
  BY PageAssumption DEF IInv, Types, ScreenTypes
<1>2. watch' \in Watches /\ UNCHANGED << phase, failure >>
  <2>1. watch.since + 1 \in 0..Budget /\ watch.visible + 1 \in Nat
    BY <1>1 DEF Elapse, Watches
  <2>2. QED
    BY <1>1, <2>1 DEF Elapse, Watches
<1>3. ScreenTypes'
  BY <1>2 DEF IInv, Types, ScreenTypes
<1>4. WatchOK'
  BY <1>1 DEF IInv, WatchOK, Elapse, Watches, userVars
<1>5. QED
  BY <1>2, <1>3, <1>4, ScreenKeeps DEF Elapse

LEMMA ExpireKeeps == ASSUME IInv, Expire PROVE IInv'
<1>1. ScreenTypes' /\ WatchOK'
  BY PageAssumption DEF Expire, ScreenTypes, NoWatch, Watches, Causes, WatchOK
<1>2. QED
  BY <1>1, ScreenKeeps DEF Expire

LEMMA ArmedOK ==
  ASSUME hidden \in BOOLEAN
  PROVE  /\ Armed \in Watches
         /\ Armed.state = "running" => ~hidden
         /\ Armed.state = "suspended" => hidden
         /\ Armed.since = 0 /\ Armed.visible + Armed.remaining = Budget + Armed.since
  BY PageAssumption DEF Armed, Watches

LEMMA ProgressKeeps == ASSUME IInv, NEW c \in Calls, Progress(c) PROVE IInv'
<1>1. hidden \in BOOLEAN /\ Budget \in Nat
  BY PageAssumption DEF IInv, Types, SessionTypes
<1>2. ScreenTypes' /\ WatchOK'
  BY <1>1, ArmedOK DEF IInv, Types, ScreenTypes, Progress, WatchOK, userVars
<1>3. QED
  BY <1>2, ScreenKeeps DEF Progress, sessionVars

-----------------------------------------------------------------------------
(* What a step of a loop leaves alone.                                      *)

\* The messages of the calls stay what they are.
SameTalk(q, p, q2, p2) ==
  /\ \A c \in Calls : /\ NoMessage(q2, p2, c) <=> NoMessage(q, p, c)
                      /\ Asked(q2, p2, c) <=> Asked(q, p, c)
                      /\ Told(q2, p2, c) <=> Told(q, p, c)
  /\ \A i \in DOMAIN p2 : p2[i].from # None => \E j \in DOMAIN p : p[j] = p2[i]
  /\ \A j \in DOMAIN p : p[j].from # None => \E i \in DOMAIN p2 : p2[i] = p[j]

LEMMA StepAsked ==
  ASSUME NEW q \in Seq(RequestType), NEW p \in Seq(ReplyType), NEW k,
         MessagesIn(q, p, None, k), NEW g \in Generations, g # None,
         NEW suspended \in BOOLEAN
  PROVE  LET q2 == Append(q, Request("observe", None, g, suspended))
         IN  q2 \in Seq(RequestType) /\ MessagesIn(q2, p, g, k) /\ SameTalk(q, p, q2, p)
<1> DEFINE r == Request("observe", None, g, suspended)
           q2 == Append(q, r)
<1>1. r \in RequestType /\ r.from = None /\ r.kind = "observe" /\ r.generation = g
  BY DEF Request, RequestType
<1> HIDE DEF r
<1>2. Asked(q2, p, None)
  BY <1>1, Sent DEF MessagesIn
<1>3. \A c \in Calls : c # None
  BY CallNumbers
<1>4. SameTalk(q, p, q2, p)
  BY <1>1, <1>3, Sent DEF SameTalk
<1>5. \A i \in DOMAIN q2 : q2[i] = r \/ (i \in DOMAIN q /\ q2[i] = q[i])
  BY <1>1, Appended
<1>6. \A i \in DOMAIN q : q[i].from # None
  BY DEF MessagesIn, NoMessage, Absent
<1>7. \A c \in Calls :
        /\ k[c].at \in Waits => Asked(q2, p, c) \/ Told(q2, p, c)
        /\ k[c].at \notin Waits => NoMessage(q2, p, c)
  BY <1>4 DEF MessagesIn, SameTalk
<1>8. \A i \in DOMAIN q2 :
        /\ q2[i].from = None => q2[i].kind = "observe" /\ q2[i].generation = g
        /\ q2[i].from # None => /\ q2[i].kind = Asks[k[q2[i].from].at]
                                /\ q2[i].generation = k[q2[i].from].candidate
  BY <1>1, <1>5, <1>6 DEF MessagesIn
<1>9. MessagesIn(q2, p, g, k)
  BY <1>2, <1>7, <1>8 DEF MessagesIn
<1>10. q2 \in Seq(RequestType)
  BY <1>1, Appended
<1>11. QED
  BY <1>4, <1>9, <1>10 DEF r

LEMMA StepHeard ==
  ASSUME NEW q \in Seq(RequestType), NEW p \in Seq(ReplyType), NEW k, NEW s,
         MessagesIn(q, p, s, k), p # << >>, Head(p).from = None
  PROVE  /\ s # None /\ Told(q, p, None) /\ Head(p) \in ReplyType
         /\ Tail(p) \in Seq(ReplyType)
         /\ MessagesIn(q, Tail(p), None, k) /\ SameTalk(q, p, q, Tail(p))
<1>1. s # None /\ Told(q, p, None)
  BY Received DEF MessagesIn
<1>2. NoMessage(q, Tail(p), None)
  BY <1>1, Received
<1>3. \A i \in DOMAIN q : q[i].from # None
  BY <1>2 DEF NoMessage, Absent
<1>4. \A c \in Calls : c # None
  BY CallNumbers
<1>5. SameTalk(q, p, q, Tail(p))
  <2>1. \A j \in DOMAIN p : p[j].from # None => j # 1
    BY Taken
  <2>2. \A j \in DOMAIN p : j # 1 => j - 1 \in DOMAIN Tail(p) /\ j \in Nat
    BY Taken
  <2>3. \A j \in DOMAIN p : j # 1 => Tail(p)[j - 1] = p[j]
    BY <2>2, Taken
  <2>4. QED
    BY <1>4, <2>1, <2>2, <2>3, Received, Taken DEF SameTalk
<1>6. \A c \in Calls :
        /\ k[c].at \in Waits => Asked(q, Tail(p), c) \/ Told(q, Tail(p), c)
        /\ k[c].at \notin Waits => NoMessage(q, Tail(p), c)
  BY <1>5 DEF MessagesIn, SameTalk
<1>7. \A i \in DOMAIN Tail(p) : Tail(p)[i].error # "none" => Tail(p)[i].tick = 0
  BY Taken DEF MessagesIn
<1>8. MessagesIn(q, Tail(p), None, k)
  BY <1>2, <1>3, <1>6, <1>7 DEF MessagesIn
<1>9. QED
  BY <1>1, <1>5, <1>8, Taken

\* Calls that rest have their messages.
LEMMA RestedMessages ==
  ASSUME NEW q, NEW p, NEW s, Rested, calls \in [Calls -> CallType],
         MessagesIn(q, p, s, calls), q \in Seq(RequestType)
  PROVE  MessagesIn(q, p, s, calls')
<1>1. \A c \in Calls : calls'[c].at \in Waits <=> calls[c].at \in Waits
  BY DEF Rested, Waits, Halting
<1>2. \A c \in Calls : calls[c].at \in Waits => calls'[c].at = calls[c].at
  BY DEF Rested, Waits, Halting
<1>3. \A i \in DOMAIN q : q[i].from # None =>
        q[i].from \in Calls /\ calls[q[i].from].at \in Waits
  <2>1. \A i \in DOMAIN q : q[i].from \in Calls \cup {None}
    <3>1. \A i \in DOMAIN q : q[i] \in RequestType
      BY Elements
    <3>2. QED
      BY <3>1 DEF RequestType
  <2>2. \A c \in Calls : NoMessage(q, p, c) => \A i \in DOMAIN q : q[i].from # c
    BY DEF NoMessage, Absent
  <2>3. QED
    BY <2>1, <2>2 DEF MessagesIn
<1>4. QED
  BY <1>1, <1>2, <1>3 DEF MessagesIn, Rested

LEMMA RestedCalls ==
  ASSUME CallsOK, Rested, UNCHANGED << generation, reserved, operation >>
  PROVE  /\ CallsOK'
         /\ \A c \in Calls : /\ Replaces(c)' <=> Replaces(c)
                             /\ Busy(c)' <=> Busy(c)
                             /\ calls'[c].at \in Ahead <=> calls[c].at \in Ahead
                             /\ calls[c].at \notin Halting =>
                                  calls'[c].at = calls[c].at
                             /\ calls'[c].at \notin Halting =>
                                  calls'[c].at = calls[c].at
<1>1. \A c \in Calls : /\ Replaces(c)' <=> Replaces(c)
                       /\ Busy(c)' <=> Busy(c)
                       /\ calls'[c].at \in Ahead <=> calls[c].at \in Ahead
                       /\ calls[c].at \notin Halting => calls'[c].at = calls[c].at
                       /\ calls'[c].at \notin Halting => calls'[c].at = calls[c].at
  BY DEF Rested, Replaces, Busy, Ahead, Halting
<1>2. \A c \in Calls : \A w \in {"unused", "queued", "done", "acquiring", "discarding"} :
         calls'[c].at = w <=> calls[c].at = w
  BY DEF Rested, Halting
<1>3. CallsOK'
  BY <1>1, <1>2 DEF CallsOK, Rested
<1>4. QED
  BY <1>1, <1>3

LEMMA RestedWorker ==
  ASSUME WorkerOK, Rested, SameTalk(requests, replies, requests', replies'),
         replies \in Seq(ReplyType), UNCHANGED generation,
         worker'.active = worker.active, worker'.staged = worker.staged
  PROVE  /\ WorkerOK'
         /\ \A c \in Calls : /\ Swapped(c)' <=> Swapped(c)
                             /\ Untouched(c)' <=> Untouched(c)
<1>1. \A c \in Calls :
        /\ ToldOf(c)' <=> ToldOf(c)
        /\ AskedOf(c)' <=> AskedOf(c)
  BY DEF SameTalk, ToldOf, AskedOf
<1>2. \A c \in Calls : \A w \in {"releasing", "activating", "staging", "loading",
                                 "discarding", "baseline", "observing"} :
         calls'[c].at = w <=> calls[c].at = w
  BY DEF Rested, Halting
<1>3. \A c \in Calls : /\ Swapped(c)' <=> Swapped(c)
                       /\ Untouched(c)' <=> Untouched(c)
  BY <1>1, <1>2 DEF Swapped, Untouched
<1>4. \A c \in Calls : StagedOnce(c)' <=> StagedOnce(c)
  BY <1>1, <1>2, CallNumbers DEF StagedOnce, SameTalk
<1>5. \A c \in Calls : /\ Holds(c)' <=> Holds(c)
                       /\ MayHold(c)' <=> MayHold(c)
  BY <1>1, <1>2, <1>4 DEF Holds, MayHold
<1>6. ASSUME NEW i \in DOMAIN replies', replies'[i].from # None
      PROVE  /\ replies'[i].error # "stale"
             /\ calls'[replies'[i].from].at = "activating" =>
                  replies'[i].error = "none"
  <2>1. PICK j \in DOMAIN replies : replies[j] = replies'[i]
    BY <1>6 DEF SameTalk
  <2>2. replies[j] \in ReplyType
    BY Elements
  <2>3. replies[j].from \in Calls
    BY <1>6, <2>1, <2>2 DEF ReplyType
  <2>4. QED
    BY <1>2, <1>6, <2>1, <2>3 DEF WorkerOK
<1>7. WorkerOK'
  BY <1>3, <1>5, <1>6 DEF WorkerOK, Rested
<1>8. QED
  BY <1>3, <1>7

\* A step of a loop, but for what it does to the loop's own state.
LEMMA LoopKeeps ==
  ASSUME IInv, Rested, SameTalk(requests, replies, requests', replies'),
         UNCHANGED << generation, client, closed, operation, reserved, worker >>,
         Types', MessagesIn(requests', replies', step', calls), WatchOK', QueueOK',
         disturbed' = {} => StillOK', phase' \in {phase, "Failed"},
         teardown' = teardown \/ {teardown, teardown'} \subseteq Halting,
         teardown' = "gone" => step' = None,
         teardown = "none" => /\ "teardown" \notin disturbed'
                              /\ pending'.generation \in {None, generation}
                              /\ ShownOK'
                              /\ disturbed' = {} => QuietOK'
  PROVE  IInv'
<1>1. MessagesOK'
  BY RestedMessages DEF IInv, Types, WorkTypes, MessagesOK
<1>2. CallsOK'
  BY RestedCalls DEF IInv
<1>3. teardown' = "none" <=> teardown = "none"
  BY DEF Halting
<1>4. teardown' = "gone" <=> teardown = "gone"
  BY DEF Halting
<1>5. SessionOK'
  BY <1>3, <1>4 DEF IInv, SessionOK
<1>6. teardown' = "none" => WorkerOK'
  BY <1>3, RestedWorker DEF IInv, Types, WorkTypes
<1>7. teardown' = "none" => PlacesOK'
  <2>1. ASSUME NEW c \in Calls
        PROVE  /\ calls'[c].at \in Ahead \cup {"discarding"} <=>
                    calls[c].at \in Ahead \cup {"discarding"}
               /\ calls'[c].at \in Adopted \cup {"selecting"} <=>
                    calls[c].at \in Adopted \cup {"selecting"}
               /\ calls'[c].at = "selecting" <=> calls[c].at = "selecting"
               /\ calls'[c].at \in Ahead \cup {"acquiring", "discarding"} <=>
                    calls[c].at \in Ahead \cup {"acquiring", "discarding"}
    BY DEF Rested, Ahead, Adopted, Halting
  <2>2. \A c \in Calls : Busy(c)' <=> Busy(c)
    BY RestedCalls DEF IInv
  <2>3. QED
    BY <1>3, <2>1, <2>2 DEF IInv, PlacesOK, Rested
<1>8. QED
  BY <1>1, <1>2, <1>3, <1>5, <1>6, <1>7 DEF IInv

-----------------------------------------------------------------------------
(* Samples are scheduled: frames, and the page hidden or shown.             *)

LEMMA RestedShown ==
  ASSUME ShownOK, Rested, \A c \in Calls : Swapped(c)' <=> Swapped(c),
         UNCHANGED << generation, snapshot, pending, replies, worker >>,
         disturbed' = {} => disturbed = {}
  PROVE  ShownOK'
<1>1. Abandoned' <=> Abandoned
  BY DEF Abandoned, Rested
<1>2. Unseen' <=> Unseen
  BY DEF Unseen, Rested, Halting
<1>3. TicksOK => TicksOK'
  BY DEF TicksOK, Presented, Coming
<1>4. QED
  BY <1>1, <1>2, <1>3 DEF ShownOK

\* What TakeSample does, with a sample or without.
LEMMA TakenKeeps ==
  ASSUME Types, SessionOK, NEW queued \in Seq(SampleType), Len(queued) <= MaxTransitions,
         TakeSample(queued),
         MessagesIn(requests, replies', None, calls), replies' \in Seq(ReplyType)
  PROVE  /\ Rested /\ LoopTypes' /\ requests' \in Seq(RequestType)
         /\ step' \in {None, generation}
         /\ samples' = << >> \/ Len(samples') < Len(queued)
         /\ queued # << >> => Len(samples') < Len(queued)
         /\ queued = << >> => samples' = << >> /\ step' = None
         /\ teardown' = teardown \/ {teardown, teardown'} \subseteq Halting
         /\ MessagesIn(requests', replies', step', calls)
         /\ SameTalk(requests, replies', requests', replies')
         /\ \A c \in Calls : calls'[c].at \in {"presentation", "presented"} =>
              \/ calls'[c].at = calls[c].at /\ step' = generation
              \/ /\ step' = None
                 /\ \/ calls'[c].at = calls[c].at
                    \/ calls[c].at = "simulation" /\ calls'[c].at = AfterPresentation
<1>1. /\ calls \in [Calls -> CallType] /\ generation \in Generations
      /\ generation # None /\ Len(queued) \in Nat
      /\ requests \in Seq(RequestType)
  BY DEF Types, WorkTypes, SessionTypes, Generations, None
<1>2. CASE NextSample(queued)
  <2>1. PICK suspended \in BOOLEAN : requests' =
          Append(requests, Request("observe", None, generation, suspended))
    BY <1>2 DEF NextSample
  <2>2. /\ requests' \in Seq(RequestType)
        /\ MessagesIn(requests', replies', generation, calls)
        /\ SameTalk(requests, replies', requests', replies')
    BY <1>1, <2>1, StepAsked
  <2>3. Rested
    BY <1>1, <1>2 DEF NextSample, Rested
  <2>4. LoopTypes'
    <3>1. samples' \in Seq(SampleType) /\ Len(samples') < Len(queued)
      BY <1>2 DEF NextSample
    <3>2. Len(samples') <= MaxTransitions
      BY <1>1, <3>1, PageAssumption
    <3>3. QED
      BY <1>1, <1>2, <3>1, <3>2 DEF NextSample, LoopTypes
  <2>5. QED
    BY <1>2, <2>2, <2>3, <2>4 DEF NextSample
<1>3. CASE NoSample
  <2>1. AfterPresentation \in Halting /\ "simulation" \in Halting
    BY DEF AfterPresentation, Halting
  <2>2. Wake("simulation", AfterPresentation)
    BY <1>3 DEF NoSample
  <2> HIDE DEF AfterPresentation
  <2>3. /\ Rested
        /\ teardown' = IF teardown = "simulation" THEN AfterPresentation ELSE teardown
        /\ \A c \in Calls : calls'[c].at = IF calls[c].at = "simulation"
                                           THEN AfterPresentation ELSE calls[c].at
    BY <1>1, <2>1, <2>2, Waking
  <2>4. LoopTypes'
    BY <1>3, PageAssumption DEF NoSample, LoopTypes
  <2>5. SameTalk(requests, replies', requests', replies')
    BY <1>3 DEF NoSample, SameTalk
  <2>6. Len(<< >>) = 0 /\ (queued # << >> => Len(queued) > 0)
    OBVIOUS
  <2>7. requests' \in Seq(RequestType) /\ MessagesIn(requests', replies', None, calls)
    BY <1>1, <1>3 DEF NoSample
  <2>8. QED
    BY <1>3, <2>1, <2>3, <2>4, <2>5, <2>6, <2>7 DEF NoSample
<1>4. QED
  BY <1>2, <1>3, TakingSample

\* The queue of samples loses some.
LEMMA QueueShrinks ==
  ASSUME QueueOK, Types, CallsOK, Rested,
         UNCHANGED << generation, reserved, operation, hidden, toggles >>,
         paused' = paused \/ paused' = TRUE, samples' \in Seq(SampleType),
         samples' = samples \/ Len(samples') < Len(samples)
  PROVE  QueueOK'
<1>1. Len(samples) \in Nat /\ Len(samples') \in Nat /\ toggles \in Nat
  BY DEF Types, LoopTypes, SessionTypes
<1>2. \A c \in Calls : calls'[c].at \in Ahead <=> calls[c].at \in Ahead
  BY RestedCalls
<1>3. CASE samples' = samples
  BY <1>1, <1>2, <1>3 DEF QueueOK, LastIsCurrent, Sample
<1>4. CASE Len(samples') < Len(samples)
  BY <1>1, <1>2, <1>4 DEF QueueOK
<1>5. QED
  BY <1>3, <1>4

\* What a frame, or the page hidden or shown, does to the loop.
LEMMA Scheduling ==
  ASSUME IInv, client, NEW gate \in BOOLEAN, NEW watched \in Watches,
         NEW h \in BOOLEAN, Schedule(Sample(h), gate, watched),
         UNCHANGED << generation, reserved, operation, replies >>,
         hidden' = h, toggles' \in Nat,
         \/ toggles' = toggles /\ h = hidden /\ ~paused /\ ~gate
         \/ toggles' = toggles + 1
  PROVE  /\ Rested /\ LoopTypes' /\ requests' \in Seq(RequestType)
         /\ ScreenTypes' /\ paused' \in BOOLEAN
         /\ step' \in {step, None, generation} /\ phase' \in {phase, "Failed"}
         /\ watch' \in {watched, NoWatch}
         /\ teardown' = teardown \/ {teardown, teardown'} \subseteq Halting
         /\ MessagesIn(requests', replies', step', calls)
         /\ SameTalk(requests, replies, requests', replies')
         /\ QueueOK'
<1>1. /\ samples \in Seq(SampleType) /\ Len(samples) \in Nat /\ toggles \in Nat
      /\ generation \in Generations /\ calls \in [Calls -> CallType]
      /\ requests \in Seq(RequestType) /\ replies \in Seq(ReplyType)
      /\ step \in Generations \cup {None}
  BY DEF IInv, Types, LoopTypes, SessionTypes, WorkTypes
<1>2. Sample(h) \in SampleType
  BY <1>1 DEF Sample, SampleType
<1> DEFINE P == Pushed(Sample(h))
<1>3. /\ P \in Seq(SampleType) /\ P # << >> /\ Last(P) = Sample(h)
      /\ Len(P) \in Nat \ {0}
      /\ IF samples # << >> /\ Last(samples) = Sample(h)
         THEN Len(P) = Len(samples) ELSE Len(P) = Len(samples) + 1
  BY <1>1, <1>2, Pushing, EmptySeq
<1> HIDE DEF P
<1>4. Sample(hidden)' = Sample(h)
  BY DEF Sample
<1>5. Len(P) <= toggles' + 1
  BY <1>1, <1>3 DEF IInv, QueueOK, LastIsCurrent
<1>6. ASSUME NEW c \in Calls, calls[c].at \in Ahead PROVE Len(P) <= toggles'
  BY <1>1, <1>3, <1>6 DEF IInv, QueueOK, LastIsCurrent
<1>7. MessagesIn(requests, replies, step, calls)
  BY DEF IInv, MessagesOK
<1>8. CASE Len(P) > MaxTransitions
  <2>1. /\ samples' = << >> /\ Fail("overflow")
        /\ UNCHANGED << step, requests, calls, teardown >>
    BY <1>8 DEF Schedule, P
  <2>2. Rested
    BY <1>1, <2>1 DEF Rested
  <2>3. QueueOK'
    <3>1. Len(samples') <= toggles' /\ paused'
      BY <1>1, <2>1 DEF Fail
    <3>2. QED
      BY <3>1 DEF QueueOK
  <2>4. NoWatch \in Watches
    BY PageAssumption DEF NoWatch, Watches
  <2>5. ScreenTypes' /\ paused' \in BOOLEAN /\ LoopTypes'
    BY <1>1, <2>1, <2>4, PageAssumption DEF ScreenTypes, Fail, Causes, LoopTypes
  <2>6. SameTalk(requests, replies, requests', replies')
    BY <2>1 DEF SameTalk
  <2>7. QED
    BY <1>1, <1>7, <2>1, <2>2, <2>3, <2>5, <2>6 DEF Fail
<1>9. CASE ~(Len(P) > MaxTransitions)
  <2>1. /\ paused' = gate /\ watch' = watched /\ UNCHANGED << phase, failure >>
        /\ IF Idle THEN TakeSample(P)
           ELSE samples' = P /\ UNCHANGED << step, requests, calls, teardown >>
    BY <1>9 DEF Schedule, P
  <2>2. ScreenTypes' /\ paused' \in BOOLEAN
    BY <2>1 DEF IInv, Types, ScreenTypes
  <2>3. Len(P) <= MaxTransitions
    BY <1>3, <1>9, PageAssumption
  <2>4. CASE Idle
    <3>1. /\ Rested /\ LoopTypes' /\ requests' \in Seq(RequestType)
          /\ step' \in {None, generation} /\ Len(samples') < Len(P)
          /\ teardown' = teardown \/ {teardown, teardown'} \subseteq Halting
          /\ MessagesIn(requests', replies', step', calls)
          /\ SameTalk(requests, replies', requests', replies')
      BY <1>1, <1>3, <1>7, <2>1, <2>3, <2>4, TakenKeeps DEF IInv, Idle
    <3>2. Len(samples') \in Nat
      BY <3>1 DEF LoopTypes
    <3>3. \A c \in Calls : calls'[c].at \in Ahead <=> calls[c].at \in Ahead
      BY <3>1, RestedCalls DEF IInv
    <3>4. QueueOK'
      BY <1>3, <1>5, <1>6, <3>1, <3>2, <3>3 DEF QueueOK
    <3>5. QED
      BY <2>1, <2>2, <3>1, <3>4
  <2>5. CASE ~Idle
    <3>1. samples' = P /\ UNCHANGED << step, requests, calls, teardown >>
      BY <2>1, <2>5
    <3>2. Rested /\ LoopTypes'
      BY <1>1, <1>3, <2>3, <3>1 DEF Rested, LoopTypes
    <3>3. LastIsCurrent'
      BY <1>3, <1>4, <3>1 DEF LastIsCurrent
    <3>4. QueueOK'
      BY <1>5, <1>6, <3>1, <3>3 DEF QueueOK
    <3>5. SameTalk(requests, replies, requests', replies')
      BY <3>1 DEF SameTalk
    <3>6. QED
      BY <1>1, <1>7, <2>1, <2>2, <3>1, <3>2, <3>4, <3>5
  <2>6. QED
    BY <2>4, <2>5
<1>10. QED
  BY <1>8, <1>9

LEMMA FrameKeeps == ASSUME IInv, Frame PROVE IInv'
<1>1. /\ ~hidden /\ ~paused /\ client /\ Schedule(Sample(FALSE), paused, watch)
      /\ UNCHANGED << sessionVars, showVars, operation, reserved, replies, worker,
                      userVars >>
  BY DEF Frame
<1>2. /\ hidden \in BOOLEAN /\ paused \in BOOLEAN /\ watch \in Watches
      /\ toggles \in Nat /\ replies \in Seq(ReplyType)
  BY DEF IInv, Types, SessionTypes, ScreenTypes, WorkTypes
<1>3. hidden' = FALSE /\ hidden = FALSE /\ toggles' = toggles /\ toggles' \in Nat
  BY <1>1, <1>2 DEF userVars
<1>4. UNCHANGED << generation, reserved, operation, replies >>
  BY <1>1 DEF sessionVars
<1>5. /\ Rested /\ LoopTypes' /\ requests' \in Seq(RequestType)
      /\ ScreenTypes' /\ paused' \in BOOLEAN
      /\ step' \in {step, None, generation} /\ phase' \in {phase, "Failed"}
      /\ watch' \in {watch, NoWatch}
      /\ teardown' = teardown \/ {teardown, teardown'} \subseteq Halting
      /\ MessagesIn(requests', replies', step', calls)
      /\ SameTalk(requests, replies, requests', replies')
      /\ QueueOK'
  BY <1>1, <1>2, <1>3, <1>4, Scheduling
<1>6. Types'
  BY <1>1, <1>5 DEF IInv, Types, SessionTypes, ShowTypes, WorkTypes, sessionVars,
                    showVars, userVars, Halting, Rested
<1>7. WatchOK'
  BY <1>1, <1>3, <1>5 DEF IInv, WatchOK, NoWatch
<1>8. teardown # "gone" /\ (teardown' = "gone" <=> teardown = "gone")
  BY <1>1, <1>5 DEF IInv, SessionOK, Halting
<1>9. ASSUME disturbed = {}
      PROVE  teardown = "none" /\ \A c \in Calls : ~Replaces(c)
  BY <1>1, <1>8, <1>9 DEF IInv, StillOK
<1>10. \A c \in Calls : Replaces(c)' <=> Replaces(c)
  BY <1>1, <1>5, RestedCalls DEF IInv, sessionVars
<1>11. disturbed' = disturbed /\ (teardown' = "none" <=> teardown = "none")
  BY <1>1, <1>5 DEF userVars, Halting
<1>12. disturbed' = {} => StillOK'
  BY <1>9, <1>10, <1>11 DEF StillOK
<1>13. ASSUME teardown = "none" PROVE ShownOK'
  <2>1. \A c \in Calls : Swapped(c)' <=> Swapped(c)
    BY <1>1, <1>2, <1>5, <1>13, RestedWorker DEF IInv, sessionVars
  <2>2. QED
    BY <1>1, <1>5, <1>13, <2>1, RestedShown DEF IInv, sessionVars, showVars, userVars
<1>14. ASSUME teardown = "none", disturbed = {} PROVE QuietOK'
  <2>1. QuietOK
    BY <1>14 DEF IInv
  <2>2. ASSUME NEW c \in Calls
        PROVE  ~Replaces(c)' /\ ~Untouched(c)' /\ calls'[c].at # "observing"
    BY <1>9, <1>10, <1>14 DEF Replaces, Untouched, Adopted, Ahead
  <2>3. \A i \in DOMAIN replies : replies[i].from # None => replies[i].from \in Calls
    <3>1. \A i \in DOMAIN replies : replies[i] \in ReplyType
      BY <1>2, Elements
    <3>2. QED
      BY <3>1 DEF ReplyType
  <2>4. step' # None => step' = generation'
    BY <1>1, <1>5, <2>1 DEF QuietOK, sessionVars
  <2>5. QED
    BY <1>1, <2>1, <2>2, <2>3, <2>4 DEF QuietOK, sessionVars, showVars
<1>15. teardown = "none" => /\ "teardown" \notin disturbed'
                            /\ pending'.generation \in {None, generation}
  BY <1>1 DEF IInv, SessionOK, PlacesOK, userVars, showVars
<1>16. QED
  BY <1>1, <1>5, <1>6, <1>7, <1>8, <1>11, <1>12, <1>13, <1>14, <1>15, LoopKeeps
     DEF sessionVars

LEMMA WatchedOK ==
  ASSUME WatchOK, watch \in Watches, NEW h \in BOOLEAN, h # hidden
  PROVE  /\ Watched(h) \in Watches
         /\ Watched(h).state = "running" => ~h
         /\ Watched(h).state = "suspended" => h /\ Watched(h).since = 0
         /\ Watched(h).state # "idle" =>
              Watched(h).visible + Watched(h).remaining >= Budget + Watched(h).since
<1>1. CASE watch.state = "running" /\ h
  <2>1. Watched(h) = [watch EXCEPT !.state = "suspended", !.since = 0,
            !.remaining = IF @ > watch.since THEN @ - watch.since ELSE 0]
    BY <1>1 DEF Watched
  <2>2. watch.visible + watch.remaining >= Budget + watch.since
    BY <1>1 DEF WatchOK
  <2>3. /\ watch.remaining \in Nat /\ watch.since \in Nat /\ watch.visible \in Nat
        /\ Budget \in Nat /\ watch.remaining <= Budget
    BY PageAssumption DEF Watches
  <2> DEFINE left == IF watch.remaining > watch.since
                     THEN watch.remaining - watch.since ELSE 0
  <2>4. left \in 0..Budget /\ watch.visible + left >= Budget
    BY <2>2, <2>3
  <2>5. Watched(h) = [watch EXCEPT !.state = "suspended", !.since = 0,
                                   !.remaining = left]
    BY <2>1
  <2> HIDE DEF left
  <2>6. Watched(h) = [state |-> "suspended", since |-> 0, remaining |-> left,
                      visible |-> watch.visible]
    BY <2>5 DEF Watches
  <2>7. Watched(h) \in Watches
    BY <2>3, <2>4, <2>6 DEF Watches
  <2>8. /\ Watched(h).state = "suspended" /\ Watched(h).since = 0
        /\ Watched(h).visible + Watched(h).remaining >= Budget + Watched(h).since
    BY <2>3, <2>4, <2>6
  <2>9. QED
    BY <1>1, <2>7, <2>8
<1>2. CASE watch.state = "suspended" /\ ~h
  <2>1. Watched(h) = [watch EXCEPT !.state = "running", !.since = 0]
    BY <1>2 DEF Watched
  <2>2. Watched(h) = [state |-> "running", since |-> 0, remaining |-> watch.remaining,
                      visible |-> watch.visible]
    BY <2>1 DEF Watches
  <2>3. QED
    BY <1>2, <2>2, PageAssumption DEF WatchOK, Watches
<1>3. CASE ~(watch.state = "running" /\ h) /\ ~(watch.state = "suspended" /\ ~h)
  <2>1. Watched(h) = watch
    BY <1>3 DEF Watched
  <2>2. QED
    BY <1>3, <2>1 DEF WatchOK
<1>4. QED
  BY <1>1, <1>2, <1>3

LEMMA VisibilityKeeps == ASSUME IInv, Visibility PROVE IInv'
<1>1. /\ toggles < MaxToggles /\ toggles' = toggles + 1 /\ hidden' = ~hidden
      /\ UNCHANGED << sessionVars, showVars, operation, reserved, replies, worker >>
      /\ IF client THEN Schedule(Sample(hidden'), hidden', Watched(hidden'))
         ELSE /\ paused' = hidden' /\ watch' = Watched(hidden')
              /\ UNCHANGED << phase, failure, loopVars, requests, calls, teardown >>
  BY DEF Visibility
<1>2. /\ hidden \in BOOLEAN /\ hidden' \in BOOLEAN /\ hidden' # hidden
      /\ watch \in Watches /\ toggles \in Nat /\ toggles' \in 0..MaxToggles
      /\ replies \in Seq(ReplyType) /\ calls \in [Calls -> CallType]
  BY <1>1, PageAssumption DEF IInv, Types, SessionTypes, ScreenTypes, WorkTypes
<1>3. /\ disturbed \subseteq disturbed' /\ disturbed' \subseteq {"replacement", "teardown"}
      /\ (\E c \in Calls : Busy(c)) => "replacement" \in disturbed'
      /\ teardown \notin {"none", "gone"} => "teardown" \in disturbed'
      /\ teardown = "none" /\ "teardown" \notin disturbed => "teardown" \notin disturbed'
  BY DEF Visibility, Busy, IInv, Types, SessionTypes
<1>4. /\ Watched(hidden') \in Watches
      /\ Watched(hidden').state = "running" => ~hidden'
      /\ Watched(hidden').state = "suspended" => hidden' /\ Watched(hidden').since = 0
      /\ Watched(hidden').state # "idle" => Watched(hidden').visible
            + Watched(hidden').remaining >= Budget + Watched(hidden').since
  BY <1>2, WatchedOK DEF IInv
<1>5. /\ Rested /\ LoopTypes' /\ requests' \in Seq(RequestType)
      /\ ScreenTypes' /\ paused' \in BOOLEAN
      /\ step' \in {step, None, generation} /\ phase' \in {phase, "Failed"}
      /\ watch' \in {Watched(hidden'), NoWatch}
      /\ teardown' = teardown \/ {teardown, teardown'} \subseteq Halting
      /\ MessagesIn(requests', replies', step', calls)
      /\ SameTalk(requests, replies, requests', replies')
      /\ QueueOK'
      /\ ~client => step' = step
  <2>1. CASE client
    <3>1. UNCHANGED << generation, reserved, operation, replies >>
      BY <1>1 DEF sessionVars
    <3>2. toggles' \in Nat /\ Schedule(Sample(hidden'), hidden', Watched(hidden'))
      BY <1>1, <1>2, <2>1
    <3>3. QED
      BY <1>1, <1>2, <1>4, <2>1, <3>1, <3>2, Scheduling
  <2>2. CASE ~client
    <3>1. /\ paused' = hidden' /\ watch' = Watched(hidden')
          /\ UNCHANGED << phase, failure, samples, step, requests, calls, teardown >>
      BY <1>1, <2>2 DEF loopVars
    <3>2. /\ Rested /\ LoopTypes' /\ requests' \in Seq(RequestType)
          /\ ScreenTypes' /\ paused' \in BOOLEAN
      BY <1>2, <1>4, <3>1
         DEF IInv, Types, LoopTypes, WorkTypes, ScreenTypes, Rested
    <3>3. /\ MessagesIn(requests', replies', step', calls)
          /\ SameTalk(requests, replies, requests', replies')
      BY <1>1, <3>1 DEF IInv, MessagesOK, SameTalk
    <3>4. Len(samples) \in Nat
      BY DEF IInv, Types, LoopTypes
    <3>5. QueueOK'
      <4>1. Len(samples) <= toggles'
        BY <1>1, <1>2, <3>4 DEF IInv, QueueOK
      <4>2. \A c \in Calls : calls[c].at \in Ahead => Len(samples) < toggles'
        BY <1>1, <1>2, <3>4 DEF IInv, QueueOK
      <4>3. QED
        BY <3>1, <4>1, <4>2, <1>2, <3>4 DEF QueueOK
    <3>6. QED
      BY <3>1, <3>2, <3>3, <3>5
  <2>3. QED
    BY <2>1, <2>2
<1>6. Types'
  BY <1>1, <1>2, <1>3, <1>5 DEF IInv, Types, SessionTypes, ShowTypes, WorkTypes,
        sessionVars, showVars, Halting, Rested
<1>7. WatchOK'
  BY <1>4, <1>5 DEF WatchOK, NoWatch
<1>8. teardown' \in {"none", "gone"} \/ teardown \in {"none", "gone"} => teardown' = teardown
  BY <1>5 DEF Halting
<1>9. \A c \in Calls : /\ Replaces(c)' <=> Replaces(c)
                       /\ Busy(c)' <=> Busy(c)
  BY <1>1, <1>5, RestedCalls DEF IInv, sessionVars
<1>10. ASSUME disturbed' = {}
       PROVE  /\ disturbed = {} /\ teardown' \in {"none", "gone"}
              /\ \A c \in Calls : ~Busy(c)' /\ ~Replaces(c)'
  <2>1. disturbed = {} /\ teardown \in {"none", "gone"} /\ \A c \in Calls : ~Busy(c)
    BY <1>3, <1>10
  <2>2. \A c \in Calls : Replaces(c) => Busy(c)
    BY DEF Replaces, Busy, Ahead, Adopted, Halting
  <2>3. QED
    BY <1>8, <1>9, <2>1, <2>2
<1>11. disturbed' = {} => StillOK'
  BY <1>10 DEF StillOK
<1>12. teardown' = "gone" => step' = None
  <2>1. ASSUME teardown' = "gone" PROVE step' = None
    <3>1. teardown = "gone"
      BY <1>5, <2>1 DEF Halting
    <3>2. ~client /\ step = None
      BY <3>1 DEF IInv, SessionOK
    <3>3. QED
      BY <1>5, <3>2
  <2>2. QED
    BY <2>1
<1>13. ASSUME teardown = "none" PROVE ShownOK'
  <2>1. \A c \in Calls : Swapped(c)' <=> Swapped(c)
    BY <1>1, <1>2, <1>5, <1>13, RestedWorker DEF IInv, sessionVars
  <2>2. QED
    BY <1>1, <1>3, <1>5, <1>13, <2>1, RestedShown DEF IInv, sessionVars, showVars
<1>14. ASSUME teardown = "none", disturbed' = {} PROVE QuietOK'
  <2>1. QuietOK
    BY <1>10, <1>14 DEF IInv
  <2>2. ASSUME NEW c \in Calls
        PROVE  ~Replaces(c)' /\ ~Untouched(c)' /\ calls'[c].at # "observing"
    BY <1>10, <1>14 DEF Replaces, Untouched, Adopted, Ahead
  <2>3. \A i \in DOMAIN replies : replies[i].from # None => replies[i].from \in Calls
    <3>1. \A i \in DOMAIN replies : replies[i] \in ReplyType
      BY <1>2, Elements
    <3>2. QED
      BY <3>1 DEF ReplyType
  <2>4. step' # None => step' = generation'
    BY <1>1, <1>5, <2>1 DEF QuietOK, sessionVars
  <2>5. QED
    BY <1>1, <2>1, <2>2, <2>3, <2>4 DEF QuietOK, sessionVars, showVars
<1>15. teardown = "none" => /\ "teardown" \notin disturbed'
                            /\ pending'.generation \in {None, generation}
  BY <1>1, <1>3 DEF IInv, SessionOK, PlacesOK, showVars
<1>16. QED
  BY <1>1, <1>5, <1>6, <1>7, <1>11, <1>12, <1>13, <1>14, <1>15, LoopKeeps
     DEF sessionVars

-----------------------------------------------------------------------------
(* The answer to a step.                                                    *)

LEMMA SameTalkTransitive ==
  ASSUME NEW q1, NEW p1, NEW q2, NEW p2, NEW q3, NEW p3,
         SameTalk(q1, p1, q2, p2), SameTalk(q2, p2, q3, p3)
  PROVE  SameTalk(q1, p1, q3, p3)
  BY DEF SameTalk

LEMMA GenerationsAreNot0 == \A g \in Generations : g # None /\ g \in Nat
  BY PageAssumption DEF Generations, None

LEMMA PublicationKinds ==
  ASSUME NEW p \in Publications
  PROVE  /\ p = NoPublication <=> p.generation = None
         /\ p # NoPublication =>
              /\ p \in [generation : Generations, first : 1..MaxTicks,
                        last : 1..MaxTicks]
              /\ p.generation \in Generations /\ p.last \in 1..MaxTicks
  BY GenerationsAreNot0 DEF Publications, NoPublication

LEMMA Enqueuing ==
  ASSUME ShowTypes, generation \in Generations, NEW tick \in 0..MaxTicks,
         Enqueue(tick), generation' = generation
  PROVE  /\ ShowTypes' /\ pending'.generation \in {None, pending.generation, generation}
         /\ snapshot' = snapshot \/ snapshot'.generation = generation
         /\ IF tick = 0 THEN UNCHANGED << pending, presenting, snapshot >>
            ELSE IF presenting # NoPublication
            THEN /\ pending' # NoPublication /\ pending'.last = tick
                 /\ pending'.first = IF pending = NoPublication THEN tick
                                     ELSE pending.first
                 /\ UNCHANGED << presenting, snapshot >>
            ELSE /\ pending' = NoPublication /\ presenting' # NoPublication
                 /\ presenting'.generation = IF pending = NoPublication THEN generation
                                             ELSE pending.generation
                 /\ snapshot'.generation = generation /\ snapshot'.tick = tick
<1>1. CASE tick = 0
  BY <1>1 DEF Enqueue, ShowTypes
<1>2. CASE tick # 0
  <2> DEFINE value == IF pending = NoPublication
               THEN [generation |-> generation, first |-> tick, last |-> tick]
               ELSE [pending EXCEPT !.last = tick]
  <2>1. tick \in 1..MaxTicks
    BY <1>2, PageAssumption
  <2>2. /\ value \in [generation : Generations, first : 1..MaxTicks, last : 1..MaxTicks]
        /\ value.last = tick
        /\ value.first = IF pending = NoPublication THEN tick ELSE pending.first
        /\ value.generation = IF pending = NoPublication THEN generation
                              ELSE pending.generation
    <3>1. CASE pending = NoPublication
      BY <2>1, <3>1
    <3>2. CASE pending # NoPublication
      <4>1. pending \in [generation : Generations, first : 1..MaxTicks,
                         last : 1..MaxTicks]
        BY <3>2, PublicationKinds DEF ShowTypes
      <4>2. QED
        BY <2>1, <3>2, <4>1
    <3>3. QED
      BY <3>1, <3>2
  <2>3. value \in Publications /\ value # NoPublication
    BY <2>2, GenerationsAreNot0 DEF Publications, NoPublication
  <2>4. IF presenting = NoPublication
        THEN /\ presenting' = value /\ pending' = NoPublication
             /\ snapshot' = [generation |-> generation, tick |-> value.last]
        ELSE pending' = value /\ UNCHANGED << presenting, snapshot >>
    BY <1>2 DEF Enqueue
  <2> HIDE DEF value
  <2>5. NoPublication \in Publications /\ NoPublication.generation = None
    BY DEF Publications, NoPublication
  <2>6. ShowTypes'
    <3>1. [generation |-> generation, tick |-> value.last] \in Shots
      BY <2>2 DEF Shots
    <3>2. QED
      BY <2>3, <2>4, <2>5, <3>1 DEF ShowTypes
  <2>7. QED
    BY <1>2, <2>2, <2>3, <2>4, <2>5, <2>6
<1>3. QED
  BY <1>1, <1>2

LEMMA StepReplyKeeps == ASSUME IInv, StepReply PROVE IInv'
<1> DEFINE h == Head(replies)
<1>1. /\ replies # << >> /\ h.from = None /\ replies' = Tail(replies)
      /\ UNCHANGED << sessionVars, operation, reserved, worker, userVars >>
  BY DEF StepReply
<1>2. /\ samples \in Seq(SampleType) /\ Len(samples) \in Nat /\ toggles \in Nat
      /\ generation \in Generations /\ calls \in [Calls -> CallType]
      /\ requests \in Seq(RequestType) /\ replies \in Seq(ReplyType)
      /\ Len(samples) <= MaxTransitions /\ paused \in BOOLEAN
  BY DEF IInv, Types, LoopTypes, SessionTypes, WorkTypes
<1>3. /\ step # None /\ Told(requests, replies, None) /\ h \in ReplyType
      /\ Tail(replies) \in Seq(ReplyType)
      /\ MessagesIn(requests, Tail(replies), None, calls)
      /\ SameTalk(requests, replies, requests, Tail(replies))
  BY <1>1, <1>2, StepHeard DEF IInv, MessagesOK
<1>4. /\ h.tick \in 0..MaxTicks /\ h.error \in {"none", "stale", "fault"}
      /\ h = replies[1] /\ 1 \in DOMAIN replies
  BY <1>1, <1>2, <1>3, Taken DEF ReplyType
<1> HIDE DEF h
\* What the step does to the loop and the presentation.
<1>5. /\ Rested /\ LoopTypes' /\ requests' \in Seq(RequestType)
      /\ step' \in {None, generation}
      /\ samples' = samples \/ Len(samples') < Len(samples)
      /\ samples = << >> => samples' = << >> /\ step' = None
      /\ teardown' = teardown \/ {teardown, teardown'} \subseteq Halting
      /\ MessagesIn(requests', replies', step', calls)
      /\ SameTalk(requests, replies, requests', replies')
      /\ paused' = paused \/ paused' = TRUE
      /\ ScreenTypes' /\ phase' \in {phase, "Failed"} /\ watch' \in {watch, NoWatch}
      /\ \A c \in Calls : calls'[c].at \in {"presentation", "presented"} =>
           \/ calls'[c].at = calls[c].at /\ step' = generation
           \/ /\ step' = None
              /\ \/ calls'[c].at = calls[c].at
                 \/ calls[c].at = "simulation" /\ calls'[c].at = AfterPresentation
  <2>1. CASE h.error # "none"
    <3>1. /\ UNCHANGED requests /\ step' = None
          /\ Wake("simulation", AfterPresentation)
          /\ IF ErrorCounts THEN samples' = << >> /\ Fail(h.error)
             ELSE UNCHANGED << samples, paused, screenVars >>
      BY <2>1 DEF StepReply, h
    <3>2. AfterPresentation \in Halting /\ "simulation" \in Halting
      BY DEF AfterPresentation, Halting
    <3>3. /\ Rested
          /\ teardown' = IF teardown = "simulation" THEN AfterPresentation ELSE teardown
          /\ \A c \in Calls : calls'[c].at = IF calls[c].at = "simulation"
                                             THEN AfterPresentation ELSE calls[c].at
      BY <1>2, <3>1, <3>2, Waking
    <3>4. /\ ScreenTypes' /\ phase' \in {phase, "Failed"} /\ watch' \in {watch, NoWatch}
          /\ paused' = paused \/ paused' = TRUE
      <4>1. NoWatch \in Watches /\ h.error \in Causes
        BY <1>4, PageAssumption DEF NoWatch, Watches, Causes
      <4>2. QED
        BY <3>1, <4>1 DEF IInv, Types, ScreenTypes, Fail, screenVars
    <3>5. LoopTypes' /\ (samples' = samples \/ Len(samples') < Len(samples))
      <4>1. samples' = << >> \/ samples' = samples
        BY <3>1
      <4>2. samples = << >> \/ Len(samples) > 0
        BY <1>2
      <4>3. << >> \in Seq(SampleType) /\ Len(<< >>) = 0
        OBVIOUS
      <4>4. samples' \in Seq(SampleType) /\ Len(samples') <= MaxTransitions
        <5>1. 0 <= MaxTransitions
          BY PageAssumption
        <5>2. CASE samples' = << >>
          BY <4>3, <5>1, <5>2
        <5>3. CASE samples' = samples
          BY <1>2, <5>3
        <5>4. QED
          BY <4>1, <5>2, <5>3
      <4>5. QED
        BY <1>2, <3>1, <4>1, <4>2, <4>3, <4>4 DEF LoopTypes
    <3>6. samples = << >> => samples' = << >>
      BY <3>1
    <3>7. QED
      BY <1>1, <1>2, <1>3, <3>1, <3>2, <3>3, <3>4, <3>5, <3>6
  <2>2. CASE h.error = "none"
    <3>1. TakeSample(samples) /\ UNCHANGED << paused, screenVars >>
      BY <2>2 DEF StepReply, h
    <3>2. /\ MessagesIn(requests, replies', None, calls) /\ replies' \in Seq(ReplyType)
          /\ Types /\ SessionOK
      BY <1>1, <1>3 DEF IInv
    <3>3. /\ Rested /\ LoopTypes' /\ requests' \in Seq(RequestType)
          /\ step' \in {None, generation}
          /\ samples # << >> => Len(samples') < Len(samples)
          /\ samples = << >> => samples' = << >> /\ step' = None
          /\ teardown' = teardown \/ {teardown, teardown'} \subseteq Halting
          /\ MessagesIn(requests', replies', step', calls)
          /\ SameTalk(requests, replies', requests', replies')
          /\ \A c \in Calls : calls'[c].at \in {"presentation", "presented"} =>
              \/ calls'[c].at = calls[c].at /\ step' = generation
              \/ /\ step' = None
                 /\ \/ calls'[c].at = calls[c].at
                    \/ calls[c].at = "simulation" /\ calls'[c].at = AfterPresentation
      BY <1>2, <3>1, <3>2, TakenKeeps
    <3>4. SameTalk(requests, replies, requests', replies')
      BY <1>1, <1>3, <3>3, SameTalkTransitive
    <3>5. ScreenTypes' /\ phase' = phase /\ watch' = watch
      BY <3>1 DEF IInv, Types, ScreenTypes, screenVars
    <3>6. QED
      BY <3>1, <3>3, <3>4, <3>5
  <2>3. QED
    BY <2>1, <2>2
<1>6. \/ UNCHANGED << pending, presenting, snapshot >> /\ (h.error # "none" \/ closed \/ step # generation)
      \/ Enqueue(h.tick) /\ h.error = "none"
  BY DEF StepReply, h
<1>7. /\ ShowTypes' /\ pending'.generation \in {None, pending.generation, generation}
      /\ snapshot' = snapshot \/ snapshot'.generation = generation
  <2>1. ShowTypes /\ generation' = generation
    BY <1>1 DEF IInv, Types, sessionVars
  <2>2. CASE UNCHANGED << pending, presenting, snapshot >>
    BY <2>1, <2>2 DEF ShowTypes
  <2>3. CASE Enqueue(h.tick)
    BY <1>2, <1>4, <2>1, <2>3, Enqueuing
  <2>4. QED
    BY <1>6, <2>2, <2>3
<1>8. Types'
  <2>1. paused' \in BOOLEAN
    BY <1>2, <1>5
  <2>2. SessionTypes'
    BY <1>1, <1>5, <2>1 DEF IInv, Types, SessionTypes, sessionVars, userVars, Halting
  <2>3. WorkTypes'
    BY <1>1, <1>3, <1>5 DEF IInv, Types, WorkTypes, Rested
  <2>4. QED
    BY <1>5, <1>7, <2>2, <2>3 DEF Types
<1>9. WatchOK'
  BY <1>1, <1>5 DEF IInv, WatchOK, NoWatch, userVars
<1>10. QueueOK'
  BY <1>1, <1>5, <1>8, QueueShrinks
     DEF IInv, sessionVars, userVars, Types, LoopTypes
<1>11. /\ teardown # "gone" /\ teardown' # "gone"
       /\ (teardown' = "none" <=> teardown = "none")
       /\ teardown' \in {"none", "gone"} <=> teardown \in {"none", "gone"}
  BY <1>3, <1>5 DEF IInv, SessionOK, Halting
<1>12. \A c \in Calls : /\ Replaces(c)' <=> Replaces(c)
                        /\ calls[c].at \notin Halting => calls'[c].at = calls[c].at
                        /\ calls'[c].at \notin Halting => calls'[c].at = calls[c].at
  BY <1>1, <1>5, RestedCalls DEF IInv, sessionVars
<1>13. disturbed' = disturbed /\ closed' = closed /\ generation' = generation
       /\ worker' = worker
  BY <1>1 DEF sessionVars, userVars
<1>14. ASSUME disturbed = {}, NEW c \in Calls, Replaces(c)
       PROVE  calls[c].at = "simulation" /\ paused' /\ samples' = << >> /\ step' = None
  <2>1. StillOK
    BY <1>14 DEF IInv
  <2>2. calls[c].at = "simulation" /\ paused /\ samples = << >>
    BY <1>3, <1>14, <2>1 DEF StillOK
  <2>3. QED
    BY <1>5, <2>2
<1>15. ASSUME disturbed = {} PROVE StillOK'
  <2>1. StillOK
    BY <1>15 DEF IInv
  <2>2. ASSUME teardown' \notin {"none", "gone"}
        PROVE  paused' /\ samples' = << >> /\ step' # generation'
    <3>1. paused /\ samples = << >>
      BY <1>11, <2>1, <2>2 DEF StillOK
    <3>2. generation' # None
      BY <1>2, <1>13, GenerationsAreNot0
    <3>3. QED
      BY <1>5, <3>1, <3>2
  <2>3. QED
    BY <1>12, <1>14, <1>15, <2>2 DEF StillOK
\* Nothing was lost if the page was not disturbed.
<1>16. ASSUME disturbed = {}, teardown = "none"
       PROVE  /\ pending' # NoPublication => presenting' # NoPublication
              /\ presenting' # NoPublication => presenting'.generation = generation
              /\ TicksOK => TicksOK'
  <2>1. QuietOK /\ ~closed /\ step = generation
    BY <1>3, <1>16 DEF IInv, QuietOK, SessionOK
  <2>2. Coming' = {}
    <3>1. NoMessage(requests, Tail(replies), None)
      BY <1>1, <1>2, <1>3, Received DEF h
    <3>2. QED
      BY <1>1, <3>1 DEF NoMessage, Absent, Coming
  <2>3. h.tick = 0 => Coming = {}
    <3>1. \A i \in DOMAIN replies : replies[i].from = None => i = 1
      BY <1>1, <1>3, <1>4 DEF Told, Once
    <3>2. QED
      BY <1>4, <3>1 DEF Coming
  <2>4. h.tick # 0 => 1 \in Coming
    BY <1>1, <1>4 DEF Coming
  <2>5. CASE h.error # "none"
    <3>1. h.tick = 0
      BY <1>4, <2>5 DEF IInv, MessagesOK, MessagesIn
    <3>2. UNCHANGED << pending, presenting, snapshot >>
      BY <1>6, <2>5
    <3>3. Presented' = Presented
      BY <3>2 DEF Presented
    <3>4. QED
      BY <1>13, <2>1, <2>2, <2>3, <3>1, <3>2, <3>3 DEF QuietOK, TicksOK
  <2>6. CASE h.error = "none"
    <3>1. Enqueue(h.tick)
      BY <1>6, <2>1, <2>6
    <3>2. CASE h.tick = 0
      <4>1. UNCHANGED << pending, presenting, snapshot >>
        BY <3>1, <3>2 DEF Enqueue
      <4>2. Presented' = Presented
        BY <4>1 DEF Presented
      <4>3. QED
        BY <1>13, <2>1, <2>2, <2>3, <3>2, <4>1, <4>2 DEF QuietOK, TicksOK
    <3>3. CASE h.tick # 0
      <4>1. IF presenting # NoPublication
            THEN /\ pending' # NoPublication /\ pending'.last = h.tick
                 /\ pending'.first = IF pending = NoPublication THEN h.tick
                                     ELSE pending.first
                 /\ UNCHANGED << presenting, snapshot >>
            ELSE /\ pending' = NoPublication /\ presenting' # NoPublication
                 /\ presenting'.generation = IF pending = NoPublication THEN generation
                                             ELSE pending.generation
                 /\ snapshot'.generation = generation /\ snapshot'.tick = h.tick
        BY <1>2, <1>4, <1>13, <3>1, <3>3, Enqueuing DEF IInv, Types
      <4>2. pending # NoPublication => presenting # NoPublication
        BY <2>1 DEF QuietOK
      <4>3. TicksOK => h.tick = Presented + 1 /\ worker.tick = Presented + 1
        BY <1>4, <2>4, <3>3 DEF TicksOK
      <4>4. Presented' = h.tick
        BY <4>1, <4>2 DEF Presented
      <4>5. TicksOK => (pending' # NoPublication => pending'.first = snapshot'.tick + 1)
        BY <4>1, <4>2, <4>3 DEF TicksOK, Presented
      <4>6. TicksOK => TicksOK'
        BY <1>13, <2>2, <4>3, <4>4, <4>5 DEF TicksOK
      <4>7. QED
        BY <2>1, <4>1, <4>2, <4>6 DEF QuietOK
    <3>4. QED
      BY <3>2, <3>3
  <2>7. QED
    BY <2>5, <2>6
<1>17. ASSUME teardown = "none" PROVE ShownOK'
  <2>1. ShownOK
    BY <1>17 DEF IInv
  <2>2. \A c \in Calls : Swapped(c)' <=> Swapped(c)
    BY <1>1, <1>2, <1>5, <1>13, <1>17, RestedWorker DEF IInv
  <2>3. Abandoned' <=> Abandoned
    BY <1>5, <1>13 DEF Abandoned, Rested
  <2>4. Unseen' <=> Unseen
    BY <1>5 DEF Unseen, Rested, Halting
  <2>5. QED
    BY <1>7, <1>13, <1>16, <1>17, <2>1, <2>2, <2>3, <2>4 DEF ShownOK
<1>18. ASSUME disturbed = {}, teardown = "none" PROVE QuietOK'
  <2>1. QuietOK
    BY <1>18 DEF IInv
  <2>2. ASSUME NEW c \in Calls, Replaces(c)'
        PROVE  calls'[c].at = "simulation" \/ calls'[c].at = AfterPresentation
    <3>1. calls[c].at = "simulation"
      BY <1>12, <1>14, <1>18, <2>2
    <3>2. calls'[c].at \in Halting
      BY <1>12, <3>1 DEF Halting
    <3>3. QED
      BY <1>5, <3>1, <3>2 DEF Halting
  <2>3. ASSUME NEW c \in Calls, Replaces(c)',
               calls'[c].at \notin {"simulation", "presentation"}
        PROVE  presenting' = NoPublication /\ pending' = NoPublication
    BY <1>16, <1>18, <2>2, <2>3 DEF AfterPresentation
  <2>4. ASSUME NEW c \in Calls PROVE ~Untouched(c)' /\ calls'[c].at # "observing"
    BY <2>2 DEF AfterPresentation, Untouched, Replaces, Ahead, Adopted
  <2>5. ASSUME NEW i \in DOMAIN replies'
        PROVE  /\ replies'[i].error # "stale"
               /\ replies'[i].from # None => replies'[i].from \in Calls
    <3>1. i + 1 \in DOMAIN replies /\ replies'[i] = replies[i + 1]
      BY <1>1, <1>2, <2>5, Taken
    <3>2. replies'[i] \in ReplyType
      BY <1>2, <3>1, Elements
    <3>3. QED
      BY <2>1, <3>1, <3>2 DEF QuietOK, ReplyType
  <2>6. QED
    BY <1>5, <1>13, <1>16, <1>18, <2>3, <2>4, <2>5 DEF QuietOK
<1>19. teardown = "none" => /\ "teardown" \notin disturbed'
                            /\ pending'.generation \in {None, generation}
  BY <1>7, <1>13 DEF IInv, SessionOK, PlacesOK
<1>20. QED
  BY <1>1, <1>5, <1>8, <1>9, <1>10, <1>11, <1>13, <1>15, <1>17, <1>18, <1>19, LoopKeeps
     DEF sessionVars

-----------------------------------------------------------------------------
(* A presentation ends.                                                     *)

LEMMA FinishPresentKeeps == ASSUME IInv, FinishPresent PROVE IInv'
<1> DEFINE current == ~closed /\ presenting.generation = generation
           more == current /\ pending # NoPublication
<1>1. /\ presenting # NoPublication
      /\ \/ UNCHANGED << paused, screenVars >>
         \/ Fail("presentation")
      /\ IF more
         THEN /\ presenting' = pending /\ pending' = NoPublication
              /\ snapshot' = [generation |-> generation, tick |-> pending.last]
              /\ UNCHANGED << calls, teardown >>
         ELSE /\ presenting' = NoPublication /\ Wake("presentation", "presented")
              /\ UNCHANGED << pending, snapshot >>
      /\ UNCHANGED << sessionVars, loopVars, operation, reserved, requests,
                      replies, worker, userVars >>
  BY DEF FinishPresent
<1> HIDE DEF more, current
<1>2. /\ calls \in [Calls -> CallType] /\ replies \in Seq(ReplyType)
      /\ generation \in Generations /\ paused \in BOOLEAN
      /\ pending \in Publications /\ samples \in Seq(SampleType)
  BY DEF IInv, Types, SessionTypes, WorkTypes, ShowTypes, LoopTypes
<1>3. /\ UNCHANGED << generation, client, closed, operation, reserved, worker >>
      /\ UNCHANGED << samples, step, requests, replies, hidden, toggles, disturbed >>
  BY <1>1 DEF sessionVars, loopVars, userVars
<1>4. /\ Rested
      /\ teardown' = teardown \/ {teardown, teardown'} \subseteq Halting
      /\ \A c \in Calls : calls'[c].at # calls[c].at =>
           calls[c].at = "presentation" /\ calls'[c].at = "presented" /\ ~more
  <2>1. CASE more
    BY <1>1, <1>2, <2>1 DEF Rested
  <2>2. CASE ~more
    <3>1. "presentation" \in Halting /\ "presented" \in Halting
      BY DEF Halting
    <3>2. Wake("presentation", "presented")
      BY <1>1, <2>2
    <3>3. QED
      BY <1>2, <2>2, <3>1, <3>2, Waking
  <2>3. QED
    BY <2>1, <2>2
<1>5. /\ ScreenTypes' /\ phase' \in {phase, "Failed"} /\ watch' \in {watch, NoWatch}
      /\ paused' = paused \/ paused' = TRUE
  <2>1. NoWatch \in Watches
    BY PageAssumption DEF NoWatch, Watches
  <2>2. QED
    BY <1>1, <2>1 DEF IInv, Types, ScreenTypes, Fail, screenVars, Causes
<1>6. ShowTypes'
  <2>1. NoPublication \in Publications
    BY DEF Publications
  <2>2. ASSUME more PROVE [generation |-> generation, tick |-> pending.last] \in Shots
    <3>1. pending.last \in 0..MaxTicks
      BY <1>2, <2>2, PublicationKinds, PageAssumption DEF more
    <3>2. QED
      BY <1>2, <3>1 DEF Shots
  <2>3. QED
    BY <1>1, <2>1, <2>2 DEF IInv, Types, ShowTypes
<1>7. Types'
  <2>1. paused' \in BOOLEAN
    BY <1>2, <1>5
  <2>2. SessionTypes'
    BY <1>3, <1>4, <2>1 DEF IInv, Types, SessionTypes, Halting
  <2>3. LoopTypes' /\ WorkTypes'
    BY <1>3, <1>4 DEF IInv, Types, LoopTypes, WorkTypes, Rested
  <2>4. QED
    BY <1>5, <1>6, <2>2, <2>3 DEF Types
<1>8. WatchOK'
  BY <1>3, <1>5 DEF IInv, WatchOK, NoWatch
<1>9. QueueOK'
  BY <1>2, <1>3, <1>4, <1>5, QueueShrinks DEF IInv
<1>10. /\ SameTalk(requests, replies, requests', replies')
       /\ MessagesIn(requests', replies', step', calls)
  BY <1>3 DEF SameTalk, IInv, MessagesOK
<1>11. /\ teardown' = "none" <=> teardown = "none"
       /\ teardown' = "gone" <=> teardown = "gone"
  BY <1>4 DEF Halting
<1>12. \A c \in Calls : Replaces(c)' <=> Replaces(c)
  BY <1>3, <1>4, RestedCalls DEF IInv
<1>13. ASSUME disturbed' = {} PROVE StillOK'
  BY <1>3, <1>4, <1>5, <1>11, <1>12, <1>13 DEF IInv, StillOK
<1>14. teardown' = "gone" => step' = None
  BY <1>3, <1>11 DEF IInv, SessionOK
<1>15. TicksOK => TicksOK'
  <2>1. Coming' = Coming /\ worker' = worker
    BY <1>3 DEF Coming
  <2>2. CASE more
    <3>1. Presented' = Presented
      BY <1>1, <2>2 DEF Presented, more
    <3>2. QED
      BY <1>1, <1>3, <2>1, <2>2, <3>1 DEF TicksOK
  <2>3. CASE ~more
    BY <1>1, <1>3, <2>1, <2>3 DEF TicksOK, Presented
  <2>4. QED
    BY <2>2, <2>3
<1>16. ASSUME teardown = "none" PROVE ShownOK'
  <2>1. \A c \in Calls : Swapped(c)' <=> Swapped(c)
    BY <1>2, <1>3, <1>4, <1>10, <1>16, RestedWorker DEF IInv
  <2>2. Abandoned' <=> Abandoned
    BY <1>3, <1>4 DEF Abandoned, Rested
  <2>3. Unseen' <=> Unseen
    BY <1>4 DEF Unseen, Rested, Halting
  <2>4. snapshot' = snapshot \/ snapshot'.generation = generation
    BY <1>1
  <2>5. QED
    BY <1>3, <1>15, <1>16, <2>1, <2>2, <2>3, <2>4 DEF IInv, ShownOK
<1>17. ASSUME disturbed = {}, teardown = "none" PROVE QuietOK'
  <2>1. QuietOK /\ ~closed /\ current
    BY <1>1, <1>17 DEF IInv, QuietOK, SessionOK, current
  <2>2. ASSUME NEW c \in Calls
        PROVE  /\ calls'[c].at = calls[c].at
                  \/ (calls'[c].at \in Halting /\ calls[c].at \in Halting)
               /\ Untouched(c)' <=> Untouched(c)
               /\ calls'[c].attempts = calls[c].attempts
    BY <1>2, <1>3, <1>4, <1>10, <1>17, RestedWorker DEF IInv, Rested
  <2>3. /\ pending' # NoPublication => presenting' # NoPublication
        /\ presenting' # NoPublication => presenting'.generation = generation
    <3>1. CASE more
      <4>1. pending.generation = generation
        BY <1>2, <1>17, <3>1, PublicationKinds DEF IInv, PlacesOK, more
      <4>2. QED
        BY <1>1, <3>1, <4>1 DEF more
    <3>2. CASE ~more
      BY <1>1, <2>1, <3>2 DEF more
    <3>3. QED
      BY <3>1, <3>2
  <2>4. ASSUME NEW c \in Calls, Replaces(c)',
               calls'[c].at \notin {"simulation", "presentation"}
        PROVE  presenting' = NoPublication /\ pending' = NoPublication
    <3>1. calls[c].at = "presentation" /\ ~more
      BY <1>1, <1>4, <1>12, <2>1, <2>4 DEF QuietOK
    <3>2. QED
      BY <1>1, <2>1, <3>1 DEF more
  <2>5. \A i \in DOMAIN replies : replies[i].from # None => replies[i].from \in Calls
    <3>1. \A i \in DOMAIN replies : replies[i] \in ReplyType
      BY <1>2, Elements
    <3>2. QED
      BY <3>1 DEF ReplyType
  <2>6. \A c \in Calls : calls'[c].at = "observing" <=> calls[c].at = "observing"
    BY <2>2 DEF Halting
  <2>7. QED
    BY <1>3, <2>1, <2>2, <2>3, <2>4, <2>5, <2>6 DEF QuietOK
<1>18. teardown = "none" => /\ "teardown" \notin disturbed'
                            /\ pending'.generation \in {None, generation}
  <2>1. NoPublication.generation = None
    BY DEF NoPublication
  <2>2. QED
    BY <1>1, <1>3, <2>1 DEF IInv, SessionOK, PlacesOK
<1>19. QED
  BY <1>3, <1>4, <1>5, <1>7, <1>8, <1>9, <1>10, <1>11, <1>13, <1>14, <1>16, <1>17, <1>18,
     LoopKeeps

-----------------------------------------------------------------------------
(* The worker answers.                                                      *)

\* Of the messages of one sender, the answered one is the only one.
LEMMA OnceMeansOne ==
  ASSUME NEW q, NEW f, Once(q, f), NEW i \in DOMAIN q, NEW j \in DOMAIN q,
         q[i].from = f, q[j].from = f
  PROVE  i = j
  BY DEF Once

\* What the answer to the first request finds.
LEMMA Asking ==
  ASSUME IInv, requests # << >>
  PROVE  LET f == Head(requests).from
         IN  /\ Head(requests) \in RequestType /\ Asked(requests, replies, f)
             /\ IF f = None
                THEN /\ step # None /\ Head(requests).kind = "observe"
                     /\ Head(requests).generation = step
                ELSE /\ f \in Calls /\ calls[f].at \in Waits
                     /\ Head(requests).kind = Asks[calls[f].at]
                     /\ Head(requests).generation = calls[f].candidate
<1> DEFINE f == Head(requests).from
<1>1. requests \in Seq(RequestType) /\ MessagesIn(requests, replies, step, calls)
  BY DEF IInv, Types, WorkTypes, MessagesOK
<1>2. Head(requests) \in RequestType /\ 1 \in DOMAIN requests
      /\ Head(requests) = requests[1]
  BY <1>1, Taken
<1>3. f \in Calls \cup {None}
  BY <1>2 DEF RequestType
<1>4. ~Absent(requests, f)
  BY <1>2 DEF Absent
<1>5. ~NoMessage(requests, replies, f) /\ ~Told(requests, replies, f)
  BY <1>4 DEF NoMessage, Told
<1>6. CASE f = None
  BY <1>1, <1>2, <1>5, <1>6 DEF MessagesIn
<1>7. CASE f # None
  <2>1. f \in Calls
    BY <1>3, <1>7
  <2>2. calls[f].at \in Waits /\ Asked(requests, replies, f)
    BY <1>1, <1>5, <2>1 DEF MessagesIn
  <2>3. QED
    BY <1>1, <1>2, <1>7, <2>1, <2>2 DEF MessagesIn
<1>8. QED
  BY <1>6, <1>7

\* An answer, but for what the worker has of the page's generations.
LEMMA AnswerKeeps ==
  ASSUME IInv, requests # << >>, NEW r \in ReplyType, r.from = Head(requests).from,
         r.error # "none" => r.tick = 0,
         requests' = Tail(requests), replies' = Append(replies, r),
         worker' \in Workers,
         UNCHANGED << sessionVars, teardown, paused, screenVars, loopVars, showVars,
                      operation, calls, reserved, userVars >>,
         teardown = "none" => WorkerOK' /\ ShownOK' /\ (disturbed = {} => QuietOK')
  PROVE  IInv'
<1> USE DEF sessionVars, screenVars, loopVars, showVars, userVars
<1>1. requests \in Seq(RequestType) /\ replies \in Seq(ReplyType)
  BY DEF IInv, Types, WorkTypes
<1>2. Tail(requests) \in Seq(RequestType) /\ Append(replies, r) \in Seq(ReplyType)
  BY <1>1, Taken, Appended
<1>3. Types'
  BY <1>2 DEF IInv, Types, SessionTypes, ScreenTypes, LoopTypes, ShowTypes, WorkTypes
<1>4. MessagesOK'
  <2> DEFINE f == r.from
  <2>1. MessagesIn(requests, replies, step, calls)
    BY DEF IInv, MessagesOK
  <2>2. Asked(requests, replies, f) /\ Told(requests', replies', f)
    BY <1>1, Asking, Served
  <2>3. \A g : g # f =>
              /\ NoMessage(requests', replies', g) <=> NoMessage(requests, replies, g)
              /\ Asked(requests', replies', g) <=> Asked(requests, replies, g)
              /\ Told(requests', replies', g) <=> Told(requests, replies, g)
    BY <1>1, Served
  <2> HIDE DEF f
  <2>4. /\ step = None => NoMessage(requests', replies', None)
        /\ step # None => Asked(requests', replies', None) \/ Told(requests', replies', None)
    BY <2>1, <2>2, <2>3, Exclusive DEF MessagesIn
  <2>5. \A c \in Calls :
          /\ calls[c].at \in Waits =>
               Asked(requests', replies', c) \/ Told(requests', replies', c)
          /\ calls[c].at \notin Waits => NoMessage(requests', replies', c)
    BY <2>1, <2>2, <2>3, Exclusive DEF MessagesIn
  <2>6. \A i \in DOMAIN requests' : \E j \in DOMAIN requests : requests'[i] = requests[j]
    BY <1>1, Taken
  <2>7. \A i \in DOMAIN requests' :
          /\ requests'[i].from = None =>
               requests'[i].kind = "observe" /\ requests'[i].generation = step
          /\ requests'[i].from # None =>
               /\ requests'[i].kind = Asks[calls[requests'[i].from].at]
               /\ requests'[i].generation = calls[requests'[i].from].candidate
    BY <2>1, <2>6 DEF MessagesIn
  <2>8. \A i \in DOMAIN replies' : replies'[i].error # "none" => replies'[i].tick = 0
    BY <1>1, <2>1, Appended DEF MessagesIn
  <2>9. QED
    BY <2>4, <2>5, <2>7, <2>8 DEF MessagesOK, MessagesIn
<1>5. CallsOK' /\ SessionOK' /\ WatchOK' /\ QueueOK'
  BY DEF IInv, CallsOK, Replaces, SessionOK, WatchOK, QueueOK, LastIsCurrent, Sample
<1>6. disturbed' = {} => StillOK'
  BY DEF IInv, StillOK, Replaces
<1>7. teardown' = "none" => PlacesOK'
  BY DEF IInv, PlacesOK, Busy
<1>8. QED
  BY <1>3, <1>4, <1>5, <1>6, <1>7 DEF IInv

\* A step is answered.
LEMMA AnswerToStep ==
  ASSUME IInv, requests # << >>, Head(requests).from = None,
         NEW r \in ReplyType, r.from = None,
         requests' = Tail(requests), replies' = Append(replies, r),
         worker' \in Workers,
         worker'.active = worker.active, worker'.staged = worker.staged,
         IF r.tick = 0 THEN worker'.tick = worker.tick
         ELSE worker'.tick = worker.tick + 1 /\ r.tick = worker'.tick,
         r.error = "stale" => step # worker.active,
         UNCHANGED << sessionVars, teardown, paused, screenVars, loopVars, showVars,
                      operation, calls, reserved, userVars >>,
         teardown = "none"
  PROVE  WorkerOK' /\ ShownOK' /\ (disturbed = {} => QuietOK')
<1> USE DEF sessionVars, screenVars, loopVars, showVars, userVars
<1>1. /\ requests \in Seq(RequestType) /\ replies \in Seq(ReplyType)
      /\ calls \in [Calls -> CallType]
  BY DEF IInv, Types, WorkTypes
<1>2. step # None /\ Asked(requests, replies, None)
  BY Asking
<1>3. SameTalk(requests, replies, requests', replies')
  <2>1. \A c \in Calls : c # None
    BY CallNumbers
  <2>2. \A j \in DOMAIN replies : j \in DOMAIN replies' /\ replies'[j] = replies[j]
    BY <1>1, Appended
  <2>3. \A i \in DOMAIN replies' : replies'[i].from # None =>
          \E j \in DOMAIN replies : replies[j] = replies'[i]
    BY <1>1, Appended
  <2>4. QED
    BY <1>1, <2>1, <2>2, <2>3, Served DEF SameTalk
<1>4. Rested
  BY <1>1 DEF Rested
<1>5. WorkerOK /\ ShownOK
  BY DEF IInv
<1>6. WorkerOK' /\ \A c \in Calls : /\ Swapped(c)' <=> Swapped(c)
                                    /\ Untouched(c)' <=> Untouched(c)
  BY <1>1, <1>3, <1>4, <1>5, RestedWorker
<1>7. ShownOK'
  <2>1. ASSUME TicksOK PROVE TicksOK'
    <3>1. Coming = {}
      BY <1>2 DEF Asked, Absent, Coming
    <3>2. worker.tick = Presented /\ Presented' = Presented
      BY <2>1, <3>1 DEF TicksOK, Presented
    <3>3. \A i \in Coming' : replies'[i] = r /\ r.tick # 0
      BY <1>1, <3>1, Appended DEF Coming
    <3>4. r.tick # 0 => Len(replies) + 1 \in Coming'
      BY <1>1, Appended DEF Coming
    <3>5. QED
      BY <2>1, <3>2, <3>3, <3>4 DEF TicksOK
  <2>2. Abandoned' <=> Abandoned
    BY DEF Abandoned
  <2>3. Unseen' <=> Unseen
    BY DEF Unseen
  <2>4. QED
    BY <1>5, <1>6, <2>1, <2>2, <2>3 DEF ShownOK
<1>8. ASSUME disturbed = {} PROVE QuietOK'
  <2>1. QuietOK /\ StillOK
    BY <1>8 DEF IInv
  <2>2. \A c \in Calls : Replaces(c) => calls[c].at = "simulation"
    BY <1>2, <2>1 DEF StillOK
  <2>3. \A c \in Calls : /\ ~Untouched(c) /\ ~Swapped(c)
                         /\ calls[c].at # "observing"
    BY <2>2 DEF Untouched, Swapped, Replaces, Ahead, Adopted
  <2>4. r.error # "stale"
    BY <1>2, <1>5, <2>1, <2>3 DEF WorkerOK, QuietOK
  <2>5. \A i \in DOMAIN replies' :
          replies'[i] = r \/ (i \in DOMAIN replies /\ replies'[i] = replies[i])
    BY <1>1, Appended
  <2>6. \A i \in DOMAIN replies' : replies'[i].from # None => replies'[i].from \in Calls
    <3>1. replies' \in Seq(ReplyType)
      BY <1>1, Appended
    <3>2. \A i \in DOMAIN replies' : replies'[i] \in ReplyType
      BY <3>1, Elements
    <3>3. QED
      BY <3>2 DEF ReplyType
  <2>7. \A c \in Calls : Replaces(c)' <=> Replaces(c)
    BY DEF Replaces
  <2>8. QED
    BY <1>6, <2>1, <2>3, <2>4, <2>5, <2>6, <2>7 DEF QuietOK
<1>9. QED
  BY <1>6, <1>7, <1>8


\* A call is answered: it is the only one the worker is asked for.
LEMMA CallAnswered ==
  ASSUME IInv, requests # << >>, NEW c \in Calls, Head(requests).from = c,
         NEW r \in ReplyType, r.from = c,
         requests' = Tail(requests), replies' = Append(replies, r), calls' = calls
  PROVE  /\ calls[c].at \in Waits /\ Busy(c)
         /\ Head(requests).kind = Asks[calls[c].at]
         /\ Head(requests).generation = calls[c].candidate
         /\ AskedOf(c) /\ ~ToldOf(c) /\ ToldOf(c)' /\ ~AskedOf(c)'
         /\ \A d \in Calls : d # c => ~Busy(d)
         /\ \A i \in DOMAIN replies' : \/ replies'[i] = r
                                       \/ replies'[i].from = None /\ i \in DOMAIN replies
                                          /\ replies'[i] = replies[i]
         /\ \E i \in DOMAIN replies' : replies'[i] = r
         /\ Coming' = Coming /\ \A i \in Coming : replies'[i] = replies[i]
<1>1. requests \in Seq(RequestType) /\ replies \in Seq(ReplyType)
  BY DEF IInv, Types, WorkTypes
<1>2. c # None
  BY CallNumbers
<1>3. /\ Asked(requests, replies, c) /\ calls[c].at \in Waits
      /\ Head(requests).kind = Asks[calls[c].at]
      /\ Head(requests).generation = calls[c].candidate
  BY <1>2, Asking
<1>4. Told(requests', replies', c)
  BY <1>1, <1>3, Served
<1>5. AskedOf(c) /\ ~ToldOf(c) /\ ToldOf(c)' /\ ~AskedOf(c)'
  BY <1>3, <1>4, Exclusive DEF AskedOf, ToldOf
<1>6. Busy(c) /\ \A d \in Calls : d # c => ~Busy(d)
  <2>1. Busy(c)
    BY <1>3 DEF Busy, Waits
  <2>2. CallsOK
    BY DEF IInv
  <2>3. QED
    BY <2>1, <2>2, OneLive
<1>7. \A i \in DOMAIN replies : replies[i].from = None
  <2>1. \A i \in DOMAIN replies : replies[i] \in ReplyType
    BY <1>1, Elements
  <2>2. \A d \in Calls : d # c => NoMessage(requests, replies, d)
    BY <1>6 DEF IInv, MessagesOK, MessagesIn, Busy, Waits
  <2>3. \A d \in Calls : \A i \in DOMAIN replies : replies[i].from # d
    BY <1>3, <2>2 DEF NoMessage, Asked, Absent
  <2>4. QED
    BY <2>1, <2>3 DEF ReplyType
<1>8. \A i \in DOMAIN replies' :
        replies'[i] = r \/ (i \in DOMAIN replies /\ replies'[i] = replies[i])
  BY <1>1, Appended
<1>9. Len(replies) + 1 \in DOMAIN replies' /\ replies'[Len(replies) + 1] = r
  BY <1>1, Appended
<1>10. Coming' = Coming /\ \A i \in Coming : replies'[i] = replies[i]
  BY <1>1, <1>2, Appended DEF Coming
<1>11. QED
  BY <1>3, <1>5, <1>6, <1>7, <1>8, <1>9, <1>10

LEMMA SameTicks ==
  ASSUME TicksOK, UNCHANGED << pending, snapshot >>, worker'.tick = worker.tick,
         Coming' = Coming, \A i \in Coming : replies'[i] = replies[i]
  PROVE  TicksOK'
<1>1. Presented' = Presented
  BY DEF Presented
<1>2. QED
  BY <1>1 DEF TicksOK

LEMMA AnswerToCall ==
  ASSUME IInv, requests # << >>, NEW c \in Calls, Head(requests).from = c,
         NEW r \in ReplyType, r.from = c,
         requests' = Tail(requests), replies' = Append(replies, r),
         worker' \in Workers,
         UNCHANGED << sessionVars, teardown, paused, screenVars, loopVars, showVars,
                      operation, calls, reserved, userVars >>,
         teardown = "none",
         calls[c].at = "staging" =>
           \/ r.error = "fault" /\ UNCHANGED worker
           \/ /\ r.error = "stale" /\ UNCHANGED worker
              /\ calls[c].candidate <= worker.active \/ calls[c].candidate <= worker.staged
           \/ /\ r.error = "none"
              /\ worker' = [worker EXCEPT !.staged = calls[c].candidate],
         calls[c].at = "activating" =>
           IF worker.staged = calls[c].candidate
           THEN /\ worker' = [active |-> worker.staged, staged |-> None,
                              baselined |-> FALSE, tick |-> 0]
                /\ r.error = "none"
           ELSE r.error = "stale" /\ UNCHANGED worker,
         calls[c].at = "observing" =>
           /\ r.error = "stale" => calls[c].candidate # worker.active
           /\ worker'.active = worker.active /\ worker'.staged = worker.staged
           /\ r.tick # 0 => worker.baselined /\ r.tick = worker'.tick,
         calls[c].at = "discarding" =>
           IF worker.active = calls[c].candidate
           THEN r.error = "stale" /\ UNCHANGED worker
           ELSE /\ worker' = [worker EXCEPT !.staged =
                     IF @ = calls[c].candidate THEN None ELSE @]
                /\ r.error = "none"
  PROVE  WorkerOK' /\ ShownOK' /\ (disturbed = {} => QuietOK')
<1>1. /\ worker \in Workers /\ calls[c] \in CallType /\ generation \in Generations
      /\ calls \in [Calls -> CallType]
  BY DEF IInv, Types, WorkTypes, SessionTypes
<1>25. calls' = calls
  OBVIOUS
<1>2. /\ calls[c].at \in Waits /\ Busy(c)
      /\ AskedOf(c) /\ ~ToldOf(c) /\ ToldOf(c)' /\ ~AskedOf(c)'
      /\ \A d \in Calls : d # c => ~Busy(d)
      /\ \A i \in DOMAIN replies' : \/ replies'[i] = r
                                    \/ replies'[i].from = None /\ i \in DOMAIN replies
                                       /\ replies'[i] = replies[i]
      /\ \E i \in DOMAIN replies' : replies'[i] = r
      /\ Coming' = Coming /\ \A i \in Coming : replies'[i] = replies[i]
  BY <1>25, CallAnswered, ZenonT(60)
<1> USE DEF sessionVars, screenVars, loopVars, showVars, userVars
<1>3. WorkerOK /\ PlacesOK /\ ShownOK
  BY DEF IInv
<1>4. c # None
  BY CallNumbers
<1>5. \A d \in Calls : d # c => /\ ~Swapped(d) /\ ~Swapped(d)'
                                /\ ~MayHold(d) /\ ~MayHold(d)'
                                /\ ~Untouched(d) /\ ~Untouched(d)'
  BY <1>2 DEF Busy, Swapped, MayHold, Holds, StagedOnce, Untouched
<1>6. \A d \in Calls : Holds(d) => MayHold(d)
  BY DEF MayHold
<1>7. \A d \in Calls : Holds(d)' => MayHold(d)'
  BY DEF MayHold
<1>8. ~Swapped(c) /\ worker.active = generation
  <2>1. ~Swapped(c)
    BY <1>2 DEF Swapped, Waits
  <2>2. QED
    BY <1>3, <1>5, <2>1 DEF WorkerOK
<1>9. worker.staged # None => MayHold(c) /\ worker.staged = calls[c].candidate
  BY <1>3, <1>5 DEF WorkerOK
<1>10. ~StagedOnce(c)
  BY <1>2 DEF StagedOnce
<1>11. StagedOnce(c)' <=> calls[c].at = "staging" /\ r.error = "none"
  BY <1>2, <1>4 DEF StagedOnce
<1>12. /\ calls[c].candidate \in Generations \cup {None}
       /\ worker.active \in Generations /\ worker.staged \in Generations \cup {None}
  BY <1>1 DEF CallType, Workers
<1>13. \A d \in Calls : (Replaces(d)' <=> Replaces(d)) /\ (Busy(d)' <=> Busy(d))
  BY DEF Replaces, Busy
<1>14. (Abandoned' <=> Abandoned) /\ (Unseen' <=> Unseen)
  BY DEF Abandoned, Unseen
<1>15. ASSUME worker'.tick = worker.tick, TicksOK PROVE TicksOK'
  BY <1>2, <1>15, SameTicks
<1>16. \A i \in DOMAIN replies' : replies'[i].from # None =>
         replies'[i] = r /\ replies'[i].from = c
  BY <1>2
\* It is enough to say what the worker has of this call.
<1>17. ASSUME Swapped(c)' => worker'.active = calls[c].candidate,
              ~Swapped(c)' => worker'.active = generation,
              Holds(c)' => worker'.staged = calls[c].candidate,
              worker'.staged # None => MayHold(c)' /\ worker'.staged = calls[c].candidate,
              r.error # "stale", calls[c].at = "activating" => r.error = "none"
       PROVE  WorkerOK'
  <2>1. \A d \in Calls : Swapped(d)' => worker'.active = calls'[d].candidate
    BY <1>5, <1>17
  <2>2. (\A d \in Calls : ~Swapped(d)') => worker'.active = generation'
    BY <1>17
  <2>3. \A d \in Calls : Holds(d)' => worker'.staged = calls'[d].candidate
    BY <1>5, <1>7, <1>17
  <2>4. worker'.staged # None =>
          \E d \in Calls : MayHold(d)' /\ worker'.staged = calls'[d].candidate
    BY <1>17
  <2>5. QED
    BY <1>16, <1>17, <2>1, <2>2, <2>3, <2>4 DEF WorkerOK
<1>18. ASSUME Unseen \/ Swapped(c)' \/ worker'.tick = worker.tick
       PROVE  ShownOK'
  BY <1>3, <1>5, <1>8, <1>14, <1>15, <1>18 DEF ShownOK
<1>19. ASSUME disturbed = {}, r.error # "stale",
              Untouched(c)' /\ calls[c].attempts = 0 => ~worker'.baselined,
              calls[c].at = "observing" =>
                /\ calls[c].attempts = 0 => r.tick = 0
                /\ r.tick # 0 => r.tick = worker'.tick
       PROVE  QuietOK'
  <2>1. QuietOK
    BY <1>19 DEF IInv
  <2>2. \A i \in DOMAIN replies' : replies'[i].error # "stale"
    BY <1>2, <1>19, <2>1 DEF QuietOK
  <2>3. \A d \in Calls : Untouched(d)' /\ calls'[d].attempts = 0 => ~worker'.baselined
    BY <1>5, <1>19
  <2>4. \A i \in DOMAIN replies' :
          replies'[i].from # None /\ calls'[replies'[i].from].at = "observing" =>
            /\ calls'[replies'[i].from].attempts = 0 => replies'[i].tick = 0
            /\ replies'[i].tick # 0 => replies'[i].tick = worker'.tick
    BY <1>16, <1>19
  <2>5. QED
    BY <1>13, <2>1, <2>2, <2>3, <2>4 DEF QuietOK
<1>20. CASE calls[c].at = "staging"
  <2>1. worker.staged = None
    BY <1>9, <1>10, <1>20 DEF MayHold, Holds
  <2>2. calls[c].candidate > generation
    BY <1>3, <1>20 DEF PlacesOK, Ahead
  <2>3. r.error # "stale"
    <3>1. generation \in Nat /\ calls[c].candidate \in Nat /\ None = 0 /\ generation # 0
      BY <1>1, <1>12, GenerationsAreNot0 DEF None
    <3>2. ~(calls[c].candidate <= worker.active \/ calls[c].candidate <= worker.staged)
      BY <1>8, <2>1, <2>2, <3>1
    <3>3. QED
      BY <1>20, <3>2
  <2>4. /\ worker'.active = worker.active /\ worker'.tick = worker.tick
        /\ r.error = "none" => worker'.staged = calls[c].candidate
        /\ r.error # "none" => worker'.staged = None
    BY <1>1, <1>20, <2>1, <2>3 DEF Workers
  <2>5. ~Swapped(c)' /\ ~Untouched(c)'
    BY <1>20 DEF Swapped, Untouched
  <2>6. (Holds(c)' <=> r.error = "none") /\ (MayHold(c)' <=> r.error = "none")
    BY <1>11, <1>20 DEF Holds, MayHold
  <2>7. WorkerOK'
    BY <1>8, <1>17, <1>20, <2>3, <2>4, <2>5, <2>6
  <2>8. QED
    BY <1>18, <1>19, <1>20, <2>3, <2>4, <2>5, <2>7
<1>21. CASE calls[c].at = "activating"
  <2>1. worker.staged = calls[c].candidate
    BY <1>2, <1>3, <1>21 DEF WorkerOK, Holds
  <2>2. /\ worker' = [active |-> calls[c].candidate, staged |-> None,
                      baselined |-> FALSE, tick |-> 0]
        /\ r.error = "none"
    BY <1>21, <2>1
  <2>3. Swapped(c)' /\ ~Holds(c)'
    BY <1>2, <1>11, <1>21 DEF Swapped, Holds
  <2>4. WorkerOK'
    BY <1>17, <2>2, <2>3
  <2>5. QED
    BY <1>18, <1>19, <1>21, <2>2, <2>3, <2>4
<1>22. CASE calls[c].at = "observing"
  <2>1. worker.staged = None /\ ~Holds(c)' /\ ~Swapped(c)'
    BY <1>9, <1>10, <1>11, <1>22 DEF MayHold, Holds, Swapped
  <2>2. calls[c].candidate = generation
    BY <1>3, <1>22 DEF PlacesOK, Adopted
  <2>3. r.error # "stale"
    BY <1>8, <1>22, <2>2
  <2>4. WorkerOK'
    BY <1>8, <1>17, <1>22, <2>1, <2>3
  <2>5. Unseen
    BY <1>22 DEF Unseen
  <2>6. ASSUME disturbed = {} PROVE calls[c].attempts = 0 => r.tick = 0
    <3>1. Untouched(c)
      BY <1>2, <1>22 DEF Untouched
    <3>2. QED
      BY <1>22, <2>6, <3>1 DEF IInv, QuietOK
  <2>7. ~Untouched(c)'
    BY <1>2, <1>22 DEF Untouched
  <2>8. QED
    BY <1>18, <1>19, <1>22, <2>3, <2>4, <2>5, <2>6, <2>7
<1>23. CASE calls[c].at = "discarding"
  <2>1. calls[c].candidate > generation
    BY <1>3, <1>23 DEF PlacesOK
  <2>2. worker.active # calls[c].candidate
    <3>1. generation \in Nat
      BY <1>1, GenerationsAreNot0
    <3>2. QED
      BY <1>8, <2>1, <3>1
  <2>3. /\ r.error = "none" /\ worker'.staged = None
        /\ worker'.active = worker.active /\ worker'.tick = worker.tick
    BY <1>1, <1>9, <1>23, <2>2 DEF Workers
  <2>4. ~Swapped(c)' /\ ~Untouched(c)' /\ ~Holds(c)'
    BY <1>11, <1>23 DEF Swapped, Untouched, Holds
  <2>5. WorkerOK'
    BY <1>8, <1>17, <1>23, <2>3, <2>4
  <2>6. QED
    BY <1>18, <1>19, <1>23, <2>3, <2>4, <2>5
<1>24. QED
  BY <1>2, <1>20, <1>21, <1>22, <1>23 DEF Waits

\* r is what the worker answers to the first request.
Serves(r) ==
  /\ r.from = Head(requests).from /\ replies' = Append(replies, r)
  /\ r.error # "none" => r.tick = 0
  /\ worker' \in Workers
  /\ Head(requests).kind = "observe" =>
       /\ worker'.active = worker.active /\ worker'.staged = worker.staged
       /\ IF r.tick = 0 THEN worker'.tick = worker.tick
          ELSE /\ worker.baselined
               /\ worker'.tick = worker.tick + 1 /\ r.tick = worker'.tick
       /\ r.error = "stale" => Head(requests).generation # worker.active
  /\ Head(requests).kind = "stage" =>
       \/ r.error = "fault" /\ UNCHANGED worker
       \/ /\ r.error = "stale" /\ UNCHANGED worker
          /\ \/ Head(requests).generation <= worker.active
             \/ Head(requests).generation <= worker.staged
       \/ /\ r.error = "none"
          /\ worker' = [worker EXCEPT !.staged = Head(requests).generation]
  /\ Head(requests).kind = "activate" =>
       IF worker.staged = Head(requests).generation
       THEN /\ worker' = [active |-> worker.staged, staged |-> None,
                          baselined |-> FALSE, tick |-> 0]
            /\ r.error = "none"
       ELSE r.error = "stale" /\ UNCHANGED worker
  /\ Head(requests).kind = "discard" =>
       IF worker.active = Head(requests).generation
       THEN r.error = "stale" /\ UNCHANGED worker
       ELSE /\ worker' = [worker EXCEPT !.staged =
                 IF @ = Head(requests).generation THEN None ELSE @]
            /\ r.error = "none"

LEMMA AnsweringKeeps == ASSUME IInv, Answer PROVE IInv'
<1> DEFINE h == Head(requests)
<1>1. /\ requests # << >> /\ requests' = Tail(requests)
      /\ AnswerObserve \/ AnswerStage \/ AnswerActivate \/ AnswerDiscard
      /\ UNCHANGED << sessionVars, teardown, paused, screenVars, loopVars, showVars,
                      operation, calls, reserved, userVars >>
  BY DEF Answer
<1>2. worker \in Workers /\ None = 0
  BY DEF IInv, Types, WorkTypes, None
<1>3. /\ h \in RequestType
      /\ h.from = None => step # None /\ h.kind = "observe" /\ h.generation = step
      /\ h.from # None => /\ h.from \in Calls /\ calls[h.from].at \in Waits
                          /\ h.kind = Asks[calls[h.from].at]
                          /\ h.generation = calls[h.from].candidate
  BY <1>1, Asking
<1>4. ASSUME h.from # None
      PROVE  \A w \in Waits : calls[h.from].at = w <=> h.kind = Asks[w]
  BY <1>3, <1>4 DEF Asks, Waits
<1>5. h.from \in Calls \cup {None} /\ h.generation \in Generations
  BY <1>3 DEF RequestType
<1> DEFINE R(error, tick) == [from |-> h.from, error |-> error, tick |-> tick]
<1>6. \A e \in {"none", "stale", "fault"} : \A t \in 0..MaxTicks :
        /\ R(e, t) \in ReplyType /\ R(e, t).from = h.from
        /\ R(e, t).error = e /\ R(e, t).tick = t
  BY <1>5 DEF ReplyType
<1>7. 0 \in 0..MaxTicks
  BY PageAssumption
\* The answer, whatever is asked.
<1>8. \E r \in ReplyType : Serves(r)
  <2>1. CASE AnswerObserve
    <3>1. h.kind = "observe"
      BY <2>1 DEF AnswerObserve
    <3>2. CASE h.generation # worker.active /\ Answered("stale", 0) /\ UNCHANGED worker
      <4>1. replies' = Append(replies, R("stale", 0))
        BY <3>2 DEF Answered
      <4>2. Serves(R("stale", 0)) /\ R("stale", 0) \in ReplyType
        BY <1>2, <1>6, <1>7, <3>1, <3>2, <4>1 DEF Serves, h
      <4>3. QED
        BY <4>2
    <3>3. CASE Answered("fault", 0) /\ UNCHANGED worker
      <4>1. replies' = Append(replies, R("fault", 0))
        BY <3>3 DEF Answered
      <4>2. Serves(R("fault", 0)) /\ R("fault", 0) \in ReplyType
        BY <1>2, <1>6, <1>7, <3>1, <3>3, <4>1 DEF Serves, h
      <4>3. QED
        BY <4>2
    <3>4. CASE worker' = [worker EXCEPT !.baselined = TRUE] /\ Answered("none", 0)
      <4>1. replies' = Append(replies, R("none", 0))
        BY <3>4 DEF Answered
      <4>2. /\ worker' \in Workers /\ worker'.active = worker.active
            /\ worker'.staged = worker.staged /\ worker'.tick = worker.tick
        BY <1>2, <3>4 DEF Workers
      <4>3. Serves(R("none", 0)) /\ R("none", 0) \in ReplyType
        BY <1>2, <1>6, <1>7, <3>1, <4>1, <4>2 DEF Serves, h
      <4>4. QED
        BY <4>3
    <3>5. CASE /\ worker.baselined /\ worker.tick < MaxTicks
               /\ worker' = [worker EXCEPT !.tick = @ + 1]
               /\ Answered("none", worker'.tick)
      <4>1. worker.tick \in Nat /\ worker.tick + 1 \in 0..MaxTicks
        BY <1>2, <3>5, PageAssumption DEF Workers
      <4>2. /\ worker' \in Workers /\ worker'.active = worker.active
            /\ worker'.staged = worker.staged /\ worker'.tick = worker.tick + 1
        BY <1>2, <3>5, <4>1 DEF Workers
      <4>3. replies' = Append(replies, R("none", worker'.tick))
        BY <3>5 DEF Answered
      <4>4. /\ R("none", worker'.tick) \in ReplyType
            /\ R("none", worker'.tick).from = h.from
            /\ R("none", worker'.tick).error = "none"
            /\ R("none", worker'.tick).tick = worker'.tick
        BY <1>6, <4>1, <4>2
      <4>5. Serves(R("none", worker'.tick)) /\ R("none", worker'.tick) \in ReplyType
        BY <3>1, <3>5, <4>1, <4>2, <4>3, <4>4 DEF Serves, h
      <4>6. QED
        BY <4>5
    <3>6. QED
      BY <2>1, <3>2, <3>3, <3>4, <3>5 DEF AnswerObserve
  <2>2. CASE AnswerStage
    <3>1. h.kind = "stage"
      BY <2>2 DEF AnswerStage
    <3>2. CASE /\ h.generation <= worker.active \/ h.generation <= worker.staged
               /\ Answered("stale", 0) /\ UNCHANGED worker
      <4>1. replies' = Append(replies, R("stale", 0))
        BY <3>2 DEF Answered
      <4>2. Serves(R("stale", 0)) /\ R("stale", 0) \in ReplyType
        BY <1>2, <1>6, <1>7, <3>1, <3>2, <4>1 DEF Serves, h
      <4>3. QED
        BY <4>2
    <3>3. CASE Answered("fault", 0) /\ UNCHANGED worker
      <4>1. replies' = Append(replies, R("fault", 0))
        BY <3>3 DEF Answered
      <4>2. Serves(R("fault", 0)) /\ R("fault", 0) \in ReplyType
        BY <1>2, <1>6, <1>7, <3>1, <3>3, <4>1 DEF Serves, h
      <4>3. QED
        BY <4>2
    <3>4. CASE worker' = [worker EXCEPT !.staged = h.generation] /\ Answered("none", 0)
      <4>1. replies' = Append(replies, R("none", 0))
        BY <3>4 DEF Answered
      <4>2. worker' \in Workers
        BY <1>2, <1>5, <3>4 DEF Workers
      <4>3. Serves(R("none", 0)) /\ R("none", 0) \in ReplyType
        BY <1>6, <1>7, <3>1, <3>4, <4>1, <4>2 DEF Serves, h
      <4>4. QED
        BY <4>3
    <3>5. QED
      BY <2>2, <3>2, <3>3, <3>4 DEF AnswerStage
  <2>3. CASE AnswerActivate
    <3>1. h.kind = "activate"
      BY <2>3 DEF AnswerActivate
    <3>2. CASE worker.staged = h.generation
      <4>1. /\ worker' = [active |-> worker.staged, staged |-> None,
                          baselined |-> FALSE, tick |-> 0]
            /\ replies' = Append(replies, R("none", 0))
        BY <2>3, <3>2 DEF AnswerActivate, Answered
      <4>2. worker' \in Workers
        BY <1>5, <1>7, <3>2, <4>1 DEF Workers
      <4>3. Serves(R("none", 0)) /\ R("none", 0) \in ReplyType
        BY <1>6, <1>7, <3>1, <3>2, <4>1, <4>2 DEF Serves, h
      <4>4. QED
        BY <4>3
    <3>3. CASE worker.staged # h.generation
      <4>1. UNCHANGED worker /\ replies' = Append(replies, R("stale", 0))
        BY <2>3, <3>3 DEF AnswerActivate, Answered
      <4>2. Serves(R("stale", 0)) /\ R("stale", 0) \in ReplyType
        BY <1>2, <1>6, <1>7, <3>1, <3>3, <4>1 DEF Serves, h
      <4>3. QED
        BY <4>2
    <3>4. QED
      BY <3>2, <3>3
  <2>4. CASE AnswerDiscard
    <3>1. h.kind = "discard"
      BY <2>4 DEF AnswerDiscard
    <3>2. CASE worker.active = h.generation
      <4>1. UNCHANGED worker /\ replies' = Append(replies, R("stale", 0))
        BY <2>4, <3>2 DEF AnswerDiscard, Answered
      <4>2. Serves(R("stale", 0)) /\ R("stale", 0) \in ReplyType
        BY <1>2, <1>6, <1>7, <3>1, <3>2, <4>1 DEF Serves, h
      <4>3. QED
        BY <4>2
    <3>3. CASE worker.active # h.generation
      <4>1. /\ worker' = [worker EXCEPT !.staged = IF @ = h.generation THEN None ELSE @]
            /\ replies' = Append(replies, R("none", 0))
        BY <2>4, <3>3 DEF AnswerDiscard, Answered
      <4>2. worker' \in Workers
        BY <1>2, <4>1 DEF Workers
      <4>3. Serves(R("none", 0)) /\ R("none", 0) \in ReplyType
        BY <1>6, <1>7, <3>1, <3>3, <4>1, <4>2 DEF Serves, h
      <4>4. QED
        BY <4>3
    <3>4. QED
      BY <3>2, <3>3
  <2>5. QED
    BY <1>1, <2>1, <2>2, <2>3, <2>4
<1>9. PICK r \in ReplyType : Serves(r)
  BY <1>8
<1>10. teardown = "none" => WorkerOK' /\ ShownOK' /\ (disturbed = {} => QuietOK')
  <2>1. CASE h.from = None
    BY <1>1, <1>3, <1>9, <2>1, AnswerToStep DEF Serves
  <2>2. CASE h.from # None
    <3>1. h.from \in Calls /\ h.generation = calls[h.from].candidate
      BY <1>3, <2>2
    <3>2. /\ calls[h.from].at = "staging" => h.kind = "stage"
          /\ calls[h.from].at = "activating" => h.kind = "activate"
          /\ calls[h.from].at = "observing" => h.kind = "observe"
          /\ calls[h.from].at = "discarding" => h.kind = "discard"
      BY <1>3, <2>2 DEF Asks
    <3>3. PICK c \in Calls : c = h.from
      BY <3>1
    <3>4. /\ calls[c].at = "staging" =>
               \/ r.error = "fault" /\ UNCHANGED worker
               \/ /\ r.error = "stale" /\ UNCHANGED worker
                  /\ calls[c].candidate <= worker.active
                       \/ calls[c].candidate <= worker.staged
               \/ /\ r.error = "none"
                  /\ worker' = [worker EXCEPT !.staged = calls[c].candidate]
          /\ calls[c].at = "activating" =>
               IF worker.staged = calls[c].candidate
               THEN /\ worker' = [active |-> worker.staged, staged |-> None,
                                  baselined |-> FALSE, tick |-> 0]
                    /\ r.error = "none"
               ELSE r.error = "stale" /\ UNCHANGED worker
          /\ calls[c].at = "observing" =>
               /\ r.error = "stale" => calls[c].candidate # worker.active
               /\ worker'.active = worker.active /\ worker'.staged = worker.staged
               /\ r.tick # 0 => worker.baselined /\ r.tick = worker'.tick
          /\ calls[c].at = "discarding" =>
               IF worker.active = calls[c].candidate
               THEN r.error = "stale" /\ UNCHANGED worker
               ELSE /\ worker' = [worker EXCEPT !.staged =
                         IF @ = calls[c].candidate THEN None ELSE @]
                    /\ r.error = "none"
      BY <1>9, <3>1, <3>2, <3>3 DEF Serves
    <3>5. Head(requests).from = c /\ r.from = c
      BY <1>9, <3>3 DEF Serves, h
    <3>6. worker' \in Workers /\ replies' = Append(replies, r)
      BY <1>9 DEF Serves
    <3>7. QED
      BY <1>1, <3>4, <3>5, <3>6, AnswerToCall
  <2>3. QED
    BY <2>1, <2>2
<1>11. /\ r.from = Head(requests).from /\ replies' = Append(replies, r)
       /\ r.error # "none" => r.tick = 0
       /\ worker' \in Workers
  BY <1>9 DEF Serves
<1>12. QED
  BY <1>1, <1>10, <1>11, AnswerKeeps

-----------------------------------------------------------------------------
(* The calls that have not begun, and those that are over.                  *)

\* Of the calls, only this one changes.
Only(c) ==
  /\ calls' \in [Calls -> CallType]
  /\ \A d \in Calls : d # c => calls'[d] = calls[d]

Aside == {"unused", "queued", "acquiring", "done"}

LEMMA AsideKeeps ==
  ASSUME IInv, NEW c \in Calls, Only(c),
         calls[c].at \in Aside, calls'[c].at \in Aside, calls[c].candidate = None,
         calls'[c].candidate = None,
         UNCHANGED << generation, client, closed, teardown, samples, step, pending,
                      presenting, snapshot, reserved, requests, replies, worker,
                      hidden, toggles, disturbed >>,
         Types', CallsOK', WatchOK',
         operation' # None => teardown = "none",
         paused' = paused \/ (teardown = "none" /\ Busy(c)),
         phase' \in {"Ready", "Replacing", "Failed"} \/ phase' = phase,
         teardown = "none" => PlacesOK'
  PROVE  IInv'
<1>1. CallsOK /\ \A d \in Calls : Replaces(d) => Busy(d) /\ calls[d].at \notin Aside
  BY DEF IInv, Replaces, Busy, Ahead, Adopted, Halting, Aside
<1>2. \A d \in Calls : calls'[d].at \notin Aside \/ calls[d].at \notin Aside =>
        calls'[d] = calls[d]
  BY DEF Only
<1>3. \A d \in Calls : /\ Replaces(d)' <=> Replaces(d)
                       /\ calls'[d].at \in Ahead <=> calls[d].at \in Ahead
                       /\ calls'[d].at \in Waits <=> calls[d].at \in Waits
  BY <1>2 DEF Replaces, Ahead, Adopted, Halting, Waits, Aside
<1>4. MessagesIn(requests, replies, step, calls)
  BY DEF IInv, MessagesOK
<1>5. /\ requests \in Seq(RequestType) /\ replies \in Seq(ReplyType)
      /\ generation \in Generations
  BY DEF IInv, Types, WorkTypes, SessionTypes
<1>6. \A d \in Calls : calls[d].at \in Aside => NoMessage(requests, replies, d)
  BY <1>4 DEF MessagesIn, Aside, Waits
<1>7. \A i \in DOMAIN requests : requests[i].from # None =>
        requests[i].from \in Calls /\ calls'[requests[i].from] = calls[requests[i].from]
  <2>1. \A i \in DOMAIN requests : requests[i] \in RequestType
    BY <1>5, Elements
  <2>2. ASSUME NEW i \in DOMAIN requests, requests[i].from # None
        PROVE  requests[i].from \in Calls /\ calls[requests[i].from].at \notin Aside
    BY <1>6, <2>1, <2>2 DEF RequestType, NoMessage, Absent
  <2>3. QED
    BY <1>2, <2>2
<1>8. \A i \in DOMAIN replies : replies[i].from # None =>
        replies[i].from \in Calls /\ calls'[replies[i].from] = calls[replies[i].from]
  <2>1. \A i \in DOMAIN replies : replies[i] \in ReplyType
    BY <1>5, Elements
  <2>2. ASSUME NEW i \in DOMAIN replies, replies[i].from # None
        PROVE  replies[i].from \in Calls /\ calls[replies[i].from].at \notin Aside
    BY <1>6, <2>1, <2>2 DEF ReplyType, NoMessage, Absent
  <2>3. QED
    BY <1>2, <2>2
<1>9. MessagesOK'
  BY <1>3, <1>4, <1>7 DEF MessagesIn, MessagesOK
<1>10. SessionOK'
  BY DEF IInv, SessionOK
\* The gate changes only where nothing is being replaced.
<1>11. paused' = paused \/ (teardown = "none" /\ \A d \in Calls : ~Replaces(d))
  <2>1. ASSUME Busy(c), NEW d \in Calls, Replaces(d) PROVE FALSE
    <3>1. d = c
      BY <1>1, <2>1, OneLive
    <3>2. QED
      BY <1>1, <2>1, <3>1
  <2>2. QED
    BY <2>1
<1>12. ASSUME disturbed' = {} PROVE StillOK'
  <2>1. StillOK
    BY <1>12 DEF IInv
  <2>2. \A d \in Calls : Replaces(d)' => Replaces(d) /\ calls'[d].at = calls[d].at
    BY <1>2, <1>3 DEF Replaces, Ahead, Adopted, Halting, Aside
  <2>3. CASE paused' = paused
    BY <2>1, <2>2, <2>3 DEF StillOK
  <2>4. CASE teardown = "none" /\ \A d \in Calls : ~Replaces(d)
    BY <1>3, <2>4 DEF StillOK
  <2>5. QED
    BY <1>11, <2>3, <2>4
<1>13. QueueOK'
  <2>1. QueueOK /\ (LastIsCurrent' <=> LastIsCurrent)
    BY DEF IInv, LastIsCurrent, Sample
  <2>2. ASSUME NEW d \in Calls, calls'[d].at \in Ahead
        PROVE  calls[d].at \in Ahead /\ paused' = paused
    BY <1>3, <1>11, <2>2 DEF Replaces
  <2>3. QED
    BY <2>1, <2>2 DEF QueueOK
<1>14. \A d \in Calls : /\ Swapped(d)' <=> Swapped(d)
                        /\ Holds(d)' <=> Holds(d)
                        /\ MayHold(d)' <=> MayHold(d)
                        /\ Untouched(d)' <=> Untouched(d)
                        /\ Swapped(d) \/ MayHold(d) => calls'[d] = calls[d]
  <2>1. TAKE d \in Calls
  <2>2. (ToldOf(d)' <=> ToldOf(d)) /\ (AskedOf(d)' <=> AskedOf(d))
    BY DEF ToldOf, AskedOf
  <2>3. CASE calls'[d] = calls[d]
    BY <2>2, <2>3 DEF Swapped, MayHold, Holds, StagedOnce, Untouched
  <2>4. CASE calls'[d].at \in Aside /\ calls[d].at \in Aside
    BY <2>4 DEF Swapped, MayHold, Holds, StagedOnce, Untouched, Aside
  <2>5. QED
    BY <1>2, <2>3, <2>4
<1>15. ASSUME teardown = "none" PROVE WorkerOK'
  <2>1. WorkerOK
    BY <1>15 DEF IInv
  <2>2. \A d \in Calls : Holds(d) => MayHold(d)
    BY DEF MayHold
  <2>3. QED
    BY <1>8, <1>14, <2>1, <2>2 DEF WorkerOK
<1>16. ASSUME teardown = "none" PROVE ShownOK'
  <2>1. ShownOK
    BY <1>16 DEF IInv
  <2>2. generation # None
    BY <1>5, GenerationsAreNot0
  <2>3. Abandoned => Abandoned'
    <3>1. ASSUME NEW d \in Calls, calls[d].candidate = generation,
                 calls[d].outcome # "none"
          PROVE  calls'[d] = calls[d]
      BY <2>2, <3>1 DEF Only
    <3>2. QED
      BY <3>1 DEF Abandoned
  <2>4. Unseen' <=> Unseen
    <3>1. \A d \in Calls : calls'[d].at \in {"baseline", "observing"} <=>
                           calls[d].at \in {"baseline", "observing"}
      BY <1>2 DEF Aside
    <3>2. QED
      BY <3>1 DEF Unseen
  <2>5. TicksOK => TicksOK'
    <3>1. Coming' = Coming
      BY DEF Coming
    <3>2. QED
      BY <3>1, SameTicks
  <2>6. QED
    BY <1>14, <2>1, <2>3, <2>4, <2>5 DEF ShownOK
<1>17. ASSUME teardown = "none", disturbed = {} PROVE QuietOK'
  <2>1. QuietOK
    BY <1>17 DEF IInv
  <2>2. \A d \in Calls : Replaces(d)' => Replaces(d) /\ calls'[d] = calls[d]
    BY <1>2, <1>3 DEF Replaces, Ahead, Adopted, Halting, Aside
  <2>3. \A d \in Calls : Untouched(d)' => Untouched(d) /\ calls'[d] = calls[d]
    BY <1>2, <1>14 DEF Untouched, Aside
  <2>4. QED
    BY <1>8, <2>1, <2>2, <2>3 DEF QuietOK
<1>18. QED
  BY <1>9, <1>10, <1>12, <1>13, <1>15, <1>16, <1>17 DEF IInv

\* What is true of the calls before and after a call that has its turn.
LEMMA TurnOf ==
  ASSUME CallsOK, NEW c \in Calls, calls[c].at = "queued",
         \A d \in Calls : d < c => calls[d].at = "done"
  PROVE  \A d \in Calls : ~Busy(d)
<1>1. TAKE d \in Calls
<1>2. c \in Nat /\ d \in Nat
  BY CallNumbers
<1>3. c < d => calls[d].at \in {"unused", "queued"}
  BY DEF CallsOK
<1>4. QED
  BY <1>2, <1>3 DEF Busy

LEMMA ChooseKeeps == ASSUME IInv, NEW c \in Calls, Choose(c) PROVE IInv'
<1>1. /\ client /\ ~closed /\ teardown = "none" /\ calls[c].at = "unused"
      /\ \A d \in Calls : d < c => calls[d].at # "unused"
      /\ operation' = c /\ calls' = [calls EXCEPT ![c].at = "queued"]
      /\ UNCHANGED << generation, client, closed, teardown, samples, step, pending,
                      presenting, snapshot, reserved, requests, replies, worker,
                      hidden, toggles, disturbed, paused, phase, failure, watch >>
  BY DEF Choose, Move, sessionVars, screenVars, loopVars, showVars, userVars
<1>2. calls \in [Calls -> CallType] /\ CallsOK
  BY DEF IInv, Types, WorkTypes
<1>3. /\ calls'[c] = [calls[c] EXCEPT !.at = "queued"]
      /\ \A d \in Calls : d # c => calls'[d] = calls[d]
  BY <1>1, <1>2
<1>4. /\ calls'[c].at = "queued" /\ calls'[c].candidate = calls[c].candidate
      /\ calls'[c].previous = calls[c].previous
      /\ calls'[c].attempts = calls[c].attempts /\ calls'[c].outcome = calls[c].outcome
      /\ calls'[c] \in CallType
  <2>1. calls[c] \in CallType /\ "queued" \in Places
    BY <1>2 DEF Places
  <2>2. QED
    BY <1>3, <2>1 DEF CallType
<1>5. Only(c)
  BY <1>2, <1>1, <1>3, <1>4 DEF Only
<1>6. calls[c].candidate = None /\ calls[c].attempts = 0 /\ reserved <= c
  BY <1>1, <1>2 DEF CallsOK
<1>7. Types'
  BY <1>1, <1>5 DEF IInv, Types, SessionTypes, ScreenTypes, LoopTypes, ShowTypes,
                    WorkTypes, Only
<1>8. CallsOK'
  <2>1. \A d, e \in Calls : e < d =>
          /\ calls'[d].at # "unused" => calls'[e].at # "unused"
          /\ calls'[d].at \notin {"unused", "queued"} => calls'[e].at = "done"
    <3>1. TAKE d, e \in Calls
    <3>2. e \in Nat /\ d \in Nat
      BY CallNumbers
    <3>3. e < d => /\ calls[d].at # "unused" => calls[e].at # "unused"
                   /\ calls[d].at \notin {"unused", "queued"} => calls[e].at = "done"
      BY <1>2 DEF CallsOK
    <3>4. CASE d = c
      BY <1>1, <1>3, <1>4, <3>2, <3>4
    <3>5. CASE d # c /\ e = c
      BY <1>1, <1>3, <1>4, <3>3, <3>5
    <3>6. CASE d # c /\ e # c
      BY <1>3, <3>3, <3>6
    <3>7. QED
      BY <3>4, <3>5, <3>6
  <2>2. \A d \in Calls : d # c => (Replaces(d)' <=> Replaces(d))
    BY <1>3 DEF Replaces
  <2>3. ~Replaces(c)'
    BY <1>4 DEF Replaces, Ahead, Adopted, Halting
  <2>4. calls'[c].at \notin Ahead /\ calls[c].outcome = "none"
    BY <1>1, <1>2, <1>4 DEF CallsOK, Ahead, Halting
  <2>5. QED
    BY <1>1, <1>2, <1>3, <1>4, <1>6, <2>1, <2>2, <2>3, <2>4 DEF CallsOK
<1>9. WatchOK'
  BY <1>1 DEF IInv, WatchOK
<1>10. PlacesOK'
  <2>1. PlacesOK
    BY <1>1 DEF IInv
  <2>2. \A d \in Calls : d # c => (Busy(d)' <=> Busy(d))
    BY <1>3 DEF Busy
  <2>3. ~Busy(c)' /\ calls'[c].at \notin Ahead \cup Adopted \cup {"acquiring", "discarding"}
    BY <1>4 DEF Busy, Ahead, Adopted, Halting
  <2>4. QED
    BY <1>1, <1>3, <2>1, <2>2, <2>3 DEF PlacesOK
<1>11. calls[c].at \in Aside /\ calls'[c].at \in Aside /\ calls'[c].candidate = None
  BY <1>1, <1>4, <1>6 DEF Aside
<1>12. QED
  BY <1>1, <1>5, <1>6, <1>7, <1>8, <1>9, <1>10, <1>11, AsideKeeps

LEMMA StartKeeps == ASSUME IInv, NEW c \in Calls, Start(c) PROVE IInv'
<1> DEFINE place == IF Current(c) THEN "acquiring" ELSE "done"
           prior == IF Current(c) THEN generation ELSE calls[c].previous
<1>1. /\ calls[c].at = "queued" /\ \A d \in Calls : d < c => calls[d].at = "done"
      /\ UNCHANGED << generation, client, closed, teardown, samples, step, pending,
                      presenting, snapshot, reserved, requests, replies, worker,
                      hidden, toggles, disturbed, paused, operation >>
  BY DEF Start, sessionVars, loopVars, showVars, userVars
<1>2. /\ calls \in [Calls -> CallType] /\ CallsOK /\ SessionOK
      /\ generation \in Generations /\ hidden \in BOOLEAN
  BY DEF IInv, Types, WorkTypes, SessionTypes
<1>3. IF Current(c)
      THEN /\ calls' = [calls EXCEPT ![c].at = "acquiring", ![c].previous = generation]
           /\ phase' = "Replacing" /\ failure' = "none" /\ watch' = Armed
      ELSE calls' = [calls EXCEPT ![c].at = "done"] /\ UNCHANGED << phase, failure, watch >>
  BY DEF Start, Move, screenVars
<1>4. \A d \in Calls : ~Busy(d)
  BY <1>1, <1>2, TurnOf
<1>5. \A d \in Calls : d # c => calls'[d] = calls[d]
  BY <1>2, <1>3
<1>6. /\ calls'[c].at = place /\ calls'[c].previous = prior
      /\ calls'[c].candidate = calls[c].candidate
      /\ calls'[c].attempts = calls[c].attempts /\ calls'[c].outcome = calls[c].outcome
      /\ calls'[c] \in CallType
  <2>1. calls[c] \in CallType /\ {"acquiring", "done"} \subseteq Places
    BY <1>2 DEF Places
  <2>2. CASE Current(c)
    <3>1. calls'[c] = [calls[c] EXCEPT !.at = "acquiring", !.previous = generation]
      BY <1>2, <1>3, <2>2
    <3>2. QED
      BY <1>2, <2>1, <2>2, <3>1 DEF CallType
  <2>3. CASE ~Current(c)
    <3>1. calls'[c] = [calls[c] EXCEPT !.at = "done"]
      BY <1>2, <1>3, <2>3
    <3>2. QED
      BY <2>1, <2>3, <3>1 DEF CallType
  <2>4. QED
    BY <2>2, <2>3
<1>7. Only(c)
  <2>1. DOMAIN calls' = Calls /\ calls' = [d \in Calls |-> calls'[d]]
    BY <1>2, <1>3
  <2>2. QED
    BY <1>2, <1>5, <1>6, <2>1 DEF Only
<1>8. calls[c].candidate = None /\ calls[c].attempts = 0 /\ reserved <= c
      /\ calls[c].outcome = "none"
  BY <1>1, <1>2 DEF CallsOK
<1>9. Current(c) => teardown = "none" /\ operation = c
  BY <1>2, CallNumbers DEF Current, SessionOK
<1>10. ScreenTypes' /\ WatchOK'
  <2>1. CASE Current(c)
    <3>1. watch' = Armed /\ phase' = "Replacing" /\ failure' = "none" /\ hidden' = hidden
      BY <1>1, <1>3, <2>1
    <3>2. /\ Armed \in Watches /\ Armed.since = 0
          /\ Armed.state = "running" => ~hidden
          /\ Armed.state = "suspended" => hidden
          /\ Armed.visible + Armed.remaining = Budget + Armed.since
      BY <1>2, ArmedOK
    <3> HIDE DEF Armed
    <3>3. ScreenTypes'
      BY <3>1, <3>2 DEF ScreenTypes, Causes
    <3>4. Armed.visible + Armed.remaining >= Budget + Armed.since
      BY <3>2, PageAssumption DEF Watches
    <3>5. WatchOK'
      BY <3>1, <3>2, <3>4 DEF WatchOK
    <3>6. QED
      BY <3>3, <3>5
  <2>2. CASE ~Current(c)
    BY <1>1, <1>3, <2>2 DEF IInv, Types, ScreenTypes, WatchOK
  <2>3. QED
    BY <2>1, <2>2
<1>11. Types'
  BY <1>1, <1>7, <1>10 DEF IInv, Types, SessionTypes, LoopTypes, ShowTypes,
                           WorkTypes, Only
<1> HIDE DEF prior
<1>12. CallsOK'
  <2>1. \A d, e \in Calls : e < d =>
          /\ calls'[d].at # "unused" => calls'[e].at # "unused"
          /\ calls'[d].at \notin {"unused", "queued"} => calls'[e].at = "done"
    <3>1. TAKE d, e \in Calls
    <3>2. e \in Nat /\ d \in Nat
      BY CallNumbers
    <3>3. e < d => /\ calls[d].at # "unused" => calls[e].at # "unused"
                   /\ calls[d].at \notin {"unused", "queued"} => calls[e].at = "done"
      BY <1>2 DEF CallsOK
    <3>4. CASE d = c
      BY <1>1, <1>5, <1>6, <3>2, <3>4
    <3>5. CASE d # c /\ e = c
      BY <1>1, <1>5, <1>6, <3>3, <3>5
    <3>6. CASE d # c /\ e # c
      BY <1>5, <3>3, <3>6
    <3>7. QED
      BY <3>4, <3>5, <3>6
  <2>2. \A d \in Calls : d # c => (Replaces(d)' <=> Replaces(d))
    BY <1>5 DEF Replaces
  <2>3. ~Replaces(c)' /\ calls'[c].at \notin Ahead
    BY <1>6 DEF Replaces, Ahead, Adopted, Halting
  <2>4. ASSUME NEW d \in Calls
        PROVE  /\ calls'[d].at \in {"unused", "queued", "acquiring"} =>
                    calls'[d].candidate = None /\ calls'[d].attempts = 0 /\ reserved' <= d
               /\ calls'[d].at = "unused" => operation' # d
               /\ Replaces(d)' => calls'[d].candidate = reserved'
               /\ calls'[d].candidate # None => calls'[d].candidate > 1
               /\ calls'[d].at \in Ahead => calls'[d].attempts = 0
               /\ calls'[d].at \notin {"discarding", "done"} =>
                    calls'[d].outcome = "none"
               /\ calls'[d].at = "discarding" => calls'[d].outcome # "none"
               /\ calls'[d].outcome \notin {"watchdog", "stale", "overflow"}
    <3>1. CASE d = c
      BY <1>1, <1>6, <1>8, <2>3, <3>1
    <3>2. CASE d # c
      BY <1>1, <1>2, <1>5, <2>2, <3>2 DEF CallsOK
    <3>3. QED
      BY <3>1, <3>2
  <2>5. reserved' <= MaxSwitches + 1 /\ generation' <= MaxSwitches + 2
    BY <1>1, <1>2 DEF CallsOK
  <2>6. QED
    BY <2>1, <2>4, <2>5 DEF CallsOK
<1>13. ASSUME teardown = "none" PROVE PlacesOK'
  <2>1. PlacesOK
    BY <1>13 DEF IInv
  <2>2. \A d \in Calls : d # c =>
          /\ ~Busy(d)'
          /\ calls'[d].at \notin Ahead \cup Adopted
                                    \cup {"selecting", "acquiring", "discarding"}
    BY <1>4, <1>5 DEF Busy, Ahead, Adopted, Halting
  <2>3. calls'[c].at \notin Ahead \cup Adopted \cup {"selecting", "discarding"}
    BY <1>6 DEF Ahead, Adopted, Halting
  <2>4. calls'[c].at = "acquiring" => calls'[c].previous = generation'
    BY <1>1, <1>6 DEF prior
  <2>5. Busy(c)' => phase' # "Ready"
    BY <1>3, <1>6 DEF Busy
  <2>6. QED
    BY <1>1, <2>1, <2>2, <2>3, <2>4, <2>5 DEF PlacesOK
<1>14. calls[c].at \in Aside /\ calls'[c].at \in Aside /\ calls'[c].candidate = None
  BY <1>1, <1>6, <1>8 DEF Aside
<1>15. operation' # None => teardown = "none"
  BY <1>1, <1>2 DEF SessionOK
<1>16. phase' = "Replacing" \/ phase' = phase
  BY <1>3
<1>17. QED
  BY <1>1, <1>7, <1>8, <1>11, <1>12, <1>10, <1>13, <1>14, <1>15, <1>16, AsideKeeps

-----------------------------------------------------------------------------
(* A call that is under way.                                                *)

\* The calls stay in order; of this one it is said what it comes to.
LEMMA CallsInOrder ==
  ASSUME CallsOK, NEW c \in Calls, Busy(c), Only(c), operation' = operation,
         calls'[c].at \notin {"unused", "queued", "acquiring"},
         reserved' = reserved \/ (calls[c].at = "acquiring" /\ reserved' = reserved + 1),
         reserved \in Nat, generation' <= MaxSwitches + 2,
         Replaces(c)' => calls'[c].candidate = reserved',
         calls'[c].candidate # None => calls'[c].candidate > 1,
         calls'[c].at \in Ahead => calls'[c].attempts = 0,
         calls'[c].at \notin {"discarding", "done"} => calls'[c].outcome = "none",
         calls'[c].at = "discarding" => calls'[c].outcome # "none",
         calls'[c].outcome \notin {"watchdog", "stale", "overflow"}
  PROVE  CallsOK'
<1>1. \A d \in Calls : d # c => ~Busy(d) /\ calls'[d] = calls[d]
  BY OneLive DEF Only
<1>2. \A d, e \in Calls : e < d =>
        /\ calls'[d].at # "unused" => calls'[e].at # "unused"
        /\ calls'[d].at \notin {"unused", "queued"} => calls'[e].at = "done"
  <2>1. TAKE d, e \in Calls
  <2>2. e \in Nat /\ d \in Nat
    BY CallNumbers
  <2>3. e < d => /\ calls[d].at # "unused" => calls[e].at # "unused"
                 /\ calls[d].at \notin {"unused", "queued"} => calls[e].at = "done"
    BY DEF CallsOK
  <2>4. CASE d = c
    BY <1>1, <2>2, <2>3, <2>4 DEF Busy
  <2>5. CASE d # c /\ e = c
    BY <1>1, <2>3, <2>5 DEF Busy
  <2>6. CASE d # c /\ e # c
    BY <1>1, <2>3, <2>6
  <2>7. QED
    BY <2>4, <2>5, <2>6
<1>3. ASSUME NEW d \in Calls, d # c
      PROVE  /\ calls'[d].at \in {"unused", "queued", "acquiring"} =>
                  calls'[d].candidate = None /\ calls'[d].attempts = 0 /\ reserved' <= d
             /\ ~Replaces(d)'
  <2>1. c \in Nat /\ d \in Nat
    BY CallNumbers
  <2>2. ~Replaces(d)'
    BY <1>1, <1>3 DEF Busy, Replaces, Ahead, Adopted, Halting
  <2>3. ASSUME calls'[d].at \in {"unused", "queued", "acquiring"}
        PROVE  calls'[d].candidate = None /\ calls'[d].attempts = 0 /\ reserved' <= d
    <3>1. calls[d].candidate = None /\ calls[d].attempts = 0 /\ reserved <= d
      BY <1>1, <1>3, <2>3 DEF CallsOK
    <3>2. CASE reserved' = reserved
      BY <1>1, <1>3, <3>1, <3>2
    <3>3. CASE calls[c].at = "acquiring" /\ reserved' = reserved + 1
      <4>1. reserved <= c
        BY <3>3 DEF CallsOK
      <4>2. ~(d < c)
        BY <1>1, <1>3, <2>3, <3>3 DEF CallsOK
      <4>3. QED
        BY <1>1, <1>3, <2>1, <3>1, <3>3, <4>1, <4>2
    <3>4. QED
      BY <3>2, <3>3
  <2>4. QED
    BY <2>2, <2>3
<1>4. reserved' <= MaxSwitches + 1
  <2>1. CASE reserved' = reserved
    BY <2>1 DEF CallsOK
  <2>2. CASE calls[c].at = "acquiring" /\ reserved' = reserved + 1
    <3>1. reserved <= c /\ c \in Nat /\ c <= MaxSwitches
      BY <2>2, PageAssumption DEF CallsOK, Calls
    <3>2. QED
      BY <2>2, <3>1, PageAssumption
  <2>3. QED
    BY <2>1, <2>2
<1>5. ASSUME NEW d \in Calls
      PROVE  /\ calls'[d].at \in {"unused", "queued", "acquiring"} =>
                  calls'[d].candidate = None /\ calls'[d].attempts = 0 /\ reserved' <= d
             /\ calls'[d].at = "unused" => operation' # d
             /\ Replaces(d)' => calls'[d].candidate = reserved'
             /\ calls'[d].candidate # None => calls'[d].candidate > 1
             /\ calls'[d].at \in Ahead => calls'[d].attempts = 0
             /\ calls'[d].at \notin {"discarding", "done"} => calls'[d].outcome = "none"
             /\ calls'[d].at = "discarding" => calls'[d].outcome # "none"
             /\ calls'[d].outcome \notin {"watchdog", "stale", "overflow"}
  <2>1. CASE d = c
    BY <2>1
  <2>2. CASE d # c
    BY <1>1, <1>3, <2>2 DEF CallsOK
  <2>3. QED
    BY <2>1, <2>2
<1>6. QED
  BY <1>2, <1>4, <1>5 DEF CallsOK

\* A call hears an answer, or asks, or does both, or neither.
Hears(c) ==
  \/ calls[c].at \notin Waits /\ replies' = replies
  \/ replies # << >> /\ Head(replies).from = c /\ replies' = Tail(replies)
AsksFor(c) ==
  \/ calls'[c].at \notin Waits /\ requests' = requests
  \/ /\ calls'[c].at \in Waits /\ calls'[c].candidate \in Generations
     /\ requests' = Append(requests, Request(Asks[calls'[c].at], c,
                                             calls'[c].candidate, FALSE))

LEMMA CallTalks ==
  ASSUME MessagesOK, WorkTypes, CallsOK, NEW c \in Calls, Busy(c), Only(c),
         step' = step, Hears(c), AsksFor(c)
  PROVE  /\ MessagesOK'
         /\ requests' \in Seq(RequestType) /\ replies' \in Seq(ReplyType)
         /\ calls[c].at \in Waits => ToldOf(c)
         /\ ~ToldOf(c)' /\ (AskedOf(c)' <=> calls'[c].at \in Waits)
         /\ \A i \in DOMAIN replies' : replies'[i].from = None
         /\ \A i \in DOMAIN replies' : \E j \in DOMAIN replies : replies[j] = replies'[i]
         /\ \A j \in DOMAIN replies : replies[j].from = None =>
              \E i \in DOMAIN replies' : replies'[i] = replies[j]
<1>1. /\ requests \in Seq(RequestType) /\ replies \in Seq(ReplyType) /\ c # None
      /\ MessagesIn(requests, replies, step, calls)
  BY CallNumbers DEF WorkTypes, MessagesOK
<1>2. \A d \in Calls : d # c => calls'[d] = calls[d] /\ ~Busy(d) /\ calls[d].at \notin Waits
  <2>1. \A d \in Calls : d # c => ~Busy(d)
    BY OneLive
  <2>2. QED
    BY <2>1 DEF Only, Busy, Waits
<1>3. /\ replies' \in Seq(ReplyType) /\ NoMessage(requests, replies', c)
      /\ calls[c].at \in Waits => ToldOf(c)
      /\ \A f : f # c => /\ NoMessage(requests, replies', f) <=> NoMessage(requests, replies, f)
                         /\ Asked(requests, replies', f) <=> Asked(requests, replies, f)
                         /\ Told(requests, replies', f) <=> Told(requests, replies, f)
      /\ \A i \in DOMAIN replies' : \E j \in DOMAIN replies : replies[j] = replies'[i]
      /\ \A j \in DOMAIN replies : replies[j].from = None =>
           \E i \in DOMAIN replies' : replies'[i] = replies[j]
  <2>1. CASE calls[c].at \notin Waits /\ replies' = replies
    BY <1>1, <2>1 DEF MessagesIn
  <2>2. CASE replies # << >> /\ Head(replies).from = c /\ replies' = Tail(replies)
    <3>1. ~NoMessage(requests, replies, c) /\ ~Asked(requests, replies, c)
      BY <1>1, <2>2, Received
    <3>2. calls[c].at \in Waits /\ Told(requests, replies, c)
      BY <1>1, <3>1 DEF MessagesIn
    <3>3. NoMessage(requests, replies', c) /\ \A f : f # c =>
            /\ NoMessage(requests, replies', f) <=> NoMessage(requests, replies, f)
            /\ Asked(requests, replies', f) <=> Asked(requests, replies, f)
            /\ Told(requests, replies', f) <=> Told(requests, replies, f)
      BY <1>1, <2>2, <3>2, Received
    <3>4. replies' \in Seq(ReplyType)
      BY <1>1, <2>2, Taken
    <3>5. \A i \in DOMAIN replies' : \E j \in DOMAIN replies : replies[j] = replies'[i]
      BY <1>1, <2>2, Taken
    <3>6. \A j \in DOMAIN replies : replies[j].from = None =>
            \E i \in DOMAIN replies' : replies'[i] = replies[j]
      <4>1. \A j \in DOMAIN replies : replies[j].from = None => j # 1
        BY <1>1, <2>2, Taken
      <4>2. \A j \in DOMAIN replies : j # 1 => j - 1 \in DOMAIN Tail(replies) /\ j \in Nat
        BY <1>1, <2>2, Taken
      <4>3. \A j \in DOMAIN replies : j # 1 => Tail(replies)[j - 1] = replies[j]
        BY <1>1, <2>2, <4>2, Taken
      <4>4. QED
        BY <2>2, <4>1, <4>2, <4>3
    <3>7. QED
      BY <3>2, <3>3, <3>4, <3>5, <3>6 DEF ToldOf
  <2>3. QED
    BY <2>1, <2>2 DEF Hears
<1>4. /\ requests' \in Seq(RequestType)
      /\ IF calls'[c].at \in Waits THEN Asked(requests', replies', c)
         ELSE NoMessage(requests', replies', c)
      /\ \A f : f # c =>
           /\ NoMessage(requests', replies', f) <=> NoMessage(requests, replies', f)
           /\ Asked(requests', replies', f) <=> Asked(requests, replies', f)
           /\ Told(requests', replies', f) <=> Told(requests, replies', f)
      /\ \A i \in DOMAIN requests' :
           \/ /\ requests'[i].from = c /\ requests'[i].kind = Asks[calls'[c].at]
              /\ requests'[i].generation = calls'[c].candidate
           \/ requests'[i].from # c /\ \E j \in DOMAIN requests : requests'[i] = requests[j]
  <2>1. \A i \in DOMAIN requests : requests[i].from # c
    BY <1>3 DEF NoMessage, Absent
  <2>2. CASE calls'[c].at \notin Waits /\ requests' = requests
    BY <1>1, <1>3, <2>1, <2>2
  <2>3. CASE /\ calls'[c].at \in Waits /\ calls'[c].candidate \in Generations
             /\ requests' = Append(requests, Request(Asks[calls'[c].at], c,
                                                     calls'[c].candidate, FALSE))
    <3> DEFINE r == Request(Asks[calls'[c].at], c, calls'[c].candidate, FALSE)
    <3>1. Asks[calls'[c].at] \in {"observe", "stage", "activate", "discard"}
      BY <2>3 DEF Asks, Waits
    <3>2. /\ r \in RequestType /\ r.from = c /\ r.kind = Asks[calls'[c].at]
          /\ r.generation = calls'[c].candidate
      BY <2>3, <3>1 DEF Request, RequestType
    <3>3. requests' = Append(requests, r)
      BY <2>3
    <3> HIDE DEF r
    <3>4. /\ Asked(requests', replies', c)
          /\ \A f : f # c =>
               /\ NoMessage(requests', replies', f) <=> NoMessage(requests, replies', f)
               /\ Asked(requests', replies', f) <=> Asked(requests, replies', f)
               /\ Told(requests', replies', f) <=> Told(requests, replies', f)
      BY <1>1, <1>3, <3>2, <3>3, Sent
    <3>5. \A i \in DOMAIN requests' :
            requests'[i] = r \/ (i \in DOMAIN requests /\ requests'[i] = requests[i])
      BY <1>1, <3>2, <3>3, Appended
    <3>6. requests' \in Seq(RequestType)
      BY <1>1, <3>2, <3>3, Appended
    <3>7. QED
      BY <2>1, <2>3, <3>2, <3>4, <3>5, <3>6
  <2>4. QED
    BY <2>2, <2>3 DEF AsksFor
<1>5. ~ToldOf(c)' /\ (AskedOf(c)' <=> calls'[c].at \in Waits)
  BY <1>4, Exclusive DEF ToldOf, AskedOf
<1>6. \A i \in DOMAIN replies' : replies'[i].from = None
  <2>1. \A i \in DOMAIN replies' : replies'[i] \in ReplyType
    BY <1>3, Elements
  <2>2. \A d \in Calls : d # c => NoMessage(requests, replies, d)
    BY <1>1, <1>2 DEF MessagesIn
  <2>3. \A d \in Calls : NoMessage(requests, replies', d)
    BY <1>3, <2>2
  <2>4. QED
    BY <2>1, <2>3 DEF NoMessage, Absent, ReplyType
<1>7. MessagesOK'
  <2>1. /\ step = None => NoMessage(requests', replies', None)
        /\ step # None => Asked(requests', replies', None) \/ Told(requests', replies', None)
    BY <1>1, <1>3, <1>4 DEF MessagesIn
  <2>2. \A d \in Calls :
          /\ calls'[d].at \in Waits => Asked(requests', replies', d) \/ Told(requests', replies', d)
          /\ calls'[d].at \notin Waits => NoMessage(requests', replies', d)
    BY <1>1, <1>2, <1>3, <1>4 DEF MessagesIn
  <2>3. \A i \in DOMAIN requests : requests[i].from # None /\ requests[i].from # c => FALSE
    <3>1. \A i \in DOMAIN requests : requests[i] \in RequestType
      BY <1>1, Elements
    <3>2. \A d \in Calls : d # c => NoMessage(requests, replies, d)
      BY <1>1, <1>2 DEF MessagesIn
    <3>3. QED
      BY <3>1, <3>2 DEF NoMessage, Absent, RequestType
  <2>4. \A i \in DOMAIN requests' :
          /\ requests'[i].from = None =>
               requests'[i].kind = "observe" /\ requests'[i].generation = step
          /\ requests'[i].from # None =>
               /\ requests'[i].kind = Asks[calls'[requests'[i].from].at]
               /\ requests'[i].generation = calls'[requests'[i].from].candidate
    BY <1>1, <1>4, <2>3 DEF MessagesIn
  <2>5. \A i \in DOMAIN replies' : replies'[i].error # "none" => replies'[i].tick = 0
    BY <1>1, <1>3 DEF MessagesIn
  <2>6. QED
    BY <2>1, <2>2, <2>4, <2>5 DEF MessagesOK, MessagesIn
<1>8. QED
  BY <1>3, <1>4, <1>5, <1>6, <1>7

\* What the invariant says of a replacement, said of the one call alone.
WorkerFor(c) ==
  /\ Swapped(c) => worker.active = calls[c].candidate
  /\ ~Swapped(c) => worker.active = generation
  /\ Holds(c) => worker.staged = calls[c].candidate
  /\ worker.staged # None => MayHold(c) /\ worker.staged = calls[c].candidate
PlacesFor(c) ==
  /\ calls[c].at \in Ahead \cup {"discarding"} => calls[c].candidate > generation
  /\ calls[c].at \in Adopted \cup {"selecting"} =>
       calls[c].candidate = generation /\ calls[c].previous # generation
  /\ calls[c].at \in Ahead \cup {"acquiring", "discarding"} =>
       calls[c].previous = generation
  /\ Busy(c) /\ calls[c].at # "selecting" => phase # "Ready"
  /\ pending.generation \in {None, generation}
QuietFor(c) ==
  /\ Replaces(c) /\ calls[c].at \notin {"simulation", "presentation"} =>
       presenting = NoPublication /\ pending = NoPublication
  /\ step # None => step = generation
  /\ pending # NoPublication => presenting # NoPublication
  /\ presenting # NoPublication => presenting.generation = generation
  /\ Untouched(c) /\ calls[c].attempts = 0 => ~worker.baselined

LEMMA ForOne ==
  ASSUME IInv, teardown = "none", NEW c \in Calls, Busy(c)
  PROVE  /\ WorkerFor(c) /\ PlacesFor(c) /\ ShownOK
         /\ disturbed = {} => QuietFor(c) /\ StillOK
         /\ calls[c].outcome # "none" => calls[c].candidate > generation
<1>1. WorkerOK /\ PlacesOK /\ ShownOK /\ CallsOK
  BY DEF IInv
<1>2. \A d \in Calls : d # c => ~Busy(d)
  BY <1>1, OneLive
<1>3. \A d \in Calls : ~Busy(d) => ~Swapped(d) /\ ~MayHold(d)
  BY DEF Busy, Swapped, MayHold, Holds, StagedOnce
<1>4. WorkerFor(c)
  BY <1>1, <1>2, <1>3 DEF WorkerOK, WorkerFor
<1>5. PlacesFor(c)
  BY <1>1 DEF PlacesOK, PlacesFor
<1>6. disturbed = {} => QuietFor(c) /\ StillOK
  BY DEF IInv, QuietOK, QuietFor
<1>7. calls[c].outcome # "none" => calls[c].at = "discarding"
  BY <1>1 DEF CallsOK, Busy
<1>8. QED
  BY <1>1, <1>4, <1>5, <1>6, <1>7 DEF PlacesOK

\* A call that comes to its end in a teardown opens the gate there.
Disturbs ==
  \/ disturbed' = disturbed
  \/ teardown # "none" /\ disturbed' = disturbed \cup {"teardown"}

\* A call under way hears or asks, and changes nothing but what is said here.
Moves(c) ==
  /\ Busy(c) /\ Only(c) /\ Hears(c) /\ AsksFor(c)
  /\ calls[c].at \notin {"simulation", "presentation"}
  /\ calls'[c].at \notin {"unused", "queued", "acquiring"}
  /\ UNCHANGED << client, closed, teardown, step, presenting, operation, worker,
                  hidden, toggles >>
  /\ Disturbs

LEMMA ForAll ==
  ASSUME IInv, NEW c \in Calls, Moves(c), teardown = "none",
         WorkerFor(c)', PlacesFor(c)', disturbed = {} => QuietFor(c)'
  PROVE  WorkerOK' /\ PlacesOK' /\ (disturbed' = {} => QuietOK')
<1>1. \A d \in Calls : d # c => ~Busy(d)'
  <2>1. CallsOK
    BY DEF IInv
  <2>2. \A d \in Calls : d # c => ~Busy(d) /\ calls'[d] = calls[d]
    BY <2>1, OneLive DEF Moves, Only
  <2>3. QED
    BY <2>2 DEF Busy
<1>2. /\ \A i \in DOMAIN replies' : replies'[i].from = None
      /\ \A i \in DOMAIN replies' : \E j \in DOMAIN replies : replies[j] = replies'[i]
  BY CallTalks DEF IInv, Types, Moves
<1>3. \A d \in Calls : ~Busy(d)' =>
        /\ ~Swapped(d)' /\ ~MayHold(d)' /\ ~Untouched(d)'
        /\ calls'[d].at \notin Ahead \cup Adopted
                                 \cup {"selecting", "acquiring", "discarding"}
  BY DEF Busy, Swapped, MayHold, Holds, StagedOnce, Untouched, Ahead, Adopted, Halting
<1>4. \A d \in Calls : Holds(d)' => MayHold(d)'
  BY DEF MayHold
<1>5. WorkerOK'
  <2>1. \A d \in Calls : Swapped(d)' => worker'.active = calls'[d].candidate
    BY <1>1, <1>3 DEF WorkerFor
  <2>2. (\A d \in Calls : ~Swapped(d)') => worker'.active = generation'
    BY DEF WorkerFor
  <2>3. \A d \in Calls : Holds(d)' => worker'.staged = calls'[d].candidate
    BY <1>1, <1>3, <1>4 DEF WorkerFor
  <2>4. worker'.staged # None =>
          \E d \in Calls : MayHold(d)' /\ worker'.staged = calls'[d].candidate
    BY DEF WorkerFor
  <2>5. QED
    BY <1>2, <2>1, <2>2, <2>3, <2>4 DEF WorkerOK
<1>6. PlacesOK'
  BY <1>1, <1>3 DEF PlacesOK, PlacesFor
<1>7. ASSUME disturbed' = {} PROVE QuietOK'
  <2>1. disturbed = {}
    BY <1>7 DEF Moves, Disturbs
  <2>2. QuietOK /\ QuietFor(c)'
    BY <2>1 DEF IInv
  <2>3. \A i \in DOMAIN replies' : replies'[i].error # "stale"
    BY <1>2, <2>2 DEF QuietOK
  <2>4. \A d \in Calls : d # c => ~Replaces(d)'
    BY <1>1, <1>3 DEF Replaces
  <2>5. QED
    BY <1>1, <1>2, <1>3, <2>2, <2>3, <2>4 DEF QuietOK, QuietFor
<1>8. QED
  BY <1>5, <1>6, <1>7

LEMMA CallMoves ==
  ASSUME IInv, NEW c \in Calls, Moves(c),
         generation' \in Generations, reserved' \in Generations, paused' \in BOOLEAN,
         ScreenTypes', ShowTypes',
         \/ generation' = generation
         \/ calls[c].at = "releasing" /\ calls'[c].at \notin Ahead
            /\ generation' <= reserved /\ reserved' = reserved,
         reserved' = reserved \/ (calls[c].at = "acquiring" /\ reserved' = reserved + 1),
         Replaces(c)' => calls'[c].candidate = reserved',
         calls'[c].candidate # None => calls'[c].candidate > 1,
         calls'[c].at \in Ahead => calls'[c].attempts = 0,
         calls'[c].at \notin {"discarding", "done"} => calls'[c].outcome = "none",
         calls'[c].at = "discarding" => calls'[c].outcome # "none",
         calls'[c].outcome \notin {"watchdog", "stale", "overflow"},
         phase' \in {phase, "Failed", "Ready"},
         watch' \in {watch, NoWatch},
         Replaces(c)' =>
           \/ Replaces(c) /\ UNCHANGED << samples, paused >>
              /\ (calls'[c].at \in Ahead => calls[c].at \in Ahead)
           \/ samples' = << >> /\ paused' /\ (calls'[c].at # "simulation" => step = None),
         ~Replaces(c)' =>
           /\ samples' = samples
           /\ \/ paused' = paused \/ paused' = TRUE
              \/ teardown = "none" \/ disturbed' # {},
         teardown = "none" => /\ WorkerFor(c)' /\ PlacesFor(c)' /\ ShownOK'
                              /\ disturbed = {} => QuietFor(c)'
  PROVE  IInv'
<1>1. /\ generation \in Nat /\ reserved \in Nat /\ generation # None /\ generation' # None
      /\ generation' \in Nat /\ generation <= MaxSwitches + 2 /\ MaxSwitches \in Nat
      /\ reserved <= MaxSwitches + 1
  BY GenerationsAreNot0, PageAssumption DEF IInv, Types, SessionTypes, CallsOK
<1>2. generation' <= MaxSwitches + 2
  BY <1>1
<1>3. CallsOK'
  BY <1>1, <1>2, CallsInOrder DEF IInv, Moves
<1>4. MessagesOK' /\ requests' \in Seq(RequestType) /\ replies' \in Seq(ReplyType)
  BY CallTalks DEF IInv, Types, Moves
<1>5. samples \in Seq(SampleType) /\ Len(samples) \in Nat /\ toggles \in Nat
      /\ MaxTransitions \in Nat
  BY PageAssumption DEF IInv, Types, LoopTypes, SessionTypes
<1>6. samples' = samples \/ (samples' = << >> /\ paused' /\ Replaces(c)')
  OBVIOUS
<1>7. LoopTypes'
  <2>1. step' = step
    BY DEF Moves
  <2>2. CASE samples' = samples
    BY <2>1, <2>2 DEF IInv, Types, LoopTypes
  <2>3. CASE samples' = << >>
    BY <1>5, <2>1, <2>3 DEF IInv, Types, LoopTypes
  <2>4. QED
    BY <1>6, <2>2, <2>3
<1>8. SessionTypes'
  BY DEF IInv, Types, SessionTypes, Moves, Disturbs
<1>9. Types'
  BY <1>4, <1>7, <1>8 DEF IInv, Types, WorkTypes, Moves, Only
<1>10. SessionOK'
  <2>1. generation' <= reserved' \/ teardown # "none"
    BY <1>1 DEF IInv, SessionOK
  <2>2. SessionOK
    BY DEF IInv
  <2>3. QED
    BY <2>1, <2>2 DEF SessionOK, Moves, Disturbs
<1>11. WatchOK'
  BY DEF IInv, WatchOK, NoWatch, Moves
<1>12. \A d \in Calls : d # c => ~Busy(d) /\ calls'[d] = calls[d]
  <2>1. CallsOK
    BY DEF IInv
  <2>2. QED
    BY <2>1, OneLive DEF Moves, Only
<1>13. \A d \in Calls : Replaces(d)' => d = c
  BY <1>12 DEF Replaces, Busy, Ahead, Adopted, Halting
<1>14. calls[c].at = "releasing" => Replaces(c) /\ calls[c].at \in Ahead
  BY DEF Replaces, Ahead
<1>15. calls'[c].at \in Ahead => Replaces(c)'
  BY DEF Replaces
<1>16. QueueOK'
  <2>1. QueueOK /\ toggles' = toggles /\ hidden' = hidden
    BY DEF IInv, Moves
  <2>2. ASSUME NEW d \in Calls, calls'[d].at \in Ahead
        PROVE  /\ Len(samples') <= toggles'
               /\ ~paused' => Len(samples') < toggles' \/ LastIsCurrent'
    <3>1. d = c /\ Replaces(c)'
      BY <1>13, <2>2 DEF Replaces
    <3>2. CASE samples' = << >> /\ paused'
      BY <1>5, <2>1, <3>2
    <3>3. CASE UNCHANGED << samples, paused >> /\ calls[c].at \in Ahead
      <4>1. generation' = generation
        BY <2>2, <3>1
      <4>2. LastIsCurrent' <=> LastIsCurrent
        BY <2>1, <3>3, <4>1 DEF LastIsCurrent, Sample
      <4>3. QED
        BY <2>1, <3>3, <4>2 DEF QueueOK
    <3>4. QED
      BY <2>2, <3>1, <3>2, <3>3
  <2>3. Len(samples') <= toggles' \/ (Len(samples') <= toggles' + 1 /\ LastIsCurrent')
    <3>1. CASE samples' = << >>
      BY <1>5, <2>1, <3>1
    <3>2. CASE samples' = samples /\ generation' = generation
      BY <2>1, <3>2 DEF QueueOK, LastIsCurrent, Sample
    <3>3. CASE samples' = samples /\ generation' # generation
      BY <1>14, <2>1, <3>3 DEF QueueOK
    <3>4. QED
      BY <1>6, <3>1, <3>2, <3>3
  <2>4. QED
    BY <2>2, <2>3 DEF QueueOK
<1>17. ASSUME disturbed' = {} PROVE StillOK'
  <2>1. StillOK /\ UNCHANGED << step, teardown >>
    <3>1. disturbed = {}
      BY <1>17 DEF Moves, Disturbs
    <3>2. QED
      BY <3>1 DEF IInv, Moves
  <2>2. ASSUME NEW d \in Calls, Replaces(d)'
        PROVE  /\ paused' /\ samples' = << >>
               /\ calls'[d].at # "simulation" => step' = None
    <3>1. d = c
      BY <1>13, <2>2
    <3>2. CASE samples' = << >> /\ paused' /\ (calls'[c].at # "simulation" => step = None)
      BY <2>1, <3>1, <3>2
    <3>3. CASE Replaces(c) /\ UNCHANGED << samples, paused >>
      BY <2>1, <3>1, <3>3 DEF StillOK, Moves
    <3>4. QED
      BY <2>2, <3>1, <3>2, <3>3
  <2>3. ASSUME teardown' \notin {"none", "gone"}
        PROVE  paused' /\ samples' = << >> /\ step' # generation'
    <3>1. teardown # "none" /\ paused /\ samples = << >> /\ step # generation
      BY <2>1, <2>3 DEF StillOK
    <3>2. paused' /\ samples' = << >>
      BY <1>17, <3>1
    <3>3. calls[c].at = "releasing" => step = None
      BY <1>14, <2>1 DEF StillOK
    <3>4. QED
      BY <1>1, <2>1, <3>1, <3>2, <3>3
  <2>4. QED
    BY <2>2, <2>3 DEF StillOK
<1>18. ASSUME teardown' = "none"
       PROVE  WorkerOK' /\ PlacesOK' /\ ShownOK' /\ (disturbed' = {} => QuietOK')
  <2>1. teardown = "none"
    BY <1>18 DEF Moves
  <2>2. QED
    BY <2>1, ForAll
<1>19. QED
  BY <1>3, <1>4, <1>9, <1>10, <1>11, <1>16, <1>17, <1>18 DEF IInv

\* What is shown stays; the messages of the steps do too.
LEMMA MoveShown ==
  ASSUME IInv, NEW c \in Calls, Moves(c), teardown = "none",
         UNCHANGED << generation, snapshot >>,
         calls[c].at \notin {"baseline", "observing"},
         disturbed = {} => pending' = pending,
         Swapped(c) => Swapped(c)'
  PROVE  ShownOK'
<1>1. ShownOK /\ (calls[c].outcome # "none" => calls[c].candidate > generation)
  BY ForOne DEF Moves
<1>2. generation \in Nat
  BY GenerationsAreNot0 DEF IInv, Types, SessionTypes
<1>3. \A d \in Calls : d # c => ~Busy(d) /\ calls'[d] = calls[d]
  <2>1. CallsOK
    BY DEF IInv
  <2>2. QED
    BY <2>1, OneLive DEF Moves, Only
<1>4. Abandoned => Abandoned'
  <2>1. ASSUME NEW d \in Calls, calls[d].candidate = generation, calls[d].outcome # "none"
        PROVE  calls'[d] = calls[d]
    BY <1>1, <1>2, <1>3, <2>1
  <2>2. QED
    BY <2>1 DEF Abandoned
<1>5. ~Unseen
  BY <1>3 DEF Unseen, Busy
<1>6. \A d \in Calls : Swapped(d) => d = c
  BY <1>3 DEF Swapped, Busy
<1>7. ASSUME disturbed = {}, TicksOK PROVE TicksOK'
  <2>1. Presented' = Presented /\ worker' = worker
    BY <1>7 DEF Presented, Moves
  <2>2. /\ \A i \in DOMAIN replies' : \E j \in DOMAIN replies : replies[j] = replies'[i]
        /\ \A j \in DOMAIN replies : replies[j].from = None =>
             \E i \in DOMAIN replies' : replies'[i] = replies[j]
    BY CallTalks DEF IInv, Types, Moves
  <2>3. \A i \in Coming' : \E j \in Coming : replies[j] = replies'[i]
    BY <2>2 DEF Coming
  <2>4. \A j \in Coming : \E i \in Coming' : replies'[i] = replies[j]
    BY <2>2 DEF Coming
  <2>5. /\ pending' # NoPublication => pending'.first = snapshot'.tick + 1
        /\ \A i \in Coming' : replies'[i].tick = Presented + 1 /\ worker.tick = Presented + 1
        /\ Coming' = {} => worker.tick = Presented
    BY <1>7, <2>3, <2>4 DEF TicksOK
  <2>6. QED
    BY <2>1, <2>5 DEF TicksOK
<1>8. disturbed' = disturbed
  BY DEF Moves, Disturbs
<1>9. ASSUME ~Abandoned', ~Unseen'
      PROVE  /\ snapshot'.generation = generation'
             /\ disturbed' = {} /\ (\A d \in Calls : ~Swapped(d)') => TicksOK'
  <2>1. /\ snapshot.generation = generation
        /\ disturbed = {} /\ (\A d \in Calls : ~Swapped(d)) => TicksOK
    BY <1>1, <1>4, <1>5, <1>9 DEF ShownOK
  <2>2. (\A d \in Calls : ~Swapped(d)') => \A d \in Calls : ~Swapped(d)
    BY <1>6
  <2>3. QED
    BY <1>7, <1>8, <2>1, <2>2
<1>10. QED
  BY <1>9 DEF ShownOK

Reasons == Causes \ {"watchdog", "stale", "overflow"}
\* The session goes on as it was.
SameSession ==
  /\ UNCHANGED << client, closed, teardown, step, presenting, operation, worker,
                  hidden, toggles, generation, reserved, samples >>
  /\ Disturbs
ScreenMoves ==
  /\ ScreenTypes' /\ paused' \in BOOLEAN
  /\ phase' \in {phase, "Failed", "Ready"}
  /\ watch' \in {watch, NoWatch}
  /\ \/ paused' = paused \/ paused' = TRUE
     \/ teardown = "none" \/ disturbed' # {}
\* What is recorded of a call that ends with this cause.
Outcome(cause) == IF cause \in {"none", "selection"} THEN "none" ELSE "refused"

LEMMA Ended ==
  ASSUME calls \in [Calls -> CallType], NEW c \in Calls, NEW cause \in Causes,
         End(c, cause)
  PROVE  /\ Only(c) /\ calls'[c].at = "done" /\ calls'[c].outcome = Outcome(cause)
         /\ calls'[c].candidate = calls[c].candidate /\ calls'[c].previous = None
         /\ calls'[c].attempts = 0
<1> DEFINE k == [NoCall EXCEPT !.at = "done", !.candidate = calls[c].candidate,
                               !.outcome = Outcome(cause)]
<1>1. calls' = [calls EXCEPT ![c] = k]
  BY DEF End, Outcome
<1>2. NoCall \in CallType /\ calls[c] \in CallType /\ Outcome(cause) \in Causes
  BY PageAssumption DEF NoCall, CallType, Places, Causes, Outcome
<1>3. /\ k.at = "done" /\ k.outcome = Outcome(cause) /\ k.candidate = calls[c].candidate
      /\ k.previous = NoCall.previous /\ k.attempts = NoCall.attempts
      /\ k \in CallType
  BY <1>2 DEF CallType, Places
<1>4. NoCall.previous = None /\ NoCall.attempts = 0
  BY DEF NoCall
<1> HIDE DEF k
<1>5. calls' \in [Calls -> CallType] /\ calls'[c] = k
      /\ \A d \in Calls : d # c => calls'[d] = calls[d]
  BY <1>1, <1>3
<1>6. QED
  BY <1>3, <1>4, <1>5 DEF Only

\* A call under way comes to its end.
LEMMA EndKeeps ==
  ASSUME IInv, NEW c \in Calls, Busy(c), NEW cause \in Reasons, End(c, cause),
         calls[c].at \notin {"simulation", "presentation", "acquiring"},
         Hears(c), requests' = requests, SameSession, ScreenMoves, ShowTypes',
         pending' \in {pending, NoPublication},
         teardown = "none" =>
           \/ /\ calls[c].at \in {"probing", "selecting", "discarding"}
              /\ UNCHANGED << snapshot, pending >>
           \/ calls[c].at \in Adopted /\ Outcome(cause) # "none" /\ pending' = pending
  PROVE  IInv'
<1>1. calls \in [Calls -> CallType] /\ CallsOK /\ cause \in Causes
  BY DEF IInv, Types, WorkTypes, Reasons
<1>2. /\ Only(c) /\ calls'[c].at = "done" /\ calls'[c].outcome = Outcome(cause)
      /\ calls'[c].candidate = calls[c].candidate /\ calls'[c].previous = None
      /\ calls'[c].attempts = 0
  BY <1>1, Ended
<1>3. Moves(c)
  BY <1>2 DEF Moves, AsksFor, Waits, SameSession
<1>4. ~Replaces(c)' /\ calls'[c].at \notin Ahead
  BY <1>2 DEF Replaces, Ahead, Adopted, Halting
<1>5. calls'[c].candidate # None => calls'[c].candidate > 1
  BY <1>1, <1>2 DEF CallsOK
<1>6. Outcome(cause) \notin {"watchdog", "stale", "overflow"}
  BY DEF Outcome
<1>7. UNCHANGED << generation, reserved, samples, worker, step, presenting >>
  BY DEF SameSession
<1>8. generation \in Generations /\ reserved \in Generations
  BY DEF IInv, Types, SessionTypes
<1>9. ASSUME teardown = "none"
      PROVE  /\ WorkerFor(c)' /\ PlacesFor(c)' /\ ShownOK'
             /\ disturbed = {} => QuietFor(c)'
  <2>1. /\ WorkerFor(c) /\ PlacesFor(c)
        /\ disturbed = {} => QuietFor(c)
    BY <1>9, ForOne
  <2>2. calls[c].at \in Adopted \cup {"selecting", "discarding"}
    BY <1>9 DEF Adopted
  <2>3. calls[c].at \in Waits => ~AskedOf(c)
    <3>1. calls[c].at \in Waits => ToldOf(c)
      BY <1>3, CallTalks DEF IInv, Types, Moves
    <3>2. QED
      BY <3>1, Exclusive DEF AskedOf, ToldOf
  <2>4. ~Swapped(c) /\ ~MayHold(c)
    BY <2>2, <2>3 DEF Swapped, MayHold, Holds, StagedOnce, Adopted, Waits
  <2>5. ~Swapped(c)' /\ ~Holds(c)' /\ ~Untouched(c)' /\ ~Busy(c)'
    BY <1>2 DEF Swapped, Holds, StagedOnce, Untouched, Busy
  <2>6. WorkerFor(c)'
    BY <1>7, <2>1, <2>4, <2>5 DEF WorkerFor
  <2>7. PlacesFor(c)'
    BY <1>2, <1>4, <1>7, <1>9, <2>1, <2>5 DEF PlacesFor, Ahead, Adopted, Halting
  <2>8. disturbed = {} => QuietFor(c)'
    BY <1>4, <1>7, <1>9, <2>1, <2>5 DEF QuietFor
  <2>9. ShownOK'
    <3>1. CASE calls[c].at \in Adopted /\ Outcome(cause) # "none"
      <4>1. calls'[c].candidate = generation'
        BY <1>2, <1>7, <2>1, <3>1 DEF PlacesFor
      <4>2. Abandoned'
        BY <1>2, <3>1, <4>1 DEF Abandoned
      <4>3. QED
        BY <4>2 DEF ShownOK
    <3>2. CASE /\ calls[c].at \in {"probing", "selecting", "discarding"}
               /\ UNCHANGED << snapshot, pending >>
      BY <1>3, <1>7, <1>9, <2>4, <3>2, MoveShown
    <3>3. QED
      BY <1>9, <3>1, <3>2
  <2>10. QED
    BY <2>6, <2>7, <2>8, <2>9
<1>10. QED
  BY <1>2, <1>3, <1>4, <1>5, <1>6, <1>7, <1>8, <1>9, CallMoves DEF ScreenMoves

LEMMA ConcludeMoves ==
  ASSUME IInv, NEW c \in Calls, NEW cause \in Reasons, Conclude(c, cause),
         UNCHANGED << generation, teardown >>
  PROVE  End(c, cause) /\ ScreenMoves
<1>1. /\ paused \in BOOLEAN /\ hidden \in BOOLEAN /\ cause \in Causes /\ SessionOK
      /\ ScreenTypes
  BY DEF IInv, Types, SessionTypes, Reasons
<1>2. NoWatch \in Watches
  BY PageAssumption DEF NoWatch, Watches
<1>3. Current(c) => teardown = "none"
  BY <1>1, CallNumbers DEF Current, SessionOK
<1>4. QED
  BY <1>1, <1>2, <1>3 DEF Conclude, ScreenMoves, ScreenTypes, Fail, screenVars, Causes

\* One call changes to this.
LEMMA Changed ==
  ASSUME calls \in [Calls -> CallType], NEW c \in Calls, NEW k \in CallType,
         calls' = [calls EXCEPT ![c] = k]
  PROVE  Only(c) /\ calls'[c] = k
<1>1. /\ calls' \in [Calls -> CallType] /\ calls'[c] = k
      /\ \A d \in Calls : d # c => calls'[d] = calls[d]
  OBVIOUS
<1>2. QED
  BY <1>1 DEF Only

\* A call fails after it began to replace the map.
LEMMA CallFailsKeeps ==
  ASSUME IInv, NEW c \in Calls, Busy(c), NEW cause \in Reasons,
         cause \notin {"none", "selection"},
         calls[c].at \in {"presented", "staging", "loading", "activating"} \cup Adopted,
         teardown = "none" => calls[c].at # "activating",
         Hears(c), CallFails(c, cause), SameSession, ShowTypes',
         pending' \in {pending, NoPublication},
         pending' = pending \/ calls[c].at = "presented",
         snapshot' = snapshot \/ calls[c].at \in Adopted
  PROVE  IInv'
<1>1. /\ calls \in [Calls -> CallType] /\ CallsOK /\ cause \in Causes
      /\ generation \in Generations /\ generation # None /\ generation \in Nat
  BY GenerationsAreNot0 DEF IInv, Types, WorkTypes, SessionTypes, Reasons
<1>2. /\ Replaces(c) /\ calls[c].candidate = reserved
      /\ calls[c].at \notin {"simulation", "presentation", "acquiring", "discarding"}
      /\ calls[c].candidate # None => calls[c].candidate > 1
  <2>1. /\ Replaces(c)
        /\ calls[c].at \notin {"simulation", "presentation", "acquiring", "discarding"}
    BY DEF Replaces, Ahead, Adopted, Halting
  <2>2. QED
    BY <1>1, <2>1 DEF CallsOK
<1>3. UNCHANGED << generation, teardown, reserved, samples, worker, step, presenting >>
  BY DEF SameSession
<1>4. CASE client /\ calls[c].candidate \notin {None, generation}
  <2>1. /\ requests' = Append(requests, Request("discard", c, calls[c].candidate, FALSE))
        /\ calls' = [calls EXCEPT ![c].at = "discarding", ![c].outcome = cause]
        /\ UNCHANGED << paused, phase, failure, watch >>
    BY <1>4 DEF CallFails, screenVars
  <2>2. /\ calls'[c].at = "discarding" /\ calls'[c].outcome = cause
        /\ calls'[c].candidate = calls[c].candidate
        /\ calls'[c].previous = calls[c].previous
        /\ calls'[c].attempts = calls[c].attempts /\ Only(c)
    <3> DEFINE k == [calls[c] EXCEPT !.at = "discarding", !.outcome = cause]
    <3>1. calls' = [calls EXCEPT ![c] = k]
      BY <2>1
    <3>2. calls[c] \in CallType
      BY <1>1
    <3>3. /\ k \in CallType /\ k.at = "discarding" /\ k.outcome = cause
          /\ k.candidate = calls[c].candidate /\ k.previous = calls[c].previous
          /\ k.attempts = calls[c].attempts
      BY <1>1, <3>2 DEF CallType, Places
    <3> HIDE DEF k
    <3>4. Only(c) /\ calls'[c] = k
      BY <1>1, <3>1, <3>3, Changed
    <3>5. QED
      BY <3>3, <3>4
  <2>3. calls[c].candidate \in Generations
    BY <1>1, <1>4 DEF CallType
  <2>4. Asks["discarding"] = "discard"
    BY DEF Asks
  <2>5. AsksFor(c)
    BY <2>1, <2>2, <2>3, <2>4 DEF AsksFor, Waits
  <2>6. Moves(c)
    BY <1>2, <2>2, <2>5 DEF Moves, SameSession
  <2>7. ASSUME teardown = "none"
        PROVE  /\ WorkerFor(c)' /\ PlacesFor(c)' /\ ShownOK'
               /\ disturbed = {} => QuietFor(c)'
    <3>1. WorkerFor(c) /\ PlacesFor(c) /\ (disturbed = {} => QuietFor(c))
      BY <2>7, ForOne
    <3>2. calls[c].at \in {"presented", "staging", "loading"}
      BY <1>4, <2>7, <3>1 DEF PlacesFor
    <3>3. ~Swapped(c) /\ ~Swapped(c)' /\ ~Holds(c)' /\ ~Untouched(c)'
      BY <2>2, <3>2 DEF Swapped, Holds, StagedOnce, Untouched
    <3>4. AskedOf(c)' /\ MayHold(c)'
      BY <2>2, <2>6, CallTalks DEF IInv, Types, Moves, Waits, MayHold
    <3>5. WorkerFor(c)'
      BY <1>3, <2>2, <3>1, <3>3, <3>4 DEF WorkerFor
    <3>6. NoPublication.generation = None
      BY DEF NoPublication
    <3>7. PlacesFor(c)'
      BY <1>3, <2>1, <2>2, <3>1, <3>2, <3>6 DEF PlacesFor, Ahead, Adopted, Halting, Busy
    <3>8. disturbed = {} => QuietFor(c)'
      BY <1>2, <1>3, <2>2, <3>1, <3>3 DEF QuietFor
    <3>9. disturbed = {} => pending' = pending
      BY <1>2, <3>1 DEF QuietFor
    <3>10. snapshot' = snapshot
      BY <3>2 DEF Adopted
    <3>11. ShownOK'
      BY <1>3, <2>6, <2>7, <3>2, <3>3, <3>9, <3>10, MoveShown
    <3>12. QED
      BY <3>5, <3>7, <3>8, <3>11
  <2>8. /\ generation' \in Generations /\ reserved' \in Generations
        /\ paused' \in BOOLEAN /\ ScreenTypes'
    BY <1>3, <2>1 DEF IInv, Types, SessionTypes, ScreenTypes
  <2>9. /\ calls'[c].at \notin Ahead /\ Replaces(c)' /\ calls'[c].candidate = reserved'
        /\ calls'[c].outcome \notin {"watchdog", "stale", "overflow"}
    BY <1>2, <1>3, <2>2 DEF Ahead, Halting, Replaces, Reasons
  <2>10. QED
    BY <1>2, <1>3, <2>1, <2>2, <2>6, <2>7, <2>8, <2>9, CallMoves
<1>5. CASE ~(client /\ calls[c].candidate \notin {None, generation})
  <2>1. Conclude(c, cause) /\ requests' = requests
    BY <1>5 DEF CallFails
  <2>2. End(c, cause) /\ ScreenMoves
    BY <1>3, <2>1, ConcludeMoves
  <2>3. ASSUME teardown = "none" PROVE calls[c].at \in Adopted /\ pending' = pending
    <3>1. client /\ PlacesFor(c)
      BY <2>3, ForOne DEF IInv, SessionOK
    <3>2. calls[c].at \in Ahead => calls[c].candidate > generation
      BY <3>1 DEF PlacesFor
    <3>3. calls[c].candidate \in {None, generation}
      BY <1>5, <3>1
    <3>4. calls[c].at \notin Ahead
      BY <1>1, <3>2, <3>3 DEF None
    <3>5. calls[c].at \in Adopted
      BY <3>4 DEF Ahead, Halting
    <3>6. QED
      BY <3>5 DEF Adopted
  <2>4. QED
    BY <1>2, <2>1, <2>2, <2>3, EndKeeps DEF Outcome
<1>6. QED
  BY <1>4, <1>5

\* The objects of a map are not there.
LEMMA RefusedKeeps ==
  ASSUME IInv, NEW c \in Calls, calls[c].at = "acquiring", NEW cause \in Reasons,
         CallFails(c, cause),
         UNCHANGED << sessionVars, teardown, loopVars, showVars, operation, reserved,
                      replies, worker, userVars >>
  PROVE  IInv'
<1> USE DEF sessionVars, loopVars, showVars, userVars
<1>1. /\ calls \in [Calls -> CallType] /\ CallsOK /\ cause \in Causes /\ SessionOK
      /\ calls[c].candidate = None /\ generation \in Nat /\ reserved \in Nat
  BY GenerationsAreNot0 DEF IInv, Types, WorkTypes, SessionTypes, Reasons, CallsOK
<1>2. Conclude(c, cause) /\ requests' = requests
  BY <1>1 DEF CallFails
<1>3. End(c, cause) /\ ScreenMoves
  BY <1>2, ConcludeMoves
<1>4. /\ Only(c) /\ calls'[c].at = "done" /\ calls'[c].outcome = Outcome(cause)
      /\ calls'[c].candidate = None
  BY <1>1, <1>3, Ended
<1>5. Busy(c) /\ ~Replaces(c)' /\ calls'[c].at \notin Ahead
  BY <1>4 DEF Busy, Replaces, Ahead, Adopted, Halting
<1>6. /\ generation' <= MaxSwitches + 2
      /\ Outcome(cause) \notin {"watchdog", "stale", "overflow"}
  BY <1>1 DEF CallsOK, Outcome
<1>7. CallsOK'
  BY <1>1, <1>4, <1>5, <1>6, CallsInOrder
<1>8. Types'
  BY <1>2, <1>3, <1>4 DEF IInv, Types, SessionTypes, LoopTypes, ShowTypes, WorkTypes,
                    Only, ScreenMoves
<1>9. WatchOK'
  BY <1>3 DEF IInv, WatchOK, ScreenMoves, NoWatch
<1>10. ASSUME teardown = "none" PROVE PlacesOK'
  <2>1. PlacesOK /\ \A d \in Calls : d # c => ~Busy(d) /\ calls'[d] = calls[d]
    BY <1>1, <1>4, <1>5, <1>10, OneLive DEF IInv, Only
  <2>2. \A d \in Calls : ~Busy(d)'
    BY <1>4, <2>1 DEF Busy
  <2>3. \A d \in Calls : calls'[d].at \notin
          Ahead \cup Adopted \cup {"selecting", "acquiring", "discarding"}
    BY <2>2 DEF Busy, Ahead, Adopted, Halting
  <2>4. QED
    BY <2>1, <2>2, <2>3 DEF PlacesOK
<1>11. /\ operation' # None => teardown = "none"
       /\ paused' = paused \/ (teardown = "none" /\ Busy(c))
       /\ phase' \in {"Ready", "Replacing", "Failed"} \/ phase' = phase
  <2>1. paused' = paused \/ teardown = "none"
    <3>1. Current(c) => teardown = "none"
      BY <1>1, CallNumbers DEF Current, SessionOK
    <3>2. QED
      BY <1>2, <3>1 DEF Conclude
  <2>2. QED
    BY <1>1, <1>3, <1>5, <2>1 DEF ScreenMoves, SessionOK
<1>12. calls[c].at \in Aside /\ calls'[c].at \in Aside
  BY <1>4 DEF Aside
<1>13. QED
  BY <1>1, <1>2, <1>4, <1>7, <1>8, <1>9, <1>10, <1>11, <1>12, AsideKeeps

LEMMA Placed ==
  ASSUME calls \in [Calls -> CallType], NEW c \in Calls, NEW place \in Places,
         Move(c, place)
  PROVE  /\ Only(c) /\ calls'[c].at = place
         /\ calls'[c].previous = calls[c].previous
         /\ calls'[c].candidate = calls[c].candidate
         /\ calls'[c].attempts = calls[c].attempts
         /\ calls'[c].outcome = calls[c].outcome
<1> DEFINE k == [calls[c] EXCEPT !.at = place]
<1>1. calls' = [calls EXCEPT ![c] = k]
  BY DEF Move
<1>2. calls[c] \in CallType
  OBVIOUS
<1>3. /\ k \in CallType /\ k.at = place
      /\ k.candidate = calls[c].candidate /\ k.previous = calls[c].previous
      /\ k.attempts = calls[c].attempts /\ k.outcome = calls[c].outcome
  BY <1>2 DEF CallType
<1> HIDE DEF k
<1>4. Only(c) /\ calls'[c] = k
  BY <1>1, <1>3, Changed
<1>5. QED
  BY <1>3, <1>4

LEMMA AcquiredKeeps ==
  ASSUME IInv, NEW c \in Calls, calls[c].at = "acquiring", Current(c),
         UNCHANGED << sessionVars, teardown, step, showVars, operation, replies,
                      worker, userVars, screenVars, requests >>,
         reserved' = (IF generation > reserved THEN generation ELSE reserved) + 1,
         calls' = [calls EXCEPT ![c].candidate = reserved', ![c].at = AfterSimulation],
         paused' = TRUE, samples' = << >>
  PROVE  IInv'
<1> USE DEF sessionVars, showVars, userVars, screenVars
<1>1. /\ calls \in [Calls -> CallType] /\ CallsOK /\ SessionOK
      /\ generation \in Nat /\ reserved \in Nat /\ generation \in Generations
      /\ reserved # None /\ MaxSwitches \in Nat /\ c \in Nat /\ c <= MaxSwitches
      /\ reserved > 0
  BY GenerationsAreNot0, PageAssumption
     DEF IInv, Types, WorkTypes, SessionTypes, Calls, Generations
<1>2. teardown = "none" /\ generation <= reserved
  <2>1. operation = c /\ c # None
    BY CallNumbers DEF Current
  <2>2. QED
    BY <1>1, <2>1 DEF SessionOK
<1>3. reserved' = reserved + 1 /\ reserved <= c /\ calls[c].attempts = 0
      /\ calls[c].outcome = "none"
  BY <1>1, <1>2 DEF CallsOK
<1>4. reserved' \in Generations /\ reserved' > 1 /\ reserved' > generation
  BY <1>1, <1>2, <1>3 DEF Generations
<1>5. /\ AfterSimulation \in Halting
      /\ AfterSimulation # "simulation" => step = None
      /\ AfterSimulation \notin {"simulation", "presentation"} =>
           presenting = NoPublication
  BY DEF AfterSimulation, AfterPresentation, Idle, Halting
<1> DEFINE place == AfterSimulation
           k == [calls[c] EXCEPT !.candidate = reserved', !.at = place]
<1>6. calls[c] \in CallType /\ place \in Places
  BY <1>1, <1>5 DEF Halting, Places
<1>7. calls' = [calls EXCEPT ![c] = k]
  OBVIOUS
<1> HIDE DEF place
<1>8. /\ k \in CallType /\ k.at = place /\ k.candidate = reserved'
      /\ k.previous = calls[c].previous /\ k.attempts = calls[c].attempts
      /\ k.outcome = calls[c].outcome
  BY <1>4, <1>6 DEF CallType
<1> HIDE DEF k
<1>9. Only(c) /\ calls'[c] = k
  BY <1>1, <1>7, <1>8, Changed
<1>10. place \in Halting /\ (place # "simulation" => step = None)
       /\ (place \notin {"simulation", "presentation"} => presenting = NoPublication)
  BY <1>5 DEF place
<1>11. /\ calls'[c].at = place /\ calls'[c].candidate = reserved'
       /\ calls'[c].previous = calls[c].previous /\ calls'[c].attempts = 0
       /\ calls'[c].outcome = "none"
  BY <1>3, <1>8, <1>9
<1>12. /\ calls'[c].at \in Halting /\ calls'[c].at \in Ahead /\ calls'[c].at \notin Waits
       /\ calls'[c].at \notin Adopted
       /\ calls'[c].at \notin {"unused", "queued", "acquiring", "selecting",
                                "discarding", "done"}
       /\ Replaces(c)' /\ Busy(c) /\ Busy(c)'
  BY <1>10, <1>11 DEF Halting, Ahead, Waits, Replaces, Busy, Adopted
<1>13. Moves(c)
  BY <1>9, <1>12 DEF Moves, Disturbs, Hears, AsksFor, Waits
<1>14. WorkerFor(c) /\ PlacesFor(c) /\ (disturbed = {} => QuietFor(c))
  BY <1>2, <1>12, ForOne
<1>15. ~Swapped(c) /\ ~Swapped(c)' /\ ~MayHold(c) /\ ~Holds(c)' /\ ~Untouched(c)'
  BY <1>11, <1>12 DEF Swapped, MayHold, Holds, StagedOnce, Untouched, Halting
<1>16. WorkerFor(c)'
  BY <1>14, <1>15 DEF WorkerFor
<1>17. PlacesFor(c)'
  BY <1>4, <1>11, <1>12, <1>14 DEF PlacesFor
<1>18. disturbed = {} => QuietFor(c)'
  BY <1>10, <1>11, <1>14, <1>15 DEF QuietFor
<1>19. ShownOK'
  BY <1>2, <1>13, <1>15, MoveShown
<1>20. ScreenTypes' /\ ShowTypes' /\ paused' \in BOOLEAN /\ calls'[c].candidate > 1
  BY <1>4, <1>11 DEF IInv, Types, ScreenTypes, ShowTypes
<1>21. calls'[c].at # "simulation" => step = None
  BY <1>10, <1>11
<1>22. calls'[c].outcome \notin {"watchdog", "stale", "overflow"}
  BY <1>11
<1>23. QED
  BY <1>1, <1>3, <1>4, <1>11, <1>12, <1>13, <1>16, <1>17, <1>18, <1>19, <1>20,
     <1>21, <1>22, CallMoves

LEMMA AcquireKeeps == ASSUME IInv, NEW c \in Calls, AcquireMap(c) PROVE IInv'
<1>1. CASE Current(c) /\ paused' = TRUE
           /\ UNCHANGED << screenVars, requests >> /\ samples' = << >>
           /\ reserved' = (IF generation > reserved THEN generation ELSE reserved) + 1
           /\ calls' = [calls EXCEPT ![c].candidate = reserved', ![c].at = AfterSimulation]
  BY <1>1, AcquiredKeeps DEF AcquireMap
<1>2. CASE CallFails(c, "refused") /\ UNCHANGED << reserved, samples >>
  <2>1. "refused" \in Reasons
    BY DEF Reasons, Causes
  <2>2. QED
    BY <1>2, <2>1, RefusedKeeps DEF AcquireMap, loopVars
<1>3. QED
  BY <1>1, <1>2 DEF AcquireMap

\* A call goes on to what comes next.
Onward(at, place) ==
  \/ at = "presented" /\ place = "staging"
  \/ at = "staging" /\ place = "loading"
  \/ at = "loading" /\ place = "activating"
  \/ at = "activating" /\ place = "releasing"
  \/ at = "baseline" /\ place = "observing"
  \/ at = "initializing" /\ place = "probing"

LEMMA OnwardKeeps ==
  ASSUME IInv, NEW c \in Calls, NEW place \in Places, Move(c, place),
         Onward(calls[c].at, place), Hears(c), AsksFor(c), SameSession,
         calls[c].at = "staging" => Head(replies).error = "none",
         UNCHANGED << paused, screenVars, snapshot >>,
         ShowTypes', pending' \in {pending, NoPublication},
         pending' = pending \/ calls[c].at = "presented"
  PROVE  IInv'
<1> USE DEF screenVars
<1>1. /\ calls \in [Calls -> CallType] /\ CallsOK
      /\ generation \in Generations /\ reserved \in Generations /\ paused \in BOOLEAN
  BY DEF IInv, Types, WorkTypes, SessionTypes
<1>2. /\ Only(c) /\ calls'[c].at = place
      /\ calls'[c].previous = calls[c].previous
      /\ calls'[c].candidate = calls[c].candidate
      /\ calls'[c].attempts = calls[c].attempts
      /\ calls'[c].outcome = calls[c].outcome
  BY <1>1, Placed
<1>3. /\ UNCHANGED << client, closed, teardown, step, presenting, operation, worker,
                      hidden, toggles, generation, reserved, samples >>
      /\ Disturbs
  BY DEF SameSession
<1>4. /\ Busy(c) /\ Replaces(c) /\ Replaces(c)'
      /\ calls'[c].at \in Ahead <=> calls[c].at \in Ahead
      /\ calls'[c].at \in Adopted <=> calls[c].at \in Adopted
      /\ calls[c].at \notin {"simulation", "presentation", "acquiring", "selecting",
                             "discarding"}
      /\ calls'[c].at \notin {"simulation", "presentation", "acquiring", "selecting",
                              "discarding", "unused", "queued", "done"}
  BY <1>2 DEF Busy, Replaces, Ahead, Adopted, Halting, Onward
<1>5. Moves(c)
  BY <1>2, <1>3, <1>4 DEF Moves
<1>6. /\ calls[c].candidate = reserved /\ calls[c].outcome = "none"
      /\ calls[c].candidate # None => calls[c].candidate > 1
      /\ calls'[c].at \in Ahead => calls[c].attempts = 0
  <2>1. calls[c].at \notin {"discarding", "done"} /\ Replaces(c)
    BY <1>4 DEF Busy
  <2>2. /\ calls[c].candidate = reserved /\ calls[c].outcome = "none"
        /\ calls[c].candidate # None => calls[c].candidate > 1
        /\ calls[c].at \in Ahead => calls[c].attempts = 0
    BY <1>1, <2>1 DEF CallsOK
  <2>3. QED
    BY <1>4, <2>2
<1>7. ASSUME teardown = "none"
      PROVE  /\ WorkerFor(c)' /\ PlacesFor(c)' /\ ShownOK'
             /\ disturbed = {} => QuietFor(c)'
  <2>1. WorkerFor(c) /\ PlacesFor(c) /\ (disturbed = {} => QuietFor(c))
    BY <1>4, <1>7, ForOne
  <2>2. /\ ~ToldOf(c)' /\ (AskedOf(c)' <=> calls'[c].at \in Waits)
        /\ calls[c].at \in Waits => ToldOf(c) /\ ~AskedOf(c)
    <3>1. /\ ~ToldOf(c)' /\ (AskedOf(c)' <=> calls'[c].at \in Waits)
          /\ calls[c].at \in Waits => ToldOf(c)
      BY <1>5, CallTalks DEF IInv, Types, Moves
    <3>2. QED
      BY <3>1, Exclusive DEF ToldOf, AskedOf
  <2>3. /\ Swapped(c) <=> calls[c].at = "activating"
        /\ Swapped(c)' <=> calls'[c].at = "releasing"
    BY <1>2, <2>2 DEF Swapped, Onward, Waits
  <2>4. /\ Holds(c) <=> calls[c].at \in {"loading", "staging"}
        /\ MayHold(c) <=> calls[c].at \in {"loading", "staging"}
    <3>1. ASSUME calls[c].at = "staging" PROVE StagedOnce(c)
      <4>1. replies # << >> /\ Head(replies).from = c /\ replies \in Seq(ReplyType)
        BY <3>1 DEF Hears, Waits, IInv, Types, WorkTypes
      <4>2. 1 \in DOMAIN replies /\ replies[1] = Head(replies)
        BY <4>1
      <4>3. QED
        BY <2>2, <3>1, <4>1, <4>2 DEF StagedOnce, Waits
    <3>2. QED
      BY <1>4, <2>2, <3>1 DEF Holds, MayHold, StagedOnce, Onward, Waits
  <2>5. /\ Holds(c)' <=> calls'[c].at \in {"loading", "activating"}
        /\ MayHold(c)' <=> calls'[c].at \in {"loading", "activating"}
    BY <1>4, <2>2 DEF Holds, MayHold, StagedOnce, Waits
  <2>6. /\ Swapped(c) <=> Swapped(c)' 
        /\ MayHold(c) <=> MayHold(c)' 
    BY <1>2, <2>3, <2>4, <2>5 DEF Onward
  <2>7. WorkerFor(c)'
    BY <1>2, <1>3, <2>1, <2>4, <2>5, <2>6 DEF WorkerFor
  <2>8. NoPublication.generation = None
    BY DEF NoPublication
  <2>9. PlacesFor(c)'
    BY <1>2, <1>3, <1>4, <2>1, <2>8 DEF PlacesFor, Busy
  <2>10. disturbed = {} => pending' = pending
    BY <1>4, <2>1 DEF QuietFor
  <2>11. Untouched(c)' => Untouched(c)
    BY <1>2, <2>2 DEF Untouched, Onward, Waits
  <2>12. disturbed = {} => QuietFor(c)'
    BY <1>2, <1>3, <1>4, <2>1, <2>10, <2>11 DEF QuietFor
  <2>13. ShownOK'
    <3>1. CASE calls[c].at = "baseline"
      <4>1. Unseen'
        BY <1>2, <3>1 DEF Unseen, Onward
      <4>2. QED
        BY <4>1 DEF ShownOK
    <3>2. CASE calls[c].at # "baseline"
      <4>1. calls[c].at \notin {"baseline", "observing"}
        BY <3>2 DEF Onward
      <4>2. UNCHANGED << generation, snapshot >>
        BY <1>3
      <4>3. QED
        BY <1>5, <1>7, <2>6, <2>10, <4>1, <4>2, MoveShown
    <3>3. QED
      BY <3>1, <3>2
  <2>14. QED
    BY <2>7, <2>9, <2>12, <2>13
<1>8. ScreenTypes'
  BY DEF IInv, Types, ScreenTypes
<1>9. calls'[c].outcome \notin {"watchdog", "stale", "overflow"}
  BY <1>2, <1>6
<1>10. calls'[c].at # "discarding" /\ UNCHANGED << samples, paused, phase, watch >>
  BY <1>3, <1>4
<1>11. generation' \in Generations /\ reserved' \in Generations /\ paused' \in BOOLEAN
  BY <1>1, <1>3
<1>12. QED
  BY <1>2, <1>3, <1>4, <1>5, <1>6, <1>7, <1>8, <1>9, <1>10, <1>11, CallMoves

LEMMA CandidateOf ==
  ASSUME IInv, NEW c \in Calls, Replaces(c)
  PROVE  calls[c].candidate = reserved /\ reserved \in Generations
<1>1. CallsOK /\ reserved \in Generations
  BY DEF IInv, Types, SessionTypes
<1>2. QED
  BY <1>1 DEF CallsOK

\* A request is sent with the step.
LEMMA AskingKeeps ==
  ASSUME IInv, NEW c \in Calls, NEW place \in Places, Move(c, place),
         Onward(calls[c].at, place), place \in {"staging", "activating", "observing"},
         requests' = Append(requests,
           Request(Asks[place], c, calls[c].candidate, FALSE)),
         SameSession, UNCHANGED << paused, screenVars, snapshot, replies >>,
         ShowTypes', pending' \in {pending, NoPublication},
         pending' = pending \/ calls[c].at = "presented"
  PROVE  IInv'
<1>1. calls \in [Calls -> CallType]
  BY DEF IInv, Types, WorkTypes
<1>2. calls'[c].at = place /\ calls'[c].candidate = calls[c].candidate
  BY <1>1, Placed
<1>3. Replaces(c) /\ calls[c].at \notin Waits /\ calls[c].at # "staging"
  BY DEF Replaces, Ahead, Adopted, Halting, Onward, Waits
<1>4. calls[c].candidate \in Generations
  BY <1>3, CandidateOf
<1>5. AsksFor(c)
  BY <1>2, <1>4 DEF AsksFor, Waits
<1>6. Hears(c)
  BY <1>3 DEF Hears
<1>7. QED
  BY <1>3, <1>5, <1>6, OnwardKeeps

LEMMA PassPresentationKeeps ==
  ASSUME IInv, NEW c \in Calls, PassPresentation(c) PROVE IInv'
<1>1. /\ calls[c].at = "presented" /\ pending' = NoPublication
      /\ GoOn(c, "staging", "stage") /\ SameSession /\ UNCHANGED << snapshot, replies >>
  BY DEF PassPresentation, ResetPresentation, SameSession, Disturbs, sessionVars, loopVars,
         userVars
<1>2. ShowTypes'
  BY <1>1 DEF IInv, Types, ShowTypes, SameSession, Publications
<1>3. CASE Current(c)
  <2>1. /\ Move(c, "staging") /\ UNCHANGED << paused, screenVars >>
        /\ requests' = Append(requests,
             Request("stage", c, calls[c].candidate, FALSE))
    BY <1>1, <1>3 DEF GoOn
  <2>2. "staging" \in Places /\ Asks["staging"] = "stage" /\ Onward(calls[c].at, "staging")
    BY <1>1 DEF Places, Asks, Onward
  <2>3. QED
    BY <1>1, <1>2, <2>1, <2>2, AskingKeeps
<1>4. CASE ~Current(c)
  <2>1. CallFails(c, "superseded") /\ "superseded" \in Reasons
    BY <1>1, <1>4 DEF GoOn, Reasons, Causes
  <2>2. Busy(c) /\ Hears(c)
    BY <1>1 DEF Busy, Hears, Waits
  <2>3. QED
    BY <1>1, <1>2, <2>1, <2>2, CallFailsKeeps
<1>5. QED
  BY <1>3, <1>4

LEMMA LoadMapKeeps ==
  ASSUME IInv, NEW c \in Calls, LoadMap(c) PROVE IInv'
<1>1. /\ calls[c].at = "loading" /\ SameSession
      /\ GoOn(c, "activating", "activate") \/ CallFails(c, "refused")
      /\ UNCHANGED << snapshot, replies, pending >>
  BY DEF LoadMap, SameSession, Disturbs, sessionVars, loopVars, userVars, showVars
<1>2. ShowTypes'
  BY <1>1 DEF IInv, Types, ShowTypes, SameSession
<1>3. CASE Current(c) /\ GoOn(c, "activating", "activate")
  <2>1. /\ Move(c, "activating") /\ UNCHANGED << paused, screenVars >>
        /\ requests' = Append(requests,
             Request("activate", c, calls[c].candidate, FALSE))
    BY <1>3 DEF GoOn
  <2>2. /\ "activating" \in Places /\ Asks["activating"] = "activate"
        /\ Onward(calls[c].at, "activating")
    BY <1>1 DEF Places, Asks, Onward
  <2>3. QED
    BY <1>1, <1>2, <2>1, <2>2, AskingKeeps
<1>4. ASSUME NEW cause \in {"superseded", "refused"}, CallFails(c, cause) PROVE IInv'
  <2>1. cause \in Reasons /\ cause \notin {"none", "selection"}
    BY DEF Reasons, Causes
  <2>2. Busy(c) /\ Hears(c)
    BY <1>1 DEF Busy, Hears, Waits
  <2>3. QED
    BY <1>1, <1>2, <1>4, <2>1, <2>2, CallFailsKeeps
<1>5. QED
  BY <1>1, <1>3, <1>4 DEF GoOn

LEMMA AskInitialKeeps ==
  ASSUME IInv, NEW c \in Calls, AskInitial(c) PROVE IInv'
<1>1. /\ calls[c].at = "baseline" /\ SameSession
      /\ UNCHANGED << snapshot, replies, pending >>
  BY DEF AskInitial, SameSession, Disturbs, sessionVars, loopVars, userVars, showVars
<1>2. ShowTypes'
  BY <1>1 DEF IInv, Types, ShowTypes, SameSession
<1>3. CASE /\ Move(c, "observing") /\ UNCHANGED << paused, screenVars >>
           /\ requests' = Append(requests,
                Request("observe", c, calls[c].candidate, FALSE))
  <2>1. /\ "observing" \in Places /\ Asks["observing"] = "observe"
        /\ Onward(calls[c].at, "observing")
    BY <1>1 DEF Places, Asks, Onward
  <2>2. QED
    BY <1>1, <1>2, <1>3, <2>1, AskingKeeps
<1>4. ASSUME NEW cause \in {"closed", "refused"}, CallFails(c, cause) PROVE IInv'
  <2>1. /\ cause \in Reasons /\ cause \notin {"none", "selection"}
        /\ Busy(c) /\ Hears(c) /\ calls[c].at \in Adopted
    BY <1>1 DEF Reasons, Causes, Busy, Hears, Waits, Adopted
  <2>2. QED
    BY <1>1, <1>2, <1>4, <2>1, CallFailsKeeps
<1>5. QED
  BY <1>3, <1>4 DEF AskInitial

LEMMA InitializeKeeps ==
  ASSUME IInv, NEW c \in Calls, Initialize(c) PROVE IInv'
<1>1. /\ calls[c].at = "initializing" /\ SameSession
      /\ UNCHANGED << snapshot, replies, pending >>
  BY DEF Initialize, SameSession, Disturbs, sessionVars, loopVars, userVars, showVars
<1>2. ShowTypes' /\ Busy(c) /\ Hears(c) /\ calls[c].at \in Adopted
  BY <1>1 DEF IInv, Types, ShowTypes, SameSession, Busy, Hears, Waits, Adopted
<1>3. CASE Move(c, "probing") /\ UNCHANGED << paused, screenVars, requests >>
  <2>1. "probing" \in Places /\ Onward(calls[c].at, "probing")
    BY <1>1 DEF Places, Onward
  <2>2. calls'[c].at = "probing"
    BY <1>3, <2>1, Placed DEF IInv, Types, WorkTypes
  <2>3. AsksFor(c)
    BY <1>3, <2>2 DEF AsksFor, Waits
  <2>4. QED
    BY <1>1, <1>2, <1>3, <2>1, <2>3, OnwardKeeps
<1>4. CASE CallFails(c, "refused")
  <2>1. "refused" \in Reasons
    BY DEF Reasons, Causes
  <2>2. QED
    BY <1>1, <1>2, <1>4, <2>1, CallFailsKeeps
<1>5. QED
  BY <1>3, <1>4 DEF Initialize

\* The map is ready and the player is asked for a team.
LEMMA AskedForTeam ==
  ASSUME IInv, NEW c \in Calls, calls[c].at = "probing", Move(c, "selecting"),
         SameSession, ScreenMoves,
         UNCHANGED << snapshot, pending, requests, replies >>
  PROVE  IInv'
<1>1. /\ calls \in [Calls -> CallType] /\ CallsOK
      /\ generation \in Generations /\ reserved \in Generations
  BY DEF IInv, Types, WorkTypes, SessionTypes
<1>2. /\ Only(c) /\ calls'[c].at = "selecting"
      /\ calls'[c].previous = calls[c].previous
      /\ calls'[c].candidate = calls[c].candidate
      /\ calls'[c].attempts = calls[c].attempts
      /\ calls'[c].outcome = calls[c].outcome
  BY <1>1, Placed DEF Places
<1>3. /\ UNCHANGED << client, closed, teardown, step, presenting, operation, worker,
                      hidden, toggles, generation, reserved, samples >>
      /\ Disturbs
  BY DEF SameSession
<1>4. Busy(c) /\ ~Replaces(c)' /\ calls'[c].at \notin Ahead \cup Waits
  BY <1>2 DEF Busy, Replaces, Ahead, Adopted, Halting, Waits
<1>5. Moves(c)
  BY <1>2, <1>3, <1>4 DEF Moves, Hears, AsksFor, Waits
<1>6. /\ calls[c].outcome = "none"
      /\ calls[c].candidate # None => calls[c].candidate > 1
  <2>1. calls[c].at \notin {"discarding", "done"}
    OBVIOUS
  <2>2. QED
    BY <1>1, <2>1 DEF CallsOK
<1>7. ASSUME teardown = "none"
      PROVE  /\ WorkerFor(c)' /\ PlacesFor(c)' /\ ShownOK'
             /\ disturbed = {} => QuietFor(c)'
  <2>1. WorkerFor(c) /\ PlacesFor(c) /\ (disturbed = {} => QuietFor(c))
    BY <1>4, <1>7, ForOne
  <2>2. /\ ~Swapped(c) /\ ~Swapped(c)' /\ ~MayHold(c) /\ ~Holds(c)' /\ ~Untouched(c)'
    BY <1>2 DEF Swapped, Holds, MayHold, StagedOnce, Untouched
  <2>3. WorkerFor(c)'
    BY <1>3, <2>1, <2>2 DEF WorkerFor
  <2>4. calls[c].candidate = generation /\ calls[c].previous # generation
        /\ pending.generation \in {None, generation}
    BY <2>1 DEF PlacesFor, Adopted
  <2>5. PlacesFor(c)'
    BY <1>2, <1>3, <1>4, <2>4 DEF PlacesFor
  <2>6. disturbed = {} => QuietFor(c)'
    BY <1>3, <1>4, <2>1, <2>2 DEF QuietFor
  <2>7. ShownOK'
    BY <1>3, <1>5, <1>7, <2>2, MoveShown
  <2>8. QED
    BY <2>3, <2>5, <2>6, <2>7
<1>8. ShowTypes'
  BY <1>3 DEF IInv, Types, ShowTypes
<1>9. /\ generation' \in Generations /\ reserved' \in Generations
      /\ generation' = generation /\ reserved' = reserved
      /\ calls'[c].candidate # None => calls'[c].candidate > 1
      /\ calls'[c].outcome = "none" /\ calls'[c].at # "discarding"
      /\ samples' = samples
  BY <1>1, <1>2, <1>3, <1>6
<1>10. QED
  BY <1>4, <1>5, <1>7, <1>8, <1>9, CallMoves DEF ScreenMoves

LEMMA ProbedKeeps == ASSUME IInv, NEW c \in Calls, Probed(c) PROVE IInv'
<1>1. /\ calls[c].at = "probing"
      /\ UNCHANGED << client, closed, teardown, step, presenting, operation, worker,
                      hidden, toggles, generation, reserved, samples, snapshot,
                      pending, replies >>
  BY DEF Probed, sessionVars, loopVars, showVars
<1>2. ShowTypes' /\ Busy(c) /\ Hears(c) /\ calls[c].at \in Adopted
  BY <1>1 DEF IInv, Types, ShowTypes, Busy, Hears, Waits, Adopted
<1>3. CASE /\ End(c, "none") \/ Move(c, "selecting")
           /\ paused' = hidden
           /\ phase' = "Ready" /\ failure' = "none" /\ watch' = NoWatch
           /\ disturbed' = disturbed
                \cup (IF teardown # "none" THEN {"teardown"} ELSE {})
           /\ UNCHANGED requests
  <2>1. Disturbs /\ (teardown = "none" \/ disturbed' # {})
    BY <1>3 DEF Disturbs
  <2>2. SameSession
    BY <1>1, <2>1 DEF SameSession
  <2>3. NoWatch \in Watches /\ hidden \in BOOLEAN
    BY PageAssumption DEF NoWatch, Watches, IInv, Types, SessionTypes
  <2>4. ScreenMoves
    BY <1>3, <2>1, <2>3 DEF ScreenMoves, ScreenTypes, Causes
  <2>5. CASE End(c, "none")
    <3>1. "none" \in Reasons
      BY DEF Reasons, Causes
    <3>2. QED
      BY <1>1, <1>2, <1>3, <2>2, <2>4, <2>5, <3>1, EndKeeps
  <2>6. CASE Move(c, "selecting")
    BY <1>1, <1>3, <2>2, <2>4, <2>6, AskedForTeam
  <2>7. QED
    BY <1>3, <2>5, <2>6
<1>4. CASE CallFails(c, "refused") /\ UNCHANGED disturbed
  <2>1. "refused" \in Reasons /\ SameSession
    BY <1>1, <1>4 DEF Reasons, Causes, SameSession, Disturbs
  <2>2. QED
    BY <1>1, <1>2, <1>4, <2>1, CallFailsKeeps
<1>5. QED
  BY <1>3, <1>4 DEF Probed

\* The choice of a team fails after a disconnect: the map, which was left, is
\* discarded as if it had not been adopted.
LEMMA SelectionDiscarded ==
  ASSUME IInv, NEW c \in Calls, calls[c].at = "selecting",
         client, calls[c].candidate \notin {None, generation},
         CallFails(c, "selection"), SameSession,
         UNCHANGED << snapshot, pending, replies >>
  PROVE  IInv'
<1>1. /\ calls \in [Calls -> CallType] /\ CallsOK
      /\ generation \in Generations /\ reserved \in Generations /\ paused \in BOOLEAN
  BY DEF IInv, Types, WorkTypes, SessionTypes
<1>2. /\ requests' = Append(requests, Request("discard", c, calls[c].candidate, FALSE))
      /\ calls' = [calls EXCEPT ![c].at = "discarding", ![c].outcome = "selection"]
      /\ UNCHANGED << paused, phase, failure, watch >>
  BY DEF CallFails, screenVars
<1>3. /\ calls'[c].at = "discarding" /\ calls'[c].outcome = "selection"
      /\ calls'[c].candidate = calls[c].candidate /\ Only(c)
  <2> DEFINE k == [calls[c] EXCEPT !.at = "discarding", !.outcome = "selection"]
  <2>1. calls' = [calls EXCEPT ![c] = k]
    BY <1>2
  <2>2. calls[c] \in CallType
    BY <1>1
  <2>3. /\ k \in CallType /\ k.at = "discarding" /\ k.outcome = "selection"
        /\ k.candidate = calls[c].candidate
    BY <2>2 DEF CallType, Places, Causes
  <2> HIDE DEF k
  <2>4. Only(c) /\ calls'[c] = k
    BY <1>1, <2>1, <2>3, Changed
  <2>5. QED
    BY <2>3, <2>4
<1>4. calls[c].candidate \in Generations /\ calls[c].candidate > 1
  BY <1>1 DEF CallType, CallsOK
<1>5. Asks["discarding"] = "discard"
  BY DEF Asks
<1>6. AsksFor(c)
  BY <1>2, <1>3, <1>4, <1>5 DEF AsksFor, Waits
<1>7. /\ UNCHANGED << client, closed, teardown, step, presenting, operation, worker,
                      hidden, toggles, generation, reserved, samples >>
      /\ Disturbs
  BY DEF SameSession
<1>8. Moves(c)
  BY <1>3, <1>6, <1>7 DEF Moves, Busy, Hears, Waits
<1>9. teardown # "none"
  <2>1. ASSUME teardown = "none" PROVE FALSE
    <3>1. PlacesFor(c)
      BY <1>8, <2>1, ForOne DEF Moves
    <3>2. QED
      BY <3>1 DEF PlacesFor
  <2>2. QED
    BY <2>1
<1>10. ScreenTypes' /\ ShowTypes'
  BY <1>2, <1>7 DEF IInv, Types, ScreenTypes, ShowTypes
<1>11. ~Replaces(c)' /\ calls'[c].at \notin Ahead
  BY <1>3 DEF Replaces, Ahead, Adopted, Halting
<1>12. QED
  BY <1>1, <1>2, <1>3, <1>4, <1>7, <1>8, <1>9, <1>10, <1>11, CallMoves

LEMMA SelectedKeeps == ASSUME IInv, NEW c \in Calls, Selected(c) PROVE IInv'
<1>1. /\ calls[c].at = "selecting" /\ SameSession
      /\ UNCHANGED << snapshot, replies, pending >>
  BY DEF Selected, SameSession, Disturbs, sessionVars, loopVars, userVars, showVars
<1>2. ShowTypes' /\ Busy(c) /\ Hears(c) /\ {"none", "selection"} \subseteq Reasons
  BY <1>1 DEF IInv, Types, ShowTypes, SameSession, Busy, Hears, Waits, Reasons, Causes
<1>3. CASE End(c, "none") /\ UNCHANGED << paused, screenVars, requests >>
  <2>1. ScreenMoves
    BY <1>3 DEF ScreenMoves, ScreenTypes, screenVars, IInv, Types, SessionTypes
  <2>2. QED
    BY <1>1, <1>2, <1>3, <2>1, EndKeeps
<1>4. CASE CallFails(c, "selection")
  <2>1. CASE client /\ calls[c].candidate \notin {None, generation}
    BY <1>1, <1>4, <2>1, SelectionDiscarded
  <2>2. CASE ~(client /\ calls[c].candidate \notin {None, generation})
    <3>1. Conclude(c, "selection") /\ requests' = requests
      BY <1>4, <2>2 DEF CallFails
    <3>2. End(c, "selection") /\ ScreenMoves
      BY <1>1, <1>2, <3>1, ConcludeMoves DEF SameSession
    <3>3. QED
      BY <1>1, <1>2, <3>1, <3>2, EndKeeps
  <2>3. QED
    BY <2>1, <2>2
<1>5. QED
  BY <1>3, <1>4 DEF Selected

LEMMA AdoptKeeps == ASSUME IInv, NEW c \in Calls, Adopt(c) PROVE IInv'
<1>1. /\ calls[c].at = "releasing" /\ generation' = calls[c].candidate
      /\ pending' = NoPublication /\ Move(c, "baseline")
      /\ UNCHANGED << client, closed, teardown, paused, phase, failure, watch, samples,
                      step, presenting, snapshot, operation, reserved, requests,
                      replies, worker, hidden, toggles, disturbed >>
  BY DEF Adopt, ResetPresentation, screenVars, loopVars, userVars
<1>2. calls \in [Calls -> CallType] /\ CallsOK /\ generation \in Nat
  BY GenerationsAreNot0 DEF IInv, Types, WorkTypes, SessionTypes
<1>3. /\ Only(c) /\ calls'[c].at = "baseline"
      /\ calls'[c].previous = calls[c].previous
      /\ calls'[c].candidate = calls[c].candidate
      /\ calls'[c].attempts = calls[c].attempts
      /\ calls'[c].outcome = calls[c].outcome
  BY <1>1, <1>2, Placed DEF Places
<1>4. /\ Busy(c) /\ Busy(c)' /\ Replaces(c) /\ Replaces(c)'
      /\ calls'[c].at \notin Ahead \cup {"acquiring", "discarding"}
      /\ calls[c].at \in Ahead
      /\ calls'[c].at \in Adopted
  BY <1>1, <1>3 DEF Busy, Replaces, Ahead, Adopted, Halting
<1>5. Moves(c)
  BY <1>1, <1>3, <1>4 DEF Moves, Disturbs, Hears, AsksFor, Waits
<1>6. /\ calls[c].candidate = reserved /\ reserved \in Generations
  BY <1>4, CandidateOf
<1>7. /\ calls[c].outcome = "none"
      /\ calls[c].candidate # None => calls[c].candidate > 1
  <2>1. calls[c].at \notin {"discarding", "done"}
    BY <1>1
  <2>2. QED
    BY <1>2, <2>1 DEF CallsOK
<1>8. ASSUME teardown = "none"
      PROVE  /\ WorkerFor(c)' /\ PlacesFor(c)' /\ ShownOK'
             /\ disturbed = {} => QuietFor(c)'
  <2>1. WorkerFor(c) /\ PlacesFor(c) /\ (disturbed = {} => QuietFor(c) /\ StillOK)
    BY <1>4, <1>8, ForOne
  <2>2. /\ Swapped(c) /\ ~Swapped(c)' /\ ~MayHold(c) /\ ~Holds(c)' /\ Untouched(c)
    BY <1>1, <1>3 DEF Swapped, Holds, MayHold, StagedOnce, Untouched
  <2>3. WorkerFor(c)'
    BY <1>1, <1>3, <2>1, <2>2 DEF WorkerFor
  <2>4. NoPublication.generation = None
    BY DEF NoPublication
  <2>5. calls[c].candidate > generation /\ calls[c].previous = generation
        /\ (Busy(c) /\ calls[c].at # "selecting" => phase # "Ready")
    BY <1>4, <2>1 DEF PlacesFor
  <2>6. generation' # generation
    BY <1>1, <1>2, <2>5
  <2>7. PlacesFor(c)'
    BY <1>1, <1>3, <1>4, <2>4, <2>5, <2>6 DEF PlacesFor
  <2>8. ASSUME disturbed = {} PROVE QuietFor(c)'
    <3>1. calls[c].attempts = 0 => ~worker.baselined
      BY <2>1, <2>2, <2>8 DEF QuietFor
    <3>2. step = None /\ presenting = NoPublication
      BY <1>1, <1>4, <2>1, <2>8 DEF QuietFor, StillOK
    <3>3. QED
      BY <1>1, <1>3, <3>1, <3>2 DEF QuietFor
  <2>9. Unseen'
    BY <1>3 DEF Unseen
  <2>10. QED
    BY <2>3, <2>7, <2>8, <2>9 DEF ShownOK
<1>9. ScreenTypes' /\ ShowTypes' /\ paused' \in BOOLEAN
  BY <1>1 DEF IInv, Types, ScreenTypes, ShowTypes, SessionTypes, Publications
<1>10. generation' <= reserved
  BY <1>1, <1>6, GenerationsAreNot0
<1>11. /\ calls'[c].outcome \notin {"watchdog", "stale", "overflow"}
       /\ calls'[c].at # "discarding" /\ calls'[c].at # "acquiring"
       /\ calls[c].at \notin {"simulation", "presentation"}
  BY <1>1, <1>3, <1>7
<1>12. QED
  BY <1>1, <1>3, <1>4, <1>5, <1>6, <1>7, <1>8, <1>9, <1>10, <1>11, CallMoves

\* A call has its answer.
LEMMA Heard ==
  ASSUME IInv, NEW c \in Calls, replies # << >>, Head(replies).from = c
  PROVE  /\ calls[c].at \in Waits /\ Busy(c)
         /\ Head(replies) \in ReplyType /\ replies[1] = Head(replies)
         /\ 1 \in DOMAIN replies
<1>1. /\ requests \in Seq(RequestType) /\ replies \in Seq(ReplyType)
      /\ MessagesIn(requests, replies, step, calls)
  BY DEF IInv, Types, WorkTypes, MessagesOK
<1>2. ~NoMessage(requests, replies, c)
  BY <1>1, Received
<1>3. calls[c].at \in Waits
  BY <1>1, <1>2 DEF MessagesIn
<1>4. QED
  BY <1>1, <1>3 DEF Waits, Busy

\* An observation for the first tick leads on, or to another one.
LEMMA ObservationKeeps ==
  ASSUME IInv, NEW c \in Calls, calls[c].at = "observing", Only(c),
         calls'[c].at \in {"initializing", "baseline"},
         calls'[c].previous = calls[c].previous,
         calls'[c].candidate = calls[c].candidate,
         calls'[c].outcome = calls[c].outcome,
         calls'[c].at = "baseline" => calls'[c].attempts # 0,
         Hears(c), requests' = requests, SameSession, ShowTypes',
         UNCHANGED << paused, screenVars, pending >>,
         teardown = "none" => ShownOK'
  PROVE  IInv'
<1> USE DEF screenVars
<1>1. /\ CallsOK /\ paused \in BOOLEAN
      /\ generation \in Generations /\ reserved \in Generations
  BY DEF IInv, Types, SessionTypes
<1>2. /\ UNCHANGED << client, closed, teardown, step, presenting, operation, worker,
                      hidden, toggles, generation, reserved, samples >>
      /\ Disturbs
  BY DEF SameSession
<1>3. /\ Busy(c) /\ Busy(c)' /\ Replaces(c) /\ Replaces(c)'
      /\ calls'[c].at \notin Ahead \cup Waits \cup {"discarding"}
      /\ calls'[c].at \notin {"unused", "queued", "acquiring"}
      /\ calls[c].at \in Adopted /\ calls'[c].at \in Adopted
  BY DEF Busy, Replaces, Ahead, Adopted, Halting, Waits
<1>4. Moves(c)
  BY <1>2, <1>3 DEF Moves, AsksFor
<1>5. /\ calls[c].candidate = reserved /\ calls[c].outcome = "none"
      /\ calls[c].candidate # None => calls[c].candidate > 1
  <2>1. calls[c].at \notin {"discarding", "done"}
    OBVIOUS
  <2>2. QED
    BY <1>1, <1>3, <2>1 DEF CallsOK
<1>6. ASSUME teardown = "none"
      PROVE  /\ WorkerFor(c)' /\ PlacesFor(c)'
             /\ disturbed = {} => QuietFor(c)'
  <2>1. WorkerFor(c) /\ PlacesFor(c) /\ (disturbed = {} => QuietFor(c))
    BY <1>3, <1>6, ForOne
  <2>2. /\ ~Swapped(c) /\ ~Swapped(c)' /\ ~MayHold(c) /\ ~Holds(c)'
    BY DEF Swapped, Holds, MayHold, StagedOnce
  <2>3. WorkerFor(c)'
    BY <1>2, <2>1, <2>2 DEF WorkerFor
  <2>4. PlacesFor(c)'
    BY <1>2, <1>3, <2>1 DEF PlacesFor
  <2>5. Untouched(c)' => calls'[c].attempts # 0
    BY DEF Untouched
  <2>6. disturbed = {} => QuietFor(c)'
    BY <1>2, <1>3, <2>1, <2>5 DEF QuietFor
  <2>7. QED
    BY <2>3, <2>4, <2>6
<1>7. ScreenTypes'
  BY DEF IInv, Types, ScreenTypes
<1>8. generation' \in Generations /\ reserved' \in Generations /\ paused' \in BOOLEAN
  BY <1>1, <1>2
<1>9. /\ calls'[c].outcome \notin {"watchdog", "stale", "overflow"}
      /\ calls'[c].outcome = "none" /\ calls[c].at \notin {"simulation", "presentation"}
  BY <1>5
<1>10. /\ calls'[c].candidate = reserved' /\ samples' = samples
       /\ calls'[c].candidate # None => calls'[c].candidate > 1
  BY <1>2, <1>5
<1>11. calls'[c].at \notin Ahead /\ calls'[c].at # "discarding"
  BY <1>3
<1>12. generation' = generation /\ reserved' = reserved
       /\ UNCHANGED << paused, phase, watch >>
  BY <1>2
<1>13. QED
  BY <1>3, <1>4, <1>6, <1>7, <1>8, <1>9, <1>10, <1>11, <1>12, CallMoves

LEMMA ObservedKeeps ==
  ASSUME IInv, NEW c \in Calls, CallReply(c), Observed(c, Head(replies).tick)
  PROVE  IInv'
<1> DEFINE tick == Head(replies).tick
<1>1. /\ replies # << >> /\ Head(replies).from = c /\ replies' = Tail(replies)
      /\ calls[c].at = "observing" /\ SameSession /\ pending' = pending
  BY DEF CallReply, Observed, SameSession, Disturbs, loopVars, userVars
<1>2. /\ Busy(c) /\ Hears(c) /\ tick \in 0..MaxTicks /\ replies[1].from = c
      /\ replies[1].tick = tick /\ 1 \in DOMAIN replies
  BY <1>1, Heard DEF Hears, ReplyType
<1>3. calls \in [Calls -> CallType] /\ ShowTypes /\ Replaces(c) /\ calls[c].at \in Adopted
  BY <1>1 DEF IInv, Types, WorkTypes, Replaces, Adopted
<1>4. calls[c].candidate \in Generations
  BY <1>3, CandidateOf
<1>5. /\ snapshot' = snapshot
         \/ snapshot' = [generation |-> calls[c].candidate, tick |-> tick]
      /\ presenting' = presenting
  BY <1>1 DEF Observed, SameSession
<1>6. ShowTypes'
  BY <1>1, <1>2, <1>3, <1>4, <1>5 DEF ShowTypes, Shots
<1>7. ASSUME NEW cause \in {"superseded", "baseline", "unpublished"}, CallFails(c, cause)
      PROVE  IInv'
  <2>1. cause \in Reasons /\ cause \notin {"none", "selection"}
    BY DEF Reasons, Causes
  <2>2. QED
    BY <1>1, <1>2, <1>3, <1>6, <1>7, <2>1, CallFailsKeeps
<1>8. CASE /\ snapshot' = [generation |-> calls[c].candidate, tick |-> tick] /\ tick # 0
           /\ Move(c, "initializing") /\ UNCHANGED << paused, screenVars, requests >>
  <2>1. /\ Only(c) /\ calls'[c].at = "initializing"
        /\ calls'[c].previous = calls[c].previous
        /\ calls'[c].candidate = calls[c].candidate
        /\ calls'[c].attempts = calls[c].attempts
        /\ calls'[c].outcome = calls[c].outcome
    BY <1>3, <1>8, Placed DEF Places
  <2>2. ASSUME teardown = "none" PROVE ShownOK'
    <3>1. PlacesFor(c) /\ (disturbed = {} => QuietFor(c) /\ StillOK)
      BY <1>2, <2>2, ForOne
    <3>2. snapshot'.generation = generation'
      BY <1>1, <1>3, <1>8, <3>1 DEF PlacesFor, SameSession
    <3>3. ASSUME disturbed = {} PROVE TicksOK'
      <4>1. step = None /\ pending = NoPublication
        BY <1>1, <1>3, <3>1, <3>3 DEF StillOK, QuietFor
      <4>2. Absent(replies, None)
        BY <4>1 DEF IInv, MessagesOK, MessagesIn, NoMessage
      <4>3. replies \in Seq(ReplyType)
        BY DEF IInv, Types, WorkTypes
      <4>4. Absent(Tail(replies), None)
        BY <1>1, <4>2, <4>3, TakenFrom
      <4>5. Coming' = {}
        BY <1>1, <4>4 DEF Coming, Absent
      <4>6. tick = worker.tick
        <5>1. QuietOK /\ c # None
          BY <2>2, <3>3, CallNumbers DEF IInv
        <5>2. QED
          BY <1>1, <1>2, <1>8, <5>1 DEF QuietOK
      <4>7. Presented' = tick /\ worker' = worker /\ pending' = NoPublication
        BY <1>1, <1>8, <4>1 DEF Presented, SameSession
      <4>8. QED
        BY <4>5, <4>6, <4>7 DEF TicksOK
    <3>4. disturbed' = disturbed
      BY <1>1, <2>2 DEF SameSession, Disturbs
    <3>5. QED
      BY <3>2, <3>3, <3>4 DEF ShownOK
  <2>3. QED
    BY <1>1, <1>2, <1>6, <1>8, <2>1, <2>2, ObservationKeeps
<1>9. CASE /\ calls' = [calls EXCEPT ![c].at = "baseline", ![c].attempts = @ + 1]
           /\ calls[c].attempts # MaxAttempts
           /\ UNCHANGED << paused, screenVars, requests >>
  <2> DEFINE k == [calls[c] EXCEPT !.at = "baseline", !.attempts = @ + 1]
  <2>1. calls[c] \in CallType /\ calls' = [calls EXCEPT ![c] = k]
    BY <1>3, <1>9
  <2>2. calls[c].attempts + 1 \in 0..MaxAttempts /\ calls[c].attempts + 1 # 0
    BY <1>9, <2>1, PageAssumption DEF CallType
  <2>3. /\ k \in CallType /\ k.at = "baseline" /\ k.attempts = calls[c].attempts + 1
        /\ k.candidate = calls[c].candidate /\ k.previous = calls[c].previous
        /\ k.outcome = calls[c].outcome
    BY <2>1, <2>2 DEF CallType, Places
  <2> HIDE DEF k
  <2>4. Only(c) /\ calls'[c] = k
    BY <1>3, <2>1, <2>3, Changed
  <2>5. ShownOK'
    <3>1. Unseen'
      BY <2>3, <2>4 DEF Unseen
    <3>2. QED
      BY <3>1 DEF ShownOK
  <2>6. /\ calls'[c].at = "baseline" /\ calls'[c].previous = calls[c].previous
        /\ calls'[c].candidate = calls[c].candidate
        /\ calls'[c].attempts # 0
        /\ calls'[c].outcome = calls[c].outcome
    BY <2>2, <2>3, <2>4
  <2>7. QED
    BY <1>1, <1>2, <1>6, <1>9, <2>4, <2>5, <2>6, ObservationKeeps
<1>10. QED
  BY <1>7, <1>8, <1>9 DEF Observed

LEMMA CallReplyKeeps == ASSUME IInv, NEW c \in Calls, CallReply(c) PROVE IInv'
<1>1. /\ replies # << >> /\ Head(replies).from = c /\ replies' = Tail(replies)
      /\ UNCHANGED << client, closed, teardown, loopVars, presenting, operation,
                      reserved, worker, userVars >>
  BY DEF CallReply
<1>2. Busy(c) /\ Hears(c) /\ calls[c].at \in Waits
  BY <1>1, Heard DEF Hears
<1>3. ASSUME UNCHANGED << generation, pending, snapshot >>
      PROVE  SameSession /\ ShowTypes'
  BY <1>1, <1>3 DEF SameSession, Disturbs, loopVars, userVars, IInv, Types, ShowTypes
<1>4. calls \in [Calls -> CallType]
  BY DEF IInv, Types, WorkTypes
<1>5. CASE Staged(c) /\ Head(replies).error = "none"
  <2>1. /\ calls[c].at = "staging" /\ UNCHANGED << generation, pending, snapshot >>
    BY <1>5 DEF Staged
  <2>2. CASE Current(c)
    <3>1. Move(c, "loading") /\ UNCHANGED << paused, screenVars, requests >>
      BY <1>5, <2>2 DEF Staged
    <3>2. "loading" \in Places /\ Onward(calls[c].at, "loading")
      BY <2>1 DEF Places, Onward
    <3>3. calls'[c].at = "loading"
      BY <1>4, <3>1, <3>2, Placed
    <3>4. AsksFor(c)
      BY <3>1, <3>3 DEF AsksFor, Waits
    <3>5. QED
      BY <1>2, <1>3, <1>5, <2>1, <3>1, <3>2, <3>4, OnwardKeeps
  <2>3. CASE ~Current(c)
    <3>1. CallFails(c, "superseded") /\ "superseded" \in Reasons
      BY <1>5, <2>3 DEF Staged, Reasons, Causes
    <3>2. QED
      BY <1>2, <1>3, <2>1, <3>1, CallFailsKeeps
  <2>4. QED
    BY <2>2, <2>3
<1>6. CASE Activated(c)
  <2>1. /\ calls[c].at = "activating" /\ Move(c, "releasing")
        /\ UNCHANGED << generation, paused, screenVars, requests, pending, snapshot >>
    BY <1>6 DEF Activated
  <2>2. "releasing" \in Places /\ Onward(calls[c].at, "releasing")
    BY <2>1 DEF Places, Onward
  <2>3. calls'[c].at = "releasing"
    BY <1>4, <2>1, <2>2, Placed
  <2>4. AsksFor(c)
    BY <2>1, <2>3 DEF AsksFor, Waits
  <2>5. QED
    BY <1>2, <1>3, <2>1, <2>2, <2>4, OnwardKeeps
<1>7. CASE Observed(c, Head(replies).tick)
  BY <1>7, ObservedKeeps
<1>8. CASE /\ Head(replies).error # "none" /\ calls[c].at # "discarding"
           /\ CallFails(c, "refused") /\ UNCHANGED << generation, pending, snapshot >>
  <2>1. calls[c].at \in {"staging", "activating", "observing"}
    BY <1>2, <1>8 DEF Waits
  <2>2. ASSUME teardown = "none" PROVE calls[c].at # "activating"
    <3>1. WorkerOK /\ c # None
      BY <2>2, CallNumbers DEF IInv
    <3>2. replies[1] = Head(replies) /\ 1 \in DOMAIN replies
      BY <1>1, Heard
    <3>3. QED
      BY <1>1, <1>8, <3>1, <3>2 DEF WorkerOK
  <2>3. "refused" \in Reasons
    BY DEF Reasons, Causes
  <2>4. calls[c].at \in {"presented", "staging", "loading", "activating"} \cup Adopted
    BY <2>1 DEF Adopted
  <2>5. QED
    BY <1>2, <1>3, <1>8, <2>2, <2>3, <2>4, CallFailsKeeps
<1>9. CASE Discarded(c)
  <2>1. /\ calls[c].at = "discarding" /\ Conclude(c, calls[c].outcome)
        /\ UNCHANGED << generation, requests, pending, snapshot >>
    BY <1>9 DEF Discarded
  <2>2. calls[c].outcome \in Reasons
    <3>1. calls[c] \in CallType
      BY <1>4
    <3>2. CallsOK
      BY DEF IInv
    <3>3. QED
      BY <3>1, <3>2 DEF CallsOK, CallType, Reasons
  <2>3. End(c, calls[c].outcome) /\ ScreenMoves
    BY <1>1, <2>1, <2>2, ConcludeMoves
  <2>4. QED
    BY <1>2, <1>3, <2>1, <2>2, <2>3, EndKeeps
<1>10. QED
  BY <1>5, <1>6, <1>7, <1>8, <1>9 DEF CallReply

-----------------------------------------------------------------------------
(* Disconnect and close.                                                    *)

LEMMA LeaveKeeps ==
  ASSUME IInv, NEW closing \in BOOLEAN, Leave(closing) PROVE IInv'
<1>1. /\ client /\ ~closed /\ teardown = "none"
      /\ closed' = closing /\ operation' = None
      /\ paused' = TRUE /\ generation' = generation + 1 /\ samples' = << >>
      /\ watch' \in {watch, NoWatch}
      /\ UNCHANGED << client, phase, failure, step, pending, presenting, snapshot,
                      calls, reserved, requests, replies, worker, hidden, toggles,
                      disturbed >>
      /\ teardown' = AfterSimulation
  BY DEF Leave, showVars, userVars
<1>2. /\ generation \in Nat /\ reserved \in Nat /\ generation <= reserved
      /\ reserved <= MaxSwitches + 1 /\ MaxSwitches \in Nat
      /\ step # None => step \in Nat
      /\ generation # None
  BY <1>1, GenerationsAreNot0, PageAssumption
     DEF IInv, Types, SessionTypes, LoopTypes, SessionOK, CallsOK
<1>3. generation' \in Generations /\ generation' <= MaxSwitches + 2 /\ generation' # None
  BY <1>1, <1>2 DEF Generations, None
<1>4. teardown' \in Halting
  BY <1>1 DEF AfterSimulation, AfterPresentation, Halting
<1>5. Types'
  <2>1. SessionTypes'
    BY <1>1, <1>3, <1>4 DEF IInv, Types, SessionTypes, Halting
  <2>2. NoWatch \in Watches
    BY PageAssumption DEF NoWatch, Watches
  <2>3. ScreenTypes'
    BY <1>1, <2>2 DEF IInv, Types, ScreenTypes
  <2>4. LoopTypes'
    BY <1>1, PageAssumption DEF IInv, Types, LoopTypes
  <2>5. ShowTypes' /\ WorkTypes'
    BY <1>1 DEF IInv, Types, ShowTypes, WorkTypes
  <2>6. QED
    BY <2>1, <2>3, <2>4, <2>5 DEF Types
<1>6. MessagesOK'
  BY <1>1 DEF IInv, MessagesOK, MessagesIn
<1>7. CallsOK'
  <2>1. \A c \in Calls : operation' # c
    BY <1>1, CallNumbers
  <2>2. QED
    BY <1>1, <1>3, <2>1 DEF IInv, CallsOK, Replaces
<1>8. SessionOK'
  BY <1>1, <1>4 DEF SessionOK, Halting
<1>9. WatchOK'
  BY <1>1 DEF IInv, WatchOK, NoWatch
<1>10. QueueOK'
  <2>1. Len(samples') <= toggles'
    BY <1>1 DEF IInv, Types, SessionTypes
  <2>2. QED
    BY <1>1, <2>1 DEF QueueOK
<1>11. ASSUME disturbed' = {} PROVE StillOK'
  <2>1. StillOK /\ (step # None => step = generation)
    BY <1>1, <1>11 DEF IInv, QuietOK
  <2>2. step' # generation'
    BY <1>1, <1>2, <1>3, <2>1
  <2>3. QED
    BY <1>1, <2>1, <2>2 DEF StillOK, Replaces
<1>12. teardown' # "none"
  BY <1>4 DEF Halting
<1>13. QED
  BY <1>5, <1>6, <1>7, <1>8, <1>9, <1>10, <1>11, <1>12 DEF IInv

LEMMA TearDownKeeps == ASSUME IInv, TearDown PROVE IInv'
<1>1. /\ teardown = "presented" /\ teardown' = "disposing" /\ pending' = NoPublication
      /\ UNCHANGED << generation, client, closed, paused, phase, failure, watch,
                      samples, step, presenting, snapshot, operation, calls,
                      reserved, requests, replies, worker, hidden, toggles,
                      disturbed >>
  BY DEF TearDown, ResetPresentation, sessionVars, screenVars, loopVars, userVars
<1>2. Types'
  BY <1>1 DEF IInv, Types, SessionTypes, ScreenTypes, LoopTypes, ShowTypes, WorkTypes,
              Publications
<1>3. MessagesOK' /\ CallsOK'
  BY <1>1 DEF IInv, MessagesOK, MessagesIn, CallsOK, Replaces
<1>4. SessionOK' /\ WatchOK'
  BY <1>1 DEF IInv, SessionOK, WatchOK
<1>5. QueueOK'
  BY <1>1 DEF IInv, QueueOK, LastIsCurrent, Sample
<1>6. disturbed' = {} => StillOK'
  BY <1>1 DEF IInv, StillOK, Replaces
<1>7. QED
  BY <1>1, <1>2, <1>3, <1>4, <1>5, <1>6 DEF IInv

LEMMA DisposeKeeps == ASSUME IInv, Dispose PROVE IInv'
<1>1. /\ teardown = "disposing" /\ teardown' = "shutting"
      /\ UNCHANGED << generation, client, closed, paused, phase, failure, watch,
                      samples, step, pending, presenting, snapshot, operation, calls,
                      reserved, requests, replies, worker, hidden, toggles,
                      disturbed >>
  BY DEF Dispose, sessionVars, screenVars, loopVars, showVars, userVars
<1>2. Types'
  BY <1>1 DEF IInv, Types, SessionTypes, ScreenTypes, LoopTypes, ShowTypes, WorkTypes
<1>3. MessagesOK' /\ CallsOK'
  BY <1>1 DEF IInv, MessagesOK, MessagesIn, CallsOK, Replaces
<1>4. SessionOK' /\ WatchOK'
  BY <1>1 DEF IInv, SessionOK, WatchOK
<1>5. QueueOK'
  BY <1>1 DEF IInv, QueueOK, LastIsCurrent, Sample
<1>6. disturbed' = {} => StillOK'
  BY <1>1 DEF IInv, StillOK, Replaces
<1>7. QED
  BY <1>1, <1>2, <1>3, <1>4, <1>5, <1>6 DEF IInv

LEMMA ShutdownKeeps == ASSUME IInv, Shutdown PROVE IInv'
<1>1. /\ teardown = "shutting" /\ requests = << >> /\ replies = << >>
      /\ teardown' = "gone" /\ client' = FALSE /\ snapshot' = NoSnapshot
      /\ phase' \in {"Closed", "MainMenu"} /\ failure' = "none" /\ watch' = NoWatch
      /\ UNCHANGED << generation, closed, paused, samples, step, pending, presenting,
                      operation, calls, reserved, requests, replies, worker,
                      hidden, toggles, disturbed >>
  BY DEF Shutdown, loopVars, userVars
<1>2. step = None
  <2>1. \A f : NoMessage(requests, replies, f)
    BY <1>1 DEF NoMessage, Absent
  <2>2. QED
    BY <2>1, Exclusive DEF IInv, MessagesOK, MessagesIn
<1>3. Types'
  <2>1. NoWatch \in Watches
    BY PageAssumption DEF NoWatch, Watches
  <2>2. SessionTypes' /\ ScreenTypes'
    BY <1>1, <2>1 DEF IInv, Types, SessionTypes, ScreenTypes, Causes
  <2>3. LoopTypes' /\ ShowTypes' /\ WorkTypes'
    BY <1>1 DEF IInv, Types, LoopTypes, ShowTypes, WorkTypes, Shots
  <2>4. QED
    BY <2>2, <2>3 DEF Types
<1>4. MessagesOK' /\ CallsOK'
  BY <1>1 DEF IInv, MessagesOK, MessagesIn, CallsOK, Replaces
<1>5. SessionOK' /\ WatchOK'
  BY <1>1, <1>2 DEF IInv, SessionOK, WatchOK, NoWatch
<1>6. QueueOK'
  BY <1>1 DEF IInv, QueueOK, LastIsCurrent, Sample
<1>7. disturbed' = {} => StillOK'
  BY <1>1 DEF IInv, StillOK, Replaces
<1>8. QED
  BY <1>1, <1>3, <1>4, <1>5, <1>6, <1>7 DEF IInv

LEMMA StutterKeeps == ASSUME IInv, UNCHANGED vars PROVE IInv'
<1>1. UNCHANGED << sessionVars, teardown, paused, loopVars, showVars, operation,
                   calls, reserved, requests, replies, worker, userVars >>
      /\ UNCHANGED << phase, failure, watch, hidden >>
  BY DEF vars, screenVars, userVars
<1>2. ScreenTypes' /\ WatchOK'
  BY <1>1 DEF IInv, Types, ScreenTypes, WatchOK
<1>3. QED
  BY <1>1, <1>2, ScreenKeeps

LEMMA NextKeeps == ASSUME IInv, [Next]_vars PROVE IInv'
<1>1. ASSUME NEW closing \in BOOLEAN, Leave(closing) PROVE IInv'
  BY <1>1, LeaveKeeps
<1>2. ASSUME NEW c \in Calls,
             \/ Choose(c) \/ Start(c) \/ Progress(c) \/ AcquireMap(c)
             \/ PassPresentation(c) \/ LoadMap(c)
             \/ Adopt(c) \/ AskInitial(c) \/ Initialize(c)
             \/ Probed(c) \/ Selected(c) \/ CallReply(c)
      PROVE  IInv'
  BY <1>2, ChooseKeeps, StartKeeps, ProgressKeeps, AcquireKeeps, PassPresentationKeeps,
     LoadMapKeeps, AdoptKeeps, AskInitialKeeps, InitializeKeeps, ProbedKeeps,
     SelectedKeeps, CallReplyKeeps
<1>3. QED
  BY <1>1, <1>2, ElapseKeeps, ExpireKeeps, FrameKeeps, VisibilityKeeps, StepReplyKeeps,
     FinishPresentKeeps, AnsweringKeeps, TearDownKeeps, DisposeKeeps, ShutdownKeeps,
     StutterKeeps
     DEF Next

\* Whatever the page, the player and the worker do, and in whatever order, each
\* part keeps what the others take for granted of it: IInv is inductive.
THEOREM PageInvariant == Spec => []IInv
<1>1. Init => IInv
  BY InitHolds
<1>2. IInv /\ [Next]_vars => IInv'
  BY NextKeeps
<1>3. QED
  BY <1>1, <1>2, PTL DEF Spec

-----------------------------------------------------------------------------
(* What the invariant says of the page.                                     *)

\* Of the messages of the steps there is none or one.
LEMMA CountOf ==
  ASSUME NEW q, NEW f
  PROVE  /\ Absent(q, f) => Cardinality({i \in DOMAIN q : q[i].from = f}) = 0
         /\ Once(q, f) => Cardinality({i \in DOMAIN q : q[i].from = f}) = 1
<1> DEFINE S == {i \in DOMAIN q : q[i].from = f}
<1>1. ASSUME Absent(q, f) PROVE S = {}
  BY <1>1 DEF Absent
<1>2. ASSUME Once(q, f) PROVE \E k : S = {k}
  <2>1. PICK k \in DOMAIN q : \A j \in DOMAIN q : q[j].from = f <=> j = k
    BY <1>2 DEF Once
  <2>2. S = {k}
    BY <2>1
  <2>3. QED
    BY <2>2
<1> HIDE DEF S
<1>3. (S = {} => Cardinality(S) = 0) /\ ((\E k : S = {k}) => Cardinality(S) = 1)
  BY FS_EmptySet, FS_Singleton
<1>4. (Absent(q, f) => Cardinality(S) = 0) /\ (Once(q, f) => Cardinality(S) = 1)
  BY <1>1, <1>2, <1>3
<1>5. QED
  BY <1>4 DEF S

LEMMA InvariantTypes == IInv => TypeOK
<1> SUFFICES ASSUME IInv PROVE TypeOK
  OBVIOUS
<1>1. Types /\ MessagesIn(requests, replies, step, calls)
  BY DEF IInv, MessagesOK
<1>2. samples \in BoundedSeq(SampleType, MaxTransitions)
  <2>1. samples \in Seq(SampleType) /\ Len(samples) \in 0..MaxTransitions
    BY <1>1, PageAssumption DEF Types, LoopTypes
  <2>2. samples \in [1..Len(samples) -> SampleType]
    BY <2>1
  <2>3. QED
    BY <2>1, <2>2 DEF BoundedSeq, SeqOf
<1> DEFINE asked == Cardinality({i \in DOMAIN requests : requests[i].from = None})
           told == Cardinality({i \in DOMAIN replies : replies[i].from = None})
<1>3. asked + told = (IF step = None THEN 0 ELSE 1)
  <2>1. CASE step = None
    <3>1. asked = 0 /\ told = 0
      BY <1>1, <2>1, CountOf DEF MessagesIn, NoMessage
    <3>2. QED
      BY <2>1, <3>1
  <2>2. CASE step # None
    <3>1. \/ Once(requests, None) /\ Absent(replies, None)
          \/ Absent(requests, None) /\ Once(replies, None)
      BY <1>1, <2>2 DEF MessagesIn, Asked, Told
    <3>2. (asked = 1 /\ told = 0) \/ (asked = 0 /\ told = 1)
      BY <3>1, CountOf
    <3>3. QED
      BY <2>2, <3>2
  <2>3. QED
    BY <2>1, <2>2
<1> HIDE DEF asked, told
<1>4. /\ generation \in Generations /\ {client, closed, paused, hidden} \subseteq BOOLEAN
      /\ teardown \in {"none", "simulation", "presentation",
                       "presented", "disposing", "shutting", "gone"}
      /\ operation \in Calls \cup {None} /\ reserved \in Generations
      /\ toggles \in 0..MaxToggles /\ disturbed \subseteq {"replacement", "teardown"}
  BY <1>1 DEF Types, SessionTypes
<1>5. /\ phase \in {"Ready", "Replacing", "Failed", "MainMenu", "Closed"}
      /\ failure \in Causes
      /\ watch \in [state : {"idle", "running", "suspended"},
                    remaining : 0..Budget, since : 0..Budget, visible : Nat]
  BY <1>1 DEF Types, ScreenTypes, Watches
<1>6. /\ step \in Generations \cup {None} /\ {pending, presenting} \subseteq Publications
      /\ snapshot \in {NoSnapshot} \cup [generation : Generations, tick : 0..MaxTicks]
  BY <1>1 DEF Types, LoopTypes, ShowTypes, Shots
<1>7. /\ calls \in [Calls -> [at : Places, previous : Generations \cup {None},
                              candidate : Generations \cup {None},
                              attempts : 0..MaxAttempts, outcome : Causes]]
      /\ worker \in [active : Generations, staged : Generations \cup {None},
                     baselined : BOOLEAN, tick : 0..MaxTicks]
  BY <1>1 DEF Types, WorkTypes, CallType, Workers
<1>8. QED
  BY <1>2, <1>3, <1>4, <1>5, <1>6, <1>7 DEF TypeOK, SampleType, asked, told

LEMMA InvariantPresents == IInv => PresentationSound
<1> SUFFICES ASSUME IInv PROVE PresentationSound
  OBVIOUS
<1>1. ASSUME Settled
      PROVE  /\ teardown = "none" /\ ~Abandoned /\ ~Unseen
             /\ \A c \in Calls : ~Swapped(c)
             /\ WorkerOK /\ ShownOK
  <2>1. teardown = "none" /\ phase = "Ready" /\ ~Abandoned
    BY <1>1 DEF Settled
  <2>2. WorkerOK /\ PlacesOK /\ ShownOK
    BY <2>1 DEF IInv
  <2>3. \A c \in Calls : Busy(c) => calls[c].at = "selecting"
    BY <2>1, <2>2 DEF PlacesOK
  <2>4. ~Unseen /\ \A c \in Calls : ~Swapped(c)
    BY <2>3 DEF Unseen, Swapped, Busy
  <2>5. QED
    BY <2>1, <2>2, <2>4
<1>2. GenerationsAgree
  <2>1. teardown = "none" => WorkerOK /\ PlacesOK
    BY DEF IInv
  <2>2. Settled => worker.active = generation /\ snapshot.generation = generation
    BY <1>1 DEF WorkerOK, ShownOK
  <2>3. QED
    BY <2>1, <2>2 DEF GenerationsAgree, WorkerOK, PlacesOK
<1>3. ASSUME Settled, disturbed = {}
      PROVE  /\ pending # NoPublication => pending.first = snapshot.tick + 1
             /\ \A i \in Coming : replies[i].tick = Presented + 1
             /\ worker.tick = Presented + Cardinality(Coming)
  <2>1. TicksOK
    BY <1>1, <1>3 DEF ShownOK
  <2>2. \/ Coming = {}
        \/ \E k : Coming = {k}
    <3>1. Absent(replies, None) \/ Once(replies, None)
      BY DEF IInv, MessagesOK, MessagesIn, NoMessage, Asked, Told
    <3>2. CASE Absent(replies, None)
      BY <3>2 DEF Absent, Coming
    <3>3. CASE Once(replies, None)
      <4>1. PICK k \in DOMAIN replies :
              \A j \in DOMAIN replies : replies[j].from = None <=> j = k
        BY <3>3 DEF Once
      <4>2. Coming \subseteq {k}
        BY <4>1 DEF Coming
      <4>3. QED
        BY <4>2
    <3>4. QED
      BY <3>1, <3>2, <3>3
  <2>3. Presented \in Nat
    <3>1. pending \in Publications /\ snapshot \in Shots
      BY DEF IInv, Types, ShowTypes
    <3>2. snapshot.tick \in Nat
      BY <3>1, PageAssumption DEF Shots, NoSnapshot
    <3>3. pending # NoPublication => pending.last \in Nat
      BY <3>1, PageAssumption DEF Publications
    <3>4. QED
      BY <3>2, <3>3 DEF Presented
  <2>4. CASE Coming = {}
    <3>1. Cardinality(Coming) = 0
      BY <2>4, FS_EmptySet
    <3>2. QED
      BY <2>1, <2>3, <2>4, <3>1 DEF TicksOK
  <2>5. CASE \E k : Coming = {k}
    <3>1. Cardinality(Coming) = 1 /\ Coming # {}
      BY <2>5, FS_Singleton
    <3>2. QED
      BY <2>1, <3>1 DEF TicksOK
  <2>6. QED
    BY <2>2, <2>4, <2>5
<1>4. NoTickLost
  BY <1>3 DEF NoTickLost, Coming, Presented
<1>5. QED
  BY <1>2, <1>4 DEF PresentationSound

\* The page and the worker's part in it have the types they are given, the
\* queue of samples keeps its limit and one step at most is with the worker.
THEOREM PageTypes == Spec => []TypeOK
<1>1. IInv => TypeOK
  BY InvariantTypes
<1>2. QED
  BY <1>1, PageInvariant, PTL

\* What is presented is what the worker simulates: the generations agree, and
\* no tick is lost, doubled or out of order while the page is not disturbed.
THEOREM PagePresents == Spec => []PresentationSound
<1>1. IInv => PresentationSound
  BY InvariantPresents
<1>2. QED
  BY <1>1, PageInvariant, PTL

-----------------------------------------------------------------------------
(* The failures the player is shown.                                        *)

\* What a step that changes the failure may make of it.
Real(cause) ==
  /\ cause = "watchdog" => watch.visible >= Budget
  /\ cause = "stale" =>
       "replacement" \in disturbed \/ (teardown # "none" /\ "teardown" \in disturbed)
  /\ cause = "baseline" => "replacement" \in disturbed
  /\ cause = "overflow" => toggles' >= MaxTransitions

LEMMA PlainCause ==
  \A cause : cause \notin {"watchdog", "stale", "baseline", "overflow"} => Real(cause)
  BY DEF Real

LEMMA ExpiryReal == ASSUME IInv, Expire PROVE Real(failure')
<1>1. watch \in Watches /\ Budget \in Nat
  BY PageAssumption DEF IInv, Types, ScreenTypes
<1>2. failure' = "watchdog" /\ watch.state = "running" /\ watch.since >= watch.remaining
  BY DEF Expire
<1>3. watch.visible + watch.remaining >= Budget + watch.since
  BY <1>2 DEF IInv, WatchOK
<1>4. watch.visible >= Budget
  BY <1>1, <1>2, <1>3 DEF Watches
<1>5. QED
  BY <1>2, <1>4 DEF Real

\* The queue is full: the page was hidden and shown that many times.
LEMMA OverflowReal ==
  ASSUME IInv, NEW h \in BOOLEAN, NEW gate, NEW watched,
         Schedule(Sample(h), gate, watched), failure' # failure,
         \/ toggles' = toggles /\ h = hidden
         \/ toggles' = toggles + 1
  PROVE  Real(failure')
<1>1. /\ samples \in Seq(SampleType) /\ Len(samples) \in Nat /\ toggles \in Nat
      /\ MaxTransitions \in Nat /\ QueueOK
      /\ Sample(h) \in SampleType
  BY PageAssumption DEF IInv, Types, LoopTypes, SessionTypes, Sample, SampleType
<1> DEFINE P == Pushed(Sample(h))
<1>2. /\ Len(P) \in Nat
      /\ IF samples # << >> /\ Last(samples) = Sample(h)
         THEN Len(P) = Len(samples) ELSE Len(P) = Len(samples) + 1
  BY <1>1, Pushing
<1>3. Len(P) > MaxTransitions /\ failure' = "overflow"
  BY DEF Schedule, Fail
<1> HIDE DEF P
<1>4. Len(P) <= toggles' + 1
  BY <1>1, <1>2 DEF QueueOK, LastIsCurrent
<1>5. toggles' >= MaxTransitions
  BY <1>1, <1>2, <1>3, <1>4
<1>6. QED
  BY <1>3, <1>5 DEF Real

LEMMA FrameReal == ASSUME IInv, Frame, failure' # failure PROVE Real(failure')
<1>1. ~hidden /\ Schedule(Sample(FALSE), paused, watch) /\ toggles' = toggles
  BY DEF Frame, userVars
<1>2. hidden \in BOOLEAN
  BY DEF IInv, Types, SessionTypes
<1>3. QED
  BY <1>1, <1>2, OverflowReal

LEMMA VisibilityReal ==
  ASSUME IInv, Visibility, failure' # failure PROVE Real(failure')
<1>1. hidden' \in BOOLEAN /\ toggles' = toggles + 1
  BY DEF IInv, Types, SessionTypes, Visibility
<1>2. Schedule(Sample(hidden'), hidden', Watched(hidden'))
  BY DEF Visibility
<1>3. QED
  BY <1>1, <1>2, OverflowReal

\* The error of a step that counts is not that it came to the wrong one.
LEMMA StepReplyReal ==
  ASSUME IInv, StepReply, failure' # failure PROVE Real(failure')
<1>1. /\ ErrorCounts /\ failure' = Head(replies).error /\ replies # << >>
      /\ Head(replies).error # "none"
  BY DEF StepReply, screenVars, Fail
<1>2. replies \in Seq(ReplyType) /\ generation # None
  BY GenerationsAreNot0 DEF IInv, Types, WorkTypes, SessionTypes
<1>3. Head(replies) = replies[1] /\ 1 \in DOMAIN replies
      /\ replies[1].error \in {"none", "stale", "fault"}
  <2>1. Head(replies) = replies[1] /\ 1 \in DOMAIN replies
    BY <1>1, <1>2
  <2>2. replies[1] \in ReplyType
    BY <1>2, <2>1, Elements
  <2>3. QED
    BY <2>1, <2>2 DEF ReplyType
<1>4. ASSUME disturbed = {}, failure' = "stale" PROVE FALSE
  <2>1. step = generation
    BY <1>1 DEF ErrorCounts
  <2>2. teardown = "none"
    BY <1>2, <1>4, <2>1 DEF IInv, StillOK, SessionOK
  <2>3. QuietOK
    BY <1>4, <2>2 DEF IInv
  <2>4. QED
    BY <1>1, <1>3, <1>4, <2>3 DEF QuietOK
<1>5. failure' \in {"stale", "fault"}
  BY <1>1, <1>3
<1>6. /\ disturbed \subseteq {"replacement", "teardown"}
      /\ teardown = "none" => "teardown" \notin disturbed
  BY DEF IInv, Types, SessionTypes, SessionOK
<1>7. QED
  BY <1>4, <1>5, <1>6 DEF Real

\* A call that fails shows its own cause, and only while it is the current one.
LEMMA ShownCause ==
  ASSUME NEW c \in Calls, NEW cause, CallFails(c, cause) \/ Conclude(c, cause)
  PROVE  \/ failure' \in {failure, "none"}
         \/ failure' = cause /\ Current(c) /\ generation # calls[c].previous
  BY DEF CallFails, Conclude, Fail, screenVars

LEMMA CallReplyReal ==
  ASSUME IInv, NEW c \in Calls, CallReply(c), failure' # failure
  PROVE  Real(failure')
<1>1. /\ replies # << >> /\ Head(replies).from = c /\ c # None
      /\ Head(replies) = replies[1] /\ 1 \in DOMAIN replies
  BY Heard, CallNumbers DEF CallReply
<1>2. ASSUME NEW cause \in {"superseded", "unpublished", "refused"}, CallFails(c, cause)
      PROVE  Real(failure')
  BY <1>2, ShownCause, PlainCause
<1>3. ASSUME calls[c].at = "observing", calls[c].attempts = 0, Head(replies).tick # 0,
             CallFails(c, "baseline")
      PROVE  Real(failure')
  <2>1. CASE failure' \in {failure, "none"}
    BY <2>1, PlainCause
  <2>2. CASE failure' = "baseline" /\ Current(c)
    <3>1. teardown = "none"
      BY <1>1, <2>2 DEF Current, IInv, SessionOK
    <3>2. disturbed # {}
      <4>1. SUFFICES ASSUME disturbed = {} PROVE FALSE
        OBVIOUS
      <4>2. QuietOK
        BY <3>1, <4>1 DEF IInv
      <4>3. QED
        BY <1>1, <1>3, <4>2 DEF QuietOK
    <3>3. "teardown" \notin disturbed /\ disturbed \subseteq {"replacement", "teardown"}
      BY <3>1 DEF IInv, SessionOK, Types, SessionTypes
    <3>4. "replacement" \in disturbed
      BY <3>2, <3>3
    <3>5. QED
      BY <2>2, <3>4 DEF Real
  <2>3. QED
    BY <1>3, <2>1, <2>2, ShownCause
<1>4. ASSUME Staged(c) PROVE Real(failure')
  BY <1>2, <1>4 DEF Staged, screenVars
<1>5. ASSUME Observed(c, Head(replies).tick) PROVE Real(failure')
  <2>1. calls[c].attempts \in 0..MaxAttempts
    <3>1. calls[c] \in CallType
      BY DEF IInv, Types, WorkTypes
    <3>2. QED
      BY <3>1 DEF CallType
  <2>2. calls[c].attempts > 0 \/ calls[c].attempts = 0
    BY <2>1, PageAssumption
  <2>3. QED
    BY <1>2, <1>3, <1>5, <2>2 DEF Observed, screenVars
<1>6. ASSUME Discarded(c) PROVE Real(failure')
  <2>1. calls[c].at = "discarding" /\ Conclude(c, calls[c].outcome)
    BY <1>6 DEF Discarded
  <2>2. Current(c) => teardown = "none"
    BY <1>1 DEF Current, IInv, SessionOK
  <2>3. teardown = "none" => calls[c].previous = generation
    BY <2>1 DEF IInv, PlacesOK
  <2>4. failure' \in {failure, "none"}
    BY <2>1, <2>2, <2>3, ShownCause
  <2>5. QED
    BY <2>4, PlainCause
<1>7. QED
  BY <1>2, <1>4, <1>5, <1>6 DEF CallReply, Activated, screenVars

LEMMA FailureReal ==
  ASSUME IInv, [Next]_vars, failure' # failure PROVE Real(failure')
<1>1. ASSUME NEW c \in Calls,
             \/ Choose(c) \/ Start(c) \/ Progress(c) \/ AcquireMap(c)
             \/ PassPresentation(c) \/ LoadMap(c)
             \/ Adopt(c) \/ AskInitial(c) \/ Initialize(c)
             \/ Probed(c) \/ Selected(c)
      PROVE  Real(failure')
  <2>1. ASSUME NEW cause \in {"refused", "superseded", "closed", "selection"},
               CallFails(c, cause)
        PROVE  Real(failure')
    BY <2>1, ShownCause, PlainCause
  <2>2. ASSUME failure' = "none" PROVE Real(failure')
    BY <2>2, PlainCause
  <2>3. CASE Choose(c) \/ Progress(c) \/ Adopt(c)
    BY <2>3 DEF Choose, Progress, Adopt, screenVars
  <2>4. CASE Start(c) \/ Initialize(c)
    BY <2>1, <2>2, <2>4 DEF Start, Initialize, screenVars
  <2>7. CASE Probed(c) \/ Selected(c)
    BY <2>1, <2>2, <2>7 DEF Probed, Selected, screenVars
  <2>5. CASE AcquireMap(c) \/ AskInitial(c)
    BY <2>1, <2>5 DEF AcquireMap, AskInitial, screenVars
  <2>6. CASE PassPresentation(c) \/ LoadMap(c)
    BY <2>1, <2>6 DEF PassPresentation, LoadMap, GoOn, screenVars
  <2>8. QED
    BY <1>1, <2>3, <2>4, <2>5, <2>6, <2>7
<1>2. ASSUME FinishPresent PROVE Real(failure')
  BY <1>2, PlainCause DEF FinishPresent, Fail, screenVars
<1>3. ASSUME Shutdown PROVE Real(failure')
  BY <1>3, PlainCause DEF Shutdown
<1>4. CASE \/ Elapse \/ Answer \/ TearDown \/ Dispose
           \/ \E closing \in BOOLEAN : Leave(closing)
  BY <1>4 DEF Elapse, Answer, TearDown, Dispose, Leave, screenVars
<1>5. CASE UNCHANGED vars
  BY <1>5 DEF vars, screenVars
<1>6. QED
  BY <1>1, <1>2, <1>3, <1>4, <1>5, ExpiryReal, FrameReal, VisibilityReal,
     StepReplyReal, CallReplyReal DEF Next

\* The player sees no failure the page made itself, but where the gate of the
\* frames was opened during a replacement or a teardown: by the page hidden or
\* shown, or by a replacement that came to its end in a teardown.
THEOREM PageFailures == Spec => FailuresAreReal
<1>1. IInv /\ [Next]_vars =>
        [failure' # failure =>
           /\ failure' = "watchdog" => watch.visible >= Budget
           /\ failure' = "stale" =>
                "replacement" \in disturbed
                  \/ (teardown # "none" /\ "teardown" \in disturbed)
           /\ failure' = "baseline" => "replacement" \in disturbed
           /\ failure' = "overflow" => toggles' >= MaxTransitions]_failure
  BY FailureReal DEF Real
<1>2. QED
  BY <1>1, PageInvariant, PTL DEF Spec, FailuresAreReal

-----------------------------------------------------------------------------
(***************************************************************************)
(* The tables of the acquirer of objects, for any number of requests,      *)
(* objects and slots.                                                      *)
(*                                                                         *)
(* Every operation changes the tables and then lets pump() start some of   *)
(* the transfers that wait.  The invariant is therefore a predicate of the *)
(* tables, Tables: each operation establishes it for the tables it hands   *)
(* to pump(), and starting transfers that wait preserves it (PumpKeeps).   *)
(***************************************************************************)

Transfer ==
  [object : Objects \union {Nobody}, priority : Priorities \union {0},
   order : Nat, phase : Phases, aborted : BOOLEAN,
   subscribers : SUBSET Requests, outcome : Results \union {"none"}]

TableTypes(all, waiting, listed, st, want, sig) ==
  /\ all \in [Requests -> Transfer]
  /\ waiting \in SUBSET Requests
  /\ listed \in [Objects -> Requests \union {Nobody}]
  /\ st \in [Requests -> Statuses]
  /\ want \in [Requests -> Priorities \union {0}]
  /\ sig \in [Requests -> BOOLEAN]

Underway == {"queued", "running", "finished"}

\* The list by object and the transfers point at each other; a transfer with
\* nobody to serve is over or aborted.
Listing(all, waiting, listed) ==
  /\ \A t \in Requests : t \in waiting <=> all[t].phase = "queued"
  /\ \A t \in Requests : all[t].phase \in Underway /\ ~all[t].aborted =>
       /\ all[t].object \in Objects /\ listed[all[t].object] = t
       /\ all[t].subscribers # {}
  /\ \A t \in Requests : all[t].phase \notin Underway \/ all[t].aborted =>
       all[t].subscribers = {}
  /\ \A t \in Requests : all[t].phase = "queued" => ~all[t].aborted
  /\ \A o \in Objects : listed[o] # Nobody =>
       /\ all[listed[o]].phase \in Underway /\ ~all[listed[o]].aborted
       /\ all[listed[o]].object = o

\* A request waits exactly while one transfer carries it.
Serving(all, st, sig) ==
  /\ \A r, t \in Requests : r \in all[t].subscribers => st[r] = "waiting"
  /\ \A r, t, u \in Requests :
       r \in all[t].subscribers /\ r \in all[u].subscribers => t = u
  /\ \A r \in Requests :
       st[r] = "waiting" => \E t \in Requests : r \in all[t].subscribers
  /\ \A r \in Requests : st[r] = "new" => all[r].phase = "none"
  /\ \A r \in Requests : st[r] = "cancelled" => sig[r]

\* What acquire() has said of a transfer, and how urgent it is.
Outcomes(all, want) ==
  /\ \A t \in Requests : all[t].phase = "finished" =>
       /\ all[t].outcome \in Results
       /\ all[t].outcome = "cancelled" => all[t].aborted
  /\ \A t \in Requests : all[t].phase = "queued" =>
       \A r \in all[t].subscribers : all[t].priority <= want[r]

Tables(all, waiting, listed, st, want, sig) ==
  /\ TableTypes(all, waiting, listed, st, want, sig)
  /\ Listing(all, waiting, listed)
  /\ Serving(all, st, sig)
  /\ Outcomes(all, want)

InFlightOf(all) == {t \in Requests : all[t].phase \in {"running", "finished"}}

\* No two transfers that wait have the same place.
Ordered(all, next) ==
  \A t \in Requests : all[t].phase = "queued" =>
    /\ all[t].order < next
    /\ \A u \in Requests :
         all[u].phase = "queued" /\ all[u].order = all[t].order => u = t

\* No slot is free while a transfer waits.
Full(waiting, taken) ==
  taken <= Concurrency /\ (waiting # {} => taken = Concurrency)

Accounts ==
  /\ Tables(transfer, queue, transfers, status, wanted, signalled)
  /\ Ordered(transfer, order)
  /\ active = Cardinality(InFlight)
  /\ Full(queue, active)
  /\ order \in Nat

LEMMA RequestsAreFinite == IsFiniteSet(Requests)
  BY AcquirerAssumption

\* Priorities can be compared.
LEMMA NaturalPriorities ==
  ASSUME NEW all, NEW waiting, NEW listed, NEW st, NEW want, NEW sig,
         TableTypes(all, waiting, listed, st, want, sig)
  PROVE  /\ Priorities \union {0} \subseteq Nat
         /\ \A t \in Requests : all[t].priority \in Nat /\ want[t] \in Nat
<1>1. Priorities \union {0} \subseteq Nat
  BY AcquirerAssumption
<1>2. \A t \in Requests :
        all[t].priority \in Priorities \union {0} /\ want[t] \in Priorities \union {0}
  BY DEF TableTypes, Transfer
<1>3. QED
  BY <1>1, <1>2

-----------------------------------------------------------------------------
(* The choice of pump().                                                    *)

Preds(t, waiting, all) == {u \in waiting : Before(u, t, all)}

\* A transfer has fewer predecessors than one that comes after it.
LEMMA PredecessorsGrow ==
  ASSUME NEW all, NEW waiting \in SUBSET Requests,
         \A t \in waiting : all[t].priority \in Nat /\ all[t].order \in Nat,
         NEW t \in waiting, NEW u \in waiting, Before(u, t, all)
  PROVE  /\ Preds(u, waiting, all) \subseteq Preds(t, waiting, all)
         /\ Preds(u, waiting, all) # Preds(t, waiting, all)
         /\ Cardinality(Preds(u, waiting, all)) < Cardinality(Preds(t, waiting, all))
         /\ Cardinality(Preds(u, waiting, all)) \in Nat
<1>1. IsFiniteSet(waiting)
  BY RequestsAreFinite, FS_Subset
<1>2. /\ IsFiniteSet(Preds(u, waiting, all))
      /\ IsFiniteSet(Preds(t, waiting, all))
  BY <1>1, FS_Subset DEF Preds
<1>3. Preds(u, waiting, all) \subseteq Preds(t, waiting, all)
  BY DEF Preds, Before
<1>4. u \in Preds(t, waiting, all) /\ u \notin Preds(u, waiting, all)
  BY DEF Preds, Before
<1>5. Preds(u, waiting, all) # Preds(t, waiting, all)
  BY <1>4
<1>6. /\ Cardinality(Preds(u, waiting, all)) \in Nat
      /\ Cardinality(Preds(t, waiting, all)) \in Nat
  BY <1>2, FS_CardinalityType
<1>7. /\ Cardinality(Preds(u, waiting, all)) <= Cardinality(Preds(t, waiting, all))
      /\ Cardinality(Preds(u, waiting, all)) # Cardinality(Preds(t, waiting, all))
  BY <1>2, <1>3, <1>5, FS_Subset
<1>8. QED
  BY <1>3, <1>5, <1>6, <1>7

\* pump() starts no more transfers than there are free slots, and as many as
\* that when one is left to wait.
LEMMA PumpFillsSlots ==
  ASSUME NEW all, NEW waiting \in SUBSET Requests, NEW free \in Nat,
         \A t \in waiting : /\ all[t].priority \in Nat /\ all[t].order \in Nat
                            /\ all[t].subscribers # {},
         \A t, u \in waiting : all[t].order = all[u].order => t = u
  PROVE  /\ Cardinality(Chosen(waiting, all, free)) <= free
         /\ waiting \ Chosen(waiting, all, free) # {} =>
              Cardinality(Chosen(waiting, all, free)) = free
<1> DEFINE chosen == Chosen(waiting, all, free)
           P(t) == Preds(t, waiting, all)
<1>1. IsFiniteSet(waiting)
  BY RequestsAreFinite, FS_Subset
<1>2. chosen = {t \in waiting : Cardinality(P(t)) < free}
  <2>1. chosen = {t \in waiting : Cardinality(P(t)) < free}
    BY DEF Chosen, Preds
  <2>2. QED
    BY <2>1
<1>3. IsFiniteSet(chosen) /\ Cardinality(chosen) \in Nat
  BY <1>1, <1>2, FS_Subset, FS_CardinalityType
<1>4. \A t, u \in waiting : t # u => Before(t, u, all) \/ Before(u, t, all)
  BY DEF Before
<1>5. \A t \in waiting : IsFiniteSet(P(t)) /\ Cardinality(P(t)) \in Nat
  BY <1>1, FS_Subset, FS_CardinalityType DEF Preds
<1>6. \A t, u \in waiting : Before(u, t, all) =>
        /\ P(u) \subseteq P(t) /\ P(u) # P(t)
        /\ Cardinality(P(u)) < Cardinality(P(t))
  BY PredecessorsGrow
<1> HIDE DEF chosen, P
<1>7. Cardinality(chosen) <= free
  <2> DEFINE rank == [t \in chosen |-> Cardinality(P(t))]
  <2>1. IsFiniteSet(0 .. (free - 1)) /\ Cardinality(0 .. (free - 1)) = free
    BY FS_Interval
  <2>2. rank \in [chosen -> 0 .. (free - 1)]
    BY <1>2, <1>5
  <2>3. ASSUME free < Cardinality(chosen) PROVE FALSE
    <3> HIDE DEF rank
    <3>1. PICK t, u \in chosen : t # u /\ rank[t] = rank[u]
      <4> DEFINE slots == 0 .. (free - 1)
      <4>1. /\ IsFiniteSet(slots) /\ Cardinality(slots) < Cardinality(chosen)
            /\ rank \in [chosen -> slots]
        BY <2>1, <2>2, <2>3
      <4> HIDE DEF slots
      <4>2. QED
        BY <1>3, <4>1, FS_PigeonHole
    <3>2. Cardinality(P(t)) = Cardinality(P(u))
      BY <3>1 DEF rank
    <3>3. QED
      BY <1>2, <1>4, <1>5, <1>6, <3>1, <3>2
  <2>4. QED
    BY <1>3, <2>3
<1>8. ASSUME waiting \ chosen # {}
      PROVE  Cardinality(chosen) >= free
  <2> DEFINE left == {P(t) : t \in waiting \ chosen}
  <2>1. left \subseteq FiniteSubsetsOf(waiting) /\ left # {}
    <3>1. \A t \in waiting : P(t) \subseteq waiting
      BY DEF P, Preds
    <3>2. \A t \in waiting : P(t) \in FiniteSubsetsOf(waiting)
      BY <1>5, <3>1 DEF FiniteSubsetsOf
    <3>3. QED
      BY <1>8, <3>2
  <2>2. PICK least \in left :
          \A s \in left : ~(<<s, least>> \in StrictSubsetOrdering(waiting))
    BY <2>1, FS_StrictSubsetOrderingWellFounded, WFMin
  <2>3. PICK t \in waiting \ chosen : least = P(t)
    BY <2>2
  <2>4. P(t) \subseteq chosen
    <3>1. ASSUME NEW u \in P(t), u \notin chosen PROVE FALSE
      <4>1. u \in waiting /\ Before(u, t, all)
        BY DEF P, Preds
      <4>2. P(u) \in left /\ P(u) \subseteq P(t) /\ P(u) # P(t)
        BY <1>6, <2>3, <3>1, <4>1
      <4>3. <<P(u), P(t)>> \in StrictSubsetOrdering(waiting)
        BY <4>2 DEF StrictSubsetOrdering, P, Preds
      <4>4. QED
        BY <2>2, <2>3, <4>2, <4>3
    <3>2. QED
      BY <3>1
  <2>5. Cardinality(P(t)) <= Cardinality(chosen)
    BY <1>3, <2>4, FS_Subset
  <2>6. Cardinality(P(t)) >= free
    BY <1>2, <1>5, <2>3
  <2>7. QED
    BY <1>3, <1>5, <2>3, <2>5, <2>6
<1>9. QED
  BY <1>3, <1>7, <1>8 DEF chosen

-----------------------------------------------------------------------------
(* pump().                                                                  *)

LEMMA PumpKeeps ==
  ASSUME NEW all, NEW waiting, NEW taken \in Nat,
         Tables(all, waiting, transfers', status', wanted', signalled'),
         Ordered(all, order'), taken <= Concurrency,
         taken = Cardinality(InFlightOf(all)),
         PumpFrom(all, waiting, taken)
  PROVE  /\ Tables(transfer', queue', transfers', status', wanted', signalled')
         /\ Ordered(transfer', order')
         /\ active' = Cardinality(InFlight')
         /\ Full(queue', active')
<1> DEFINE started == Chosen(waiting, all, Concurrency - taken)
<1>1. started \subseteq waiting
  BY DEF Chosen
<1>2. /\ transfer' = [t \in Requests |->
           IF t \in started THEN [all[t] EXCEPT !.phase = "running"]
                            ELSE all[t]]
      /\ queue' = waiting \ started
      /\ active' = taken + Cardinality(started)
  BY DEF PumpFrom
<1> HIDE DEF started
<1>3. TableTypes(all, waiting, transfers', status', wanted', signalled')
  BY DEF Tables
<1>4. \A t \in Requests :
        /\ transfer'[t].object = all[t].object
        /\ transfer'[t].priority = all[t].priority
        /\ transfer'[t].order = all[t].order
        /\ transfer'[t].aborted = all[t].aborted
        /\ transfer'[t].subscribers = all[t].subscribers
        /\ transfer'[t].outcome = all[t].outcome
        /\ transfer'[t].phase = IF t \in started THEN "running"
                                ELSE all[t].phase
  BY <1>2, <1>3 DEF TableTypes, Transfer
<1>5. TableTypes(transfer', queue', transfers', status', wanted', signalled')
  <2>1. \A t \in Requests : all[t] \in Transfer
    BY <1>3 DEF TableTypes
  <2>2. \A t \in Requests : [all[t] EXCEPT !.phase = "running"] \in Transfer
    BY <2>1 DEF Transfer, Phases
  <2>3. \A t \in Requests : (IF t \in started
                             THEN [all[t] EXCEPT !.phase = "running"]
                             ELSE all[t]) \in Transfer
    BY <2>1, <2>2
  <2>4. transfer' \in [Requests -> Transfer]
    BY <1>2, <2>3
  <2>5. QED
    BY <1>1, <1>2, <1>3, <2>4 DEF TableTypes
<1>6. \A t \in started : t \in Requests /\ all[t].phase = "queued"
  BY <1>1, <1>3 DEF Tables, TableTypes, Listing
<1>7. Listing(transfer', queue', transfers')
  BY <1>2, <1>3, <1>4, <1>6 DEF Tables, TableTypes, Listing, Underway
<1>8. Serving(transfer', status', signalled')
  BY <1>4, <1>6 DEF Tables, Serving
<1>9. Outcomes(transfer', wanted')
  BY <1>4, <1>6 DEF Tables, Outcomes
<1>10. active' = Cardinality(InFlight')
  <2>1. /\ InFlight' = InFlightOf(all) \union started
        /\ InFlightOf(all) \intersect started = {}
    BY <1>4, <1>6 DEF InFlight, InFlightOf
  <2>2. IsFiniteSet(started) /\ IsFiniteSet(InFlightOf(all))
    BY <1>6, RequestsAreFinite, FS_Subset DEF InFlightOf
  <2>3. Cardinality(InFlight') =
          Cardinality(InFlightOf(all)) + Cardinality(started)
          - Cardinality(InFlightOf(all) \intersect started)
    BY <2>1, <2>2, FS_Union
  <2>4. Cardinality(InFlightOf(all) \intersect started) = 0
    BY <2>1, FS_EmptySet
  <2>5. Cardinality(started) \in Nat
    BY <2>2, FS_CardinalityType
  <2>6. QED
    BY <1>2, <2>3, <2>4, <2>5
<1>11. Ordered(transfer', order')
  BY <1>4, <1>6 DEF Ordered
<1>12. Full(queue', active')
  <2>1. waiting \in SUBSET Requests /\ Concurrency - taken \in Nat
    BY <1>3, AcquirerAssumption DEF TableTypes
  <2>2. \A t \in waiting : t \in Requests /\ all[t].phase = "queued"
    BY <2>1 DEF Tables, Listing
  <2>3. \A t \in waiting : /\ all[t].priority \in Nat /\ all[t].order \in Nat
                           /\ all[t].subscribers # {}
    <3>1. \A t \in waiting : all[t].priority \in Nat
      BY <1>3, <2>2, NaturalPriorities
    <3>2. \A t \in waiting : all[t].order \in Nat
      BY <1>3, <2>2 DEF TableTypes, Transfer
    <3>3. \A t \in waiting : all[t].subscribers # {}
      BY <2>2 DEF Tables, Listing, Underway
    <3>4. QED
      BY <3>1, <3>2, <3>3
  <2>4. \A t, u \in waiting : all[t].order = all[u].order => t = u
    BY <2>2 DEF Ordered
  <2>5. /\ Cardinality(started) <= Concurrency - taken
        /\ waiting \ started # {} => Cardinality(started) = Concurrency - taken
    BY <2>1, <2>3, <2>4, PumpFillsSlots DEF started
  <2>6. IsFiniteSet(started)
    BY <1>6, RequestsAreFinite, FS_Subset
  <2>7. Cardinality(started) \in Nat
    BY <2>6, FS_CardinalityType
  <2>8. QED
    BY <1>2, <2>5, <2>7, AcquirerAssumption DEF Full
<1>13. QED
  BY <1>5, <1>7, <1>8, <1>9, <1>10, <1>11, <1>12 DEF Tables

-----------------------------------------------------------------------------
(* Requests.                                                                *)

\* The slots taken are a number.
LEMMA SlotsAreCounted ==
  ASSUME Accounts
  PROVE  active \in Nat /\ IsFiniteSet(InFlight)
<1>1. IsFiniteSet(InFlight)
  BY RequestsAreFinite, FS_Subset DEF InFlight
<1>2. QED
  BY <1>1, FS_CardinalityType DEF Accounts

LEMMA JoinKeeps ==
  ASSUME Accounts,
         NEW r \in Requests, NEW o \in Objects, NEW p \in Priorities,
         Acquire(r, o, p), transfers[o] # Nobody
  PROVE  Accounts'
<1> DEFINE j == transfers[o]
           all == Join(j, r, p)
<1>1. /\ TableTypes(transfer, queue, transfers, status, wanted, signalled)
      /\ Listing(transfer, queue, transfers)
      /\ Serving(transfer, status, signalled)
      /\ Outcomes(transfer, wanted)
  BY DEF Accounts, Tables
<1>2. /\ status[r] = "new"
      /\ status' = [status EXCEPT ![r] = "waiting"]
      /\ wanted' = [wanted EXCEPT ![r] = p]
      /\ PumpFrom(all, queue, active)
      /\ UNCHANGED << transfers, order, signalled >>
  BY DEF Acquire
<1>3. /\ j \in Requests
      /\ transfer[j].phase \in Underway /\ ~transfer[j].aborted
  BY <1>1 DEF TableTypes, Listing
<1> DEFINE joined == transfer[j].subscribers \union {r}
           urgent == IF transfer[j].phase = "queued" /\ p < transfer[j].priority
                     THEN p ELSE transfer[j].priority
<1>4. /\ transfer \in [Requests -> Transfer] /\ transfer[j] \in Transfer
      /\ joined \in SUBSET Requests /\ urgent \in Priorities \union {0}
  BY <1>1, <1>3 DEF TableTypes, Transfer
<1>5. all = [transfer EXCEPT ![j] = [transfer[j] EXCEPT !.subscribers = joined,
                                                       !.priority = urgent]]
  BY <1>3, <1>4 DEF Join, Transfer
<1> HIDE DEF all, j, joined, urgent
<1>6. /\ all \in [Requests -> Transfer]
      /\ \A t \in Requests :
        /\ all[t].object = transfer[t].object
        /\ all[t].order = transfer[t].order
        /\ all[t].aborted = transfer[t].aborted
        /\ all[t].phase = transfer[t].phase
        /\ all[t].outcome = transfer[t].outcome
        /\ all[t].subscribers = IF t = j THEN joined ELSE transfer[t].subscribers
        /\ all[t].priority = IF t = j THEN urgent ELSE transfer[t].priority
  BY <1>3, <1>4, <1>5 DEF Transfer
<1>7. joined = transfer[j].subscribers \union {r}
      /\ (urgent = transfer[j].priority
          \/ (transfer[j].phase = "queued" /\ urgent = p /\ p < transfer[j].priority))
      /\ (transfer[j].phase = "queued" => ~(p < urgent))
  BY <1>1, NaturalPriorities DEF joined, urgent
<1>8. TableTypes(all, queue, transfers', status', wanted', signalled')
  BY <1>1, <1>2, <1>6 DEF TableTypes, Statuses
<1>9. Listing(all, queue, transfers')
  <2>1. /\ \A t \in Requests : all[t].subscribers = {} => transfer[t].subscribers = {}
        /\ \A t \in Requests :
             transfer[t].subscribers = {} /\ t # j => all[t].subscribers = {}
    BY <1>6, <1>7
  <2>2. \A x \in Objects : transfers[x] # Nobody => transfers[x] \in Requests
    BY <1>1 DEF TableTypes
  <2>3. QED
    BY <1>1, <1>2, <1>3, <1>6, <2>1, <2>2 DEF Listing
<1>10. Serving(all, status', signalled')
  <2>1. \A s, t \in Requests :
          s \in all[t].subscribers <=>
            s \in transfer[t].subscribers \/ (s = r /\ t = j)
    BY <1>6, <1>7
  <2>2. \A s \in Requests : status'[s] = IF s = r THEN "waiting" ELSE status[s]
    BY <1>1, <1>2 DEF TableTypes
  <2>3. \A t \in Requests : r \notin transfer[t].subscribers
    BY <1>1, <1>2 DEF Serving
  <2>4. QED
    BY <1>1, <1>2, <1>3, <1>6, <2>1, <2>2, <2>3 DEF Serving
<1>11. Outcomes(all, wanted')
  <2>1. ASSUME NEW t \in Requests, all[t].phase = "queued",
               NEW s \in all[t].subscribers
        PROVE  all[t].priority <= wanted'[s]
    <3>1. /\ all[t].priority \in Nat /\ transfer[t].priority \in Nat /\ p \in Nat
          /\ transfer[t].subscribers \subseteq Requests
      <4>1. transfer[t].subscribers \subseteq Requests
        BY <1>1 DEF TableTypes, Transfer
      <4>2. QED
        BY <1>1, <1>8, <4>1, NaturalPriorities
    <3>2. s = r \/ s \in transfer[t].subscribers
      BY <1>6, <1>7, <2>1
    <3>3. CASE s = r
      <4>1. r \notin transfer[t].subscribers
        BY <1>1, <1>2 DEF Serving
      <4>2. t = j /\ wanted'[s] = p
        BY <1>1, <1>2, <1>6, <2>1, <3>3, <4>1 DEF TableTypes
      <4>3. all[t].priority = urgent /\ transfer[j].phase = "queued"
        BY <1>6, <2>1, <4>2
      <4>4. QED
        BY <1>7, <3>1, <4>2, <4>3
    <3>4. CASE s # r /\ s \in transfer[t].subscribers
      <4>1. s \in Requests
        BY <3>1, <3>4
      <4>2. wanted'[s] = wanted[s] /\ wanted[s] \in Nat
        BY <1>1, <1>2, <3>4, <4>1, NaturalPriorities DEF TableTypes
      <4>3. transfer[t].priority <= wanted[s]
        BY <1>1, <1>6, <2>1, <3>4 DEF Outcomes
      <4>4. all[t].priority = transfer[t].priority
            \/ (all[t].priority = p /\ p < transfer[t].priority)
        BY <1>6, <1>7
      <4>5. QED
        BY <3>1, <4>2, <4>3, <4>4
    <3>5. QED
      BY <3>2, <3>3, <3>4
  <2>2. QED
    BY <1>1, <1>6, <2>1 DEF Outcomes
<1>12. InFlightOf(all) = InFlight
  BY <1>6 DEF InFlightOf, InFlight
<1>13. Tables(all, queue, transfers', status', wanted', signalled')
  BY <1>8, <1>9, <1>10, <1>11 DEF Tables
<1>14. Ordered(all, order')
  BY <1>2, <1>6 DEF Accounts, Ordered
<1>15. QED
  BY <1>2, <1>12, <1>13, <1>14, PumpKeeps, SlotsAreCounted DEF Accounts, Full

LEMMA CreateKeeps ==
  ASSUME Accounts,
         NEW r \in Requests, NEW o \in Objects, NEW p \in Priorities,
         Acquire(r, o, p), transfers[o] = Nobody
  PROVE  Accounts'
<1> DEFINE all == Create(r, o, p)
<1>1. /\ TableTypes(transfer, queue, transfers, status, wanted, signalled)
      /\ Listing(transfer, queue, transfers)
      /\ Serving(transfer, status, signalled)
      /\ Outcomes(transfer, wanted)
  BY DEF Accounts, Tables
<1>2. /\ status[r] = "new"
      /\ status' = [status EXCEPT ![r] = "waiting"]
      /\ wanted' = [wanted EXCEPT ![r] = p]
      /\ transfers' = [transfers EXCEPT ![o] = r]
      /\ order' = order + 1
      /\ PumpFrom(all, queue \union {r}, active)
      /\ signalled' = signalled
  BY DEF Acquire
<1> DEFINE made == [object |-> o, priority |-> p, order |-> order,
                    phase |-> "queued", aborted |-> FALSE,
                    subscribers |-> {r}, outcome |-> "none"]
<1>3. /\ transfer \in [Requests -> Transfer] /\ order \in Nat
      /\ made \in Transfer
  BY <1>1 DEF TableTypes, Transfer, Phases, Accounts
<1>4. /\ made.object = o /\ made.priority = p /\ made.phase = "queued"
      /\ made.order = order
      /\ ~made.aborted /\ made.subscribers = {r}
  OBVIOUS
<1>5. all = [transfer EXCEPT ![r] = made]
  BY DEF Create
<1> HIDE DEF all, made
<1>6. all \in [Requests -> Transfer]
      /\ \A t \in Requests : all[t] = IF t = r THEN made ELSE transfer[t]
  BY <1>3, <1>5
<1>7. /\ transfer[r].phase = "none"
      /\ \A t \in Requests : r \notin transfer[t].subscribers
      /\ \A t \in Requests : transfer[t].phase = "queued" => t # r
  BY <1>1, <1>2 DEF Serving
<1>8. /\ transfers' \in [Objects -> Requests \union {Nobody}]
      /\ \A x \in Objects : transfers'[x] = IF x = o THEN r ELSE transfers[x]
      /\ \A s \in Requests : status'[s] = IF s = r THEN "waiting" ELSE status[s]
      /\ \A s \in Requests : wanted'[s] = IF s = r THEN p ELSE wanted[s]
  BY <1>1, <1>2 DEF TableTypes
<1>9. TableTypes(all, queue \union {r}, transfers', status', wanted', signalled')
  BY <1>1, <1>2, <1>6, <1>8 DEF TableTypes, Statuses
<1>10. Listing(all, queue \union {r}, transfers')
  <2>1. \A x \in Objects : transfers[x] # Nobody =>
          transfers[x] \in Requests /\ transfers[x] # r
    BY <1>1, <1>7 DEF TableTypes, Listing, Underway
  <2>2. \A t \in Requests :
          t \in queue \union {r} <=> all[t].phase = "queued"
    BY <1>1, <1>4, <1>6, <1>7 DEF Listing
  <2>3. \A t \in Requests : all[t].phase \in Underway /\ ~all[t].aborted =>
          /\ all[t].object \in Objects /\ transfers'[all[t].object] = t
          /\ all[t].subscribers # {}
    <3>1. Nobody \notin Requests
      BY AcquirerAssumption
    <3>2. ASSUME NEW t \in Requests, t # r,
                 transfer[t].phase \in Underway, ~transfer[t].aborted
          PROVE  /\ transfer[t].object \in Objects
                 /\ transfers'[transfer[t].object] = t
                 /\ transfer[t].subscribers # {}
      BY <1>1, <1>8, <3>1, <3>2 DEF Listing
    <3>3. /\ made.object \in Objects /\ transfers'[made.object] = r
          /\ made.subscribers # {}
      BY <1>4, <1>8
    <3>4. QED
      BY <1>6, <3>2, <3>3
  <2>4. \A t \in Requests : all[t].phase \notin Underway \/ all[t].aborted =>
          all[t].subscribers = {}
    BY <1>1, <1>4, <1>6 DEF Listing, Underway
  <2>5. \A t \in Requests : all[t].phase = "queued" => ~all[t].aborted
    BY <1>1, <1>4, <1>6 DEF Listing
  <2>6. \A x \in Objects : transfers'[x] # Nobody =>
          /\ all[transfers'[x]].phase \in Underway
          /\ ~all[transfers'[x]].aborted
          /\ all[transfers'[x]].object = x
    BY <1>1, <1>4, <1>6, <1>8, <2>1 DEF Listing, Underway
  <2>7. QED
    BY <2>2, <2>3, <2>4, <2>5, <2>6 DEF Listing
<1>11. Serving(all, status', signalled')
  <2>1. \A t \in Requests : t = r => transfer[t].subscribers = {}
    BY <1>1, <1>7 DEF Listing, Underway
  <2>2. \A s, t \in Requests :
          s \in all[t].subscribers <=>
            s \in transfer[t].subscribers \/ (s = r /\ t = r)
    BY <1>4, <1>6, <2>1
  <2>3. QED
    BY <1>1, <1>2, <1>6, <1>7, <1>8, <2>2 DEF Serving
<1>12. Outcomes(all, wanted')
  <2>1. \A t \in Requests : transfer[t].subscribers \subseteq Requests
    BY <1>1 DEF TableTypes, Transfer
  <2>2. p \in Nat
    BY <1>1, NaturalPriorities
  <2>3. QED
    BY <1>1, <1>4, <1>6, <1>7, <1>8, <2>1, <2>2 DEF Outcomes
<1>13. InFlightOf(all) = InFlight
  BY <1>4, <1>6, <1>7 DEF InFlightOf, InFlight
<1>14. Tables(all, queue \union {r}, transfers', status', wanted', signalled')
  BY <1>9, <1>10, <1>11, <1>12 DEF Tables
<1>15. order' \in Nat
  BY <1>2, <1>3
<1>16. active = Cardinality(InFlightOf(all)) /\ active \in Nat
  BY <1>13, SlotsAreCounted DEF Accounts
<1>17. Ordered(all, order')
  <2>1. \A t \in Requests : transfer[t].order \in Nat
    BY <1>1 DEF TableTypes, Transfer
  <2>2. Ordered(transfer, order)
    BY DEF Accounts
  <2>3. ASSUME NEW t \in Requests, all[t].phase = "queued"
        PROVE  all[t].order < order'
    BY <1>2, <1>3, <1>4, <1>6, <2>1, <2>2, <2>3 DEF Ordered
  <2>4. ASSUME NEW t \in Requests, all[t].phase = "queued",
               NEW u \in Requests, all[u].phase = "queued",
               all[u].order = all[t].order
        PROVE  u = t
    BY <1>3, <1>4, <1>6, <2>1, <2>2, <2>4 DEF Ordered
  <2>5. QED
    BY <2>3, <2>4 DEF Ordered
<1>18. /\ Tables(transfer', queue', transfers', status', wanted', signalled')
       /\ Ordered(transfer', order')
       /\ active' = Cardinality(InFlight')
       /\ Full(queue', active')
  BY <1>2, <1>14, <1>16, <1>17, PumpKeeps DEF Accounts, Full
<1>19. QED
  BY <1>15, <1>18 DEF Accounts

LEMMA AcquireAbortedKeeps ==
  ASSUME Accounts, NEW r \in Requests, AcquireAborted(r)
  PROVE  Accounts'
<1>1. /\ TableTypes(transfer, queue, transfers, status, wanted, signalled)
      /\ Serving(transfer, status, signalled)
  BY DEF Accounts, Tables
<1>2. \A s \in Requests : status'[s] = IF s = r THEN "cancelled" ELSE status[s]
  BY <1>1 DEF AcquireAborted, TableTypes
<1>3. TableTypes(transfer', queue', transfers', status', wanted', signalled')
  BY <1>1
     DEF AcquireAborted, transferVars, TableTypes, Statuses, Results
<1>4. Serving(transfer', status', signalled')
  BY <1>1, <1>2 DEF AcquireAborted, transferVars, Serving
<1>5. QED
  BY <1>3, <1>4
     DEF Accounts, Tables, AcquireAborted, transferVars, Listing, Outcomes,
         InFlight,
         Ordered, Full

LEMMA AbortKeeps ==
  ASSUME Accounts, NEW r \in Requests, Abort(r)
  PROVE  Accounts'
<1>1. /\ TableTypes(transfer, queue, transfers, status, wanted, signalled)
      /\ Listing(transfer, queue, transfers)
      /\ Serving(transfer, status, signalled)
      /\ Outcomes(transfer, wanted)
  BY DEF Accounts, Tables
<1>2. /\ \A s \in Requests : signalled'[s] = IF s = r THEN TRUE ELSE signalled[s]
      /\ signalled' \in [Requests -> BOOLEAN]
      /\ wanted' = wanted
  BY <1>1 DEF Abort, TableTypes
<1>3. CASE status[r] # "waiting"
  <2>1. UNCHANGED << status, transferVars >>
    BY <1>3 DEF Abort
  <2>2. TableTypes(transfer', queue', transfers', status', wanted', signalled')
    BY <1>1, <1>2, <2>1 DEF transferVars, TableTypes
  <2>3. Serving(transfer', status', signalled')
    BY <1>1, <1>2, <2>1 DEF transferVars, Serving
  <2>4. QED
    BY <1>2, <2>1, <2>2, <2>3
       DEF Accounts, Tables, transferVars, Listing, Outcomes, InFlight,
           Ordered, Full
<1>4. CASE status[r] = "waiting"
  <2>1. PICK t \in Requests :
          /\ r \in transfer[t].subscribers
          /\ transfer' = [transfer EXCEPT ![t] = WithoutSubscriber(t, r)]
          /\ transfers' = IF IsLast(t, r) THEN Unlisted(t) ELSE transfers
          /\ queue' = IF IsLast(t, r) THEN Dequeued(t) ELSE queue
    BY <1>4 DEF Abort
  <2>2. status' = [status EXCEPT ![r] = "cancelled"] /\ UNCHANGED << active, order >>
    BY <1>4 DEF Abort
  <2> DEFINE last == IsLast(t, r)
             left == [transfer[t] EXCEPT !.subscribers = @ \ {r},
                                         !.aborted = last]
             next == WithoutSubscriber(t, r)
  <2>3. /\ transfer[t] \in Transfer /\ Nobody \notin Requests
        /\ transfer[t].phase \in Underway /\ ~transfer[t].aborted
        /\ r \in transfer[t].subscribers
        /\ \A u \in Requests : r \in transfer[u].subscribers => u = t
    BY <1>1, <2>1, AcquirerAssumption DEF TableTypes, Listing, Serving
  <2>3a. last \in BOOLEAN /\ (last <=> transfer[t].subscribers = {r})
    BY DEF IsLast
  <2>4. /\ left \in Transfer
        /\ left.object = transfer[t].object /\ left.phase = transfer[t].phase
        /\ left.priority = transfer[t].priority
        /\ left.outcome = transfer[t].outcome /\ left.order = transfer[t].order
        /\ left.subscribers = transfer[t].subscribers \ {r}
        /\ left.aborted = last
    BY <2>3, <2>3a DEF Transfer
  <2>5. /\ Over \in Transfer /\ Over.phase = "over"
        /\ Over.subscribers = {} /\ ~Over.aborted
    BY DEF Over, NoTransfer, Transfer, Phases
  <2>6. transfer' = [transfer EXCEPT ![t] = next]
    BY <2>1
  <2>7. /\ next \in Transfer
        /\ (last /\ t \in queue) => next = Over
        /\ ~(last /\ t \in queue) => next = left
    BY <2>4, <2>5 DEF WithoutSubscriber
  <2>8. /\ transfers' = (IF last THEN Unlisted(t) ELSE transfers)
        /\ queue' = (IF last THEN Dequeued(t) ELSE queue)
    BY <2>1
  <2> HIDE DEF next, left, last
  <2>9. /\ transfer' \in [Requests -> Transfer]
        /\ \A u \in Requests : transfer'[u] = IF u = t THEN next ELSE transfer[u]
    BY <1>1, <2>6, <2>7 DEF TableTypes
  <2>10. /\ transfers' \in [Objects -> Requests \union {Nobody}]
         /\ \A o \in Objects : transfers'[o] =
              IF last /\ transfers[o] = t THEN Nobody ELSE transfers[o]
    BY <1>1, <2>8 DEF TableTypes, Unlisted
  <2>11. /\ queue' \in SUBSET Requests
         /\ \A u \in Requests :
              u \in queue' <=> u \in queue /\ ~(last /\ u = t)
    BY <1>1, <2>8 DEF TableTypes, Dequeued
  <2>12. /\ status' \in [Requests -> Statuses]
         /\ \A s \in Requests : status'[s] = IF s = r THEN "cancelled" ELSE status[s]
    BY <1>1, <2>2 DEF TableTypes, Statuses, Results
  <2>13. TableTypes(transfer', queue', transfers', status', wanted', signalled')
    BY <1>1, <1>2, <2>9, <2>10, <2>11, <2>12 DEF TableTypes
  <2>14. t \in queue <=> transfer[t].phase = "queued"
    BY <1>1 DEF Listing
  <2>15. Listing(transfer', queue', transfers')
    <3>1. \A u \in Requests : u \in queue' <=> transfer'[u].phase = "queued"
      BY <1>1, <2>4, <2>5, <2>7, <2>9, <2>11, <2>14 DEF Listing
    <3>2. ASSUME NEW u \in Requests,
                 transfer'[u].phase \in Underway, ~transfer'[u].aborted
          PROVE  /\ transfer'[u].object \in Objects
                 /\ transfers'[transfer'[u].object] = u
                 /\ transfer'[u].subscribers # {}
      <4>1. CASE u = t
        <5>1. next = left /\ ~last
          BY <2>4, <2>5, <2>7, <2>9, <3>2, <4>1 DEF Underway
        <5>2. left.subscribers # {}
          BY <2>3, <2>4, <2>3a, <5>1
        <5>3. QED
          BY <1>1, <2>3, <2>4, <2>9, <2>10, <4>1, <5>1, <5>2 DEF Listing
      <4>2. CASE u # t
        BY <1>1, <2>9, <2>10, <3>2, <4>2 DEF Listing
      <4>3. QED
        BY <4>1, <4>2
    <3>3. \A u \in Requests :
            transfer'[u].phase \notin Underway \/ transfer'[u].aborted =>
              transfer'[u].subscribers = {}
      <4>1. next.phase \notin Underway \/ next.aborted => next.subscribers = {}
        BY <2>3, <2>4, <2>5, <2>7, <2>3a
      <4>2. QED
        BY <1>1, <2>9, <4>1 DEF Listing
    <3>4. \A u \in Requests :
            transfer'[u].phase = "queued" => ~transfer'[u].aborted
      <4>1. next.phase = "queued" => ~next.aborted
        BY <2>4, <2>5, <2>7, <2>14
      <4>2. QED
        BY <1>1, <2>9, <4>1 DEF Listing
    <3>5. ASSUME NEW o \in Objects, transfers'[o] # Nobody
          PROVE  /\ transfer'[transfers'[o]].phase \in Underway
                 /\ ~transfer'[transfers'[o]].aborted
                 /\ transfer'[transfers'[o]].object = o
      <4>1. /\ transfers'[o] = transfers[o] /\ transfers[o] \in Requests
            /\ ~(last /\ transfers[o] = t)
        BY <1>1, <2>10, <3>5 DEF TableTypes
      <4>2. CASE transfers[o] = t
        BY <1>1, <2>3, <2>4, <2>7, <2>9, <4>1, <4>2 DEF Listing
      <4>3. CASE transfers[o] # t
        BY <1>1, <2>9, <3>5, <4>1, <4>3 DEF Listing
      <4>4. QED
        BY <4>2, <4>3
    <3>6. QED
      BY <3>1, <3>2, <3>3, <3>4, <3>5 DEF Listing
  <2>16. \A s, u \in Requests : s \in transfer'[u].subscribers <=>
           s \in transfer[u].subscribers /\ s # r
    BY <2>3, <2>4, <2>5, <2>7, <2>9, <2>3a
  <2>17. Serving(transfer', status', signalled')
    <3>1. \A s \in Requests : status'[s] = "new" => transfer'[s].phase = "none"
      BY <1>1, <2>3, <2>9, <2>12 DEF Serving, Underway
    <3>2. \A s \in Requests :
            status'[s] = "waiting" => s # r /\ status[s] = "waiting"
      BY <2>12
    <3>3. \A s, u \in Requests :
            s \in transfer'[u].subscribers => status'[s] = "waiting"
      BY <1>1, <2>12, <2>16 DEF Serving
    <3>4. \A s, u, v \in Requests :
            s \in transfer'[u].subscribers /\ s \in transfer'[v].subscribers => u = v
      BY <1>1, <2>16 DEF Serving
    <3>5. \A s \in Requests : status'[s] = "waiting" =>
            \E u \in Requests : s \in transfer'[u].subscribers
      BY <1>1, <2>16, <3>2 DEF Serving
    <3>6. \A s \in Requests : status'[s] = "cancelled" => signalled'[s]
      BY <1>1, <1>2, <2>12 DEF Serving
    <3>7. QED
      BY <3>1, <3>3, <3>4, <3>5, <3>6 DEF Serving
  <2>18. Outcomes(transfer', wanted')
    <3>1. next.phase = "finished" =>
            /\ next.outcome \in Results
            /\ next.outcome = "cancelled" => next.aborted
      BY <1>1, <2>3, <2>4, <2>5, <2>7 DEF Outcomes
    <3>2. next.phase = "queued" =>
            \A s \in next.subscribers : next.priority <= wanted[s]
      BY <1>1, <2>4, <2>5, <2>7 DEF Outcomes
    <3>3. QED
      BY <1>1, <1>2, <2>9, <3>1, <3>2 DEF Outcomes
  <2>19. InFlight' = InFlight
    BY <2>4, <2>5, <2>7, <2>9, <2>14 DEF InFlight
  <2>20. Ordered(transfer', order')
    <3>1. next.phase = "queued" =>
            transfer[t].phase = "queued" /\ next.order = transfer[t].order
      BY <2>4, <2>5, <2>7
    <3>2. QED
      BY <2>2, <2>9, <3>1 DEF Accounts, Ordered
  <2>21. Full(queue', active')
    BY <2>2, <2>11, <1>1 DEF Accounts, Full, TableTypes
  <2>22. QED
    BY <2>2, <2>13, <2>15, <2>17, <2>18, <2>19, <2>20, <2>21 DEF Accounts, Tables
<1>5. QED
  BY <1>3, <1>4

-----------------------------------------------------------------------------
(* Transfers.                                                               *)

LEMMA FinishKeeps ==
  ASSUME Accounts, NEW t \in Requests, NEW result \in Results,
         Finish(t, result)
  PROVE  Accounts'
<1>1. /\ TableTypes(transfer, queue, transfers, status, wanted, signalled)
      /\ Listing(transfer, queue, transfers)
      /\ Serving(transfer, status, signalled)
      /\ Outcomes(transfer, wanted)
  BY DEF Accounts, Tables
<1> DEFINE ended == [transfer[t] EXCEPT !.phase = "finished", !.outcome = result]
<1>2. /\ transfer[t].phase = "running"
      /\ result = "cancelled" => transfer[t].aborted
      /\ UNCHANGED << status, wanted, signalled, transfers, queue, active, order >>
  BY DEF Finish, requestVars
<1>3. transfer[t] \in Transfer
  BY <1>1 DEF TableTypes
<1>4. transfer' = [transfer EXCEPT ![t] = ended]
  BY <1>1 DEF Finish, TableTypes
<1>5. /\ ended \in Transfer
      /\ ended.object = transfer[t].object /\ ended.phase = "finished"
      /\ ended.priority = transfer[t].priority /\ ended.outcome = result
      /\ ended.subscribers = transfer[t].subscribers
      /\ ended.aborted = transfer[t].aborted
  BY <1>3 DEF Transfer, Phases
<1> HIDE DEF ended
<1>6. /\ transfer' \in [Requests -> Transfer]
      /\ \A u \in Requests : transfer'[u] = IF u = t THEN ended ELSE transfer[u]
  BY <1>1, <1>4, <1>5 DEF TableTypes
<1>7. TableTypes(transfer', queue', transfers', status', wanted', signalled')
  BY <1>1, <1>2, <1>6 DEF TableTypes
<1>8. Listing(transfer', queue', transfers')
  <2>1. \A o \in Objects : transfers[o] # Nobody => transfers[o] \in Requests
    BY <1>1 DEF TableTypes
  <2>2. QED
    BY <1>1, <1>2, <1>5, <1>6, <2>1 DEF Listing, Underway
<1>9. Serving(transfer', status', signalled')
  BY <1>1, <1>2, <1>5, <1>6 DEF Serving
<1>10. Outcomes(transfer', wanted')
  BY <1>1, <1>2, <1>5, <1>6 DEF Outcomes
<1>11. InFlight' = InFlight
  BY <1>2, <1>5, <1>6 DEF InFlight
<1>12. Ordered(transfer', order')
  BY <1>2, <1>5, <1>6 DEF Accounts, Ordered
<1>13. QED
  BY <1>2, <1>7, <1>8, <1>9, <1>10, <1>11, <1>12 DEF Accounts, Tables

LEMMA SettleKeeps ==
  ASSUME Accounts, NEW t \in Requests, Settle(t)
  PROVE  Accounts'
<1> DEFINE all == [transfer EXCEPT ![t] = Over]
<1>1. /\ TableTypes(transfer, queue, transfers, status, wanted, signalled)
      /\ Listing(transfer, queue, transfers)
      /\ Serving(transfer, status, signalled)
      /\ Outcomes(transfer, wanted)
  BY DEF Accounts, Tables
<1>2. /\ transfer[t].phase = "finished"
      /\ status' = [r \in Requests |->
                      IF r \in transfer[t].subscribers THEN transfer[t].outcome
                                                       ELSE status[r]]
      /\ transfers' = Unlisted(t)
      /\ PumpFrom(all, queue, active - 1)
      /\ UNCHANGED << wanted, signalled, order >>
  BY DEF Settle, ListedAfter, SlotsAfter
<1>3. /\ Over \in Transfer /\ Over.phase = "over" /\ Over.subscribers = {}
  BY DEF Over, NoTransfer, Transfer, Phases
<1>4. /\ all \in [Requests -> Transfer]
      /\ \A u \in Requests : all[u] = IF u = t THEN Over ELSE transfer[u]
  BY <1>1, <1>3 DEF TableTypes
<1> HIDE DEF all
<1>5. /\ transfers' \in [Objects -> Requests \union {Nobody}]
      /\ \A o \in Objects : transfers'[o] =
           IF transfers[o] = t THEN Nobody ELSE transfers[o]
  BY <1>1, <1>2 DEF TableTypes, Unlisted
<1>6. transfer[t].outcome \in Results
  BY <1>1, <1>2 DEF Outcomes
<1>7. /\ status' \in [Requests -> Statuses]
      /\ \A r \in Requests : status'[r] =
           IF r \in transfer[t].subscribers THEN transfer[t].outcome ELSE status[r]
  BY <1>1, <1>2, <1>6 DEF TableTypes, Statuses
<1>8. transfer[t].outcome = "cancelled" => transfer[t].subscribers = {}
  BY <1>1, <1>2 DEF Outcomes, Listing
<1>9. TableTypes(all, queue, transfers', status', wanted', signalled')
  BY <1>1, <1>2, <1>4, <1>5, <1>7 DEF TableTypes
<1>10. Listing(all, queue, transfers')
  <2>1. \A u \in Requests : u \in queue <=> all[u].phase = "queued"
    BY <1>1, <1>2, <1>3, <1>4 DEF Listing
  <2>2. ASSUME NEW u \in Requests, all[u].phase \in Underway, ~all[u].aborted
        PROVE  /\ all[u].object \in Objects /\ transfers'[all[u].object] = u
               /\ all[u].subscribers # {}
    <3>1. u # t
      BY <1>3, <1>4, <2>2 DEF Underway
    <3>2. QED
      BY <1>1, <1>4, <1>5, <2>2, <3>1 DEF Listing
  <2>3. \A u \in Requests : all[u].phase \notin Underway \/ all[u].aborted =>
          all[u].subscribers = {}
    BY <1>1, <1>3, <1>4 DEF Listing
  <2>4. \A u \in Requests : all[u].phase = "queued" => ~all[u].aborted
    BY <1>1, <1>3, <1>4 DEF Listing
  <2>5. ASSUME NEW o \in Objects, transfers'[o] # Nobody
        PROVE  /\ all[transfers'[o]].phase \in Underway
               /\ ~all[transfers'[o]].aborted /\ all[transfers'[o]].object = o
    <3>1. /\ transfers'[o] = transfers[o] /\ transfers[o] # t
          /\ transfers[o] \in Requests
      BY <1>1, <1>5, <2>5 DEF TableTypes
    <3>2. QED
      BY <1>1, <1>4, <2>5, <3>1 DEF Listing
  <2>6. QED
    BY <2>1, <2>2, <2>3, <2>4, <2>5 DEF Listing
<1>11. Serving(all, status', signalled')
  <2>1. \A r, u \in Requests : r \in all[u].subscribers <=>
          u # t /\ r \in transfer[u].subscribers
    BY <1>3, <1>4
  <2>2. \A r \in Requests : status'[r] = "waiting" =>
          status[r] = "waiting" /\ r \notin transfer[t].subscribers
    BY <1>6, <1>7 DEF Results
  <2>3. \A r, u \in Requests : r \in all[u].subscribers => status'[r] = "waiting"
    BY <1>1, <1>7, <2>1 DEF Serving
  <2>4. \A r, u, v \in Requests :
          r \in all[u].subscribers /\ r \in all[v].subscribers => u = v
    BY <1>1, <2>1 DEF Serving
  <2>5. \A r \in Requests : status'[r] = "waiting" =>
          \E u \in Requests : r \in all[u].subscribers
    BY <1>1, <2>1, <2>2 DEF Serving
  <2>6. \A r \in Requests : status'[r] = "new" => all[r].phase = "none"
    BY <1>1, <1>2, <1>4, <1>6, <1>7 DEF Serving, Results
  <2>7. \A r \in Requests : status'[r] = "cancelled" => signalled'[r]
    BY <1>1, <1>2, <1>7, <1>8 DEF Serving
  <2>8. QED
    BY <2>3, <2>4, <2>5, <2>6, <2>7 DEF Serving
<1>12. Outcomes(all, wanted')
  BY <1>1, <1>2, <1>3, <1>4 DEF Outcomes
<1>13. active - 1 = Cardinality(InFlightOf(all)) /\ active - 1 \in Nat
  <2>1. InFlightOf(all) = InFlight \ {t} /\ t \in InFlight
    BY <1>2, <1>3, <1>4 DEF InFlightOf, InFlight
  <2>2. IsFiniteSet(InFlight) /\ active = Cardinality(InFlight)
    BY SlotsAreCounted DEF Accounts
  <2>3. Cardinality(InFlight \ {t}) = Cardinality(InFlight) - 1
        /\ IsFiniteSet(InFlight \ {t})
    BY <2>1, <2>2, FS_RemoveElement
  <2>4. Cardinality(InFlight \ {t}) \in Nat
    BY <2>3, FS_CardinalityType
  <2>5. QED
    BY <2>1, <2>2, <2>3, <2>4
<1>14. Tables(all, queue, transfers', status', wanted', signalled')
  BY <1>9, <1>10, <1>11, <1>12 DEF Tables
<1>15. Ordered(all, order')
  BY <1>2, <1>3, <1>4 DEF Accounts, Ordered
<1>16. active - 1 <= Concurrency
  BY SlotsAreCounted, AcquirerAssumption DEF Accounts, Full
<1>17. QED
  BY <1>2, <1>13, <1>14, <1>15, <1>16, PumpKeeps DEF Accounts

-----------------------------------------------------------------------------
(* The theorems.                                                            *)

LEMMA InitTables ==
  ASSUME AcquirerInit PROVE Accounts
<1>1. NoTransfer \in Transfer
  BY DEF NoTransfer, Transfer, Phases
<1>2. /\ transfer = [t \in Requests |-> NoTransfer]
      /\ \A t \in Requests : /\ transfer[t].phase = "none"
                             /\ transfer[t].subscribers = {}
  BY DEF AcquirerInit, NoTransfer
<1>3. TableTypes(transfer, queue, transfers, status, wanted, signalled)
  BY <1>1, <1>2 DEF AcquirerInit, TableTypes, Statuses
<1>4. Listing(transfer, queue, transfers)
  BY <1>2 DEF AcquirerInit, Listing, Underway
<1>5. Serving(transfer, status, signalled)
  BY <1>2 DEF AcquirerInit, Serving
<1>6. Outcomes(transfer, wanted) /\ Ordered(transfer, order)
  BY <1>2 DEF Outcomes, Ordered
<1>7. InFlight = {}
  BY <1>2 DEF InFlight
<1>8. active = Cardinality(InFlight) /\ order \in Nat /\ Full(queue, active)
  BY <1>7, FS_EmptySet, AcquirerAssumption DEF AcquirerInit, Full
<1>9. QED
  BY <1>3, <1>4, <1>5, <1>6, <1>8 DEF Accounts, Tables

LEMMA NextTables ==
  ASSUME Accounts, [AcquirerNext]_acquirerVars PROVE Accounts'
<1>1. ASSUME NEW r \in Requests, NEW o \in Objects, NEW p \in Priorities,
             Acquire(r, o, p)
      PROVE  Accounts'
  BY <1>1, JoinKeeps, CreateKeeps
<1>2. ASSUME NEW r \in Requests, AcquireAborted(r) PROVE Accounts'
  BY <1>2, AcquireAbortedKeeps
<1>3. ASSUME NEW r \in Requests, Abort(r) PROVE Accounts'
  BY <1>3, AbortKeeps
<1>4. ASSUME NEW t \in Requests, Settle(t) PROVE Accounts'
  BY <1>4, SettleKeeps
<1>5. ASSUME NEW t \in Requests, NEW result \in Results, Finish(t, result)
      PROVE  Accounts'
  BY <1>5, FinishKeeps
<1>6. CASE UNCHANGED acquirerVars
  BY <1>6
     DEF acquirerVars, requestVars, transferVars, Accounts, Tables, TableTypes,
         Listing,
              Serving, Outcomes, Ordered, Full, InFlight
<1>7. QED
  BY <1>1, <1>2, <1>3, <1>4, <1>5, <1>6 DEF AcquirerNext

LEMMA TablesAlways == AcquirerSpec => []Accounts
<1>1. AcquirerInit => Accounts
  BY InitTables
<1>2. Accounts /\ [AcquirerNext]_acquirerVars => Accounts'
  BY NextTables
<1>3. QED
  BY <1>1, <1>2, PTL DEF AcquirerSpec

\* The variables of the acquirer keep their types, a transfer is in the queue
\* exactly while it has not started, and somebody waits for it there.
THEOREM AcquirerTypes == AcquirerSpec => []AcquirerTypeOK
<1>1. Accounts => AcquirerTypeOK
  <2> SUFFICES ASSUME Accounts PROVE AcquirerTypeOK
    OBVIOUS
  <2>1. /\ TableTypes(transfer, queue, transfers, status, wanted, signalled)
        /\ Listing(transfer, queue, transfers)
        /\ active \in Nat /\ order \in Nat
    BY SlotsAreCounted DEF Accounts, Tables
  <2>2. \A t \in queue : transfer[t].subscribers # {}
    BY <2>1 DEF TableTypes, Listing, Underway
  <2>3. QED
    BY <2>1, <2>2 DEF TableTypes, Transfer, Listing, AcquirerTypeOK
<1>2. QED
  BY <1>1, TablesAlways, PTL

\* Whatever requests join, abort and replace each other, and whatever acquire()
\* says: the slots taken are the transfers in flight and all of them while one
\* waits, a request that waits is carried by one transfer, no object has two,
\* nobody is cancelled by somebody else's signal, and a transfer in the queue
\* is as urgent as everyone who waits for it.
THEOREM AcquirerAccounts == AcquirerSpec => []TransfersAccounted
<1>1. Accounts => TransfersAccounted
  <2> SUFFICES ASSUME Accounts PROVE TransfersAccounted
    OBVIOUS
  <2>1. /\ TableTypes(transfer, queue, transfers, status, wanted, signalled)
        /\ Listing(transfer, queue, transfers)
        /\ Serving(transfer, status, signalled)
        /\ Outcomes(transfer, wanted)
    BY DEF Accounts, Tables
  <2>2. SlotsAreHeld
    BY DEF Accounts, Full, SlotsAreHeld
  <2>3. \A t \in Live : /\ t \in Requests /\ transfer[t].phase \in Underway
                        /\ ~transfer[t].aborted
    BY <2>1 DEF Live, InFlight, TableTypes, Listing, Underway
  <2>4. WaitersAreCarried
    <3>1. ASSUME NEW r \in Requests, status[r] = "waiting"
          PROVE  \E t \in Live :
                   /\ {u \in Requests : r \in transfer[u].subscribers} = {t}
                   /\ transfers[transfer[t].object] = t
      <4>1. PICK t \in Requests : r \in transfer[t].subscribers
        BY <2>1, <3>1 DEF Serving
      <4>2. {u \in Requests : r \in transfer[u].subscribers} = {t}
        BY <2>1, <4>1 DEF Serving
      <4>3. transfer[t].phase \in Underway /\ ~transfer[t].aborted
        BY <2>1, <4>1 DEF Listing
      <4>4. t \in Live /\ transfers[transfer[t].object] = t
        BY <2>1, <4>3 DEF Listing, Live, InFlight, Underway
      <4>5. QED
        BY <4>2, <4>4
    <3>2. QED
      BY <3>1 DEF WaitersAreCarried
  <2>5. OneTransferPerObject
    BY <2>1, <2>3 DEF OneTransferPerObject, Listing
  <2>6. CancelledBySignalOnly
    BY <2>1 DEF CancelledBySignalOnly, Serving
  <2>7. UrgencyIsShared
    BY <2>1 DEF UrgencyIsShared, Outcomes, Listing, TableTypes
  <2>8. QED
    BY <2>2, <2>4, <2>5, <2>6, <2>7 DEF TransfersAccounted
<1>2. QED
  BY <1>1, TablesAlways, PTL

=============================================================================
