--------------------------- MODULE ObjectAcquirer ---------------------------
(***************************************************************************)
(* createImmutableObjectAcquirer() (packages/asset-store/src/browser.ts):  *)
(* requests for immutable objects share one transfer per object, transfers *)
(* wait for a bounded number of slots by priority, and a request that is   *)
(* aborted leaves its transfer, the last one aborting it.                  *)
(*                                                                         *)
(* A transfer is named by the request that created it.  What happens in    *)
(* acquire(), the cache and the fetch with their checks of the signal, is  *)
(* one step with a result; `finished` is the time between that result and  *)
(* the handler that settles the subscribers.  Init, Next and the like have *)
(* names of their own, for PageProofs extends this module and the page's.  *)
(***************************************************************************)
EXTENDS Naturals, FiniteSets

CONSTANTS
  Requests,      \* the calls of the acquirer
  Objects,       \* origin and hash
  Priorities,    \* 0 critical, 1 normal, 2 background
  Concurrency,   \* options.concurrency, 1 to 32
  Nobody

ASSUME AcquirerAssumption ==
  /\ IsFiniteSet(Requests) /\ Nobody \notin Requests /\ Nobody \notin Objects
  /\ Priorities \subseteq Nat /\ Concurrency \in Nat \ {0}

VARIABLES
  status,       \* of a request's promise
  wanted,       \* the priority a request asked for
  signalled,    \* its signal is aborted
  transfers,    \* the map from identities to transfers
  transfer,     \* the transfers themselves
  queue,
  active,
  order

requestVars == << status, wanted, signalled >>
transferVars == << transfers, transfer, queue, active, order >>
acquirerVars == << requestVars, transferVars >>

NoTransfer == [object |-> Nobody, priority |-> 0, order |-> 0, phase |-> "none",
               aborted |-> FALSE, subscribers |-> {}, outcome |-> "none"]

\* A transfer that nothing refers to any more.
Over == [NoTransfer EXCEPT !.phase = "over"]

AcquirerInit ==
  /\ status = [r \in Requests |-> "new"]
  /\ wanted = [r \in Requests |-> 0]
  /\ signalled = [r \in Requests |-> FALSE]
  /\ transfers = [o \in Objects |-> Nobody]
  /\ transfer = [t \in Requests |-> NoTransfer]
  /\ queue = {} /\ active = 0 /\ order = 0

-----------------------------------------------------------------------------
(* pump().                                                                  *)

Before(u, t, all) ==
  \/ all[u].priority < all[t].priority
  \/ all[u].priority = all[t].priority /\ all[u].order < all[t].order

\* The transfers that pump() takes from the queue for the free slots.
Chosen(waiting, all, free) ==
  LET live == { t \in waiting : all[t].subscribers # {} }
  IN { t \in live : Cardinality({ u \in live : Before(u, t, all) }) < free }

\* The state after pump(), given the transfers, the queue and the slots taken.
PumpFrom(all, waiting, taken) ==
  LET started == Chosen(waiting, all, Concurrency - taken)
  IN /\ transfer' = [t \in Requests |->
                       IF t \in started THEN [all[t] EXCEPT !.phase = "running"]
                                        ELSE all[t]]
     /\ queue' = waiting \ started
     /\ active' = taken + Cardinality(started)

-----------------------------------------------------------------------------
(* Requests.                                                                *)

\* A transfer that still waits becomes as urgent as the request that joins.
Join(t, r, priority) ==
  [transfer EXCEPT
     ![t].subscribers = @ \union {r},
     ![t].priority = IF transfer[t].phase = "queued" /\ priority < @
                     THEN priority ELSE @]

Create(r, o, priority) ==
  [transfer EXCEPT
     ![r] = [object |-> o, priority |-> priority, order |-> order,
             phase |-> "queued", aborted |-> FALSE, subscribers |-> {r},
             outcome |-> "none"]]

\* A request finds the transfer of its object or makes one.
Acquire(r, o, priority) ==
  /\ status[r] = "new" /\ ~signalled[r]
  /\ status' = [status EXCEPT ![r] = "waiting"]
  /\ wanted' = [wanted EXCEPT ![r] = priority]
  /\ \/ /\ transfers[o] # Nobody
        /\ PumpFrom(Join(transfers[o], r, priority), queue, active)
        /\ UNCHANGED << transfers, order >>
     \/ /\ transfers[o] = Nobody
        /\ transfers' = [transfers EXCEPT ![o] = r]
        /\ order' = order + 1
        /\ PumpFrom(Create(r, o, priority), queue \union {r}, active)
  /\ UNCHANGED signalled

\* A signal that is aborted already.
AcquireAborted(r) ==
  /\ status[r] = "new" /\ signalled[r]
  /\ status' = [status EXCEPT ![r] = "cancelled"]
  /\ UNCHANGED << wanted, signalled, transferVars >>

\* The index without the transfer, unless it has another one by now.
Unlisted(t) ==
  [o \in Objects |-> IF transfers[o] = t THEN Nobody ELSE transfers[o]]

\* Variant: the queue keeps it, without a subscriber.
StillQueued(t) == queue
Dequeued(t) == queue \ {t}

IsLast(t, r) == transfer[t].subscribers = {r}

\* The last subscriber to leave aborts the transfer; a transfer that runs
\* keeps its slot until acquire() notices.
WithoutSubscriber(t, r) ==
  IF IsLast(t, r) /\ t \in queue THEN Over
  ELSE [transfer[t] EXCEPT !.subscribers = @ \ {r}, !.aborted = IsLast(t, r)]

Abort(r) ==
  /\ ~signalled[r]
  /\ signalled' = [signalled EXCEPT ![r] = TRUE]
  /\ \/ /\ status[r] # "waiting"
        /\ UNCHANGED << status, transferVars >>
     \/ /\ status[r] = "waiting"
        /\ status' = [status EXCEPT ![r] = "cancelled"]
        /\ \E t \in Requests :
             /\ r \in transfer[t].subscribers
             /\ transfer' = [transfer EXCEPT ![t] = WithoutSubscriber(t, r)]
             /\ transfers' = IF IsLast(t, r) THEN Unlisted(t) ELSE transfers
             /\ queue' = IF IsLast(t, r) THEN Dequeued(t) ELSE queue
        /\ UNCHANGED << active, order >>
  /\ UNCHANGED wanted

-----------------------------------------------------------------------------
(* Transfers.                                                               *)

\* acquire() returns or throws; it is "cancelled" by its own signal only.
Finish(t, result) ==
  /\ transfer[t].phase = "running"
  /\ result = "cancelled" => transfer[t].aborted
  /\ transfer' = [transfer EXCEPT ![t].phase = "finished",
                                  ![t].outcome = result]
  /\ UNCHANGED << requestVars, transfers, queue, active, order >>

\* Variant: whatever the index has for the object is deleted.
ListedAfterAny(t) == [transfers EXCEPT ![transfer[t].object] = Nobody]
ListedAfter(t) == Unlisted(t)

\* Variant: a cancelled transfer does not give its slot back.
SlotsAfterSuccess(t) ==
  IF transfer[t].outcome = "cancelled" THEN active ELSE active - 1
SlotsAfter(t) == active - 1

\* The handlers of acquire(): the slot is free, the next transfer starts, the
\* subscribers are settled.
Settle(t) ==
  /\ transfer[t].phase = "finished"
  /\ status' = [r \in Requests |->
                  IF r \in transfer[t].subscribers THEN transfer[t].outcome
                                                   ELSE status[r]]
  /\ transfers' = ListedAfter(t)
  /\ PumpFrom([transfer EXCEPT ![t] = Over], queue, SlotsAfter(t))
  /\ UNCHANGED << wanted, signalled, order >>

Results == {"resolved", "rejected", "cancelled"}

AcquirerNext ==
  \/ \E r \in Requests, o \in Objects, p \in Priorities : Acquire(r, o, p)
  \/ \E r \in Requests : AcquireAborted(r) \/ Abort(r) \/ Settle(r)
  \/ \E t \in Requests, result \in Results : Finish(t, result)

AcquirerSpec == AcquirerInit /\ [][AcquirerNext]_acquirerVars

\* Fetches and cache operations end (the cache's are bounded by 30 seconds,
\* the fetch by the network); promise handlers run.
FairAcquirerSpec ==
  /\ AcquirerSpec
  /\ \A t \in Requests :
       /\ WF_acquirerVars(Settle(t))
       /\ WF_acquirerVars(\E result \in Results : Finish(t, result))

-----------------------------------------------------------------------------
(* Properties.                                                              *)

Statuses == Results \union {"new", "waiting"}
Phases == {"none", "queued", "running", "finished", "over"}

\* The types of the variables; a transfer is in the queue exactly while it
\* has not started, and somebody waits for it there.
AcquirerTypeOK ==
  /\ status \in [Requests -> Statuses]
  /\ wanted \in [Requests -> Priorities \union {0}]
  /\ signalled \in [Requests -> BOOLEAN]
  /\ transfers \in [Objects -> Requests \union {Nobody}]
  /\ transfer \in
       [Requests -> [object : Objects \union {Nobody},
                     priority : Priorities \union {0}, order : Nat,
                     phase : Phases, aborted : BOOLEAN,
                     subscribers : SUBSET Requests,
                     outcome : Results \union {"none"}]]
  /\ active \in Nat /\ order \in Nat
  /\ \A t \in Requests : t \in queue <=> transfer[t].phase = "queued"
  /\ \A t \in queue : transfer[t].subscribers # {}

InFlight == { t \in Requests : transfer[t].phase \in {"running", "finished"} }
Live == { t \in queue \union InFlight : ~transfer[t].aborted }

\* Every slot that is taken is held by a transfer in flight, and none is free
\* while a transfer waits.
SlotsAreHeld ==
  /\ active = Cardinality(InFlight) /\ active <= Concurrency
  /\ queue # {} => active = Concurrency

\* A request that waits is carried by one transfer, the one its object is
\* listed with, and that transfer is not aborted.
WaitersAreCarried ==
  \A r \in Requests :
    status[r] = "waiting" =>
      \E t \in Live : /\ { u \in Requests : r \in transfer[u].subscribers } = {t}
                      /\ transfers[transfer[t].object] = t

\* No object is transferred twice at a time, but for transfers on their way
\* out after an abort.
OneTransferPerObject ==
  \A t, u \in Live : transfer[t].object = transfer[u].object => t = u

\* A promise is rejected with "Cancelled" only by the signal of its own
\* request, whoever else aborts.
CancelledBySignalOnly ==
  \A r \in Requests : status[r] = "cancelled" => signalled[r]

\* A transfer in the queue is as urgent as everyone who waits for it, so that
\* a request for a critical object cannot be held up by having been preceded
\* by one for the background.
UrgencyIsShared ==
  \A t \in queue : \A r \in transfer[t].subscribers :
    transfer[t].priority <= wanted[r]

\* The tables of the acquirer agree: slots, subscribers, the list by object,
\* priorities and the promises settled, while requests join, abort and replace
\* each other.
TransfersAccounted ==
  SlotsAreHeld /\ WaitersAreCarried /\ OneTransferPerObject
  /\ CancelledBySignalOnly /\ UrgencyIsShared

\* Every request is settled.
EveryoneIsSettled ==
  \A r \in Requests : status[r] = "waiting" ~> status[r] # "waiting"

=============================================================================
