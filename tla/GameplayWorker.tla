--------------------------- MODULE GameplayWorker ---------------------------
(***************************************************************************)
(* Requests and replies between the page's Tf2WorkerClient and the         *)
(* gameplay worker (client.ts, gameplay-worker.ts, model-read-ownership.ts *)
(* of games/tf2/browser/src): request ids and their bound, the model       *)
(* request that waits for a companion, the worker's deferral while it      *)
(* initializes, the shared-memory leases of model output, and shutdown.    *)
(*                                                                         *)
(* Before "initialized" the worker replies by postMessage; after it, the   *)
(* reply mailbox carries every reply.  ReplyTransport shows the mailbox to *)
(* be one queue; here it is one.                                           *)
(***************************************************************************)
EXTENDS Integers, Sequences, FiniteSets, SequencesExt

CONSTANTS
  MaxPending,      \* MAX_PENDING of the client, 64
  Capacity,        \* REPLY_CAPACITY of the mailbox, 64
  LeaseSlots,      \* the words of modelOwnership, 64 of them
  LastId           \* the largest request id, 2^32 - 1

ASSUME BoundAssumption ==
  /\ MaxPending \in Nat \ {0} /\ LastId \in Nat /\ LastId > MaxPending
  /\ Capacity \in Nat /\ Capacity >= MaxPending

VARIABLES
  closed,
  initialize_id, shutdown_id,   \* the one request of each, None before it
  shutdown_requested,
  pending,                      \* #pending, a Map in insertion order
  next_id,
  queued_models,                \* #queuedModels: its id, or None
  model_reads,                  \* #modelReads that wait for their response
  decoding,                     \* the model read that goes on with its own
  reader_open,                  \* #replies exists
  anomaly,                      \* what ended or disturbed the connection
  requests, plain, mailbox,     \* the channels, oldest first
  initializing, deferred,       \* of the worker
  replies_on,                   \* the worker's ReplyWriter exists
  answers,                      \* what the request at hand is still owed
  leases, ownership             \* modelOutputLeases, the shared words

clientVars == << initialize_id, shutdown_id, shutdown_requested, pending,
                 next_id, queued_models, model_reads, decoding, reader_open >>
workerVars == << initializing, deferred, replies_on, answers, leases >>
vars == << closed, anomaly, clientVars, requests, plain, mailbox, workerVars,
           ownership >>

Ids == 1..LastId
None == 0
NotDecoding == [id |-> None, slot |-> None, reading |-> FALSE]

Init ==
  /\ closed = FALSE /\ anomaly = "none"
  /\ initialize_id = None /\ shutdown_id = None /\ shutdown_requested = FALSE
  /\ pending = << >> /\ next_id = 1
  /\ queued_models = None /\ model_reads = {} /\ decoding = NotDecoding
  /\ reader_open = FALSE
  /\ requests = << >> /\ plain = << >> /\ mailbox = << >>
  /\ initializing = None /\ deferred = << >> /\ replies_on = FALSE
  /\ answers = << >>
  /\ leases = {} /\ ownership = [s \in LeaseSlots |-> None]

\* The end of the connection: the reader is closed, every pending promise is
\* rejected and the worker terminated, its memory with it.
CloseWith(cause) ==
  /\ closed' = TRUE /\ anomaly' = cause
  /\ initialize_id' = None /\ shutdown_id' = None /\ shutdown_requested' = FALSE
  /\ pending' = << >> /\ next_id' = 1
  /\ queued_models' = None /\ model_reads' = {} /\ decoding' = NotDecoding
  /\ reader_open' = FALSE
  /\ requests' = << >> /\ plain' = << >> /\ mailbox' = << >>
  /\ initializing' = None /\ deferred' = << >> /\ replies_on' = FALSE
  /\ answers' = << >>
  /\ leases' = {} /\ ownership' = [s \in LeaseSlots |-> None]

-----------------------------------------------------------------------------
(* The client: requests in the order in which their ids were reserved.      *)

\* The page runs anything but a decoder in progress.
PageFree == ~closed /\ ~decoding.reading

After(id) == IF id = LastId THEN 1 ELSE id + 1

\* Variant: an id is not skipped while it is pending.
UncheckedId(held) == next_id
\* The first id from #nextId on that no pending request holds.
FreeId(held) ==
  LET free == Ids \ ToSet(held)
      later == {id \in free : id >= next_id}
  IN  IF later # {} THEN Min(later) ELSE Min(free)

\* Variant: an off-by-one bound.
MayReserveOneMore(held) == Len(held) <= MaxPending
MayReserve(held) == Len(held) < MaxPending

\* delete of the Map that is #pending.
Without(held, id) ==
  IF id \in ToSet(held)
  THEN RemoveAt(held, CHOOSE i \in DOMAIN held : held[i] = id)
  ELSE held

\* #flushModels takes its reservation back when its postMessage throws.
Held(sent) == IF sent THEN pending ELSE Without(pending, queued_models)
Reads(sent) == IF sent THEN model_reads ELSE model_reads \ {queued_models}

\* Variant: requests overtake the models that wait for a companion.
NothingFlushed(sent) == << >>
\* What #flushModels sends.
Flushed(sent) ==
  IF queued_models = None \/ ~sent THEN << >>
  ELSE << [id |-> queued_models, kind |-> "models", companion |-> None] >>

\* #rawRequest: flush, then reserve an id and send, or be refused.  #send that
\* throws takes the reservation back.
SendRequest(kind, flushed, sent) ==
  /\ queued_models' = None
  /\ model_reads' = Reads(flushed)
  /\ IF MayReserve(Held(flushed))
     THEN LET id == FreeId(Held(flushed))
          IN  /\ next_id' = After(id)
              /\ pending' = IF sent THEN Append(Held(flushed), id) ELSE Held(flushed)
              /\ requests' = requests \o Flushed(flushed) \o
                   (IF sent THEN << [id |-> id, kind |-> kind, companion |-> None] >>
                    ELSE << >>)
     ELSE /\ pending' = Held(flushed)
          /\ requests' = requests \o Flushed(flushed)
          /\ UNCHANGED next_id

\* A request that is refused or not sent aborts the connection.
Initialize ==
  /\ PageFree /\ ~shutdown_requested /\ initialize_id = None
  /\ \/ \E flushed \in BOOLEAN :
          /\ MayReserve(Held(flushed))
          /\ initialize_id' = FreeId(Held(flushed))
          /\ SendRequest("initialize", flushed, TRUE)
          /\ UNCHANGED << closed, anomaly, shutdown_id, shutdown_requested,
                          decoding, reader_open, plain, mailbox, workerVars,
                          ownership >>
     \/ CloseWith(anomaly)

\* Any request whose reply is one success or failure.
Request ==
  /\ PageFree /\ ~shutdown_requested
  /\ \E flushed, sent \in BOOLEAN : SendRequest("request", flushed, sent)
  /\ UNCHANGED << closed, anomaly, initialize_id, shutdown_id,
                  shutdown_requested, decoding, reader_open, plain, mailbox,
                  workerVars, ownership >>

\* #readModels: the request waits in #queuedModels until the microtask, the
\* companion or another request sends it.
Models ==
  /\ PageFree /\ ~shutdown_requested
  /\ \E flushed \in BOOLEAN :
       /\ requests' = requests \o Flushed(flushed)
       /\ IF MayReserve(Held(flushed))
          THEN LET id == FreeId(Held(flushed))
               IN  /\ pending' = Append(Held(flushed), id)
                   /\ next_id' = After(id)
                   /\ queued_models' = id
                   /\ model_reads' = Reads(flushed) \cup {id}
          ELSE /\ queued_models' = None
               /\ pending' = Held(flushed) /\ model_reads' = Reads(flushed)
               /\ UNCHANGED next_id
  /\ UNCHANGED << closed, anomaly, initialize_id, shutdown_id,
                  shutdown_requested, decoding, reader_open, plain, mailbox,
                  workerVars, ownership >>

\* visibilityViews of the same generation joins the queued models; both are
\* taken back when the batch cannot be sent.
Companion ==
  /\ PageFree /\ ~shutdown_requested
  /\ queued_models # None
  /\ MayReserve(pending)
  /\ next_id' = After(FreeId(pending))
  /\ \E sent \in BOOLEAN :
       /\ pending' = IF sent THEN Append(pending, FreeId(pending)) ELSE Held(sent)
       /\ model_reads' = Reads(sent)
       /\ requests' = IF ~sent THEN requests
                      ELSE Append(requests, [id |-> queued_models, kind |-> "models",
                                             companion |-> FreeId(pending)])
  /\ queued_models' = None
  /\ UNCHANGED << closed, anomaly, initialize_id, shutdown_id,
                  shutdown_requested, decoding, reader_open, plain, mailbox,
                  workerVars, ownership >>

\* #flushModels on its own.
Flush ==
  /\ \E sent \in BOOLEAN :
       /\ requests' = requests \o Flushed(sent)
       /\ pending' = Held(sent) /\ model_reads' = Reads(sent)
  /\ queued_models' = None

FlushMicrotask ==
  /\ PageFree /\ queued_models # None
  /\ Flush
  /\ UNCHANGED << closed, anomaly, initialize_id, shutdown_id,
                  shutdown_requested, next_id, decoding, reader_open, plain,
                  mailbox, workerVars, ownership >>

\* shutdown(): submit what is queued, then wait for the model reads.
RequestShutdown ==
  /\ PageFree /\ ~shutdown_requested
  /\ shutdown_requested' = TRUE
  /\ Flush
  /\ UNCHANGED << closed, anomaly, initialize_id, shutdown_id, next_id,
                  decoding, reader_open, plain, mailbox, workerVars, ownership >>

\* Variant: shutdown does not wait for the decoders.
ReadsIgnored == TRUE
ReadsSettled == model_reads = {} /\ decoding = NotDecoding

\* The client closes when the request is refused or cannot be sent.
SendShutdown ==
  /\ PageFree /\ shutdown_requested /\ shutdown_id = None
  /\ ReadsSettled
  /\ \/ /\ MayReserve(pending)
        /\ shutdown_id' = FreeId(pending)
        /\ SendRequest("shutdown", TRUE, TRUE)
        /\ UNCHANGED << closed, anomaly, initialize_id, shutdown_requested,
                        decoding, reader_open, plain, mailbox, workerVars,
                        ownership >>
     \/ CloseWith(anomaly)

\* abort(), or the worker's own error event.
Abort == ~closed /\ CloseWith(anomaly)

-----------------------------------------------------------------------------
(* The client: replies.                                                     *)

\* #receive: settle the promise of the reply's id.
Receive(reply) ==
  IF reply.id \notin ToSet(pending)
  THEN /\ anomaly' = "stale"
       /\ UNCHANGED << closed, clientVars, requests, workerVars, ownership >>
  ELSE IF reply.id = shutdown_id
          \/ (reply.id = initialize_id /\ reply.kind = "failure")
  THEN CloseWith(anomaly)
  ELSE /\ pending' = Without(pending, reply.id)
       /\ reader_open' = (reader_open \/ reply.kind = "initialized")
       /\ model_reads' = model_reads \ {reply.id}
       /\ decoding' = IF reply.kind = "models"
                      THEN [id |-> reply.id, slot |-> reply.slot,
                            reading |-> FALSE]
                      ELSE decoding
       /\ UNCHANGED << closed, anomaly, initialize_id, shutdown_id,
                       shutdown_requested, next_id, queued_models, requests,
                       workerVars, ownership >>

\* A message event; the page has run its microtasks.  Once the reader exists
\* a reply outside the mailbox is an error.
ReceivePlain ==
  /\ PageFree /\ decoding = NotDecoding /\ queued_models = None
  /\ plain # << >>
  /\ IF reader_open THEN CloseWith("unordered")
     ELSE /\ Receive(Head(plain))
          /\ closed' \/ (plain' = Tail(plain) /\ UNCHANGED mailbox)

\* The reader's loop delivers one reply and yields to its continuation.
ReceiveMailbox ==
  /\ PageFree /\ decoding = NotDecoding /\ reader_open
  /\ mailbox # << >>
  /\ Receive(Head(mailbox))
  /\ closed' \/ (mailbox' = Tail(mailbox) /\ UNCHANGED plain)

\* #readModels after its await: the lease must be its own.
BeginDecode ==
  /\ PageFree /\ decoding # NotDecoding
  /\ IF ownership[decoding.slot] # decoding.id THEN CloseWith("lease")
     ELSE /\ decoding' = [decoding EXCEPT !.reading = TRUE]
          /\ UNCHANGED << closed, anomaly, initialize_id, shutdown_id,
                          shutdown_requested, pending, next_id, queued_models,
                          model_reads, reader_open, requests, plain, mailbox,
                          workerVars, ownership >>

\* The pose decoder has copied what it needs; the store releases the lease.
EndDecode ==
  /\ ~closed /\ decoding.reading
  /\ ownership' = [ownership EXCEPT ![decoding.slot] = None]
  /\ decoding' = NotDecoding
  /\ UNCHANGED << closed, anomaly, initialize_id, shutdown_id,
                  shutdown_requested, pending, next_id, queued_models,
                  model_reads, reader_open, requests, plain, mailbox, workerVars >>

-----------------------------------------------------------------------------
(* The worker.                                                              *)

WorkerFree == ~closed /\ answers = << >>

\* reclaimModelReads: only what the page has released is recycled.
Reclaimed == {lease \in leases : ownership[lease.slot] # None}

\* The replies a request is owed: its own and its companion's.
Owed(request) ==
  << [id |-> request.id, kind |-> request.kind] >> \o
  (IF request.companion = None THEN << >>
   ELSE << [id |-> request.companion, kind |-> "request"] >>)

\* dispatch(): reclaim, then handle; initialize() suspends at its first await.
Dispatch(request) ==
  /\ leases' = Reclaimed
  /\ IF request.kind = "initialize"
     THEN initializing' = request.id /\ UNCHANGED answers
     ELSE answers' = Owed(request) /\ UNCHANGED initializing

\* onmessage
OnMessage ==
  /\ WorkerFree /\ requests # << >>
  /\ IF initializing # None
     THEN /\ deferred' = Append(deferred, Head(requests))
          /\ UNCHANGED << leases, initializing, answers >>
     ELSE /\ deferred = << >>
          /\ Dispatch(Head(requests))
          /\ UNCHANGED deferred
  /\ requests' = Tail(requests)
  /\ UNCHANGED << closed, anomaly, clientVars, plain, mailbox, replies_on,
                  ownership >>

\* The loop over deferred that follows initialization.
HandleDeferred ==
  /\ WorkerFree /\ initializing = None /\ deferred # << >>
  /\ Dispatch(Head(deferred))
  /\ deferred' = Tail(deferred)
  /\ UNCHANGED << closed, anomaly, clientVars, requests, plain, mailbox,
                  replies_on, ownership >>

\* initialize() ends: by postMessage, and only then the mailbox is in use.
Initialized ==
  /\ WorkerFree /\ initializing # None
  /\ \E ok \in BOOLEAN :
       /\ plain' = Append(plain,
            [id |-> initializing, kind |-> IF ok THEN "initialized" ELSE "failure",
             slot |-> None])
       /\ replies_on' = ok
  /\ initializing' = None
  /\ UNCHANGED << closed, anomaly, clientVars, requests, mailbox, deferred,
                  answers, leases, ownership >>

\* post() or postShared().
Post(reply) ==
  IF ~replies_on
  THEN /\ plain' = Append(plain, reply)
       /\ UNCHANGED << closed, anomaly, clientVars, requests, mailbox,
                       initializing, deferred, replies_on >>
  ELSE /\ mailbox' = Append(mailbox, reply)
       /\ UNCHANGED << closed, anomaly, clientVars, requests, plain,
                       initializing, deferred, replies_on >>

\* The mailbox refuses what would overrun it: the exception leaves the worker,
\* and Abort is all that can follow.
MailboxFull == replies_on /\ Len(mailbox) >= Capacity

\* models(): the output is leased to the page under a free slot.
AnswerModels(slot) ==
  /\ ~closed /\ answers # << >> /\ ~MailboxFull
  /\ Head(answers).kind = "models" /\ replies_on
  /\ \A lease \in leases : lease.slot # slot /\ lease.id # Head(answers).id
  /\ leases' = leases \cup {[id |-> Head(answers).id, slot |-> slot]}
  /\ ownership' = [ownership EXCEPT ![slot] = Head(answers).id]
  /\ Post([id |-> Head(answers).id, kind |-> "models", slot |-> slot])
  /\ answers' = Tail(answers)

\* Every other outcome; a shutdown with leases outstanding is refused, and
\* output that cannot be posted is taken back at once.
Answer(kind) ==
  /\ ~closed /\ answers # << >> /\ ~MailboxFull
  /\ CASE Head(answers).kind = "shutdown" ->
            kind = IF leases = {} THEN "shutdown" ELSE "failure"
       [] Head(answers).kind = "models" -> kind = "failure"
       [] OTHER -> kind \in {"other", "failure"}
  /\ Post([id |-> Head(answers).id, kind |-> kind, slot |-> None])
  /\ answers' = Tail(answers)
  /\ leases' = leases \/ (Head(answers).kind = "models" /\ leases' = Reclaimed)
  /\ UNCHANGED ownership

-----------------------------------------------------------------------------

ReplyStep == ReceivePlain \/ ReceiveMailbox \/ BeginDecode \/ EndDecode
WorkerStep ==
  \/ OnMessage \/ HandleDeferred \/ Initialized
  \/ \E slot \in LeaseSlots : AnswerModels(slot)
  \/ \E kind \in {"other", "failure", "shutdown"} : Answer(kind)

Next ==
  \/ Initialize \/ Request
  \/ Models \/ Companion \/ FlushMicrotask
  \/ RequestShutdown \/ SendShutdown \/ Abort
  \/ ReplyStep \/ WorkerStep

Spec == Init /\ [][Next]_vars

\* Both event loops run and WASM instantiation settles.  A message event waits
\* in the page's task queue while the page makes further requests, and the
\* reader's continuation likewise, so the receptions are strongly fair.
FairSpec == /\ Spec
            /\ WF_vars(WorkerStep) /\ WF_vars(BeginDecode \/ EndDecode)
            /\ SF_vars(ReceivePlain) /\ SF_vars(ReceiveMailbox)
            /\ WF_vars(FlushMicrotask) /\ WF_vars(SendShutdown)

-----------------------------------------------------------------------------
(* Properties.                                                              *)

Requests == [id : Ids, companion : Ids \cup {None},
             kind : {"initialize", "models", "request", "shutdown"}]
Replies == [id : Ids, slot : LeaseSlots \cup {None},
            kind : {"initialized", "models", "other", "shutdown", "failure"}]

TypeOK ==
  /\ closed \in BOOLEAN /\ shutdown_requested \in BOOLEAN
  /\ anomaly \in {"none", "stale", "unordered", "lease"}
  /\ {initialize_id, shutdown_id, initializing, queued_models}
       \subseteq Ids \cup {None}
  /\ pending \in Seq(Ids) /\ next_id \in Ids
  /\ Len(pending) <= MaxPending
  /\ model_reads \subseteq Ids
  /\ decoding = NotDecoding
     \/ decoding \in [id : Ids, slot : LeaseSlots, reading : BOOLEAN]
  /\ reader_open \in BOOLEAN /\ replies_on \in BOOLEAN
  /\ requests \in Seq(Requests) /\ deferred \in Seq(Requests)
  /\ plain \in Seq(Replies) /\ mailbox \in Seq(Replies)
  /\ answers \in Seq([id : Ids, kind : {"models", "request", "shutdown"}])
  /\ leases \subseteq [id : Ids, slot : LeaseSlots]
  /\ ownership \in [LeaseSlots -> Ids \cup {None}]

IdsOf(messages) == [i \in DOMAIN messages |-> messages[i].id]

Optional(id) == IF id = None THEN << >> ELSE << id >>

WithCompanions(messages) ==
  FlattenSeq([i \in DOMAIN messages |->
    << messages[i].id >> \o Optional(messages[i].companion)])

\* Every pending promise has exactly one request or reply on its way, and all
\* of them are on their way in the order of their reservation: across the two
\* reply channels, the companion, the deferral and the models held back.  So
\* replies come back in request order, each once, and no id is ever reused
\* while anything of its last use is in flight.
TransitIsPending ==
  pending = IdsOf(plain) \o IdsOf(mailbox) \o IdsOf(answers)
            \o Optional(initializing) \o WithCompanions(deferred)
            \o WithCompanions(requests) \o Optional(queued_models)

\* The client recognises every reply: none is stale, none comes outside the
\* mailbox once it is open, and a model read always owns its lease.
RepliesRecognised == anomaly = "none"

\* The client's bound on pending requests keeps the mailbox from overrunning,
\* which would lose the worker: every reply owed finds room.
MailboxNeverFull == answers # << >> => ~MailboxFull

\* Replies arrive in request order, each once, each is recognised, and each
\* found room in the mailbox.
RepliesInOrder == TransitIsPending /\ RepliesRecognised /\ MailboxNeverFull

\* Model output is not recycled while the page decodes it.
LeaseHeldWhileRead ==
  decoding # NotDecoding =>
    [id |-> decoding.id, slot |-> decoding.slot] \in leases

\* When the worker handles shutdown, no model output is still leased: the
\* client drained its decoders, and reclaiming precedes handling.
ShutdownFindsNoLease ==
  answers # << >> /\ Head(answers).kind = "shutdown" => leases = {}

\* Model leases last as long as their decoders and no longer than shutdown.
LeasesRespected == LeaseHeldWhileRead /\ ShutdownFindsNoLease

\* Every request is answered, unless the connection closes: again and again
\* nothing is pending, or the oldest request is answered again and again.
RequestIsAnswered ==
  \/ []<>(pending = << >>)
  \/ []<><<pending # << >> /\ pending' = Tail(pending)>>_pending

\* shutdown() always completes: what it asked for is taken back by closing.
ShutdownCompletes == []<>(~shutdown_requested)

\* Nobody waits for ever for the worker: neither a request, which is answered
\* or rejected wherever it is held back (for a companion, until the worker is
\* initialized, behind a full batch), nor shutdown(), which waits for the
\* decoders, nor what is asked after it.
EverythingIsAnswered == RequestIsAnswered /\ ShutdownCompletes
=============================================================================
