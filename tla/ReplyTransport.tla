--------------------------- MODULE ReplyTransport ---------------------------
(***************************************************************************)
(* The reply mailbox between the gameplay worker and the page              *)
(* (games/tf2/browser/src/reply-transport.ts): a ring of metadata slots in *)
(* a SharedArrayBuffer with three atomic words.                            *)
(*                                                                         *)
(* Two threads run.  On the worker a ReplyWriter fills the next slot and   *)
(* publishes it by storing its sequence in the first word.  A control      *)
(* reply travels by postMessage and its slot only holds its place in the   *)
(* queue; a shared reply's bytes stay in WASM memory, leased until the     *)
(* reader has acknowledged the slot.  On the page a ReplyReader runs one   *)
(* asynchronous loop.  Steps of the page interleave with the worker at     *)
(* every access to shared memory, but the page's own tasks (an envelope    *)
(* arriving, close()) only where the loop is suspended at an await.        *)
(*                                                                         *)
(* A reply is known by its ordinal; that is also the request id it carries.*)
(***************************************************************************)
EXTENDS Integers, Sequences, FiniteSets

CONSTANTS
  Capacity,     \* REPLY_CAPACITY, 64
  Modulus,      \* 2^32, the range of a sequence
  MaxReplies    \* bound: the replies the worker tries to send

ASSUME SequenceAssumption ==
  /\ Capacity \in Nat \ {0} /\ MaxReplies \in Nat
  /\ Modulus \in Nat /\ Modulus > Capacity /\ Modulus % Capacity = 0

VARIABLES
  word, acknowledged, closed_word,   \* the atomic words 0, 1 and 2
  slots,                             \* the ring
  envelopes,                         \* postMessage from worker to page
  written, reclaimed, releases,      \* ReplyWriter
  writer, reply,                     \* where the worker stands, its reply
  read, native, control_ready,       \* ReplyReader
  reader, expected, response,        \* where run() stands, its locals
  closing,                           \* where close() stands
  rejected,                          \* accept() threw
  attempts, copied, recycles         \* history: replies begun, leases copied
                                     \* by the page, leases given back

mailboxVars == << word, acknowledged, closed_word, slots >>
writerVars == << written, reclaimed, releases, writer, reply >>
readerVars == << read, native, control_ready, reader, expected, response >>
leaseVars == << copied, recycles >>
vars == << mailboxVars, envelopes, writerVars, readerVars, closing, rejected,
           attempts, leaseVars >>

Sequences == 0..(Modulus - 1)
Ordinals == 1..MaxReplies
Kinds == {"control", "shared"}
Replies == [kind : Kinds, id : Ordinals]
NoReply == [kind |-> "none", id |-> 0]

\* Variant: the sequence is not kept to 32 bits.
Incremented(sequence) == sequence + 1
Following(sequence) == (sequence + 1) % Modulus
Distance(later, earlier) == (later - earlier) % Modulus
SlotAt(sequence) == sequence % Capacity

closed == closing # "open"

Init ==
  /\ word = 0 /\ acknowledged = 0 /\ closed_word = 0
  /\ slots = [i \in 0..(Capacity - 1) |-> NoReply]
  /\ envelopes = << >>
  /\ written = 0 /\ reclaimed = 0 /\ releases = {}
  /\ writer = "idle" /\ reply = NoReply
  /\ read = 0 /\ native = {} /\ control_ready = "unset"
  /\ reader = "head" /\ expected = 0 /\ response = NoReply
  /\ closing = "open" /\ rejected = FALSE
  /\ attempts = 0 /\ copied = {} /\ recycles = [n \in Ordinals |-> 0]

-----------------------------------------------------------------------------
(* The worker.                                                              *)

\* reclaim(): give back the lease of every slot acknowledged since last time.
Acknowledged(release) ==
  Distance(release.sequence, reclaimed)
    \in 1..Distance(acknowledged, reclaimed)

Reclaim ==
  /\ recycles' = [n \in Ordinals |->
       IF \E r \in releases : r.lease = n /\ Acknowledged(r)
       THEN recycles[n] + 1 ELSE recycles[n]]
  /\ releases' = {r \in releases : ~Acknowledged(r)}
  /\ reclaimed' = acknowledged

\* dispatch() reclaims before it handles a request.
DispatchReclaim ==
  /\ writer = "idle"
  /\ Reclaim
  /\ UNCHANGED << mailboxVars, envelopes, written, writer, reply, readerVars,
                  closing, rejected, attempts, copied >>

\* control() or shared() is entered; #reserve reclaims first.
BeginReply(kind) ==
  /\ writer = "idle" /\ attempts < MaxReplies
  /\ attempts' = attempts + 1
  /\ reply' = [kind |-> kind, id |-> attempts + 1]
  /\ Reclaim
  /\ writer' = "reserve"
  /\ UNCHANGED << mailboxVars, envelopes, written, readerVars, closing,
                  rejected, copied >>

\* Variant: an off-by-one bound.
OneTooMany == Distance(written, reclaimed) > Capacity
Full == Distance(written, reclaimed) >= Capacity

\* The caller of shared() gives the lease back itself when it throws.
ReturnLease ==
  recycles' = IF reply.kind = "shared"
              THEN [recycles EXCEPT ![reply.id] = @ + 1] ELSE recycles

RefuseReply ==
  /\ writer = "reserve"
  /\ closed_word # 0 \/ Full
  /\ ReturnLease
  /\ writer' = "idle" /\ reply' = NoReply
  /\ UNCHANGED << mailboxVars, envelopes, written, reclaimed, releases,
                  readerVars, closing, rejected, attempts, copied >>

ReserveSlot ==
  /\ writer = "reserve"
  /\ closed_word = 0 /\ ~Full
  /\ writer' = "write"
  /\ UNCHANGED << mailboxVars, envelopes, written, reclaimed, releases, reply,
                  readerVars, closing, rejected, attempts, leaseVars >>

\* The metadata is written in place, not yet published.
WriteSlot ==
  /\ writer = "write"
  /\ slots' = [slots EXCEPT ![SlotAt(written)] = reply]
  /\ IF reply.kind = "control"
     THEN writer' = "send" /\ UNCHANGED releases
     ELSE /\ writer' = "publish"
          /\ releases' = {r \in releases : r.sequence # Following(written)}
                 \cup {[sequence |-> Following(written), lease |-> reply.id]}
  /\ UNCHANGED << word, acknowledged, closed_word, envelopes, written,
                  reclaimed, reply, readerVars, closing, rejected, attempts,
                  leaseVars >>

\* shared() rejects its ranges or gauges with the slot already half written.
RejectReply ==
  /\ writer = "write" /\ reply.kind = "shared"
  /\ slots' = [slots EXCEPT ![SlotAt(written)] = reply]
  /\ ReturnLease
  /\ writer' = "idle" /\ reply' = NoReply
  /\ UNCHANGED << word, acknowledged, closed_word, envelopes, written,
                  reclaimed, releases, readerVars, closing, rejected,
                  attempts, copied >>

\* The envelope leaves before the slot is published.
SendEnvelope ==
  /\ writer = "send"
  /\ envelopes' = Append(envelopes, [sequence |-> Following(written),
                                     id |-> reply.id])
  /\ writer' = "publish"
  /\ UNCHANGED << mailboxVars, written, reclaimed, releases, reply,
                  readerVars, closing, rejected, attempts, leaseVars >>

\* #publish: the store of word 0 releases the slot to the page.
PublishSlot ==
  /\ writer = "publish"
  /\ written' = Following(written)
  /\ word' = Following(written)
  /\ writer' = "notify" /\ reply' = NoReply
  /\ UNCHANGED << acknowledged, closed_word, slots, envelopes, reclaimed,
                  releases, readerVars, closing, rejected, attempts,
                  leaseVars >>

\* Atomics.notify wakes the page if it already waits.
\* Variant: the notification is left out.
NoWaiter == UNCHANGED reader
WakeWaiter == reader' = IF reader = "waiting" THEN "woken" ELSE reader

NotifyReader ==
  /\ writer = "notify"
  /\ WakeWaiter
  /\ writer' = "idle"
  /\ UNCHANGED << mailboxVars, envelopes, written, reclaimed, releases, reply,
                  read, native, control_ready, expected, response, closing,
                  rejected, attempts, leaseVars >>

WorkerStep == RefuseReply \/ ReserveSlot \/ WriteSlot \/ RejectReply
              \/ SendEnvelope \/ PublishSlot \/ NotifyReader

-----------------------------------------------------------------------------
(* The page: run().                                                         *)

\* close() is one synchronous call: run() waits until it has returned.
PageFree == closing \in {"open", "done"}

\* The head of the loop, also after an await.
LoadWord ==
  /\ PageFree /\ reader \in {"head", "woken", "yielded"}
  /\ expected' = word
  /\ reader' = IF closed THEN "returned"
               ELSE IF Distance(word, read) > Capacity THEN "failed"
               ELSE IF word = read THEN "wait" ELSE "slot"
  /\ UNCHANGED << mailboxVars, envelopes, writerVars, read, native,
                  control_ready, response, closing, rejected, attempts,
                  leaseVars >>

\* Atomics.waitAsync compares and registers in one step.
\* Variant: it registers without comparing.
WaitWithoutComparing ==
  /\ PageFree /\ reader = "wait"
  /\ reader' = "waiting"
  /\ UNCHANGED << mailboxVars, envelopes, writerVars, read, native,
                  control_ready, expected, response, closing, rejected,
                  attempts, leaseVars >>
WaitAsync ==
  /\ PageFree /\ reader = "wait"
  /\ reader' = IF word = expected THEN "waiting" ELSE "head"
  /\ UNCHANGED << mailboxVars, envelopes, writerVars, read, native,
                  control_ready, expected, response, closing, rejected,
                  attempts, leaseVars >>

HasNative == \E e \in native : e.sequence = Following(read)

\* Variant: the slot is acknowledged when its metadata was read.
ReadSlotAcknowledging ==
  /\ PageFree /\ reader = "slot"
  /\ response' = slots[SlotAt(read)]
  /\ acknowledged' = Following(read)
  /\ IF response'.kind = "shared"
     THEN reader' = "copy" /\ UNCHANGED control_ready
     ELSE IF HasNative THEN reader' = "take" /\ UNCHANGED control_ready
     ELSE reader' = "control" /\ control_ready' = "armed"
  /\ UNCHANGED << word, closed_word, slots, envelopes, writerVars, read,
                  native, expected, closing, rejected, attempts, leaseVars >>
\* The metadata of the next slot decides where the reply comes from.
ReadSlot ==
  /\ PageFree /\ reader = "slot"
  /\ response' = slots[SlotAt(read)]
  /\ IF response'.kind = "shared"
     THEN reader' = "copy" /\ UNCHANGED control_ready
     ELSE IF HasNative THEN reader' = "take" /\ UNCHANGED control_ready
     ELSE reader' = "control" /\ control_ready' = "armed"
  /\ UNCHANGED << mailboxVars, envelopes, writerVars, read, native, expected,
                  closing, rejected, attempts, leaseVars >>

\* #decode copies the leased bytes.
CopyLease ==
  /\ PageFree /\ reader = "copy"
  /\ copied' = copied \cup {response.id}
  /\ reader' = "acknowledge"
  /\ UNCHANGED << mailboxVars, envelopes, writerVars, read, native,
                  control_ready, expected, response, closing, rejected,
                  attempts, recycles >>

\* The awaited control is there, or the wait was ended by close().
\* Variant: the loop does not look at closed again.
TakeControlWhenClosed ==
  /\ PageFree
  /\ reader = "take" \/ (reader = "control" /\ control_ready = "fired")
  /\ control_ready' = "unset"
  /\ native' = {e \in native : e.sequence # Following(read)}
  /\ reader' = IF [sequence |-> Following(read), id |-> response.id] \in native
               THEN "acknowledge" ELSE "failed"
  /\ UNCHANGED << mailboxVars, envelopes, writerVars, read, expected,
                  response, closing, rejected, attempts, leaseVars >>
TakeControl ==
  /\ PageFree
  /\ reader = "take" \/ (reader = "control" /\ control_ready = "fired")
  /\ control_ready' = "unset"
  /\ IF closed
     THEN reader' = "returned" /\ UNCHANGED native
     ELSE /\ native' = {e \in native : e.sequence # Following(read)}
          /\ reader' =
               IF [sequence |-> Following(read), id |-> response.id] \in native
               THEN "acknowledge" ELSE "failed"
  /\ UNCHANGED << mailboxVars, envelopes, writerVars, read, expected,
                  response, closing, rejected, attempts, leaseVars >>

\* The slot is given back before the client sees the reply.
AcknowledgeSlot ==
  /\ PageFree /\ reader = "acknowledge"
  /\ read' = Following(read)
  /\ acknowledged' = Following(read)
  /\ reader' = "receive"
  /\ UNCHANGED << word, closed_word, slots, envelopes, writerVars, native,
                  control_ready, expected, response, closing, rejected,
                  attempts, leaseVars >>

Receive ==
  /\ PageFree /\ reader = "receive"
  /\ response' = NoReply
  /\ reader' = "yielded"
  /\ UNCHANGED << mailboxVars, envelopes, writerVars, read, native,
                  control_ready, expected, closing, rejected, attempts,
                  leaseVars >>

-----------------------------------------------------------------------------
(* The page: accept() and close().                                          *)

\* A message event runs when no continuation of the loop is ready to run.
BetweenTasks ==
  /\ PageFree
  /\ \/ reader \in {"waiting", "woken", "returned"}
     \/ reader = "control" /\ control_ready = "armed"

\* accept(): store the control and wake the loop; a sequence outside the
\* window, or one already stored, is refused.
Accept ==
  /\ BetweenTasks /\ envelopes # << >>
  /\ envelopes' = Tail(envelopes)
  /\ LET message == Head(envelopes)
         admissible ==
           /\ Distance(message.sequence, read) \in 1..Capacity
           /\ \A e \in native : e.sequence # message.sequence
     IN  IF closed THEN UNCHANGED << native, control_ready, rejected >>
         ELSE IF admissible
         THEN /\ native' = native \cup {message}
              /\ control_ready' =
                   IF control_ready = "armed" THEN "fired" ELSE control_ready
              /\ UNCHANGED rejected
         ELSE rejected' = TRUE /\ UNCHANGED << native, control_ready >>
  /\ UNCHANGED << mailboxVars, writerVars, read, reader, expected, response,
                  closing, attempts, leaseVars >>

\* close() is called from any task or continuation of the page.
CloseFlag ==
  /\ closing = "open"
  /\ reader \in {"waiting", "woken", "control", "yielded", "failed"}
  /\ closing' = "flagged"
  /\ native' = {}
  /\ closed_word' = 1
  /\ UNCHANGED << word, acknowledged, slots, envelopes, writerVars, read,
                  control_ready, reader, expected, response, rejected,
                  attempts, leaseVars >>

CloseAdd ==
  /\ closing = "flagged"
  /\ closing' = "added"
  /\ word' = Following(word)
  /\ UNCHANGED << acknowledged, closed_word, slots, envelopes, writerVars,
                  readerVars, rejected, attempts, leaseVars >>

FireControlReady ==
  control_ready' = IF control_ready = "armed" THEN "fired" ELSE control_ready

CloseNotify ==
  /\ closing = "added"
  /\ closing' = "done"
  /\ WakeWaiter
  /\ FireControlReady
  /\ UNCHANGED << mailboxVars, envelopes, writerVars, read, native, expected,
                  response, rejected, attempts, leaseVars >>

ReaderStep == LoadWord \/ WaitAsync \/ ReadSlot \/ CopyLease \/ TakeControl
              \/ AcknowledgeSlot \/ Receive
CloseStep == CloseAdd \/ CloseNotify

Next ==
  \/ DispatchReclaim \/ (\E kind \in Kinds : BeginReply(kind)) \/ WorkerStep
  \/ ReaderStep \/ Accept \/ CloseFlag \/ CloseStep

Spec == Init /\ [][Next]_vars

\* Both event loops keep running and postMessage delivers; nothing obliges
\* the worker to reply or the page to close.
FairSpec == /\ Spec
            /\ WF_vars(WorkerStep) /\ WF_vars(ReaderStep)
            /\ WF_vars(Accept) /\ WF_vars(CloseStep)

-----------------------------------------------------------------------------
(* Properties.                                                              *)

\* The slots between the two sequences, as the page will read them.
Unread == [i \in 1..Distance(written, read) |->
             slots[SlotAt((read + i - 1) % Modulus)]]

InFlight == (IF reader = "receive" THEN << response >> ELSE << >>) \o Unread

TypeOK ==
  /\ word \in Sequences /\ acknowledged \in Sequences /\ closed_word \in {0, 1}
  /\ slots \in [0..(Capacity - 1) -> Replies \cup {NoReply}]
  /\ envelopes \in Seq([sequence : Sequences, id : Ordinals])
  /\ written \in Sequences /\ reclaimed \in Sequences
  /\ releases \subseteq [sequence : Sequences, lease : Ordinals]
  /\ writer \in {"idle", "reserve", "write", "send", "publish", "notify"}
  /\ reply \in Replies \cup {NoReply}
  /\ read \in Sequences
  /\ native \subseteq [sequence : Sequences, id : Ordinals]
  /\ control_ready \in {"unset", "armed", "fired"}
  /\ reader \in {"head", "wait", "waiting", "woken", "slot", "copy", "control",
                 "take", "acknowledge", "receive", "yielded", "returned",
                 "failed"}
  /\ expected \in Sequences /\ response \in Replies \cup {NoReply}
  /\ closing \in {"open", "flagged", "added", "done"}
  /\ rejected \in BOOLEAN
  /\ attempts \in 0..MaxReplies /\ copied \subseteq Ordinals
  /\ recycles \in [Ordinals -> Nat]

\* The errors run(), accept() and reclaim() throw for a broken peer are never
\* thrown: no publication or acknowledgement out of the window, no control
\* missing, duplicated or out of the window, however the two threads and the
\* message channel interleave.
NoProtocolError ==
  reader # "failed" /\ ~rejected
  /\ Distance(acknowledged, reclaimed) <= Capacity

\* The bytes of a shared reply stay leased until the page has copied them, and
\* every lease is given back to the WASM allocator at most once.
LeaseReturnedOnceAfterCopy ==
  \A n \in Ordinals :
    /\ recycles[n] <= 1
    /\ (recycles[n] = 1 /\ n \notin copied) =>
         \A i \in DOMAIN Unread : Unread[i].id # n

\* A lease the page has copied is not forgotten: it was given back, or its
\* release is still registered for the next reclaim().
NoLeaseLeaked ==
  \A n \in copied : recycles[n] = 1 \/ \E r \in releases : r.lease = n

\* The two threads agree on the ring and on the leases that travel in it.
ThreadsAgree ==
  NoProtocolError /\ LeaseReturnedOnceAfterCopy /\ NoLeaseLeaked

\* Every published reply is delivered unless the reader is closed: no wakeup
\* is lost between the load of word 0 and the wait, nor for a control.
PublishedIsDelivered ==
  \A n \in Ordinals :
    (\E i \in DOMAIN InFlight : InFlight[i].id = n)
    ~> (closed \/ \A i \in DOMAIN InFlight : InFlight[i].id # n)

\* close() ends the loop wherever it is suspended.
CloseEndsRun == closed ~> reader = "returned"

\* The loop never sleeps over what it should see, a reply or close().
ReaderMakesProgress == PublishedIsDelivered /\ CloseEndsRun

Fifo == INSTANCE ReplyFifo WITH queue <- InFlight

\* The mailbox is one first-in first-out queue.
ImplementsFifo == Fifo!Spec
=============================================================================
