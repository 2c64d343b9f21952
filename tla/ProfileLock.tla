---------------------------- MODULE ProfileLock ----------------------------
(***************************************************************************)
(* The machine-wide headed-profile lock (tools/playsrc/src/profile-lock.ts)*)
(* a lock file created with O_EXCL, beside it a directory of tickets that  *)
(* decides who may try, and the recovery of the file of a dead holder.     *)
(*                                                                         *)
(* A runner is one acquireHeadedProfileLock() in a process of its own,     *)
(* which may crash between any two steps.  Every await of the code is a    *)
(* program counter; the timers and directory watches of lines 101 to 104   *)
(* run tryClaim() while the runner is suspended at one.                    *)
(***************************************************************************)
EXTENDS Naturals, FiniteSets

CONSTANTS
  Runners,          \* the acquisitions, one per process
  None,
  MaxCrashes,       \* a bound on crashes, for TLC
  PublishInOrder    \* tickets appear in the order of their admission times

ASSUME LockAssumption ==
  /\ IsFiniteSet(Runners) /\ None \notin Runners
  /\ MaxCrashes \in Nat /\ PublishInOrder \in BOOLEAN

VARIABLES
  arrivals,   \* how many runners have started
  admission,  \* the order of `started`, pid, sequence and name; 0 before it
  tickets,    \* the published tickets, the files of the queue directory
  lock,       \* the file at lockPath
  pc,
  eligible, claim,   \* of tryClaim(): eligible; claimed and claimError
  expired,    \* the deadline has passed or the signal is aborted
  seen,       \* what readdir() returned
  holder      \* the dead holder whose file is to be removed

order == << arrivals, admission >>
runnerVars == << pc, eligible, claim, expired, seen, holder >>
vars == << order, tickets, lock, runnerVars >>

Free == [owner |-> None, content |-> "none"]

\* Awaits of the loop, where the timer and the watches call tryClaim().
Awaiting == {"loop", "scanning", "reading", "rereading", "unlinking"}
Queued == Awaiting \union {"publishing", "claiming"}

Init ==
  /\ arrivals = 0 /\ admission = [r \in Runners |-> 0]
  /\ tickets = {} /\ lock = Free
  /\ pc = [r \in Runners |-> "new"]
  /\ eligible = [r \in Runners |-> FALSE]
  /\ claim = [r \in Runners |-> "none"]
  /\ expired = [r \in Runners |-> FALSE]
  /\ seen = [r \in Runners |-> {}]
  /\ holder = [r \in Runners |-> None]

Alive(r) == pc[r] # "crashed"

Older(o, r) == admission[o] < admission[r]

\* openSync, writeFileSync and what follows them are one turn of the runner:
\* it takes no other step between them, other processes do.
MayStep(r) == Alive(r) /\ claim[r] # "opened"

At(r, label) == MayStep(r) /\ pc[r] = label
Goto(r, label) == pc' = [pc EXCEPT ![r] = label]

-----------------------------------------------------------------------------
(* The ticket.                                                              *)

\* The admission time is taken, the ticket written to its temporary name.
Start(r) ==
  /\ At(r, "new")
  /\ arrivals' = arrivals + 1
  /\ admission' = [admission EXCEPT ![r] = arrivals + 1]
  /\ Goto(r, "publishing")
  /\ UNCHANGED << tickets, lock, eligible, claim, expired, seen, holder >>

MayPublish(r) ==
  PublishInOrder => \A o \in Runners : pc[o] = "publishing" => ~Older(o, r)

Publish(r) ==
  /\ At(r, "publishing") /\ MayPublish(r)
  /\ tickets' = tickets \union {r}
  /\ Goto(r, "loop")
  /\ UNCHANGED << order, lock, eligible, claim, expired, seen, holder >>

\* The maximum wait passes, or the caller aborts.
Expire(r) ==
  /\ Alive(r) /\ pc[r] \in Queued /\ ~expired[r]
  /\ expired' = [expired EXCEPT ![r] = TRUE]
  /\ UNCHANGED << order, tickets, lock, pc, eligible, claim, seen, holder >>

-----------------------------------------------------------------------------
(* The claim.                                                               *)

MayTry(r) == eligible[r] /\ claim[r] = "none" /\ ~expired[r]

\* O_EXCL: the file is created, empty, if there is none.
Open(r) ==
  /\ MayTry(r) /\ lock = Free
  /\ lock' = [owner |-> r, content |-> "empty"]
  /\ claim' = [claim EXCEPT ![r] = "opened"]

Handoff(r) ==
  /\ MayStep(r) /\ pc[r] \in Awaiting
  /\ Open(r)
  /\ UNCHANGED << order, tickets, pc, eligible, expired, seen, holder >>

\* tryClaim() of the loop; after a claim or an error the loop starts over.
TryClaim(r) ==
  /\ At(r, "claiming")
  /\ \/ Open(r) /\ Goto(r, "loop")
     \/ /\ ~(MayTry(r) /\ lock = Free)
        /\ Goto(r, IF claim[r] = "none" THEN "reading" ELSE "loop")
        /\ UNCHANGED << lock, claim >>
  /\ UNCHANGED << order, tickets, eligible, expired, seen, holder >>

\* The write goes to the file that was opened, wherever its name is now.
Write(r) ==
  /\ Alive(r) /\ claim[r] = "opened"
  /\ claim' = [claim EXCEPT ![r] = "written"]
  /\ lock' = IF lock.owner = r THEN [lock EXCEPT !.content = "ticket"] ELSE lock
  /\ UNCHANGED << order, tickets, pc, eligible, expired, seen, holder >>

\* The write fails: the path is unlinked, whatever is there.
WriteFails(r) ==
  /\ Alive(r) /\ claim[r] = "opened"
  /\ claim' = [claim EXCEPT ![r] = "failed"]
  /\ lock' = Free
  /\ UNCHANGED << order, tickets, pc, eligible, expired, seen, holder >>

-----------------------------------------------------------------------------
(* The loop.                                                                *)

GivesUp(r) == expired[r] \/ claim[r] = "failed"

Loop(r) ==
  /\ At(r, "loop")
  /\ \/ GivesUp(r) /\ Goto(r, "leaving") /\ UNCHANGED seen
     \/ ~GivesUp(r) /\ claim[r] = "written" /\ Goto(r, "retiring")
          /\ UNCHANGED seen
     \/ /\ ~GivesUp(r) /\ claim[r] = "none" /\ Goto(r, "scanning")
        /\ seen' = [seen EXCEPT ![r] = tickets]
  /\ UNCHANGED << order, tickets, lock, eligible, claim, expired, holder >>

\* Variant: the tickets of dead processes count.
LiveOrDead(found) == found
LiveOf(found) == { o \in found : Alive(o) }

\* Variant: any ticket will do.
IsTicketed(r, live) == r \in live
IsHead(r, live) == r \in live /\ \A o \in live \ {r} : Older(r, o)

\* A ticket that is gone when it is read is skipped, one of a dead process
\* is unlinked; the oldest of the rest may claim.
Scan(r) ==
  LET found == seen[r] \intersect tickets
      live == LiveOf(found)
  IN /\ At(r, "scanning")
     /\ tickets' = tickets \ (found \ live)
     /\ eligible' = [eligible EXCEPT ![r] = IsHead(r, live)]
     /\ seen' = [seen EXCEPT ![r] = {}]
     /\ Goto(r, "claiming")
     /\ UNCHANGED << order, lock, claim, expired, holder >>

\* The age of the lock file passes ten seconds while it is still empty.
Age ==
  /\ lock.content = "empty"
  /\ lock' = [lock EXCEPT !.content = "stale"]
  /\ UNCHANGED << order, tickets, runnerVars >>

\* Variant: the lock of any holder is reclaimed.
HolderPresent(o) == o # None
\* Variant: no holder is taken for a dead one.
HolderAbsentOrDead(o) == o = None \/ ~Alive(o)
HolderDead(o) == o # None /\ ~Alive(o)

\* An empty file is a holder about to publish, an old one an error; the head
\* of the queue takes the file of a dead holder away, others wait.
ReadHolder(r) ==
  LET owner == IF lock.content = "ticket" THEN lock.owner ELSE None
      reclaims == eligible[r] /\ HolderDead(owner)
  IN /\ At(r, "reading")
     /\ Goto(r, IF lock.content = "stale" THEN "leaving"
                ELSE IF reclaims THEN "rereading" ELSE "loop")
     /\ holder' = [holder EXCEPT ![r] = IF reclaims THEN owner ELSE None]
     /\ UNCHANGED << order, tickets, lock, eligible, claim, expired, seen >>

\* The second read has no handler: an empty file is an error here.
Reread(r) ==
  /\ At(r, "rereading")
  /\ Goto(r, IF lock.content \in {"empty", "stale"} THEN "leaving"
             ELSE IF lock.owner = holder[r] THEN "unlinking" ELSE "loop")
  /\ holder' = [holder EXCEPT ![r] = None]
  /\ UNCHANGED << order, tickets, lock, eligible, claim, expired, seen >>

\* Whatever is at the path by now is unlinked; nothing there is an error.
Unlink(r) ==
  /\ At(r, "unlinking")
  /\ Goto(r, IF lock = Free THEN "leaving" ELSE "loop")
  /\ lock' = Free
  /\ UNCHANGED << order, tickets, eligible, claim, expired, seen, holder >>

-----------------------------------------------------------------------------
(* The way out, by a return or an exception.                                *)

\* The return, handedOff: the timer is cleared and the ticket withdrawn.
Retire(r) ==
  /\ At(r, "retiring")
  /\ tickets' = tickets \ {r}
  /\ Goto(r, "holding")
  /\ UNCHANGED << order, lock, eligible, claim, expired, seen, holder >>

\* Variant: nothing is released after the deadline.
MustReleaseInTime(r) == claim[r] = "written" /\ ~expired[r]
MustRelease(r) == claim[r] = "written"

Leave(r) ==
  /\ At(r, "leaving")
  /\ tickets' = tickets \ {r}
  /\ Goto(r, IF MustRelease(r) THEN "releasing" ELSE "done")
  /\ UNCHANGED << order, lock, eligible, claim, expired, seen, holder >>

\* The profile is over.
Finish(r) ==
  /\ At(r, "holding")
  /\ Goto(r, "releasing")
  /\ UNCHANGED << order, tickets, lock, eligible, claim, expired, seen, holder >>

\* releaseHeadedProfileLock() reads the token; another one is an error.
ReleaseRead(r) ==
  /\ At(r, "releasing")
  /\ Goto(r, IF lock = [owner |-> r, content |-> "ticket"]
             THEN "removing" ELSE "done")
  /\ UNCHANGED << order, tickets, lock, eligible, claim, expired, seen, holder >>

ReleaseUnlink(r) ==
  /\ At(r, "removing")
  /\ lock' = Free
  /\ Goto(r, "done")
  /\ UNCHANGED << order, tickets, eligible, claim, expired, seen, holder >>

\* The process dies; its files stay.
Crash(r) ==
  /\ pc[r] \notin {"new", "done", "crashed"}
  /\ Cardinality({ o \in Runners : ~Alive(o) }) < MaxCrashes
  /\ Goto(r, "crashed")
  /\ eligible' = [eligible EXCEPT ![r] = FALSE]
  /\ claim' = [claim EXCEPT ![r] = "none"]
  /\ expired' = [expired EXCEPT ![r] = FALSE]
  /\ seen' = [seen EXCEPT ![r] = {}]
  /\ holder' = [holder EXCEPT ![r] = None]
  /\ UNCHANGED << order, tickets, lock >>

-----------------------------------------------------------------------------
\* What the runner does by itself, once it has started.
Step(r) ==
  \/ Publish(r) \/ Loop(r) \/ Scan(r) \/ TryClaim(r) \/ Write(r)
  \/ ReadHolder(r) \/ Reread(r) \/ Unlink(r)
  \/ Retire(r) \/ Leave(r) \/ Finish(r) \/ ReleaseRead(r) \/ ReleaseUnlink(r)

Next ==
  \/ \E r \in Runners :
       Step(r) \/ Start(r) \/ Expire(r) \/ Handoff(r) \/ WriteFails(r) \/ Crash(r)
  \/ Age

Spec == Init /\ [][Next]_vars

\* The event loop of a live process runs on: waits are at most 250 ms, a
\* profile is bounded.  Nothing obliges anyone to start, expire or crash.
FairSpec == Spec /\ WF_vars(Age) /\ \A r \in Runners : WF_vars(Step(r))

-----------------------------------------------------------------------------
(* Properties.                                                              *)

Labels == Queued \union {"new", "leaving", "retiring", "holding", "releasing",
                         "removing", "done", "crashed"}

\* The types of the variables; a directory listing is kept only while it is
\* read, a holder to remove only until it has been read again.
TypeOK ==
  /\ arrivals \in Nat /\ admission \in [Runners -> 0..arrivals]
  /\ tickets \subseteq Runners
  /\ lock \in [owner : Runners, content : {"empty", "stale", "ticket"}]
             \union {Free}
  /\ pc \in [Runners -> Labels]
  /\ eligible \in [Runners -> BOOLEAN] /\ expired \in [Runners -> BOOLEAN]
  /\ claim \in [Runners -> {"none", "opened", "written", "failed"}]
  /\ seen \in [Runners -> SUBSET Runners]
  /\ holder \in [Runners -> Runners \union {None}]
  /\ \A r \in Runners : pc[r] # "scanning" => seen[r] = {}
  /\ \A r \in Runners : pc[r] = "rereading" <=> holder[r] # None

\* Two profiles never run at once (the lock is machine-wide).
MutualExclusion ==
  \A r, o \in Runners : pc[r] = "holding" /\ pc[o] = "holding" => r = o

\* A lock file whose process lives is going to be removed by it: a claim that
\* the deadline or an abort overtakes is released before the runner ends.
GrantIsKeptOrReturned ==
  \A r \in Runners : lock.owner = r => pc[r] # "done"

\* The lock file of a live runner is changed by that runner alone ("an
\* existing lock is never stolen"); it may grow old while it is empty.
NeverStolen ==
  [][ \A r \in Runners :
        lock.owner = r /\ Alive(r) /\ lock'.owner # r
        => << pc[r], claim[r] >>' # << pc[r], claim[r] >> ]_vars

\* The file is created only for the oldest of the tickets of live processes.
FirstComeFirstServed ==
  [][ \A r \in Runners :
        claim[r] = "none" /\ claim'[r] = "opened"
        => \A o \in tickets \ {r} : Alive(o) => Older(r, o) ]_vars

\* A runner that queues gets the lock, unless it gives up or crashes, its own
\* write fails, or a file stays empty for ten seconds; dead tickets and dead
\* holders do not keep it waiting.
Served ==
  \A r \in Runners :
    pc[r] = "publishing" ~> \/ pc[r] \in {"holding", "crashed"}
                            \/ expired[r] \/ claim[r] = "failed"
                            \/ lock.content = "stale"

=============================================================================
