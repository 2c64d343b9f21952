------------------------- MODULE ProfileLockProofs -------------------------
(***************************************************************************)
(* Proofs about the headed-profile lock for any number of runners: if the  *)
(* tickets appear in the order of their admission times, or if no process  *)
(* crashes, the lock excludes and is never stolen.  ProfileLock.tla shows  *)
(* in a run that with neither it is.                                       *)
(***************************************************************************)
EXTENDS ProfileLock, FiniteSetTheorems, TLAPS

\* The runners that have published their ticket and may still claim.
Contending == Awaiting \union {"claiming"}

\* Everyone who has started has a place, and no two the same.
PlacesInv ==
  /\ \A r \in Runners : pc[r] # "new" => admission[r] # 0
  /\ \A r, o \in Runners : r # o /\ admission[r] # 0
                           => admission[r] # admission[o]

\* Until it publishes its ticket a runner is neither eligible nor has it
\* claimed.
FreshInv ==
  \A r \in Runners : pc[r] \in {"new", "publishing"}
                     => ~eligible[r] /\ claim[r] = "none" /\ r \notin tickets

\* With tickets in order: whoever has still to publish is younger than
\* everyone who contends, and so is a ticket that a scan has missed.
PublishedInv ==
  \A r, o \in Runners :
    /\ pc[r] \in Contending /\ pc[o] = "publishing" => Older(r, o)
    /\ pc[r] = "scanning" /\ o \in tickets \ (seen[r] \union {r}) => Older(r, o)

\* Therefore an eligible runner stays the oldest live one.
HeadInv ==
  \A r, o \in Runners :
    eligible[r] /\ pc[r] \in Contending /\ o \in tickets \ {r} /\ Alive(o)
    => Older(r, o)

TicketInv ==
  \A r \in Runners : pc[r] \in Contending \union {"leaving", "retiring"}
                     => r \in tickets

QueueInv ==
  /\ PlacesInv /\ FreshInv /\ TicketInv
  /\ PublishInOrder => PublishedInv /\ HeadInv

\* What a claim says of the lock file, and the file of the claims.
ClaimInv ==
  \A r \in Runners :
    /\ claim[r] = "opened" =>
         /\ pc[r] \in Contending
         /\ lock.owner = r /\ lock.content \in {"empty", "stale"}
    /\ claim[r] = "written" /\ pc[r] # "done" =>
         lock = [owner |-> r, content |-> "ticket"]
    /\ pc[r] \in {"retiring", "holding", "releasing", "removing"}
         => claim[r] = "written"
    /\ pc[r] = "crashed" => claim[r] = "none"
    /\ lock.owner = r /\ Alive(r)
         => pc[r] # "done" /\ claim[r] \in {"opened", "written"}

\* Only the head removes a file, and only that of a dead process.
ReclaimInv ==
  \A r \in Runners :
    /\ pc[r] \in {"rereading", "unlinking"} => eligible[r]
    /\ pc[r] = "rereading" => ~Alive(holder[r])
    /\ pc[r] = "unlinking" => lock.owner # None /\ ~Alive(lock.owner)

Undisturbed == PublishInOrder \/ MaxCrashes = 0
NoneCrashed == \A r \in Runners : Alive(r)

-----------------------------------------------------------------------------
(* Types.                                                                   *)

LEMMA TypeInit == Init => TypeOK
BY LockAssumption
   DEF Init, TypeOK, Labels, Queued, Awaiting, Free

LEMMA TypeNext == TypeOK /\ [Next]_vars => TypeOK'
<1> SUFFICES ASSUME TypeOK, [Next]_vars PROVE TypeOK'
  OBVIOUS
<1> USE LockAssumption DEF TypeOK, Labels, Queued, Awaiting, Free, At, MayStep,
                           Goto, order, runnerVars
<1>1. ASSUME NEW r \in Runners, Start(r) PROVE TypeOK'
  BY <1>1 DEF Start
<1>2. ASSUME NEW r \in Runners, Publish(r) PROVE TypeOK'
  BY <1>2 DEF Publish
<1>3. ASSUME NEW r \in Runners, Expire(r) PROVE TypeOK'
  BY <1>3 DEF Expire
<1>4. ASSUME NEW r \in Runners, Handoff(r) PROVE TypeOK'
  BY <1>4 DEF Handoff, Open
<1>5. ASSUME NEW r \in Runners, TryClaim(r) PROVE TypeOK'
  BY <1>5 DEF TryClaim, Open
<1>6. ASSUME NEW r \in Runners, Write(r) PROVE TypeOK'
  BY <1>6 DEF Write
<1>7. ASSUME NEW r \in Runners, WriteFails(r) PROVE TypeOK'
  BY <1>7 DEF WriteFails
<1>8. ASSUME NEW r \in Runners, Loop(r) PROVE TypeOK'
  BY <1>8 DEF Loop
<1>9. ASSUME NEW r \in Runners, Scan(r) PROVE TypeOK'
  BY <1>9 DEF Scan, LiveOf, IsHead
<1>10. ASSUME NEW r \in Runners, ReadHolder(r) PROVE TypeOK'
  BY <1>10 DEF ReadHolder, HolderDead
<1>11. ASSUME NEW r \in Runners, Reread(r) PROVE TypeOK'
  BY <1>11 DEF Reread
<1>12. ASSUME NEW r \in Runners, Unlink(r) PROVE TypeOK'
  BY <1>12 DEF Unlink
<1>13. ASSUME NEW r \in Runners, Retire(r) PROVE TypeOK'
  BY <1>13 DEF Retire
<1>14. ASSUME NEW r \in Runners, Leave(r) PROVE TypeOK'
  BY <1>14 DEF Leave
<1>15. ASSUME NEW r \in Runners, Finish(r) PROVE TypeOK'
  BY <1>15 DEF Finish
<1>16. ASSUME NEW r \in Runners, ReleaseRead(r) PROVE TypeOK'
  BY <1>16 DEF ReleaseRead
<1>17. ASSUME NEW r \in Runners, ReleaseUnlink(r) PROVE TypeOK'
  BY <1>17 DEF ReleaseUnlink
<1>18. ASSUME NEW r \in Runners, Crash(r) PROVE TypeOK'
  BY <1>18 DEF Crash
<1>19. CASE Age
  BY <1>19 DEF Age
<1>20. CASE UNCHANGED vars
  BY <1>20 DEF vars
<1> QED
  BY <1>1, <1>2, <1>3, <1>4, <1>5, <1>6, <1>7, <1>8, <1>9, <1>10, <1>11, <1>12, <1>13, <1>14, <1>15, <1>16, <1>17, <1>18, <1>19, <1>20 DEF Next, Step

-----------------------------------------------------------------------------
(* The queue.                                                               *)

LEMMA QueueInit == Init => QueueInv
BY LockAssumption
   DEF Init, QueueInv, PlacesInv, FreshInv, TicketInv, PublishedInv, HeadInv,
       Contending, Awaiting

LEMMA QueueNext == TypeOK /\ QueueInv /\ [Next]_vars => QueueInv'
<1> SUFFICES ASSUME TypeOK, QueueInv, [Next]_vars PROVE QueueInv'
  OBVIOUS
<1> USE LockAssumption
    DEF TypeOK, QueueInv, PlacesInv, FreshInv, TicketInv, PublishedInv,
        HeadInv, Contending, Queued, Awaiting, At, MayStep, Alive, Goto, Older,
        order, runnerVars
<1>1. ASSUME NEW r \in Runners, Start(r) PROVE QueueInv'
  BY <1>1 DEF Start
<1>2. ASSUME NEW r \in Runners, Publish(r) PROVE QueueInv'
  BY <1>2 DEF Publish, MayPublish
<1>3. ASSUME NEW r \in Runners, Expire(r) PROVE QueueInv'
  BY <1>3 DEF Expire
<1>4. ASSUME NEW r \in Runners, Handoff(r) PROVE QueueInv'
  BY <1>4 DEF Handoff, Open
<1>5. ASSUME NEW r \in Runners, TryClaim(r) PROVE QueueInv'
  BY <1>5 DEF TryClaim, Open
<1>6. ASSUME NEW r \in Runners, Write(r) PROVE QueueInv'
  BY <1>6 DEF Write
<1>7. ASSUME NEW r \in Runners, WriteFails(r) PROVE QueueInv'
  BY <1>7 DEF WriteFails
<1>8. ASSUME NEW r \in Runners, Loop(r) PROVE QueueInv'
  BY <1>8 DEF Loop
<1>9. ASSUME NEW r \in Runners, Scan(r) PROVE QueueInv'
  BY <1>9 DEF Scan, LiveOf, IsHead
<1>10. ASSUME NEW r \in Runners, ReadHolder(r) PROVE QueueInv'
  BY <1>10 DEF ReadHolder, HolderDead
<1>11. ASSUME NEW r \in Runners, Reread(r) PROVE QueueInv'
  BY <1>11 DEF Reread
<1>12. ASSUME NEW r \in Runners, Unlink(r) PROVE QueueInv'
  BY <1>12 DEF Unlink
<1>13. ASSUME NEW r \in Runners, Retire(r) PROVE QueueInv'
  BY <1>13 DEF Retire
<1>14. ASSUME NEW r \in Runners, Leave(r) PROVE QueueInv'
  BY <1>14 DEF Leave
<1>15. ASSUME NEW r \in Runners, Finish(r) PROVE QueueInv'
  BY <1>15 DEF Finish
<1>16. ASSUME NEW r \in Runners, ReleaseRead(r) PROVE QueueInv'
  BY <1>16 DEF ReleaseRead
<1>17. ASSUME NEW r \in Runners, ReleaseUnlink(r) PROVE QueueInv'
  BY <1>17 DEF ReleaseUnlink
<1>18. ASSUME NEW r \in Runners, Crash(r) PROVE QueueInv'
  BY <1>18 DEF Crash
<1>19. CASE Age
  BY <1>19 DEF Age
<1>20. CASE UNCHANGED vars
  BY <1>20 DEF vars
<1> QED
  BY <1>1, <1>2, <1>3, <1>4, <1>5, <1>6, <1>7, <1>8, <1>9, <1>10, <1>11, <1>12, <1>13, <1>14, <1>15, <1>16, <1>17, <1>18, <1>19, <1>20 DEF Next, Step

-----------------------------------------------------------------------------
(* The lock file.                                                           *)

\* Only one runner reclaims at a time, if tickets appear in order: two heads
\* would be older than each other.  Without crashes none does.
LEMMA OneReclaims ==
  ASSUME TypeOK, QueueInv, Undisturbed, MaxCrashes = 0 => NoneCrashed, ReclaimInv,
         NEW r \in Runners, NEW o \in Runners,
         pc[r] = "unlinking", pc[o] = "unlinking"
  PROVE  r = o
<1> USE DEF Contending, Awaiting
<1>1. eligible[r] /\ eligible[o] /\ lock.owner # None /\ ~Alive(lock.owner)
  BY DEF ReclaimInv
<1>2. lock.owner \in Runners
  BY <1>1 DEF TypeOK, Free
<1>3. PublishInOrder
  BY <1>1, <1>2 DEF Undisturbed, NoneCrashed
<1>4. r \in tickets /\ o \in tickets /\ Alive(r) /\ Alive(o)
  BY DEF QueueInv, TicketInv, Alive
<1>5. r # o => Older(r, o) /\ Older(o, r)
  BY <1>1, <1>3, <1>4 DEF QueueInv, HeadInv
<1> QED
  BY <1>5 DEF TypeOK, Older

\* Opening the file finds no claim, and makes one.
LEMMA OpenKeepsClaimInv ==
  ASSUME TypeOK, ClaimInv, NEW r \in Runners, Open(r),
         pc[r] \in Contending,
         pc' = pc \/ pc' = [pc EXCEPT ![r] = "loop"]
  PROVE  ClaimInv'
<1>1. lock.owner = None /\ lock.content = "none"
  BY DEF Open, Free
<1>2. /\ lock'.owner = r /\ lock'.content = "empty"
      /\ claim'[r] = "opened" /\ pc'[r] \in Contending
      /\ \A o \in Runners \ {r} : claim'[o] = claim[o] /\ pc'[o] = pc[o]
  BY DEF Open, TypeOK, Contending, Awaiting
<1>3. pc'[r] \notin {"retiring", "holding", "releasing", "removing", "crashed",
                    "done"}
  BY <1>2 DEF Contending, Awaiting
<1>4. ASSUME NEW o \in Runners \ {r}
      PROVE  /\ claim[o] # "opened"
             /\ claim[o] = "written" => pc[o] = "done"
             /\ pc[o] \in {"retiring", "holding", "releasing", "removing"}
                => claim[o] = "written"
             /\ pc[o] = "crashed" => claim[o] = "none"
  <2>1. lock.owner # o /\ lock.content # "ticket"
    BY <1>1, LockAssumption
  <2>2. lock # [owner |-> o, content |-> "ticket"]
    BY <2>1
  <2> QED
    BY <2>1, <2>2 DEF ClaimInv
<1>5. \A o \in Runners \ {r} : lock'.owner # o
  BY <1>2
<1> QED
  BY <1>2, <1>3, <1>4, <1>5 DEF ClaimInv

LEMMA ClaimNext ==
  ASSUME TypeOK, QueueInv, Undisturbed, MaxCrashes = 0 => NoneCrashed,
         ReclaimInv, ClaimInv, [Next]_vars
  PROVE  ClaimInv'
<1> USE LockAssumption
    DEF TypeOK, QueueInv, FreshInv, ClaimInv, ReclaimInv, Contending, Queued,
        Awaiting, Free, At, MayStep, Alive, Goto, order, runnerVars
<1>1. ASSUME NEW r \in Runners, Start(r) PROVE ClaimInv'
  BY <1>1 DEF Start
<1>2. ASSUME NEW r \in Runners, Publish(r) PROVE ClaimInv'
  BY <1>2 DEF Publish
<1>3. ASSUME NEW r \in Runners, Expire(r) PROVE ClaimInv'
  BY <1>3 DEF Expire
<1>4. ASSUME NEW r \in Runners, Handoff(r) PROVE ClaimInv'
  <2> USE DEF Handoff
  <2>1. Open(r) /\ pc[r] \in Contending /\ pc' = pc
    BY <1>4
  <2> QED
    BY <2>1, OpenKeepsClaimInv
<1>5. ASSUME NEW r \in Runners, TryClaim(r) PROVE ClaimInv'
  <2> USE DEF TryClaim
  <2>1. CASE Open(r) /\ Goto(r, "loop")
    <3>1. pc[r] \in Contending /\ pc' = [pc EXCEPT ![r] = "loop"]
      BY <1>5, <2>1
    <3> QED
      BY <2>1, <3>1, OpenKeepsClaimInv
  <2>2. CASE UNCHANGED << lock, claim >>
    BY <1>5, <2>2
  <2> QED
    BY <1>5, <2>1, <2>2
<1>6. ASSUME NEW r \in Runners, Write(r) PROVE ClaimInv'
  BY <1>6 DEF Write
<1>7. ASSUME NEW r \in Runners, WriteFails(r) PROVE ClaimInv'
  BY <1>7 DEF WriteFails
<1>8. ASSUME NEW r \in Runners, Loop(r) PROVE ClaimInv'
  BY <1>8 DEF Loop
<1>9. ASSUME NEW r \in Runners, Scan(r) PROVE ClaimInv'
  BY <1>9 DEF Scan, LiveOf, IsHead
<1>10. ASSUME NEW r \in Runners, ReadHolder(r) PROVE ClaimInv'
  BY <1>10 DEF ReadHolder, HolderDead
<1>11. ASSUME NEW r \in Runners, Reread(r) PROVE ClaimInv'
  BY <1>11 DEF Reread
<1>12. ASSUME NEW r \in Runners, Unlink(r) PROVE ClaimInv'
  <2>1. lock.owner # None /\ ~Alive(lock.owner) /\ lock' = Free /\ claim' = claim
    BY <1>12 DEF Unlink
  <2>2. \A o \in Runners : claim[o] \in {"none", "failed"} \/ pc[o] = "done"
    BY <2>1
  <2> QED
    BY <1>12, <2>1, <2>2 DEF Unlink
<1>13. ASSUME NEW r \in Runners, Retire(r) PROVE ClaimInv'
  BY <1>13 DEF Retire
<1>14. ASSUME NEW r \in Runners, Leave(r) PROVE ClaimInv'
  BY <1>14 DEF Leave, MustRelease
<1>15. ASSUME NEW r \in Runners, Finish(r) PROVE ClaimInv'
  BY <1>15 DEF Finish
<1>16. ASSUME NEW r \in Runners, ReleaseRead(r) PROVE ClaimInv'
  BY <1>16 DEF ReleaseRead
<1>17. ASSUME NEW r \in Runners, ReleaseUnlink(r) PROVE ClaimInv'
  BY <1>17 DEF ReleaseUnlink
<1>18. ASSUME NEW r \in Runners, Crash(r) PROVE ClaimInv'
  BY <1>18 DEF Crash
<1>19. CASE Age
  BY <1>19 DEF Age
<1>20. CASE UNCHANGED vars
  BY <1>20 DEF vars
<1> QED
  BY <1>1, <1>2, <1>3, <1>4, <1>5, <1>6, <1>7, <1>8, <1>9, <1>10, <1>11, <1>12, <1>13, <1>14, <1>15, <1>16, <1>17, <1>18, <1>19, <1>20 DEF Next, Step

LEMMA ReclaimNext ==
  ASSUME TypeOK, QueueInv, Undisturbed, MaxCrashes = 0 => NoneCrashed,
         ReclaimInv, ClaimInv, [Next]_vars
  PROVE  ReclaimInv'
<1> USE LockAssumption
    DEF TypeOK, QueueInv, FreshInv, ClaimInv, ReclaimInv, Contending, Queued,
        Awaiting, Free, At, MayStep, Alive, Goto, order, runnerVars
<1>1. ASSUME NEW r \in Runners, Start(r) PROVE ReclaimInv'
  BY <1>1 DEF Start
<1>2. ASSUME NEW r \in Runners, Publish(r) PROVE ReclaimInv'
  BY <1>2 DEF Publish
<1>3. ASSUME NEW r \in Runners, Expire(r) PROVE ReclaimInv'
  BY <1>3 DEF Expire
<1>4. ASSUME NEW r \in Runners, Handoff(r) PROVE ReclaimInv'
  BY <1>4 DEF Handoff, Open
<1>5. ASSUME NEW r \in Runners, TryClaim(r) PROVE ReclaimInv'
  BY <1>5 DEF TryClaim, Open
<1>6. ASSUME NEW r \in Runners, Write(r) PROVE ReclaimInv'
  BY <1>6 DEF Write
<1>7. ASSUME NEW r \in Runners, WriteFails(r) PROVE ReclaimInv'
  BY <1>7 DEF WriteFails
<1>8. ASSUME NEW r \in Runners, Loop(r) PROVE ReclaimInv'
  BY <1>8 DEF Loop
<1>9. ASSUME NEW r \in Runners, Scan(r) PROVE ReclaimInv'
  BY <1>9 DEF Scan, LiveOf, IsHead
<1>10. ASSUME NEW r \in Runners, ReadHolder(r) PROVE ReclaimInv'
  BY <1>10 DEF ReadHolder, HolderDead
<1>11. ASSUME NEW r \in Runners, Reread(r) PROVE ReclaimInv'
  BY <1>11 DEF Reread
<1>12. ASSUME NEW r \in Runners, Unlink(r) PROVE ReclaimInv'
  BY <1>12, OneReclaims DEF Unlink
<1>13. ASSUME NEW r \in Runners, Retire(r) PROVE ReclaimInv'
  BY <1>13 DEF Retire
<1>14. ASSUME NEW r \in Runners, Leave(r) PROVE ReclaimInv'
  BY <1>14 DEF Leave, MustRelease
<1>15. ASSUME NEW r \in Runners, Finish(r) PROVE ReclaimInv'
  BY <1>15 DEF Finish
<1>16. ASSUME NEW r \in Runners, ReleaseRead(r) PROVE ReclaimInv'
  BY <1>16 DEF ReleaseRead
<1>17. ASSUME NEW r \in Runners, ReleaseUnlink(r) PROVE ReclaimInv'
  BY <1>17 DEF ReleaseUnlink
<1>18. ASSUME NEW r \in Runners, Crash(r) PROVE ReclaimInv'
  BY <1>18 DEF Crash
<1>19. CASE Age
  BY <1>19 DEF Age
<1>20. CASE UNCHANGED vars
  BY <1>20 DEF vars
<1> QED
  BY <1>1, <1>2, <1>3, <1>4, <1>5, <1>6, <1>7, <1>8, <1>9, <1>10, <1>11, <1>12, <1>13, <1>14, <1>15, <1>16, <1>17, <1>18, <1>19, <1>20 DEF Next, Step

LEMMA NoneCrashedNext ==
  ASSUME TypeOK, MaxCrashes = 0, NoneCrashed, [Next]_vars
  PROVE  NoneCrashed'
<1>1. \A r \in Runners : ~Crash(r)
  <2> SUFFICES ASSUME NEW r \in Runners, Crash(r) PROVE FALSE
    OBVIOUS
  <2>1. IsFiniteSet({ o \in Runners : ~Alive(o) })
    BY LockAssumption, FS_Subset
  <2>2. Cardinality({ o \in Runners : ~Alive(o) }) \in Nat
    BY <2>1, FS_CardinalityType
  <2> QED
    BY <2>2 DEF Crash
<1>2. ASSUME NEW r \in Runners,
             Step(r) \/ Start(r) \/ Expire(r) \/ Handoff(r) \/ WriteFails(r)
      PROVE  NoneCrashed'
  BY <1>2 DEF Step, Start, Publish, Expire, Handoff, TryClaim, Write, WriteFails, Loop, Scan, ReadHolder, Reread, Unlink, Retire, Leave, Finish, ReleaseRead, ReleaseUnlink,
     TypeOK, NoneCrashed, Alive, Goto
<1>3. CASE Age \/ UNCHANGED vars
  BY <1>3 DEF Age, vars, runnerVars, NoneCrashed, Alive
<1> QED
  BY <1>1, <1>2, <1>3 DEF Next

-----------------------------------------------------------------------------
(* The theorems.                                                            *)

LockInv ==
  /\ TypeOK /\ QueueInv /\ ClaimInv /\ ReclaimInv
  /\ MaxCrashes = 0 => NoneCrashed

\* The variables keep their types.
THEOREM LockTypes == Spec => []TypeOK
BY TypeInit, TypeNext, PTL DEF Spec

LEMMA LockInvInit == Init => LockInv
<1> SUFFICES ASSUME Init PROVE LockInv
  OBVIOUS
<1>1. ClaimInv /\ ReclaimInv /\ NoneCrashed
  BY LockAssumption
     DEF Init, Free, ClaimInv, ReclaimInv, NoneCrashed, Alive
<1> QED
  BY <1>1, TypeInit, QueueInit DEF LockInv

LEMMA LockInvNext == Undisturbed /\ LockInv /\ [Next]_vars => LockInv'
BY TypeNext, QueueNext, ClaimNext, ReclaimNext, NoneCrashedNext DEF LockInv

LEMMA LockInvAlways ==
  ASSUME Undisturbed
  PROVE  Spec => []LockInv
BY LockInvInit, LockInvNext, PTL DEF Spec

\* Two profiles never run at once, with any number of runners: if tickets
\* appear in the order of their admission times, or if no process crashes.
THEOREM LockExcludes ==
  ASSUME Undisturbed
  PROVE  Spec => []MutualExclusion
<1>1. LockInv => MutualExclusion
  BY DEF LockInv, ClaimInv, MutualExclusion
<1> QED
  BY <1>1, LockInvAlways, PTL

\* A claim that the deadline overtakes is released, under the same condition.
THEOREM LockIsReturned ==
  ASSUME Undisturbed
  PROVE  Spec => []GrantIsKeptOrReturned
<1>1. LockInv => GrantIsKeptOrReturned
  BY DEF LockInv, ClaimInv, GrantIsKeptOrReturned, Alive
<1> QED
  BY <1>1, LockInvAlways, PTL

\* What leaves the lock file as it is, or only older.
LEMMA LockUntouched ==
  ASSUME TypeOK, [Next]_vars,
         \A o \in Runners :
           ~(Handoff(o) \/ TryClaim(o) \/ Write(o) \/ WriteFails(o) \/ Unlink(o)
             \/ ReleaseUnlink(o))
  PROVE  lock'.owner = lock.owner
<1>1. CASE Age
  BY <1>1 DEF Age, TypeOK, Free
<1>2. CASE UNCHANGED vars
  BY <1>2 DEF vars
<1> QED
  BY <1>1, <1>2 DEF Next, Step, Start, Publish, Expire, Loop, Scan, ReadHolder,
                    Reread, Retire, Leave, Finish, ReleaseRead, Crash

LEMMA StealsNothing ==
  ASSUME LockInv, [Next]_vars, NEW r \in Runners,
         lock.owner = r, Alive(r), lock'.owner # r
  PROVE  << pc[r], claim[r] >>' # << pc[r], claim[r] >>
<1> USE DEF LockInv, TypeOK
<1>1. r # None /\ lock # Free
  BY LockAssumption DEF Free
<1>2. ASSUME NEW o \in Runners, Handoff(o) \/ TryClaim(o) PROVE FALSE
  BY <1>1, <1>2 DEF Handoff, TryClaim, Open
<1>3. ASSUME NEW o \in Runners, Write(o) PROVE FALSE
  BY <1>1, <1>3 DEF Write, Free
<1>4. ASSUME NEW o \in Runners, WriteFails(o)
      PROVE  << pc[r], claim[r] >>' # << pc[r], claim[r] >>
  <2>1. o = r
    BY <1>4 DEF WriteFails, ClaimInv
  <2> QED
    BY <1>4, <2>1 DEF WriteFails
<1>5. ASSUME NEW o \in Runners, Unlink(o) PROVE FALSE
  BY <1>5 DEF Unlink, At, ReclaimInv
<1>6. ASSUME NEW o \in Runners, ReleaseUnlink(o)
      PROVE  << pc[r], claim[r] >>' # << pc[r], claim[r] >>
  <2>1. o = r
    BY <1>6 DEF ReleaseUnlink, At, ClaimInv
  <2> QED
    BY <1>6, <2>1 DEF ReleaseUnlink, At, Goto
<1> QED
  BY <1>2, <1>3, <1>4, <1>5, <1>6, LockUntouched

\* The file of a live runner is removed by that runner alone, under the same
\* condition; the run lock_stolen shows that the condition is needed.
THEOREM LockIsNeverStolen ==
  ASSUME Undisturbed
  PROVE  Spec => NeverStolen
<1> DEFINE Kept ==
      \A r \in Runners :
        lock.owner = r /\ Alive(r) /\ lock'.owner # r
        => << pc[r], claim[r] >>' # << pc[r], claim[r] >>
<1>1. LockInv /\ [Next]_vars => [Kept]_vars
  BY StealsNothing
<1> QED
  BY <1>1, LockInvAlways, PTL DEF Spec, NeverStolen

\* Only tryClaim() opens the file, and only of the head of the queue.
LEMMA OnlyTheHeadOpens ==
  ASSUME TypeOK, QueueInv, PublishInOrder, [Next]_vars, NEW r \in Runners,
         claim[r] = "none", claim'[r] = "opened",
         NEW o \in tickets \ {r}, Alive(o)
  PROVE  Older(r, o)
<1> USE DEF TypeOK
<1>1. CASE Handoff(r) \/ TryClaim(r)
  <2>1. eligible[r] /\ pc[r] \in Contending
    BY <1>1 DEF Handoff, TryClaim, Open, MayTry, At, Contending
  <2> QED
    BY <2>1 DEF QueueInv, HeadInv
<1>2. CASE \E x \in Runners \ {r} : Handoff(x) \/ TryClaim(x)
  BY <1>2 DEF Handoff, TryClaim, Open
<1>3. CASE \E x \in Runners : Write(x) \/ WriteFails(x) \/ Crash(x)
  BY <1>3 DEF Write, WriteFails, Crash
<1>4. CASE Age \/ UNCHANGED vars
  BY <1>4 DEF Age, vars, runnerVars
<1> QED
  BY <1>1, <1>2, <1>3, <1>4
     DEF Next, Step, Start, Publish, Expire, Loop, Scan, ReadHolder, Reread,
         Unlink, Retire, Leave, Finish, ReleaseRead, ReleaseUnlink

\* The lock is given to the oldest live ticket, crashes or not, if tickets
\* appear in the order of their admission times.
THEOREM LockIsFirstComeFirstServed ==
  ASSUME PublishInOrder
  PROVE  Spec => FirstComeFirstServed
<1> DEFINE InOrder ==
      \A r \in Runners :
        claim[r] = "none" /\ claim'[r] = "opened"
        => \A o \in tickets \ {r} : Alive(o) => Older(r, o)
<1>1. Init => TypeOK /\ QueueInv
  BY TypeInit, QueueInit
<1>2. TypeOK /\ QueueInv /\ [Next]_vars => (TypeOK /\ QueueInv)'
  BY TypeNext, QueueNext
<1>3. TypeOK /\ QueueInv /\ [Next]_vars => [InOrder]_vars
  BY OnlyTheHeadOpens
<1> QED
  BY <1>1, <1>2, <1>3, PTL DEF Spec, FirstComeFirstServed

=============================================================================
