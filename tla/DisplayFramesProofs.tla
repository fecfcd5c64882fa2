------------------------ MODULE DisplayFramesProofs ------------------------
(***************************************************************************)
(* Theorems about the frames of a display: for any number of workers,      *)
(* renderers, stoppers, drawings and images, an image is encoded from the  *)
(* frame it was planned for, the end of a frame follows its images, a      *)
(* deferred frame is remembered, and who joins is sent one frame as a      *)
(* whole.                                                                  *)
(***************************************************************************)
EXTENDS DisplayFrames, SequenceTheorems, FiniteSetTheorems, TLAPS

\* Where the threads of each kind may be.
Places ==
  /\ \A w \in Workers :
       pc[w] \in {"dequeue", "mark", "read", "encode", "finish", "endframe", "done",
                  "end", "defer", "commit", "apply", "nop", "spin"}
  /\ \A r \in Renderers : pc[r] \in {"idle", "defer", "commit", "apply", "nop", "spin"}
  /\ \A s \in Stoppers : pc[s] \in {"idle", "join", "waitstopped", "done"}
  /\ pc[Dup] \in {"idle", "wait", "sync", "done"}

\* Which locks are held is known from where the threads are.
PendingHeld ==
  \A t \in Threads : pending_lock = t <=> pc[t] \in {"defer", "commit", "apply", "nop", "spin"}

LastHeld ==
  /\ \A t \in Threads : last_writer = t <=> pc[t] = "spin"
  /\ \A w \in Workers : w \in last_readers <=> pc[w] \in {"encode", "finish", "endframe"}
  /\ Dup \in last_readers <=> pc[Dup] \in {"wait", "sync"}

QueueHeld == \A w \in Workers : ops_lock = w <=> pc[w] \in {"mark", "endframe"}

RenderHeld ==
  /\ render_lock <=> pc[Dup] = "sync"
  /\ render_lock => ~in_progress

\* The workers that are counted as active.
Active == {w \in Workers : pc[w] \in {"read", "encode", "finish", "endframe"}}

ActiveCounted == active_workers = Cardinality(Active)

\* No operation is queued or with a worker.
Idle ==
  /\ ops = << >>
  /\ \A w \in Workers : pc[w] # "mark"
  /\ Active = {}

\* pending_frame.lock is held from the decision not to defer a frame until it is
\* queued, so nothing becomes of the frame before in between.
QuietCommit == (\E t \in Threads : pc[t] \in {"commit", "apply"}) => Idle

\* Who ends a frame has the queue locked, and is alone with it.
LastAlone == \A w \in Workers : pc[w] = "endframe" => ops = << >> /\ Active = {w}

\* A frame is in progress while a worker is active, and somebody will end it.
ProgressEnds ==
  /\ Active # {} => in_progress
  /\ in_progress => ~Idle

\* Frames only go on; what is about to be queued has not been shown.
FramesOrdered ==
  /\ shown <= last_frame /\ last_frame <= pending_frame /\ joined <= last_frame
  /\ \A t \in Threads : pc[t] = "apply" => shown < last_frame

\* guac_display_stop() returns when one of its callers has joined all workers.
StoppedJoined ==
  /\ stopped => \A w \in Workers : pc[w] = "done"
  /\ \A s \in Stoppers : pc[s] = "done" => stopped

\* Who joined a frame of which nothing remained to be sent gets nothing of it.
JoinedWhole ==
  /\ pc[Dup] # "done" => joined = -1 /\ ~late
  /\ late => unsent
  /\ joined = last_frame /\ ~unsent =>
       Idle /\ \A t \in Threads : pc[t] \notin {"apply", "nop"}

FramesInv ==
  /\ TypeOK
  /\ Places
  /\ PendingHeld
  /\ LastHeld
  /\ QueueHeld
  /\ RenderHeld
  /\ ActiveCounted
  /\ QuietCommit
  /\ LastAlone
  /\ ProgressEnds
  /\ FramesOrdered
  /\ OpsMatchFrame
  /\ SyncAfterImages
  /\ DeferredIsRemembered
  /\ StoppedJoined
  /\ JoinedWhole

-----------------------------------------------------------------------------
(* Steps, the queue, and the workers that are active. *)

\* A step, without the ways threads are told apart in Next.
LEMMA NextCases ==
  ASSUME [Next]_vars
  PROVE  \/ UNCHANGED vars \/ Draw \/ RemoveBuffer \/ DupLock \/ DupWait \/ DupDone
         \/ \E t \in Workers \cup Renderers :
              EndLock(t) \/ EndDefer(t) \/ EndCommit(t) \/ EndApply(t) \/ EndNop(t)
         \/ \E w \in Workers : \/ Dequeue(w) \/ MarkInProgress(w) \/ ReadLock(w)
                              \/ Encode(w) \/ Finish(w) \/ EndOfFrame(w)
         \/ \E s \in Stoppers : StopInvalidate(s) \/ StopJoin(s) \/ StopWait(s)
BY DEF Next, WorkerStep, EndFrames, DupStep, StopperStep, Spin, Deadlocked,
         Finished

\* What is in the queue after operations are put in.
LEMMA Queued ==
  ASSUME ops \in Seq(Operation), last_frame \in 0 .. MaxDraws,
         NEW n \in Nat, NEW type \in {IMG, NOP}, Enqueue(n, type)
  PROVE  /\ ops' \in Seq(Operation)
         /\ \A o \in ToSet(ops') : o \in ToSet(ops) \/ o = [type |-> type, frame |-> last_frame]
         /\ ops # << >> => ops' # << >>
<1> DEFINE a == [type |-> type, frame |-> last_frame]
           added == [i \in 1 .. n |-> a]
<1>1. a \in Operation
  BY DEF Operation
<1>2. added \in Seq(Operation) /\ Len(added) = n
  BY <1>1
<1>3. CASE ops' = ops
  BY <1>3
<1>4. CASE ops' = ops \o added
  <2>1. /\ ops' \in Seq(Operation) /\ Len(ops') = Len(ops) + n
        /\ \A i \in 1 .. Len(ops) + n :
             ops'[i] = IF i <= Len(ops) THEN ops[i] ELSE added[i - Len(ops)]
    BY <1>2, <1>4, ConcatProperties
  <2>2. ASSUME NEW i \in 1 .. Len(ops')
        PROVE  ops'[i] \in ToSet(ops) \/ ops'[i] = a
    <3>1. CASE i <= Len(ops)
      <4>1. i \in 1 .. Len(ops) /\ ops'[i] = ops[i]
        BY <2>1, <3>1, LenProperties
      <4> QED  BY <4>1 DEF ToSet
    <3>2. CASE ~(i <= Len(ops))
      <4>1. i - Len(ops) \in 1 .. n /\ ops'[i] = added[i - Len(ops)]
        BY <2>1, <3>2, LenProperties
      <4> QED  BY <4>1
    <3> QED  BY <3>1, <3>2
  <2>3. \A o \in ToSet(ops') : o \in ToSet(ops) \/ o = a
    BY <2>2, <2>1, LenProperties DEF ToSet
  <2>4. ops # << >> => ops' # << >>
    BY <2>1, EmptySeq, LenProperties
  <2> QED  BY <2>1, <2>3, <2>4
<1> QED  BY <1>3, <1>4 DEF Enqueue

\* What is in it after one is taken.
LEMMA Taken ==
  ASSUME ops \in Seq(Operation), ops # << >>
  PROVE  /\ Head(ops) \in Operation /\ Head(ops) \in ToSet(ops)
         /\ Tail(ops) \in Seq(Operation)
         /\ \A o \in ToSet(Tail(ops)) : o \in ToSet(ops)
<1>1. /\ Len(ops) \in Nat /\ Len(ops) > 0 /\ Head(ops) = ops[1]
      /\ Tail(ops) \in Seq(Operation) /\ Len(Tail(ops)) = Len(ops) - 1
      /\ \A i \in 1 .. Len(ops) - 1 : Tail(ops)[i] = ops[i + 1]
  BY HeadTailProperties, EmptySeq, LenProperties
<1>2. Head(ops) \in Operation /\ Head(ops) \in ToSet(ops)
  BY <1>1, ElementOfSeq DEF ToSet
<1>3. ASSUME NEW i \in 1 .. Len(Tail(ops))
      PROVE  Tail(ops)[i] \in ToSet(ops)
  <2>1. i + 1 \in 1 .. Len(ops) /\ Tail(ops)[i] = ops[i + 1]
    BY <1>1
  <2> QED  BY <2>1 DEF ToSet
<1> QED  BY <1>1, <1>2, <1>3 DEF ToSet

\* A plan of no operation has none.
LEMMA Empty == ToSet(<< >>) = {} /\ << >> \in Seq(Operation)
BY EmptySeq DEF ToSet

\* What a step of a thread does to the set of active workers.
LEMMA ActiveMoves ==
  ASSUME FramesInv, NEW t \in Threads, NEW l \in Labels, GoTo(t, l)
  PROVE  Active' = IF t \in Workers /\ l \in {"read", "encode", "finish", "endframe"}
                   THEN Active \cup {t} ELSE Active \ {t}
BY DEF FramesInv, TypeOK, Active, GoTo, Threads

\* As many are counted as there are.
LEMMA ActiveFinite ==
  ASSUME FramesInv
  PROVE  /\ IsFiniteSet(Active) /\ active_workers \in Nat
         /\ active_workers = 0 <=> Active = {}
         /\ \A w \in Active : active_workers = 1 <=> Active = {w}
<1>1. IsFiniteSet(Active) /\ active_workers = Cardinality(Active)
  BY FS_Subset, ThreadsAssumption DEF Active, FramesInv, ActiveCounted
<1>2. Cardinality(Active) \in Nat
  BY <1>1, FS_CardinalityType
<1>3. Cardinality(Active) = 0 <=> Active = {}
  BY <1>1, FS_EmptySet
<1>4. Cardinality(Active) = 1 <=> \E x : Active = {x}
  BY <1>1, FS_Singleton
<1> QED  BY <1>1, <1>2, <1>3, <1>4

\* Caller() leads back to where the thread came from.
LEMMA PlaceOf ==
  ASSUME FramesInv
  PROVE  /\ pc \in [Threads -> Labels]
         /\ \A t \in Workers \cup Renderers : Caller(t) \in Labels /\ t \in Threads
BY DEF FramesInv, TypeOK, Caller, Labels, Threads

\* The three outcomes of a commit.
LEMMA CommitMoves ==
  ASSUME NEW t, EndCommit(t)
  PROVE  \E l \in {"spin", Caller(t), "apply"} :
           /\ GoTo(t, l)
           /\ l = "apply" => last_frame' = pending_frame /\ last_frame # pending_frame
                             /\ Send(pending_frame)
           /\ l # "apply" => last_frame' = last_frame /\ userVars' = userVars
BY DEF EndCommit, Caller, userVars

\* Only three steps change the set of active workers and their number.
LEMMA ActiveAt ==
  ASSUME FramesInv
  PROVE  /\ UNCHANGED vars \/ Draw \/ RemoveBuffer \/ DupLock \/ DupWait \/ DupDone =>
              Active' = Active /\ active_workers' = active_workers
         /\ \A s \in Stoppers : StopInvalidate(s) \/ StopJoin(s) \/ StopWait(s) =>
              Active' = Active /\ active_workers' = active_workers
         /\ \A t \in Workers \cup Renderers :
              EndLock(t) \/ EndDefer(t) \/ EndCommit(t) \/ EndApply(t) \/ EndNop(t) =>
                Active' = Active /\ active_workers' = active_workers
         /\ \A w \in Workers :
              /\ Dequeue(w) \/ ReadLock(w) \/ Encode(w) =>
                   Active' = Active /\ active_workers' = active_workers
              /\ MarkInProgress(w) => w \notin Active /\ Active' = Active \cup {w}
              /\ Finish(w) => w \in Active
              /\ Finish(w) /\ LastWorker => Active = {w} /\ Active' = Active
              /\ Finish(w) /\ ~LastWorker =>
                   Active' = Active \ {w} /\ (ops # << >> \/ Active \ {w} # {})
              /\ EndOfFrame(w) => Active = {w} /\ Active' = {}
<1> USE PlaceOf, ActiveMoves, ThreadsAssumption DEF Threads, Labels, Places, FramesInv, opsVars
<1>1. ASSUME UNCHANGED vars \/ Draw \/ RemoveBuffer
      PROVE  Active' = Active /\ active_workers' = active_workers
  BY <1>1 DEF vars, Draw, RemoveBuffer, Active
<1>2. ASSUME DupLock \/ DupWait \/ DupDone
      PROVE  Active' = Active /\ active_workers' = active_workers
  BY <1>2 DEF DupLock, DupWait, DupDone, Active
<1>3. ASSUME NEW s \in Stoppers, StopInvalidate(s) \/ StopJoin(s) \/ StopWait(s)
      PROVE  Active' = Active /\ active_workers' = active_workers
  BY <1>3 DEF StopInvalidate, StopJoin, StopWait, Active
<1>4. ASSUME NEW t \in Workers \cup Renderers,
             EndLock(t) \/ EndDefer(t) \/ EndApply(t) \/ EndNop(t)
      PROVE  Active' = Active /\ active_workers' = active_workers
  BY <1>4 DEF EndLock, EndDefer, EndApply, EndNop, Active, Caller
<1>5. ASSUME NEW t \in Workers \cup Renderers, EndCommit(t)
      PROVE  Active' = Active /\ active_workers' = active_workers
  BY <1>5, CommitMoves DEF EndCommit, Active, Caller
<1>6. ASSUME NEW w \in Workers, Dequeue(w) \/ ReadLock(w) \/ Encode(w)
      PROVE  Active' = Active /\ active_workers' = active_workers
  BY <1>6 DEF Dequeue, ReadLock, Encode, Active
<1>7. ASSUME NEW w \in Workers, MarkInProgress(w)
      PROVE  w \notin Active /\ Active' = Active \cup {w}
  BY <1>7 DEF MarkInProgress, Active
<1>8. ASSUME NEW w \in Workers, Finish(w)
      PROVE  /\ w \in Active
             /\ LastWorker => Active = {w} /\ Active' = Active
             /\ ~LastWorker => Active' = Active \ {w} /\ (ops # << >> \/ Active \ {w} # {})
  <2>1. w \in Active /\ pc[w] = "finish"
    BY <1>8 DEF Finish, Active
  <2>2. active_workers = 1 <=> Active = {w}
    BY <2>1, ActiveFinite
  <2>3. Active' = IF LastWorker THEN Active \cup {w} ELSE Active \ {w}
    BY <1>8, <2>1 DEF Finish
  <2> QED  BY <2>1, <2>2, <2>3 DEF LastWorker
<1>9. ASSUME NEW w \in Workers, EndOfFrame(w)
      PROVE  Active = {w} /\ Active' = {}
  <2>1. Active = {w}
    BY <1>9 DEF EndOfFrame, LastAlone
  <2>2. Active' = Active \ {w}
    BY <1>9 DEF EndOfFrame
  <2> QED  BY <2>1, <2>2
<1> QED  BY <1>1, <1>2, <1>3, <1>4, <1>5, <1>6, <1>7, <1>8, <1>9

\* The count follows the set.
LEMMA ActiveKept ==
  ASSUME FramesInv, [Next]_vars
  PROVE  ActiveCounted'
<1>1. IsFiniteSet(Active) /\ active_workers = Cardinality(Active) /\ active_workers \in Nat
  BY ActiveFinite DEF FramesInv, ActiveCounted
<1>2. CASE Active' = Active /\ active_workers' = active_workers
  BY <1>1, <1>2 DEF ActiveCounted
<1>3. ASSUME NEW w \in Workers, MarkInProgress(w)
      PROVE  ActiveCounted'
  BY <1>1, <1>3, ActiveAt, FS_AddElement DEF ActiveCounted, MarkInProgress
<1>4. ASSUME NEW w \in Workers, Finish(w)
      PROVE  ActiveCounted'
  <2>1. CASE LastWorker
    BY <1>1, <1>4, <2>1, ActiveAt DEF ActiveCounted, Finish
  <2>2. CASE ~LastWorker
    <3>1. w \in Active /\ Active' = Active \ {w} /\ active_workers' = active_workers - 1
      BY <1>4, <2>2, ActiveAt DEF Finish
    <3> QED  BY <1>1, <3>1, FS_RemoveElement DEF ActiveCounted
  <2> QED  BY <2>1, <2>2
<1>5. ASSUME NEW w \in Workers, EndOfFrame(w)
      PROVE  ActiveCounted'
  <2>1. Active = {w} /\ Active' = {} /\ active_workers' = active_workers - 1
    BY <1>5, ActiveAt DEF EndOfFrame
  <2>2. active_workers = 1
    BY <1>1, <2>1, FS_Singleton
  <2> QED  BY <2>1, <2>2, FS_EmptySet DEF ActiveCounted
<1> QED  BY <1>2, <1>3, <1>4, <1>5, ActiveAt, NextCases

-----------------------------------------------------------------------------
(* One lemma for each part of the invariant; a step for each action. *)

\* Threads stay in the functions they run.
LEMMA PlacesKept ==
  ASSUME FramesInv, [Next]_vars
  PROVE  Places'
<1>inv. pc \in [Threads -> Labels] /\ Places
  BY DEF FramesInv, TypeOK
<1> USE <1>inv, ThreadsAssumption DEF Threads, Places, frameVars, lockVars,
         opsVars, stateVars, userVars, GoTo
<1>1. CASE UNCHANGED vars
  BY <1>1 DEF vars
<1>2. CASE Draw
  BY <1>2 DEF Draw
<1>3. CASE RemoveBuffer
  BY <1>3 DEF RemoveBuffer
<1>4. ASSUME NEW t \in Workers \cup Renderers, EndLock(t)
      PROVE  Places'
  BY <1>4 DEF EndLock, Caller
<1>5. ASSUME NEW t \in Workers \cup Renderers, EndDefer(t)
      PROVE  Places'
  BY <1>5 DEF EndDefer, Caller, Defer
<1>6. ASSUME NEW t \in Workers \cup Renderers, EndCommit(t)
      PROVE  Places'
  <2>1. \E l \in {"spin", Caller(t), "apply"} : GoTo(t, l)
    BY <1>6, CommitMoves
  <2> QED  BY <2>1 DEF Caller
<1>7. ASSUME NEW t \in Workers \cup Renderers, EndApply(t)
      PROVE  Places'
  BY <1>7 DEF EndApply, Enqueue, Send
<1>8. ASSUME NEW t \in Workers \cup Renderers, EndNop(t)
      PROVE  Places'
  BY <1>8 DEF EndNop, Enqueue, Caller
<1>9. ASSUME NEW w \in Workers, Dequeue(w)
      PROVE  Places'
  BY <1>9 DEF Dequeue
<1>10. ASSUME NEW w \in Workers, MarkInProgress(w)
      PROVE  Places'
  BY <1>10 DEF MarkInProgress
<1>11. ASSUME NEW w \in Workers, ReadLock(w)
      PROVE  Places'
  BY <1>11 DEF ReadLock
<1>12. ASSUME NEW w \in Workers, Encode(w)
      PROVE  Places'
  BY <1>12 DEF Encode, Send
<1>13. ASSUME NEW w \in Workers, Finish(w)
      PROVE  Places'
  BY <1>13 DEF Finish, LastWorker, Send
<1>14. ASSUME NEW w \in Workers, EndOfFrame(w)
      PROVE  Places'
  BY <1>14 DEF EndOfFrame
<1>15. CASE DupLock
  BY <1>15 DEF DupLock
<1>16. CASE DupWait
  BY <1>16 DEF DupWait
<1>17. CASE DupDone
  BY <1>17 DEF DupDone, Unsent
<1>18. ASSUME NEW s \in Stoppers, StopInvalidate(s)
      PROVE  Places'
  BY <1>18 DEF StopInvalidate
<1>19. ASSUME NEW s \in Stoppers, StopJoin(s)
      PROVE  Places'
  BY <1>19 DEF StopJoin
<1>20. ASSUME NEW s \in Stoppers, StopWait(s)
      PROVE  Places'
  BY <1>20 DEF StopWait
<1> QED  BY NextCases, <1>1, <1>2, <1>3, <1>4, <1>5, <1>6, <1>7, <1>8, <1>9, <1>10, <1>11,
         <1>12, <1>13, <1>14, <1>15, <1>16, <1>17, <1>18, <1>19, <1>20

\* Whoever takes pending_frame.lock is at a place where it is held, until it gives it back.
LEMMA PendingKept ==
  ASSUME FramesInv, [Next]_vars
  PROVE  PendingHeld'
<1>inv. pc \in [Threads -> Labels] /\ Places /\ PendingHeld
  BY DEF FramesInv, TypeOK
<1> USE <1>inv, ThreadsAssumption DEF Threads, Places, frameVars, lockVars,
         opsVars, stateVars, userVars, GoTo, PendingHeld
<1>1. CASE UNCHANGED vars
  BY <1>1 DEF vars
<1>2. CASE Draw
  BY <1>2 DEF Draw
<1>3. CASE RemoveBuffer
  BY <1>3 DEF RemoveBuffer
<1>4. ASSUME NEW t \in Workers \cup Renderers, EndLock(t)
      PROVE  PendingHeld'
  BY <1>4 DEF EndLock, Caller
<1>5. ASSUME NEW t \in Workers \cup Renderers, EndDefer(t)
      PROVE  PendingHeld'
  BY <1>5 DEF EndDefer, Caller, Defer
<1>6. ASSUME NEW t \in Workers \cup Renderers, EndCommit(t)
      PROVE  PendingHeld'
  BY <1>6 DEF EndCommit, Caller, Send
<1>7. ASSUME NEW t \in Workers \cup Renderers, EndApply(t)
      PROVE  PendingHeld'
  BY <1>7 DEF EndApply, Enqueue, Send
<1>8. ASSUME NEW t \in Workers \cup Renderers, EndNop(t)
      PROVE  PendingHeld'
  BY <1>8 DEF EndNop, Enqueue, Caller
<1>9. ASSUME NEW w \in Workers, Dequeue(w)
      PROVE  PendingHeld'
  BY <1>9 DEF Dequeue
<1>10. ASSUME NEW w \in Workers, MarkInProgress(w)
      PROVE  PendingHeld'
  BY <1>10 DEF MarkInProgress
<1>11. ASSUME NEW w \in Workers, ReadLock(w)
      PROVE  PendingHeld'
  BY <1>11 DEF ReadLock
<1>12. ASSUME NEW w \in Workers, Encode(w)
      PROVE  PendingHeld'
  BY <1>12 DEF Encode, Send
<1>13. ASSUME NEW w \in Workers, Finish(w)
      PROVE  PendingHeld'
  BY <1>13 DEF Finish, LastWorker, Send
<1>14. ASSUME NEW w \in Workers, EndOfFrame(w)
      PROVE  PendingHeld'
  BY <1>14 DEF EndOfFrame
<1>15. CASE DupLock
  BY <1>15 DEF DupLock
<1>16. CASE DupWait
  BY <1>16 DEF DupWait
<1>17. CASE DupDone
  BY <1>17 DEF DupDone, Unsent
<1>18. ASSUME NEW s \in Stoppers, StopInvalidate(s)
      PROVE  PendingHeld'
  BY <1>18 DEF StopInvalidate
<1>19. ASSUME NEW s \in Stoppers, StopJoin(s)
      PROVE  PendingHeld'
  BY <1>19 DEF StopJoin
<1>20. ASSUME NEW s \in Stoppers, StopWait(s)
      PROVE  PendingHeld'
  BY <1>20 DEF StopWait
<1> QED  BY NextCases, <1>1, <1>2, <1>3, <1>4, <1>5, <1>6, <1>7, <1>8, <1>9, <1>10, <1>11,
         <1>12, <1>13, <1>14, <1>15, <1>16, <1>17, <1>18, <1>19, <1>20

\* The same of last_frame.lock, for writing and for reading.
LEMMA LastKept ==
  ASSUME FramesInv, [Next]_vars
  PROVE  LastHeld'
<1>inv. pc \in [Threads -> Labels] /\ Places /\ LastHeld /\ last_readers \subseteq Threads
  BY DEF FramesInv, TypeOK
<1> USE <1>inv, ThreadsAssumption DEF Threads, Places, frameVars, lockVars,
         opsVars, stateVars, userVars, GoTo, LastHeld
<1>1. CASE UNCHANGED vars
  BY <1>1 DEF vars
<1>2. CASE Draw
  BY <1>2 DEF Draw
<1>3. CASE RemoveBuffer
  BY <1>3 DEF RemoveBuffer
<1>4. ASSUME NEW t \in Workers \cup Renderers, EndLock(t)
      PROVE  LastHeld'
  BY <1>4 DEF EndLock, Caller
<1>5. ASSUME NEW t \in Workers \cup Renderers, EndDefer(t)
      PROVE  LastHeld'
  BY <1>5 DEF EndDefer, Caller, Defer
<1>6. ASSUME NEW t \in Workers \cup Renderers, EndCommit(t)
      PROVE  LastHeld'
  BY <1>6 DEF EndCommit, Caller, Send
<1>7. ASSUME NEW t \in Workers \cup Renderers, EndApply(t)
      PROVE  LastHeld'
  BY <1>7 DEF EndApply, Enqueue, Send
<1>8. ASSUME NEW t \in Workers \cup Renderers, EndNop(t)
      PROVE  LastHeld'
  BY <1>8 DEF EndNop, Enqueue, Caller
<1>9. ASSUME NEW w \in Workers, Dequeue(w)
      PROVE  LastHeld'
  BY <1>9 DEF Dequeue
<1>10. ASSUME NEW w \in Workers, MarkInProgress(w)
      PROVE  LastHeld'
  BY <1>10 DEF MarkInProgress
<1>11. ASSUME NEW w \in Workers, ReadLock(w)
      PROVE  LastHeld'
  BY <1>11 DEF ReadLock
<1>12. ASSUME NEW w \in Workers, Encode(w)
      PROVE  LastHeld'
  BY <1>12 DEF Encode, Send
<1>13. ASSUME NEW w \in Workers, Finish(w)
      PROVE  LastHeld'
  BY <1>13 DEF Finish, LastWorker, Send
<1>14. ASSUME NEW w \in Workers, EndOfFrame(w)
      PROVE  LastHeld'
  BY <1>14 DEF EndOfFrame
<1>15. CASE DupLock
  BY <1>15 DEF DupLock
<1>16. CASE DupWait
  BY <1>16 DEF DupWait
<1>17. CASE DupDone
  BY <1>17 DEF DupDone, Unsent
<1>18. ASSUME NEW s \in Stoppers, StopInvalidate(s)
      PROVE  LastHeld'
  BY <1>18 DEF StopInvalidate
<1>19. ASSUME NEW s \in Stoppers, StopJoin(s)
      PROVE  LastHeld'
  BY <1>19 DEF StopJoin
<1>20. ASSUME NEW s \in Stoppers, StopWait(s)
      PROVE  LastHeld'
  BY <1>20 DEF StopWait
<1> QED  BY NextCases, <1>1, <1>2, <1>3, <1>4, <1>5, <1>6, <1>7, <1>8, <1>9, <1>10, <1>11,
         <1>12, <1>13, <1>14, <1>15, <1>16, <1>17, <1>18, <1>19, <1>20

\* The same of the lock of the queue.
LEMMA QueueKept ==
  ASSUME FramesInv, [Next]_vars
  PROVE  QueueHeld'
<1>inv. pc \in [Threads -> Labels] /\ Places /\ QueueHeld
  BY DEF FramesInv, TypeOK
<1> USE <1>inv, ThreadsAssumption DEF Threads, Places, frameVars, lockVars,
         opsVars, stateVars, userVars, GoTo, QueueHeld
<1>1. CASE UNCHANGED vars
  BY <1>1 DEF vars
<1>2. CASE Draw
  BY <1>2 DEF Draw
<1>3. CASE RemoveBuffer
  BY <1>3 DEF RemoveBuffer
<1>4. ASSUME NEW t \in Workers \cup Renderers, EndLock(t)
      PROVE  QueueHeld'
  BY <1>4 DEF EndLock, Caller
<1>5. ASSUME NEW t \in Workers \cup Renderers, EndDefer(t)
      PROVE  QueueHeld'
  BY <1>5 DEF EndDefer, Caller, Defer
<1>6. ASSUME NEW t \in Workers \cup Renderers, EndCommit(t)
      PROVE  QueueHeld'
  BY <1>6 DEF EndCommit, Caller, Send
<1>7. ASSUME NEW t \in Workers \cup Renderers, EndApply(t)
      PROVE  QueueHeld'
  BY <1>7 DEF EndApply, Enqueue, Send
<1>8. ASSUME NEW t \in Workers \cup Renderers, EndNop(t)
      PROVE  QueueHeld'
  BY <1>8 DEF EndNop, Enqueue, Caller
<1>9. ASSUME NEW w \in Workers, Dequeue(w)
      PROVE  QueueHeld'
  BY <1>9 DEF Dequeue
<1>10. ASSUME NEW w \in Workers, MarkInProgress(w)
      PROVE  QueueHeld'
  BY <1>10 DEF MarkInProgress
<1>11. ASSUME NEW w \in Workers, ReadLock(w)
      PROVE  QueueHeld'
  BY <1>11 DEF ReadLock
<1>12. ASSUME NEW w \in Workers, Encode(w)
      PROVE  QueueHeld'
  BY <1>12 DEF Encode, Send
<1>13. ASSUME NEW w \in Workers, Finish(w)
      PROVE  QueueHeld'
  BY <1>13 DEF Finish, LastWorker, Send
<1>14. ASSUME NEW w \in Workers, EndOfFrame(w)
      PROVE  QueueHeld'
  BY <1>14 DEF EndOfFrame
<1>15. CASE DupLock
  BY <1>15 DEF DupLock
<1>16. CASE DupWait
  BY <1>16 DEF DupWait
<1>17. CASE DupDone
  BY <1>17 DEF DupDone, Unsent
<1>18. ASSUME NEW s \in Stoppers, StopInvalidate(s)
      PROVE  QueueHeld'
  BY <1>18 DEF StopInvalidate
<1>19. ASSUME NEW s \in Stoppers, StopJoin(s)
      PROVE  QueueHeld'
  BY <1>19 DEF StopJoin
<1>20. ASSUME NEW s \in Stoppers, StopWait(s)
      PROVE  QueueHeld'
  BY <1>20 DEF StopWait
<1> QED  BY NextCases, <1>1, <1>2, <1>3, <1>4, <1>5, <1>6, <1>7, <1>8, <1>9, <1>10, <1>11,
         <1>12, <1>13, <1>14, <1>15, <1>16, <1>17, <1>18, <1>19, <1>20

\* render_state is held by guac_display_dup() only, and no frame begins meanwhile.
LEMMA RenderKept ==
  ASSUME FramesInv, [Next]_vars
  PROVE  RenderHeld'
<1>inv. pc \in [Threads -> Labels] /\ Places /\ RenderHeld /\ ProgressEnds /\ LastAlone
        /\ render_lock \in BOOLEAN /\ in_progress \in BOOLEAN
  BY DEF FramesInv, TypeOK
<1> USE <1>inv, ThreadsAssumption DEF Threads, Places, frameVars, lockVars,
         opsVars, stateVars, userVars, GoTo, RenderHeld, ProgressEnds,
         LastAlone, Active, Idle
<1>1. CASE UNCHANGED vars
  BY <1>1 DEF vars
<1>2. CASE Draw
  BY <1>2 DEF Draw
<1>3. CASE RemoveBuffer
  BY <1>3 DEF RemoveBuffer
<1>4. ASSUME NEW t \in Workers \cup Renderers, EndLock(t)
      PROVE  RenderHeld'
  BY <1>4 DEF EndLock, Caller
<1>5. ASSUME NEW t \in Workers \cup Renderers, EndDefer(t)
      PROVE  RenderHeld'
  BY <1>5 DEF EndDefer, Caller, Defer
<1>6. ASSUME NEW t \in Workers \cup Renderers, EndCommit(t)
      PROVE  RenderHeld'
  BY <1>6 DEF EndCommit, Caller, Send
<1>7. ASSUME NEW t \in Workers \cup Renderers, EndApply(t)
      PROVE  RenderHeld'
  BY <1>7 DEF EndApply, Enqueue, Send
<1>8. ASSUME NEW t \in Workers \cup Renderers, EndNop(t)
      PROVE  RenderHeld'
  BY <1>8 DEF EndNop, Enqueue, Caller
<1>9. ASSUME NEW w \in Workers, Dequeue(w)
      PROVE  RenderHeld'
  BY <1>9 DEF Dequeue
<1>10. ASSUME NEW w \in Workers, MarkInProgress(w)
      PROVE  RenderHeld'
  BY <1>10 DEF MarkInProgress
<1>11. ASSUME NEW w \in Workers, ReadLock(w)
      PROVE  RenderHeld'
  BY <1>11 DEF ReadLock
<1>12. ASSUME NEW w \in Workers, Encode(w)
      PROVE  RenderHeld'
  BY <1>12 DEF Encode, Send
<1>13. ASSUME NEW w \in Workers, Finish(w)
      PROVE  RenderHeld'
  BY <1>13 DEF Finish, LastWorker, Send
<1>14. ASSUME NEW w \in Workers, EndOfFrame(w)
      PROVE  RenderHeld'
  BY <1>14 DEF EndOfFrame
<1>15. CASE DupLock
  BY <1>15 DEF DupLock
<1>16. CASE DupWait
  BY <1>16 DEF DupWait
<1>17. CASE DupDone
  BY <1>17 DEF DupDone, Unsent
<1>18. ASSUME NEW s \in Stoppers, StopInvalidate(s)
      PROVE  RenderHeld'
  BY <1>18 DEF StopInvalidate
<1>19. ASSUME NEW s \in Stoppers, StopJoin(s)
      PROVE  RenderHeld'
  BY <1>19 DEF StopJoin
<1>20. ASSUME NEW s \in Stoppers, StopWait(s)
      PROVE  RenderHeld'
  BY <1>20 DEF StopWait
<1> QED  BY NextCases, <1>1, <1>2, <1>3, <1>4, <1>5, <1>6, <1>7, <1>8, <1>9, <1>10, <1>11,
         <1>12, <1>13, <1>14, <1>15, <1>16, <1>17, <1>18, <1>19, <1>20

\* A worker that has ended does not come back.
LEMMA StoppedKept ==
  ASSUME FramesInv, [Next]_vars
  PROVE  StoppedJoined'
<1>inv. pc \in [Threads -> Labels] /\ Places /\ StoppedJoined /\ stopped \in BOOLEAN
  BY DEF FramesInv, TypeOK
<1> USE <1>inv, ThreadsAssumption DEF Threads, Places, frameVars, lockVars,
         opsVars, stateVars, userVars, GoTo, StoppedJoined
<1>1. CASE UNCHANGED vars
  BY <1>1 DEF vars
<1>2. CASE Draw
  BY <1>2 DEF Draw
<1>3. CASE RemoveBuffer
  BY <1>3 DEF RemoveBuffer
<1>4. ASSUME NEW t \in Workers \cup Renderers, EndLock(t)
      PROVE  StoppedJoined'
  BY <1>4 DEF EndLock, Caller
<1>5. ASSUME NEW t \in Workers \cup Renderers, EndDefer(t)
      PROVE  StoppedJoined'
  BY <1>5 DEF EndDefer, Caller, Defer
<1>6. ASSUME NEW t \in Workers \cup Renderers, EndCommit(t)
      PROVE  StoppedJoined'
  BY <1>6 DEF EndCommit, Caller, Send
<1>7. ASSUME NEW t \in Workers \cup Renderers, EndApply(t)
      PROVE  StoppedJoined'
  BY <1>7 DEF EndApply, Enqueue, Send
<1>8. ASSUME NEW t \in Workers \cup Renderers, EndNop(t)
      PROVE  StoppedJoined'
  BY <1>8 DEF EndNop, Enqueue, Caller
<1>9. ASSUME NEW w \in Workers, Dequeue(w)
      PROVE  StoppedJoined'
  BY <1>9 DEF Dequeue
<1>10. ASSUME NEW w \in Workers, MarkInProgress(w)
      PROVE  StoppedJoined'
  BY <1>10 DEF MarkInProgress
<1>11. ASSUME NEW w \in Workers, ReadLock(w)
      PROVE  StoppedJoined'
  BY <1>11 DEF ReadLock
<1>12. ASSUME NEW w \in Workers, Encode(w)
      PROVE  StoppedJoined'
  BY <1>12 DEF Encode, Send
<1>13. ASSUME NEW w \in Workers, Finish(w)
      PROVE  StoppedJoined'
  BY <1>13 DEF Finish, LastWorker, Send
<1>14. ASSUME NEW w \in Workers, EndOfFrame(w)
      PROVE  StoppedJoined'
  BY <1>14 DEF EndOfFrame
<1>15. CASE DupLock
  BY <1>15 DEF DupLock
<1>16. CASE DupWait
  BY <1>16 DEF DupWait
<1>17. CASE DupDone
  BY <1>17 DEF DupDone, Unsent
<1>18. ASSUME NEW s \in Stoppers, StopInvalidate(s)
      PROVE  StoppedJoined'
  BY <1>18 DEF StopInvalidate
<1>19. ASSUME NEW s \in Stoppers, StopJoin(s)
      PROVE  StoppedJoined'
  BY <1>19 DEF StopJoin
<1>20. ASSUME NEW s \in Stoppers, StopWait(s)
      PROVE  StoppedJoined'
  BY <1>20 DEF StopWait
<1> QED  BY NextCases, <1>1, <1>2, <1>3, <1>4, <1>5, <1>6, <1>7, <1>8, <1>9, <1>10, <1>11,
         <1>12, <1>13, <1>14, <1>15, <1>16, <1>17, <1>18, <1>19, <1>20

\* Nothing is queued between the decision not to defer and the commit.
LEMMA QuietKept ==
  ASSUME FramesInv, [Next]_vars
  PROVE  QuietCommit'
<1> USE ThreadsAssumption, PlaceOf, ActiveAt DEF FramesInv, Threads, Places, frameVars,
         lockVars, opsVars, stateVars, userVars, GoTo, QuietCommit, Idle, PendingHeld, QueueHeld
<1>1. CASE UNCHANGED vars
  BY <1>1 DEF vars
<1>2. CASE Draw
  BY <1>2 DEF Draw
<1>3. CASE RemoveBuffer
  BY <1>3 DEF RemoveBuffer
<1>4. ASSUME NEW t \in Workers \cup Renderers, EndLock(t)
      PROVE  QuietCommit'
  BY <1>4 DEF EndLock, Caller
<1>5. ASSUME NEW t \in Workers \cup Renderers, EndDefer(t)
      PROVE  QuietCommit'
  BY <1>5, ActiveFinite DEF EndDefer, Caller, Defer
<1>6. ASSUME NEW t \in Workers \cup Renderers, EndCommit(t)
      PROVE  QuietCommit'
  <2>1. Idle
    BY <1>6 DEF EndCommit
  <2>2. PICK l \in {"spin", Caller(t), "apply"} : GoTo(t, l)
    BY <1>6, CommitMoves
  <2>3. l # "mark"
    BY <2>2 DEF Caller
  <2>4. \A w \in Workers : pc'[w] # "mark"
    BY <2>1, <2>2, <2>3
  <2>5. ops' = ops /\ Active' = Active
    BY <1>6 DEF EndCommit
  <2> QED  BY <2>1, <2>4, <2>5
<1>7. ASSUME NEW t \in Workers \cup Renderers, EndApply(t)
      PROVE  QuietCommit'
  BY <1>7 DEF EndApply, Enqueue, Send
<1>8. ASSUME NEW t \in Workers \cup Renderers, EndNop(t)
      PROVE  QuietCommit'
  BY <1>8 DEF EndNop, Enqueue, Caller
<1>9. ASSUME NEW w \in Workers, Dequeue(w)
      PROVE  QuietCommit'
  BY <1>9 DEF Dequeue
<1>10. ASSUME NEW w \in Workers, MarkInProgress(w)
      PROVE  QuietCommit'
  BY <1>10 DEF MarkInProgress
<1>11. ASSUME NEW w \in Workers, ReadLock(w)
      PROVE  QuietCommit'
  BY <1>11 DEF ReadLock
<1>12. ASSUME NEW w \in Workers, Encode(w)
      PROVE  QuietCommit'
  BY <1>12 DEF Encode, Send
<1>13. ASSUME NEW w \in Workers, Finish(w)
      PROVE  QuietCommit'
  <2>1. CASE LastWorker
    BY <1>13, <2>1 DEF Finish, Send
  <2>2. CASE ~LastWorker
    BY <1>13, <2>2 DEF Finish
  <2> QED  BY <2>1, <2>2
<1>14. ASSUME NEW w \in Workers, EndOfFrame(w)
      PROVE  QuietCommit'
  BY <1>14 DEF EndOfFrame
<1>15. CASE DupLock
  BY <1>15 DEF DupLock
<1>16. CASE DupWait
  BY <1>16 DEF DupWait
<1>17. CASE DupDone
  BY <1>17 DEF DupDone, Unsent
<1>18. ASSUME NEW s \in Stoppers, StopInvalidate(s)
      PROVE  QuietCommit'
  BY <1>18 DEF StopInvalidate
<1>19. ASSUME NEW s \in Stoppers, StopJoin(s)
      PROVE  QuietCommit'
  BY <1>19 DEF StopJoin
<1>20. ASSUME NEW s \in Stoppers, StopWait(s)
      PROVE  QuietCommit'
  BY <1>20 DEF StopWait
<1> QED  BY NextCases, <1>1, <1>2, <1>3, <1>4, <1>5, <1>6, <1>7, <1>8, <1>9, <1>10, <1>11,
         <1>12, <1>13, <1>14, <1>15, <1>16, <1>17, <1>18, <1>19, <1>20

\* Nobody takes or queues an operation while a worker ends the frame.
LEMMA AloneKept ==
  ASSUME FramesInv, [Next]_vars
  PROVE  LastAlone'
<1> USE ThreadsAssumption, PlaceOf, ActiveAt DEF FramesInv, Threads, Places, frameVars,
         lockVars, opsVars, stateVars, userVars, GoTo, LastAlone, QueueHeld, Idle, QuietCommit
<1>1. CASE UNCHANGED vars
  BY <1>1 DEF vars
<1>2. CASE Draw
  BY <1>2 DEF Draw
<1>3. CASE RemoveBuffer
  BY <1>3 DEF RemoveBuffer
<1>4. ASSUME NEW t \in Workers \cup Renderers, EndLock(t)
      PROVE  LastAlone'
  BY <1>4 DEF EndLock, Caller
<1>5. ASSUME NEW t \in Workers \cup Renderers, EndDefer(t)
      PROVE  LastAlone'
  BY <1>5 DEF EndDefer, Caller, Defer
<1>6. ASSUME NEW t \in Workers \cup Renderers, EndCommit(t)
      PROVE  LastAlone'
  BY <1>6 DEF EndCommit, Caller, Send
<1>7. ASSUME NEW t \in Workers \cup Renderers, EndApply(t)
      PROVE  LastAlone'
  BY <1>7 DEF EndApply, Enqueue, Send
<1>8. ASSUME NEW t \in Workers \cup Renderers, EndNop(t)
      PROVE  LastAlone'
  BY <1>8 DEF EndNop, Enqueue, Caller
<1>9. ASSUME NEW w \in Workers, Dequeue(w)
      PROVE  LastAlone'
  BY <1>9 DEF Dequeue
<1>10. ASSUME NEW w \in Workers, MarkInProgress(w)
      PROVE  LastAlone'
  BY <1>10 DEF MarkInProgress
<1>11. ASSUME NEW w \in Workers, ReadLock(w)
      PROVE  LastAlone'
  BY <1>11 DEF ReadLock
<1>12. ASSUME NEW w \in Workers, Encode(w)
      PROVE  LastAlone'
  BY <1>12 DEF Encode, Send
<1>13. ASSUME NEW w \in Workers, Finish(w)
      PROVE  LastAlone'
  <2>1. CASE LastWorker
    <3>1. /\ Active = {w} /\ Active' = {w} /\ ops' = << >>
          /\ \A v \in Workers \ {w} : pc'[v] = pc[v]
      BY <1>13, <2>1, ActiveAt DEF Finish, LastWorker
    <3>2. \A v \in Workers : pc[v] = "endframe" => v \in Active
      BY DEF Active
    <3> QED  BY <3>1, <3>2
  <2>2. CASE ~LastWorker
    BY <1>13, <2>2 DEF Finish
  <2> QED  BY <2>1, <2>2
<1>14. ASSUME NEW w \in Workers, EndOfFrame(w)
      PROVE  LastAlone'
  BY <1>14 DEF EndOfFrame
<1>15. CASE DupLock
  BY <1>15 DEF DupLock
<1>16. CASE DupWait
  BY <1>16 DEF DupWait
<1>17. CASE DupDone
  BY <1>17 DEF DupDone, Unsent
<1>18. ASSUME NEW s \in Stoppers, StopInvalidate(s)
      PROVE  LastAlone'
  BY <1>18 DEF StopInvalidate
<1>19. ASSUME NEW s \in Stoppers, StopJoin(s)
      PROVE  LastAlone'
  BY <1>19 DEF StopJoin
<1>20. ASSUME NEW s \in Stoppers, StopWait(s)
      PROVE  LastAlone'
  BY <1>20 DEF StopWait
<1> QED  BY NextCases, <1>1, <1>2, <1>3, <1>4, <1>5, <1>6, <1>7, <1>8, <1>9, <1>10, <1>11,
         <1>12, <1>13, <1>14, <1>15, <1>16, <1>17, <1>18, <1>19, <1>20

\* A worker that finishes leaves the end of the frame to another, or ends it.
LEMMA ProgressKept ==
  ASSUME FramesInv, [Next]_vars
  PROVE  ProgressEnds'
<1> USE ThreadsAssumption, PlaceOf, ActiveAt DEF FramesInv, Threads, Places, frameVars,
         lockVars, opsVars, stateVars, userVars, GoTo, ProgressEnds, Idle
<1>1. CASE UNCHANGED vars
  BY <1>1 DEF vars
<1>2. CASE Draw
  BY <1>2 DEF Draw
<1>3. CASE RemoveBuffer
  BY <1>3 DEF RemoveBuffer
<1>4. ASSUME NEW t \in Workers \cup Renderers, EndLock(t)
      PROVE  ProgressEnds'
  BY <1>4 DEF EndLock, Caller
<1>5. ASSUME NEW t \in Workers \cup Renderers, EndDefer(t)
      PROVE  ProgressEnds'
  BY <1>5 DEF EndDefer, Caller, Defer
<1>6. ASSUME NEW t \in Workers \cup Renderers, EndCommit(t)
      PROVE  ProgressEnds'
  BY <1>6 DEF EndCommit, Caller, Send
<1>7. ASSUME NEW t \in Workers \cup Renderers, EndApply(t)
      PROVE  ProgressEnds'
  BY <1>7 DEF QuietCommit, EndApply, Enqueue, Send
<1>8. ASSUME NEW t \in Workers \cup Renderers, EndNop(t)
      PROVE  ProgressEnds'
  <2>1. ops # << >> => ops' # << >>
    BY <1>8, Queued DEF EndNop, TypeOK, IMG, NOP
  <2> QED  BY <1>8, <2>1 DEF EndNop
<1>9. ASSUME NEW w \in Workers, Dequeue(w)
      PROVE  ProgressEnds'
  BY <1>9 DEF Dequeue
<1>10. ASSUME NEW w \in Workers, MarkInProgress(w)
      PROVE  ProgressEnds'
  <2>1. Active' # {}
    BY <1>10
  <2> QED  BY <1>10, <2>1 DEF MarkInProgress
<1>11. ASSUME NEW w \in Workers, ReadLock(w)
      PROVE  ProgressEnds'
  BY <1>11 DEF ReadLock
<1>12. ASSUME NEW w \in Workers, Encode(w)
      PROVE  ProgressEnds'
  BY <1>12 DEF Encode, Send
<1>13. ASSUME NEW w \in Workers, Finish(w)
      PROVE  ProgressEnds'
  <2>1. CASE LastWorker
    BY <1>13, <2>1 DEF Finish, Send
  <2>2. CASE ~LastWorker
    BY <1>13, <2>2 DEF Finish
  <2> QED  BY <2>1, <2>2
<1>14. ASSUME NEW w \in Workers, EndOfFrame(w)
      PROVE  ProgressEnds'
  BY <1>14 DEF EndOfFrame
<1>15. CASE DupLock
  BY <1>15 DEF DupLock
<1>16. CASE DupWait
  BY <1>16 DEF DupWait
<1>17. CASE DupDone
  BY <1>17 DEF DupDone, Unsent
<1>18. ASSUME NEW s \in Stoppers, StopInvalidate(s)
      PROVE  ProgressEnds'
  BY <1>18 DEF StopInvalidate
<1>19. ASSUME NEW s \in Stoppers, StopJoin(s)
      PROVE  ProgressEnds'
  BY <1>19 DEF StopJoin
<1>20. ASSUME NEW s \in Stoppers, StopWait(s)
      PROVE  ProgressEnds'
  BY <1>20 DEF StopWait
<1> QED  BY NextCases, <1>1, <1>2, <1>3, <1>4, <1>5, <1>6, <1>7, <1>8, <1>9, <1>10, <1>11,
         <1>12, <1>13, <1>14, <1>15, <1>16, <1>17, <1>18, <1>19, <1>20

\* Versions of frames only grow.
LEMMA OrderKept ==
  ASSUME FramesInv, [Next]_vars
  PROVE  FramesOrdered'
<1>rest. ASSUME NEW t \in Threads, NEW l, l # "apply", GoTo(t, l),
                shown' = shown, last_frame' = last_frame,
                pending_frame' = pending_frame, joined' = joined
         PROVE  FramesOrdered'
  <2>1. FramesOrdered /\ pc \in [Threads -> Labels]
    BY DEF FramesInv, TypeOK
  <2> QED  BY <1>rest, <2>1 DEF FramesOrdered, GoTo
<1>ends. ASSUME NEW t \in Threads, NEW l, GoTo(t, l), \A x \in Threads : pc[x] # "apply",
                shown' = last_frame, last_frame' = last_frame,
                pending_frame' = pending_frame, joined' = joined, l # "apply"
         PROVE  FramesOrdered'
  <2>1. FramesOrdered /\ pc \in [Threads -> Labels] /\ last_frame \in Int
    BY DEF FramesInv, TypeOK
  <2> QED  BY <1>ends, <2>1 DEF FramesOrdered, GoTo
<1> USE ThreadsAssumption, PlaceOf, ActiveAt, BoundsAssumption DEF FramesInv, Threads, Places,
         frameVars, lockVars, opsVars, stateVars, userVars, GoTo, TypeOK, FramesOrdered,
         PendingHeld
<1>1. CASE UNCHANGED vars
  BY <1>1 DEF vars
<1>2. CASE Draw
  BY <1>2 DEF Draw
<1>3. CASE RemoveBuffer
  BY <1>3 DEF RemoveBuffer
<1>4. ASSUME NEW t \in Workers \cup Renderers, EndLock(t)
      PROVE  FramesOrdered'
  BY <1>4 DEF EndLock, Caller
<1>5. ASSUME NEW t \in Workers \cup Renderers, EndDefer(t)
      PROVE  FramesOrdered'
  BY <1>5 DEF EndDefer, Caller, Defer
<1>6. ASSUME NEW t \in Workers \cup Renderers, EndCommit(t)
      PROVE  FramesOrdered'
  <2>1. PICK l \in {"spin", Caller(t), "apply"} :
           /\ GoTo(t, l)
           /\ l = "apply" => last_frame' = pending_frame /\ last_frame # pending_frame
           /\ l # "apply" => last_frame' = last_frame
    BY <1>6, CommitMoves
  <2>2. shown' = shown /\ pending_frame' = pending_frame /\ joined' = joined
    BY <1>6 DEF EndCommit, Send
  <2>3. /\ {shown, last_frame, pending_frame} \subseteq Nat /\ joined \in Int
        /\ shown <= last_frame /\ last_frame <= pending_frame /\ joined <= last_frame
    OBVIOUS
  <2>4. CASE l = "apply"
    BY <2>1, <2>2, <2>3, <2>4
  <2>5. CASE l # "apply"
    BY <1>rest, <2>1, <2>2, <2>5
  <2> QED  BY <2>4, <2>5
<1>7. ASSUME NEW t \in Workers \cup Renderers, EndApply(t)
      PROVE  FramesOrdered'
  BY <1>7 DEF EndApply, Enqueue, Send
<1>8. ASSUME NEW t \in Workers \cup Renderers, EndNop(t)
      PROVE  FramesOrdered'
  BY <1>8 DEF EndNop, Enqueue, Caller
<1>9. ASSUME NEW w \in Workers, Dequeue(w)
      PROVE  FramesOrdered'
  <2>1. \E l \in {"done", "mark"} : GoTo(w, l)
    BY <1>9 DEF Dequeue
  <2>2. UNCHANGED <<frameVars, userVars>>
    BY <1>9 DEF Dequeue
  <2> QED  BY <1>rest, <2>1, <2>2
<1>10. ASSUME NEW w \in Workers, MarkInProgress(w)
      PROVE  FramesOrdered'
  BY <1>10 DEF MarkInProgress
<1>11. ASSUME NEW w \in Workers, ReadLock(w)
      PROVE  FramesOrdered'
  BY <1>11 DEF ReadLock
<1>12. ASSUME NEW w \in Workers, Encode(w)
      PROVE  FramesOrdered'
  BY <1>12 DEF Encode, Send
<1>13. ASSUME NEW w \in Workers, Finish(w)
      PROVE  FramesOrdered'
  <2>1. CASE LastWorker
    <3>1. \A t \in Threads : pc[t] # "apply"
      BY <1>13, <2>1, ActiveAt DEF QuietCommit, Idle
    <3>2. /\ shown' = last_frame /\ joined' = joined /\ last_frame' = last_frame
          /\ pending_frame' = pending_frame
      BY <1>13, <2>1 DEF Finish, Send
    <3>3. GoTo(w, "endframe")
      BY <1>13, <2>1 DEF Finish
    <3> QED  BY <1>ends, <3>1, <3>2, <3>3
  <2>2. CASE ~LastWorker
    <3>1. GoTo(w, "dequeue") /\ shown' = shown /\ joined' = joined
      BY <1>13, <2>2 DEF Finish
    <3>2. last_frame' = last_frame /\ pending_frame' = pending_frame
      BY <1>13 DEF Finish
    <3> QED  BY <1>rest, <3>1, <3>2
  <2> QED  BY <2>1, <2>2
<1>14. ASSUME NEW w \in Workers, EndOfFrame(w)
      PROVE  FramesOrdered'
  <2>1. \E l \in {"end", "dequeue"} : GoTo(w, l)
    BY <1>14 DEF EndOfFrame
  <2>2. UNCHANGED <<frameVars, userVars>>
    BY <1>14 DEF EndOfFrame
  <2> QED  BY <1>rest, <2>1, <2>2
<1>15. CASE DupLock
  BY <1>15 DEF DupLock
<1>16. CASE DupWait
  BY <1>16 DEF DupWait
<1>17. CASE DupDone
  <2>1. /\ GoTo(Dup, "done") /\ joined' = last_frame
        /\ shown' = shown /\ last_frame' = last_frame /\ pending_frame' = pending_frame
    BY <1>17 DEF DupDone
  <2>2. \A t \in Threads : pc'[t] = "apply" => pc[t] = "apply"
    BY <2>1
  <2> QED  BY <2>1, <2>2
<1>18. ASSUME NEW s \in Stoppers, StopInvalidate(s)
      PROVE  FramesOrdered'
  BY <1>18 DEF StopInvalidate
<1>19. ASSUME NEW s \in Stoppers, StopJoin(s)
      PROVE  FramesOrdered'
  BY <1>19 DEF StopJoin
<1>20. ASSUME NEW s \in Stoppers, StopWait(s)
      PROVE  FramesOrdered'
  BY <1>20 DEF StopWait
<1> QED  BY NextCases, <1>1, <1>2, <1>3, <1>4, <1>5, <1>6, <1>7, <1>8, <1>9, <1>10, <1>11,
         <1>12, <1>13, <1>14, <1>15, <1>16, <1>17, <1>18, <1>19, <1>20

\* A frame is deferred to a worker that has yet to look at frame_deferred.
LEMMA DeferredKept ==
  ASSUME FramesInv, [Next]_vars
  PROVE  DeferredIsRemembered'
<1> USE ThreadsAssumption, PlaceOf, ActiveAt, ActiveFinite DEF FramesInv, Threads, Places,
         frameVars, lockVars, opsVars, stateVars, userVars, GoTo, DeferredIsRemembered, QueueHeld
<1>1. CASE UNCHANGED vars
  BY <1>1 DEF vars
<1>2. CASE Draw
  BY <1>2 DEF Draw
<1>3. CASE RemoveBuffer
  BY <1>3 DEF RemoveBuffer
<1>4. ASSUME NEW t \in Workers \cup Renderers, EndLock(t)
      PROVE  DeferredIsRemembered'
  BY <1>4 DEF EndLock, Caller
<1>5. ASSUME NEW t \in Workers \cup Renderers, EndDefer(t)
      PROVE  DeferredIsRemembered'
  BY <1>5 DEF EndDefer, Caller, Defer
<1>6. ASSUME NEW t \in Workers \cup Renderers, EndCommit(t)
      PROVE  DeferredIsRemembered'
  BY <1>6 DEF EndCommit, Caller, Send
<1>7. ASSUME NEW t \in Workers \cup Renderers, EndApply(t)
      PROVE  DeferredIsRemembered'
  BY <1>7 DEF EndApply, Enqueue, Send
<1>8. ASSUME NEW t \in Workers \cup Renderers, EndNop(t)
      PROVE  DeferredIsRemembered'
  BY <1>8 DEF EndNop, Enqueue, Caller
<1>9. ASSUME NEW w \in Workers, Dequeue(w)
      PROVE  DeferredIsRemembered'
  BY <1>9 DEF Dequeue
<1>10. ASSUME NEW w \in Workers, MarkInProgress(w)
      PROVE  DeferredIsRemembered'
  BY <1>10 DEF MarkInProgress
<1>11. ASSUME NEW w \in Workers, ReadLock(w)
      PROVE  DeferredIsRemembered'
  BY <1>11 DEF ReadLock
<1>12. ASSUME NEW w \in Workers, Encode(w)
      PROVE  DeferredIsRemembered'
  BY <1>12 DEF Encode, Send
<1>13. ASSUME NEW w \in Workers, Finish(w)
      PROVE  DeferredIsRemembered'
  <2>1. CASE LastWorker
    BY <1>13, <2>1 DEF Finish, Send
  <2>2. CASE ~LastWorker
    BY <1>13, <2>2 DEF Finish
  <2> QED  BY <2>1, <2>2
<1>14. ASSUME NEW w \in Workers, EndOfFrame(w)
      PROVE  DeferredIsRemembered'
  BY <1>14 DEF EndOfFrame
<1>15. CASE DupLock
  BY <1>15 DEF DupLock
<1>16. CASE DupWait
  BY <1>16 DEF DupWait
<1>17. CASE DupDone
  BY <1>17 DEF DupDone, Unsent
<1>18. ASSUME NEW s \in Stoppers, StopInvalidate(s)
      PROVE  DeferredIsRemembered'
  BY <1>18 DEF StopInvalidate
<1>19. ASSUME NEW s \in Stoppers, StopJoin(s)
      PROVE  DeferredIsRemembered'
  BY <1>19 DEF StopJoin
<1>20. ASSUME NEW s \in Stoppers, StopWait(s)
      PROVE  DeferredIsRemembered'
  BY <1>20 DEF StopWait
<1> QED  BY NextCases, <1>1, <1>2, <1>3, <1>4, <1>5, <1>6, <1>7, <1>8, <1>9, <1>10, <1>11,
         <1>12, <1>13, <1>14, <1>15, <1>16, <1>17, <1>18, <1>19, <1>20

\* A frame is committed only when all images of the one before are encoded.
LEMMA OpsKept ==
  ASSUME FramesInv, [Next]_vars
  PROVE  OpsMatchFrame'
<1> USE ThreadsAssumption, PlaceOf, ActiveAt DEF FramesInv, Threads, Places, frameVars,
         lockVars, opsVars, stateVars, userVars, GoTo, OpsMatchFrame, Encoding
<1>1. CASE UNCHANGED vars
  BY <1>1 DEF vars
<1>2. CASE Draw
  BY <1>2 DEF Draw
<1>3. CASE RemoveBuffer
  BY <1>3 DEF RemoveBuffer
<1>4. ASSUME NEW t \in Workers \cup Renderers, EndLock(t)
      PROVE  OpsMatchFrame'
  BY <1>4 DEF EndLock, Caller
<1>5. ASSUME NEW t \in Workers \cup Renderers, EndDefer(t)
      PROVE  OpsMatchFrame'
  BY <1>5 DEF EndDefer, Caller, Defer
<1>6. ASSUME NEW t \in Workers \cup Renderers, EndCommit(t)
      PROVE  OpsMatchFrame'
  <2>1. Idle /\ ops' = << >>
    BY <1>6 DEF EndCommit, QuietCommit, Idle
  <2>2. \A w \in Workers : ~Encoding(w)'
    <3>1. \A w \in Workers : ~Encoding(w)
      BY <2>1 DEF Idle, Active, Encoding
    <3> QED  BY <1>6, <3>1, CommitMoves DEF Caller, Encoding
  <2> QED  BY <2>1, <2>2, Empty
<1>7. ASSUME NEW t \in Workers \cup Renderers, EndApply(t)
      PROVE  OpsMatchFrame'
  <2>1. /\ \A o \in ToSet(ops') : \/ o \in ToSet(ops)
                                 \/ o = [type |-> IMG, frame |-> last_frame]
        /\ last_frame' = last_frame /\ shown' = shown /\ op' = op
        /\ pc' = [pc EXCEPT ![t] = "nop"] /\ pc[t] = "apply"
    BY <1>7, Queued DEF EndApply, TypeOK, IMG, NOP
  <2>2. shown < last_frame /\ {shown, last_frame} \subseteq Int
    BY <1>7 DEF EndApply, TypeOK, FramesOrdered
  <2> QED  BY <2>1, <2>2
<1>8. ASSUME NEW t \in Workers \cup Renderers, EndNop(t)
      PROVE  OpsMatchFrame'
  <2>1. /\ \A o \in ToSet(ops') : \/ o \in ToSet(ops)
                                 \/ o = [type |-> NOP, frame |-> last_frame]
        /\ last_frame' = last_frame /\ shown' = shown /\ op' = op
        /\ pc' = [pc EXCEPT ![t] = Caller(t)]
    BY <1>8, Queued DEF EndNop, TypeOK, IMG, NOP
  <2>2. \A w \in Workers : Encoding(w)' => Encoding(w)
    BY <2>1 DEF Encoding, Caller
  <2> QED  BY <2>1, <2>2
<1>9. ASSUME NEW w \in Workers, Dequeue(w)
      PROVE  OpsMatchFrame'
  <2>1. CASE ~ops_valid
    BY <1>9, <2>1 DEF Dequeue
  <2>2. CASE ops_valid
    <3>1. /\ \A o \in ToSet(ops') : o \in ToSet(ops)
          /\ Head(ops) \in ToSet(ops) /\ op' = [op EXCEPT ![w] = Head(ops)]
          /\ op \in [Workers -> Operation]
          /\ pc' = [pc EXCEPT ![w] = "mark"]
          /\ last_frame' = last_frame /\ shown' = shown
      BY <1>9, <2>2, Taken DEF Dequeue, TypeOK
    <3> QED  BY <3>1
  <2> QED  BY <2>1, <2>2
<1>10. ASSUME NEW w \in Workers, MarkInProgress(w)
      PROVE  OpsMatchFrame'
  BY <1>10 DEF MarkInProgress
<1>11. ASSUME NEW w \in Workers, ReadLock(w)
      PROVE  OpsMatchFrame'
  BY <1>11 DEF ReadLock
<1>12. ASSUME NEW w \in Workers, Encode(w)
      PROVE  OpsMatchFrame'
  BY <1>12 DEF Encode, Send
<1>13. ASSUME NEW w \in Workers, Finish(w)
      PROVE  OpsMatchFrame'
  <2>1. CASE LastWorker
    BY <1>13, <2>1 DEF Finish, Send
  <2>2. CASE ~LastWorker
    BY <1>13, <2>2 DEF Finish
  <2> QED  BY <2>1, <2>2
<1>14. ASSUME NEW w \in Workers, EndOfFrame(w)
      PROVE  OpsMatchFrame'
  BY <1>14 DEF EndOfFrame
<1>15. CASE DupLock
  BY <1>15 DEF DupLock
<1>16. CASE DupWait
  BY <1>16 DEF DupWait
<1>17. CASE DupDone
  BY <1>17 DEF DupDone, Unsent
<1>18. ASSUME NEW s \in Stoppers, StopInvalidate(s)
      PROVE  OpsMatchFrame'
  BY <1>18 DEF StopInvalidate
<1>19. ASSUME NEW s \in Stoppers, StopJoin(s)
      PROVE  OpsMatchFrame'
  BY <1>19 DEF StopJoin
<1>20. ASSUME NEW s \in Stoppers, StopWait(s)
      PROVE  OpsMatchFrame'
  BY <1>20 DEF StopWait
<1> QED  BY NextCases, <1>1, <1>2, <1>3, <1>4, <1>5, <1>6, <1>7, <1>8, <1>9, <1>10, <1>11,
         <1>12, <1>13, <1>14, <1>15, <1>16, <1>17, <1>18, <1>19, <1>20

\* The end of a frame is sent when no image of it is left.
LEMMA SyncKept ==
  ASSUME FramesInv, [Next]_vars
  PROVE  SyncAfterImages'
<1> USE ThreadsAssumption, PlaceOf, ActiveAt DEF FramesInv, Threads, Places, frameVars,
         lockVars, opsVars, stateVars, userVars, GoTo, SyncAfterImages, Encoding,
         FramesOrdered, IMG, NOP
<1>1. CASE UNCHANGED vars
  BY <1>1 DEF vars
<1>2. CASE Draw
  BY <1>2 DEF Draw
<1>3. CASE RemoveBuffer
  BY <1>3 DEF RemoveBuffer
<1>4. ASSUME NEW t \in Workers \cup Renderers, EndLock(t)
      PROVE  SyncAfterImages'
  BY <1>4 DEF EndLock, Caller
<1>5. ASSUME NEW t \in Workers \cup Renderers, EndDefer(t)
      PROVE  SyncAfterImages'
  BY <1>5 DEF EndDefer, Caller, Defer
<1>6. ASSUME NEW t \in Workers \cup Renderers, EndCommit(t)
      PROVE  SyncAfterImages'
  <2>1. Idle /\ ops' = << >>
    BY <1>6 DEF EndCommit, QuietCommit, Idle
  <2>2. \A w \in Workers : ~Encoding(w)'
    <3>1. \A w \in Workers : ~Encoding(w)
      BY <2>1 DEF Idle, Active, Encoding
    <3> QED  BY <1>6, <3>1, CommitMoves DEF Caller, Encoding
  <2> QED  BY <2>1, <2>2, Empty
<1>7. ASSUME NEW t \in Workers \cup Renderers, EndApply(t)
      PROVE  SyncAfterImages'
  <2>1. /\ \A o \in ToSet(ops') : \/ o \in ToSet(ops)
                                 \/ o = [type |-> IMG, frame |-> last_frame]
        /\ last_frame' = last_frame /\ shown' = shown /\ op' = op
        /\ pc' = [pc EXCEPT ![t] = "nop"] /\ pc[t] = "apply"
    BY <1>7, Queued DEF EndApply, TypeOK, IMG, NOP
  <2>2. shown < last_frame /\ {shown, last_frame} \subseteq Int
    BY <1>7 DEF EndApply, TypeOK, FramesOrdered
  <2> QED  BY <2>1, <2>2
<1>8. ASSUME NEW t \in Workers \cup Renderers, EndNop(t)
      PROVE  SyncAfterImages'
  <2>1. /\ \A o \in ToSet(ops') : \/ o \in ToSet(ops)
                                 \/ o = [type |-> NOP, frame |-> last_frame]
        /\ last_frame' = last_frame /\ shown' = shown /\ op' = op
        /\ pc' = [pc EXCEPT ![t] = Caller(t)]
    BY <1>8, Queued DEF EndNop, TypeOK, IMG, NOP
  <2>2. \A w \in Workers : Encoding(w)' => Encoding(w)
    BY <2>1 DEF Encoding, Caller
  <2> QED  BY <2>1, <2>2
<1>9. ASSUME NEW w \in Workers, Dequeue(w)
      PROVE  SyncAfterImages'
  <2>1. CASE ~ops_valid
    BY <1>9, <2>1 DEF Dequeue
  <2>2. CASE ops_valid
    <3>1. /\ \A o \in ToSet(ops') : o \in ToSet(ops)
          /\ Head(ops) \in ToSet(ops) /\ op' = [op EXCEPT ![w] = Head(ops)]
          /\ op \in [Workers -> Operation]
          /\ pc' = [pc EXCEPT ![w] = "mark"]
          /\ last_frame' = last_frame /\ shown' = shown
      BY <1>9, <2>2, Taken DEF Dequeue, TypeOK
    <3> QED  BY <3>1
  <2> QED  BY <2>1, <2>2
<1>10. ASSUME NEW w \in Workers, MarkInProgress(w)
      PROVE  SyncAfterImages'
  BY <1>10 DEF MarkInProgress
<1>11. ASSUME NEW w \in Workers, ReadLock(w)
      PROVE  SyncAfterImages'
  BY <1>11 DEF ReadLock
<1>12. ASSUME NEW w \in Workers, Encode(w)
      PROVE  SyncAfterImages'
  BY <1>12 DEF Encode, Send
<1>13. ASSUME NEW w \in Workers, Finish(w)
      PROVE  SyncAfterImages'
  <2>1. CASE LastWorker
    <3>1. Active = {w} /\ ops = << >> /\ pc[w] = "finish" /\ ops' = << >>
      BY <1>13, <2>1 DEF Finish, LastWorker
    <3>2. \A v \in Workers : pc[v] # "mark" /\ (v \in Active => pc[v] = "finish")
      BY <1>13, <3>1 DEF Finish, QueueHeld
    <3>3. \A v \in Workers : ~Encoding(v)'
      BY <1>13, <2>1, <3>1, <3>2 DEF Finish, Active
    <3> QED  BY <3>1, <3>3, Empty
  <2>2. CASE ~LastWorker
    BY <1>13, <2>2 DEF Finish
  <2> QED  BY <2>1, <2>2
<1>14. ASSUME NEW w \in Workers, EndOfFrame(w)
      PROVE  SyncAfterImages'
  BY <1>14 DEF EndOfFrame
<1>15. CASE DupLock
  BY <1>15 DEF DupLock
<1>16. CASE DupWait
  BY <1>16 DEF DupWait
<1>17. CASE DupDone
  BY <1>17 DEF DupDone, Unsent
<1>18. ASSUME NEW s \in Stoppers, StopInvalidate(s)
      PROVE  SyncAfterImages'
  BY <1>18 DEF StopInvalidate
<1>19. ASSUME NEW s \in Stoppers, StopJoin(s)
      PROVE  SyncAfterImages'
  BY <1>19 DEF StopJoin
<1>20. ASSUME NEW s \in Stoppers, StopWait(s)
      PROVE  SyncAfterImages'
  BY <1>20 DEF StopWait
<1> QED  BY NextCases, <1>1, <1>2, <1>3, <1>4, <1>5, <1>6, <1>7, <1>8, <1>9, <1>10, <1>11,
         <1>12, <1>13, <1>14, <1>15, <1>16, <1>17, <1>18, <1>19, <1>20

\* An instruction of a frame of which something remained to be sent.
LEMMA SendsRest ==
  ASSUME FramesInv, Send(last_frame), last_frame' = last_frame, pc'[Dup] = pc[Dup],
         joined # last_frame \/ unsent
  PROVE  JoinedWhole'
<1>1. {joined, last_frame} \subseteq Int /\ joined <= last_frame /\ last_frame >= 0
  BY DEF FramesInv, TypeOK, FramesOrdered
<1>2. late' = (late \/ last_frame <= joined) /\ joined' = joined /\ unsent' = unsent
  BY DEF Send
<1>3. last_frame <= joined => unsent
  BY <1>1
<1>4. joined = -1 => ~(last_frame <= joined)
  BY <1>1
<1> QED  BY <1>2, <1>3, <1>4 DEF FramesInv, JoinedWhole

\* A user that joins gets a frame as a whole, or is known not to.
LEMMA JoinedKept ==
  ASSUME FramesInv, [Next]_vars
  PROVE  JoinedWhole'
<1> USE ThreadsAssumption, PlaceOf, ActiveAt DEF FramesInv, Threads, Places, frameVars,
         lockVars, opsVars, stateVars, userVars, GoTo, JoinedWhole, Idle, FramesOrdered,
         OpsMatchFrame, Encoding, ProgressEnds
<1>1. CASE UNCHANGED vars
  BY <1>1 DEF vars
<1>2. CASE Draw
  BY <1>2 DEF Draw
<1>3. CASE RemoveBuffer
  BY <1>3 DEF RemoveBuffer
<1>4. ASSUME NEW t \in Workers \cup Renderers, EndLock(t)
      PROVE  JoinedWhole'
  BY <1>4 DEF EndLock, Caller
<1>5. ASSUME NEW t \in Workers \cup Renderers, EndDefer(t)
      PROVE  JoinedWhole'
  BY <1>5 DEF EndDefer, Caller, Defer
<1>6. ASSUME NEW t \in Workers \cup Renderers, EndCommit(t)
      PROVE  JoinedWhole'
  <2>1. /\ pc[Dup]' = pc[Dup] /\ joined' = joined /\ unsent' = unsent
        /\ {joined, last_frame, pending_frame} \subseteq Int
    BY <1>6 DEF EndCommit, Send, TypeOK, Caller
  <2>2. Idle /\ Idle'
    BY <1>6, CommitMoves DEF EndCommit, QuietCommit, Idle, Caller
  <2>3. CASE last_frame' = pending_frame /\ last_frame # pending_frame /\ Send(pending_frame)
    <3>1. ~(pending_frame <= joined) /\ last_frame' # joined
      BY <2>1, <2>3
    <3>2. late' <=> late
      BY <2>3, <3>1 DEF Send
    <3> QED  BY <2>1, <3>1, <3>2
  <2>4. CASE /\ last_frame' = last_frame /\ userVars' = userVars
             /\ \E l \in {"spin", Caller(t)} : GoTo(t, l)
    BY <2>1, <2>2, <2>4 DEF Caller
  <2> QED  BY <1>6, <2>3, <2>4, CommitMoves
<1>7. ASSUME NEW t \in Workers \cup Renderers, EndApply(t)
      PROVE  JoinedWhole'
  <2>1. joined # last_frame \/ unsent
    BY <1>7 DEF EndApply
  <2>2. Send(last_frame) /\ last_frame' = last_frame /\ pc'[Dup] = pc[Dup]
    BY <1>7 DEF EndApply
  <2> QED  BY <2>1, <2>2, SendsRest
<1>8. ASSUME NEW t \in Workers \cup Renderers, EndNop(t)
      PROVE  JoinedWhole'
  BY <1>8 DEF EndNop, Enqueue, Caller
<1>9. ASSUME NEW w \in Workers, Dequeue(w)
      PROVE  JoinedWhole'
  BY <1>9 DEF Dequeue
<1>10. ASSUME NEW w \in Workers, MarkInProgress(w)
      PROVE  JoinedWhole'
  BY <1>10 DEF MarkInProgress
<1>11. ASSUME NEW w \in Workers, ReadLock(w)
      PROVE  JoinedWhole'
  BY <1>11 DEF ReadLock
<1>12. ASSUME NEW w \in Workers, Encode(w)
      PROVE  JoinedWhole'
  <2>1. w \in Active
    BY <1>12 DEF Encode, Active
  <2>2. joined # last_frame \/ unsent
    BY <2>1
  <2>3. last_frame' = last_frame /\ pc'[Dup] = pc[Dup] /\ op[w].frame = last_frame
    BY <1>12 DEF Encode
  <2>4. CASE op[w].type = IMG
    <3>1. Send(last_frame)
      BY <1>12, <2>3, <2>4 DEF Encode
    <3> QED  BY <2>2, <2>3, <3>1, SendsRest
  <2>5. CASE op[w].type # IMG
    BY <1>12, <2>2, <2>3, <2>5 DEF Encode
  <2> QED  BY <2>4, <2>5
<1>13. ASSUME NEW w \in Workers, Finish(w)
      PROVE  JoinedWhole'
  <2>1. w \in Active
    BY <1>13, ActiveAt
  <2>2. joined # last_frame \/ unsent
    BY <2>1
  <2>3. last_frame' = last_frame /\ pc'[Dup] = pc[Dup]
    BY <1>13 DEF Finish
  <2>4. CASE LastWorker
    <3>1. Send(last_frame)
      BY <1>13, <2>4 DEF Finish
    <3> QED  BY <2>2, <2>3, <3>1, SendsRest
  <2>5. CASE ~LastWorker
    BY <1>13, <2>2, <2>3, <2>5 DEF Finish
  <2> QED  BY <2>4, <2>5
<1>14. ASSUME NEW w \in Workers, EndOfFrame(w)
      PROVE  JoinedWhole'
  BY <1>14 DEF EndOfFrame
<1>15. CASE DupLock
  BY <1>15 DEF DupLock
<1>16. CASE DupWait
  BY <1>16 DEF DupWait
<1>17. CASE DupDone
  <2>1. ~late /\ Active = {}
    BY <1>17 DEF DupDone, RenderHeld
  <2>2. /\ pc'[Dup] = "done" /\ unsent' = Unsent /\ late' = late /\ ops' = ops
        /\ \A t \in Threads \ {Dup} : pc'[t] = pc[t]
    BY <1>17 DEF DupDone
  <2>3. Active' = {}
    BY <1>17, <2>1
  <2> QED  BY <2>1, <2>2, <2>3 DEF Unsent
<1>18. ASSUME NEW s \in Stoppers, StopInvalidate(s)
      PROVE  JoinedWhole'
  BY <1>18 DEF StopInvalidate
<1>19. ASSUME NEW s \in Stoppers, StopJoin(s)
      PROVE  JoinedWhole'
  BY <1>19 DEF StopJoin
<1>20. ASSUME NEW s \in Stoppers, StopWait(s)
      PROVE  JoinedWhole'
  BY <1>20 DEF StopWait
<1> QED  BY NextCases, <1>1, <1>2, <1>3, <1>4, <1>5, <1>6, <1>7, <1>8, <1>9, <1>10, <1>11,
         <1>12, <1>13, <1>14, <1>15, <1>16, <1>17, <1>18, <1>19, <1>20

\* Every variable keeps its type; for the count of active workers this is a fact about
\* sets.
LEMMA TypeKept ==
  ASSUME FramesInv, [Next]_vars
  PROVE  TypeOK'
<1>active. active_workers' \in 0 .. Cardinality(Workers)
  <2>1. active_workers' = Cardinality(Active') /\ Active' \subseteq Workers
    BY ActiveKept DEF ActiveCounted, Active
  <2>2. /\ IsFiniteSet(Active') /\ Cardinality(Active') <= Cardinality(Workers)
    BY <2>1, FS_Subset, ThreadsAssumption
  <2> QED  BY <2>1, <2>2, FS_CardinalityType, ThreadsAssumption
<1> USE ThreadsAssumption, BoundsAssumption DEF FramesInv, Threads, Labels, frameVars,
         lockVars, opsVars, stateVars, userVars, GoTo
<1>1. CASE UNCHANGED vars
  BY <1>1, <1>active DEF vars, TypeOK
<1>2. CASE Draw
  BY <1>2, <1>active DEF Draw, TypeOK
<1>3. CASE RemoveBuffer
  BY <1>3, <1>active DEF RemoveBuffer, TypeOK
<1>4. ASSUME NEW t \in Workers \cup Renderers, EndLock(t)
      PROVE  TypeOK'
  <2>0. TypeOK /\ pc \in [Threads -> Labels]
    BY DEF TypeOK
  <2>1. pc' \in [Threads -> Labels]
    BY <1>4, <2>0 DEF EndLock
  <2> QED  BY <1>4, <1>active, <2>0, <2>1, SMTT(20) DEF EndLock, TypeOK
<1>5. ASSUME NEW t \in Workers \cup Renderers, EndDefer(t)
      PROVE  TypeOK'
  <2>0. TypeOK /\ pc \in [Threads -> Labels]
    BY DEF TypeOK
  <2>1. pc' \in [Threads -> Labels]
    BY <1>5, <2>0 DEF EndDefer, Caller
  <2>2. pending_lock' \in Threads \cup {NoThread}
    BY <1>5, <2>0 DEF EndDefer, TypeOK
  <2>3. frame_deferred' \in BOOLEAN
    BY <1>5 DEF EndDefer, Defer
  <2> QED  BY <1>5, <1>active, <2>0, <2>1, <2>2, <2>3, SMTT(20) DEF EndDefer, TypeOK
<1>6. ASSUME NEW t \in Workers \cup Renderers, EndCommit(t)
      PROVE  TypeOK'
  <2>0. TypeOK /\ pc \in [Threads -> Labels]
    BY DEF TypeOK
  <2>1. pc' \in [Threads -> Labels]
    BY <1>6, CommitMoves, <2>0 DEF Caller
  <2>2. last_frame' \in 0 .. MaxDraws /\ last_layers' \in BOOLEAN
    <3>1. /\ last_frame \in 0 .. MaxDraws /\ pending_frame \in 0 .. MaxDraws
          /\ last_layers \in BOOLEAN
      BY <2>0 DEF TypeOK
    <3>2. last_frame' \in {last_frame, pending_frame}
      BY <1>6 DEF EndCommit
    <3>3. last_layers' \in BOOLEAN
      BY <1>6, <3>1 DEF EndCommit
    <3> QED  BY <3>1, <3>2, <3>3
  <2>3. images \in [Threads -> 0 .. MaxImages]
    BY <1>6, <2>0 DEF TypeOK
  <2>4. images' \in [Threads -> 0 .. MaxImages]
    BY <1>6, <2>3 DEF EndCommit
  <2>5. joined' = joined /\ unsent' = unsent /\ late' \in BOOLEAN
    BY <1>6, <2>0 DEF EndCommit, Send, TypeOK
  <2>6. pending_lock' \in Threads \cup {NoThread}
    BY <1>6, <2>0 DEF EndCommit, TypeOK
  <2>7. last_writer' \in Threads \cup {NoThread}
    BY <1>6, <2>0 DEF EndCommit, TypeOK
  <2> HIDE DEF Labels, Threads, GoTo, FramesInv
  <2> QED  BY <1>6, <1>active, <2>0, <2>1, <2>2, <2>3, <2>4, <2>5, <2>6, <2>7,
              SMTT(20) DEF EndCommit, TypeOK
<1>7. ASSUME NEW t \in Workers \cup Renderers, EndApply(t)
      PROVE  TypeOK'
  <2>0. TypeOK /\ pc \in [Threads -> Labels]
    BY DEF TypeOK
  <2>1. ops' \in Seq(Operation)
    BY <1>7, <2>0, Queued DEF EndApply, IMG, NOP, TypeOK
  <2>2. joined' = joined /\ unsent' = unsent /\ late' \in BOOLEAN
    BY <1>7, <2>0 DEF EndApply, Send, TypeOK
  <2>3. images' \in [Threads -> 0 .. MaxImages]
    BY <1>7, <2>0 DEF EndApply, TypeOK
  <2>4. pc' \in [Threads -> Labels]
    BY <1>7, <2>0 DEF EndApply
  <2> QED  BY <1>7, <1>active, <2>0, <2>1, <2>2, <2>3, <2>4, SMTT(20) DEF EndApply, TypeOK
<1>8. ASSUME NEW t \in Workers \cup Renderers, EndNop(t)
      PROVE  TypeOK'
  <2>0. TypeOK /\ pc \in [Threads -> Labels]
    BY DEF TypeOK
  <2>1. ops' \in Seq(Operation)
    BY <1>8, <2>0, Queued DEF EndNop, IMG, NOP, TypeOK
  <2>2. pc' \in [Threads -> Labels]
    BY <1>8, <2>0 DEF EndNop, Caller
  <2> QED  BY <1>8, <1>active, <2>0, <2>1, <2>2, SMTT(20) DEF EndNop, TypeOK
<1>9. ASSUME NEW w \in Workers, Dequeue(w)
      PROVE  TypeOK'
  <2>0. TypeOK /\ pc \in [Threads -> Labels]
    BY DEF TypeOK
  <2>1. pc' \in [Threads -> Labels]
    BY <1>9, <2>0 DEF Dequeue
  <2>2. ops' \in Seq(Operation)
    BY <1>9, <2>0, Taken DEF Dequeue, TypeOK
  <2>3. op' \in [Workers -> Operation]
    <3>1. op \in [Workers -> Operation]
      BY <2>0 DEF TypeOK
    <3>2. op' = op \/ (ops # << >> /\ op' = [op EXCEPT ![w] = Head(ops)])
      BY <1>9 DEF Dequeue
    <3>3. ops # << >> => Head(ops) \in Operation
      BY <2>0, Taken DEF TypeOK
    <3> QED  BY <3>1, <3>2, <3>3
  <2>4. ops_lock' \in Workers \cup {NoThread}
    BY <1>9, <2>0 DEF Dequeue, TypeOK
  <2> QED  BY <1>9, <1>active, <2>0, <2>1, <2>2, <2>3, <2>4, SMTT(20) DEF Dequeue, TypeOK
<1>10. ASSUME NEW w \in Workers, MarkInProgress(w)
      PROVE  TypeOK'
  <2>0. TypeOK /\ pc \in [Threads -> Labels]
    BY DEF TypeOK
  <2>1. pc' \in [Threads -> Labels]
    BY <1>10, <2>0 DEF MarkInProgress
  <2> HIDE DEF Labels, Threads, GoTo, FramesInv
  <2> QED  BY <1>10, <1>active, <2>0, <2>1, SMTT(20) DEF MarkInProgress, TypeOK
<1>11. ASSUME NEW w \in Workers, ReadLock(w)
      PROVE  TypeOK'
  <2>0. TypeOK /\ pc \in [Threads -> Labels]
    BY DEF TypeOK
  <2>1. pc' \in [Threads -> Labels]
    BY <1>11, <2>0 DEF ReadLock
  <2> QED  BY <1>11, <1>active, <2>0, <2>1, SMTT(20) DEF ReadLock, TypeOK
<1>12. ASSUME NEW w \in Workers, Encode(w)
      PROVE  TypeOK'
  <2>0. TypeOK /\ pc \in [Threads -> Labels]
    BY DEF TypeOK
  <2>1. pc' \in [Threads -> Labels]
    BY <1>12, <2>0 DEF Encode
  <2>2. joined' = joined /\ unsent' = unsent /\ late' \in BOOLEAN
    BY <1>12, <2>0 DEF Encode, Send, TypeOK
  <2> QED  BY <1>12, <1>active, <2>0, <2>1, <2>2, SMTT(20) DEF Encode, TypeOK
<1>13. ASSUME NEW w \in Workers, Finish(w)
      PROVE  TypeOK'
  <2>0. TypeOK /\ pc \in [Threads -> Labels]
    BY DEF TypeOK
  <2>1. pc' \in [Threads -> Labels]
    BY <1>13, <2>0 DEF Finish
  <2>2. joined' = joined /\ unsent' = unsent /\ late' \in BOOLEAN
    BY <1>13, <2>0 DEF Finish, Send, TypeOK
  <2>3. shown' \in 0 .. MaxDraws
    BY <1>13, <2>0 DEF Finish, TypeOK
  <2>4. ops_lock' \in Workers \cup {NoThread}
    BY <1>13, <2>0 DEF Finish, TypeOK
  <2>5. last_readers' \in SUBSET Threads
    BY <1>13, <2>0 DEF Finish, TypeOK
  <2> QED  BY <1>13, <1>active, <2>0, <2>1, <2>2, <2>3, <2>4, <2>5, SMTT(20) DEF Finish, TypeOK
<1>14. ASSUME NEW w \in Workers, EndOfFrame(w)
      PROVE  TypeOK'
  <2>0. TypeOK /\ pc \in [Threads -> Labels]
    BY DEF TypeOK
  <2>1. pc' \in [Threads -> Labels]
    BY <1>14, <2>0 DEF EndOfFrame
  <2>2. in_progress' \in BOOLEAN /\ ops_lock' \in Workers \cup {NoThread}
    BY <1>14 DEF EndOfFrame
  <2>3. last_readers' \in SUBSET Threads
    BY <1>14, <2>0 DEF EndOfFrame, TypeOK
  <2> HIDE DEF Labels, Threads, GoTo, FramesInv
  <2> QED  BY <1>14, <1>active, <2>0, <2>1, <2>2, <2>3, SMTT(20) DEF EndOfFrame, TypeOK
<1>15. CASE DupLock
  <2>0. TypeOK /\ pc \in [Threads -> Labels]
    BY DEF TypeOK
  <2>1. pc' \in [Threads -> Labels]
    BY <1>15, <2>0 DEF DupLock
  <2> QED  BY <1>15, <1>active, <2>0, <2>1, SMTT(20) DEF DupLock, TypeOK
<1>16. CASE DupWait
  <2>0. TypeOK /\ pc \in [Threads -> Labels]
    BY DEF TypeOK
  <2>1. pc' \in [Threads -> Labels]
    BY <1>16, <2>0 DEF DupWait
  <2> QED  BY <1>16, <1>active, <2>0, <2>1, SMTT(20) DEF DupWait, TypeOK
<1>17. CASE DupDone
  <2>0. TypeOK /\ pc \in [Threads -> Labels]
    BY DEF TypeOK
  <2>1. pc' \in [Threads -> Labels]
    BY <1>17, <2>0 DEF DupDone
  <2>2. joined' \in -1 .. MaxDraws
    BY <1>17, <2>0 DEF DupDone, TypeOK
  <2>3. unsent' \in BOOLEAN /\ render_lock' \in BOOLEAN
    BY <1>17 DEF DupDone, Unsent
  <2>4. last_readers' \in SUBSET Threads
    BY <1>17, <2>0 DEF DupDone, TypeOK
  <2> QED  BY <1>17, <1>active, <2>0, <2>1, <2>2, <2>3, <2>4, SMTT(20) DEF DupDone, TypeOK
<1>18. ASSUME NEW s \in Stoppers, StopInvalidate(s)
      PROVE  TypeOK'
  <2>0. TypeOK /\ pc \in [Threads -> Labels]
    BY DEF TypeOK
  <2>1. pc' \in [Threads -> Labels]
    BY <1>18, <2>0 DEF StopInvalidate
  <2>2. ops_valid' \in BOOLEAN
    BY <1>18 DEF StopInvalidate
  <2> HIDE DEF Labels, Threads, GoTo, FramesInv
  <2> QED  BY <1>18, <1>active, <2>0, <2>1, <2>2, SMTT(20) DEF StopInvalidate, TypeOK
<1>19. ASSUME NEW s \in Stoppers, StopJoin(s)
      PROVE  TypeOK'
  <2>0. TypeOK /\ pc \in [Threads -> Labels]
    BY DEF TypeOK
  <2>1. pc' \in [Threads -> Labels]
    BY <1>19, <2>0 DEF StopJoin
  <2> QED  BY <1>19, <1>active, <2>0, <2>1, SMTT(20) DEF StopJoin, TypeOK
<1>20. ASSUME NEW s \in Stoppers, StopWait(s)
      PROVE  TypeOK'
  <2>0. TypeOK /\ pc \in [Threads -> Labels]
    BY DEF TypeOK
  <2>1. pc' \in [Threads -> Labels]
    BY <1>20, <2>0 DEF StopWait
  <2> QED  BY <1>20, <1>active, <2>0, <2>1, SMTT(20) DEF StopWait, TypeOK
<1> QED  BY NextCases, <1>1, <1>2, <1>3, <1>4, <1>5, <1>6, <1>7, <1>8, <1>9, <1>10, <1>11,
         <1>12, <1>13, <1>14, <1>15, <1>16, <1>17, <1>18, <1>19, <1>20

-----------------------------------------------------------------------------

\* A new display has an empty plan and nothing under way
\* (guac_display_alloc()).
LEMMA FramesInit ==
  ASSUME Init
  PROVE  FramesInv
<1> USE ThreadsAssumption, BoundsAssumption, Empty DEF Init
<1>1. Active = {} /\ Cardinality({}) = 0
  BY FS_EmptySet DEF Active, Threads
<1>2. Cardinality(Workers) \in Nat
  BY FS_CardinalityType
<1>3. TypeOK
  <2>1. pc \in [Threads -> Labels]
    BY DEF Labels
  <2>2. op \in [Workers -> Operation]
    BY DEF Operation, NoOp
  <2>3. images \in [Threads -> 0 .. MaxImages]
    OBVIOUS
  <2>4. active_workers \in 0 .. Cardinality(Workers)
    BY <1>2
  <2>5. ops \in Seq(Operation)
    OBVIOUS
  <2>6. {pending_frame, last_frame, ended, shown} \subseteq 0 .. MaxDraws
    OBVIOUS
  <2>7. joined \in -1 .. MaxDraws
    OBVIOUS
  <2> QED  BY <2>1, <2>2, <2>3, <2>4, <2>5, <2>6, <2>7 DEF TypeOK
<1>4. Places /\ PendingHeld /\ QueueHeld /\ RenderHeld /\ StoppedJoined
  BY DEF Places, PendingHeld, QueueHeld, RenderHeld, StoppedJoined, Threads
<1>5. LastHeld
  BY DEF LastHeld, Threads
<1>6. ActiveCounted /\ LastAlone /\ ProgressEnds /\ QuietCommit
  BY <1>1 DEF ActiveCounted, LastAlone, ProgressEnds, QuietCommit, Threads
<1>7. FramesOrdered /\ OpsMatchFrame /\ SyncAfterImages
  BY DEF FramesOrdered, OpsMatchFrame, SyncAfterImages, Encoding, Threads
<1>8. DeferredIsRemembered /\ JoinedWhole
  BY DEF DeferredIsRemembered, JoinedWhole, Threads
<1> QED  BY <1>3, <1>4, <1>5, <1>6, <1>7, <1>8 DEF FramesInv

\* Every step of the display keeps the invariant (display.c, display-flush.c).
LEMMA FramesStep ==
  ASSUME FramesInv, [Next]_vars
  PROVE  FramesInv'
BY PlacesKept, PendingKept, LastKept, QueueKept, RenderKept, StoppedKept, QuietKept, AloneKept,
   ProgressKept, OrderKept, DeferredKept, OpsKept, SyncKept, JoinedKept, TypeKept, ActiveKept
   DEF FramesInv

\* What the runs check follows.
LEMMA FramesImply ==
  ASSUME FramesInv
  PROVE  FramesWhole
<1>1. IdleQueueIsIdle
  <2> SUFFICES ASSUME ops_lock = NoThread, ops = << >>, active_workers = 0
               PROVE  /\ ~in_progress
                      /\ \A w \in Workers :
                           pc[w] \notin {"mark", "read", "encode", "finish", "endframe"}
    BY DEF IdleQueueIsIdle
  <2>1. Active = {} /\ \A w \in Workers : pc[w] # "mark"
    BY ActiveFinite, ThreadsAssumption DEF FramesInv, QueueHeld
  <2>2. Idle
    BY <2>1 DEF Idle
  <2> QED  BY <2>1, <2>2 DEF Active, FramesInv, ProgressEnds
<1>2. StopMeansStopped
  BY DEF FramesInv, StoppedJoined, StopMeansStopped
<1>3. TrailingOnlyFromUnsent
  BY DEF FramesInv, JoinedWhole, TrailingOnlyFromUnsent
<1> QED  BY <1>1, <1>2, <1>3 DEF FramesInv, FramesWhole

\* For any number of workers, renderers and stoppers, of drawings and of images: an
\* image is encoded from the frame it was planned for, the end of a frame is sent by
\* one worker after all its images, a deferred frame is remembered by one who will
\* send it, a stopped display has no workers, and a user that joined gets nothing
\* of a frame it has, unless it joined before the frame was sent
\* (guac_display_end_multiple_frames(), guac_display_worker_thread(),
\* guac_display_dup(), guac_display_stop()).
THEOREM FramesSafe == Spec => []FramesWhole
<1>1. Init => FramesInv
  BY FramesInit
<1>2. FramesInv /\ [Next]_vars => FramesInv'
  BY FramesStep
<1>3. FramesInv => FramesWhole
  BY FramesImply
<1> QED  BY <1>1, <1>2, <1>3, PTL DEF Spec

\* While guac_display_dup() sends the last frame to users that join, the frame stays
\* as it is and no other begins to be sent.
THEOREM FramesStable == Spec => StableDuringDup
<1>1. Init => FramesInv
  BY FramesInit
<1>2. FramesInv /\ [Next]_vars => FramesInv'
  BY FramesStep
<1>3. ASSUME FramesInv, [Next]_vars, pc[Dup] = "sync", pc'[Dup] = "sync"
      PROVE  last_frame' = last_frame /\ ~in_progress'
  <2>1. ~in_progress'
    BY <1>3, RenderKept DEF RenderHeld
  <2>2. Dup \in last_readers
    BY <1>3 DEF FramesInv, LastHeld
  <2>3. last_frame' = last_frame
    BY <1>3, <2>2, NextCases
       DEF vars, frameVars, Draw, RemoveBuffer, DupLock, DupWait, DupDone, EndLock, EndDefer,
           EndCommit, EndApply, EndNop, Dequeue, MarkInProgress, ReadLock, Encode, Finish,
           EndOfFrame, StopInvalidate, StopJoin, StopWait
  <2> QED  BY <2>1, <2>3
<1> QED  BY <1>1, <1>2, <1>3, PTL DEF Spec, StableDuringDup

=============================================================================
