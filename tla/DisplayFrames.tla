--------------------------- MODULE DisplayFrames ---------------------------
(***************************************************************************)
(* How guac_display turns what is drawn into frames (display-flush.c,      *)
(* display-plan.c, display-worker.c, display.c).                           *)
(*                                                                         *)
(* Drawing changes the pending frame.  guac_display_end_multiple_frames()  *)
(* commits it as the last frame and queues one operation per image to be   *)
(* encoded, and a NOP; worker threads take the operations, encode images   *)
(* from the last frame, and the one that finds itself alone with an empty  *)
(* queue ends the frame.  A frame ended while another is being sent is     *)
(* deferred: the worker ending that one then ends the frame again.         *)
(* guac_display_dup() sends the last frame to users that are joining;      *)
(* guac_display_stop() ends the workers.                                   *)
(*                                                                         *)
(* The contents of a frame are a version number.  The operation queue is a *)
(* guac_fifo (see GuacFifo), here a sequence with its lock; it is far      *)
(* larger than a frame and never full.  What a thread does between two     *)
(* waits is one action.  Locks are taken in the order pending_frame,       *)
(* last_frame, ops, render_state, but for guac_display_dup(), which takes  *)
(* pending_frame last: see LockCycle.                                      *)
(***************************************************************************)
EXTENDS Integers, Sequences, FiniteSets, SequencesExt

CONSTANTS Workers,     \* display->worker_threads
          Renderers,   \* threads that end frames
          Stoppers,    \* threads that stop the display
          Dup,         \* the thread that synchronizes joining users
          NoThread,
          MaxDraws,    \* bound: changes drawn
          MaxImages    \* bound: images in one frame

ASSUME ThreadsAssumption ==
  /\ Workers # {} /\ IsFiniteSet(Workers)
  /\ Workers \cap Renderers = {} /\ Workers \cap Stoppers = {}
  /\ Renderers \cap Stoppers = {}
  /\ Dup \notin Workers \cup Renderers \cup Stoppers
  /\ NoThread \notin Workers \cup Renderers \cup Stoppers \cup {Dup}
ASSUME BoundsAssumption == MaxDraws \in Nat /\ MaxImages \in Nat \ {0}

Threads == Workers \cup Renderers \cup Stoppers \cup {Dup}

VARIABLES
  pending_frame,      \* version of what has been drawn
  last_frame,         \* version committed for sending
  ended,              \* version ended by a renderer (history)
  shown,              \* version of the last "sync" sent (history)
  last_layers,        \* last_frame.layers is not NULL: a frame has been committed
  buffer_null,        \* an external buffer has been replaced by NULL
  pending_lock,       \* pending_frame.lock: the writer
  last_writer,        \* last_frame.lock: the writer and the readers
  last_readers,
  ops,                \* the queue
  ops_lock,           \* who holds its lock
  ops_valid,
  active_workers,
  frame_deferred,
  in_progress,        \* render_state: FRAME_IN_PROGRESS (else _NOT_IN_PROGRESS)
  stopped,            \* render_state: STOPPED
  render_lock,        \* render_state is held by Dup
  pc,
  op,                 \* the operation each worker handles
  images,             \* how many images the plan of each thread's frame has
  joined,             \* version sent to the users that joined, -1: none have
  unsent,             \* they joined while a committed frame was not yet being sent
  late                \* they were sent instructions of that or an earlier frame

frameVars == <<pending_frame, last_frame, ended, shown, last_layers, buffer_null>>
lockVars  == <<pending_lock, last_writer, last_readers>>
opsVars   == <<ops, ops_lock, ops_valid, active_workers, frame_deferred>>
stateVars == <<in_progress, stopped, render_lock>>
userVars  == <<joined, unsent, late>>
vars == <<frameVars, lockVars, opsVars, stateVars, pc, op, images, userVars>>

IMG == "IMG"
NOP == "NOP"
Operation == [type : {IMG, NOP}, frame : 0 .. MaxDraws]
NoOp == [type |-> NOP, frame |-> 0]

Labels == {"idle", "end", "defer", "commit", "apply", "nop", "spin",
           "dequeue", "mark", "read", "encode", "finish", "endframe", "done",
           "wait", "sync", "join", "waitstopped"}

TypeOK ==
  /\ {pending_frame, last_frame, ended, shown} \subseteq 0 .. MaxDraws
  /\ last_layers \in BOOLEAN /\ buffer_null \in BOOLEAN
  /\ pending_lock \in Threads \cup {NoThread}
  /\ last_writer \in Threads \cup {NoThread}
  /\ last_readers \in SUBSET Threads
  /\ ops \in Seq(Operation)
  /\ ops_lock \in Workers \cup {NoThread}
  /\ ops_valid \in BOOLEAN
  /\ active_workers \in 0 .. Cardinality(Workers)
  /\ frame_deferred \in BOOLEAN
  /\ in_progress \in BOOLEAN /\ stopped \in BOOLEAN /\ render_lock \in BOOLEAN
  /\ pc \in [Threads -> Labels]
  /\ op \in [Workers -> Operation]
  /\ images \in [Threads -> 0 .. MaxImages]
  /\ joined \in -1 .. MaxDraws
  /\ unsent \in BOOLEAN /\ late \in BOOLEAN

\* guac_display_alloc()
Init ==
  /\ pending_frame = 0 /\ last_frame = 0 /\ ended = 0 /\ shown = 0
  /\ last_layers = FALSE /\ buffer_null = FALSE
  /\ pending_lock = NoThread
  /\ last_writer = NoThread /\ last_readers = {}
  /\ ops = << >> /\ ops_lock = NoThread /\ ops_valid = TRUE
  /\ active_workers = 0 /\ frame_deferred = FALSE
  /\ in_progress = FALSE /\ stopped = FALSE /\ render_lock = FALSE
  /\ pc = [t \in Threads |-> IF t \in Workers THEN "dequeue" ELSE "idle"]
  /\ op = [w \in Workers |-> NoOp]
  /\ images = [t \in Threads |-> 0]
  /\ joined = -1 /\ unsent = FALSE /\ late = FALSE

GoTo(t, label) == pc' = [pc EXCEPT ![t] = label]

\* Where a thread goes when guac_display_end_multiple_frames() returns.
Caller(t) == IF t \in Workers THEN "dequeue" ELSE "idle"

\* An instruction of a frame is written to client->socket: all full users get it.
Send(frame) == late' = (late \/ frame <= joined) /\ UNCHANGED <<joined, unsent>>

-----------------------------------------------------------------------------
(* Drawing, under the write lock of the pending frame *)

Draw ==
  /\ pending_lock = NoThread
  /\ ~buffer_null
  /\ pending_frame < MaxDraws
  /\ pending_frame' = pending_frame + 1
  /\ UNCHANGED <<last_frame, ended, shown, last_layers, buffer_null, lockVars,
                 opsVars, stateVars, pc, op, images, userVars>>

\* A plugin that lent its own buffer to the display replaces it by NULL before it
\* stops the display, its render thread having ended (guac_rdp_handle_connection()).
\* A plugin that does not (guac_vnc_client_free_handler()) stops the display while it
\* is still drawn to and frames are still ended.
RemoveBuffer ==
  /\ ~buffer_null
  /\ \A s \in Stoppers : pc[s] = "idle"
  /\ \A r \in Renderers : pc[r] = "idle"
  /\ pending_lock = NoThread
  /\ buffer_null' = TRUE
  /\ UNCHANGED <<pending_frame, last_frame, ended, shown, last_layers, lockVars,
                 opsVars, stateVars, pc, op, images, userVars>>

-----------------------------------------------------------------------------
(* guac_display_end_multiple_frames(), by a renderer or a worker t *)

EndLock(t) ==
  /\ \/ t \in Workers /\ pc[t] = "end"
     \/ t \in Renderers /\ pc[t] = "idle" /\ ~buffer_null
  /\ pending_lock = NoThread
  /\ pending_lock' = t
  /\ ended' = IF t \in Renderers THEN pending_frame ELSE ended
  /\ GoTo(t, "defer")
  /\ UNCHANGED <<pending_frame, last_frame, shown, last_layers, buffer_null,
                 last_writer, last_readers, opsVars, stateVars, op, images, userVars>>

Defer == ops # << >> \/ active_workers > 0

EndDefer(t) ==
  /\ pc[t] = "defer"
  /\ ops_lock = NoThread
  /\ frame_deferred' = Defer
  /\ IF Defer
     THEN pending_lock' = NoThread /\ GoTo(t, Caller(t))
     ELSE UNCHANGED pending_lock /\ GoTo(t, "commit")
  /\ UNCHANGED <<frameVars, last_writer, last_readers, ops, ops_lock, ops_valid,
                 active_workers, stateVars, op, images, userVars>>

\* Planning and PFW_LFW_guac_display_frame_complete(), under the write lock of the
\* last frame.  A frame without changes has no plan and queues nothing.  A layer
\* without a buffer is never left: both loops "continue" without advancing.
EndCommit(t) ==
  /\ pc[t] = "commit"
  /\ last_writer = NoThread /\ last_readers = {}
  /\ \/ /\ buffer_null
        /\ last_writer' = t
        /\ GoTo(t, "spin")
        /\ UNCHANGED <<last_frame, last_layers, pending_lock, images, userVars>>
     \/ /\ ~buffer_null
        /\ last_frame = pending_frame
        /\ last_layers' = TRUE
        /\ pending_lock' = NoThread
        /\ GoTo(t, Caller(t))
        /\ UNCHANGED <<last_frame, last_writer, images, userVars>>
     \/ /\ ~buffer_null
        /\ last_frame # pending_frame
        /\ last_frame' = pending_frame
        /\ last_layers' = TRUE
        /\ \E n \in 0 .. MaxImages : images' = [images EXCEPT ![t] = n]
        /\ GoTo(t, "apply")
        /\ Send(pending_frame)
        /\ UNCHANGED <<last_writer, pending_lock>>
  /\ UNCHANGED <<pending_frame, ended, shown, buffer_null, last_readers, opsVars,
                 stateVars, op>>

Enqueue(n, type) ==
  ops' = IF ops_valid
         THEN ops \o [i \in 1 .. n |-> [type |-> type, frame |-> last_frame]]
         ELSE ops

\* guac_display_plan_apply(): what needs no encoding is sent, images are queued,
\* all under the lock of the queue.
EndApply(t) ==
  /\ pc[t] = "apply"
  /\ ops_lock = NoThread
  /\ Send(last_frame)
  /\ Enqueue(images[t], IMG)
  /\ images' = [images EXCEPT ![t] = 0]
  /\ GoTo(t, "nop")
  /\ UNCHANGED <<frameVars, lockVars, ops_lock, ops_valid, active_workers,
                 frame_deferred, stateVars, op>>

EndNop(t) ==
  /\ pc[t] = "nop"
  /\ ops_lock = NoThread
  /\ Enqueue(1, NOP)
  /\ pending_lock' = NoThread
  /\ GoTo(t, Caller(t))
  /\ UNCHANGED <<frameVars, last_writer, last_readers, ops_lock, ops_valid,
                 active_workers, frame_deferred, stateVars, op, images, userVars>>

\* The thread goes round the loop for ever, holding both locks.
Spin(t) == pc[t] = "spin" /\ UNCHANGED vars

EndFrames(t) ==
  \/ EndLock(t)
  \/ EndDefer(t)
  \/ EndCommit(t)
  \/ EndApply(t)
  \/ EndNop(t)
  \/ Spin(t)

-----------------------------------------------------------------------------
(* guac_display_worker_thread() *)

\* guac_fifo_dequeue_and_lock()
MutantNeverEnds(w) ==
  /\ pc[w] = "dequeue"
  /\ ops_lock = NoThread
  /\ \/ ~ops_valid /\ UNCHANGED <<ops, ops_lock, op, pc>>
     \/ /\ ops_valid
        /\ ops # << >>
        /\ op' = [op EXCEPT ![w] = Head(ops)]
        /\ ops' = Tail(ops)
        /\ ops_lock' = w
        /\ GoTo(w, "mark")
  /\ UNCHANGED <<frameVars, lockVars, ops_valid, active_workers, frame_deferred,
                 stateVars, images, userVars>>

Dequeue(w) ==
  /\ pc[w] = "dequeue"
  /\ ops_lock = NoThread
  /\ \/ /\ ~ops_valid
        /\ GoTo(w, "done")
        /\ UNCHANGED <<ops, ops_lock, op>>
     \/ /\ ops_valid
        /\ ops # << >>
        /\ op' = [op EXCEPT ![w] = Head(ops)]
        /\ ops' = Tail(ops)
        /\ ops_lock' = w
        /\ GoTo(w, "mark")
  /\ UNCHANGED <<frameVars, lockVars, ops_valid, active_workers, frame_deferred,
                 stateVars, images, userVars>>

MarkInProgress(w) ==
  /\ pc[w] = "mark"
  /\ ~render_lock
  /\ in_progress' = TRUE
  /\ active_workers' = active_workers + 1
  /\ ops_lock' = NoThread
  /\ GoTo(w, "read")
  /\ UNCHANGED <<frameVars, lockVars, ops, ops_valid, frame_deferred, stopped,
                 render_lock, op, images, userVars>>

ReadLock(w) ==
  /\ pc[w] = "read"
  /\ last_writer = NoThread
  /\ last_readers' = last_readers \cup {w}
  /\ GoTo(w, "encode")
  /\ UNCHANGED <<frameVars, pending_lock, last_writer, opsVars, stateVars, op,
                 images, userVars>>

Encode(w) ==
  /\ pc[w] = "encode"
  /\ IF op[w].type = IMG THEN Send(op[w].frame) ELSE UNCHANGED userVars
  /\ GoTo(w, "finish")
  /\ UNCHANGED <<frameVars, lockVars, opsVars, stateVars, op, images>>

MutantLastWorker == ops = << >>

LastWorker == ops = << >> /\ active_workers = 1

\* The end of the frame is sent with the queue locked; otherwise the worker is done.
Finish(w) ==
  /\ pc[w] = "finish"
  /\ ops_lock = NoThread
  /\ IF LastWorker
     THEN /\ ops_lock' = w
          /\ shown' = last_frame
          /\ Send(last_frame)
          /\ GoTo(w, "endframe")
          /\ UNCHANGED <<active_workers, last_readers>>
     ELSE /\ active_workers' = active_workers - 1
          /\ last_readers' = last_readers \ {w}
          /\ GoTo(w, "dequeue")
          /\ UNCHANGED <<ops_lock, shown, userVars>>
  /\ UNCHANGED <<pending_frame, last_frame, ended, last_layers, buffer_null,
                 pending_lock, last_writer, ops, ops_valid, frame_deferred, stateVars, op, images>>

MutantForgetsDeferred(w) ==
  /\ pc[w] = "endframe"
  /\ ~render_lock
  /\ in_progress' = FALSE
  /\ active_workers' = active_workers - 1
  /\ ops_lock' = NoThread
  /\ last_readers' = last_readers \ {w}
  /\ GoTo(w, "dequeue")
  /\ UNCHANGED <<frameVars, pending_lock, last_writer, ops, ops_valid,
                 frame_deferred, stopped, render_lock, op, images, userVars>>

EndOfFrame(w) ==
  /\ pc[w] = "endframe"
  /\ ~render_lock
  /\ in_progress' = FALSE
  /\ active_workers' = active_workers - 1
  /\ ops_lock' = NoThread
  /\ last_readers' = last_readers \ {w}
  /\ GoTo(w, IF frame_deferred THEN "end" ELSE "dequeue")
  /\ UNCHANGED <<frameVars, pending_lock, last_writer, ops, ops_valid,
                 frame_deferred, stopped, render_lock, op, images, userVars>>

WorkerStep(w) ==
  \/ Dequeue(w)
  \/ MarkInProgress(w)
  \/ ReadLock(w)
  \/ Encode(w)
  \/ Finish(w)
  \/ EndOfFrame(w)
  \/ EndFrames(w)

-----------------------------------------------------------------------------
(* guac_display_dup(), and the promotion of the users it has synchronized.     *)
(* Plugins do not call it once they stop the display.                          *)

MutantDupUnlocked ==
  /\ pc[Dup] = "idle"
  /\ \A s \in Stoppers : pc[s] = "idle"
  /\ ~buffer_null
  /\ GoTo(Dup, "wait")
  /\ UNCHANGED <<frameVars, lockVars, opsVars, stateVars, op, images, userVars>>

DupLock ==
  /\ pc[Dup] = "idle"
  /\ \A s \in Stoppers : pc[s] = "idle"
  /\ ~buffer_null
  /\ last_writer = NoThread
  /\ last_readers' = last_readers \cup {Dup}
  /\ GoTo(Dup, "wait")
  /\ UNCHANGED <<frameVars, pending_lock, last_writer, opsVars, stateVars, op,
                 images, userVars>>

DupWait ==
  /\ pc[Dup] = "wait"
  /\ ~in_progress
  /\ render_lock' = TRUE
  /\ GoTo(Dup, "sync")
  /\ UNCHANGED <<frameVars, lockVars, opsVars, in_progress, stopped, op, images,
                 userVars>>

\* A frame has been committed whose operations nobody has taken yet.
Unsent ==
  \/ ops # << >>
  \/ \E t \in Threads : pc[t] \in {"apply", "nop", "mark"}

\* The size of every layer is read from the pending frame, under its lock
\* (guac_display_layer_get_bounds()), with last_frame and render_state still locked.
DupDone ==
  /\ pc[Dup] = "sync"
  /\ last_layers => pending_lock = NoThread
  /\ joined' = last_frame
  /\ unsent' = Unsent
  /\ render_lock' = FALSE
  /\ last_readers' = last_readers \ {Dup}
  /\ GoTo(Dup, "done")
  /\ UNCHANGED <<frameVars, pending_lock, last_writer, opsVars, in_progress,
                 stopped, op, images, late>>

DupStep == DupLock \/ DupWait \/ DupDone

-----------------------------------------------------------------------------
(* guac_display_stop().  No guac_display_dup() runs meanwhile: the callers     *)
(* hold the lock it is called under (RDP), or have joined its thread (VNC).    *)
(* But the render thread of VNC is only joined later: frames may be drawn, be  *)
(* ended and be half sent before, during and after the stop.                   *)

StopInvalidate(s) ==
  /\ pc[s] = "idle"
  /\ pc[Dup] \in {"idle", "done"}
  /\ ops_lock = NoThread
  /\ ops_valid' = FALSE
  /\ GoTo(s, IF ops_valid THEN "join" ELSE "waitstopped")
  /\ UNCHANGED <<frameVars, lockVars, ops, ops_lock, active_workers,
                 frame_deferred, stateVars, op, images, userVars>>

StopJoin(s) ==
  /\ pc[s] = "join"
  /\ \A w \in Workers : pc[w] = "done"
  /\ stopped' = TRUE
  /\ GoTo(s, "done")
  /\ UNCHANGED <<frameVars, lockVars, opsVars, in_progress, render_lock, op,
                 images, userVars>>

StopWait(s) ==
  /\ pc[s] = "waitstopped"
  /\ stopped
  /\ GoTo(s, "done")
  /\ UNCHANGED <<frameVars, lockVars, opsVars, stateVars, op, images, userVars>>

StopperStep(s) == StopInvalidate(s) \/ StopJoin(s) \/ StopWait(s)

-----------------------------------------------------------------------------
\* guac_display_dup() waits for the thread that holds pending_frame.lock, which waits
\* for last_frame.lock, or for the queue that is held by a worker waiting for
\* render_state.
LockCycle ==
  /\ pc[Dup] = "sync" /\ last_layers
  /\ pending_lock # NoThread
  /\ \/ pc[pending_lock] = "commit"
     \/ /\ pc[pending_lock] \in {"defer", "apply", "nop"}
        /\ ops_lock # NoThread
        /\ pc[ops_lock] \in {"mark", "endframe"}

Deadlocked == LockCycle /\ UNCHANGED vars

\* Every stop has returned.
Finished ==
  /\ \A s \in Stoppers : pc[s] = "done"
  /\ UNCHANGED vars

Next ==
  \/ Draw
  \/ RemoveBuffer
  \/ \E r \in Renderers : EndFrames(r)
  \/ \E w \in Workers : WorkerStep(w)
  \/ DupStep
  \/ \E s \in Stoppers : StopperStep(s)
  \/ Deadlocked
  \/ Finished

Spec == Init /\ [][Next]_vars

\* Threads run, and are not passed over for a lock for ever.  Nobody has to draw,
\* end a frame, join or stop; who has begun to stop goes on.
Fairness ==
  /\ \A w \in Workers : SF_vars(WorkerStep(w))
  /\ \A r \in Renderers : SF_vars(EndFrames(r) /\ pc[r] # "idle")
  /\ SF_vars(DupStep /\ pc[Dup] # "idle")
  /\ \A s \in Stoppers : WF_vars(StopJoin(s) \/ StopWait(s))

FairSpec == Spec /\ Fairness

-----------------------------------------------------------------------------
Encoding(w) == pc[w] \in {"mark", "read", "encode"}

\* Images are encoded from the last frame, so an operation must be carried out
\* before the next frame is committed: no operation queued or being carried out is
\* of another frame than the last.
OpsMatchFrame ==
  /\ \A o \in ToSet(ops) : o.frame = last_frame
  /\ \A w \in Workers : Encoding(w) => op[w].frame = last_frame

\* "sync" tells users that they have the whole frame: by then no image of it is
\* queued or with a worker.
SyncAfterImages ==
  shown = last_frame =>
    /\ \A o \in ToSet(ops) : o.type # IMG
    /\ \A w \in Workers : Encoding(w) => op[w].type # IMG

\* display-worker.c: "Any thread that locks the operation queue can know that there
\* are no pending operations in progress if the queue is empty and there are no
\* active workers".  Then, too, no frame is marked as in progress, or a joining user
\* would wait for ever.
IdleQueueIsIdle ==
  (ops_lock = NoThread /\ ops = << >> /\ active_workers = 0) =>
    /\ ~in_progress
    /\ \A w \in Workers : pc[w] \notin {"mark", "read", "encode", "finish", "endframe"}

\* A deferred frame is not forgotten: there is still an operation whose worker will
\* see frame_deferred, or a worker that has seen it.
DeferredIsRemembered ==
  (frame_deferred /\ ops_lock = NoThread /\ ops_valid) =>
    \/ ops # << >>
    \/ active_workers > 0
    \/ \E w \in Workers : pc[w] \in {"end", "defer"}

\* A joining user is sent one version of the display, and no frame begins to be
\* sent meanwhile.
StableDuringDup ==
  [][(pc[Dup] = "sync" /\ pc'[Dup] = "sync") =>
        last_frame' = last_frame /\ ~in_progress']_vars

\* display.h: "All concurrent calls to this function will block until all background
\* threads used by the guac_display have terminated".
StopMeansStopped ==
  (\E s \in Stoppers : pc[s] = "done") => \A w \in Workers : pc[w] = "done"

\* What was drawn when a renderer ended the frame is shown, however often frames
\* were deferred, unless the plugin begins to stop the display or guac_display_dup()
\* deadlocks.
EndedIsShown ==
  \A v \in 1 .. MaxDraws :
    (ended >= v) ~> (shown >= v \/ ~ops_valid \/ buffer_null \/ LockCycle)

\* Joining users are served, however many frames are sent, unless that cycle of locks
\* closes: nothing else keeps guac_display_dup() waiting.
DupReturnsOrDeadlocks == (pc[Dup] = "wait") ~> (pc[Dup] = "done" \/ LockCycle)

\* display-priv.h names the order of the locks: "Acquiring these locks in any other
\* order risks deadlock.  Don't do it."  So joining users are served.
DupReturns == (pc[Dup] = "wait") ~> (pc[Dup] = "done")

\* Workers are found at nothing else that could keep guac_display_stop() waiting than
\* the loop over a removed buffer: not at locks, nor at one another.
StopReturnsOrSpins ==
  (\E s \in Stoppers : pc[s] # "idle") ~>
     \/ \A s \in Stoppers : pc[s] \in {"idle", "done"}
     \/ \E w \in Workers : pc[w] = "spin"

\* display.c: guac_display_dup() waits lest "trailing instructions of that pending
\* frame" are "sent to new users after they finish joining, even though they are
\* already in sync with that frame".  Users are sent such instructions only if they
\* join between the commit of a frame and its first operation.
TrailingOnlyFromUnsent == late => unsent

\* Every image is encoded from the frame it was planned for, the end of a frame
\* is sent after all its images and by one worker, a deferred frame stays
\* remembered by someone who will send it, a stopped display has no workers,
\* and what a new user receives after its copy belongs to a frame not yet sent
\* when it was made.
FramesWhole ==
  /\ TypeOK
  /\ OpsMatchFrame
  /\ SyncAfterImages
  /\ IdleQueueIsIdle
  /\ DeferredIsRemembered
  /\ StopMeansStopped
  /\ TrailingOnlyFromUnsent

\* guac_display_dup() returns unless the one known cycle of locks closes, and
\* guac_display_stop() returns unless a removed buffer keeps a worker busy.
CallersReturn ==
  /\ DupReturnsOrDeadlocks
  /\ StopReturnsOrSpins

=============================================================================
