--------------------------- MODULE DisplayRender ---------------------------
(***************************************************************************)
(* The render thread of a display (src/libguac/display-render-thread.c):   *)
(* it finds the boundaries of frames, from calls that mark them and from   *)
(* pauses in the drawing, and ends them.                                   *)
(*                                                                         *)
(* A plugin's thread draws and then notifies the render thread; users'     *)
(* threads move the mouse.  Each of them, and each look of the render      *)
(* thread at its flag, is one critical section of that flag.  What is      *)
(* drawn and where the mouse is are counted, so that later is greater.     *)
(* The clock of the loop counts steps of time; MaxDuration of them are     *)
(* GUAC_DISPLAY_RENDER_THREAD_MAX_FRAME_DURATION.  Ending a frame is what  *)
(* DisplayFrames models; here it is that what has been drawn is handed     *)
(* over.                                                                   *)
(***************************************************************************)
EXTENDS GuacFlag

CONSTANTS MaxDrawn,     \* changes a plugin draws
          MaxMoves,     \* movements of the mouse
          MaxMarked,    \* frame boundaries a plugin marks
          MaxDuration,  \* the longest a frame is awaited
          Renderer      \* the render thread

ASSUME RenderAssumption ==
  /\ MaxDrawn \in Nat /\ MaxMoves \in Nat /\ MaxMarked \in Nat /\ MaxDuration \in Nat

VARIABLES render,        \* guac_display_render_thread: flag, frames, cursor_state
          loop,          \* where the loop is, and its local variables
          pending,       \* of the display's pending frame: drawn, cursor
          notifying,     \* a plugin has drawn and not yet said so
          destroying,    \* "no", "joining", "freed"
          noticed,       \* what had been drawn at the last notification
          marked,        \* frame boundaries marked so far
          ended          \* frames, and what was drawn, when a frame was last ended

renderVars == <<render, loop, pending, notifying, destroying, noticed, marked, ended>>

STOPPING == "STOPPING"
MODIFIED == "FRAME_MODIFIED"
FRAME_READY == "FRAME_READY"

RenderTypeOK ==
  /\ render \in [state : [value : SUBSET {STOPPING, MODIFIED, FRAME_READY}, owner : {NoThread},
                          depth : {0}, waiters : SUBSET {Renderer}],
                 frames : 0 .. MaxMarked, cursor_state : 0 .. MaxMoves]
  /\ loop \in [at : {"wait", "asleep", "sleep", "lull", "pass", "end", "returned"},
               cursor_state : 0 .. MaxMoves, rendered_frames : 0 .. MaxMarked,
               duration : 0 .. MaxDuration + 1, behind : BOOLEAN]
  /\ pending \in [drawn : 0 .. MaxDrawn, cursor : 0 .. MaxMoves]
  /\ notifying \in BOOLEAN
  /\ destroying \in {"no", "joining", "freed"}
  /\ noticed \in 0 .. MaxDrawn
  /\ marked \in 0 .. MaxMarked
  /\ ended \in [frames : 0 .. MaxMarked, drawn : 0 .. MaxDrawn]

\* guac_display_render_thread_create()
RenderInit ==
  /\ render = [state |-> guac_flag_init({}), frames |-> 0, cursor_state |-> 0]
  /\ loop = [at |-> "wait", cursor_state |-> 0, rendered_frames |-> 0, duration |-> 0,
             behind |-> FALSE]
  /\ pending = [drawn |-> 0, cursor |-> 0]
  /\ notifying = FALSE
  /\ destroying = "no"
  /\ noticed = 0
  /\ marked = 0
  /\ ended = [frames |-> 0, drawn |-> 0]

InUse == destroying = "no"

-----------------------------------------------------------------------------
(* Plugins and users *)

\* A plugin changes the pending frame, under that frame's lock, and will notify.
DrawChange ==
  /\ InUse
  /\ pending.drawn < MaxDrawn
  /\ pending' = [pending EXCEPT !.drawn = @ + 1]
  /\ notifying' = TRUE
  /\ UNCHANGED <<render, loop, destroying, noticed, marked, ended>>

guac_display_render_thread_notify_modified ==
  /\ InUse
  /\ notifying
  /\ render' = [render EXCEPT !.state = guac_flag_set(@, {MODIFIED})]
  /\ notifying' = FALSE
  /\ noticed' = pending.drawn
  /\ UNCHANGED <<loop, pending, destroying, marked, ended>>

guac_display_render_thread_notify_frame ==
  /\ InUse
  /\ marked < MaxMarked
  /\ render' = [render EXCEPT !.state = guac_flag_set(@, {FRAME_READY}), !.frames = @ + 1]
  /\ notifying' = FALSE
  /\ noticed' = pending.drawn
  /\ marked' = marked + 1
  /\ UNCHANGED <<loop, pending, destroying, ended>>

guac_display_render_thread_notify_user_moved_mouse ==
  /\ InUse
  /\ render.cursor_state < MaxMoves
  /\ render' = [render EXCEPT !.state = guac_flag_set(@, {MODIFIED}), !.cursor_state = @ + 1]
  /\ UNCHANGED <<loop, pending, notifying, destroying, noticed, marked, ended>>

\* guac_display_render_thread_destroy(): the plugin stops drawing, tells the thread
\* to stop, and joins it.
Destroy ==
  /\ InUse
  /\ destroying' = "joining"
  /\ render' = [render EXCEPT !.state = guac_flag_set(@, {STOPPING})]
  /\ UNCHANGED <<loop, pending, notifying, noticed, marked, ended>>

DestroyJoined ==
  /\ destroying = "joining"
  /\ loop.at = "returned"
  /\ destroying' = "freed"
  /\ UNCHANGED <<render, loop, pending, notifying, noticed, marked, ended>>

-----------------------------------------------------------------------------
(* The loop *)

\* What ends the wait for a change to the state of the frame.
AnyChange == {STOPPING, FRAME_READY, MODIFIED}

\* What guac_display_end_multiple_frames(), the rest of the loop and the time that
\* passes leave alone.
Beside == UNCHANGED <<notifying, destroying, noticed, marked>>

\* Inside the loop, holding the flag: the cursor is copied for the frame, and the
\* thread sleeps for as long as users lag behind, without the flag.
Accumulate(duration, rendered) ==
  /\ loop' = [at |-> "sleep", cursor_state |-> render.cursor_state,
              rendered_frames |-> rendered, duration |-> duration, behind |-> FALSE]
  /\ render' = [render EXCEPT !.state = guac_flag_clear(@, {MODIFIED})]

\* Mutant: the thread forgets what was notified before it waits.
MutantStartsFresh ==
  /\ \/ loop.at = "wait"
     \/ loop.at = "asleep" /\ Renderer \notin render.state.waiters
  /\ IF render.state.value = {} \/ (loop.at = "wait" /\ render.state.value = {MODIFIED})
     THEN /\ loop' = [loop EXCEPT !.at = "asleep"]
          /\ render' = [render EXCEPT !.state.value = {}, !.state.waiters = {Renderer}]
     ELSE IF STOPPING \in render.state.value
     THEN loop' = [loop EXCEPT !.at = "returned"] /\ UNCHANGED render
     ELSE Accumulate(0, 0)
  /\ Beside /\ UNCHANGED <<pending, ended>>

\* guac_flag_wait_and_lock(), up to the first sleep.  The cursor the code copies
\* without the lock before it waits is overwritten, the clock having just been read.
WaitChange ==
  /\ \/ loop.at = "wait"
     \/ loop.at = "asleep" /\ Renderer \notin render.state.waiters
  /\ IF ~AnySet(render.state, AnyChange)
     THEN /\ loop' = [loop EXCEPT !.at = "asleep"]
          /\ render' = [render EXCEPT !.state = pthread_cond_wait(guac_flag_lock(@, Renderer),
                                                                  Renderer)]
     ELSE IF STOPPING \in render.state.value
     THEN loop' = [loop EXCEPT !.at = "returned"] /\ UNCHANGED render
     ELSE Accumulate(0, 0)
  /\ Beside /\ UNCHANGED <<pending, ended>>

\* Awake again: a boundary that was marked ends the frame, with the cursor copied
\* before the sleep.
CheckBoundary ==
  /\ loop.at = "sleep"
  /\ IF FRAME_READY \in render.state.value
     THEN /\ loop' = [loop EXCEPT !.at = "pass", !.rendered_frames = @ + render.frames,
                                  !.behind = loop.cursor_state # render.cursor_state]
          /\ render' = [render EXCEPT !.frames = 0,
                                      !.state = guac_flag_clear(@, {FRAME_READY, MODIFIED})]
     ELSE loop' = [loop EXCEPT !.at = "lull"] /\ UNCHANGED render
  /\ Beside /\ UNCHANGED <<pending, ended>>

\* Mutant: a frame that lasted too long takes all that is set with it.
MutantTakesAll ==
  /\ loop.at = "lull"
  /\ IF AnySet(render.state, AnyChange) /\ loop.duration <= MaxDuration
     THEN Accumulate(loop.duration, loop.rendered_frames)
     ELSE /\ loop' = [loop EXCEPT !.at = "pass"]
          /\ render' = [render EXCEPT !.state = guac_flag_clear(@, {MODIFIED, FRAME_READY})]
  /\ Beside /\ UNCHANGED <<pending, ended>>

\* The condition of the loop: more has happened during the sleep, and the frame has
\* not yet lasted too long.  Otherwise it ends, the flag keeping what is set.
CheckLull ==
  /\ loop.at = "lull"
  /\ IF AnySet(render.state, AnyChange) /\ loop.duration <= MaxDuration
     THEN Accumulate(loop.duration, loop.rendered_frames)
     ELSE loop' = [loop EXCEPT !.at = "pass"] /\ UNCHANGED render
  /\ Beside /\ UNCHANGED <<pending, ended>>

\* The cursor goes to the pending frame, under that frame's lock.
PassCursor ==
  /\ loop.at = "pass"
  /\ loop' = [loop EXCEPT !.at = "end"]
  /\ pending' = [pending EXCEPT !.cursor = loop.cursor_state]
  /\ Beside /\ UNCHANGED <<render, ended>>

\* guac_display_end_multiple_frames()
EndMultipleFrames ==
  /\ loop.at = "end"
  /\ ended' = [frames |-> ended.frames + loop.rendered_frames, drawn |-> pending.drawn]
  /\ loop' = [loop EXCEPT !.at = "wait", !.rendered_frames = 0]
  /\ Beside /\ UNCHANGED <<pending, render>>

LoopStep ==
  \/ WaitChange
  \/ CheckBoundary
  \/ CheckLull
  \/ PassCursor
  \/ EndMultipleFrames

\* pthread_cond_wait() may return for no reason.
WokenIdly ==
  /\ Renderer \in render.state.waiters
  /\ render' = [render EXCEPT !.state.waiters = {}]
  /\ Beside /\ UNCHANGED <<loop, pending, ended>>

TimeGoesOn ==
  /\ loop.at \in {"sleep", "lull"}
  /\ loop.duration <= MaxDuration
  /\ loop' = [loop EXCEPT !.duration = @ + 1]
  /\ Beside /\ UNCHANGED <<render, pending, ended>>

\* Nothing is left to do.
Freed == destroying = "freed" /\ UNCHANGED renderVars

RenderNext ==
  \/ DrawChange
  \/ guac_display_render_thread_notify_modified
  \/ guac_display_render_thread_notify_frame
  \/ guac_display_render_thread_notify_user_moved_mouse
  \/ Destroy
  \/ DestroyJoined
  \/ LoopStep
  \/ WokenIdly
  \/ TimeGoesOn
  \/ Freed

RenderSpec == RenderInit /\ [][RenderNext]_renderVars

-----------------------------------------------------------------------------
\* Every boundary a plugin marks is in exactly one of three places: counted by the
\* flag's owner, taken by the loop for the frame it is finding, or passed to
\* guac_display_end_multiple_frames(); none is lost when the loop gives up waiting
\* for a boundary at the moment one is marked.
FramesAccounted == render.frames + loop.rendered_frames + ended.frames = marked

\* With the thread asleep and nothing set, the frame has the latest cursor, except
\* where a marked boundary ended a frame whose cursor was copied before the mouse
\* moved on (the boundary clears the modification the movement had set).
CursorCurrent ==
  ( /\ loop.at \in {"wait", "asleep"}
    /\ render.state.value = {} ) =>
       pending.cursor = render.cursor_state \/ loop.behind

\* What a plugin has drawn and notified reaches an ended frame, however the
\* notification falls into the loop, unless the thread is destroyed first.
NotifiedIsEnded ==
  \A n \in 1 .. MaxDrawn : noticed >= n ~> (ended.drawn >= n \/ ~InUse)

\* Every boundary marked is passed on with a frame, also one marked while a frame
\* is being ended because it has lasted too long.
MarkedIsEnded ==
  \A n \in 1 .. MaxMarked : marked >= n ~> (ended.frames >= n \/ ~InUse)

\* guac_display_render_thread_destroy() returns, wherever the loop is.
DestroyReturns == destroying = "joining" ~> destroying = "freed"

\* At every step of the render loop: no frame boundary is counted twice or
\* forgotten, and the cursor that was handed over is the last one moved to
\* unless a flag says that there is more.
RenderSound ==
  /\ RenderTypeOK
  /\ FramesAccounted
  /\ CursorCurrent

\* What the render thread is notified of ends in a frame, every marked boundary
\* is handed over, and destroying the thread returns.
RenderProgress ==
  /\ NotifiedIsEnded
  /\ MarkedIsEnded
  /\ DestroyReturns

=============================================================================
