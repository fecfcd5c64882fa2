----------------------------- MODULE RdpEvents ------------------------------
(***************************************************************************)
(* Input of the users of an RDP connection other than keys: the queue of   *)
(* events the client thread empties (input.c, input-queue.c), the buttons  *)
(* of the mouse, the touches of the RDPEI channel (rdpei.c) and changes of *)
(* size (disp.c), which the users' threads and the client thread make      *)
(* without a lock.  The server is external.                                *)
(***************************************************************************)
EXTENDS Integers, Sequences, FiniteSets, GuacCommon

CONSTANTS
    MaxTouches,     \* GUAC_RDP_RDPEI_MAX_TOUCHES
    TouchIds,       \* touches of the users
    QueueSize,      \* GUAC_RDP_INPUT_EVENT_QUEUE_SIZE
    MaxInputs,      \* how many events users cause
    Sizes,          \* sizes users ask for
    MaxSizes        \* how often they do

ASSUME InputAssumption ==
    MaxTouches \in Nat /\ QueueSize \in Nat /\ MaxInputs \in Nat
\* Any pair of ints: nobody checks what guac_rdp_user_size_handler() is given.
ASSUME SizesAssumption == Sizes \subseteq Int \X Int

VARIABLES
    rq,         \* rdp_client->input_events
    rset,       \* rdp_client->input_event_queued
    thread,     \* where the client thread is within its loop
    overlooked, \* a wait failed: its events may be left without anything set
    inputs,     \* how many events there were
    rmask,      \* rdp_client->mouse_button_mask
    buttons,    \* buttons that are down on the server
    touches,    \* rdpei->touch: slot -> id and whether it is active
    contacts,   \* the touches the server knows
    bad,        \* the server was told of a touch it does not know, or knows
    channel,    \* the RDPEI channel is connected
    leftOver    \* something was held when a connection ended

eventVars == <<rq, rset, thread, overlooked, inputs, rmask, buttons, touches,
               contacts, bad, channel, leftOver>>

-----------------------------------------------------------------------------
(* The queue.                                                              *)

Buttons == {"left", "middle", "right"}

InputEvents == [type : {"mouse"}, mask : SUBSET {"left", "right"}]
               \cup [type : {"touch"}, id : TouchIds, pressed : BOOLEAN]

\* Waiting, before either ResetEvent(), handling the events of the server, handling
\* those of the queue, or past a wait that failed.
Places == {"wait", "reset", "events", "reset again", "drain", "failed"}

inputVars == <<rmask, buttons, touches, contacts, bad, channel, leftOver>>

\* The thread of a user: waits until the queue is neither locked nor full.
guac_rdp_input_event_enqueue(e) ==
    /\ thread /= "drain"
    /\ Len(rq) < QueueSize
    /\ inputs < MaxInputs
    /\ inputs' = inputs + 1
    /\ rq' = Append(rq, e)
    /\ rset' = TRUE
    /\ UNCHANGED <<thread, overlooked, inputVars>>

\* The client thread waits up to GUAC_RDP_MESSAGE_CHECK_INTERVAL for the queue or
\* the server; having handled events of the server it waits again, for no time.
WaitReturns ==
    /\ \/ thread = "wait" /\ thread' = "reset"
       \/ thread = "events" /\ thread' = "reset again"
    /\ UNCHANGED <<rq, rset, overlooked, inputs, inputVars>>

\* The rest of rdp_guac_client_wait_for_events(): the event is reset without the
\* lock of the queue, whatever is queued.  Only a first wait that fails leaves
\* the loop; a second that found nothing, or failed, ends the events.
ResetEvent ==
    /\ \/ thread = "reset" /\ thread' \in {"events", "failed"}
       \/ thread = "reset again" /\ thread' \in {"events", "drain"}
    /\ rset' = FALSE
    /\ overlooked' = (overlooked \/ (thread' = "failed" /\ rq /= <<>>))
    /\ UNCHANGED <<rq, inputs, inputVars>>

\* The server closes the connection: it is not waited for again.
Closing ==
    /\ thread = "events"
    /\ thread' = "drain"
    /\ UNCHANGED <<rq, rset, overlooked, inputs, inputVars>>

\* Buttons that were released, then those that were pressed; nothing but the
\* movement if the buttons are the same.
guac_rdp_handle_mouse_event(mask) ==
    /\ LET released == rmask \ mask
           pressed == mask \ rmask
       IN  buttons' = (buttons \ released) \cup (pressed \cap Buttons)
    /\ rmask' = mask
    /\ UNCHANGED <<touches, contacts, bad>>

\* The touch with this id, or the first that is not used, or 0.
SlotOf(id) ==
    LET known == {i \in DOMAIN touches : touches[i].active /\ touches[i].id = id}
        unused == {i \in DOMAIN touches : ~touches[i].active}
        First(set) == CHOOSE i \in set : \A j \in set : i <= j
    IN  IF known /= {} THEN First(known)
        ELSE IF unused /= {} THEN First(unused) ELSE 0

\* guac_rdp_rdpei_touch_update(): begins, moves or ends a touch.  Touches for
\* which there is no slot are dropped.
guac_rdp_rdpei_touch_update(id, pressed) ==
    LET slot == SlotOf(id)
    IN  IF ~channel \/ slot = 0 THEN UNCHANGED <<touches, contacts, bad>>
        ELSE LET was == touches[slot].active
             IN  /\ touches' = [touches EXCEPT ![slot] =
                                    [id |-> id, active |-> pressed]]
                 /\ contacts' = IF pressed THEN contacts \cup {id}
                                ELSE contacts \ {id}
                 /\ bad' = (bad \/ (was /\ id \notin contacts)
                                \/ (pressed /\ ~was /\ id \in contacts))

DrainOne ==
    /\ thread = "drain"
    /\ rq /= <<>>
    /\ LET e == Head(rq)
       IN  \/ e.type = "mouse" /\ guac_rdp_handle_mouse_event(e.mask)
           \/ /\ e.type = "touch"
              /\ guac_rdp_rdpei_touch_update(e.id, e.pressed)
              /\ UNCHANGED <<rmask, buttons>>
    /\ rq' = Tail(rq)
    /\ UNCHANGED <<rset, thread, overlooked, inputs, channel, leftOver>>

\* Mutant: one event is handled each time.
MutantDrainEnd ==
    /\ thread = "drain"
    /\ rset' = FALSE
    /\ thread' = "wait"
    /\ overlooked' = FALSE
    /\ UNCHANGED <<rq, inputs, inputVars>>

\* guac_rdp_handle_input_events() ends, with the lock still held.
DrainEnd ==
    /\ thread = "drain"
    /\ rq = <<>>
    /\ rset' = FALSE
    /\ thread' = "wait"
    /\ overlooked' = FALSE
    /\ UNCHANGED <<rq, inputs, inputVars>>

\* guac_rdp_rdpei_channel_connected(), within the events of the server.
guac_rdp_rdpei_channel_connected ==
    /\ ~channel /\ thread = "events"
    /\ channel' = TRUE
    /\ UNCHANGED <<rq, rset, thread, overlooked, inputs, rmask, buttons, touches,
                   contacts, bad, leftOver>>

\* The connection ends, for another size or by a wait that failed, and another
\* begins: the server knows nothing any more, while the mask, the touches and
\* the queue stay as they are.
ConnectAgain ==
    /\ thread \in {"wait", "failed"}
    /\ thread' = "wait"
    /\ channel' = FALSE
    /\ leftOver' = (leftOver \/ rmask /= {} \/ contacts /= {})
    /\ contacts' = {}
    /\ buttons' = {}
    /\ UNCHANGED <<rq, rset, overlooked, inputs, rmask, touches, bad>>

EventsInit ==
    /\ rq = <<>>
    /\ rset = FALSE
    /\ thread = "wait"
    /\ overlooked = FALSE
    /\ inputs = 0
    /\ rmask = {}
    /\ buttons = {}
    /\ touches = [i \in 1 .. MaxTouches |-> [id |-> 0, active |-> FALSE]]
    /\ contacts = {}
    /\ bad = FALSE
    /\ channel = FALSE
    /\ leftOver = FALSE

EventsNext ==
    \/ \E e \in InputEvents : guac_rdp_input_event_enqueue(e)
    \/ WaitReturns \/ ResetEvent \/ Closing \/ DrainOne \/ DrainEnd
    \/ guac_rdp_rdpei_channel_connected \/ ConnectAgain

EventsSpec == EventsInit /\ [][EventsNext]_eventVars

EventsTypeOK ==
    /\ rq \in Seq(InputEvents) /\ Len(rq) <= QueueSize
    /\ inputs \in 0 .. MaxInputs
    /\ thread \in Places
    /\ {rset, overlooked, bad, channel, leftOver} \subseteq BOOLEAN
    /\ rmask \subseteq Buttons /\ buttons \subseteq Buttons
    /\ touches \in [1 .. MaxTouches -> [id : TouchIds \cup {0}, active : BOOLEAN]]
    /\ contacts \subseteq TouchIds

\* The client thread never goes to wait while events are queued and the handle is
\* reset, although it resets it without the lock after every wait: what it may have
\* taken no notice of, it finds in the queue.  Only a wait that failed, which ends
\* the connection before the queue is looked at, leaves events for the next one.
InputWakes ==
    thread \in {"wait", "failed"} /\ rq /= <<>> => rset \/ overlooked

\* The server sees the buttons and touches as they are, and is never told of a
\* touch that it does not know or that it knows already, however many touches
\* there are.  (A connection that ends while something is held breaks this.)
ServerFollows ==
    ~leftOver =>
        /\ ~bad
        /\ buttons = rmask \cap Buttons
        /\ contacts = {touches[i].id :
                            i \in {j \in DOMAIN touches : touches[j].active}}

-----------------------------------------------------------------------------
(* Changes of size.                                                        *)

VARIABLES
    method,     \* settings->resize_method
    requested,  \* <<disp->requested_width, disp->requested_height>>
    dwriter,    \* the size whose height a user's thread has yet to store
    current,    \* the size of the server's desktop
    wanted,     \* settings->width, settings->height
    again,      \* disp->reconnect_needed
    elapsed,    \* the last request is long enough ago
    layout,     \* the display update channel is connected
    busy,       \* a file of the drive is open or a print job is active
    died,       \* the process divided by zero
    goal,       \* the size last asked for
    requests    \* how many requests there were

dispVars == <<method, requested, dwriter, current, wanted, again, elapsed,
              layout, busy, died, goal, requests>>

NoSize == <<0, 0>>
GUAC_RDP_DISP_MIN_SIZE == 200
GUAC_RDP_DISP_MAX_SIZE == 8192

\* Within the limits of the protocol, and an even width.
Adjusted(size) ==
    LET r == guac_rect_shrink(guac_rect_init(0, 0, size[1], size[2]),
                              GUAC_RDP_DISP_MAX_SIZE, GUAC_RDP_DISP_MAX_SIZE)
        AtLeast(x) == IF x < GUAC_RDP_DISP_MIN_SIZE THEN GUAC_RDP_DISP_MIN_SIZE
                      ELSE x
        width == AtLeast(guac_rect_width(r))
    IN  <<width - (width % 2), AtLeast(guac_rect_height(r))>>

\* Mutant: a request made too early is dropped.
Mutant_disp_update_size(size) ==
    IF ~elapsed
    THEN requested' = current /\ UNCHANGED <<wanted, again, elapsed, current>>
    ELSE IF size[1] = 0 \/ size[2] = 0 \/ size = current
    THEN requested' = size /\ UNCHANGED <<wanted, again, elapsed, current>>
    ELSE /\ requested' = size
         /\ elapsed' = FALSE
         /\ wanted' = IF method = "reconnect" THEN size ELSE wanted
         /\ again' = (again \/ method = "reconnect")
         /\ current' = IF method = "display-update" /\ layout THEN size
                       ELSE current

\* guac_rdp_disp_update_size() with the size that is requested.
guac_rdp_disp_update_size(size) ==
    IF size[1] = 0 \/ size[2] = 0 \/ ~elapsed \/ size = current
    THEN requested' = size /\ UNCHANGED <<wanted, again, elapsed, current>>
    ELSE /\ requested' = size
         /\ elapsed' = FALSE
         /\ wanted' = IF method = "reconnect" THEN size ELSE wanted
         /\ again' = (again \/ method = "reconnect")
         /\ current' = IF method = "display-update" /\ layout THEN size
                       ELSE current

\* guac_rdp_disp_set_size() of a user's thread: the width is stored, then the
\* height; the client thread may look in between.
SetWidth(size) ==
    /\ ~died
    /\ dwriter = NoSize
    /\ requests < MaxSizes
    /\ size[2] > 0
    /\ requests' = requests + 1
    /\ \E adjusted \in {Adjusted(size)} :
         /\ requested' = <<adjusted[1], requested[2]>>
         /\ dwriter' = adjusted
         /\ goal' = adjusted
    /\ UNCHANGED <<method, current, wanted, again, elapsed, layout, busy, died>>

\* guac_rect_shrink() divides by the height.
NoHeight(size) ==
    /\ ~died
    /\ dwriter = NoSize
    /\ requests < MaxSizes
    /\ size[2] <= 0
    /\ died' = TRUE
    /\ UNCHANGED <<method, requested, dwriter, current, wanted, again, elapsed,
                   layout, busy, goal, requests>>

SetHeight ==
    /\ ~died
    /\ dwriter /= NoSize
    /\ guac_rdp_disp_update_size(<<requested[1], dwriter[2]>>)
    /\ dwriter' = NoSize
    /\ UNCHANGED <<method, layout, busy, died, goal, requests>>

\* The client thread, each time around.
LoopUpdateSize ==
    /\ ~died
    /\ guac_rdp_disp_update_size(requested)
    /\ UNCHANGED <<method, dwriter, layout, busy, died, goal, requests>>

\* guac_rdp_disp_channel_connected(): the present size becomes the one requested,
\* and what was asked for before is forgotten.
guac_rdp_disp_channel_connected ==
    /\ ~died /\ ~layout
    /\ dwriter = NoSize
    /\ \E adjusted \in {Adjusted(current)} :
         guac_rdp_disp_update_size(adjusted) /\ goal' = adjusted
    /\ layout' = TRUE
    /\ UNCHANGED <<method, dwriter, busy, died, requests>>

\* The connection is made again with the new size, but not while files are open or
\* something is printed (guac_rdp_disp_reconnect_needed()).
guac_rdp_disp_reconnect_complete ==
    /\ ~died
    /\ again /\ ~busy
    /\ again' = FALSE
    /\ elapsed' = FALSE
    /\ current' = wanted
    /\ UNCHANGED <<method, requested, dwriter, wanted, layout, busy, died, goal,
                   requests>>

\* The server opens and closes files, and prints.
BusyChanges ==
    /\ ~died
    /\ busy' = ~busy
    /\ UNCHANGED <<method, requested, dwriter, current, wanted, again, elapsed,
                   layout, died, goal, requests>>

TimePasses ==
    /\ ~died /\ ~elapsed
    /\ elapsed' = TRUE
    /\ UNCHANGED <<method, requested, dwriter, current, wanted, again, layout,
                   busy, died, goal, requests>>

DispInit ==
    /\ method \in {"none", "display-update", "reconnect"}
    /\ requested = NoSize
    /\ dwriter = NoSize
    /\ current = <<1024, 768>>
    /\ wanted = <<1024, 768>>
    /\ again = FALSE
    /\ elapsed = FALSE
    /\ layout = FALSE
    /\ busy = FALSE
    /\ died = FALSE
    /\ goal = <<1024, 768>>
    /\ requests = 0

DispNext ==
    \/ \E size \in Sizes : SetWidth(size) \/ NoHeight(size)
    \/ SetHeight \/ LoopUpdateSize
    \/ guac_rdp_disp_channel_connected \/ guac_rdp_disp_reconnect_complete
    \/ BusyChanges \/ TimePasses

DispSpec == DispInit /\ [][DispNext]_dispVars

\* What guac_rdp_disp_channel_connected() does, for fairness: TLC need not compute a
\* size to find that it may happen.
ChannelConnects ==
    /\ ~died /\ ~layout
    /\ dwriter = NoSize
    /\ layout' = TRUE

\* Users' threads store what they began to; the client thread keeps looking, and
\* connects again when it is to; the channel is connected in the end.
DispFairness ==
    /\ WF_dispVars(SetHeight)
    /\ SF_dispVars(LoopUpdateSize)
    /\ WF_dispVars(guac_rdp_disp_reconnect_complete)
    /\ SF_layout(ChannelConnects)
    /\ WF_dispVars(TimePasses)

\* Whatever is asked for, the server is asked for a size within the limits of
\* the protocol, never with an odd width, also if its products overflow.
SizeLegal ==
    \A size \in {current, wanted} :
        /\ size[1] \in GUAC_RDP_DISP_MIN_SIZE .. GUAC_RDP_DISP_MAX_SIZE
        /\ size[2] \in GUAC_RDP_DISP_MIN_SIZE .. GUAC_RDP_DISP_MAX_SIZE
        /\ size[1] % 2 = 0

\* Once the users ask for nothing more, the desktop gets the size they last
\* asked for: a request that comes too early is made later, and a mixture of
\* two requests, which the client thread may have seen, does not last.  A size
\* that needs a new connection waits until files are closed and printing has
\* ended, which no one promises.
SizeAdopted ==
    method = "display-update" \/ (method = "reconnect" /\ <>[]~busy) =>
        [](requests = MaxSizes => <>(current = goal \/ died))

\* Queued events wake the client's loop and reach the server in order, touches
\* and buttons as users have them; a size sent to the server is one it accepts.
EventsSound ==
  /\ EventsTypeOK
  /\ InputWakes
  /\ ServerFollows
  /\ SizeLegal

=============================================================================
