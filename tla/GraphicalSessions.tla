-------------------------- MODULE GraphicalSessions --------------------------
(***************************************************************************)
(* A session of a plugin that shows a remote desktop: VNC or RDP (vnc.c,   *)
(* rdp.c and the client.c, user.c and input.c of each).  As for the        *)
(* plugins with a terminal, a client thread connects step by step while    *)
(* users come, send input and go, and the process frees everything at the  *)
(* end.  The thread of RDP connects again and again, freeing the display   *)
(* each time: rdp_client->lock is what keeps those who look at it safe.    *)
(*                                                                         *)
(* A thing is "null", "live", or "freed" while something still points to   *)
(* it.  FreeRDP, libvncclient and the servers are external.                *)
(***************************************************************************)
EXTENDS Integers, Sequences, FiniteSets

CONSTANTS
    Visitors,       \* users who may join besides the owner
    Setups,         \* sets of the options that are switched on
    MaxConnections  \* how often RDP connects

GraphicalPlugins == {"vnc", "rdp"}

GUsers == Visitors \cup {"owner"}

GThings == {"settings", "connection", "display", "render", "keyboard",
            "recording", "sftp", "drive", "audio", "job"}

VARIABLES
    gx,           \* the plugin
    setup,        \* options of the owner's settings
    gState,       \* guac_client.state
    gpc,          \* where the client thread is
    gstep,        \* the step of preparing it takes next
    gthing,       \* what exists
    glock,        \* rdp_client->lock: the client thread's hold, and readers
    reconnect,    \* disp->reconnect_needed
    connections,  \* how often RDP has connected
    stopped,      \* guac_argv_stop() was called
    gjoined,      \* user -> "away", "joined" or "left"
    ghandlers,    \* user -> handlers installed
    pending,      \* users not yet promoted
    shown,        \* things the promotion of pending users has looked up
    gfree,        \* next step of the free handler
    gmisuse,      \* <<who, thing, how>>: uses of what does not exist
    gquiet        \* the client thread ended without telling the client

gVars == <<gx, setup, gState, gpc, gstep, gthing, glock, reconnect,
           connections, stopped, gjoined, ghandlers, pending, shown, gfree,
           gmisuse, gquiet>>

userVars == <<gjoined, ghandlers, pending, shown>>
rdpVars == <<glock, reconnect, connections>>

GMisused(who, things) ==
    {<<who, t, gthing[t]>> :
        t \in {u \in things : gthing[u] \in {"null", "freed"}}}

GUses(who, things) == gmisuse' = gmisuse \cup GMisused(who, things)

\* Things that are only used if the pointer to them is not NULL.
Guarded(things) == {t \in things : gthing[t] /= "null"}

SetThings(names, value) ==
    [t \in GThings |-> IF t \in names THEN value ELSE gthing[t]]

-----------------------------------------------------------------------------
(* Preparing.                                                              *)

Prepare(option, creates, failure) ==
    [option |-> option, creates |-> creates, failure |-> failure]

\* guac_vnc_client_thread(): wake the server up, connect (trying several
\* times), then everything else.  The connection is only published to the
\* other threads once SFTP works.
VncSteps ==
    <<Prepare("wol", "", "silently"), Prepare("any", "", "abort"),
      Prepare("audio", "audio", "never"), Prepare("sftp", "sftp", "abort"),
      Prepare("any", "connection", "never"),
      Prepare("recording", "recording", "never"),
      Prepare("any", "display", "never"), Prepare("any", "render", "never")>>

\* guac_rdp_client_thread(), before it connects.
RdpSteps ==
    <<Prepare("wol", "", "silently"), Prepare("audio", "audio", "never"),
      Prepare("drive", "drive", "never"), Prepare("sftp", "sftp", "abort"),
      Prepare("recording", "recording", "never")>>

GSteps == IF gx = "vnc" THEN VncSteps ELSE RdpSteps

PrepareStep ==
    /\ gpc = "prepare"
    /\ gstep <= Len(GSteps)
    /\ LET step == GSteps[gstep]
           wanted == step.option \in setup \cup {"any"}
       IN  /\ IF wanted THEN GUses("client", {"settings"})
              ELSE UNCHANGED gmisuse
           /\ \/ /\ gthing' = IF wanted /\ step.creates /= ""
                              THEN SetThings({step.creates}, "live") ELSE gthing
                 /\ gstep' = gstep + 1
                 /\ UNCHANGED <<gpc, gState, gquiet>>
              \/ /\ wanted
                 /\ step.failure /= "never"
                 /\ gpc' = "end"
                 /\ gState' = IF step.failure = "abort" THEN "STOPPING" ELSE gState
                 /\ gquiet' = (step.failure = "silently")
                 /\ UNCHANGED <<gthing, gstep>>
    /\ UNCHANGED <<gx, setup, rdpVars, stopped, userVars, gfree>>

Prepared ==
    /\ gpc = "prepare"
    /\ gstep = Len(GSteps) + 1
    /\ gpc' = IF gx = "vnc" THEN "loop" ELSE "again"
    /\ UNCHANGED <<gx, setup, gState, gstep, gthing, rdpVars, stopped,
                   userVars, gfree, gmisuse, gquiet>>

-----------------------------------------------------------------------------
(* VNC: messages of the server until the client stops.                     *)

VncMessage ==
    /\ gx = "vnc" /\ gpc = "loop"
    /\ gState = "RUNNING"
    /\ GUses("client", {"connection", "display", "settings", "render"})
    /\ gState' \in {"RUNNING", "STOPPING"}
    /\ UNCHANGED <<gx, setup, gpc, gstep, gthing, rdpVars, stopped, userVars,
                   gfree, gquiet>>

VncEnd ==
    /\ gx = "vnc" /\ gpc = "loop"
    /\ gState = "STOPPING"
    /\ GUses("client", {"render"})
    /\ gthing' = SetThings({"render"}, "null")
    /\ gpc' = "end"
    /\ UNCHANGED <<gx, setup, gState, gstep, rdpVars, stopped, userVars, gfree,
                   gquiet>>

-----------------------------------------------------------------------------
(* RDP: guac_rdp_handle_connection().                                      *)

CanRead == glock.hold /= "write"
CanWrite == glock.hold /= "write" /\ glock.readers = 0

\* The bound on connections ends the session in the place of a user.
RdpDone ==
    /\ gpc = "again"
    /\ gState = "STOPPING" \/ connections = MaxConnections
    /\ gpc' = "end"
    /\ gState' = "STOPPING"
    /\ UNCHANGED <<gx, setup, gstep, gthing, rdpVars, stopped, userVars, gfree,
                   gmisuse, gquiet>>

\* With the write lock held the display is created, and the context of FreeRDP
\* with the keyboard; then the lock is exchanged for one for reading.
RdpBegin ==
    /\ gpc = "again"
    /\ gState = "RUNNING" /\ connections < MaxConnections
    /\ CanWrite
    /\ GUses("client", {"settings"})
    /\ connections' = connections + 1
    /\ \/ /\ gthing' = SetThings({"display", "keyboard"}, "live")
          /\ glock' = [glock EXCEPT !.hold = "read"]
          /\ gpc' = "connecting"
          /\ UNCHANGED gState
       \/ /\ gthing' = SetThings({"display"}, "live")
          /\ gState' = "STOPPING"
          /\ gpc' = "end"
          /\ UNCHANGED glock
    /\ UNCHANGED <<gx, setup, gstep, reconnect, stopped, userVars, gfree, gquiet>>

\* freerdp_connect() may ask the owner for what is missing, and waits for it
\* (rdp_freerdp_authenticate()) until argument streams are stopped.
RdpPrompt ==
    /\ gpc = "connecting"
    /\ "prompt" \in setup
    /\ gpc' = "prompt"
    /\ UNCHANGED <<gx, setup, gState, gstep, gthing, rdpVars, stopped, userVars,
                   gfree, gmisuse, gquiet>>

RdpAnswered ==
    /\ gpc = "prompt"
    /\ stopped \/ gjoined["owner"] = "joined"
    /\ gpc' = "answered"
    /\ UNCHANGED <<gx, setup, gState, gstep, gthing, rdpVars, stopped, userVars,
                   gfree, gmisuse, gquiet>>

\* The connection fails: only the lock is released.
RdpRefused ==
    /\ gpc \in {"connecting", "answered"}
    /\ gState' = "STOPPING"
    /\ glock' = [glock EXCEPT !.hold = "none"]
    /\ gpc' = "end"
    /\ UNCHANGED <<gx, setup, gstep, gthing, reconnect, connections, stopped,
                   userVars, gfree, gmisuse, gquiet>>

RdpAccepted ==
    /\ gpc = "answered" \/ (gpc = "connecting" /\ "prompt" \notin setup)
    /\ GUses("client", {"settings", "display", "keyboard"})
    /\ glock' = [glock EXCEPT !.hold = "none"]
    /\ gpc' = "connected"
    /\ UNCHANGED <<gx, setup, gState, gstep, gthing, reconnect, connections,
                   stopped, userVars, gfree, gquiet>>

\* The connection is published with the write lock held.
RdpConnected ==
    /\ gpc = "connected"
    /\ CanWrite
    /\ gthing' = SetThings({"connection"}, "live")
    /\ reconnect' = FALSE
    /\ gpc' = "render"
    /\ UNCHANGED <<gx, setup, gState, gstep, glock, connections, stopped,
                   userVars, gfree, gmisuse, gquiet>>

RdpRender ==
    /\ gpc = "render"
    /\ gthing' = SetThings({"render"}, "live")
    /\ gpc' = "loop"
    /\ UNCHANGED <<gx, setup, gState, gstep, rdpVars, stopped, userVars, gfree,
                   gmisuse, gquiet>>

\* Not while something is printed.  (Nor while files are open on the drive, which
\* are not told apart from it here.)
guac_rdp_disp_reconnect_needed == reconnect /\ gthing["job"] = "null"

RdpLooping == gx = "rdp" /\ gpc = "loop"

\* Events of the server and of the users are handled: a print job may begin or
\* end, and the server may close the connection.
RdpEvents ==
    /\ RdpLooping
    /\ gState = "RUNNING"
    /\ ~guac_rdp_disp_reconnect_needed \/ gthing["drive"] /= "null"
    /\ GUses("client", {"settings", "connection", "display", "render", "keyboard"}
                           \cup Guarded({"recording"}))
    /\ \/ gState' \in {"RUNNING", "STOPPING"} /\ UNCHANGED gthing
       \/ /\ "print" \in setup
          /\ gthing["job"] /= "freed"
          /\ gthing' = SetThings({"job"}, IF gthing["job"] = "live" THEN "null"
                                          ELSE "live")
          /\ UNCHANGED gState
    /\ UNCHANGED <<gx, setup, gpc, gstep, rdpVars, stopped, userVars, gfree,
                   gquiet>>

\* Mutant: the display is torn down while those who join look at it.
MutantRdpLeaveLoop ==
    /\ RdpLooping
    /\ GUses("client", Guarded({"job"}))
    /\ glock' = [glock EXCEPT !.hold = "write"]
    /\ gthing' = [SetThings({"render"}, "null") EXCEPT !["job"] =
                        IF gthing["job"] = "null" THEN "null" ELSE "freed"]
    /\ gpc' = "teardown"
    /\ UNCHANGED <<gx, setup, gState, gstep, reconnect, connections, stopped,
                   userVars, gfree, gquiet>>

\* The loop ends because the client stops, because the size is to change, or
\* because waiting for events fails, which is not reported.
RdpLeaveLoop ==
    /\ RdpLooping
    /\ CanWrite
    /\ GUses("client", Guarded({"job"}))
    /\ glock' = [glock EXCEPT !.hold = "write"]
    /\ gthing' = [SetThings({"render"}, "null") EXCEPT !["job"] =
                        IF gthing["job"] = "null" THEN "null" ELSE "freed"]
    /\ gpc' = "teardown"
    /\ UNCHANGED <<gx, setup, gState, gstep, reconnect, connections, stopped,
                   userVars, gfree, gquiet>>

\* The display is freed, then the connection; pointers are reset after that.
RdpFreeDisplay ==
    /\ gpc = "teardown"
    /\ GUses("client", {"connection", "display"})
    /\ gthing' = SetThings({"display"}, "freed")
    /\ gpc' = "teardown_connection"
    /\ UNCHANGED <<gx, setup, gState, gstep, rdpVars, stopped, userVars, gfree,
                   gquiet>>

RdpFreeConnection ==
    /\ gpc = "teardown_connection"
    /\ gthing' = [SetThings({"display"}, "null") EXCEPT !["connection"] = "freed"]
    /\ gpc' = "teardown_rest"
    /\ UNCHANGED <<gx, setup, gState, gstep, rdpVars, stopped, userVars, gfree,
                   gmisuse, gquiet>>

RdpFreeRest ==
    /\ gpc = "teardown_rest"
    /\ gthing' = SetThings({"connection", "keyboard"}, "null")
    /\ glock' = [glock EXCEPT !.hold = "none"]
    /\ gpc' = "again"
    /\ UNCHANGED <<gx, setup, gState, gstep, reconnect, connections, stopped,
                   userVars, gfree, gmisuse, gquiet>>

ClientThread ==
    \/ PrepareStep \/ Prepared
    \/ VncMessage \/ VncEnd
    \/ RdpDone \/ RdpBegin \/ RdpPrompt \/ RdpAnswered \/ RdpRefused
    \/ RdpAccepted \/ RdpConnected \/ RdpRender \/ RdpEvents \/ RdpLeaveLoop
    \/ RdpFreeDisplay \/ RdpFreeConnection \/ RdpFreeRest

-----------------------------------------------------------------------------
(* The users.                                                              *)

\* Handlers installed by the join handlers.
VncHandlers(u) ==
    (IF u = "owner" THEN {"argv"} ELSE {})
    \cup (IF "readonly" \in setup /\ u /= "owner" THEN {}
          ELSE {"mouse", "key", "clipboard"}
               \cup (IF "sftp" \in setup THEN {"file"} ELSE {})
               \cup (IF u = "owner" THEN {"size"} ELSE {}))

RdpHandlers(u) ==
    (IF u = "owner" /\ "microphone" \in setup THEN {"microphone"} ELSE {})
    \cup (IF "readonly" \in setup /\ u /= "owner" THEN {}
          ELSE {"mouse", "key", "touch", "clipboard", "size", "file", "pipe"}
               \cup (IF u = "owner" THEN {"argv"} ELSE {}))

GHandlers(u) == IF gx = "vnc" THEN VncHandlers(u) ELSE RdpHandlers(u)

GJoinOwner ==
    /\ gjoined["owner"] = "away"
    /\ gthing' = SetThings({"settings"}, "live")
    /\ \/ /\ gpc' = "prepare"
          /\ gjoined' = [gjoined EXCEPT !["owner"] = "joined"]
          /\ ghandlers' = [ghandlers EXCEPT !["owner"] = GHandlers("owner")]
          /\ UNCHANGED gState
       \/ /\ gpc' = "end"
          /\ gState' = "STOPPING"
          /\ gjoined' = [gjoined EXCEPT !["owner"] = "left"]
          /\ UNCHANGED ghandlers
    /\ UNCHANGED <<gx, setup, gstep, rdpVars, stopped, pending, shown, gfree,
                   gmisuse, gquiet>>

GJoin(u) ==
    /\ u \in Visitors
    /\ gjoined[u] = "away"
    /\ gjoined["owner"] /= "away"
    /\ gState = "RUNNING"
    /\ gjoined' = [gjoined EXCEPT ![u] = "joined"]
    /\ ghandlers' = [ghandlers EXCEPT ![u] = GHandlers(u)]
    /\ pending' = pending \cup {u}
    /\ UNCHANGED <<gx, setup, gState, gpc, gstep, gthing, rdpVars, stopped,
                   shown, gfree, gmisuse, gquiet>>

\* The pending users are shown what there is; RDP looks while it holds the lock.
join_pending_handler ==
    /\ pending /= {}
    /\ shown = {}
    /\ gx = "rdp" => CanRead
    /\ glock' = [glock EXCEPT !.readers = IF gx = "rdp" THEN 1 ELSE 0]
    /\ shown' = Guarded({"display", "audio"}) \cup {"settings"}
    /\ UNCHANGED <<gx, setup, gState, gpc, gstep, gthing, reconnect,
                   connections, stopped, gjoined, ghandlers, pending, gfree,
                   gmisuse, gquiet>>

Promoted ==
    /\ shown /= {}
    /\ GUses("pending", shown)
    /\ glock' = [glock EXCEPT !.readers = 0]
    /\ shown' = {}
    /\ pending' = {}
    /\ UNCHANGED <<gx, setup, gState, gpc, gstep, gthing, reconnect,
                   connections, stopped, gjoined, ghandlers, gfree, gquiet>>

\* What the handlers use.
VncHandlerUses(h) ==
    CASE h = "mouse"     -> {"render"} \cup Guarded({"recording", "connection"})
      [] h = "key"       -> Guarded({"recording", "connection"})
      [] h = "clipboard" -> Guarded({"connection"})
      [] h = "size"      -> {"connection"}
      [] h = "file"      -> {"sftp"}
      [] OTHER           -> {}

\* Input only goes to the queue the client thread reads.
RdpHandlerUses(h) ==
    CASE h = "size" -> {"settings"} \cup Guarded({"connection"})
      [] h = "file" -> {"settings"} \cup Guarded({"sftp", "drive"})
      [] OTHER      -> {}

GHandle(u, h) ==
    /\ gjoined[u] = "joined"
    /\ h \in ghandlers[u]
    /\ GUses("user", IF gx = "vnc" THEN VncHandlerUses(h) ELSE RdpHandlerUses(h))
    \* With the resize method "reconnect", a new size asks for a new connection.
    /\ reconnect' = (reconnect \/ (gx = "rdp" /\ h = "size"))
    /\ UNCHANGED <<gx, setup, gState, gpc, gstep, gthing, glock, connections,
                   stopped, userVars, gfree, gquiet>>

\* The display is told, if there is one; RDP does not take the lock for that.
GLeave(u) ==
    /\ gjoined[u] = "joined"
    /\ u \notin pending
    /\ gjoined' = [gjoined EXCEPT ![u] = "left"]
    /\ GUses("leave", Guarded({"display"}))
    /\ gState' = IF \A v \in GUsers \ {u} : gjoined[v] /= "joined"
                 THEN "STOPPING" ELSE gState
    /\ UNCHANGED <<gx, setup, gpc, gstep, gthing, rdpVars, stopped, ghandlers,
                   pending, shown, gfree, gquiet>>

-----------------------------------------------------------------------------
(* Freeing.                                                                *)

\* guac_vnc_client_free_handler(): the display is stopped while the thread, and its
\* render thread, may still be drawing; the thread is only waited for, and the
\* connection freed, if the thread had connected when this was looked at.
VncFree ==
    <<<<"halt", "display">>, <<"join", "connection">>,
      <<"free with the above", "connection">>, <<"free", "sftp">>,
      <<"free", "recording">>, <<"free", "display">>, <<"free", "audio">>,
      <<"free", "settings">>>>

\* Mutant: argument streams are not stopped.
MutantRdpFree ==
    <<<<"join", "settings">>, <<"free", "settings">>,
      <<"free", "drive">>, <<"free", "job">>, <<"free", "sftp">>,
      <<"free", "recording">>, <<"free", "audio">>>>

\* guac_rdp_client_free_handler(): waiting for arguments is ended first.
RdpFree ==
    <<<<"stop", "settings">>, <<"join", "settings">>, <<"free", "settings">>,
      <<"free", "drive">>, <<"free", "job">>, <<"free", "sftp">>,
      <<"free", "recording">>, <<"free", "audio">>>>

\* Parts that free nothing.
Kept == {"halt", "join", "stop"}

GFreeParts == IF gx = "vnc" THEN VncFree ELSE RdpFree

GStartFree ==
    /\ gfree = 0
    /\ gState = "STOPPING"
    /\ \A u \in GUsers : gjoined[u] /= "joined"
    /\ gfree' = 1
    /\ UNCHANGED <<gx, setup, gState, gpc, gstep, gthing, rdpVars, stopped,
                   userVars, gmisuse, gquiet>>

GFreePart ==
    /\ gfree \in 1 .. Len(GFreeParts)
    /\ LET what == GFreeParts[gfree][1]
           of == GFreeParts[gfree][2]
           there == gthing[of] /= "null"
       IN  /\ (what = "join" /\ there) => gpc = "end"
           /\ stopped' = (stopped \/ what = "stop")
           /\ gthing' = IF what \notin Kept /\ there
                        THEN SetThings({of}, "freed") ELSE gthing
           /\ IF what \notin {"join", "stop"} THEN GUses("process", Guarded({of}))
              ELSE UNCHANGED gmisuse
           /\ gfree' = IF what = "join" /\ gx = "vnc" /\ ~there THEN gfree + 2
                       ELSE gfree + 1
    /\ UNCHANGED <<gx, setup, gState, gpc, gstep, rdpVars, userVars, gquiet>>

GFreed == gfree = Len(GFreeParts) + 1

-----------------------------------------------------------------------------

GraphicalInit ==
    /\ gx \in GraphicalPlugins
    /\ setup \in Setups
    /\ gState = "RUNNING"
    /\ gpc = "idle"
    /\ gstep = 1
    /\ gthing = [t \in GThings |-> "null"]
    /\ glock = [hold |-> "none", readers |-> 0]
    /\ reconnect = FALSE
    /\ connections = 0
    /\ stopped = FALSE
    /\ gjoined = [u \in GUsers |-> "away"]
    /\ ghandlers = [u \in GUsers |-> {}]
    /\ pending = {}
    /\ shown = {}
    /\ gfree = 0
    /\ gmisuse = {}
    /\ gquiet = FALSE

GHandlerNames == {"mouse", "key", "touch", "clipboard", "size", "file", "pipe",
                  "argv", "microphone"}

GraphicalNext ==
    \/ ClientThread
    \/ GJoinOwner \/ join_pending_handler \/ Promoted
    \/ \E u \in GUsers : GJoin(u) \/ GLeave(u)
    \/ \E u \in GUsers, h \in GHandlerNames : GHandle(u, h)
    \/ GStartFree \/ GFreePart

GraphicalSpec == GraphicalInit /\ [][GraphicalNext]_gVars

\* The threads run; connecting ends, one way or the other.
GraphicalFairness ==
    /\ WF_gVars(ClientThread)
    /\ WF_gVars(join_pending_handler)
    /\ WF_gVars(Promoted)
    /\ WF_gVars(GFreePart)

-----------------------------------------------------------------------------
(* Properties.                                                             *)

GraphicalTypeOK ==
    /\ gState \in {"RUNNING", "STOPPING"}
    /\ gpc \in {"idle", "prepare", "loop", "again", "connecting", "prompt",
                "answered", "connected", "render", "teardown",
                "teardown_connection", "teardown_rest", "end"}
    /\ gstep \in 1 .. Len(GSteps) + 1
    /\ gthing \in [GThings -> {"null", "live", "freed"}]
    /\ glock \in [hold : {"none", "read", "write"}, readers : 0 .. 1]
    /\ glock.hold = "write" => glock.readers = 0
    /\ gjoined \in [GUsers -> {"away", "joined", "left"}]
    /\ pending \subseteq {u \in Visitors : gjoined[u] = "joined"}
    /\ shown \subseteq {"settings", "display", "audio"}
    /\ gfree \in 0 .. Len(GFreeParts) + 1

\* The thread of RDP only ever touches what exists, connecting as often as it
\* likes, and that of VNC too if it was waited for.  (A print job is freed at
\* the end of a connection and again later: rdp.c, client.c.)
ClientThreadSafe ==
    (gx = "rdp" \/ gthing["connection"] = "freed") =>
        \A m \in gmisuse : m[1] = "client" => m[2] = "job"

\* A connection of RDP begins with nothing left over from the one before, and
\* while none is up nothing of it can be found.
ConnectionsClean ==
    /\ gpc = "again" =>
            \A t \in {"connection", "display", "render", "keyboard"} :
                gthing[t] = "null"
    /\ (gx = "rdp" /\ gthing["connection"] = "live") =>
            gthing["keyboard"] = "live"

\* Users who join while RDP connects again are never shown a display that is
\* being freed: the lock is held until they have seen it.
PendingUsersSafe == \A m \in gmisuse : m[1] = "pending" => m[3] /= "freed"

\* A client thread that has ended has stopped the client, whatever failed (but
\* for the wake-up packet).
GraphicalEndedIsStopped == gpc = "end" /\ ~gquiet => gState = "STOPPING"

\* Freeing the client ends once begun, although RDP may be waiting for its
\* owner to enter a password and for the lock.
GraphicalFreeingEnds == [](gfree /= 0 => <>GFreed)

\* The client thread of RDP, and of VNC if it was waited for, uses nothing that
\* does not exist; each connection starts clean; users who join are never shown
\* what is being freed; and a thread that ended has stopped the client.
GraphicalSound ==
  /\ GraphicalTypeOK
  /\ ClientThreadSafe
  /\ ConnectionsClean
  /\ PendingUsersSafe
  /\ GraphicalEndedIsStopped

=============================================================================
