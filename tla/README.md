# A TLA+ model of guacamole-server

guacamole-server is the native side of Apache Guacamole. The daemon `guacd`
accepts connections in the Guacamole protocol and starts one child process per
remote desktop; the child, through `libguac` and one protocol plugin (RDP, VNC,
SSH, telnet or Kubernetes), sends what happens on the remote desktop to every
user who has joined. This project models those parts that have state and control
of their own, checks them on small instances, and proves for all instances what
the rest leans on: the queue, the locks, the pools of indices, the frames of the
display, the lists of users, the sockets, the routing of connections and the life of
the plugins' sessions.

    tlc -config <file>.cfg <module>      a run of section 3
    tlapm <module>Proofs.tla             the theorems of section 4

`PROJECT.json` lists runs, mutants, theorems, components, hazards at their lines,
and for each definition the source lines it stands for.

## 1. Inventory

### How the parts fit together

    user                guacd (parent)              child process of one connection
    ----                --------------              -------------------------------
    TCP/TLS --accept--> connection thread           main thread: receives descriptors
                        process map      --fd-->    one thread per user: handshake, input
                        I/O threads                 promoter: pending users -> users
                                                    plugin threads: remote desktop <-> libguac
                                                    render thread: ends frames
                                                    display workers: encode and send
                                                        |
    user <--socket pair--- I/O threads <------------ broadcast socket walks the users
                                                    recording (tee) --> guacenc, guaclog

* The **routing** threads of the parent find or create the process of a
  connection and pass the user's descriptor to it.
* In the child the **user lists** are walked by every instruction broadcast, while
  users join, are promoted, leave, and the connection is freed.
* The **readers-writer lock** guards these lists and both frames of the display,
  and is taken recursively by callbacks.
* The **display** lets plugins draw the next frame while workers still send the
  last; the **FIFO** passes operations from who ends a frame to the workers; the
  **render thread** decides when a frame ends.
* **Sockets** keep instructions of several threads whole; the **parser** takes
  them apart again; **streams** carry files, clipboard, audio and argument values.
* The **plugins** join the libraries of remote desktops to all of this: settings,
  threads that live as long as a session, input, redirected devices, files.
* The **terminal** is the remote desktop of the text plugins.
* **guacenc** and **guaclog** read recordings back.

### Components

| component | state it keeps | operations | what is hard | correct when | module |
|---|---|---|---|---|---|
| event flags | value, recursive mutex, condition | set, clear, wait | one condition for sleepers of different wishes | no wakeup is lost | `GuacFlag` |
| FIFO | ring, count, flag | enqueue, dequeue, lock, invalidate | bits that shadow a count; sleeping with a recursive lock | it is a bounded queue, its `abort()` unreachable | `GuacFifo`, `BoundedQueue` |
| readers-writer lock | pthread lock, a packed word per thread | acquire, release | nesting, upgrades, overflow of the count | words tell the truth, writers are alone | `GuacRWLock` |
| pools and indices | free integers, counters, array entries | allocate, free, five kinds | encode/decode pairs, limits, updates in two steps | indices in use are distinct, none is lost | `GuacPool`, `PooledIndices` |
| users of a client, guacd's child | two lists, two locks, owner, count | join, promote, walk, leave, stop, free | all of it while the process is stopped and freed | each user on one list, walkers safe, the process ends | `ClientUsers` |
| routing | map of processes, descriptors in flight | accept, create, join, remove, stop | a process ends while others join it; each step may fail | nothing freed is used, each resource freed once | `GuacdRouting` |
| render thread | flag, counted boundaries, cursor | notify, end frames, destroy | flags set while a frame is being ended | no boundary lost, cursor current | `DisplayRender` |
| display frames | pending and last frame, queue, workers, deferral | draw, end frame, encode, dup, stop | work planned from one frame and done later | images belong to their frame, nothing is forgotten | `DisplayFrames` |
| display layers, plan passes | layers, cells, buffers, operations | draw, resize, copy, optimise | a plan must draw the frame whatever it combines | users see what was drawn | `DisplayLayers`, `DisplayPlan` |
| protocol, parser | buffer, positions, elements | send, append, read, shift | partial reads, compaction | what is read is what was sent | `GuacParser` |
| sockets, recording | buffers, locks, broadcast | write, flush, instruction begin/end, keep-alive | several writers; users that join or break | whole instructions in order | `GuacSockets` |
| streams, arguments, clipboard | streams, values, texts | open, blob, end, await, copy, paste | several users at once; late and repeated values | values are those sent | `UserStreams` |
| terminal | ring of rows, cursor, escape state, selection, pending drawing | write, scroll, resize, select, render | ring arithmetic, deferred drawing | the screen shows the buffer | `TerminalDisplay`, `Terminal`, `TerminalSession` |
| plugin settings | structures, arguments | parse, push, free | indices of arguments vary with the build | each setting from its own argument | `GraphicalSettings`, `PluginSettings` |
| plugin sessions | threads, handlers, parts of a session | connect, join, leave, free | handlers run while the session is freed | nothing freed is used, freeing ends | `TextSessions`, `GraphicalSessions` |
| SSH rules, logger, SFTP | rules, line buffer; handles, transfers | type, check, log; list, get, put | what is checked against what is run | only what is allowed is run; files stay below the root | `SshCommands`, `SftpFiles` |
| RDP channels | keys, events, size, jobs, files, audio | input, resize, print, transfer, speak | callbacks of several threads; reconnecting | the server gets what users did | `RdpKeyboard`, `RdpEvents`, `RdpDevices`, `RdpDrive`, `RdpAudioInput` |
| helpers | none | rectangles, checked sizes, bounded text, encodings | boundaries | they agree with their definitions | `GuacCommon` |
| guacenc, guaclog | layers, video; keys held | instructions of a recording | order, interleaved streams | the video is the picture, the log what was typed | `Guacenc`, `Guaclog` |

Section 5 lists what is left out.

## 2. Modules and the code

What a thread does between two points at which it may wait, or where another
thread can see a difference, is one action. A lock only taken and given back
within an action is a guard (it must be free); one kept across a wait is a
variable. Linked lists are sequences. Definitions keep the names of the functions
they stand for; where a function is several steps, the steps have names of their
own and `map` gives their lines. Small helpers that stand for part of a listed
definition's lines have no entry of their own.

| module | models | notes |
|---|---|---|
| `GuacFlag` | `flag.c` | operators on a record; condition and mutex are external |
| `GuacFifo` | `fifo.c` | `call[t]` is the call a thread sleeps in, `held[t]` the lock levels it was told it holds; spurious wakeups and timeouts are actions |
| `BoundedQueue` | what the FIFO promises | abstract specification |
| `GuacRWLock` | `rwlock.c` | an acquisition that waits is two steps; `depth` counts acquisitions independently of the packed word |
| `GuacPool`, `PooledIndices` | `pool.c`; allocation and release in `client.c`, `user.c` | stream and object indices are allocated in two steps, the pool's and the array entry's |
| `ClientUsers` | `client.c`, `guacd/proc.c`, `user-handshake.c` | a thread per user, promoter, walker, main and freer |
| `GuacdRouting` | `daemon.c`, `connection.c`, `proc-map.c`, parent's half of `proc.c` | memory, sockets and parsers have owners and may be freed twice in the model |
| `DisplayRender` | `display-render-thread.c` | counts of drawings, boundaries and movements stand for their contents |
| `DisplayFrames` | `display-flush.c`, `display-worker.c`, `display.c` | a frame is a version number, a plan the number of its images |
| `DisplayPlan`, `DisplayLayers` | `display-plan*.c`; `display-layer*.c`, `display-cursor.c` | the passes as operators on pixels; every call of the API as an action; what a client shows |
| `GuacCommon` | `rect.c` (twice), `mem.c`, `string.c`, `unicode.c`, `iconv.c` | operators, with reference definitions |
| `GuacParser` | `protocol.c`, `parser.c` | instructions as sequences of elements, the buffer with its positions |
| `GuacSockets` | `socket-fd.c`, `socket-broadcast.c`, `socket-tee.c`, `socket.c`, `recording.c` | who may write between begin and end of an instruction; a descriptor takes any number of the writes in a buffer before it refuses one, and may be tried again |
| `UserStreams` | `user.c`, `user-handlers.c`, `argv.c`; `cliprdr.c`, `vnc/clipboard.c`, `common/clipboard.c` | callbacks may refuse a value; a look at the channel and its use are two steps |
| `TerminalDisplay` | `terminal/display.c`, `buffer.c` | deferred operations and the ring |
| `Terminal`, `TerminalSession` | `terminal.c`, `select.c`, `scrollbar.c`; `terminal-handlers.c`, render thread, keys, streams | everything done with the lock held is one step; a change of colours or font draws row by row without it |
| `GraphicalSettings`, `PluginSettings` | `*/settings.c`, `rdp/resolution.c` | one argument is given at a time, in several builds |
| `TextSessions` | SSH, telnet and Kubernetes sessions; login of telnet; queue of Kubernetes | what is freed is kept as "freed", uses of it are recorded |
| `GraphicalSessions` | VNC and RDP sessions, reconnecting | the same |
| `SshCommands`, `SftpFiles` | `command-acl.c`, `command_logger.c`, SSH input; `common-ssh/sftp.c`, `json.c` | the line the server has is kept beside the copy that is checked; Tab and Ctrl-U stand for the keys that edit the one and not the other |
| `RdpKeyboard`, `RdpEvents`, `RdpDevices`, `RdpDrive`, `RdpAudioInput` | `keyboard.c`, `decompose.c`, `unicode.c`; `input-queue.c`, `rdpei.c`, `disp.c`; `rdpdr*.c`, `print-job.c`; `fs.c`, `download.c`, `upload.c`, `ls.c`; `audio-input`, `guacai` | `RdpEvents` resets the event after each wait, unlocked; `guac_rdp_fs_open()` of `RdpDrive` is three steps and `guac_rdp_fs_close()` two, made by the thread of the channel and the owner's |
| `Guacenc`, `Guaclog` | `guacenc/`, `guaclog/` | |
| `ListLemmas`, `LockingProofs`, `PooledIndicesProofs`, `ClientUsersProofs`, `DisplayFramesProofs`, `GuacSocketsProofs`, `GuacdRoutingProofs`, `PluginProofs` | theorems | section 4; `LockingProofs` is about flags, FIFO, lock and render thread, `PluginProofs` about `TextSessions`, `GraphicalSessions` and `RdpEvents` |
| `MC...` | instances for TLC | parts that share no state run side by side in one module: `part` says which one moves |

## 3. Runs

Each property is a conjunction of named parts, defined and explained beside the
model. Each has a mutant of the code that breaks it.

| run | properties | distinct states | instance |
|---|---|---|---|
| `shared` | `FifoSound`, `ImplementsBoundedQueue`, `IndicesSound`, `NoneLost` | 193,720 | 3 threads, 2 items, capacity 2, locks 2 deep; 3 handles, pools of 2, limit 2, four kinds; symmetric |
| `fifo_live` | `SleepersReturn`, `RenderSound`, `RenderProgress` | 45,635 | 3 threads, capacity 1; 2 drawings, 1 move, 2 boundaries |
| `rwlock` | `LockSound`, `ReaderGetsLock` | 312 | 3 threads, words up to 47: two levels |
| `client_users` | `ListsSound`, `StableWhileIterated`, `UsersProgress` | 16,680 | owner and one more user |
| `routing` | `RoutingSound`, `OwnershipKept`, `RoutingProgress` | 262,344 | 2 connections that create, 1 that joins, one bucket |
| `display` | `FramesWhole`, `StableDuringDup`, `EndedIsShown`, `CallersReturn` | 169,782 | 2 workers, 1 renderer, 1 joining user, 2 stoppers, 2 drawings, 1 image |
| `display_dup` | `DupReturns`: violated | 5,257 | 1 worker |
| `display_layers` | `PictureSound`, `VideoSound`, `TimelineKept`, `KeysKept` | 191,273 | scripts of drawing on 6 x 4 pixels in cells of 2 x 2; recordings; keys up to 5 events; samples for the helpers |
| `terminal` | `ScreenCurrent`, `TextKept`, `HighlightIsClipboard`, `OutputDelivered` | 238,978 | 2 x 3 screen, ring of 8 rows, nine kinds of scenario |
| `wire` | `ParserSound`, `SocketsSound`, `StreamsSound`, `DriveSound` | 858,481 | a buffer of 56 bytes, reads of 1, 11 and 40; 2 users, broadcaster, keep-alive, recorder; 2 arguments, 4 instructions, a value that is refused; 2 texts on a clipboard of 8 bytes; 2 threads on a drive with 2 file ids, 2 requests |
| `plugins` | `SettingsSound`, `TextSound`, `GraphicalSound`, `CommandsSound`, `SessionsEnd` | 508,708 | every argument in 4 builds; owner and guest; queue of 2; 4 lines of rules, lines of 3, Tab and Ctrl-U; a tree of depth 2 with links within the root and out of it, 2 transfers |
| `rdp` | `KeyboardSound`, `EventsSound`, `ChannelsSound`, `RdpProgress` | 199,950 | 13 key mappings, 3 keys held; 2 touches, queue of 2, 3 inputs; 4 sizes, one without height, one that overflows; 2 print jobs; 2 streams of audio |

### What the runs show

* `shared`, `fifo_live`: the FIFO never aborts, loses a wakeup, or hands out an item
  twice; every call takes effect at one step of a bounded queue; who sleeps in it
  returns after invalidation. Indices in use are distinct and none is lost. The
  render thread loses no boundary and can be destroyed at any time.
* `rwlock`: the thread-local words agree with the pthread lock across nesting,
  upgrades and the limit of the word; a waiting reader is served.
* `client_users`, `routing`: users join, are promoted and leave, and processes are
  made, found and removed, in any order and with every failure, without using what
  was freed or freeing twice, up to the exceptions named under *defects*.
* `display`, `display_layers`: images are encoded from the frame they belong to, the
  end of a frame follows all its images, a deferred frame is not forgotten, all of it
  also while the display is stopped in the middle of a frame, as VNC does; and
  whatever copies, rectangles and combinations a plan consists of, users see what
  was drawn.
* `terminal`: once drawn, the screen shows the rows in view; text that scrolled out
  is not changed; what is selected is what reaches the clipboard; output written is
  displayed or reaches its pipe.
* `wire`: instructions survive any cutting of the stream and stay whole when several
  threads write; a part is passed on twice only where a descriptor refused a buffer
  halfway; values, texts and files arrive as they were sent; ids of files on the drive
  stay distinct though two threads use its table without a lock.
* `plugins`, `rdp`: settings come from their own argument in every build; handlers and
  threads do not touch what was freed, except where listed; freeing ends; what users
  type, touch, print and say reaches the server as meant. A line that is not allowed runs
  only if keys of the server's line editor were typed in it, and what is outside of the
  SFTP root is opened only by way of a link.

A part with a *known defect* (below) states its property outside the states that the
defect produces: such states are named in the model (`Misused`, `KnownKeys`, history
variables), so that anything else that goes wrong still violates the property.

### Why the bounds are enough to meet the interesting cases

* FIFO: with three threads two can sleep for different reasons while a third wakes
  them; with capacity 2 the ring wraps while it holds an item. The theorem removes
  the bounds.
* Lock: only the quotient of the largest word by 16 matters; with 47, reentry,
  upgrade and overflow meet, and a third thread comes between the halves of
  another's upgrade.
* Indices: three handles exhaust pools of two, which are then refilled.
* Users, routing: one user beside the owner is the least with which one is promoted
  while the other leaves; a third connection joins a process while a second is made
  and removed in the same bucket.
* Display: one image and the end of a frame keep two workers busy; a frame is
  deferred once there are two drawings; of two stoppers one finds the other at work.
  Layers have 2 x 3 cells, so that rows and columns combine, copies overlap and
  hashes collide.
* Terminal: 2 x 3 with a ring of 8 rows makes the ring wrap within a scenario; the
  least word (16) wraps with it.
* Parser: a buffer of 56 bytes has to be compacted within the second instruction.
* Arguments: four instructions are what two users need to open and end a stream each
  for the same argument.
* Plugins and RDP: an owner and one guest; queues that fill; a third touch when two
  are tracked; a third key while two modifiers are held. On the drive a request of each
  of the two threads at the same time is enough to pass the limit of ids.

### Fairness

* Who waits for a mutex or lock that is free again and again gets it: strong fairness
  of the grant. Who holds a lock releases it.
* Threads run: weak fairness of each thread's next step that needs nobody else, in
  `GuacdRouting` of the daemon, each routing thread and each child; in the sessions of
  the client thread, the input thread and the freeing of parts; in the terminal of
  the render thread.
* Time passes: `GUACD_CLIENT_FREE_TIMEOUT` (only in `UsersProgress`), the limit on a
  frame, the delay of a resize, the time at which audio is due.
* Nothing is assumed of users (arriving, typing, acknowledging, leaving), of servers,
  of signals, of spurious wakeups or of timed waits; nobody has to draw, end a frame,
  print or speak. Two exceptions, stated where used: the owner's client acknowledges
  blobs of a print job, and the filter of a print job goes on. That files on the drive
  are closed and printing ends at last is no fairness but the hypothesis under which
  `SizeAdopted` speaks of the method "reconnect".
* A writer of `GuacRWLock` is promised nothing: the pthread lock may prefer readers.


### Finding

`display_dup` checks `DupReturns`: a user who joins is synchronized. It fails:
`guac_display_dup()` holds `last_frame.lock` and `render_state` when it takes
`pending_frame.lock` for the bounds of each layer (`display.c:259`), and the end of a
frame takes `last_frame.lock` while it holds `pending_frame.lock`, the order that
`display-priv.h:86` prescribes ("Acquiring these locks in any other order risks
deadlock. Don't do it."). A user who joins while a frame is ended stops both threads and
the display with them. In the run `display` everything else is checked in spite of it:
`CallersReturn` says that `guac_display_dup()` returns unless exactly this cycle of
locks (`LockCycle`) closes.

### Known defects

Met while modelling, followed in the models, and excepted from the properties in the
states they produce. Only the first above is a run of its own.

**Display.** `guac_display_dup()` sends the bounds of the pending frame with the
picture of the last. An external buffer of NULL makes the plan loop for ever
(`display-plan.c`), so that `guac_display_stop()` never returns. A COPY onto a layer
that is not opaque is not cleared first. A layer that shrinks and grows again, or
whose external buffer is replaced without being marked, keeps a stale picture. A
cursor of which only size or hotspot change is not sent again
(`display-worker.c`, against `display.h:440`). Freeing a layer that was never flushed
aborts (`display-layer-list.c:327`). The index of `last_frame_buffer` is used again
without a dispose. A layer of exactly 64 x 64 never gets a "size". The render thread
loses a movement of the mouse at an explicit frame boundary, and spins for up to
100 ms when it is stopped; `display.h:790` says that heuristics stop after
`guac_display_render_thread_notify_frame()`, which they do not. Extending a rectangle
by an empty one extends it to the origin.

**Connections.** `guac_client_free()` joins the thread of pending users while it holds
the lock that thread needs, and frees users whose threads remove them again. The
process found in the map may be freed before the user is added to it. The handshake
frees its parser twice if a handler fails and never if the number of arguments is
wrong; `protocol_version` is set after the user was added. A timeout above 4294 ms
wraps (`flag.c:156`). `guac_client_free_layer()` gives back an index that is one more
than the pooled one (`client.c:89`, against `tests/pool/next_free.c:31`), so a later
layer may get an index in use: `Kinds` of the theorem excludes layers for this reason.

**Sockets, parser, arguments.** `guac_socket_fd_write()` writes in parts
(`socket-fd.c:99-123`) and `guac_socket_fd_flush()` keeps all of its buffer when one is
refused (`:189-192`), so that a flush that is tried again sends what was taken once
more: `WrittenOnce` excepts sockets to which this happened (`torn`). A user promoted
between begin and end of a broadcast gets part of an instruction, and its lock is
released by a thread that does not hold it. A socket's data is freed before it is marked
closed and its keep-alive thread ends. `ssh.c:434` starts a second keep-alive thread.
Errors of writing inside base64 are dropped. After a timeout `guac_parser_read()` has
lost its positions, though `parser.h` says to call it again; an instruction of exactly
the greatest number of elements is accepted or refused depending on where reads end. An
argument registered both ONCE and ECHO would echo a value that was not applied; one
registered again never counts as received. A value that its callback refuses counts as
received and is not echoed (`argv.c:261-266`).

**Plugins.** SSH, telnet and Kubernetes handlers use a terminal that may not exist yet.
Telnet frees the terminal and recording before it joins its thread; SSH does not join it
if the terminal was not created; Kubernetes frees what handlers of users may be using,
and VNC does not join a thread that is not connected (it stops the display first, at
`vnc/client.c:137`, while its render thread may be ending a frame, which `DisplayFrames`
shows to be harmless). Login regexes of telnet are freed while they may be in use. VNC's
handlers use a render thread that may be NULL. RDP's leave and size handlers look at the
display while it is freed; a failed `freerdp_connect()` leaves display, keyboard and
list unfreed (`rdp.c:719`); a print job is freed at the end of a connection and again
later (`rdp.c:663`); a failed wait reconnects without a word (`rdp.c:618`). Touches and
the mouse mask survive a reconnection. A size requested before its channel connects is
forgotten (`disp.c:89`). A wheel that is turned with a button held is sent twice
(`input-queue.c:117`). A decomposed character whose base key is held is typed without it
(`decompose.c:169`). A width of 1 to 3 becomes 0. Nothing in `user-handlers.c` limits a
requested size: without height `guac_rect_shrink()` divides by zero, and its products
overflow beyond 2^18 (`rect.c:99-135`), which gives legal sizes of wrong proportions.
The size handler divides by the resolution the user stated, which may be 0
(`input.c:110-111`). The event of the input queue is reset after every wait without the
queue's lock (`rdp.c:454`): harmless as long as the queue is looked at before the next
wait, but a wait that fails ends the connection first and leaves events that wake nobody
(`overlooked`). With method "reconnect" a new size is not adopted while files of the
drive are open or a job is active (`disp.c:257-264`), and downloads never close theirs,
so it may never be.

**SSH commands and files.** Settings of a section beyond `GUAC_SSH_ACL_MAX_RULES`, or of
an unknown kind, are added to the section before. The logger finds its rule by
connection and not by user; it is made before login, so it logs "unknown" and what is
typed at prompts; `guac_ssh_command_logger_output()` is called by nobody, though
`COMMAND_LOGGING_IMPROVEMENTS.md` describes what it is for. Pasted lines are checked but
not logged. Lines longer than the buffers are checked by their first part. Tab, arrows,
Ctrl-U and the like change the line that the server will run, while the copy that is
checked takes them for characters or ignores them (`ssh.c:292-302`): what runs may not
be allowed, and of a refused line a rest may stay and run with the next. SFTP: files are
opened through links that lead out of the root (`sftp.c:759`, `:820`, `:897`), though by
`sftp.h:128` "only the contents of this path will be available"; links of a listing are
looked up by the wrong name; a refused acknowledgement frees a download without closing
its file; errors that are not SFTP's are acknowledged as success; a read error ends a
download as the end of the file does; a listing's directory stays open if a name is too
long.

**Text and clipboard.** `guac_iconv()` uses an unset value where its input ends within a
character. Readers that normalize look one byte past their input. A product of sizes
whose first factors overflow is refused though a later factor is 0. The clipboard is
read for the server without its lock; the pointer to the channel is read again after it
was checked, and may then be NULL (`cliprdr.c:729`, `:732`); streams of two users mix; a
text at the limit loses its terminator or is ignored.

**RDP channels.** `guac_rdp_fs` has no lock and two threads use it: each may find room
for the last file (`fs.c:234`), whereupon the second ends the process for want of an id
(`fs.c:364`), and an update of `open_files` may be lost (`fs.c:407`, `:583`), after
which the limit is reached too early or too late. An id that is closed twice is freed
twice. Downloads never close their file, so ids run out (`download.c`). A rename leaves
the file's own path stale. A listing loses the entry read after each blob (`ls.c:53`).
Opening a directory with OVERWRITE_IF makes it and is refused. A print job waits once
under an `if` (`print-job.c:98`): a thread that wakes for nothing gives the job up
(`:420`). A job waits for ever for an owner who left, and one that is closed without
data for a filter that writes. Audio input: closing without an open stream keeps the
flush handler; a second stream of another format, or blobs that are no whole frames,
fail an assertion (`audio-buffer.c:498`); the buffer and its thread are leaked on each
reconnection.

**Recordings.** guacenc draws siblings highest first, draws a cursor within the clip of
the last child, repeats an old image on a stream whose index is used again, and recurses
for ever on a layer that is its own ancestor. guaclog keeps a modifier that is released
before others, and prints NULL for a key without a value (`state.c:257`).

**Terminal.** A change of colours or font draws the default layer again without the
terminal's lock (`terminal.c:2109-2120`, `:2154`): what is written meanwhile may be
overdrawn with what was there before, and stays so until it changes again. A scroll by
at least the height of the screen makes `guac_terminal_display_copy_rows()` hand an
empty range to an assertion (`common.c:30`). Deleting more lines than are below the
cursor scribbles on the row above; output that scrolls while the user looks back leaves
the bottom row stale; a switch of buffers does not adjust scrollbar and offset or draw
anew; `ESC[;nr` makes the scroll region begin at -1; a selection stays when rows are
copied over it; the stream of standard input is not forgotten when its user leaves.


## 4. Proofs

TLAPS checks 12,079 obligations. Each theorem holds for every value of the constants
that satisfies the assumptions named.

| theorem | says that at every step | for |
|---|---|---|
| `LockingProofs!FifoSafe` | `FifoSound`: flags and count agree, nobody aborts, no sleeper is forgotten, mutex and calls agree | threads, items, capacity, depth of the lock |
| `...!FifoFrozen` | an item stored is the item its call was given, and stays so until it is read | |
| `...!FifoImplementsQueue` | the FIFO implements `BoundedQueue` | |
| `LockingProofs!RWLockSafe` | `LockSound`: each thread's word says how it holds the lock and how often, writers are alone, and each is as deep as its acquisitions less its releases | threads, locks, width of the word |
| `PooledIndicesProofs!IndicesSafe` | `IndicesSound`: no two objects in use have the same index, the assertions of the pool hold, the entry of an object in use is its own | handles, sizes of the pools |
| `...!IndicesNoneLost` | `NoneLost`: no integer is lost or available twice, and a bounded pool refuses only when its limit is in use | |
| `LockingProofs!RenderSafe` | `RenderSound`: no frame boundary is counted twice or forgotten; the cursor handed over is the last one moved to unless a flag says that there is more | drawings, movements, boundaries |
| `ClientUsersProofs!ClientSafe` | `ListsSound`: a user that has joined is on one list exactly once, the count is that of the lists, a running client has users or one on its way, neither a walker nor the owner pointer leads to a freed user | users |
| `...!ClientStable` | `StableWhileIterated`: nobody changes a list that another thread walks | |
| `DisplayFramesProofs!FramesSafe` | `FramesWhole`: images are encoded from the frame they were planned for, the end of a frame follows all of them, a deferred frame is remembered, a stopped display has no workers, and who joined gets nothing more of a frame it was sent whole | workers, renderers, stoppers, drawings, images |
| `...!FramesStable` | `StableDuringDup`: the last frame stays as it is while it is sent to users that join | |
| `GuacdRoutingProofs!RoutingSafe` | `RoutingSound`: a process in the map, or in the list of all, has not been freed, and users join it after its owner | connections, processes, buckets |
| `...!RoutingOwnership` | `OwnershipKept`: the socket and the parser of a connection are freed by one of the threads that had them, whichever step failed, and not by two | |
| `GuacSocketsProofs!SocketsAlwaysSound` | `SocketsSound`: what a user or the recording receives is whole instructions, what is broadcast reaches all in one order and no part twice (but where a descriptor refused a buffer halfway, which is sent again), only the keep-alive thread uses a socket that was freed, only a broken connection stops its user | users, broadcasters, instructions, their parts, size of the buffers |
| `PluginProofs!TextAlwaysSound` | `TextSound`: telnet sends each credential once and decides a login once, messages to Kubernetes are written in order; nothing that was freed is used by the threads of Kubernetes, by those of SSH if its terminal was created, and by the handlers of users of SSH and telnet; an ended session is stopped, read-only users type nothing | users, configurations, keys typed, tokens and lines printed, messages, size of the queue |
| `...!GraphicalAlwaysSound` | `GraphicalSound`: a client thread of RDP, or of VNC if it was waited for, uses nothing that is absent or freed (but a print job of the connection before), each connection of RDP begins with nothing left of the last, who joins is never shown what is being freed, a thread that ended has stopped the client | users, sets of options, connections |
| `...!EventsAlwaysSound` | `EventsSound`: the RDP thread never goes to wait with events queued and the event reset, but after a wait that failed; the server is told of buttons and contacts in an order it accepts and as users have them, every size asked for is legal | events, touches, size of the queue, sizes, the order of channels |

Every proof has the same shape: an inductive invariant `...Inv`, the conjunction of
named parts; a lemma that the initial states satisfy it; a lemma for each action that
it is kept, with a step for each part the action can disturb; and a theorem that puts
them together.

* **FIFO.** What the runs check is not inductive. Missing is that a thread outside of
  the queue holds no level of its mutex but those it was told of, that a free mutex has
  depth 0, and that a sleeper, who gave up all levels, has one left to take again
  (`LockRoom`); otherwise a nested call could end at the limit of a recursive mutex and
  leave the flags unread. The lemmas about entering and leaving the lock (`Inside`)
  carry most steps. `FifoFrozen` needs in addition that what a call holds is the item
  it was made with (`CallItems`). For the refinement each call takes effect at the step
  in which it moves the count (`PutEffect`, `TakeEffect`, and those of refusal and of
  invalidation); every other step, sleeping and waking included, is a stutter.
  Assumptions: capacity and depth are positive, "no item", "no call" and "no thread" are
  none of the items, calls and threads.
* **Lock.** The word of a thread is a count times 16 and a flag. The invariant ties the
  two to an independent account of acquisitions (`Balanced`), says what a
  thread that waits inside the pthread call has left in its word (`WaiterWord`: nothing
  when it reads, room for one more level when it upgrades), that the flags are of the
  three known ones (`KnownFlags`), and that the pthread lock is held for reading or for
  writing and not for both (`PthreadLock`). Assumption: the largest word is a whole number of
  nibbles, more than one.
* **Indices.** Allocation of a stream is two steps, so an index may be taken from the
  pool while its entry is still another's: `ObjectsSound`, `OwnedOnce` and `FreedSound`
  follow each index from the pool into an object and back, `CountsSound` relates the
  number of objects to the integers handed out (by finite cardinalities). Assumptions:
  finitely many handles, sizes below `INT_MAX`, and that layers are not among the kinds
  (with layers it is false: section 3).
* **Render thread.** `NothingTaken`: outside a pass over a frame the loop owes nobody a
  boundary. `CopyCurrent`, `CopyPassed` and `PassedCurrent` say at each point of the loop
  which copy of the cursor is the mouse's position, unless a modification is still to be
  seen or a boundary has cleared it (the movement lost at a boundary, section 3);
  without them nothing is known between the clearing of a flag and its use.
* **Users.** The count is the number of users that are or were on a list less those that
  were already subtracted (`CountExact`, a statement about cardinalities: lists and
  subtraction change in different steps). `FreeingClosed` says that the client is freed
  once, when nobody can connect any more, and `CursorInside` that a walker's position is
  within the list it walks. `ListLemmas` has what is needed of sequences without
  repetitions: putting in front and at the end, taking out, concatenation.
* **Display frames.** Locks are known from places: `PendingHeld`, `LastHeld`, `QueueHeld`
  and `RenderHeld` say at which points of a thread it holds each of the four. With them
  `QuietCommit` is inductive: `pending_frame.lock` is kept from the decision not to defer
  until the commit, so nothing is queued and no worker is active when the last frame
  changes. The worker that ends a frame has the queue locked and is alone (`LastAlone`),
  which the code knows from `active_workers`: that this counter is the number of workers
  between taking an operation and giving it back (`ActiveCounted`) is a statement about
  cardinalities. `ProgressEnds` says that a frame in progress is one somebody will end,
  `JoinedWhole` that nothing remains of a frame that was sent whole to who joined. This
  invariant was checked by TLC on the instance of `display` first. Assumptions: finitely
  many workers and at least one (`guac_display_alloc()` starts some for each processor, and
  assumes one processor when it cannot tell), and that no thread is of two kinds.
* **Routing.** `OwnedOnce` says, by where the thread of a connection is, who has its
  parser and its socket; `Living` that the process of a thread is there until that thread
  frees it, `WalkLocked` that who walks the map holds the lock of the list it walks,
  `NotSentYet` that a descriptor is sent once at most, and `BehindOwner` that who joins a
  process is queued behind its creator. This invariant was checked by TLC first.

* **Sockets.** Most of `SocketInv` says who is where. `OneSender`: one thread is in the
  middle of an instruction to everyone (`clientLock`), and while it takes the locks of
  the users it keeps the list as it is; `LockSound` which locks a thread holds at each
  point between begin and end; `OffList` that nothing is written to a user who is not
  yet, or no longer, on the list; `ListsApart` that a user is on one list, once. What is
  written can then be followed part by part: `AtSound` relates the parts a thread has
  written to each socket to its place in the instruction, `AllDone` bounds what can have
  been written by what was begun, `AllTidy` says that a socket nobody writes to ends with
  a whole instruction. `BroadcastOrder`, that what a user has of the broadcasts are the last
  parts of the recording in the recording's order, would hold of a part that was sent
  again as well; `WrittenOnce` says that none is, unless a descriptor took a part of a
  buffer and refused the rest: such a buffer is sent again from its start (`Resent`), and
  nothing in it was not written (`Drawn`).
  Assumptions: finitely many users, parts and buffers of at least one part, and that the
  keep-alive thread neither broadcasts nor is a user.
* **Input of RDP.** `OneSlot`: a contact that is down has one slot, which is why
  `guac_rdp_rdpei_touch_update()` looks for it before it takes a free one; without it the
  second slot would be lifted later and the server told of a contact it does not know.
  A requested size is written as two fields, and the loop of the client may read one new
  and one old: `SizeLegal` holds since legality is a matter of each field (`AdjustedLegal`:
  shrunk to the greatest size, raised to the least, and made even, which the least
  size is), whatever the products overflow to; a size without height ends the process
  (`NoHeight`) and is not adjusted. `InputWakes` follows from where the thread is between
  its waits and its look at the queue. No assumption is made on the sizes users ask for.
* **Text sessions.** `LoginInv` ties what was sent to what was released: each credential
  sent has lost its pattern, so it is not looked for again. `QueueInv` describes the ring
  of messages by what was accepted and not yet written. `LifeInv` is about who outlives
  whom: the input thread lives within the client thread, nobody joins before the owner,
  freeing begins once the last user has left and is then alone with the threads. What was
  freed at each point of freeing (`FreedInOrder`) differs: SSH frees its terminal only
  after joining the thread, Kubernetes after its thread has ended; of telnet it says only
  that nothing is freed before freeing begins, since its thread is joined too late (section
  3). Assumption: the queue has room for at least one message.
* **Graphical sessions.** `RdpPlaces` is a table of what exists at each place of the
  thread of RDP, and says that the write lock is held while it is freed; as long as somebody
  is shown something the read lock is held, so that nobody is shown what is being freed. For VNC the table is
  shorter: connection, display and render thread are created by the fifth, seventh and
  eighth step. Of VNC nothing is freed while `gfree <= 2`, of RDP nothing at all before
  its thread has ended. A thread of VNC that has no connection yet is not waited for and may
  outlive what it uses (section 3), so the theorem speaks of VNC's thread when it was waited
  for: when its connection is freed. No assumptions.

  The four invariants of plugins were checked by TLC on the instances of `plugins` and `rdp`
  first.

Only model-checked:

* liveness (`SleepersReturn`, `UsersProgress`, `RoutingProgress`, `RenderProgress`,
  `EndedIsShown`, `CallersReturn`, `ReaderGetsLock`, `OutputDelivered`, `SessionsEnd`,
  `RdpProgress`): fairness and ENABLED are beyond the prover;
* what recursion or folds compute for all inputs: the plan passes (`PictureSound`), the
  parser (`ParserSound`), the terminal (`ScreenCurrent`, `TextKept`, `HighlightIsClipboard`), the tools
  (`VideoSound`, `TimelineKept`, `KeysKept`), settings (`SettingsSound`), rules, typed lines and files
  (`CommandsSound`, `DriveSound`), the keys of RDP (`KeyboardSound`, whose definition of pressing
  a key calls itself). Induction over data is beyond it;
* `StreamsSound` and `ChannelsSound`: not yet proved, see section 6.

## 5. What is not modelled

* **Platform helpers** (time, random identifiers, strings to errors), **configuration and
  log of guacd**, **command line options**: single calls, before any concurrency.
* **Libraries**: libssh2, libtelnet, libvncclient, FreeRDP, OpenSSL, libwebsockets, Cairo,
  PulseAudio, pthreads and FFmpeg are external; what of them is needed is modelled from
  how it is called and marked so in `map`. Hence also the SSH support library, image and
  audio encoding, RDP sound and the channels that only pass data on, the FreeRDP plugin
  shim, GDI drawing and certificates.
* **Tables**: keymaps of RDP (generated), colours of the terminal. Typescripts are a file
  that is written to.
* **The terminal's surface** (`common/surface.c`), which combines what the terminal draws
  before it is sent, and `common/list.c`, one lock around a chain. A picture drawn by the
  terminal is taken to be on the screen at once.
* **Partly**: the deadline arithmetic of timed waits; the parent's side of creating a
  process (`fork()`) and reaping of its children; instructions of the input loop (the
  thread runs until its user leaves); a frame of only a mouse movement in `DisplayFrames`;
  a descriptor that takes a part of a single `guac_socket_write()` (it takes whole ones, and
any number of those buffered); the nesting socket (tests only) and the SSL socket (another library behind the same
  calls); names of recording files; URL and TLS of Kubernetes; options of telnet;
  attributes and times of RDP files; announcement of RDP devices; running out of memory
  anywhere but in `mem.c`.

## 6. What comes next

In this order:

1. `StreamsSound` and `ChannelsSound` for any users, values and jobs, in the way of
   `PluginProofs`: what each argument or job is at each point.
2. Lemmas about rectangles in `GuacCommon` (constrained, extended, split), which the plan
   and the surface both rest on.
3. The surface of the terminal, refined to the picture `TerminalDisplay` assumes.
