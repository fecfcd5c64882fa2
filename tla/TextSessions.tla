---------------------------- MODULE TextSessions ----------------------------
(***************************************************************************)
(* A session of a plugin that shows a terminal: SSH, telnet or Kubernetes  *)
(* (ssh.c, telnet.c, kubernetes.c and the client.c, user.c, input.c,       *)
(* clipboard.c, pipe.c and argv.c of each).  The owner's join starts the   *)
(* client thread, which connects step by step, starts an input thread and  *)
(* then copies output to the terminal; the users' threads call the         *)
(* handlers their join installed; when all users are gone, the thread of   *)
(* the process frees what there is.  Nothing of this is guarded by a lock: *)
(* it is the order of the steps that must keep what is used alive.         *)
(*                                                                         *)
(* What is created is "null" until then and "freed" afterwards.  The steps *)
(* of the client thread are sequences of records, one sequence per plugin, *)
(* so that the three can be compared; libraries are external.              *)
(*                                                                         *)
(* First comes what passes between a terminal and its server, beyond plain *)
(* copying: the automatic login of telnet, which watches the output for    *)
(* prompts (guac_telnet_search() and its callers, input.c), and the queue  *)
(* of messages to a Kubernetes server (io.c, kubernetes.c).                *)
(*                                                                         *)
(* A line of output is the set of the things found in it that some pattern *)
(* matches; patterns are not anchored, so a line that grows still matches  *)
(* what it did.  The thread that searches and the thread of the user who   *)
(* types share the patterns without a lock.                                *)
(***************************************************************************)
EXTENDS Integers, Sequences, FiniteSets, SequencesExt

CONSTANTS
    MaxTokens,    \* how much a telnet server prints
    MaxLine,      \* sizeof(line_buffer) - 1
    MaxMessages,  \* how many messages are sent to a Kubernetes server
    MaxWaiting    \* GUAC_KUBERNETES_MAX_OUTBOUND_MESSAGES

ASSUME QueueAssumption == MaxWaiting \in Nat \ {0}

Patterns == {"username", "password", "success", "failure"}

VARIABLES
    regex,      \* patterns that are still searched for
    initial,    \* patterns of the settings
    line,       \* line_buffer: what was printed since the last newline
    printed,    \* how much has been printed
    search,     \* "idle", or the pattern that is looked for next
    found,      \* whether the pattern was found, not yet acted upon
    resume,     \* what is left of the chunk that is being searched
    login,      \* what was sent, in order
    opened,     \* the terminal was started
    refused,    \* the client was aborted because the login failed
    userTyped   \* a user has typed a key

telnetVars == <<regex, initial, line, printed, search, found, resume, login,
                opened, refused, userTyped>>

\* Patterns for the user name and the password are independent; those for the
\* outcome come together.
TelnetInit ==
    /\ initial \in SUBSET Patterns
    /\ "success" \in initial <=> "failure" \in initial
    /\ regex = initial
    /\ line = <<>>
    /\ printed = 0
    /\ search = "idle"
    /\ found = FALSE
    /\ resume = <<>>
    /\ login = <<>>
    \* guac_telnet_client_thread() starts the terminal if nothing tells success.
    /\ opened = ("success" \notin initial)
    /\ refused = FALSE
    /\ userTyped = FALSE

\* A chunk of output arrives while none is being searched.
telnet_recv(chunk) ==
    /\ search = "idle"
    /\ resume = <<>>
    /\ printed + Len(chunk) <= MaxTokens
    /\ printed' = printed + Len(chunk)
    /\ resume' = Append(chunk, "end")
    /\ UNCHANGED <<regex, initial, line, search, found, login, opened, refused,
                   userTyped>>

\* guac_telnet_search(): the next character of the chunk.  A line that is not
\* empty is searched at its end, and again at the end of the chunk; what does
\* not fit into the buffer is dropped.
SearchNext ==
    /\ search = "idle"
    /\ resume /= <<>>
    /\ resume' = Tail(resume)
    /\ LET c == Head(resume)
       IN  IF c \in {"newline", "end"}
           THEN /\ search' = IF line = <<>> THEN "idle" ELSE "username"
                /\ UNCHANGED line
           ELSE /\ line' = IF Len(line) < MaxLine THEN Append(line, c) ELSE line
                /\ UNCHANGED search
    /\ UNCHANGED <<regex, initial, printed, found, login, opened, refused,
                   userTyped>>

Following == [username |-> "password", password |-> "success",
              success |-> "failure", failure |-> "done"]

\* guac_telnet_search_line(): is the pattern still there, and does it match?
\* A pattern that a user's key frees in between may yet match or not.
Match ==
    /\ search \in Patterns
    /\ ~found
    /\ IF search \in regex /\ search \in ToSet(line)
       THEN found' = TRUE /\ UNCHANGED search
       ELSE search' = Following[search] /\ UNCHANGED found
    /\ UNCHANGED <<regex, initial, line, printed, resume, login, opened,
                   refused, userTyped>>

\* The password releases the pattern of the user name as well, the outcome all.
Released(p) == CASE p = "username" -> {"username"}
                 [] p = "password" -> {"username", "password"}
                 [] OTHER          -> Patterns

\* What a match does.
Act ==
    /\ search \in Patterns
    /\ found
    /\ login' = IF search \in {"username", "password"} THEN Append(login, search)
                ELSE login
    /\ opened' = (opened \/ search = "success")
    /\ refused' = (refused \/ search = "failure")
    /\ regex' = regex \ Released(search)
    /\ found' = FALSE
    /\ search' = Following[search]
    /\ UNCHANGED <<initial, line, printed, resume, userTyped>>

\* The line has been searched: it is dropped if it was complete.
SearchDone ==
    /\ search = "done"
    /\ search' = "idle"
    /\ line' = IF resume = <<>> THEN line ELSE <<>>
    /\ UNCHANGED <<regex, initial, printed, found, resume, login, opened,
                   refused, userTyped>>

\* guac_telnet_user_key_handler(): a user who types logs in alone.
TypeKey ==
    /\ ~userTyped
    /\ userTyped' = TRUE
    /\ regex' = regex \ {"username", "password"}
    /\ UNCHANGED <<initial, line, printed, search, found, resume, login, opened,
                   refused>>

Chunks == {<<c>> : c \in Patterns \cup {"newline", "text"}}
          \cup {<<c, "newline">> : c \in Patterns}
          \cup {<<"username", "newline", "password">>,
                <<"success", "newline", "failure">>}

TelnetNext == \/ \E chunk \in Chunks : telnet_recv(chunk)
              \/ SearchNext \/ Match \/ Act \/ SearchDone
              \/ TypeKey

TelnetSpec == TelnetInit /\ [][TelnetNext]_telnetVars

\* The user name and the password are sent at most once each, and the user name
\* not after the password, although a line is searched again and again while it
\* is printed and a user's key may release the patterns at any moment.
CredentialsSentOnce ==
    /\ \A i, j \in DOMAIN login : login[i] = login[j] => i = j
    /\ \A i, j \in DOMAIN login :
            login[i] = "password" /\ login[j] = "username" => j < i

\* A connection is not refused once its login has succeeded, and its terminal is
\* shown only if the login succeeded or is not watched.
OutcomeDecidedOnce ==
    /\ ~(refused /\ opened /\ "success" \in initial)
    /\ ("success" \in initial /\ "success" \in regex) => ~opened

-----------------------------------------------------------------------------
(* Messages to a Kubernetes server.                                        *)

VARIABLES
    slots,      \* outbound_messages: slot -> message
    top,        \* outbound_messages_top
    waiting,    \* outbound_messages_waiting
    writable,   \* libwebsockets will call back when the socket is writable
    up,         \* the WebSocket is established
    rows,       \* the size last sent, or NULL
    queued,     \* messages accepted, in order
    dropped,    \* messages dropped because the queue was full
    written     \* messages the server received, in order

queueVars == <<slots, top, waiting, writable, up, rows, queued, dropped, written>>

QueueInit ==
    /\ slots = [i \in 0 .. MaxWaiting - 1 |-> 0]
    /\ top = 0
    /\ waiting = 0
    /\ writable = FALSE
    /\ up = FALSE
    /\ rows = 0
    /\ queued = <<>>
    /\ dropped = {}
    /\ written = <<>>

\* The message is stored behind the others, or dropped; libwebsockets is asked
\* to call back.
guac_kubernetes_send_message(m) ==
    IF waiting < MaxWaiting
    THEN /\ slots' = [slots EXCEPT ![(top + waiting) % MaxWaiting] = m]
         /\ waiting' = waiting + 1
         /\ queued' = Append(queued, m)
         /\ writable' = TRUE
         /\ UNCHANGED dropped
    ELSE /\ dropped' = dropped \cup {m}
         /\ UNCHANGED <<slots, waiting, queued, writable>>

NextMessage == Len(queued) + Cardinality(dropped) + 1

\* The input thread sends what was typed.
SendInput ==
    /\ NextMessage <= MaxMessages
    /\ guac_kubernetes_send_message(NextMessage)
    /\ UNCHANGED <<top, up, rows, written>>

\* guac_kubernetes_resize(): sizes are only sent if they differ from the last.
guac_kubernetes_resize(r) ==
    /\ NextMessage <= MaxMessages
    /\ r /= rows
    /\ rows' = r
    /\ guac_kubernetes_send_message(NextMessage)
    /\ UNCHANGED <<top, up, written>>

\* The callbacks of libwebsockets (guac_kubernetes_lws_callback()): connected;
\* until then a request to be called back has no effect.
Established ==
    /\ ~up
    /\ up' = TRUE
    /\ writable' = TRUE
    /\ UNCHANGED <<slots, top, waiting, rows, queued, dropped, written>>

\* Writable: one message is written, and another callback asked for if there
\* are more.
guac_kubernetes_write_pending_message ==
    /\ up /\ writable
    /\ IF waiting > 0
       THEN /\ written' = Append(written, slots[top])
            /\ top' = (top + 1) % MaxWaiting
            /\ waiting' = waiting - 1
       ELSE UNCHANGED <<written, top, waiting>>
    /\ writable' = (waiting' > 0)
    /\ UNCHANGED <<slots, up, rows, queued, dropped>>

QueueNext == \/ SendInput
             \/ \E r \in 1 .. 2 : guac_kubernetes_resize(r)
             \/ Established
             \/ guac_kubernetes_write_pending_message

QueueSpec == QueueInit /\ [][QueueNext]_queueVars

QueueFairness == /\ WF_queueVars(Established)
                 /\ WF_queueVars(guac_kubernetes_write_pending_message)

\* The server receives the messages that were not dropped, in the order they
\* were sent, each once, while two threads add and one removes.
MessagesInOrder ==
    /\ IsPrefix(written, queued)
    /\ Len(queued) = Len(written) + waiting
    /\ \A i \in 1 .. waiting :
            slots[(top + i - 1) % MaxWaiting] = queued[Len(written) + i]

\* Every message that was accepted is written in the end: whenever messages
\* wait, a callback has been asked for.
MessagesDelivered == []<>(waiting = 0)

-----------------------------------------------------------------------------

CONSTANTS
    Guests,     \* users who may join besides the owner
    Configs,    \* settings of the owner that matter here
    MaxTyped    \* how many keys are typed in a behaviour

ASSUME TypedAssumption == MaxTyped \in Nat

TextPlugins == {"ssh", "telnet", "kubernetes"}

TextUsers == Guests \cup {"owner"}

Things == {"term", "link", "recording", "sftp", "settings"}

VARIABLES
    tx,        \* the plugin
    config,    \* the settings that decide what is created, and who may type
    txState,   \* guac_client.state
    cpc,       \* client thread: "idle", "connect", "loop", "write", "join",
               \* "fail" or "end"
    cstep,     \* the step of connecting it takes next
    ipc,       \* input thread: "idle", "run", "end"
    fpc,       \* freeing of the client: next step of the free handler
    thing,     \* "null", "live", "stopped" or "freed" for each thing
    stdin,     \* input that the input thread has not read yet
    joined,    \* user -> "away", "joined" or "left"
    handlers,  \* user -> handlers installed by the join handler
    typed,     \* users whose input has reached the terminal
    misuse,    \* <<who, thing, how>>: uses of what does not exist
    quiet      \* the client thread ended without telling the client

txVars == <<tx, config, txState, cpc, cstep, ipc, fpc, thing, stdin, joined,
            handlers, typed, misuse, quiet>>

-----------------------------------------------------------------------------
(* The client threads.                                                     *)

\* A step: the thing it creates (or ""), the things it uses, and what happens
\* when it fails: "abort" the client, return "silently", or it "cannot".
Step(creates, uses, failure) ==
    [creates |-> creates, uses |-> uses, failure |-> failure]

Nothing == <<>>

Only(b, steps) == IF b THEN steps ELSE Nothing

WolStep(c) == Only(c.wol, <<Step("", {"settings"}, "silently")>>)

RecordingStep(c) ==
    Only(c.recording, <<Step("recording", {"settings"}, "cannot")>>)

\* The terminal is created, and its settings are sent to the owner.
TerminalSteps ==
    <<Step("term", {"settings"}, "abort"), Step("", {"term"}, "cannot")>>

\* Log in (which may prompt), connect, open a channel, connect again for SFTP,
\* ask for a PTY and a shell.
SshSteps(c) ==
    WolStep(c) \o <<Step("", {}, "abort")>> \o RecordingStep(c) \o TerminalSteps
    \o <<Step("", {"settings", "term"}, "abort"),
         Step("", {"settings"}, "abort"),
         Step("link", {}, "abort")>>
    \o Only(c.sftp, <<Step("sftp", {"settings", "term"}, "abort")>>)
    \o <<Step("", {"settings", "term", "link"}, "abort")>>

TelnetSteps(c) ==
    WolStep(c) \o RecordingStep(c) \o TerminalSteps
    \o <<Step("link", {"settings"}, "abort")>>

KubernetesSteps(c) ==
    <<Step("", {"settings"}, "abort")>> \o RecordingStep(c) \o TerminalSteps
    \o <<Step("link", {"settings"}, "abort")>>

Steps(p, c) == CASE p = "ssh"        -> SshSteps(c)
                 [] p = "telnet"     -> TelnetSteps(c)
                 [] p = "kubernetes" -> KubernetesSteps(c)

\* The uses of things that are not there: the others are harmless.
Misused(who, things) ==
    {<<who, t, thing[t]>> : t \in {u \in things : thing[u] \in {"null", "freed"}}}

Uses(who, things) == misuse' = misuse \cup Misused(who, things)

\* One step of connecting.
ClientStep ==
    /\ cpc = "connect"
    /\ cstep <= Len(Steps(tx, config))
    /\ LET step == Steps(tx, config)[cstep]
       IN  /\ Uses("client", step.uses)
           /\ \/ /\ thing' = IF step.creates = "" THEN thing
                             ELSE [thing EXCEPT ![step.creates] = "live"]
                 /\ cstep' = cstep + 1
                 /\ UNCHANGED <<cpc, txState, quiet>>
              \/ /\ step.failure = "abort"
                 /\ cpc' = "fail"
                 /\ txState' = "STOPPING"
                 /\ UNCHANGED <<cstep, thing, quiet>>
              \/ /\ step.failure = "silently"
                 /\ cpc' = "fail"
                 /\ quiet' = TRUE
                 /\ UNCHANGED <<cstep, thing, txState>>
    /\ UNCHANGED <<tx, config, ipc, fpc, stdin, joined, handlers, typed>>

\* Everything is connected: the input thread is started, which may fail.
StartInput ==
    /\ cpc = "connect"
    /\ cstep = Len(Steps(tx, config)) + 1
    /\ \/ /\ ipc' = "run"
          /\ cpc' = "loop"
          /\ UNCHANGED txState
       \/ /\ cpc' = "fail"
          /\ txState' = "STOPPING"
          /\ UNCHANGED ipc
    /\ UNCHANGED <<tx, config, cstep, fpc, thing, stdin, joined, handlers, typed,
                   misuse, quiet>>

\* Output of the server is read; SSH and Kubernetes look whether the client is
\* stopping first, telnet is told of the end by its socket alone.
Ending == IF tx = "telnet" THEN thing["link"] /= "live"
          ELSE txState = "STOPPING"

ReadOutput ==
    /\ cpc = "loop"
    /\ ~Ending
    /\ Uses("client", {"link"})
    /\ cpc' = "write"
    /\ UNCHANGED <<tx, config, cstep, txState, ipc, fpc, thing, stdin, joined,
                   handlers, typed, quiet>>

\* What was read is written to the terminal.
WriteOutput ==
    /\ cpc = "write"
    /\ Uses("client", {"term"})
    /\ cpc' = "loop"
    /\ UNCHANGED <<tx, config, cstep, txState, ipc, fpc, thing, stdin, joined,
                   handlers, typed, quiet>>

\* Kubernetes closes the input of the terminal before it waits for the thread
\* that reads it; SSH and telnet leave that to the free handler.
Left ==
    /\ cpc' = "join"
    /\ txState' = "STOPPING"
    /\ thing' = IF tx = "kubernetes" THEN [thing EXCEPT !["term"] = "stopped"]
                ELSE thing
    /\ UNCHANGED <<tx, config, cstep, ipc, fpc, stdin, joined, handlers, typed, misuse,
                   quiet>>

LeaveLoop == cpc = "loop" /\ Ending /\ Left

\* The server closes the connection, or the connection fails.
ServerEnds == cpc = "loop" /\ ~Ending /\ Left

JoinInput ==
    /\ cpc = "join"
    /\ ipc = "end"
    /\ cpc' = "fail"
    /\ UNCHANGED <<tx, config, cstep, txState, ipc, fpc, thing, stdin, joined,
                   handlers, typed, misuse, quiet>>

Release(t, names) ==
    [n \in Things |-> IF n \in names /\ t[n] /= "null" THEN "freed" ELSE t[n]]

\* The thread returns.  That of Kubernetes first frees what it has created.
EndClientThread ==
    /\ cpc = "fail"
    /\ cpc' = "end"
    /\ thing' = IF tx = "kubernetes"
                THEN Release(thing, {"term", "recording", "link"}) ELSE thing
    /\ UNCHANGED <<tx, config, cstep, txState, ipc, fpc, stdin, joined, handlers,
                   typed, misuse, quiet>>

-----------------------------------------------------------------------------
(* The input thread.                                                       *)

\* Input is read from the terminal and written to the server.  (Telnet echoes
\* it; a copy of Kubernetes goes through the queue of messages.)
CopyInput ==
    /\ ipc = "run"
    /\ stdin > 0
    /\ thing["term"] = "live"
    /\ stdin' = stdin - 1
    /\ Uses("input", {"term", "link"} \cup (IF tx = "ssh" THEN {"settings"} ELSE {}))
    /\ UNCHANGED <<tx, config, cstep, txState, cpc, ipc, fpc, thing, joined, handlers,
                   typed, quiet>>

\* The terminal's input is closed (or gone); SSH stops the client, too.
EndInput ==
    /\ ipc = "run"
    /\ thing["term"] /= "live"
    /\ Uses("input", {"term"})
    /\ ipc' = "end"
    /\ txState' = IF tx = "ssh" THEN "STOPPING" ELSE txState
    /\ UNCHANGED <<tx, config, cstep, cpc, fpc, thing, stdin, joined, handlers, typed,
                   quiet>>

-----------------------------------------------------------------------------
(* The users.                                                              *)

\* The handlers a join handler installs.
SshHandlers(c, u) ==
    IF u \in c.readonly THEN {}
    ELSE {"key", "mouse", "pipe", "argv", "size"}
         \cup (IF c.paste THEN {"clipboard"} ELSE {})
         \cup (IF c.sftp THEN {"file"} ELSE {})

TelnetHandlers(c, u) ==
    IF u \in c.readonly THEN {}
    ELSE {"key", "mouse", "pipe", "argv", "size"}
         \cup (IF c.paste THEN {"clipboard"} ELSE {})

KubernetesHandlers(c, u) ==
    IF u \in c.readonly THEN {}
    ELSE {"key", "mouse", "pipe", "argv", "size"}
         \cup (IF c.paste THEN {"clipboard"} ELSE {})

Handlers(p, c, u) == CASE p = "ssh"        -> SshHandlers(c, u)
                       [] p = "telnet"     -> TelnetHandlers(c, u)
                       [] p = "kubernetes" -> KubernetesHandlers(c, u)

\* The owner's join starts the client thread.  If it cannot, the client is
\* aborted and the owner is never a user.
JoinOwner ==
    /\ joined["owner"] = "away"
    /\ thing' = [thing EXCEPT !["settings"] = "live"]
    /\ \/ /\ cpc' = "connect"
          /\ joined' = [joined EXCEPT !["owner"] = "joined"]
          /\ handlers' = [handlers EXCEPT !["owner"] =
                                                Handlers(tx, config, "owner")]
          /\ UNCHANGED txState
       \/ /\ txState' = "STOPPING"
          /\ joined' = [joined EXCEPT !["owner"] = "left"]
          /\ cpc' = "end"
          /\ UNCHANGED handlers
    /\ UNCHANGED <<tx, config, cstep, ipc, fpc, stdin, typed, misuse, quiet>>

\* A guest joins, and is shown the terminal if there is one.
JoinGuest(u) ==
    /\ u \in Guests
    /\ joined[u] = "away"
    /\ joined["owner"] /= "away"
    /\ txState = "RUNNING"
    /\ joined' = [joined EXCEPT ![u] = "joined"]
    /\ handlers' = [handlers EXCEPT ![u] = Handlers(tx, config, u)]
    /\ IF thing["term"] /= "null" THEN Uses("user", {"term"})
       ELSE UNCHANGED misuse
    /\ UNCHANGED <<tx, config, cstep, txState, cpc, ipc, fpc, thing, stdin, typed, quiet>>

\* What a handler uses: keys, the mouse and sizes look whether there is a
\* terminal; the other handlers do not.
SshHandlerUses(h) ==
    CASE h \in {"key", "mouse", "size"} ->
            IF thing["term"] = "null" THEN {} ELSE {"term"}
      [] h = "file" -> {"sftp"}
      [] h = "argv" -> {"term", "settings"}
      [] OTHER      -> {"term"}

TelnetHandlerUses(h) ==
    CASE h \in {"key", "mouse", "size"} ->
            IF thing["term"] = "null" THEN {} ELSE {"term", "settings"}
      [] h = "argv" -> {"term", "settings"}
      [] OTHER      -> {"term"}

\* A change of size is sent to the server at once, whether or not there is one.
KubernetesHandlerUses(h) ==
    CASE h \in {"key", "mouse"} ->
            IF thing["term"] = "null" THEN {} ELSE {"term"}
      [] h = "size" -> IF thing["term"] = "null" THEN {} ELSE {"term", "link"}
      [] h = "argv" -> {"term", "settings", "link"}
      [] OTHER      -> {"term"}

HandlerUses(h) ==
    (CASE tx = "ssh"        -> SshHandlerUses(h)
       [] tx = "telnet"     -> TelnetHandlerUses(h)
       [] tx = "kubernetes" -> KubernetesHandlerUses(h))
    \cup (IF h \in {"key", "mouse"} /\ thing["recording"] /= "null"
             /\ (thing["term"] /= "null" \/ (h = "key" /\ tx /= "ssh"))
          THEN {"recording"} ELSE {})

\* An instruction of a user is handled.  Keys and pipes are typed.
Handle(u, h) ==
    /\ joined[u] = "joined"
    /\ h \in handlers[u]
    /\ Uses("user", HandlerUses(h))
    /\ IF h \in {"key", "pipe"} /\ thing["term"] = "live"
       THEN /\ stdin < MaxTyped
            /\ stdin' = stdin + 1
            /\ typed' = typed \cup {u}
       ELSE UNCHANGED <<stdin, typed>>
    /\ UNCHANGED <<tx, config, cstep, txState, cpc, ipc, fpc, thing, joined, handlers,
                   quiet>>

\* A user leaves: the terminal forgets them, their settings are freed unless
\* they are the owner's.  The process ends the session with its last user.
Leave(u) ==
    /\ joined[u] = "joined"
    /\ joined' = [joined EXCEPT ![u] = "left"]
    /\ Uses("user", {"term"})
    /\ txState' = IF \A v \in TextUsers \ {u} : joined[v] /= "joined"
                  THEN "STOPPING" ELSE txState
    /\ UNCHANGED <<tx, config, cstep, cpc, ipc, fpc, thing, stdin, handlers, typed,
                   quiet>>

-----------------------------------------------------------------------------
(* Freeing the client.                                                     *)

\* A step of a free handler: the input of the terminal is closed, the client
\* thread is waited for or something is freed.  If something was not created,
\* this step and those that follow it in the same block are left out.
Block(what, of, given, length) ==
    [what |-> what, of |-> of, given |-> given, length |-> length]

Part(what, of, given) == Block(what, of, given, 1)

\* Mutant: the terminal is freed before the thread has ended.
MutantSshFree ==
    <<Block("close", "term", "term", 3), Part("free", "term", "term"),
      Part("join", "", "term"), Part("free", "link", "link"),
      Part("free", "sftp", "sftp"), Part("free", "recording", "recording"),
      Part("free", "settings", "settings")>>

\* The thread is only waited for if the terminal was created.
SshFree ==
    <<Block("close", "term", "term", 3), Part("join", "", "term"),
      Part("free", "term", "term"), Part("free", "link", "link"),
      Part("free", "sftp", "sftp"), Part("free", "recording", "recording"),
      Part("free", "settings", "settings")>>

\* The socket is closed; the terminal is freed before the thread has ended, and
\* the thread is only waited for if it had connected.
TelnetFree ==
    <<Part("close", "link", "link"), Part("free", "recording", "recording"),
      Part("free", "term", "settings"), Part("join", "", "link"),
      Part("free", "link", "link"), Part("free", "settings", "settings")>>

\* The thread has freed the rest.
KubernetesFree ==
    <<Part("join", "", "settings"), Part("free", "settings", "settings")>>

FreeParts == CASE tx = "ssh"        -> SshFree
               [] tx = "telnet"     -> TelnetFree
               [] tx = "kubernetes" -> KubernetesFree

\* guac_client_free(): begins once the session has been stopped and no user is
\* left.
StartFree ==
    /\ fpc = 0
    /\ txState = "STOPPING"
    /\ \A u \in TextUsers : joined[u] /= "joined"
    /\ fpc' = 1
    /\ UNCHANGED <<tx, config, cstep, txState, cpc, ipc, thing, stdin, joined,
                   handlers, typed, misuse, quiet>>

FreePart ==
    /\ fpc \in 1 .. Len(FreeParts)
    /\ LET part == FreeParts[fpc]
           skip == thing[part.given] = "null"
       IN  /\ (part.what = "join" /\ ~skip) => cpc = "end"
           /\ fpc' = fpc + (IF skip THEN part.length ELSE 1)
           /\ thing' =
                CASE skip \/ part.what = "join" -> thing
                  [] ~skip /\ part.what = "close" ->
                        [thing EXCEPT ![part.of] = "stopped"]
                  [] ~skip /\ part.what = "free" -> Release(thing, {part.of})
           \* guac_terminal_free() does not look whether there is a terminal.
           /\ IF part.what = "free" /\ ~skip THEN Uses("process", {part.of})
              ELSE UNCHANGED misuse
    /\ UNCHANGED <<tx, config, cstep, txState, cpc, ipc, stdin, joined, handlers,
                   typed, quiet>>

TextFreed == fpc = Len(FreeParts) + 1

-----------------------------------------------------------------------------

TextInit ==
    /\ tx \in TextPlugins
    /\ config \in Configs
    /\ tx = "kubernetes" => ~config.wol
    /\ tx /= "ssh" => ~config.sftp
    /\ txState = "RUNNING"
    /\ cpc = "idle"
    /\ cstep = 1
    /\ ipc = "idle"
    /\ fpc = 0
    /\ thing = [n \in Things |-> "null"]
    /\ stdin = 0
    /\ joined = [u \in TextUsers |-> "away"]
    /\ handlers = [u \in TextUsers |-> {}]
    /\ typed = {}
    /\ misuse = {}
    /\ quiet = FALSE

HandlerNames == {"key", "mouse", "pipe", "argv", "size", "clipboard", "file"}

TextNext ==
    \/ ClientStep \/ StartInput \/ ReadOutput \/ WriteOutput \/ LeaveLoop
    \/ ServerEnds \/ JoinInput \/ EndClientThread
    \/ CopyInput \/ EndInput
    \/ JoinOwner
    \/ \E u \in TextUsers : JoinGuest(u) \/ Leave(u)
    \/ \E u \in TextUsers, h \in HandlerNames : Handle(u, h)
    \/ StartFree \/ FreePart

TextSpec == TextInit /\ [][TextNext]_txVars

\* The threads keep running.  (What the server and the users do is not fair.)
TextFairness ==
    /\ WF_txVars(ClientStep \/ StartInput)
    /\ WF_txVars(WriteOutput \/ LeaveLoop)
    /\ WF_txVars(JoinInput \/ EndClientThread)
    /\ WF_txVars(CopyInput \/ EndInput)
    /\ WF_txVars(FreePart)

-----------------------------------------------------------------------------
(* Properties.                                                             *)

TextTypeOK ==
    /\ regex \subseteq initial
    /\ search \in Patterns \cup {"idle", "done"}
    /\ login \in Seq({"username", "password"})
    /\ slots \in [0 .. MaxWaiting - 1 -> Nat]
    /\ top \in 0 .. MaxWaiting - 1
    /\ waiting \in 0 .. MaxWaiting
    /\ txState \in {"RUNNING", "STOPPING"}
    /\ ipc \in {"idle", "run", "end"}
    /\ thing \in [Things -> {"null", "live", "stopped", "freed"}]
    /\ stdin \in 0 .. MaxTyped
    /\ misuse \subseteq {"client", "input", "user", "process"} \X Things
                         \X {"null", "freed"}

\* The client and input threads of SSH and Kubernetes never touch what has been
\* freed, the settings included: Kubernetes waits for them, and so does SSH if
\* its terminal had been created when it was freed.
ThreadsOutlived ==
    (tx = "kubernetes" \/ (tx = "ssh" /\ thing["term"] = "freed")) =>
        \A m \in misuse : m[1] \in {"client", "input"} => m[3] /= "freed"

\* The handlers of the users of SSH and telnet never touch what has been freed:
\* freeing begins when no user is left.  (Kubernetes frees when its thread ends.)
UsersOutlived ==
    tx \in {"ssh", "telnet"} =>
        \A m \in misuse : m[1] = "user" => m[3] /= "freed"

\* A client thread that has ended has stopped the client, so that the users are
\* told and the process ends; all failures but that of the wake-up packet.
EndedIsStopped == cpc \in {"fail", "end"} /\ ~quiet => txState = "STOPPING"

\* Nothing a read-only user sends reaches the terminal, in any plugin.
ReadOnlyUsersPassive == typed \cap config.readonly = {}

\* Freeing a client of SSH or Kubernetes ends once begun: no thread waits for
\* one that waits for it, although the input thread sleeps until its input is
\* closed.  (A telnet client freed while it is connecting waits for ever.)
FreeingEnds == tx /= "telnet" => [](fpc /= 0 => <>TextFreed)

\* Telnet sends each credential once and decides the outcome of the login once;
\* messages to Kubernetes are sent in their order.  In all plugins with a
\* terminal: threads and users' handlers do not use what was freed, other than
\* where the plugin is known to allow it, a session that ended is stopped, and
\* read-only users type nothing.
TextSound ==
  /\ TextTypeOK
  /\ CredentialsSentOnce
  /\ OutcomeDecidedOnce
  /\ MessagesInOrder
  /\ ThreadsOutlived
  /\ UsersOutlived
  /\ EndedIsStopped
  /\ ReadOnlyUsersPassive

=============================================================================
