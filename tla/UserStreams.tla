----------------------------- MODULE UserStreams -----------------------------
(***************************************************************************)
(* The streams and objects of users (libguac/user.c, user-handlers.c) and  *)
(* the argument streams with which users change settings of a running      *)
(* connection (libguac/argv.c); and the clipboard that the users and the   *)
(* server of an RDP or VNC session share (cliprdr.c, vnc/clipboard.c,      *)
(* common/clipboard.c).                                                    *)
(*                                                                         *)
(* Each user has a thread that handles the user's instructions one after   *)
(* the other.  The registry of arguments is shared by all users of the     *)
(* process and guarded by one lock; a thread of the plugin may wait for    *)
(* arguments it needs, such as a password.                                 *)
(*                                                                         *)
(* A handler of a plugin that accepts a stream is modelled as collecting   *)
(* the stream's data.                                                      *)
(***************************************************************************)
EXTENDS Integers, Sequences, FiniteSets, SequencesExt, GuacCommon

CONSTANTS
    People,       \* users of the connection
    MaxStreams,   \* GUAC_USER_MAX_STREAMS
    Arguments,    \* names of arguments
    Once,         \* arguments registered with GUAC_ARGV_OPTION_ONCE
    Echo,         \* arguments registered with GUAC_ARGV_OPTION_ECHO
    Awaited,      \* arguments the plugin waits for
    Accepted,     \* kinds of stream the plugin has a handler for
    Data,         \* what a blob may carry
    RefusedValues,    \* values the callbacks of the plugin refuse
    MaxValue,     \* GUAC_ARGV_MAX_LENGTH, in blobs
    MaxRegistered,\* GUAC_ARGV_MAX_REGISTERED
    MaxHandled    \* bound: instructions handled in all

ASSUME /\ Once \subseteq Arguments /\ Echo \subseteq Arguments
       /\ Awaited \subseteq Arguments /\ Once \cap Echo = {}

Kinds == {"audio", "clipboard", "file", "pipe", "argv", "put"}

VARIABLES
    input,       \* user -> input streams
    object,      \* user -> the object with index 0 is defined
    acks,        \* user -> the last ack sent, or "none"
    present,     \* users whose active flag is set
    handled,     \* instructions handled so far
    registered,  \* the registry: names in order, and which were received
    received,
    stopped,     \* guac_argv_stop() was called
    awaiter,     \* the waiting thread: "busy", "waiting" or "returned"
    applied,     \* values given to callbacks, in order
    echoed,      \* values sent to everyone, in order
    spoken       \* user -> stream -> what the user sent since opening it

streamVars == <<input, object, acks, present, handled, registered, received,
                stopped, awaiter, applied, echoed, spoken>>

Streams == 0 .. MaxStreams - 1

CLOSED == [open |-> FALSE, handler |-> "none", name |-> "", data |-> <<>>]

StreamInit ==
    /\ input = [u \in People |-> [i \in Streams |-> CLOSED]]
    /\ object = [u \in People |-> FALSE]
    /\ acks = [u \in People |-> "none"]
    /\ present = People
    /\ handled = 0
    /\ registered = <<>>
    /\ received = [a \in Arguments |-> FALSE]
    /\ stopped = FALSE
    /\ awaiter = "busy"
    /\ applied = <<>>
    /\ echoed = <<>>
    /\ spoken = [u \in People |-> [i \in Streams |-> <<>>]]

-----------------------------------------------------------------------------
(* The registry of arguments.                                              *)

\* Each argument is registered once, by the plugin.
guac_argv_register(a) ==
    /\ a \notin Range(registered)
    /\ Len(registered) < MaxRegistered
    /\ registered' = Append(registered, a)
    /\ UNCHANGED <<input, object, acks, present, handled, received, stopped,
                   awaiter, applied, echoed, spoken>>

\* An argument that is not registered counts as received.
guac_argv_is_received ==
    \A a \in Awaited \cap Range(registered) : received[a]

\* guac_argv_await() has the lock: it returns, or sleeps until something changes.
guac_argv_await ==
    /\ awaiter = "busy" /\ Awaited \subseteq Range(registered)
    /\ awaiter' = IF stopped \/ guac_argv_is_received
                  THEN "returned" ELSE "waiting"
    /\ UNCHANGED <<input, object, acks, present, handled, registered, received,
                   stopped, applied, echoed, spoken>>

Wake == awaiter' = IF awaiter = "waiting" THEN "busy" ELSE awaiter

guac_argv_stop ==
    /\ ~stopped
    /\ stopped' = TRUE
    /\ Wake
    /\ UNCHANGED <<input, object, acks, present, handled, registered, received,
                   applied, echoed, spoken>>

\* guac_argv_received(): some registered argument takes the stream.
Takes(a) == a \in Range(registered) /\ ~(a \in Once /\ received[a])

\* guac_argv_blob_handler(): what does not fit the buffer is dropped.
guac_argv_blob_handler(s, d) ==
    [s EXCEPT !.data = IF Len(@) < MaxValue THEN Append(@, d) ELSE @]

\* The result of the call that gives a value to its callback: 0, that of no call,
\* counts as accepted.
Accepts(a, value) == value \notin RefusedValues \/ (a \in Once /\ received[a])

\* As if nobody were woken when a value arrives.
MutantDoesNotWake(s) ==
    LET a == s.name
        value == [of |-> a, is |-> s.data]
    IN  /\ applied' = IF a \in Once /\ received[a]
                      THEN applied ELSE Append(applied, value)
        /\ echoed' = IF a \in Echo /\ Accepts(a, s.data)
                     THEN Append(echoed, value) ELSE echoed
        /\ received' = [received EXCEPT ![a] = TRUE]
        /\ UNCHANGED awaiter

\* guac_argv_end_handler(): under the lock, the value is given to the callback
\* unless the argument wanted one value and has it; it is echoed if the callback
\* did not refuse it; it counts as received either way, and whoever waits is woken.
guac_argv_end_handler(s) ==
    LET a == s.name
        value == [of |-> a, is |-> s.data]
    IN  /\ applied' = IF a \in Once /\ received[a]
                      THEN applied ELSE Append(applied, value)
        /\ echoed' = IF a \in Echo /\ Accepts(a, s.data)
                     THEN Append(echoed, value) ELSE echoed
        /\ received' = [received EXCEPT ![a] = TRUE]
        /\ Wake

-----------------------------------------------------------------------------
(* Input streams.                                                          *)

\* The end handler of a stream, or none.
Ended(u, i) ==
    LET s == input[u][i]
    IN  CASE s.open /\ s.handler = "argv" ->
                guac_argv_end_handler(s)
          [] OTHER -> UNCHANGED <<applied, echoed, received, awaiter>>

\* The stream as the handler of its kind leaves it.
OpenedAs(kind, a) ==
    IF kind = "argv"
    THEN IF Takes(a) THEN [open |-> TRUE, handler |-> "argv", name |-> a,
                           data |-> <<>>]
         ELSE [CLOSED EXCEPT !.open = TRUE]
    ELSE [CLOSED EXCEPT !.open = TRUE,
             !.handler = IF kind \in Accepted THEN "plugin" ELSE "none"]

AnswerTo(kind, a) ==
    CASE kind = "argv" -> IF Takes(a) THEN "SUCCESS" ELSE "FORBIDDEN"
      [] kind /= "argv" /\ kind \in Accepted -> "SUCCESS"
      [] OTHER -> "UNSUPPORTED"

Handles(u) ==
    /\ u \in present /\ handled < MaxHandled
    /\ handled' = handled + 1

\* __init_input_stream() and the handler of the instruction: a stream that is
\* still open is ended first, with the handlers it had; the argument takes the
\* new stream or not by what has been received after that.
Open(u, kind, i, a) ==
    /\ Handles(u)
    /\ kind \in Kinds \ {"put"} \/ object[u]
    /\ UNCHANGED <<object, present, registered, stopped>>
    /\ Ended(u, i)
    /\ input' = [input EXCEPT ![u][i] = OpenedAs(kind, a)']
    /\ acks' = [acks EXCEPT ![u] = AnswerTo(kind, a)']
    /\ spoken' = [spoken EXCEPT ![u][i] = <<>>]

\* An index beyond the user's streams is answered, and nothing else happens; so
\* is a blob or an end for a stream that is not open.
BadIndex(u) ==
    /\ Handles(u)
    /\ acks' = [acks EXCEPT ![u] = "BAD_REQUEST"]
    /\ UNCHANGED <<input, object, present, registered, received, stopped,
                   awaiter, applied, echoed, spoken>>

__guac_handle_blob(u, i, d) ==
    LET s == input[u][i]
    IN  /\ Handles(u) /\ s.open
        /\ input' = [input EXCEPT ![u][i] =
                CASE s.handler = "argv" -> guac_argv_blob_handler(s, d)
                  [] s.handler = "plugin" -> [s EXCEPT !.data = Append(@, d)]
                  [] OTHER -> s]
        /\ acks' = IF s.handler = "none"
                   THEN [acks EXCEPT ![u] = "UNSUPPORTED"] ELSE acks
        /\ spoken' = [spoken EXCEPT ![u][i] = Append(@, d)]
        /\ UNCHANGED <<object, present, registered, received, stopped, awaiter,
                       applied, echoed>>

__guac_handle_end(u, i) ==
    /\ Handles(u) /\ input[u][i].open
    /\ Ended(u, i)
    /\ input' = [input EXCEPT ![u][i].open = FALSE]
    /\ UNCHANGED <<object, acks, present, registered, stopped, spoken>>

\* The plugin defines or removes the object users may write to.
ToggleObject(u) ==
    /\ "put" \in Accepted
    /\ object' = [object EXCEPT ![u] = ~@]
    /\ UNCHANGED <<input, acks, present, handled, registered, received,
                   stopped, awaiter, applied, echoed, spoken>>

\* "disconnect", or a handler that fails: the user's thread ends.
__guac_handle_disconnect(u) ==
    /\ Handles(u)
    /\ present' = present \ {u}
    /\ UNCHANGED <<input, object, acks, registered, received, stopped, awaiter,
                   applied, echoed, spoken>>

StreamNext ==
    \/ \E a \in Arguments : guac_argv_register(a)
    \/ guac_argv_await \/ guac_argv_stop
    \/ \E u \in People :
          \/ \E i \in Streams :
                \/ \E kind \in Accepted \cup {"file"} : \E a \in Arguments :
                      Open(u, kind, i, a)
                \/ \E d \in Data : __guac_handle_blob(u, i, d)
                \/ __guac_handle_end(u, i)
          \/ BadIndex(u)
          \/ ToggleObject(u)
          \/ __guac_handle_disconnect(u)

-----------------------------------------------------------------------------
(* Properties.                                                             *)

StreamTypeOK ==
    /\ \A u \in People, i \in Streams :
          /\ input[u][i].handler \in {"none", "argv", "plugin"}
          /\ input[u][i].open \in BOOLEAN
    /\ Range(registered) \subseteq Arguments
    /\ received \in [Arguments -> BOOLEAN]
    /\ awaiter \in {"busy", "waiting", "returned"}

Count(seq, P(_)) == Cardinality({n \in DOMAIN seq : P(seq[n])})

\* An argument that wants one value is given to its callback once, however many
\* users have streams open for it.
OnceIsOnce ==
    \A a \in Once : Count(applied, LAMBDA v : v.of = a) <= 1

\* The thread that waits for arguments only returns when each of them has been
\* received and applied, or the wait was called off; and while it sleeps there is
\* something left to wait for, so no wake-up has been missed.
AwaitIsRight ==
    /\ awaiter = "returned" =>
          stopped \/ \A a \in Awaited : \E n \in DOMAIN applied : applied[n].of = a
    /\ awaiter = "waiting" => ~stopped /\ ~guac_argv_is_received

\* All users are told of the values of an argument that its callback accepted, in
\* the order in which they were applied, so everyone ends with the value in force.
EchoIsApplied ==
    LET InForce == SelectSeq(applied, LAMBDA v : v.of \in Echo /\ v.is \notin RefusedValues)
    IN  echoed = InForce

\* What an open stream has collected is what its user sent since opening it, as
\* far as it fits, whoever used the same index before.
CollectedIsSent ==
    \A u \in People, i \in Streams :
        LET s == input[u][i]
        IN  s.open /\ s.handler /= "none" =>
            s.data = IF s.handler = "plugin" THEN spoken[u][i]
                     ELSE SubSeq(spoken[u][i], 1,
                            IF Len(spoken[u][i]) < MaxValue
                            THEN Len(spoken[u][i]) ELSE MaxValue)

-----------------------------------------------------------------------------
(* The clipboard: text as bytes.  Users send it as blobs; a server of RDP is    *)
(* told that there is a clipboard and asks for it, one of VNC is sent it.  The  *)
(* lock is held for each call of common/clipboard.c only.                       *)

CONSTANTS
    ClipSettings,      \* settings of the connection
    PasteBlobs,        \* <<text, the blobs a user sends it as>>
    CopyTexts,         \* texts copied on the server
    GUAC_COMMON_CLIPBOARD_MAX_LENGTH,
    GUAC_COMMON_CLIPBOARD_BLOCK_SIZE,
    MaxTexts           \* bound: texts the users and the server send

VARIABLES
    sharing,    \* the settings: protocol, encoding, crlf, normalize, disable_copy
    clip,       \* guac_common_clipboard
    pastes,     \* user -> the stream it sends
    copying,    \* what the thread of the connection is doing for the server
    cliprdr,    \* the channel: "gone", "connected" or "ready"
    requested_format,
                \* guac_rdp_clipboard.requested_format
    queries,    \* <<format, text>> the server has still to answer
    newest,     \* the paste that ended last
    told,       \* the paste the server was last told of
    holds,      \* the text the clipboard holds, where only one thread wrote it
    answer,     \* what the server was sent last
    shown,   \* user -> the clipboard it was sent last
    texts       \* texts sent so far

channelVars == <<cliprdr, requested_format, queries>>
clipboardVars == <<sharing, clip, pastes, copying, channelVars, newest, told, holds,
                   answer, shown, texts>>

UnknownText == <<-1>>
NoPaste == [step |-> "none", text |-> <<>>, blobs |-> <<>>, alone |-> FALSE,
            read |-> <<>>, length |-> 0]
NoReply == [step |-> "none", text |-> <<>>, bytes |-> <<>>, alone |-> FALSE,
            format |-> "none", length |-> 0]

guac_common_clipboard_alloc ==
    [mimetype |-> "", buffer |-> [i \in 1 .. GUAC_COMMON_CLIPBOARD_MAX_LENGTH |-> 0],
     length |-> 0]

ClipboardInit ==
    /\ sharing \in ClipSettings
    /\ clip = guac_common_clipboard_alloc
    /\ pastes = [u \in People |-> NoPaste]
    /\ copying = NoReply
    /\ cliprdr = "gone" /\ requested_format = "CF_TEXT" /\ queries = <<>>
    /\ newest = 0 /\ told = 0 /\ texts = 0
    /\ holds = UnknownText
    /\ answer = [out |-> <<>>, encoding |-> "none", text |-> UnknownText]
    /\ shown = [u \in People |->
                     [mimetype |-> "", blobs |-> <<>>, text |-> UnknownText]]

guac_common_clipboard_reset(mimetype) == [clip EXCEPT !.mimetype = mimetype, !.length = 0]

guac_common_clipboard_append(data) ==
    LET n == Lesser(Len(data), GUAC_COMMON_CLIPBOARD_MAX_LENGTH - clip.length)
    IN  [clip EXCEPT !.length = @ + n,
           !.buffer = [i \in DOMAIN @ |-> IF i - clip.length \in 1 .. n
                                          THEN data[i - clip.length] ELSE @[i]]]

\* Whatever others have under way is no longer all the clipboard holds.
Disturbed(ps, u) == [v \in People |-> IF v = u THEN ps[v]
                                         ELSE [ps[v] EXCEPT !.alone = FALSE]]
CopyDisturbed == copying' = [copying EXCEPT !.alone = FALSE]

\* The handlers of the users: the stream opens, a blob, the end.
guac_clipboard_handler(u, paste) ==
    /\ pastes[u].step = "none" /\ texts < MaxTexts
    /\ texts' = texts + 1
    /\ clip' = guac_common_clipboard_reset("text/plain")
    /\ pastes' = Disturbed([pastes EXCEPT ![u] =
                    [NoPaste EXCEPT !.step = "open", !.text = paste[1],
                                    !.blobs = paste[2], !.alone = TRUE]], u)
    /\ CopyDisturbed
    /\ holds' = UnknownText
    /\ UNCHANGED <<sharing, channelVars, newest, told, answer, shown>>

guac_clipboard_blob_handler(u) ==
    /\ pastes[u].step = "open" /\ pastes[u].blobs /= <<>>
    /\ clip' = guac_common_clipboard_append(Head(pastes[u].blobs))
    /\ pastes' = Disturbed([pastes EXCEPT ![u].blobs = Tail(@)], u)
    /\ CopyDisturbed
    /\ holds' = UnknownText
    /\ UNCHANGED <<sharing, channelVars, newest, told, answer, shown, texts>>

\* guac_rdp_clipboard_end_handler(): terminated, then announced.
AppendTerminator(u) ==
    /\ sharing.protocol = "rdp"
    /\ pastes[u].step = "open" /\ pastes[u].blobs = <<>>
    /\ clip' = guac_common_clipboard_append(<<0>>)
    /\ pastes' = Disturbed([pastes EXCEPT ![u].step = "announce"], u)
    /\ CopyDisturbed
    /\ newest' = newest + 1
    /\ holds' = IF pastes[u].alone THEN Append(pastes[u].text, 0) ELSE UnknownText
    /\ UNCHANGED <<sharing, channelVars, told, answer, shown, texts>>

\* It looks whether the channel is there ...
CheckChannel(u) ==
    /\ pastes[u].step = "announce"
    /\ pastes' = [pastes EXCEPT ![u] = IF cliprdr = "gone" THEN NoPaste
                                       ELSE [@ EXCEPT !.step = "checked"]]
    /\ UNCHANGED <<sharing, clip, copying, channelVars, newest, told, holds, answer,
                   shown, texts>>

\* ... and uses the pointer it reads again, without a lock: the thread of FreeRDP may
\* have disconnected the channel since, and the pointer that is then NULL is followed.
guac_rdp_cliprdr_send_format_list(u) ==
    /\ pastes[u].step = "checked"
    /\ told' = IF cliprdr = "gone" THEN told ELSE newest
    /\ pastes' = [pastes EXCEPT ![u] = IF cliprdr = "gone"
                                       THEN [@ EXCEPT !.step = "crashed"] ELSE NoPaste]
    /\ UNCHANGED <<sharing, clip, copying, channelVars, newest, holds, answer,
                   shown, texts>>

Crashed == \E u \in People : pastes[u].step = "crashed"

\* The clipboard is read without its lock: some of it now, the rest later.
ReadFrom(k) == SubSeq(clip.buffer, 1, k)
ReadAll(read, length) == read \o SubSeq(clip.buffer, Len(read) + 1, length)

\* guac_vnc_clipboard_end_handler(): converted and sent at once.
guac_vnc_clipboard_end_handler(u) ==
    /\ sharing.protocol = "vnc"
    /\ pastes[u].step = "open" /\ pastes[u].blobs = <<>>
    /\ newest' = newest + 1
    /\ \E k \in {0, clip.length} :
         pastes' = [pastes EXCEPT ![u].step = "converting", ![u].read = ReadFrom(k),
                                  ![u].length = clip.length]
    /\ UNCHANGED <<sharing, clip, copying, channelVars, told, holds, answer,
                   shown, texts>>

Writer(encoding, crlf) == [encoding |-> encoding, normalized |-> FALSE, crlf |-> crlf]
Reader(encoding, norm) == [encoding |-> encoding, normalized |-> norm, crlf |-> FALSE]

SendClientCutText(u) ==
    LET p == pastes[u]
        out == guac_iconv(Reader("UTF8", FALSE), ReadAll(p.read, p.length),
                          Writer(sharing.encoding, FALSE),
                          GUAC_COMMON_CLIPBOARD_MAX_LENGTH).out
    IN  /\ p.step = "converting"
        /\ answer' = [out |-> out, encoding |-> sharing.encoding,
                      text |-> IF p.alone THEN p.text ELSE UnknownText]
        /\ pastes' = [pastes EXCEPT ![u] = NoPaste]
        /\ UNCHANGED <<sharing, clip, copying, channelVars, newest, told, holds,
                       shown, texts>>

\* The channel connects, and the server is ready: it is told what there is.
guac_rdp_cliprdr_channel_connected ==
    /\ sharing.protocol = "rdp" /\ cliprdr = "gone" /\ copying.step = "none"
    /\ cliprdr' = "connected"
    /\ UNCHANGED <<sharing, clip, pastes, copying, requested_format, queries,
                   newest, told, holds, answer, shown, texts>>

guac_rdp_cliprdr_monitor_ready ==
    /\ cliprdr = "connected" /\ copying.step = "none"
    /\ cliprdr' = "ready"
    /\ told' = newest
    /\ UNCHANGED <<sharing, clip, pastes, copying, requested_format, queries,
                   newest, holds, answer, shown, texts>>

guac_rdp_cliprdr_channel_disconnected ==
    /\ cliprdr /= "gone" /\ copying.step = "none"
    /\ cliprdr' = "gone" /\ told' = 0 /\ queries' = <<>>
    /\ UNCHANGED <<sharing, clip, pastes, copying, requested_format, newest, holds,
                   answer, shown, texts>>

\* The server asks for the clipboard in a format it was told of.
guac_rdp_cliprdr_format_data_request(format) ==
    /\ cliprdr = "ready" /\ copying.step = "none" /\ told > 0
    /\ \E k \in {0, clip.length} :
         copying' = [NoReply EXCEPT !.step = "converting", !.format = format,
                      !.bytes = ReadFrom(k), !.length = clip.length,
                      !.text = holds, !.alone = TRUE]
    /\ UNCHANGED <<sharing, clip, pastes, channelVars, newest, told, holds, answer,
                   shown, texts>>

EncodingOf(format) == IF format = "CF_TEXT" THEN "CP1252" ELSE "UTF16"

ClientFormatDataResponse ==
    LET out == guac_iconv(Reader("UTF8", sharing.normalize),
                          ReadAll(copying.bytes, copying.length),
                          Writer(EncodingOf(copying.format), sharing.crlf),
                          GUAC_COMMON_CLIPBOARD_MAX_LENGTH).out
    IN  /\ copying.step = "converting"
        /\ answer' = [out |-> out, encoding |-> EncodingOf(copying.format),
                      text |-> IF copying.alone THEN copying.text ELSE UnknownText]
        /\ copying' = NoReply
        /\ UNCHANGED <<sharing, clip, pastes, channelVars, newest, told, holds,
                       shown, texts>>

\* Something was copied on the server, in these formats: it is asked for the best.
guac_rdp_cliprdr_format_list(formats, text) ==
    LET best == IF "CF_UNICODETEXT" \in formats THEN "CF_UNICODETEXT" ELSE "CF_TEXT"
    IN  /\ cliprdr = "ready" /\ copying.step = "none" /\ texts < MaxTexts
        /\ texts' = texts + 1
        /\ IF formats \cap {"CF_TEXT", "CF_UNICODETEXT"} = {}
           THEN UNCHANGED <<requested_format, queries>>
           ELSE requested_format' = best /\ queries' = Append(queries, <<best, text>>)
        /\ UNCHANGED <<sharing, clip, pastes, copying, cliprdr, newest, told, holds,
                       answer, shown>>

\* A text in an encoding, by definition.
LOCAL Encoded(encoding, text) ==
    LET One(c) == CASE encoding = "UTF8" -> BytesOf(<<c>>)
                    [] encoding = "UTF16" -> <<c % 256, c \div 256>>
                    [] c < 128 -> <<c>>
                    [] encoding = "CP1252" /\ c = 8364 -> <<128>>
                    [] OTHER -> <<63>>
    IN  FoldLeft(LAMBDA a, c : a \o One(c), <<>>, text)

\* Text of the server: it is converted, and only what is terminated is taken from a
\* server of RDP.  It is read in the format that was asked for last.
Copied(bytes, encoding, norm, terminated, text) ==
    LET r == guac_iconv(Reader(encoding, norm), bytes, Writer("UTF8", FALSE),
                        GUAC_COMMON_CLIPBOARD_MAX_LENGTH)
    IN  copying' = IF sharing.disable_copy \/ (terminated /\ ~r.done) THEN copying
                  ELSE [NoReply EXCEPT !.step = "reset", !.text = text, !.alone = TRUE,
                          !.bytes = IF terminated
                                    THEN SubSeq(r.out, 1, strnlen(r.out, 0, Len(r.out)))
                                    ELSE r.out]

guac_rdp_cliprdr_format_data_response ==
    /\ queries /= <<>> /\ copying.step = "none"
    /\ Copied(Encoded(EncodingOf(Head(queries)[1]), Append(Head(queries)[2], 0)),
              EncodingOf(requested_format), sharing.normalize, TRUE,
              IF Head(queries)[1] = requested_format THEN Head(queries)[2] ELSE UnknownText)
    /\ queries' = Tail(queries)
    /\ UNCHANGED <<sharing, clip, pastes, cliprdr, requested_format, newest, told,
                   holds, answer, shown, texts>>

guac_vnc_cut_text(text) ==
    /\ sharing.protocol = "vnc" /\ copying.step = "none" /\ texts < MaxTexts
    /\ texts' = texts + 1
    /\ Copied(Encoded(sharing.encoding, text), sharing.encoding, FALSE, FALSE, text)
    /\ UNCHANGED <<sharing, clip, pastes, channelVars, newest, told, holds, answer,
                   shown>>

\* It is put into the clipboard, and that sent to the users, by three calls.
ResetForCopy ==
    /\ copying.step = "reset"
    /\ clip' = guac_common_clipboard_reset("text/plain")
    /\ copying' = [copying EXCEPT !.step = "append", !.alone = TRUE]
    /\ pastes' = Disturbed(pastes, "nobody")
    /\ holds' = UnknownText
    /\ UNCHANGED <<sharing, channelVars, newest, told, answer, shown, texts>>

AppendCopy ==
    /\ copying.step = "append"
    /\ clip' = guac_common_clipboard_append(copying.bytes)
    /\ copying' = [copying EXCEPT !.step = "send"]
    /\ pastes' = Disturbed(pastes, "nobody")
    /\ holds' = IF copying.alone THEN copying.text ELSE UnknownText
    /\ UNCHANGED <<sharing, channelVars, newest, told, answer, shown, texts>>

Blocks(bytes) ==
    LET size == GUAC_COMMON_CLIPBOARD_BLOCK_SIZE
    IN  [i \in 1 .. (Len(bytes) + size - 1) \div size |->
           SubSeq(bytes, (i - 1) * size + 1, Lesser(i * size, Len(bytes)))]

guac_common_clipboard_send ==
    /\ copying.step = "send"
    /\ shown' = [u \in People |->
         [mimetype |-> clip.mimetype, blobs |-> Blocks(ReadFrom(clip.length)),
          text |-> IF copying.alone THEN copying.text ELSE UnknownText]]
    /\ copying' = NoReply
    /\ UNCHANGED <<sharing, clip, pastes, channelVars, newest, told, holds, answer,
                   texts>>

ClipboardStep ==
    \/ \E u \in People :
         \/ \E p \in PasteBlobs : guac_clipboard_handler(u, p)
         \/ guac_clipboard_blob_handler(u)
         \/ AppendTerminator(u) \/ CheckChannel(u)
         \/ guac_rdp_cliprdr_send_format_list(u)
         \/ guac_vnc_clipboard_end_handler(u) \/ SendClientCutText(u)
    \/ guac_rdp_cliprdr_channel_connected \/ guac_rdp_cliprdr_monitor_ready
    \/ guac_rdp_cliprdr_channel_disconnected
    \/ \E f \in {"CF_TEXT", "CF_UNICODETEXT"} : guac_rdp_cliprdr_format_data_request(f)
    \/ ClientFormatDataResponse
    \/ \E t \in CopyTexts : guac_vnc_cut_text(t)
    \/ \E t \in CopyTexts, fs \in {{"CF_TEXT"}, {"CF_TEXT", "CF_UNICODETEXT"}, {"CF_DIB"}} :
         guac_rdp_cliprdr_format_list(fs, t)
    \/ guac_rdp_cliprdr_format_data_response
    \/ ResetForCopy \/ AppendCopy \/ guac_common_clipboard_send

\* The crash of a thread is the end of the process.
ClipboardNext == ~Crashed /\ ClipboardStep

\* The line ends a text should have.
LOCAL Lines(text, norm, crlf) ==
    LET unix == IF norm THEN Unix(text) ELSE text
    IN  FoldLeft(LAMBDA a, c : IF crlf /\ c = 10 THEN a \o <<13, 10>> ELSE Append(a, c),
                 <<>>, unix)

\* A text only one user was sending is what the server gets when it is sent or asks,
\* in the encoding it asked for, with its terminator and the line ends of the
\* settings, however it was cut into blobs, if it fits (cliprdr.h, vnc/clipboard.h).
PasteWhole ==
    LET rdp  == sharing.protocol = "rdp"
        text == Lines(answer.text, rdp /\ sharing.normalize, rdp /\ sharing.crlf)
        whole == Encoded(answer.encoding, text)
    IN  answer.text /= UnknownText =>
          /\ Len(answer.out) <= GUAC_COMMON_CLIPBOARD_MAX_LENGTH
          /\ Len(BytesOf(answer.text)) <= GUAC_COMMON_CLIPBOARD_MAX_LENGTH
             /\ Len(whole) <= GUAC_COMMON_CLIPBOARD_MAX_LENGTH => answer.out = whole

\* A text of the server that nobody wrote over, read in the format it was asked for,
\* is what all users get, unless they may not have it; what the users and the server
\* then hold is the same.
CopyWhole ==
    \A u \in People :
      LET got  == shown[u]
          text == Lines(got.text, sharing.protocol = "rdp" /\ sharing.normalize, FALSE)
          sent == IF sharing.protocol = "vnc" /\ sharing.encoding = "ISO8859_1"
                  THEN [i \in DOMAIN text |-> IF text[i] < 256 THEN text[i] ELSE 63]
                  ELSE text
      IN  /\ sharing.disable_copy => got.mimetype = ""
          /\ \A i \in DOMAIN got.blobs :
               Len(got.blobs[i]) \in 1 .. GUAC_COMMON_CLIPBOARD_BLOCK_SIZE
          /\ got.text /= UnknownText
             /\ Len(BytesOf(Append(sent, 0))) <= GUAC_COMMON_CLIPBOARD_MAX_LENGTH =>
               /\ FoldLeft(LAMBDA a, b : a \o b, <<>>, got.blobs) = BytesOf(sent)
               /\ got.mimetype = "text/plain"

\* A server that is ready knows of the paste that ended last, as soon as its user's
\* handler is done, even if the channel came later or went and came again meanwhile.
PastesTold ==
    cliprdr = "ready" /\ (\A u \in People : pastes[u].step \notin {"announce", "checked"}) =>
      Crashed \/ told = newest

ClipboardSound == PasteWhole /\ CopyWhole /\ PastesTold

=============================================================================
