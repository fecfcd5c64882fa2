------------------------------- MODULE MCWire -------------------------------
(***************************************************************************)
(* What goes over a connection: reading instructions (GuacParser), writing *)
(* them from several threads (GuacSockets), the streams users open         *)
(* and the clipboard they share (UserStreams), and the files they and an   *)
(* RDP server store (RdpDrive).  They share no state; each behaviour is    *)
(* one of one of them, the others staying as they begin.                   *)
(***************************************************************************)
EXTENDS GuacParser, GuacSockets, UserStreams, RdpDrive

CONSTANTS b1, u1, u2

VARIABLE part

TestTurns(t) == CASE t = b1 -> 1 [] t = u2 -> 0 [] OTHER -> 1

Early == <<guac_protocol_send_key(65, TRUE, 12)>>

Sends == <<
    guac_protocol_send_ack(0, "OK", 0),
    guac_protocol_send_args(<<"host", "port">>),
    guac_protocol_send_argv(1, "text", "color"),
    guac_protocol_send_arc(0, 1, 22, 3, 1, 2, TRUE),
    guac_protocol_send_audio(0, "L16"),
    guac_protocol_send_blob(1, <<0, 255, 130, 7>>),
    guac_protocol_send_body(0, 1, "text", "wide"),
    guac_protocol_send_cfill(14, -1, 255, 0, 0, 9),
    guac_protocol_send_close(0),
    guac_protocol_send_connect(<<"", "wide">>),
    guac_protocol_send_clip(-3),
    guac_protocol_send_clipboard(0, "text"),
    guac_protocol_send_copy(-1, 0, 0, 10, 10, 14, 0, 5, 100),
    guac_protocol_send_cstroke(14, 0, 1, 1, 2, 0, 0, 255, 255),
    guac_protocol_send_cursor(1, 1, -1, 0, 0, 16, 16),
    guac_protocol_send_curve(0, 1, 2, 3, 4, 5, 6),
    guac_protocol_send_disconnect,
    guac_protocol_send_dispose(-1),
    guac_protocol_send_distort(0, 1, 0, 0, 1, 0, 0),
    guac_protocol_send_end(0),
    guac_protocol_send_error("wide", 519),
    guac_protocol_send_log("hello"),
    guac_protocol_send_msg(1, <<"wide">>),
    guac_protocol_send_file(0, "text", "f"),
    guac_protocol_send_filesystem(0, "wide"),
    guac_protocol_send_identity(0),
    guac_protocol_send_key(65293, FALSE, 4),
    guac_protocol_send_lfill(14, 0, -1),
    guac_protocol_send_line(0, 5, 6),
    guac_protocol_send_lstroke(14, 0, 0, 0, 1, -1),
    guac_protocol_send_mouse(10, 20, 1, 4),
    guac_protocol_send_touch(0, 1, 2, 3, 4, 0, 1, 5),
    guac_protocol_send_move(1, 0, -5, 6, 2),
    guac_protocol_send_name("wide"),
    guac_protocol_send_nest(0, "3.nop;"),
    guac_protocol_send_nop,
    guac_protocol_send_pipe(0, "text", "p"),
    guac_protocol_send_img(2, 14, 0, "png", 0, 0),
    guac_protocol_send_pop(0),
    guac_protocol_send_push(0),
    guac_protocol_send_ready("$id"),
    guac_protocol_send_rect(0, 0, 0, 64, 64),
    guac_protocol_send_required(<<"password">>),
    guac_protocol_send_reset(0),
    guac_protocol_send_set(0, "x", "wide"),
    guac_protocol_send_set_int(0, "x", 12),
    guac_protocol_send_select("vnc"),
    guac_protocol_send_shade(1, 128),
    guac_protocol_send_size(0, 1024, 768),
    guac_protocol_send_start(0, 1, 1),
    guac_protocol_send_sync(123456, 1),
    guac_protocol_send_transfer(0, 0, 0, 1, 1, 6, -1, 0, 0),
    guac_protocol_send_transform(0, 1, 0, 0, 1, 0, 0),
    guac_protocol_send_undefine(0),
    guac_protocol_send_video(0, 0, "ogg")>>

\* More elements than may be, an element longer than may be, and an instruction
\* longer than the buffer.
Excessive == {
    guac_protocol_send_connect([i \in 1 .. 11 |-> "x"]),
    guac_protocol_send_connect([i \in 1 .. 10 |-> "x"]),
    guac_protocol_send_name("a name of more than twenty"),
    guac_protocol_send_connect([i \in 1 .. 5 |-> "twelve chars"])}

TestPayloads == BoundedSeq({171, 255}, 7)

TestConnections ==
    {<<Sends[n]>> \o Early : n \in DOMAIN Sends}
        \cup {Early \o <<x>> : x \in Excessive}
        \cup {<<guac_protocol_send_select("vnc"), guac_protocol_send_nop,
                guac_protocol_send_size(0, 800, 600), guac_protocol_send_nop>>}

\* A drive with a document, and a new one of which nothing is given to users or
\* taken from them.
Folder == [dir |-> TRUE, data |-> <<>>]
Document == [dir |-> FALSE, data |-> <<<<0, 1>>>>]
MCInitialDrives ==
    LET doc == [p \in {<<>>, <<"doc">>} |-> IF p = <<"doc">> THEN Document ELSE Folder]
        new == [p \in {<<>>} |-> Folder]
    IN  {[tree |-> doc, disable_download |-> FALSE, disable_upload |-> FALSE],
         [tree |-> new, disable_download |-> TRUE, disable_upload |-> TRUE]}
MCPathInputs == {<<"", "">>, <<"", "..", "..", "doc">>, <<"", "Download", "doc">>}
MCCreateInputs ==
    {<<<<"", "">>, "r", "FILE_OPEN", TRUE>>,
     <<<<"", "..", "..", "doc">>, "rw", "FILE_OPEN", FALSE>>,
     <<<<"", "doc">>, "w", "FILE_OVERWRITE_IF", FALSE>>,
     <<<<"", "doc">>, "rw", "FILE_SUPERSEDE", FALSE>>,
     <<<<"", "doc">>, "w", "FILE_OVERWRITE", FALSE>>,
     <<<<"", "doc">>, "r", "FILE_OVERWRITE_IF", TRUE>>,
     <<<<"", "Download", "doc">>, "w", "FILE_CREATE", FALSE>>,
     <<<<"", "Download", ".">>, "r", "FILE_OPEN_IF", TRUE>>,
     <<<<"", "Download", "doc", "x">>, "r", "FILE_OPEN_IF", FALSE>>,
     <<<<"", "c:">>, "r", "FILE_OPEN", FALSE>>}

MCRefused == {<<"y">>}

NothingRead ==
    /\ sent = <<>> /\ wire = <<>> /\ got = <<>> /\ shifted = <<>>
    /\ parser = guac_parser_alloc
    /\ local = [start |-> 1, end |-> 1, instr |-> 1]
    /\ phase = "closed"

SharedAs(protocol, encoding, crlf, normalize, disable_copy) ==
    [protocol |-> protocol, encoding |-> encoding, crlf |-> crlf,
     normalize |-> normalize, disable_copy |-> disable_copy]

MCClipSettings ==
    {SharedAs("rdp", "none", TRUE, TRUE, FALSE), SharedAs("rdp", "none", FALSE, FALSE, TRUE),
     SharedAs("vnc", "ISO8859_1", FALSE, FALSE, FALSE),
     SharedAs("vnc", "UTF8", FALSE, FALSE, FALSE)}

\* A character is cut by a blob; line ends of either kind.
MCPasteBlobs == {<< <<8364, 10>>, << <<226, 130>>, <<172, 10>> >> >>,
                 << <<97, 13, 10>>, << <<97, 13, 10>> >> >>}
MCCopyTexts == {<<8364, 13, 10, 98>>}

ClipboardIdle == ClipboardInit /\ sharing = SharedAs("vnc", "UTF8", FALSE, FALSE, FALSE)

Init ==
    /\ part \in {"parser", "sockets", "streams", "clipboard", "drive"}
    /\ IF part = "parser" THEN ParserInit ELSE NothingRead
    /\ SocketInit /\ (part /= "sockets" => waiting = {})
    /\ StreamInit
    /\ IF part = "clipboard" THEN ClipboardInit ELSE ClipboardIdle
    /\ DriveInit
    /\ part /= "drive" => fs.disable_upload

\* A step of one part; the others stay as they are.
Others(p) ==
    /\ part = p
    /\ UNCHANGED part
    /\ p /= "parser" => UNCHANGED parserVars
    /\ p /= "sockets" => UNCHANGED socketVars
    /\ p /= "streams" => UNCHANGED streamVars
    /\ p /= "clipboard" => UNCHANGED clipboardVars
    /\ p /= "drive" => UNCHANGED driveVars

Next ==
    \/ Others("parser") /\ ParserNext
    \/ Others("sockets") /\ SocketNext
    \/ Others("streams") /\ StreamNext
    \/ Others("clipboard") /\ ClipboardNext
    \/ Others("drive") /\ DriveNext

\* Of the values that several users send on several streams: each is what was
\* sent on its stream, one that may be given once is applied once, what is
\* echoed is what was applied, and a thread that waits for values returns with
\* all of them or when stopped; what is pasted or copied arrives as it was.
StreamsSound ==
    /\ StreamTypeOK
    /\ OnceIsOnce
    /\ AwaitIsRight
    /\ EchoIsApplied
    /\ CollectedIsSent
    /\ ClipboardSound

=============================================================================
