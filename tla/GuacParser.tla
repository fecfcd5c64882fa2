----------------------------- MODULE GuacParser -----------------------------
(***************************************************************************)
(* The instructions of the Guacamole protocol as the functions of          *)
(* libguac/protocol.c write them.  An instruction is a sequence of         *)
(* elements; an element carries the length that is written before it, the  *)
(* number of its characters, the number of bytes each of them takes, and   *)
(* its value.  The opcodes are literals of the source that carry their own *)
(* length, so the length of a literal is not derived from its text.        *)
(*                                                                         *)
(* Layers, streams and objects are given by their indices.  Every function *)
(* holds the lock of the socket from guac_socket_instruction_begin() to    *)
(* guac_socket_instruction_end(); GuacSockets models that.                 *)
(*                                                                         *)
(* And the instruction parser (parser.c): bytes arrive from a socket       *)
(* in pieces of any size, wait in the parser's fixed buffer, and are       *)
(* parsed in place, the elements being pointers into that buffer.          *)
(*                                                                         *)
(* The peer writes instructions as protocol.c does.  A byte of an element  *)
(* is named by the instruction, the element and the position it comes      *)
(* from, so that an element read at a wrong place or put together of two   *)
(* is told apart from the one that was sent.                               *)
(*                                                                         *)
(* After the first instruction guacd stops reading, takes what the parser  *)
(* has not parsed out of its buffer with guac_parser_shift(), and hands    *)
(* these bytes, and then the rest of the connection, to another process.   *)
(***************************************************************************)
EXTENDS Integers, Sequences, SequencesExt, TLC, FiniteSets

CONSTANTS
    WideText,        \* texts whose characters take two bytes each
    ProtocolVersion, \* GUACAMOLE_PROTOCOL_VERSION
    BlobMax,         \* GUAC_PROTOCOL_BLOB_MAX_LENGTH
    ReadyMax         \* GUAC_SOCKET_BASE64_READY_BUFFER_SIZE

ASSUME BlobMax \in Nat \ {0} /\ ReadyMax \in Nat \ {0}

Least(a, b) == IF a < b THEN a ELSE b

\* The pieces of at most n bytes that data is cut into, and the k-th of them.
Pieces(data, n) == (Len(data) + n - 1) \div n

Piece(data, k, n) == SubSeq(data, (k - 1) * n + 1, Least(k * n, Len(data)))

-----------------------------------------------------------------------------
(* The elements.                                                           *)

\* A literal of the source, with the length written in it.
Lit(n, text) == [len |-> n, chars |-> Len(text), width |-> 1, val |-> text]

\* A string is preceded by its length in characters, not in bytes.
Str(text) ==
    [len |-> Len(text), chars |-> Len(text),
     width |-> IF text \in WideText THEN 2 ELSE 1, val |-> text]

\* Numbers are written in decimal.
Dec(i) ==
    LET digits == Len(ToString(i))
    IN  [len |-> digits, chars |-> digits, width |-> 1, val |-> i]

Double(d) == Dec(d)

Flag(b) == IF b THEN Dec(1) ELSE Dec(0)

Strs(array) == [i \in 1 .. Len(array) |-> Str(array[i])]

-----------------------------------------------------------------------------
(* Base64: a text is a sequence of sextets, PAD standing for '='.          *)

PAD == 64

\* Three bytes as four sextets; a missing byte is given as -1.
__guac_socket_encode_base64(a, b, c) ==
    CASE b < 0 -> <<a \div 4, (a % 4) * 16, PAD, PAD>>
      [] b >= 0 /\ c < 0 ->
            <<a \div 4, (a % 4) * 16 + b \div 16, (b % 16) * 4, PAD>>
      [] OTHER ->
            <<a \div 4, (a % 4) * 16 + b \div 16, (b % 16) * 4 + c \div 64,
              c % 64>>

\* The bytes that are ready are encoded in groups of three, the last one padded.
guac_socket_flush_base64(ready) ==
    LET At(i) == IF i <= Len(ready) THEN ready[i] ELSE -1
    IN  FlattenSeq([g \in 1 .. (Len(ready) + 2) \div 3 |->
            __guac_socket_encode_base64(At(3 * g - 2), At(3 * g - 1),
                                        At(3 * g))])

\* Bytes wait in the ready buffer, which is encoded whenever it is full; what
\* remains is encoded at the end of the blob.
guac_socket_write_base64(data) ==
    FlattenSeq([k \in 1 .. Pieces(data, ReadyMax) |->
        guac_socket_flush_base64(Piece(data, k, ReadyMax))])

\* Decoding in place, as far as the first '='.
guac_protocol_decode_base64(text) ==
    LET Step(st, c) ==
            IF st.stop \/ c = PAD THEN [st EXCEPT !.stop = TRUE]
            ELSE LET value == (st.value * 64 + c) % 65536
                     bits  == st.bits + 6
                     byte  == (value \div 2^(bits % 8)) % 256
                 IN  IF bits < 8
                     THEN [st EXCEPT !.value = value, !.bits = bits]
                     ELSE [st EXCEPT !.value = value, !.bits = bits - 8,
                                     !.out = Append(@, byte)]
    IN  FoldLeft(Step, [value |-> 0, bits |-> 0, out |-> <<>>, stop |-> FALSE],
                 text).out

-----------------------------------------------------------------------------
(* One operator per guac_protocol_send_...().                              *)

guac_protocol_send_ack(stream, error, status) ==
    <<Lit(3, "ack"), Dec(stream), Str(error), Dec(status)>>

guac_protocol_send_args(args) ==
    <<Lit(4, "args"), Str(ProtocolVersion)>> \o Strs(args)

guac_protocol_send_argv(stream, mimetype, name) ==
    <<Lit(4, "argv"), Dec(stream), Str(mimetype), Str(name)>>

guac_protocol_send_arc(layer, x, y, radius, startAngle, endAngle, negative) ==
    <<Lit(3, "arc"), Dec(layer), Dec(x), Dec(y), Dec(radius),
      Double(startAngle), Double(endAngle), Flag(negative)>>

guac_protocol_send_audio(stream, mimetype) ==
    <<Lit(5, "audio"), Dec(stream), Str(mimetype)>>

\* The length prefix is computed from the length of the data; the text comes out
\* of the base64 ready buffer.
guac_protocol_send_blob(stream, data) ==
    LET text == guac_socket_write_base64(data)
    IN  <<Lit(4, "blob"), Dec(stream),
          [len |-> ((Len(data) + 2) \div 3) * 4, chars |-> Len(text),
           width |-> 1, val |-> text]>>

\* Data of any length is sent in blobs of at most BlobMax bytes.
guac_protocol_send_blobs(stream, data) ==
    [k \in 1 .. Pieces(data, BlobMax) |->
        guac_protocol_send_blob(stream, Piece(data, k, BlobMax))]

guac_protocol_send_body(object, stream, mimetype, name) ==
    <<Lit(4, "body"), Dec(object), Dec(stream), Str(mimetype), Str(name)>>

guac_protocol_send_cfill(mode, layer, r, g, b, a) ==
    <<Lit(5, "cfill"), Dec(mode), Dec(layer), Dec(r), Dec(g), Dec(b), Dec(a)>>

guac_protocol_send_close(layer) ==
    <<Lit(5, "close"), Dec(layer)>>

guac_protocol_send_connect(args) == <<Lit(7, "connect")>> \o Strs(args)

guac_protocol_send_clip(layer) ==
    <<Lit(4, "clip"), Dec(layer)>>

guac_protocol_send_clipboard(stream, mimetype) ==
    <<Lit(9, "clipboard"), Dec(stream), Str(mimetype)>>

guac_protocol_send_copy(srcl, srcx, srcy, w, h, mode, dstl, dstx, dsty) ==
    <<Lit(4, "copy"), Dec(srcl), Dec(srcx), Dec(srcy), Dec(w), Dec(h),
      Dec(mode), Dec(dstl), Dec(dstx), Dec(dsty)>>

guac_protocol_send_cstroke(mode, layer, cap, join, thickness, r, g, b, a) ==
    <<Lit(7, "cstroke"), Dec(mode), Dec(layer), Dec(cap), Dec(join),
      Dec(thickness), Dec(r), Dec(g), Dec(b), Dec(a)>>

guac_protocol_send_cursor(x, y, srcl, srcx, srcy, w, h) ==
    <<Lit(6, "cursor"), Dec(x), Dec(y), Dec(srcl), Dec(srcx), Dec(srcy),
      Dec(w), Dec(h)>>

guac_protocol_send_curve(layer, cp1x, cp1y, cp2x, cp2y, x, y) ==
    <<Lit(5, "curve"), Dec(layer), Dec(cp1x), Dec(cp1y), Dec(cp2x), Dec(cp2y),
      Dec(x), Dec(y)>>

guac_protocol_send_disconnect ==
    <<Lit(10, "disconnect")>>

guac_protocol_send_dispose(layer) ==
    <<Lit(7, "dispose"), Dec(layer)>>

guac_protocol_send_distort(layer, a, b, c, d, e, f) ==
    <<Lit(7, "distort"), Dec(layer), Double(a), Double(b), Double(c),
      Double(d), Double(e), Double(f)>>

guac_protocol_send_end(stream) ==
    <<Lit(3, "end"), Dec(stream)>>

guac_protocol_send_error(error, status) ==
    <<Lit(5, "error"), Str(error), Dec(status)>>

\* The message is cut to what fits the 4096 bytes of its buffer.
guac_protocol_send_log(message) == <<Lit(3, "log"), Str(message)>>

guac_protocol_send_msg(msg, args) ==
    <<Lit(3, "msg"), Dec(msg)>> \o Strs(args)

guac_protocol_send_file(stream, mimetype, name) ==
    <<Lit(4, "file"), Dec(stream), Str(mimetype), Str(name)>>

guac_protocol_send_filesystem(object, name) ==
    <<Lit(10, "filesystem"), Dec(object), Str(name)>>

guac_protocol_send_identity(layer) ==
    <<Lit(8, "identity"), Dec(layer)>>

guac_protocol_send_key(keysym, pressed, timestamp) ==
    <<Lit(3, "key"), Dec(keysym), Flag(pressed), Dec(timestamp)>>

guac_protocol_send_lfill(mode, layer, srcl) ==
    <<Lit(5, "lfill"), Dec(mode), Dec(layer), Dec(srcl)>>

guac_protocol_send_line(layer, x, y) ==
    <<Lit(4, "line"), Dec(layer), Dec(x), Dec(y)>>

guac_protocol_send_lstroke(mode, layer, cap, join, thickness, srcl) ==
    <<Lit(7, "lstroke"), Dec(mode), Dec(layer), Dec(cap), Dec(join),
      Dec(thickness), Dec(srcl)>>

guac_protocol_send_mouse(x, y, button_mask, timestamp) ==
    <<Lit(5, "mouse"), Dec(x), Dec(y), Dec(button_mask), Dec(timestamp)>>

guac_protocol_send_touch(id, x, y, x_radius, y_radius, angle, force, time) ==
    <<Lit(5, "touch"), Dec(id), Dec(x), Dec(y), Dec(x_radius), Dec(y_radius),
      Double(angle), Double(force), Dec(time)>>

guac_protocol_send_move(layer, parent, x, y, z) ==
    <<Lit(4, "move"), Dec(layer), Dec(parent), Dec(x), Dec(y), Dec(z)>>

guac_protocol_send_name(name) ==
    <<Lit(4, "name"), Str(name)>>

guac_protocol_send_nest(index, data) ==
    <<Lit(4, "nest"), Dec(index), Str(data)>>

guac_protocol_send_nop ==
    <<Lit(3, "nop")>>

guac_protocol_send_pipe(stream, mimetype, name) ==
    <<Lit(4, "pipe"), Dec(stream), Str(mimetype), Str(name)>>

guac_protocol_send_img(stream, mode, layer, mimetype, x, y) ==
    <<Lit(3, "img"), Dec(stream), Dec(mode), Dec(layer), Str(mimetype),
      Dec(x), Dec(y)>>

guac_protocol_send_pop(layer) ==
    <<Lit(3, "pop"), Dec(layer)>>

guac_protocol_send_push(layer) ==
    <<Lit(4, "push"), Dec(layer)>>

guac_protocol_send_ready(id) ==
    <<Lit(5, "ready"), Str(id)>>

guac_protocol_send_rect(layer, x, y, width, height) ==
    <<Lit(4, "rect"), Dec(layer), Dec(x), Dec(y), Dec(width), Dec(height)>>

guac_protocol_send_required(required) ==
    <<Lit(8, "required")>> \o Strs(required)

guac_protocol_send_reset(layer) ==
    <<Lit(5, "reset"), Dec(layer)>>

guac_protocol_send_set(layer, name, value) ==
    <<Lit(3, "set"), Dec(layer), Str(name), Str(value)>>

guac_protocol_send_set_int(layer, name, value) ==
    <<Lit(3, "set"), Dec(layer), Str(name), Dec(value)>>

guac_protocol_send_select(protocol) ==
    <<Lit(6, "select"), Str(protocol)>>

guac_protocol_send_shade(layer, a) ==
    <<Lit(5, "shade"), Dec(layer), Dec(a)>>

guac_protocol_send_size(layer, w, h) ==
    <<Lit(4, "size"), Dec(layer), Dec(w), Dec(h)>>

guac_protocol_send_start(layer, x, y) ==
    <<Lit(5, "start"), Dec(layer), Dec(x), Dec(y)>>

guac_protocol_send_sync(timestamp, frames) ==
    <<Lit(4, "sync"), Dec(timestamp), Dec(frames)>>

guac_protocol_send_transfer(srcl, srcx, srcy, w, h, fn, dstl, dstx, dsty) ==
    <<Lit(8, "transfer"), Dec(srcl), Dec(srcx), Dec(srcy), Dec(w), Dec(h),
      Dec(fn), Dec(dstl), Dec(dstx), Dec(dsty)>>

guac_protocol_send_transform(layer, a, b, c, d, e, f) ==
    <<Lit(9, "transform"), Dec(layer), Double(a), Double(b), Double(c),
      Double(d), Double(e), Double(f)>>

guac_protocol_send_undefine(object) ==
    <<Lit(8, "undefine"), Dec(object)>>

guac_protocol_send_video(stream, layer, mimetype) ==
    <<Lit(5, "video"), Dec(stream), Dec(layer), Str(mimetype)>>

-----------------------------------------------------------------------------
(* The parser.                                                             *)

CONSTANTS
    Connections,   \* the sequences of instructions a peer may send
    BufferSize,    \* size of __instructionbuf
    MaxElements,   \* GUAC_INSTRUCTION_MAX_ELEMENTS
    MaxLength,     \* GUAC_INSTRUCTION_MAX_LENGTH
    Payloads,      \* data sent in blobs
    ReadSizes,     \* numbers of bytes one read() may return
    ShiftSize      \* size of the buffer given to guac_parser_shift()

VARIABLES
    sent,     \* the instructions the peer sends
    wire,     \* bytes that have not been read from the socket
    parser,   \* the guac_parser
    local,    \* unparsed_start, unparsed_end and instr_start of guac_parser_read()
    phase,    \* "idle", "reading", "handed", or how reading failed
    got,      \* the instructions read, in order
    shifted   \* bytes taken out of the parser, or read after that

parserVars == <<sent, wire, parser, local, phase, got, shifted>>

-----------------------------------------------------------------------------
(* What the peer writes.                                                   *)

Byte(kind, n) == [k |-> kind, size |-> 1, n |-> n]

DigitsOf(n) ==
    IF n < 10 THEN <<Byte("digit", n)>>
    ELSE <<Byte("digit", n \div 10), Byte("digit", n % 10)>>

\* The bytes of element e of instruction i: each character is a first byte that
\* tells how many bytes the character takes, and the bytes that follow it.
ContentBytes(i, e) ==
    LET el == sent[i][e]
    IN  [b \in 1 .. el.chars * el.width |->
            [k |-> "char", size |-> IF b % el.width = 1 \/ el.width = 1
                                    THEN el.width ELSE 1,
             n |-> <<i, e, b>>]]

\* __guac_socket_write_length_string(), and the separators of each function.
ElementBytes(i, e) ==
    DigitsOf(sent[i][e].len) \o <<Byte("dot", 0)>> \o ContentBytes(i, e)
        \o <<Byte(IF e = Len(sent[i]) THEN "semicolon" ELSE "comma", 0)>>

InstructionBytes(i) ==
    FlattenSeq([e \in 1 .. Len(sent[i]) |-> ElementBytes(i, e)])

NUL == Byte("nul", 0)

-----------------------------------------------------------------------------
(* The parser.                                                             *)

guac_parser_reset(p) ==
    [p EXCEPT !.argc = 0, !.state = "LENGTH", !.elementv = <<>>, !.length = 0]

guac_parser_alloc ==
    [buf |-> [i \in 1 .. BufferSize |-> NUL], start |-> 1, end |-> 1,
     argc |-> 0, state |-> "LENGTH", elementv |-> <<>>, length |-> 0]

Failed(st) == [st EXCEPT !.p.state = "ERROR", !.n = 0, !.stop = TRUE]

\* One byte of a length prefix; st.n counts the bytes parsed so far.
LengthByte(st, at) ==
    LET b == st.p.buf[at + st.n]
    IN  CASE st.stop -> st
          [] ~st.stop /\ b.k = "digit" ->
                [st EXCEPT !.p.length = @ * 10 + b.n, !.n = @ + 1]
          [] ~st.stop /\ b.k = "dot" ->
                [st EXCEPT !.p.elementv = Append(@, at + st.n + 1),
                           !.p.state = "CONTENT", !.n = @ + 1, !.stop = TRUE]
          [] OTHER -> Failed(st)

\* One character of an element, or the separator after its last character,
\* which becomes the terminator of the element.
ContentChar(st, at, available) ==
    IF st.stop \/ st.n >= available THEN st
    ELSE LET pos  == at + st.n
             b    == st.p.buf[pos]
             past == [st EXCEPT !.n = @ + b.size]
             done == [past EXCEPT !.p.buf[pos] = NUL, !.stop = TRUE]
         IN  IF b.size + st.n > available THEN [st EXCEPT !.stop = TRUE]
             ELSE IF st.p.length > 0 THEN [past EXCEPT !.p.length = @ - 1]
             ELSE CASE b.k = "semicolon" ->
                        [done EXCEPT !.p.state = "COMPLETE",
                                     !.p.argc = Len(st.p.elementv) - 1]
                    [] b.k = "comma" -> [done EXCEPT !.p.state = "LENGTH"]
                    [] OTHER -> Failed(st)

ParseLength(st, at, available) ==
    LET read == FoldLeft(LAMBDA s, k : LengthByte(s, at), st,
                         [k \in 1 .. available |-> k])
    IN  IF read.p.state /= "ERROR" /\ read.p.length > MaxLength
        THEN Failed(read) ELSE [read EXCEPT !.stop = @ /\ read.p.state = "ERROR"]

ParseContent(st, at, available) ==
    FoldLeft(LAMBDA s, k : ContentChar(s, at, available), st,
             [k \in 1 .. available |-> k])

\* guac_parser_append(): the parser after it was given the available bytes at
\* a place of its buffer, and the number of them it parsed.
guac_parser_append(p, at, available) ==
    LET st == [p |-> p, n |-> 0, stop |-> FALSE]
        sized == IF p.state = "LENGTH" THEN ParseLength(st, at, available) ELSE st
    IN  IF Len(p.elementv) = MaxElements /\ p.state /= "COMPLETE"
        THEN Failed(st)
        ELSE IF sized.p.state = "CONTENT"
             THEN ParseContent(sized, at, available) ELSE sized

\* The bytes from a pointer as far as the next NUL.
CString(p, at) ==
    LET Ends == {j \in at .. BufferSize : p.buf[j].k = "nul"}
        last == IF Ends = {} THEN BufferSize
                ELSE (CHOOSE j \in Ends : \A l \in Ends : j <= l) - 1
    IN  SubSeq(p.buf, at, last)

\* The opcode and arguments of a complete instruction.
Elements(p) == [e \in 1 .. p.argc + 1 |-> CString(p, p.elementv[e])]

-----------------------------------------------------------------------------
(* Reading instructions.                                                   *)

ParserInit ==
    /\ sent \in Connections
    /\ wire = FlattenSeq([i \in 1 .. Len(sent) |-> InstructionBytes(i)])
    /\ parser = guac_parser_alloc
    /\ local = [start |-> 1, end |-> 1, instr |-> 1]
    /\ phase = "idle"
    /\ got = <<>>
    /\ shifted = <<>>

\* guac_parser_read() begins; a complete instruction is forgotten.
ReadBegin ==
    /\ phase = "idle"
    /\ parser' = IF parser.state = "COMPLETE"
                 THEN guac_parser_reset(parser) ELSE parser
    /\ local' = [start |-> parser.start, end |-> parser.end,
                 instr |-> parser.start]
    /\ phase' = "reading"
    /\ UNCHANGED <<sent, wire, got, shifted>>

\* Whatever is buffered is parsed before more is read.
Parse ==
    LET r == guac_parser_append(parser, local.start, local.end - local.start)
        start == local.start + r.n
    IN  /\ phase = "reading"
        /\ r.n > 0 \/ r.p.state = "ERROR"
        /\ CASE r.p.state = "COMPLETE" ->
                    /\ parser' = [r.p EXCEPT !.start = start, !.end = local.end]
                    /\ got' = Append(got, Elements(r.p))
                    /\ phase' = "idle"
             [] r.p.state = "ERROR" ->
                    parser' = r.p /\ phase' = "error" /\ UNCHANGED got
             [] OTHER -> parser' = r.p /\ UNCHANGED <<got, phase>>
        /\ local' = [local EXCEPT !.start = start]
        /\ UNCHANGED <<sent, wire, shifted>>

\* As if the elements were left pointing to where they had been.
MutantStalePointers ==
    LET offset == local.instr - 1
        kept   == SubSeq(parser.buf, local.instr, local.end - 1)
    IN  [p |-> [parser EXCEPT
                    !.buf = [i \in 1 .. BufferSize |->
                                IF i <= Len(kept) THEN kept[i] ELSE @[i]]],
         l |-> [start |-> local.start - offset, end |-> local.end - offset,
                instr |-> 1]]

\* At the end of the buffer the instruction is moved to its beginning, and the
\* pointers to its elements with it.
Compacted ==
    LET offset == local.instr - 1
        kept   == SubSeq(parser.buf, local.instr, local.end - 1)
    IN  [p |-> [parser EXCEPT
                    !.buf = [i \in 1 .. BufferSize |->
                                IF i <= Len(kept) THEN kept[i] ELSE @[i]],
                    !.elementv = [e \in DOMAIN @ |-> @[e] - offset]],
         l |-> [start |-> local.start - offset, end |-> local.end - offset,
                instr |-> 1]]

\* Nothing more can be parsed: the buffer is filled from the socket.
Fill ==
    LET r    == guac_parser_append(parser, local.start, local.end - local.start)
        full == local.end = BufferSize + 1
        at   == IF full THEN Compacted ELSE [p |-> r.p, l |-> local]
    IN  /\ phase = "reading"
        /\ r.n = 0 /\ r.p.state /= "ERROR"
        /\ ~(full /\ local.instr = 1)
        /\ wire /= <<>>
        /\ \E n \in ReadSizes :
              /\ n <= Len(wire) /\ n <= BufferSize + 1 - at.l.end
              /\ parser' = [at.p EXCEPT !.buf =
                    [i \in 1 .. BufferSize |->
                        IF i \in at.l.end .. at.l.end + n - 1
                        THEN wire[i - at.l.end + 1] ELSE @[i]]]
              /\ local' = [at.l EXCEPT !.end = @ + n]
              /\ wire' = SubSeq(wire, n + 1, Len(wire))
        /\ UNCHANGED <<sent, phase, got, shifted>>

\* The read fails: an instruction does not fit the buffer, the stream has ended,
\* or nothing came in time.  The local positions are lost with it, and every
\* caller gives up.
ReadFails ==
    LET r == guac_parser_append(parser, local.start, local.end - local.start)
        full == local.end = BufferSize + 1 /\ local.instr = 1
    IN  /\ phase = "reading"
        /\ r.n = 0 /\ r.p.state /= "ERROR"
        /\ \/ full /\ phase' = "toolong"
           \/ ~full /\ wire = <<>> /\ phase' = "closed"
           \/ ~full /\ phase' = "timeout"
        /\ UNCHANGED <<sent, wire, parser, local, got, shifted>>

\* guac_parser_shift(), called until the parser's buffer is empty.
guac_parser_shift ==
    LET n == Least(parser.end - parser.start, ShiftSize)
    IN  /\ phase = "idle" /\ Len(got) = 1 /\ n > 0
        /\ shifted' = shifted \o SubSeq(parser.buf, parser.start,
                                        parser.start + n - 1)
        /\ parser' = [parser EXCEPT !.start = @ + n]
        /\ UNCHANGED <<sent, wire, local, phase, got>>

\* guac_parser_length() is zero: the rest is copied from the socket.
HandOver ==
    /\ phase = "idle" /\ Len(got) = 1 /\ parser.end = parser.start
    /\ shifted' = shifted \o wire
    /\ wire' = <<>>
    /\ phase' = "handed"
    /\ UNCHANGED <<sent, parser, local, got>>

ParserNext ==
    \/ ReadBegin /\ shifted = <<>>
    \/ Parse \/ Fill \/ ReadFails
    \/ guac_parser_shift \/ HandOver

-----------------------------------------------------------------------------
(* Properties.                                                             *)

ParserTypeOK ==
    /\ phase \in {"idle", "reading", "handed", "error", "toolong", "closed",
                 "timeout"}
    /\ parser.state \in {"LENGTH", "CONTENT", "COMPLETE", "ERROR"}
    /\ 1 <= local.instr /\ local.instr <= local.start
    /\ local.start <= local.end /\ local.end <= BufferSize + 1
    /\ 1 <= parser.start /\ parser.start <= parser.end
    /\ Len(parser.elementv) <= MaxElements

Contents(i) == [e \in 1 .. Len(sent[i]) |-> ContentBytes(i, e)]

\* guac_parser_read(): however the bytes are cut into reads, and wherever the
\* buffer has to be compacted, each instruction read has the elements the
\* function of protocol.c was given: none torn, merged or read past its end.
ReadAsSent ==
    \A i \in DOMAIN got : i <= Len(sent) /\ got[i] = Contents(i)

Refusable(i) ==
    \/ Len(sent[i]) >= MaxElements
    \/ \E e \in DOMAIN sent[i] : sent[i][e].len > MaxLength

\* An instruction is refused only for having too many elements or an element that
\* is too long, only one that exceeds the whole buffer is reported as too long,
\* and the end of the stream is seen after the last instruction and never before.
RefusedOnlyIfMustBe ==
    LET i == Len(got) + 1
    IN  /\ phase = "error" => i <= Len(sent) /\ Refusable(i)
        /\ phase = "toolong" =>
              i <= Len(sent) /\ Len(InstructionBytes(i)) > BufferSize
        /\ phase = "closed" => Len(got) = Len(sent)

\* What guacd takes out of the parser's buffer and then copies from the socket
\* is every byte after the instruction it read itself, in order, so the process
\* the connection is handed to misses nothing of what the user sent early.
HandedIntact ==
    phase = "handed" =>
        shifted = FlattenSeq([i \in 1 .. Len(sent) - 1 |->
                                InstructionBytes(i + 1)])

\* guac_protocol_send_blobs(): whatever its length, the data cut into blobs and
\* encoded by way of the ready buffer is decoded by guac_protocol_decode_base64()
\* to the same bytes in the same order, and each blob has the length it claims.
BlobsDecode ==
    got = <<>> /\ phase = "idle" =>
        \A data \in Payloads :
            LET blobs == guac_protocol_send_blobs(1, data)
            IN  /\ FlattenSeq([k \in DOMAIN blobs |->
                        guac_protocol_decode_base64(blobs[k][3].val)]) = data
                /\ \A k \in DOMAIN blobs : blobs[k][3].len = blobs[k][3].chars

\* However the reads cut the stream and wherever the buffer is compacted:
\* instructions are read as they were sent, refused only when they do not fit,
\* the rest is handed over whole, and base64 decodes to what was encoded.
ParserSound ==
  /\ ParserTypeOK
  /\ ReadAsSent
  /\ RefusedOnlyIfMustBe
  /\ HandedIntact
  /\ BlobsDecode

=============================================================================
