--------------------------- MODULE RdpAudioInput ---------------------------
(***************************************************************************)
(* The microphone of an RDP session (audio-input/audio-buffer.c, its       *)
(* stream audio-input/audio-input.c, and the channel of the server,        *)
(* plugins/guacai/).                                                       *)
(*                                                                         *)
(* A byte of sound is <<stream, its index>>, and a sample is what it was   *)
(* read at; both ends may have any rate, channels and bytes per sample.    *)
(* The users' thread, the thread of the connection and the thread that     *)
(* flushes each hold the lock for a whole call.                            *)
(***************************************************************************)
EXTENDS Integers, FiniteSets, SequencesExt

CONSTANTS
    StreamFormats,     \* formats of the user's streams
    ServerFormats,     \* lists of formats the server sends
    PacketFrames,      \* sizes of packet it asks for
    BlobSizes,
    GUAC_RDP_AUDIO_BUFFER_MIN_DURATION,
    MaxAudioStreams,   \* bound: streams the user opens
    MaxAudioBlobs,     \* bound: blobs the user sends
    MaxOpens           \* bound: how often the server opens the channel

VARIABLES
    audio,      \* guac_rdp_audio_buffer
    flusher,    \* its thread: "check", "wait", "asleep", "timed" or "ended"
    blobs,      \* how much the user sent on each stream
    speaking,   \* the user is there
    aiChannel,  \* "closed", "new", "ready" (formats agreed) or "open"
    opens,
    taken,      \* bytes received, since the counters were reset
    samples,    \* samples written since then
    heard,      \* samples the server received since it opened the channel
    acks,       \* <<stream, status>> sent to the user
    asserted    \* an assertion failed

audioVars == <<audio, flusher, blobs, speaking, aiChannel, opens, taken,
               samples, heard, acks, asserted>>

PCM(rate, channels, bps) == [rate |-> rate, channels |-> channels, bps |-> bps]
NoFormat == PCM(0, 0, 0)

guac_rdp_audio_buffer_alloc ==
    [stream |-> 0, in_format |-> NoFormat, out_format |-> NoFormat,
     packet |-> <<>>, allocated |-> FALSE, packet_size |-> 0,
     packet_buffer_size |-> 0, total_bytes_sent |-> 0,
     total_bytes_received |-> 0, flush_handler |-> FALSE, early |-> FALSE,
     odd |-> FALSE, since |-> 0, stopping |-> FALSE]

AudioInit ==
    /\ audio = guac_rdp_audio_buffer_alloc
    /\ flusher = "check"
    /\ blobs = <<>> /\ speaking = TRUE
    /\ aiChannel = "closed" /\ opens = 0
    /\ taken = <<>> /\ samples = <<>> /\ heard = <<>>
    /\ acks = {} /\ asserted = FALSE

BytesWritten(a) == Len(a.packet) * a.out_format.bps

\* pthread_cond_broadcast() wakes the flush thread.
Woken == IF flusher \in {"asleep", "timed"} THEN "check" ELSE flusher

\* Only a user who is still there, with a stream, and when there is a packet.
guac_rdp_audio_buffer_ack(a, status) ==
    IF speaking /\ a.stream /= 0 /\ a.allocated THEN {<<a.stream, status>>} ELSE {}

\* The user opens a stream.  What was received before keeps counting.
guac_rdp_audio_buffer_set_stream(format) ==
    LET new == [audio EXCEPT !.stream = Len(blobs) + 1, !.in_format = format,
                             !.odd = @ \/ (audio.total_bytes_received > 0
                                             /\ audio.in_format /= format)]
    IN  /\ speaking /\ ~audio.stopping /\ Len(blobs) < MaxAudioStreams
        /\ blobs' = Append(blobs, 0)
        /\ audio' = new
        /\ acks' = acks \cup guac_rdp_audio_buffer_ack(new, "SUCCESS")
        /\ flusher' = Woken
        /\ UNCHANGED <<speaking, aiChannel, opens, taken, samples, heard, asserted>>

\* Where in the input the next sample of the output is, in bytes since the
\* counters were reset.
InputPosition(a) ==
    LET sample  == a.total_bytes_sent \div a.out_format.bps
        channel == sample % a.out_format.channels
        frame   == ((sample \div a.out_format.channels) * a.in_format.rate)
                     \div a.out_format.rate
    IN  (frame * a.in_format.channels
           + (IF channel >= a.in_format.channels THEN a.in_format.channels - 1
              ELSE channel)) * a.in_format.bps

\* The state of the loop that writes samples: "a" the buffer, "read" the places
\* of the samples written by it.
guac_rdp_audio_buffer_read_sample(loop, length) ==
    LET offset == InputPosition(loop.a) - loop.a.total_bytes_received
    IN  CASE loop.done                 -> loop
          [] ~loop.done /\ offset < 0  -> [loop EXCEPT !.done = TRUE, !.failed = TRUE]
          [] ~loop.done /\ offset >= 0 /\ length - offset < loop.a.in_format.bps ->
               [loop EXCEPT !.done = TRUE]
          [] OTHER -> [loop EXCEPT
                !.read = Append(@, offset),
                !.a.total_bytes_sent = @ + loop.a.out_format.bps]

\* A blob is cut to the room there is, in bytes of the output.
guac_rdp_audio_buffer_write(s, length) ==
    LET room   == audio.packet_buffer_size - BytesWritten(audio)
        cut    == IF length > room THEN room ELSE length
        loop   == FoldLeft(LAMBDA l, i : guac_rdp_audio_buffer_read_sample(l, cut),
                           [a |-> audio, read |-> <<>>, done |-> FALSE, failed |-> FALSE],
                           [i \in 1 .. 8 * (cut + 1) |-> i])
        Frame  == audio.in_format.channels * audio.in_format.bps
        got    == [i \in 1 .. Len(loop.read) |-> <<s, blobs[s] + loop.read[i]>>]
    IN  /\ speaking /\ ~audio.stopping
        /\ s \in DOMAIN blobs
        /\ FoldLeft(LAMBDA sum, n : sum + n, 0, blobs) < MaxAudioBlobs
        /\ blobs' = [blobs EXCEPT ![s] = @ + length]
        /\ IF ~audio.allocated \/ audio.packet_buffer_size = 0
           THEN UNCHANGED <<audio, flusher, taken, samples, asserted>>
           ELSE /\ audio' = [loop.a EXCEPT !.packet = @ \o got,
                                           !.total_bytes_received = @ + cut,
                                           !.odd = @ \/ cut % Frame /= 0]
                /\ taken' = taken \o [i \in 1 .. cut |-> <<s, blobs[s] + i - 1>>]
                /\ samples' = samples \o got
                /\ asserted' = loop.failed
                /\ flusher' = Woken
        /\ UNCHANGED <<speaking, aiChannel, opens, heard, acks>>

\* The first format that is read whole and is PCM; none is chosen after one that
\* is cut off.  The user's thread does not look at the format meanwhile.
guac_rdp_ai_process_formats(list) ==
    LET usable == {i \in DOMAIN list : list[i] /= NoFormat}
        first  == CHOOSE i \in usable : \A j \in usable : i <= j
    IN  /\ aiChannel = "new" /\ ~audio.stopping
        /\ IF usable = {} THEN UNCHANGED <<audio, flusher, aiChannel>>
           ELSE /\ audio' = [audio EXCEPT !.out_format = list[first],
                               !.odd = @ \/ (audio.total_bytes_received > 0
                                               /\ audio.out_format /= list[first])]
                /\ flusher' = Woken
                /\ aiChannel' = "ready"
        /\ UNCHANGED <<blobs, speaking, opens, taken, samples, heard, acks,
                       asserted>>

\* guac_rdp_audio_buffer_length(), to whole packets.
PacketBufferSize(format, packet_size) ==
    LET ideal == (GUAC_RDP_AUDIO_BUFFER_MIN_DURATION * format.rate * format.bps
                    * format.channels) \div 1000
    IN  ((ideal + packet_size - 1) \div packet_size) * packet_size

\* The server opens the channel, for packets of that many frames.  The counters
\* are not reset.
guac_rdp_audio_buffer_begin(frames) ==
    LET size == frames * audio.out_format.channels * audio.out_format.bps
        new  == [audio EXCEPT !.packet = <<>>, !.allocated = TRUE, !.packet_size = size,
                   !.packet_buffer_size = PacketBufferSize(audio.out_format, size),
                   !.flush_handler = TRUE, !.early = FALSE, !.since = Len(samples)]
    IN  /\ aiChannel \in {"ready", "open"} /\ ~audio.stopping /\ opens < MaxOpens
        /\ opens' = opens + 1
        /\ aiChannel' = "open"
        /\ audio' = new
        /\ heard' = <<>>
        /\ acks' = acks \cup guac_rdp_audio_buffer_ack(new, "SUCCESS")
        /\ flusher' = Woken
        /\ UNCHANGED <<blobs, speaking, taken, samples, asserted>>

\* Without a stream nothing is reset.
guac_rdp_audio_buffer_end(a) ==
    IF a.stream = 0 THEN a
    ELSE [guac_rdp_audio_buffer_alloc EXCEPT !.in_format = a.in_format,
            !.out_format = a.out_format, !.early = a.early, !.stopping = a.stopping]

Ended ==
    /\ audio' = guac_rdp_audio_buffer_end(audio)
    /\ IF audio.stream = 0 THEN UNCHANGED <<taken, samples, heard, acks>>
       ELSE /\ taken' = <<>> /\ samples' = <<>> /\ heard' = <<>>
            /\ acks' = acks \cup guac_rdp_audio_buffer_ack(audio, "RESOURCE_CLOSED")

guac_rdp_ai_new_connection ==
    /\ aiChannel = "closed" /\ opens < MaxOpens /\ ~audio.stopping
    /\ aiChannel' = "new"
    /\ UNCHANGED <<audio, flusher, blobs, speaking, opens, taken, samples, heard,
                   acks, asserted>>

guac_rdp_ai_close ==
    /\ aiChannel /= "closed" /\ ~audio.stopping
    /\ aiChannel' = "closed"
    /\ Ended
    /\ flusher' = IF audio.stream = 0 THEN flusher ELSE Woken
    /\ UNCHANGED <<blobs, speaking, opens, asserted>>

\* The stream of a user who leaves stays that of the buffer.
UserStopsSpeaking ==
    /\ speaking /\ speaking' = FALSE
    /\ UNCHANGED <<audio, flusher, blobs, aiChannel, opens, taken, samples, heard,
                   acks, asserted>>

\* When all users are gone and the connection has ended.
guac_rdp_audio_buffer_free ==
    /\ ~speaking /\ ~audio.stopping /\ aiChannel = "closed"
    /\ audio' = [guac_rdp_audio_buffer_end(audio) EXCEPT !.stopping = TRUE]
    /\ IF audio.stream = 0 THEN UNCHANGED <<taken, samples, heard>>
       ELSE taken' = <<>> /\ samples' = <<>> /\ heard' = <<>>
    /\ flusher' = Woken
    /\ UNCHANGED <<blobs, speaking, aiChannel, opens, acks, asserted>>

guac_rdp_audio_buffer_may_flush ==
    /\ ~audio.stopping /\ audio.packet_size > 0
    /\ BytesWritten(audio) >= audio.packet_size
    /\ ~audio.early

\* guac_rdp_audio_buffer_flush_thread(): one packet goes to the channel, the rest
\* is moved to the start of the buffer.
FlushPacket ==
    LET n == audio.packet_size \div audio.out_format.bps
    IN  /\ flusher = "check" /\ guac_rdp_audio_buffer_may_flush
        /\ heard' = heard \o SubSeq(audio.packet, 1, n)
        /\ audio' = [audio EXCEPT !.packet = SubSeq(@, n + 1, Len(@)), !.early = TRUE]
        /\ UNCHANGED <<flusher, blobs, speaking, aiChannel, opens, taken, samples,
                       acks, asserted>>

FlushOrWait ==
    /\ flusher = "check" /\ ~guac_rdp_audio_buffer_may_flush
    /\ flusher' = IF audio.stopping THEN "ended" ELSE "wait"
    /\ UNCHANGED <<audio, blobs, speaking, aiChannel, opens, taken, samples, heard,
                   acks, asserted>>

\* With a packet that is only too early it sleeps until it is due.
guac_rdp_audio_buffer_wait ==
    /\ flusher = "wait"
    /\ flusher' = IF audio.stopping THEN "check"
                  ELSE IF audio.packet /= <<>> /\ BytesWritten(audio) >= audio.packet_size
                  THEN "timed" ELSE "asleep"
    /\ UNCHANGED <<audio, blobs, speaking, aiChannel, opens, taken, samples, heard,
                   acks, asserted>>

\* guac_rdp_audio_buffer_schedule_flush(): the time it set is there.
TimeIsDue ==
    /\ audio.early
    /\ audio' = [audio EXCEPT !.early = FALSE]
    /\ UNCHANGED <<flusher, blobs, speaking, aiChannel, opens, taken, samples,
                   heard, acks, asserted>>

TimedWaitEnds ==
    /\ flusher = "timed" /\ ~audio.early
    /\ flusher' = "check"
    /\ UNCHANGED <<audio, blobs, speaking, aiChannel, opens, taken, samples, heard,
                   acks, asserted>>

AudioNext ==
    /\ ~asserted
    /\ \/ \E f \in StreamFormats : guac_rdp_audio_buffer_set_stream(f)
       \/ \E s \in DOMAIN blobs, n \in BlobSizes : guac_rdp_audio_buffer_write(s, n)
       \/ \E l \in ServerFormats : guac_rdp_ai_process_formats(l)
       \/ \E n \in PacketFrames : guac_rdp_audio_buffer_begin(n)
       \/ guac_rdp_ai_new_connection \/ guac_rdp_ai_close
       \/ UserStopsSpeaking \/ guac_rdp_audio_buffer_free
       \/ FlushPacket \/ FlushOrWait \/ guac_rdp_audio_buffer_wait
       \/ TimeIsDue \/ TimedWaitEnds

\* The thread runs, and time passes, while the process lives.
FlushStep ==
    /\ ~asserted
    /\ FlushPacket \/ FlushOrWait \/ guac_rdp_audio_buffer_wait \/ TimedWaitEnds
AudioFairness ==
    /\ WF_audioVars(FlushStep)
    /\ WF_audioVars(~asserted /\ TimeIsDue)

\* The sample of the output with that index, by definition: what was played at
\* its time on its channel, or on the last one there is.
LOCAL Resampled(in, out, k) ==
    LET frame == ((k \div out.channels) * in.rate) \div out.rate
        channel == IF k % out.channels < in.channels THEN k % out.channels
                   ELSE in.channels - 1
    IN  (frame * in.channels + channel) * in.bps

\* Unless formats change meanwhile or a frame is torn: however the sound is cut into
\* blobs, the samples
\* written are those of all that was taken, each once, as far as they are complete;
\* the server hears them in order and in whole packets, and what it has not heard
\* is in the buffer; no assertion fails (audio-buffer.h).
SoundWhole ==
    /\ asserted => audio.odd
    /\ ~audio.odd /\ samples /= <<>> =>
         LET Place(k) == Resampled(audio.in_format, audio.out_format, k)
         IN  /\ \A k \in 1 .. Len(samples) : samples[k] = taken[Place(k - 1) + 1]
             /\ Place(Len(samples)) + audio.in_format.bps > Len(taken)
    /\ ~asserted => heard \o audio.packet = SubSeq(samples, audio.since + 1, Len(samples))
    /\ ~audio.odd /\ audio.packet_size > 0 => (Len(heard) * audio.out_format.bps) % audio.packet_size = 0

\* The user is told to send as soon as both the stream and the channel are there,
\* and that the stream is closed when the channel is, never of a stream in use.
AcksRight ==
    /\ speaking /\ audio.stream /= 0 /\ audio.allocated =>
         <<audio.stream, "SUCCESS">> \in acks
    /\ \A a \in acks : a[2] = "RESOURCE_CLOSED" =>
         a[1] /= audio.stream /\ <<a[1], "SUCCESS">> \in acks

\* A packet that is full is sent, or the channel closed; the thread ends when the
\* buffer is freed.
PacketsSent ==
    /\ []<>(asserted \/ audio.stopping \/ audio.packet_size = 0 \/ BytesWritten(audio) < audio.packet_size)
    /\ audio.stopping ~> flusher = "ended"

AudioSound == SoundWhole /\ AcksRight

=============================================================================
