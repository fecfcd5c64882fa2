----------------------------- MODULE RdpDevices -----------------------------
(***************************************************************************)
(* The devices redirected over the RDPDR channel of an RDP connection      *)
(* (src/protocols/rdp/channels/rdpdr) and its printer                      *)
(* (rdpdr-printer.c, print-job.c): the thread of the connection hands what *)
(* the server prints to a filter process, a thread of the job sends what   *)
(* the filter answers to the owner, one blob for each acknowledgement, and *)
(* the owner may abort the job or leave.  What happens to requests for the *)
(* drive is RdpDrive.                                                      *)
(*                                                                         *)
(* A chunk of a document is its number.  Creating the filter process never *)
(* fails half way: its descriptors are open exactly if it was created.     *)
(***************************************************************************)
EXTENDS Integers, Sequences

CONSTANTS MaxJobs,      \* jobs the server prints
          MaxChunks,    \* chunks of each document
          PipeSize      \* chunks a pipe of the filter holds

ASSUME PipeAssumption == PipeSize \in Nat \ {0}

VARIABLES devices,      \* the registered devices, in the order of their ids
          svc,      \* what has happened on the channel
          job,          \* the memory of the job last created
          active,       \* rdp_client->active_job: "none", "job" or "freed"
          stream,       \* the stream of the job is allocated by the owner
          rdp,          \* what the thread of the connection does
          message_lock, \* who holds the lock on sending to the server
          inpipe,       \* chunks on their way to the filter
          outpipe,      \* chunks on their way back
          filter,       \* the filter process
          out,          \* what the thread of the job does
          owner,        \* "present" or "left"
          unacked,      \* messages of the stream the owner has not answered
          got,          \* chunks the owner has received of the job
          accepted,     \* chunks the server was told are printed
          failed,       \* the job was killed or aborted, or its filter died
          jobs          \* jobs created so far

jobVars == <<job, active, stream, inpipe, outpipe, filter, out, unacked, got,
             accepted, failed>>
deviceVars == <<devices, svc, jobVars, rdp, message_lock, owner, jobs>>

NoJob == [state |-> "CLOSED", bytes_received |-> 0, input_fd |-> "closed",
          output_fd |-> "closed"]

DevicesInit ==
    /\ devices = <<>> /\ svc = "closed"
    /\ job = NoJob /\ active = "none" /\ stream = FALSE
    /\ rdp = "idle" /\ message_lock = "free"
    /\ inpipe = <<>> /\ outpipe = <<>> /\ filter = "none" /\ out = "none"
    /\ owner = "present" /\ unacked = 0 /\ got = <<>> /\ accepted = 0
    /\ failed = FALSE /\ jobs = 0

-----------------------------------------------------------------------------
(* The channel *)

\* guac_rdpdr_process_connect(): the devices the settings ask for.
guac_rdpdr_process_connect(printing_enabled, drive_enabled) ==
    /\ svc = "closed" /\ svc' = "connected"
    /\ devices' = (IF printing_enabled THEN <<"printer">> ELSE <<>>)
                  \o (IF drive_enabled THEN <<"drive">> ELSE <<>>)
    /\ UNCHANGED <<jobVars, rdp, message_lock, owner, jobs>>

\* guac_rdpdr_process_receive(), messages of the core: the server announces
\* itself, names what it can do and, once a user has logged on, is told the
\* devices.  What it says out of turn or otherwise changes nothing here.
Received(before, after) ==
    /\ rdp = "idle" /\ message_lock = "free"
    /\ svc = before /\ svc' = after
    /\ UNCHANGED <<devices, jobVars, rdp, message_lock, owner, jobs>>

guac_rdpdr_process_server_announce   == Received("connected", "announced")
guac_rdpdr_process_server_capability == Received("announced", "capable")
guac_rdpdr_process_user_loggedon     == Received("capable", "devices told")

\* guac_rdpdr_process_device_iorequest(): device id has a handler for
\* requests, which runs while the thread has the lock.
Handles(id, device) ==
    /\ svc = "devices told" /\ rdp = "idle" /\ message_lock = "free"
    /\ id \in 0 .. Len(devices) - 1 /\ devices[id + 1] = device

guac_rdpdr_process_terminate ==
    /\ rdp = "ended" /\ svc \notin {"closed", "terminated"}
    /\ svc' = "terminated" /\ devices' = <<>>
    /\ UNCHANGED <<jobVars, rdp, message_lock, owner, jobs>>

-----------------------------------------------------------------------------
(* The print job *)

\* guac_rdp_print_job_alloc() through guac_client_for_owner(): there may be no
\* owner, no stream left and no filter process.
guac_rdpdr_process_print_job_create(id, created) ==
    /\ Handles(id, "printer") /\ active = "none" /\ jobs < MaxJobs
    /\ jobs' = jobs + 1
    /\ IF created /\ owner = "present"
       THEN /\ job' = [state |-> "WAITING_FOR_ACK", bytes_received |-> 0,
                       input_fd |-> "open", output_fd |-> "open"]
            /\ active' = "job" /\ stream' = TRUE
            /\ filter' = "running" /\ out' = "read"
            /\ inpipe' = <<>> /\ outpipe' = <<>>
            /\ unacked' = 0 /\ got' = <<>> /\ accepted' = 0 /\ failed' = FALSE
       ELSE UNCHANGED jobVars
    /\ UNCHANGED <<devices, svc, rdp, message_lock, owner>>

\* guac_rdp_print_job_kill() of a job.
guac_rdp_print_job_kill(j) ==
    [j EXCEPT !.input_fd = "closed", !.output_fd = "closed",
              !.state = "CLOSED"]

\* A callback of the job for its user: the user is sent a message or, if no
\* longer there, the job is killed.
ForUser(message, next) ==
    IF owner = "present"
    THEN /\ unacked' = unacked + message
         /\ job' = next
         /\ UNCHANGED <<filter, failed>>
    ELSE /\ job' = guac_rdp_print_job_kill(next)
         /\ filter' = "gone" /\ failed' = TRUE
         /\ UNCHANGED unacked

\* The lock is given up while the thread blocks; unlocking a lock that is not
\* held fails.  The message being handled holds it once.
Unlocked(held) == IF held THEN "free" ELSE message_lock

\* guac_rdpdr_process_print_job_write(), up to where the chunk is written.
guac_rdpdr_process_print_job_write(id) ==
    /\ Handles(id, "printer") /\ active = "job"
    /\ job.bytes_received < MaxChunks
    /\ LET next == [job EXCEPT !.bytes_received = @ + 1]
       IN  IF job.bytes_received = 0 THEN ForUser(1, next)
           ELSE job' = next /\ UNCHANGED <<unacked, filter, failed>>
    /\ rdp' = "write" /\ message_lock' = Unlocked(TRUE)
    /\ UNCHANGED <<devices, svc, active, stream, inpipe, outpipe, out,
                   got, accepted, owner, jobs>>

\* write() into the pipe, after which the thread has the lock again, answers
\* the server and is done with the message.
WriteDone ==
    /\ rdp = "write" /\ message_lock = "free"
    /\ IF job.input_fd = "closed" \/ filter = "gone"
       THEN UNCHANGED <<inpipe, accepted>>
       ELSE /\ Len(inpipe) < PipeSize
            /\ inpipe' = Append(inpipe, job.bytes_received)
            /\ accepted' = accepted + 1
    /\ rdp' = "idle" /\ message_lock' = "free"
    /\ UNCHANGED <<devices, svc, job, active, stream, outpipe, filter, out,
                   unacked, got, failed, owner, jobs>>

\* guac_rdp_print_job_free(), up to where it joins the thread of the job.
FreeBegin(j, held, next) ==
    /\ job' = [j EXCEPT !.input_fd = "closed"]
    /\ message_lock' = Unlocked(held)
    /\ rdp' = next

guac_rdpdr_process_print_job_close(id) ==
    /\ Handles(id, "printer") /\ active = "job"
    /\ FreeBegin(job, TRUE, "join")
    /\ UNCHANGED <<devices, svc, active, stream, inpipe, outpipe, filter,
                   out, unacked, got, accepted, failed, owner, jobs>>

\* The end of guac_rdp_print_job_free(): the thread has ended, the lock is
\* taken again if it was given up and the job is gone.
FreeEnd ==
    /\ rdp \in {"join", "end join"} /\ message_lock = "free" /\ out = "done"
    /\ active' = IF rdp = "join" THEN "none" ELSE "freed"
    /\ rdp' = IF rdp = "join" THEN "idle" ELSE "ended"
    /\ UNCHANGED <<devices, svc, job, stream, inpipe, outpipe, filter, out,
                   unacked, got, accepted, failed, message_lock, owner, jobs>>

\* The end of guac_rdp_handle_connection(): a job still active is killed and
\* freed by a thread that does not hold the lock; active_job stays.
EndConnection ==
    /\ rdp = "idle" /\ svc /= "closed"
    /\ IF active = "job"
       THEN /\ FreeBegin(guac_rdp_print_job_kill(job), FALSE, "end join")
            /\ filter' = "gone" /\ failed' = TRUE
       ELSE /\ rdp' = "ended"
            /\ UNCHANGED <<job, message_lock, filter, failed>>
    /\ UNCHANGED <<devices, svc, active, stream, inpipe, outpipe, out,
                   unacked, got, accepted, owner, jobs>>

-----------------------------------------------------------------------------
(* The filter process, which answers each chunk with one *)

FilterStep ==
    /\ filter = "running" /\ inpipe /= <<>> /\ Len(outpipe) < PipeSize
    /\ inpipe' = Tail(inpipe) /\ outpipe' = Append(outpipe, Head(inpipe))
    /\ UNCHANGED <<devices, svc, job, active, stream, filter, out, unacked,
                   got, accepted, failed, rdp, message_lock, owner, jobs>>

FilterEnds ==
    /\ filter = "running" /\ inpipe = <<>> /\ job.input_fd = "closed"
    /\ filter' = "gone"
    /\ UNCHANGED <<devices, svc, job, active, stream, inpipe, outpipe, out,
                   unacked, got, accepted, failed, rdp, message_lock, owner,
                   jobs>>

FilterDies ==
    /\ filter = "running"
    /\ filter' = "gone" /\ failed' = TRUE
    /\ UNCHANGED <<devices, svc, job, active, stream, inpipe, outpipe, out,
                   unacked, got, accepted, rdp, message_lock, owner, jobs>>

-----------------------------------------------------------------------------
(* The thread of the job *)

otherVars == <<devices, svc, active, inpipe, accepted, rdp, message_lock,
               owner, jobs>>

\* read(): what has come back, or the end once there is no filter or no
\* descriptor.
OutRead ==
    /\ out = "read"
    /\ \/ job.output_fd = "open" /\ outpipe /= <<>> /\ out' = "wait"
       \/ (job.output_fd = "closed" \/ (filter = "gone" /\ outpipe = <<>>))
          /\ out' = "end"
    /\ UNCHANGED <<otherVars, job, stream, outpipe, filter, unacked, got, failed>>

\* guac_rdp_print_job_wait_for_ack() and, once there is one, the blob.  Anything
\* else it finds ends the thread.
guac_rdp_print_job_wait_for_ack ==
    /\ out = "wait" /\ job.state /= "WAITING_FOR_ACK"
    /\ IF job.state = "ACK_RECEIVED"
       THEN /\ ForUser(1, [job EXCEPT !.state = "WAITING_FOR_ACK"])
            /\ IF owner = "present"
               THEN got' = Append(got, Head(outpipe)) ELSE UNCHANGED got
            /\ outpipe' = Tail(outpipe) /\ out' = "read"
       ELSE out' = "end" /\ UNCHANGED <<job, filter, failed, unacked, got, outpipe>>
    /\ UNCHANGED <<otherVars, stream>>

\* The condition is waited for once: a thread that wakes though the state is the
\* same takes it for the end of the job (print-job.c:98).
WakesForNothing ==
    /\ out = "wait" /\ job.state = "WAITING_FOR_ACK"
    /\ out' = "end" /\ failed' = TRUE
    /\ UNCHANGED <<otherVars, job, stream, outpipe, filter, unacked, got>>

\* Mutant: the stream is not freed.
MutantOutEnd ==
    /\ out = "end" /\ out' = "done"
    /\ ForUser(0, [job EXCEPT !.input_fd = "closed", !.output_fd = "closed"])
    /\ UNCHANGED <<otherVars, stream, outpipe, got>>

\* The end of the thread: the stream ends and is freed if its user is there
\* still, and the descriptors are closed.
OutEnd ==
    /\ out = "end" /\ out' = "done"
    /\ ForUser(0, [job EXCEPT !.input_fd = "closed", !.output_fd = "closed"])
    /\ stream' = (stream /\ owner /= "present")
    /\ UNCHANGED <<otherVars, outpipe, got>>

-----------------------------------------------------------------------------
(* The owner and other users *)

\* guac_rdp_print_filter_ack_handler(), called for streams not yet freed.
guac_rdp_print_filter_ack_handler(success) ==
    /\ owner = "present" /\ unacked > 0 /\ unacked' = unacked - 1
    /\ IF ~stream THEN UNCHANGED <<job, filter, failed>>
       ELSE IF success
       THEN /\ job' = [job EXCEPT !.state = "ACK_RECEIVED"]
            /\ UNCHANGED <<filter, failed>>
       ELSE /\ job' = guac_rdp_print_job_kill(job)
            /\ filter' = "gone" /\ failed' = TRUE
    /\ UNCHANGED <<devices, svc, active, stream, inpipe, outpipe, out, got,
                   accepted, rdp, message_lock, owner, jobs>>

OwnerLeaves ==
    /\ owner = "present" /\ owner' = "left" /\ unacked' = 0
    /\ UNCHANGED <<devices, svc, job, active, stream, inpipe, outpipe,
                   filter, out, got, accepted, failed, rdp, message_lock, jobs>>

\* guac_rdp_common_svc_write() of another thread, such as one that sends what
\* a user typed, spoke or copied.
SendBegin ==
    /\ message_lock = "free" /\ message_lock' = "sender"
    /\ UNCHANGED <<devices, svc, jobVars, rdp, owner, jobs>>

SendEnd ==
    /\ message_lock = "sender" /\ message_lock' = "free"
    /\ UNCHANGED <<devices, svc, jobVars, rdp, owner, jobs>>

DevicesNext ==
    \/ \E p \in BOOLEAN, d \in BOOLEAN : guac_rdpdr_process_connect(p, d)
    \/ guac_rdpdr_process_server_announce
    \/ guac_rdpdr_process_server_capability
    \/ guac_rdpdr_process_user_loggedon
    \/ guac_rdpdr_process_terminate
    \/ \E id \in 0 .. 1 :
          \/ \E c \in BOOLEAN : guac_rdpdr_process_print_job_create(id, c)
          \/ guac_rdpdr_process_print_job_write(id)
          \/ guac_rdpdr_process_print_job_close(id)
    \/ WriteDone \/ FreeEnd \/ EndConnection
    \/ FilterStep \/ FilterEnds \/ FilterDies
    \/ OutRead \/ guac_rdp_print_job_wait_for_ack \/ WakesForNothing \/ OutEnd
    \/ \E s \in BOOLEAN : guac_rdp_print_filter_ack_handler(s)
    \/ OwnerLeaves
    \/ SendBegin \/ SendEnd

\* Threads and the filter go on, a user who stays answers each message, and
\* whoever holds the lock gives it back; the thread of the connection gets the
\* lock in turn with others that take it over and over.
DevicesFairness ==
    /\ SF_deviceVars(WriteDone) /\ SF_deviceVars(FreeEnd)
    /\ WF_deviceVars(FilterStep \/ FilterEnds)
    /\ WF_deviceVars(OutRead) /\ WF_deviceVars(OutEnd)
    /\ WF_deviceVars(guac_rdp_print_job_wait_for_ack)
    /\ WF_deviceVars(\E s \in BOOLEAN : guac_rdp_print_filter_ack_handler(s))
    /\ WF_deviceVars(SendEnd)

-----------------------------------------------------------------------------
(* Properties *)

\* The descriptors of the job are open only while it is active, its filter
\* runs only for a job, and one message at most awaits an answer of the owner
\* (GUAC_RDP_PRINT_JOB_WAITING_FOR_ACK).
DevicesTypeOK ==
    /\ devices \in {<<>>, <<"printer">>, <<"drive">>, <<"printer", "drive">>}
    /\ job.state \in {"WAITING_FOR_ACK", "ACK_RECEIVED", "CLOSED"}
    /\ active \in {"none", "job", "freed"} /\ stream \in BOOLEAN
    /\ rdp \in {"idle", "write", "join", "end join", "ended"}
    /\ message_lock \in {"free", "rdp", "sender"}
    /\ filter \in {"none", "running", "gone"}
    /\ out \in {"none", "read", "wait", "end", "done"}
    /\ unacked \in 0 .. 1
    /\ "open" \in {job.input_fd, job.output_fd} => active = "job"

\* The owner receives the document in order and without gaps, and once the
\* thread of the job has ended, all the server was told is printed, unless the
\* job was aborted, its filter died, or its thread gave up as it woke for nothing.
PrintedAsAccepted ==
    /\ got = [i \in DOMAIN got |-> i] /\ Len(got) <= accepted
    /\ (out = "done" /\ rdp \in {"join", "idle"} /\ ~failed
          /\ owner = "present")
         => Len(got) = accepted

\* No thread uses the memory of a job that is freed: neither the thread of the
\* job nor the handler of acknowledgements, which a stream still allocated to a
\* user who is there would call.
JobSafe ==
    active /= "job" => /\ out \in {"none", "done"}
                       /\ ~(stream /\ owner = "present")

\* While printing blocks the thread of the connection, and after it has ended,
\* others can send to the server.
OthersCanSend ==
    rdp \in {"write", "join", "end join", "ended"} => message_lock /= "rdp"

\* Printing never holds up the connection for ever as long as the owner is
\* there: what blocks it is over in time.
PrintingEnds ==
    (rdp \in {"write", "join", "end join"}) ~>
        (rdp \in {"idle", "ended"} \/ owner = "left")

=============================================================================
