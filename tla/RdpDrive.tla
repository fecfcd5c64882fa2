------------------------------ MODULE RdpDrive ------------------------------
(***************************************************************************)
(* The drive of an RDP connection (src/protocols/rdp/fs.c): a directory of *)
(* guacd's machine that the server reads and writes through requests on    *)
(* the RDPDR channel (rdpdr-fs*.c) and the owner through uploads,          *)
(* downloads and listings (upload.c, download.c, ls.c).                    *)
(*                                                                         *)
(* A path is the sequence of texts between its separators, so "\a\b" is    *)
(* <<"", "a", "b">> and "" is <<"">>; a normalized path is the sequence of *)
(* its components alone.  A file is a sequence of chunks, a chunk the pair *)
(* of who wrote it (0 the server, else the number of the stream) and its   *)
(* place in what was written.  Texts are short enough for every buffer.     *)
(*                                                                         *)
(* The table of files is not locked, and both the thread of the channel    *)
(* and that of the owner use it.  What a thread does between two calls is  *)
(* one step; guac_rdp_fs_open() is three (the look at the count, the file  *)
(* and its id, the count) and guac_rdp_fs_close() two, each ending where   *)
(* the other thread can come in between.  The pool of ids has a lock.      *)
(***************************************************************************)
EXTENDS FiniteSets, SequencesExt, GuacPool

CONSTANTS GUAC_RDP_FS_MAX_FILES,
          GUAC_RDP_MAX_PATH_DEPTH,
          PathInputs,       \* the paths that are asked for
          CreateInputs,     \* path, access, disposition, directory of requests
          UploadNames,      \* the names of files sent to the connection
          InitialDrives,    \* what may be on the drive at first, and its settings
          MaxData,          \* chunks for which a file has room
          MaxTransfers,       \* streams the owner has in all
          JsonSize,         \* entries of a listing in a blob
          MaxOps            \* bound: requests that open, rename or delete

VARIABLES fs,        \* the files: see DriveInit
          served,    \* what the server does with the ids it was given
          streams,   \* the streams of the owner, in order
          lost,      \* ids that stay open though nobody uses them
          ownerHere,    \* the owner of the connection is there
          saved,     \* files saved for download the owner should have got
          refused,   \* the step ended a request or instruction, which was refused
          call,      \* thread -> the call of guac_rdp_fs_open() or _close() it is in
          ops

driveVars == <<fs, served, streams, lost, ownerHere, saved, refused, call, ops>>

DriveThreads == {"server", "owner"}   \* the thread of the channel, that of the owner

Refused == <<":">>
NoFile == [open |-> FALSE]
Unread == <<"?">>        \* a directory of which nothing was read yet
Nodes == 1 .. 8
MaxEntries == [i \in Nodes |-> i]   \* turns of a loop over a directory
Empty == [dir |-> FALSE, data |-> <<>>]
Download == <<"Download">>

-----------------------------------------------------------------------------
(* Paths *)

\* guac_rdp_fs_normalize_path(), a component at a time.
Component(path, c) ==
    CASE path = Refused -> Refused
      [] c = ".." -> IF path = <<>> THEN <<>> ELSE Front(path)
      [] c = "c:" -> Refused
      [] c \in {".", ""} -> path
      [] OTHER -> IF Len(path) >= GUAC_RDP_MAX_PATH_DEPTH THEN Refused
                  ELSE Append(path, c)

guac_rdp_fs_normalize_path(path) ==
    IF Head(path) /= "" \/ Len(path) = 1 THEN Refused
    ELSE FoldLeft(Component, <<>>, Tail(path))

\* guac_rdp_fs_convert_path() for a path that is normalized already.
guac_rdp_fs_convert_path(parent, name) ==
    guac_rdp_fs_normalize_path(<<"">> \o parent \o <<name>>)

\* guac_rdp_fs_matches(): "\a\*" is what is below \a, which for the root is
\* the root as well.
guac_rdp_fs_matches(path, pattern) ==
    IF Last(pattern) = "*"
    THEN IsPrefix(Front(pattern), path)
         /\ (Len(pattern) = 1 \/ path /= Front(pattern))
    ELSE path = pattern

-----------------------------------------------------------------------------
(* The directory on the machine: open(), mkdir(), unlink(), rename() *)

IsDir(f, p) == p \in DOMAIN f.tree /\ f.node[f.tree[p]].dir
Ancestors(p) == {SubSeq(p, 1, i) : i \in 0 .. Len(p) - 1}
Below(f, p) == {q \in DOMAIN f.tree : IsStrictPrefix(p, q)}
OpenIds(f) == {i \in DOMAIN f.files : f.files[i].open}
Used(f) == {f.tree[p] : p \in DOMAIN f.tree}
           \cup {f.files[i].node : i \in OpenIds(f)}

\* What nobody refers to is gone.
Collected(f) == [f EXCEPT !.node = [n \in Nodes |-> IF n \in Used(f) THEN @[n]
                                                    ELSE Empty]]

LookupError(f, p) ==
    CASE \E a \in Ancestors(p) : a \in DOMAIN f.tree /\ ~IsDir(f, a) -> "ENOTDIR"
      [] Ancestors(p) \subseteq DOMAIN f.tree /\ \A a \in Ancestors(p) : IsDir(f, a)
            -> "OK"
      [] OTHER -> "ENOENT"

Made(f, p, dir) ==
    LET n == CHOOSE n \in Nodes : n \notin Used(f)
    IN  [f EXCEPT !.tree = [q \in DOMAIN @ \cup {p} |-> IF q = p THEN n ELSE @[q]],
                  !.node[n] = [dir |-> dir, data |-> <<>>]]

Unlinked(f, p) ==
    IF p \in DOMAIN f.tree /\ ~IsDir(f, p)
    THEN [f EXCEPT !.tree = [q \in DOMAIN @ \ {p} |-> @[q]]]
    ELSE f

NativeOpen(f, p, flags) ==
    CASE LookupError(f, p) /= "OK" -> [err |-> LookupError(f, p), fs |-> f]
      [] LookupError(f, p) = "OK" /\ p \in DOMAIN f.tree ->
            IF {"CREAT", "EXCL"} \subseteq flags THEN [err |-> "EEXIST", fs |-> f]
            ELSE IF IsDir(f, p) /\ flags \cap {"WRITE", "CREAT", "TRUNC"} /= {}
            THEN [err |-> "EISDIR", fs |-> f]
            ELSE [err |-> "OK",
                  fs |-> IF "TRUNC" \in flags
                         THEN [f EXCEPT !.node[f.tree[p]].data = <<>>] ELSE f]
      [] OTHER ->
            IF "CREAT" \in flags THEN [err |-> "OK", fs |-> Made(f, p, FALSE)]
            ELSE [err |-> "ENOENT", fs |-> f]

NativeRename(f, from, to) ==
    CASE from \notin DOMAIN f.tree -> [err |-> "ENOENT", fs |-> f]
      [] from \in DOMAIN f.tree /\ from = to -> [err |-> "OK", fs |-> f]
      [] from \in DOMAIN f.tree /\ IsStrictPrefix(from, to) ->
            [err |-> "EINVAL", fs |-> f]
      [] OTHER ->
            IF LookupError(f, to) /= "OK" THEN [err |-> LookupError(f, to), fs |-> f]
            ELSE IF to \in DOMAIN f.tree /\ IsDir(f, to) /= IsDir(f, from)
            THEN [err |-> IF IsDir(f, to) THEN "EISDIR" ELSE "ENOTDIR", fs |-> f]
            ELSE IF Below(f, to) /= {} THEN [err |-> "ENOTEMPTY", fs |-> f]
            ELSE LET moved == {from} \cup Below(f, from)
                     New(q) == to \o SubSeq(q, Len(from) + 1, Len(q))
                     Old(q) == from \o SubSeq(q, Len(to) + 1, Len(q))
                     new == {New(q) : q \in moved}
                 IN  [err |-> "OK",
                      fs |-> [f EXCEPT !.tree =
                                [q \in (DOMAIN @ \ moved) \cup new |->
                                    IF q \in new THEN @[Old(q)] ELSE @[q]]]]

-----------------------------------------------------------------------------
(* The table of open files *)

\* guac_rdp_fs_get_errorcode(): errors that have no code of their own.
guac_rdp_fs_get_errorcode(err) ==
    IF err \in {"ENFILE", "ENOENT", "ENOTDIR", "ENOSPC", "EISDIR", "EACCES",
                "EEXIST", "EINVAL", "ENOSYS", "ENOTSUP"}
    THEN err ELSE "EINVAL"

guac_rdp_fs_get_status(err) ==
    [OK |-> "STATUS_SUCCESS", ENFILE |-> "STATUS_NO_MORE_FILES",
     ENOENT |-> "STATUS_NO_SUCH_FILE", ENOTDIR |-> "STATUS_NOT_A_DIRECTORY",
     ENOSPC |-> "STATUS_DISK_FULL", EISDIR |-> "STATUS_FILE_IS_A_DIRECTORY",
     EACCES |-> "STATUS_ACCESS_DENIED",
     EEXIST |-> "STATUS_OBJECT_NAME_COLLISION",
     EINVAL |-> "STATUS_INVALID_PARAMETER", ENOSYS |-> "STATUS_NOT_IMPLEMENTED",
     ENOTSUP |-> "STATUS_NOT_SUPPORTED"][err]

Fail(f, err) == [err |-> guac_rdp_fs_get_errorcode(err), fs |-> f, id |-> -1]

\* What opening does for each disposition.
Dispositions == [FILE_CREATE |-> {"CREAT", "EXCL"}, FILE_OPEN |-> {},
                 FILE_OPEN_IF |-> {"CREAT"}, FILE_OVERWRITE |-> {"TRUNC"},
                 FILE_OVERWRITE_IF |-> {"CREAT", "TRUNC"},
                 FILE_SUPERSEDE |-> {"CREAT", "TRUNC"}]

SetAt(files, id, file) == [i \in DOMAIN files |-> IF i = id THEN file ELSE files[i]]

\* A slot of the table for a file that is open already.
Opened(f, p, access) ==
    LET id == next_int(f.pool)
        n == f.tree[p]
    IN  [err |-> "OK", id |-> id,
         fs |-> [f EXCEPT
                    !.pool = next_int_pool(@),
                    !.files = SetAt(@, id,
                        [open |-> TRUE, node |-> n, access |-> access,
                         absolute_path |-> p, real_path |-> p,
                         directory |-> f.node[n].dir, dir |-> Unread,
                         dir_pattern |-> <<"">>, bytes_written |-> 0])]]

\* The outcome of open(), tried again for reading only if p is a directory.
NativeOpened(f, p, access, first, again) ==
    IF first.err = "OK" THEN Opened(first.fs, p, access)
    ELSE IF first.err = "EISDIR" /\ again.err = "OK" THEN Opened(again.fs, p, "r")
    ELSE Fail(f, IF first.err = "EISDIR" THEN again.err ELSE first.err)

OpenNative(f, p, access, flags) ==
    NativeOpened(f, p, access, NativeOpen(f, p, flags), NativeOpen(f, p, flags \ {"WRITE"}))

\* A directory that may be created is created first.
MakeAndOpen(f, p, access, flags, directory) ==
    LET mkdir == directory /\ "CREAT" \in flags
        made  == IF p \in DOMAIN f.tree THEN "EEXIST" ELSE LookupError(f, p)
    IN  IF mkdir /\ made /= "OK" /\ ~(made = "EEXIST" /\ "EXCL" \notin flags)
        THEN Fail(f, made)
        ELSE OpenNative(IF mkdir /\ made = "OK" THEN Made(f, p, TRUE) ELSE f, p, access,
                        IF mkdir THEN flags \ {"CREAT", "EXCL"} ELSE flags)

OpenNormalized(f, p, access, disposition, directory) ==
    IF p = Refused THEN Fail(f, "ENOENT")
    ELSE MakeAndOpen(IF disposition = "FILE_SUPERSEDE" THEN Unlinked(f, p) ELSE f, p,
                     access, Dispositions[disposition]
                                \cup (IF access = "r" THEN {} ELSE {"WRITE"}), directory)

\* A call: what is asked for, what it is part of (back, and the file or stream on
\* which that is), and where it stands: "full" or "failed"; "checked", there being
\* room; "counting" with the id it got; or "closing".  seen is open_files as read
\* to be changed; alone tells that the other thread has not been in open meanwhile.
NoCall == [at |-> "none", back |-> "", on |-> -1, path |-> <<>>, access |-> "r",
           disposition |-> "FILE_OPEN", directory |-> FALSE, err |-> "OK", id |-> -1,
           seen |-> 0, alone |-> TRUE, changed |-> FALSE, more |-> FALSE]

Opening(t) == call[t].at \in {"checked", "counting"}
Other(t) == IF t = "server" THEN "owner" ELSE "server"
Reading(path, back, on) == [NoCall EXCEPT !.path = path, !.back = back, !.on = on]

\* guac_rdp_fs_open() looks whether there is room.
guac_rdp_fs_open(t, f, c) ==
    call' = IF f.open_files >= GUAC_RDP_FS_MAX_FILES
            THEN [call EXCEPT ![t] = [c EXCEPT !.at = "full", !.err = "ENFILE"]]
            ELSE [u \in DriveThreads |->
                    IF u = t THEN [c EXCEPT !.at = "checked", !.alone = ~Opening(Other(t))]
                    ELSE [call[u] EXCEPT !.alone = @ /\ ~Opening(u)]]

\* Mutant: the id is not given back.
MutantFsClose(f, id) == [f EXCEPT !.files[id] = NoFile]

\* What guac_rdp_fs_close() frees; that one file less is open comes after.
guac_rdp_fs_close(f, id) ==
    [f EXCEPT !.files[id] = NoFile, !.pool = guac_pool_free_int(@, id)]

Closing(t, f, id, c) ==
    /\ fs' = Collected(guac_rdp_fs_close(f, id))
    /\ call' = [call EXCEPT ![t] = [c EXCEPT !.at = "closing", !.seen = f.open_files]]

FileData(f, id) == f.node[f.files[id].node].data

\* guac_rdp_fs_read() of the chunk at an offset: no chunk at the end.
guac_rdp_fs_read(f, id, offset) ==
    CASE f.files[id].directory -> [err |-> "EISDIR", chunk |-> <<>>]
      [] ~f.files[id].directory /\ f.files[id].access = "w" ->
            [err |-> guac_rdp_fs_get_errorcode("EBADF"), chunk |-> <<>>]
      [] OTHER -> [err |-> "OK", chunk |-> IF offset < Len(FileData(f, id))
                                           THEN <<FileData(f, id)[offset + 1]>> ELSE <<>>]

\* guac_rdp_fs_write() of a chunk: what lies before it reads as zeroes.
guac_rdp_fs_write(f, id, offset, chunk) ==
    LET data == FileData(f, id)
        len  == IF offset + 1 > Len(data) THEN offset + 1 ELSE Len(data)
    IN  CASE f.files[id].access = "r" -> Fail(f, "EBADF")
          [] f.files[id].access /= "r" /\ offset >= MaxData -> Fail(f, "ENOSPC")
          [] OTHER ->
                [err |-> "OK", id |-> id,
                 fs |-> [f EXCEPT
                            !.node[f.files[id].node].data =
                                [i \in 1 .. len |->
                                    IF i = offset + 1 THEN chunk
                                    ELSE IF i <= Len(data) THEN data[i]
                                    ELSE <<-1, i>>],
                            !.files[id].bytes_written = 1]]

guac_rdp_fs_truncate(f, id, length) ==
    IF f.files[id].access = "r" THEN Fail(f, "EINVAL")
    ELSE [err |-> "OK", id |-> id,
          fs |-> [f EXCEPT !.node[f.files[id].node].data =
                    [i \in 1 .. length |-> IF i <= Len(@) THEN @[i] ELSE <<-1, i>>]]]

\* guac_rdp_fs_rename(): what the file is known as stays.
guac_rdp_fs_rename(f, id, path) ==
    LET to == guac_rdp_fs_normalize_path(path)
        r  == NativeRename(f, f.files[id].real_path, to)
    IN  IF to = Refused THEN Fail(f, "ENOENT")
        ELSE IF r.err /= "OK" THEN Fail(f, r.err)
        ELSE [err |-> "OK", id |-> id, fs |-> r.fs]

\* guac_rdp_fs_delete(): at once, by the name the file was opened with.
guac_rdp_fs_delete(f, id) ==
    LET p == f.files[id].real_path
        gone == [f EXCEPT !.tree = [q \in DOMAIN @ \ {p} |-> @[q]]]
    IN  CASE p \notin DOMAIN f.tree -> Fail(f, "ENOENT")
          [] p \in DOMAIN f.tree /\ f.files[id].directory /= IsDir(f, p) ->
                Fail(f, IF IsDir(f, p) THEN "EISDIR" ELSE "ENOTDIR")
          [] p \in DOMAIN f.tree /\ f.files[id].directory = IsDir(f, p)
                /\ Below(f, p) /= {} -> Fail(f, "ENOTEMPTY")
          [] OTHER -> [err |-> "OK", id |-> id, fs |-> gone]

\* The names fdopendir() and readdir() give for a directory.
Entries(f, p) ==
    <<".", "..">> \o SetToSeq({Last(q) : q \in {q \in Below(f, p) : Len(q) = Len(p) + 1}})

\* guac_rdp_fs_read_dir(): the name read, none at the end, and what is left.
guac_rdp_fs_read_dir(f, id) ==
    LET file == f.files[id]
        p    == CHOOSE q \in DOMAIN f.tree : f.tree[q] = file.node
        all  == IF ~file.directory THEN <<>>
                ELSE IF file.dir /= Unread THEN file.dir
                ELSE IF file.node \in {f.tree[q] : q \in DOMAIN f.tree}
                THEN Entries(f, p) ELSE <<".", "..">>
    IN  IF all = <<>> THEN [name |-> <<>>, fs |-> f]
        ELSE [name |-> <<Head(all)>>, fs |-> [f EXCEPT !.files[id].dir = Tail(all)]]

-----------------------------------------------------------------------------
(* What the owner is sent *)

Stream(kind, id, path) ==
    [kind |-> kind, file_id |-> id, path |-> path, offset |-> 0, got |-> <<>>,
     listed |-> <<>>, json |-> 0, blobs |-> 0, all |-> {}, shared |-> FALSE,
     done |-> FALSE, missed |-> FALSE, from |-> "get"]

Room == Len(streams) < MaxTransfers

\* Downloads of a file that is being changed.
Shared(n) == [i \in DOMAIN streams |->
                 IF /\ streams[i].kind = "download"
                    /\ fs.files[streams[i].file_id].node = n
                 THEN [streams[i] EXCEPT !.shared = TRUE] ELSE streams[i]]

-----------------------------------------------------------------------------
(* Requests of the server *)

Answer(err) == refused' = (guac_rdp_fs_get_status(err) /= "STATUS_SUCCESS")
Step == ops < MaxOps /\ ops' = ops + 1

NewId == [listed |-> <<>>, all |-> {}, pattern |-> <<"">>, ended |-> FALSE,
         missed |-> FALSE]

Idle(t) == call[t].at = "none"
Answered(t, err) == Answer(err) /\ call' = [call EXCEPT ![t] = NoCall]
Going == refused' = FALSE

\* The rest of guac_rdp_fs_open(): the file, its id (without one the process ends) ...
OpenFile(t) ==
    LET c == call[t]
        p == IF c.path = <<"">> THEN <<>> ELSE guac_rdp_fs_normalize_path(c.path)
    IN  /\ c.at = "checked"
        /\ \E r \in {OpenNormalized(fs, p, c.access, c.disposition, c.directory)} :
            IF r.err = "OK" /\ r.id >= GUAC_RDP_FS_MAX_FILES
            THEN /\ call' = [call EXCEPT ![t].at = "died"]
                 /\ UNCHANGED <<fs, streams>>
            ELSE /\ fs' = Collected(r.fs)
                 /\ call' = [call EXCEPT ![t] =
                        [c EXCEPT !.at = IF r.err = "OK" THEN "counting" ELSE "failed",
                                  !.err = r.err, !.id = r.id, !.seen = fs.open_files,
                                  !.changed = \/ fs'.tree /= fs.tree
                                              \/ \E n \in Used(fs) : fs'.node[n] /= fs.node[n]]]
                 /\ streams' = IF r.err = "OK" /\ "TRUNC" \in Dispositions[c.disposition]
                               THEN Shared(r.fs.files[r.id].node) ELSE streams
        /\ Going /\ UNCHANGED <<served, lost, ownerHere, saved, ops>>

\* ... and the count: as it was read, one more or one less, whoever has changed it
\* meanwhile.  It is stored as the thread goes on with what the call was part of.
Counted(c) ==
    IF c.at \notin {"counting", "closing"} THEN fs
    ELSE [fs EXCEPT !.open_files = IF c.at = "counting" THEN c.seen + 1 ELSE c.seen - 1,
                    !.raced = @ \/ fs.open_files /= c.seen]

\* Thread t goes on after a call that was part of this.
Back(t, back) == call[t].at \in {"full", "failed", "counting", "closing"}
                 /\ call[t].back = back
Got(t) == call[t].at = "counting"
CloseEnds(t) ==
    /\ Back(t, "closed") /\ fs' = Counted(call[t]) /\ Answered(t, "OK")
    /\ UNCHANGED <<served, streams, lost, ownerHere, saved, ops>>

guac_rdpdr_fs_process_create(path, access, disposition, directory) ==
    /\ Step /\ Idle("server")
    /\ guac_rdp_fs_open("server", fs,
          [NoCall EXCEPT !.path = path, !.access = access, !.disposition = disposition,
                         !.directory = directory, !.back = "create"])
    /\ Going /\ UNCHANGED <<fs, served, streams, lost, ownerHere, saved>>

\* Opening the root creates \Download.
Created ==
    LET c == call["server"]
        f == Counted(c)
    IN  /\ Back("server", "create")
        /\ fs' = f
        /\ served' = IF Got("server")
                     THEN [i \in DOMAIN served \cup {c.id} |->
                              IF i = c.id THEN NewId ELSE served[i]]
                     ELSE served
        /\ IF /\ Got("server") /\ ~f.disable_download
              /\ f.files[c.id].absolute_path = <<>>
           THEN /\ Going
                /\ guac_rdp_fs_open("server", f,
                      [Reading(<<"", "Download">>, "made", -1)
                          EXCEPT !.disposition = "FILE_OPEN_IF", !.directory = TRUE])
           ELSE Answered("server", IF c.directory /\ "TRUNC" \in Dispositions[c.disposition]
                                   THEN "OK" ELSE c.err)
        /\ UNCHANGED <<streams, lost, ownerHere, saved, ops>>

DownloadMade ==
    LET c == call["server"]
    IN  /\ Back("server", "made")
        /\ IF Got("server")
           THEN Going /\ Closing("server", Counted(c), c.id, [NoCall EXCEPT !.back = "closed"])
           ELSE fs' = fs /\ Answered("server", "OK")
        /\ UNCHANGED <<served, streams, lost, ownerHere, saved, ops>>

guac_rdpdr_fs_process_read(id, offset) ==
    /\ Idle("server") /\ Answer(guac_rdp_fs_read(fs, id, offset).err)
    /\ UNCHANGED <<fs, served, streams, lost, ownerHere, saved, call, ops>>

guac_rdpdr_fs_process_write(id, offset) ==
    LET r == guac_rdp_fs_write(fs, id, offset, <<0, offset + 1>>)
    IN  /\ UNCHANGED ops /\ Idle("server") /\ fs' = r.fs /\ Answer(r.err)
        /\ streams' = IF r.err = "OK" THEN Shared(fs.files[id].node) ELSE streams
        /\ UNCHANGED <<served, lost, ownerHere, saved, call>>

\* A file that was written and lies in \Download, which its owner is to get.
ToDownload(path) == IsStrictPrefix(Download, path) /\ ~fs.disable_download

\* guac_rdpdr_fs_process_close(): a file its owner is to get is opened for them
\* (guac_client_for_owner(), under the lock of the users), then deleted.
CloseServed(f, id) ==
    /\ Closing("server", f, id, [NoCall EXCEPT !.back = "closed"])
    /\ served' = [i \in DOMAIN served \ {id} |-> served[i]]

guac_rdpdr_fs_process_close(id) ==
    LET file == fs.files[id]
        send == file.bytes_written > 0 /\ ToDownload(file.absolute_path)
    IN  /\ Idle("server") /\ (send => Room)
        /\ IF send /\ ownerHere
           THEN /\ guac_rdp_fs_open("server", fs,
                      Reading(<<"">> \o file.absolute_path, "save", id))
                /\ UNCHANGED <<fs, served>>
           ELSE CloseServed(IF send THEN guac_rdp_fs_delete(fs, id).fs ELSE fs, id)
        /\ Going /\ UNCHANGED <<streams, lost, ownerHere, saved, ops>>

\* guac_rdp_download_to_user() goes on.
NewDownload(from) ==
    LET c == call["server"]
    IN  streams' = IF Got("server")
                   THEN Append(streams, [Stream("download", c.id, Tail(c.path))
                                            EXCEPT !.from = from])
                   ELSE streams

SavedForOwner ==
    LET c == call["server"]
        f == Counted(c)
        file == fs.files[c.on]
    IN  /\ Back("server", "save")
        /\ NewDownload("saved")
        /\ CloseServed(guac_rdp_fs_delete(f, c.on).fs, c.on)
        /\ saved' = IF /\ c.at /= "full"
                       /\ file.absolute_path \in DOMAIN fs.tree
                       /\ fs.tree[file.absolute_path] = file.node
                    THEN saved + 1 ELSE saved
        /\ Going /\ UNCHANGED <<lost, ownerHere, ops>>

\* guac_rdpdr_fs_process_set_rename_info(): a file moved to \Download is sent to
\* the owner and stays where it is.
guac_rdpdr_fs_process_set_rename_info(id, path) ==
    /\ Step /\ Idle("server")
    /\ \E r \in {guac_rdp_fs_rename(fs, id, path)} :
        IF Len(path) > 2 /\ path[2] = "Download" /\ ~fs.disable_download
        THEN /\ Room /\ fs' = fs
             /\ IF ownerHere
                THEN /\ Going
                     /\ guac_rdp_fs_open("server", fs,
                           Reading(<<"">> \o fs.files[id].absolute_path, "move", id))
                ELSE Answered("server", "OK")
        ELSE fs' = Collected(r.fs) /\ Answered("server", r.err)
    /\ UNCHANGED <<served, streams, lost, ownerHere, saved>>

Moved ==
    /\ Back("server", "move")
    /\ NewDownload("get")
    /\ fs' = Counted(call["server"]) /\ Answered("server", "OK")
    /\ UNCHANGED <<served, lost, ownerHere, saved, ops>>

\* guac_rdpdr_fs_process_set_disposition_info()
guac_rdpdr_fs_process_set_disposition_info(id) ==
    LET r == guac_rdp_fs_delete(fs, id)
    IN  /\ Step /\ Idle("server") /\ fs' = Collected(r.fs) /\ Answer(r.err)
        /\ UNCHANGED <<served, streams, lost, ownerHere, saved, call>>

\* guac_rdpdr_fs_process_set_end_of_file_info() and, alike,
\* guac_rdpdr_fs_process_set_allocation_info()
guac_rdpdr_fs_process_set_end_of_file_info(id, length) ==
    LET r == guac_rdp_fs_truncate(fs, id, length)
    IN  /\ UNCHANGED ops /\ Idle("server") /\ fs' = r.fs /\ Answer(r.err)
        /\ streams' = IF r.err = "OK" THEN Shared(fs.files[id].node) ELSE streams
        /\ UNCHANGED <<served, lost, ownerHere, saved, call>>

\* Queries about an open file or the volume, and requests that are refused.
Asked(err) ==
    /\ Idle("server") /\ Answer(err)
    /\ UNCHANGED <<fs, served, streams, lost, ownerHere, saved, call, ops>>

guac_rdpdr_fs_process_file_info      == Asked("OK")
guac_rdpdr_fs_process_volume_info    == Asked("OK")
guac_rdpdr_fs_process_device_control == Asked("EINVAL")
guac_rdpdr_fs_process_lock_control   == Asked("ENOTSUP")

\* guac_rdpdr_fs_process_query_directory(), up to an entry that matches: it is opened.
Matching(f, id, name) ==
    LET path == guac_rdp_fs_convert_path(f.files[id].absolute_path, name)
    IN  path /= Refused /\ guac_rdp_fs_matches(path, f.files[id].dir_pattern)

Scan(f, id) ==
    LET Try(b, i) == IF b.stop THEN b
                     ELSE LET r == guac_rdp_fs_read_dir(b.fs, id)
                          IN  [fs |-> r.fs, name |-> r.name,
                               stop |-> r.name = <<>> \/ Matching(f, id, r.name[1])]
    IN  FoldLeft(Try, [fs |-> f, name |-> <<>>, stop |-> FALSE], MaxEntries)

NextEntry(f, id, history) ==
    \E s \in {Scan(f, id)} :
        /\ fs' = s.fs
        /\ served' = [served EXCEPT ![id] = [history EXCEPT !.ended = s.name = <<>>]]
        /\ IF s.name = <<>> THEN Answered("server", "OK")
           ELSE /\ Going
                /\ guac_rdp_fs_open("server", s.fs,
                      Reading(<<"">> \o f.files[id].absolute_path \o s.name, "entry", id))

guac_rdpdr_fs_process_query_directory(id, initial, pattern) ==
    LET now == IF initial THEN pattern ELSE fs.files[id].dir_pattern
        p   == fs.files[id].absolute_path
    IN  /\ Idle("server") /\ now /= <<"">>
        /\ NextEntry([fs EXCEPT !.files[id].dir_pattern = now], id,
                [served[id] EXCEPT
                    !.all = IF fs.files[id].dir = Unread /\ IsDir(fs, p)
                               /\ fs.tree[p] = fs.files[id].node
                            THEN ToSet(Entries(fs, p)) ELSE @,
                    !.pattern = IF @ = <<"">> THEN now ELSE IF @ = now THEN @ ELSE <<"?">>])
        /\ UNCHANGED <<streams, lost, ownerHere, saved, ops>>

\* What could be opened is told and closed; else the next entry is looked for.
EntryOpened ==
    LET c == call["server"]
    IN  /\ Back("server", "entry")
        /\ IF Got("server")
           THEN /\ Going
                /\ Closing("server", Counted(c), c.id, [NoCall EXCEPT !.back = "closed"])
                /\ served' = [served EXCEPT ![c.on].listed = Append(@, Last(c.path))]
           ELSE NextEntry(fs, c.on, [served[c.on] EXCEPT !.missed = TRUE])
        /\ UNCHANGED <<streams, lost, ownerHere, saved, ops>>

-----------------------------------------------------------------------------
(* Instructions of the owner *)

\* guac_rdp_upload_put_handler(), and guac_rdp_upload_file_handler() for a
\* name in which separators become "_".
guac_rdp_upload_put_handler(path) ==
    /\ Step /\ Idle("owner") /\ ownerHere /\ Room /\ ~fs.disable_upload
    /\ guac_rdp_fs_open("owner", fs,
          [Reading(path, "put", -1) EXCEPT !.access = "w",
                                           !.disposition = "FILE_OVERWRITE_IF"])
    /\ Going /\ UNCHANGED <<fs, served, streams, lost, ownerHere, saved>>

UploadOpened ==
    LET c == call["owner"]
    IN  /\ Back("owner", "put") /\ fs' = Counted(c)
        /\ streams' = IF Got("owner") THEN Append(streams, Stream("upload", c.id, c.path))
                      ELSE streams
        /\ Answered("owner", c.err) /\ UNCHANGED <<served, lost, ownerHere, saved, ops>>

guac_rdp_upload_file_handler(name) == guac_rdp_upload_put_handler(<<"", name>>)

guac_rdp_upload_blob_handler(i) ==
    LET s == streams[i]
        r == guac_rdp_fs_write(fs, s.file_id, s.offset, <<i, s.offset + 1>>)
    IN  /\ Idle("owner") /\ ownerHere /\ s.kind = "upload" /\ ~s.done
        /\ fs' = r.fs
        /\ streams' = IF r.err = "OK"
                      THEN [Shared(fs.files[s.file_id].node)
                              EXCEPT ![i] = [s EXCEPT !.offset = @ + 1]]
                      ELSE streams
        /\ Answer(r.err) /\ UNCHANGED <<served, lost, ownerHere, saved, call, ops>>

guac_rdp_upload_end_handler(i) ==
    LET s == streams[i]
    IN  /\ Idle("owner") /\ ownerHere /\ s.kind = "upload" /\ ~s.done
        /\ Closing("owner", fs, s.file_id, [NoCall EXCEPT !.back = "closed"])
        /\ streams' = [streams EXCEPT ![i].done = TRUE]
        /\ Going /\ UNCHANGED <<served, lost, ownerHere, saved, ops>>

\* guac_rdp_download_get_handler(): a listing of a directory, a download of a
\* file, or nothing though the file is open.
guac_rdp_download_get_handler(path) ==
    /\ Step /\ Idle("owner") /\ ownerHere /\ Room
    /\ guac_rdp_fs_open("owner", fs, Reading(path, "get", -1))
    /\ Going /\ UNCHANGED <<fs, served, streams, lost, ownerHere, saved>>

DownloadOpened ==
    LET c == call["owner"]
        directory == fs.files[c.id].directory
        kept == Got("owner") /\ ~directory /\ fs.disable_download
    IN  /\ Back("owner", "get") /\ fs' = Counted(c)
        /\ streams' = IF Got("owner") /\ ~kept
                      THEN Append(streams, Stream(IF directory THEN "ls" ELSE "download",
                                                  c.id, c.path))
                      ELSE streams
        /\ lost' = IF kept THEN lost \cup {c.id} ELSE lost
        /\ Answered("owner", c.err) /\ UNCHANGED <<served, ownerHere, saved, ops>>

\* guac_rdp_download_ack_handler(): the next chunk or the end; the file stays
\* open.
guac_rdp_download_ack_handler(i, success) ==
    LET s == streams[i]
        r == guac_rdp_fs_read(fs, s.file_id, s.offset)
        more == success /\ r.err = "OK" /\ r.chunk /= <<>>
    IN  /\ Idle("owner") /\ ownerHere /\ s.kind = "download" /\ ~s.done
        /\ streams' = [streams EXCEPT ![i] =
                IF more THEN [s EXCEPT !.offset = @ + 1, !.got = @ \o r.chunk]
                ELSE [s EXCEPT !.done = TRUE, !.missed = ~success \/ r.err /= "OK"]]
        /\ lost' = IF more THEN lost ELSE lost \cup {s.file_id}
        /\ Answer(r.err) /\ UNCHANGED <<fs, served, ownerHere, saved, call, ops>>

\* guac_rdp_ls_ack_handler(), an entry at a time: read is what was read and is
\* looked at only if no blob has been sent (more).  A blob is sent when the entry
\* does not fit in with those before it.
LsScan(f, id, sent) ==
    LET Try(b, i) == IF b.stop THEN b
                     ELSE LET r == guac_rdp_fs_read_dir(b.fs, id)
                          IN  [fs |-> r.fs, name |-> r.name,
                               stop |-> sent \/ r.name \notin {<<".">>, <<"..">>}]
    IN  FoldLeft(Try, [fs |-> f, name |-> <<>>, stop |-> FALSE], MaxEntries)

\* At the end of the directory it is closed and the stream ends.
EndLs(f, i, s) ==
    /\ Going /\ Closing("owner", f, s.file_id, [NoCall EXCEPT !.back = "closed"])
    /\ streams' = [streams EXCEPT ![i] = [s EXCEPT !.done = TRUE]]

LsNext(f, i, s, sent) ==
    \E l \in {LsScan(f, s.file_id, sent)} :
        IF l.name = <<>> THEN EndLs(l.fs, i, s)
        ELSE /\ fs' = l.fs /\ streams' = [streams EXCEPT ![i] = s]
             /\ IF sent THEN Answered("owner", "OK")
                ELSE /\ Going
                     /\ guac_rdp_fs_open("owner", l.fs,
                           Reading(IF s.path = <<"">> THEN <<"">> \o l.name
                                   ELSE s.path \o l.name, "lsEntry", i))

guac_rdp_ls_ack_handler(i, success) ==
    LET s == streams[i]
        file == fs.files[s.file_id]
    IN  /\ Idle("owner") /\ ownerHere /\ s.kind = "ls" /\ ~s.done
        /\ IF success
           THEN LsNext(fs, i,
                    [s EXCEPT !.all = IF file.dir = Unread /\ IsDir(fs, file.real_path)
                                         /\ fs.tree[file.real_path] = file.node
                                      THEN ToSet(Entries(fs, file.real_path)) ELSE @], FALSE)
           ELSE EndLs(fs, i, [s EXCEPT !.missed = TRUE])
        /\ UNCHANGED <<served, lost, ownerHere, saved, ops>>

LsEntryOpened ==
    LET c == call["owner"]
        s == streams[c.on]
        full == s.json >= JsonSize
    IN  /\ Back("owner", "lsEntry")
        /\ IF Got("owner")
           THEN /\ Going
                /\ Closing("owner", Counted(c), c.id,
                           [NoCall EXCEPT !.back = "lsListed", !.on = c.on, !.more = full])
                /\ streams' = [streams EXCEPT ![c.on] =
                        [s EXCEPT !.listed = Append(@, Last(c.path)),
                                  !.json = IF full THEN 1 ELSE @ + 1,
                                  !.blobs = IF full THEN @ + 1 ELSE @]]
           ELSE LsNext(fs, c.on, [s EXCEPT !.missed = TRUE], FALSE)
        /\ UNCHANGED <<served, lost, ownerHere, saved, ops>>

LsEntryListed ==
    LET c == call["owner"]
    IN  /\ Back("owner", "lsListed")
        /\ LsNext(Counted(c), c.on, streams[c.on], c.more)
        /\ UNCHANGED <<served, lost, ownerHere, saved, ops>>

\* The owner leaves: files of streams stay open.
OwnerGone ==
    /\ Idle("owner") /\ (~Idle("server") => call["server"].back \notin {"save", "move"})
    /\ ownerHere /\ ownerHere' = FALSE
    /\ lost' = lost \cup {streams[i].file_id : i \in {j \in DOMAIN streams : ~streams[j].done}}
    /\ streams' = [i \in DOMAIN streams |-> [streams[i] EXCEPT !.done = TRUE, !.missed = TRUE]]
    /\ refused' = FALSE /\ UNCHANGED <<fs, served, saved, call, ops>>

-----------------------------------------------------------------------------

\* guac_rdp_fs_alloc()
DriveInit ==
    /\ \E drive \in InitialDrives :
          LET order == SetToSeq(DOMAIN drive.tree)
          IN  fs = [tree |-> [p \in ToSet(order) |-> CHOOSE n \in DOMAIN order : order[n] = p],
                    node |-> [n \in Nodes |-> IF n \in DOMAIN order
                                              THEN drive.tree[order[n]] ELSE Empty],
                    files |-> [i \in 0 .. GUAC_RDP_FS_MAX_FILES - 1 |-> NoFile],
                    pool |-> guac_pool_alloc(0), open_files |-> 0, raced |-> FALSE,
                    disable_download |-> drive.disable_download,
                    disable_upload |-> drive.disable_upload]
    /\ served = <<>> /\ streams = <<>> /\ lost = {} /\ ownerHere = TRUE /\ saved = 0
    /\ refused = FALSE /\ ops = 0 /\ call = [t \in DriveThreads |-> NoCall]

\* guac_rdpdr_device_fs_iorequest_handler(); the server names ids it was given
\* and has not closed.
ServerNext ==
    \/ \E c \in CreateInputs : guac_rdpdr_fs_process_create(c[1], c[2], c[3], c[4])
    \/ \E id \in DOMAIN served :
          \/ \E o \in 0 .. MaxData : guac_rdpdr_fs_process_read(id, o)
          \/ \E o \in 0 .. MaxData : guac_rdpdr_fs_process_write(id, o)
          \/ guac_rdpdr_fs_process_close(id)
          \/ \E path \in PathInputs : guac_rdpdr_fs_process_set_rename_info(id, path)
          \/ guac_rdpdr_fs_process_set_disposition_info(id)
          \/ \E n \in 0 .. MaxData : guac_rdpdr_fs_process_set_end_of_file_info(id, n)
          \/ \E initial \in BOOLEAN :
                guac_rdpdr_fs_process_query_directory(id, initial,
                    fs.files[id].absolute_path \o <<"*">>)
          \/ guac_rdpdr_fs_process_file_info \/ guac_rdpdr_fs_process_volume_info
          \/ guac_rdpdr_fs_process_device_control \/ guac_rdpdr_fs_process_lock_control
    \/ Created \/ DownloadMade \/ SavedForOwner \/ Moved \/ EntryOpened

OwnerNext ==
    \/ \E name \in UploadNames : guac_rdp_upload_file_handler(name)
    \/ \E path \in PathInputs : guac_rdp_upload_put_handler(path)
    \/ \E path \in PathInputs : guac_rdp_download_get_handler(path)
    \/ \E i \in DOMAIN streams :
          \/ guac_rdp_upload_blob_handler(i)
          \/ guac_rdp_upload_end_handler(i)
          \/ \E success \in BOOLEAN : guac_rdp_download_ack_handler(i, success)
          \/ \E success \in BOOLEAN : guac_rdp_ls_ack_handler(i, success)
    \/ UploadOpened \/ DownloadOpened \/ LsEntryOpened \/ LsEntryListed
    \/ OwnerGone

Died == \E t \in DriveThreads : call[t].at = "died"

DriveNext ==
    /\ ~Died
    /\ \/ ServerNext \/ OwnerNext
       \/ \E t \in DriveThreads : OpenFile(t) \/ CloseEnds(t)

-----------------------------------------------------------------------------
(* Properties *)

\* Ids are those of slots of the table.
DriveTypeOK ==
    /\ fs.pool.active \in 0 .. GUAC_RDP_FS_MAX_FILES
    /\ fs.pool.next_value <= GUAC_RDP_FS_MAX_FILES
    /\ DOMAIN served \subseteq DOMAIN fs.files
    /\ Used(fs) \subseteq Nodes

\* Every open file is in the hands of the server, of one stream that is under
\* way or of a thread that has just opened it, or is one that was left open after a
\* download or by an owner who went; no two of them share an id, however the
\* threads' calls overlap.  The count is that of the open files until an update of
\* it is lost, because both threads read it before either stored it.
IdsAccounted ==
    LET live == {i \in DOMAIN streams : ~streams[i].done}
        ids  == {streams[i].file_id : i \in live}
        At(at) == {t \in DriveThreads : call[t].at = at}
        new  == {call[t].id : t \in At("counting")}
    IN  /\ OpenIds(fs) = DOMAIN served \cup ids \cup lost \cup new
        /\ Cardinality(OpenIds(fs)) = Cardinality(DOMAIN served) + Cardinality(live)
                            + Cardinality(lost) + Cardinality(At("counting"))
        /\ Cardinality(OpenIds(fs)) = fs.pool.active
        /\ ~fs.raced => fs.open_files = Cardinality(OpenIds(fs))
                            - Cardinality(At("counting")) + Cardinality(At("closing"))

\* The process ends for want of an id (guac_pool_next_int_below_or_die()) only if an
\* update of the count was lost, or both threads were opening files at once, so that
\* each saw room for one.
DiesOnlyIfRaced ==
    \A t \in DriveThreads : call[t].at = "died" => fs.raced \/ ~call[t].alone

\* Whatever path is asked for, what is opened or created lies in the drive.
StaysInDrive ==
    \A p \in DOMAIN fs.tree \cup {fs.files[i].real_path : i \in OpenIds(fs)} :
        ToSet(p) \cap {"..", ".", "", "c:"} = {}

\* What an upload sends ends up in the file in the order in which it was sent,
\* and what a download receives is in the order of the file.
ChunksInPlace ==
    /\ \A n \in Nodes, i \in 1 .. MaxData :
          i <= Len(fs.node[n].data) => fs.node[n].data[i][2] = i
    /\ \A j \in DOMAIN streams, i \in 1 .. MaxData :
          i <= Len(streams[j].got) => streams[j].got[i][2] = i

\* A listing the server asked for gives no entry twice and, once it is told
\* that there are no more, has given all that could be opened; one for the
\* owner has given all but one for each blob sent before it was over.
ListingsComplete ==
    /\ \A id \in DOMAIN served :
          LET h == served[id]
          IN  /\ Cardinality(ToSet(h.listed)) = Len(h.listed)
              /\ (h.ended /\ ~h.missed /\ h.pattern /= <<"?">>) =>
                    h.all \ {".", ".."} \subseteq ToSet(h.listed)
    /\ \A i \in DOMAIN streams :
          LET s == streams[i]
          IN  (s.kind = "ls" /\ s.done /\ ~s.missed) =>
                Cardinality(s.all \ {".", ".."}) <= Len(s.listed) + s.blobs

\* What the server saved in \Download and closed is sent to the owner, if there
\* is one and a slot for it, and a download that is over was of the whole file
\* unless someone changed it meanwhile.
SavedReachesOwner ==
    /\ saved <= Cardinality({i \in DOMAIN streams : streams[i].from = "saved"})
    /\ \A i \in DOMAIN streams :
          LET s == streams[i]
          IN  (s.kind = "download" /\ s.done /\ ~s.missed /\ ~s.shared) =>
                s.got = FileData(fs, s.file_id)

\* A request or instruction that is refused leaves what is on the drive as it was.  (Opening a
\* directory in order to overwrite it does not: it is created and refused.)
RefusedLeavesDrive ==
    [][refused' => /\ fs'.tree = fs.tree
                   /\ \A n \in Used(fs) : fs'.node[n] = fs.node[n]
                   /\ \A t \in DriveThreads : call'[t] /= call[t] => ~call[t].changed]_driveVars

\* Every file id is open, free or known to be leaked, and the process ends for want
\* of one only after a race of two threads; nothing outside the drive
\* is touched; uploads land where they were sent, listings name every entry,
\* what the server saved for the owner arrives before it is deleted, and a
\* request that is refused leaves the drive as it was.
DriveSound ==
  /\ [](DriveTypeOK /\ IdsAccounted /\ DiesOnlyIfRaced /\ StaysInDrive /\ ChunksInPlace /\ ListingsComplete /\ SavedReachesOwner)
  /\ RefusedLeavesDrive

=============================================================================
