----------------------------- MODULE SftpFiles ------------------------------
(***************************************************************************)
(* Files of an SSH server (src/common-ssh/sftp.c): the owner of a          *)
(* connection lists directories, downloads and uploads through an object,  *)
(* or sends a file to the connection; in an SSH session the terminal       *)
(* starts downloads and says where files are sent to.                      *)
(*                                                                         *)
(* A text is the sequence of what is between its slashes: "/a/b" is        *)
(* <<"", "a", "b">>, "/" is <<"", "">>.  A normalized path, and one of the *)
(* server, is the sequence of its components.  Texts are shorter than      *)
(* GUAC_COMMON_SSH_SFTP_MAX_PATH.  Requests of the owner's thread and of   *)
(* the terminal are taken to come one after the other: nothing in the code *)
(* keeps them apart.                                                       *)
(***************************************************************************)
EXTENDS Integers, FiniteSets, SequencesExt

CONSTANTS ServerTree,       \* what the server stores at first
          Home,             \* where paths that are not absolute start
          Filesystems,      \* root path as a text, and what is disabled
          ObjectNames,      \* names the owner asks the object for
          FileNames,        \* names of files sent to the connection
          TerminalPaths,    \* paths a program in the terminal names
          GUAC_COMMON_SSH_SFTP_MAX_DEPTH,
          JsonRoom,         \* pieces of JSON in a blob
          MaxSftpTransfers, \* streams in all
          MaxBlobs          \* blobs of an upload

VARIABLES filesystem,   \* guac_common_ssh_sftp_filesystem, NoPath root if refused
          tree,         \* the server's files, by path
          transfers,    \* the streams, in the order they were opened
          handles,      \* handles open on the server
          leaked,       \* those of them no stream knows
          sftpOwner     \* the owner is there

sftpVars == <<filesystem, tree, transfers, handles, leaked, sftpOwner>>

NoPath == <<"/">>

-----------------------------------------------------------------------------
(* Paths *)

SftpComponent(path, c) ==
    CASE path = NoPath -> NoPath
      [] c = ".." -> IF path = <<>> THEN <<>> ELSE Front(path)
      [] c \in {".", ""} -> path
      [] OTHER -> IF Len(path) >= GUAC_COMMON_SSH_SFTP_MAX_DEPTH THEN NoPath
                  ELSE Append(path, c)

guac_common_ssh_sftp_normalize_path(text) ==
    IF Head(text) /= "" \/ Len(text) = 1 THEN NoPath
    ELSE FoldLeft(SftpComponent, <<>>, Tail(text))

\* A name that could leave the directory is refused; a slash is added where the
\* directory has none at its end.
guac_ssh_append_filename(text, filename) ==
    IF filename \in {".", "..", "a/b"} THEN NoPath
    ELSE IF Last(text) = "" THEN Append(Front(text), filename)
    ELSE Append(text, filename)

guac_ssh_append_path(path_a, path_b) ==
    IF path_a \o path_b = <<>> THEN <<"", "">> ELSE <<"">> \o path_a \o path_b

guac_common_ssh_sftp_translate_name(name) ==
    LET normalized == guac_common_ssh_sftp_normalize_path(name)
    IN  IF normalized = NoPath THEN NoPath
        ELSE guac_ssh_append_path(filesystem.root_path, normalized)

-----------------------------------------------------------------------------
(* The server *)

Walk(path, c) ==
    CASE c = ".." -> IF path = <<>> THEN <<>> ELSE Front(path)
      [] c \in {".", ""} -> path
      [] Append(path, c) \in DOMAIN tree /\ tree[Append(path, c)].kind = "link" ->
           tree[Append(path, c)].to
      [] OTHER -> Append(path, c)

\* What a path leads to.
Resolve(text) == FoldLeft(Walk, IF Head(text) = "" THEN <<>> ELSE Home, text)

KindOf(text) == IF Resolve(text) \in DOMAIN tree THEN tree[Resolve(text)].kind ELSE "none"

Writable(text) ==
    LET p == Resolve(text)
    IN  /\ p /= <<>> /\ Front(p) \in DOMAIN tree /\ tree[Front(p)].kind = "dir"
        /\ KindOf(text) /= "dir"

EntriesOf(text) ==
    {".", ".."} \cup {Last(p) : p \in {q \in DOMAIN tree : q /= <<>> /\ Front(q) = Resolve(text)}}

\* libssh2_session_last_errno() and libssh2_sftp_last_error(), as a status.
guac_sftp_get_status(errno, code) ==
    CASE errno /= "SFTP_PROTOCOL"  -> "SUCCESS"
      [] errno = "SFTP_PROTOCOL" /\ code \in {0, 1} -> "SUCCESS"
      [] errno = "SFTP_PROTOCOL" /\ code = 2 -> "RESOURCE_NOT_FOUND"
      [] errno = "SFTP_PROTOCOL" /\ code = 3 -> "CLIENT_FORBIDDEN"
      [] errno = "SFTP_PROTOCOL" /\ code = 5 -> "SERVER_ERROR"
      [] errno = "SFTP_PROTOCOL" /\ code \in {6, 7} -> "UPSTREAM_TIMEOUT"
      [] errno = "SFTP_PROTOCOL" /\ code = 8 -> "UNSUPPORTED"
      [] OTHER -> "UPSTREAM_ERROR"

\* A request fails with what the server answers, or for want of a connection.
Errors == {<<"SFTP_PROTOCOL", 2>>, <<"SFTP_PROTOCOL", 3>>, <<"SOCKET_SEND", 0>>}

-----------------------------------------------------------------------------
(* Listings as JSON (src/common/json.c), a piece of which is a brace or a  *)
(* property.                                                               *)

guac_common_json_flush(json) == [buffer |-> <<>>, sent |-> json.sent \o json.buffer]

guac_common_json_write(json, piece) ==
    LET full == Len(json.buffer) + 1 > JsonRoom
        room == IF full THEN guac_common_json_flush(json) ELSE json
    IN  [json |-> [room EXCEPT !.buffer = Append(@, piece)], blob_written |-> full]

guac_common_json_write_property(json, name, value) ==
    guac_common_json_write(json, <<name, value>>)

guac_common_json_begin_object ==
    guac_common_json_write([buffer |-> <<>>, sent |-> <<>>], <<"{">>).json

guac_common_json_end_object(json) == guac_common_json_write(json, <<"}">>).json

-----------------------------------------------------------------------------
(* Streams.  "state" is "open" until the stream is closed; "file" is       *)
(* whether it has a handle; "failed" whether the server failed it; "all"   *)
(* whether every answer was SUCCESS; "changed" whether another stream has  *)
(* written to its file since; "by" whether the object or a name opened it. *)

Stream(kind, by, text, file) ==
    [kind |-> kind, by |-> by, text |-> text, state |-> "open", file |-> file,
     failed |-> FALSE, all |-> TRUE, changed |-> FALSE, data |-> <<>>,
     left |-> <<>>, name |-> <<>>, json |-> [buffer |-> <<>>, sent |-> <<>>]]

MayOpen == sftpOwner /\ filesystem.root_path /= NoPath /\ Len(transfers) < MaxSftpTransfers
Opened(s, kind) == s \in DOMAIN transfers /\ transfers[s].kind = kind
                   /\ transfers[s].state = "open" /\ sftpOwner

\* Other streams of that file, or of its directory, learn that it was written to.
Changed(list, text) ==
    [s \in DOMAIN list |-> IF IsPrefix(Resolve(list[s].text), Resolve(text))
                           THEN [list[s] EXCEPT !.changed = TRUE] ELSE list[s]]

\* The server makes the file, or empties it.  What a failed request is answered
\* with depends on the last error, and the stream has its handlers either way.
OpenForWriting(text, by) ==
    \/ /\ Writable(text)
       /\ tree' = [p \in DOMAIN tree \cup {Resolve(text)} |->
                     IF p = Resolve(text) THEN [kind |-> "file", data |-> <<>>] ELSE tree[p]]
       /\ handles' = handles + 1
       /\ transfers' = Append(Changed(transfers, text), Stream("upload", by, text, TRUE))
    \/ \E e \in Errors :
         /\ UNCHANGED <<tree, handles>>
         /\ transfers' = Append(transfers,
                [Stream("upload", by, text, FALSE) EXCEPT
                    !.all = guac_sftp_get_status(e[1], e[2]) = "SUCCESS"])

\* A file the owner sends to the connection goes to the upload path.
guac_common_ssh_sftp_handle_file_stream(filename) ==
    LET fullpath == guac_ssh_append_filename(filesystem.upload_path, filename)
    IN  /\ MayOpen /\ ~filesystem.disable_upload /\ fullpath /= NoPath
        /\ OpenForWriting(fullpath, "name")
        /\ UNCHANGED <<filesystem, leaked, sftpOwner>>

guac_common_ssh_sftp_put_handler(name) ==
    LET fullpath == guac_common_ssh_sftp_translate_name(name)
    IN  /\ MayOpen /\ ~filesystem.disable_upload /\ fullpath /= NoPath
        /\ OpenForWriting(fullpath, "object")
        /\ UNCHANGED <<filesystem, leaked, sftpOwner>>

\* The next blob is written where the one before ended, or in part, or not.
guac_common_ssh_sftp_blob_handler(s) ==
    LET t == transfers[s]
        blob == <<s, Len(t.data) + 1>>
        p == Resolve(t.text)
    IN  /\ Opened(s, "upload") /\ Len(t.data) < MaxBlobs
        /\ \/ /\ t.file
              /\ \E whole \in BOOLEAN :
                   transfers' = [Changed(transfers, t.text) EXCEPT
                     ![s] = [t EXCEPT !.data = Append(@, blob), !.all = @ /\ whole]]
              /\ tree' = [tree EXCEPT ![p].data =
                            [i \in 1 .. (IF Len(@) > Len(t.data) THEN Len(@)
                                         ELSE Len(t.data) + 1) |->
                               IF i = Len(t.data) + 1 THEN blob
                               ELSE IF i <= Len(@) THEN @[i] ELSE <<0, 0>>]]
           \/ /\ transfers' = [transfers EXCEPT ![s].all = FALSE]
              /\ UNCHANGED tree
        /\ UNCHANGED <<filesystem, handles, leaked, sftpOwner>>

Closed(s) == IF transfers[s].file THEN handles - 1 ELSE handles

guac_common_ssh_sftp_end_handler(s) ==
    /\ Opened(s, "upload")
    /\ \E closes \in {FALSE, transfers[s].file} :
         transfers' = [transfers EXCEPT ![s].state = "ended", ![s].file = FALSE,
                                        ![s].all = @ /\ closes]
    /\ handles' = Closed(s)
    /\ UNCHANGED <<filesystem, tree, leaked, sftpOwner>>

-----------------------------------------------------------------------------
(* Downloads and listings *)

OpenForReading(text, by) ==
    /\ KindOf(text) = "file"
    /\ handles' = handles + 1
    /\ transfers' = Append(transfers, Stream("download", by, text, TRUE))

\* A program in the terminal has the owner download a file.
guac_common_ssh_sftp_download_file(text) ==
    /\ MayOpen /\ ~filesystem.disable_download
    /\ OpenForReading(text, "name")
    /\ UNCHANGED <<filesystem, tree, leaked, sftpOwner>>

guac_common_ssh_sftp_get_handler(name) ==
    LET fullpath == guac_common_ssh_sftp_translate_name(name)
    IN  /\ MayOpen /\ fullpath /= NoPath
        /\ \/ /\ KindOf(fullpath) = "dir"
              /\ handles' = handles + 1
              /\ transfers' = Append(transfers,
                   [Stream("list", "object", fullpath, TRUE) EXCEPT
                      !.left = SetToSeq(EntriesOf(fullpath)), !.name = name,
                      !.json = guac_common_json_begin_object])
           \/ /\ ~filesystem.disable_download
              /\ OpenForReading(fullpath, "object")
        /\ UNCHANGED <<filesystem, tree, leaked, sftpOwner>>

\* An acknowledged download goes on with what comes next; the end of the file
\* and a failure to read end it alike.  One that is refused is forgotten.
guac_common_ssh_sftp_ack_handler(s, status) ==
    LET t == transfers[s]
        content == tree[Resolve(t.text)].data
    IN  /\ Opened(s, "download")
        /\ \/ /\ status = "SUCCESS" /\ Len(content) > Len(t.data)
              /\ transfers' = [transfers EXCEPT ![s].data = Append(@, content[Len(@) + 1])]
              /\ UNCHANGED <<handles, leaked>>
           \/ /\ status = "SUCCESS"
              /\ \E failed \in {TRUE, Len(content) > Len(t.data)} :
                   transfers' = [transfers EXCEPT ![s].state = "ended", ![s].file = FALSE,
                                                  ![s].failed = failed]
              /\ handles' = Closed(s)
              /\ UNCHANGED leaked
           \/ /\ status /= "SUCCESS"
              /\ transfers' = [transfers EXCEPT ![s].state = "refused", ![s].file = FALSE]
              /\ leaked' = leaked + 1
              /\ UNCHANGED handles
        /\ UNCHANGED <<filesystem, tree, sftpOwner>>

\* A link is looked at to see whether it leads to a directory, at the name the
\* owner knows it by and not below the root path.
MimetypeOf(t, entry) ==
    LET p == Append(Resolve(t.text), entry)
        absolute_path == guac_ssh_append_filename(t.name, entry)
        stat == IF tree[p].kind /= "link" THEN tree[p].kind
                ELSE IF KindOf(absolute_path) = "none" THEN "link"
                ELSE KindOf(absolute_path)
    IN  IF stat = "dir" THEN "index" ELSE "octet-stream"

\* The entries are written up to the one with which a blob is sent.
ListEntry(t, entry) ==
    LET w == guac_common_json_write_property(t.json,
                 guac_ssh_append_filename(t.name, entry), MimetypeOf(t, entry))
    IN  IF t.state = "waiting" THEN t
        ELSE IF entry \in {".", ".."} THEN [t EXCEPT !.left = Tail(@)]
        ELSE [t EXCEPT !.left = Tail(@), !.json = w.json,
                       !.state = IF w.blob_written THEN "waiting" ELSE @]

guac_common_ssh_sftp_ls_ack_handler(s, status) ==
    LET t == transfers[s]
        n == FoldLeft(ListEntry, t, t.left)
    IN  /\ Opened(s, "list")
        /\ \/ /\ status = "SUCCESS" /\ n.state = "waiting"
              /\ transfers' = [transfers EXCEPT ![s] = [n EXCEPT !.state = "open"]]
              /\ UNCHANGED handles
           \/ /\ status = "SUCCESS"
              /\ \E failed \in {TRUE, n.state = "waiting"} :
                   transfers' = [transfers EXCEPT ![s] =
                     [(IF failed THEN t ELSE n) EXCEPT
                        !.state = "ended", !.file = FALSE, !.failed = failed,
                        !.json = guac_common_json_flush(guac_common_json_end_object(@))]]
              /\ handles' = Closed(s)
           \/ /\ status /= "SUCCESS"
              /\ transfers' = [transfers EXCEPT ![s].state = "refused", ![s].file = FALSE]
              /\ handles' = Closed(s)
        /\ UNCHANGED <<filesystem, tree, leaked, sftpOwner>>

-----------------------------------------------------------------------------
(* The filesystem *)

guac_common_ssh_sftp_set_upload_path(text) ==
    /\ ~filesystem.disable_upload
    /\ filesystem' = [filesystem EXCEPT !.upload_path = text]
    /\ UNCHANGED <<tree, transfers, handles, leaked, sftpOwner>>

\* The streams of an owner who leaves are gone, their handles are not.
SftpOwnerLeaves ==
    /\ sftpOwner /\ sftpOwner' = FALSE
    /\ leaked' = leaked + Cardinality({s \in DOMAIN transfers : transfers[s].file})
    /\ transfers' = [s \in DOMAIN transfers |->
                       [transfers[s] EXCEPT !.file = FALSE,
                          !.state = IF @ = "open" THEN "refused" ELSE @]]
    /\ UNCHANGED <<filesystem, tree, handles>>

guac_common_ssh_create_sftp_filesystem(f) ==
    [root_path |-> guac_common_ssh_sftp_normalize_path(f.root_path),
     upload_path |-> <<".">>,
     disable_download |-> f.disable_download,
     disable_upload |-> f.disable_upload]

SftpInit ==
    /\ \E f \in Filesystems : filesystem = guac_common_ssh_create_sftp_filesystem(f)
    /\ tree = ServerTree
    /\ transfers = <<>> /\ handles = 0 /\ leaked = 0
    /\ sftpOwner = TRUE

SftpNext ==
    \/ \E n \in ObjectNames : \/ guac_common_ssh_sftp_get_handler(n)
                              \/ guac_common_ssh_sftp_put_handler(n)
    \/ \E n \in FileNames : guac_common_ssh_sftp_handle_file_stream(n)
    \/ \E p \in TerminalPaths : \/ guac_common_ssh_sftp_download_file(p)
                                \/ guac_common_ssh_sftp_set_upload_path(p)
    \/ \E s \in DOMAIN transfers :
         \/ guac_common_ssh_sftp_blob_handler(s)
         \/ guac_common_ssh_sftp_end_handler(s)
         \/ \E status \in {"SUCCESS", "CLIENT_ERROR"} :
              \/ guac_common_ssh_sftp_ack_handler(s, status)
              \/ guac_common_ssh_sftp_ls_ack_handler(s, status)
    \/ SftpOwnerLeaves

-----------------------------------------------------------------------------
(* Properties *)

SftpTypeOK ==
    /\ handles \in Nat /\ leaked \in Nat /\ sftpOwner \in BOOLEAN
    /\ \A s \in DOMAIN transfers :
         /\ transfers[s].kind \in {"upload", "download", "list"}
         /\ transfers[s].state \in {"open", "ended", "refused"}

\* Each handle that is open on the server is that of a stream, but for those of
\* refused downloads and of owners who left; what is read, is read from a handle
\* that is open.
HandlesAccounted ==
    /\ handles = leaked + Cardinality({s \in DOMAIN transfers : transfers[s].file})
    /\ leaked <= Cardinality({s \in DOMAIN transfers : transfers[s].state = "refused"})
    /\ \A s \in DOMAIN transfers :
         transfers[s].kind \in {"download", "list"} =>
           (transfers[s].file <=> transfers[s].state = "open")

\* Whether a link below the root path is followed on the way to a file.
LedByLink(components) ==
    \E n \in Len(filesystem.root_path) + 1 .. Len(components) :
      LET p == SubSeq(components, 1, n)
      IN  p \in DOMAIN tree /\ tree[p].kind = "link"

\* Whatever the owner asks the object for, the server is asked for nothing that
\* is outside of its root path by name, and what it opens is outside only if a
\* link of its own leads there (the code follows links, sftp.c:759, though the
\* root path is meant to hold all that can be reached, sftp.h:129); and nothing
\* is done that is disabled.
BelowRoot ==
    /\ \A s \in DOMAIN transfers : transfers[s].by = "object" =>
         LET components == SelectSeq(transfers[s].text, LAMBDA c : c /= "")
         IN  /\ IsPrefix(filesystem.root_path, components)
             /\ \A i \in DOMAIN components : components[i] \notin {".", ".."}
             /\ \/ IsPrefix(filesystem.root_path, Resolve(transfers[s].text))
                \/ LedByLink(components)
    /\ filesystem.disable_download =>
         \A s \in DOMAIN transfers : transfers[s].kind /= "download"
    /\ filesystem.disable_upload => tree = ServerTree

\* A download that ended unfailed gave the file, an upload of which each answer
\* was SUCCESS left it, as long as no other stream wrote to the file.
TransfersWhole ==
    \A s \in DOMAIN transfers :
      LET t == transfers[s]
          content == tree[Resolve(t.text)].data
      IN  /\ t.kind = "download" /\ ~t.changed =>
               IF t.state = "ended" /\ ~t.failed THEN t.data = content
               ELSE IsPrefix(t.data, content)
          /\ t.kind = "upload" /\ t.state = "ended" /\ t.all /\ ~t.changed =>
               t.data = content

\* A listing is one JSON object, with each entry once, by a name that leads back
\* to it (unless that is too deep) and as what it is, except that below a root path other than "/" links
\* are not followed to where they lead.
ListingsRight ==
    \A s \in DOMAIN transfers :
      LET t == transfers[s]
          pieces == t.json.sent
          entries == EntriesOf(t.text) \ {".", ".."}
          Told(e) == <<guac_ssh_append_filename(t.name, e),
                       IF KindOf(<<"">> \o Append(Resolve(t.text), e)) = "dir" THEN "index" ELSE "octet-stream">>
          Known(e) == filesystem.root_path = <<>> \/ tree[Append(Resolve(t.text), e)].kind /= "link"
      IN  t.kind = "list" /\ t.state = "ended" =>
            /\ Head(pieces) = <<"{">> /\ Last(pieces) = <<"}">>
            /\ ~t.failed /\ ~t.changed =>
                 /\ Len(pieces) = Cardinality(entries) + 2
                 /\ \A e \in entries :
                      /\ \E i \in 2 .. Len(pieces) - 1 :
                           pieces[i][1] = Told(e)[1] /\ (Known(e) => pieces[i] = Told(e))
                      /\ \/ Len(Told(e)[1]) > GUAC_COMMON_SSH_SFTP_MAX_DEPTH + 1
                         \/ Resolve(guac_common_ssh_sftp_translate_name(Told(e)[1]))
                              = Resolve(Append(t.text, e))

SftpSound ==
    /\ SftpTypeOK
    /\ HandlesAccounted
    /\ BelowRoot
    /\ TransfersWhole
    /\ ListingsRight

=============================================================================
