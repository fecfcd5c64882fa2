---------------------------- MODULE SshCommands -----------------------------
(***************************************************************************)
(* The command rules of the SSH plugin and its log of commands             *)
(* (command-acl.c, command_logger.c, ssh_input_thread() of ssh.c and       *)
(* guac_ssh_user_key_handler() of input.c).                                *)
(*                                                                         *)
(* The file of rules is read line by line; the rule for the connection is  *)
(* looked up; then the keys of the users go to the log, each user's into   *)
(* a buffer of their own, and through the terminal to the input thread,    *)
(* which keeps a copy of the line that is being typed, asks the rule when  *)
(* it ends, and otherwise sends each character on.  The server is          *)
(* external: a line editor that knows characters, erasing and ending a     *)
(* line, completing it (Tab) and clearing it (Ctrl-U).  Texts are          *)
(* sequences of characters, lists of patterns sets.                        *)
(***************************************************************************)
EXTENDS Integers, Sequences, FiniteSets, SequencesExt

CONSTANTS
    FileLines,      \* lines of the file of rules
    MaxFile,        \* how many lines are read
    AclFiles,       \* the files that sessions are looked at with
    MaxRules,       \* GUAC_SSH_ACL_MAX_RULES
    Typists,        \* users of the connection
    KeysOf,         \* user -> keys the user presses
    GuacUser,       \* settings->guacamole_username
    ConnectionId,   \* client->connection_id
    Host, SshUser,  \* settings->hostname, settings->username
    Chars,          \* characters that are typed, " " among them
    Completions,    \* what the server may complete a line with
    Openings,       \* beginnings of definitions, such as "alias "
    Infixes,        \* texts found in definitions, such as "() {"
    Dangerous,      \* dangerous_patterns
    MaxCommand,     \* sizeof(command_buffer) - 1
    MaxLogged,      \* CMD_BUFFER_SIZE - 2
    MaxKeys         \* how many keys are typed

ASSUME BufferAssumption == MaxLogged \in Nat /\ MaxCommand \in Nat

VARIABLES
    read,       \* lines of the file read so far
    acl,        \* guac_ssh_acl_config, and the section being read
    session,    \* "none", "prompt" for the login, "shell"
    prompted,   \* whether it began with a prompt
    acl_rule,   \* settings->acl_rule
    keys,       \* typed, and not yet read by the input thread
    pressed,    \* how many keys were typed
    command_buffer,
    shellLine,  \* the line in the editor of the server
    edited,     \* whether that line was completed or cleared there
    outcome,    \* the lines that ended, and whether they were refused
    logger,     \* user -> buffer and name, NoLogger until the first key
    log,        \* what is written to the logs
    typists     \* users who have typed

sshVars == <<read, acl, session, prompted, acl_rule, keys, pressed,
             command_buffer, shellLine, edited, outcome, logger, log, typists>>

NoRule == <<>>
EmptyRule == [blacklist |-> {}, whitelist |-> {}]

-----------------------------------------------------------------------------
(* The file of rules.                                                      *)

Section(of, name) == [type |-> "section", of |-> of, name |-> name]
Setting(key, value) == [type |-> "setting", key |-> key, value |-> value]

EmptyConfig == [global |-> NoRule, connection |-> <<>>, user |-> <<>>,
                current |-> <<"none", 0>>]

\* A section begins.  Of one that is not known, or for which there is no room,
\* nothing is noted: what it says is added to the section before it.
BeginSection(config, line) ==
    CASE line.of = "global" ->
            [config EXCEPT !.global = IF @ = NoRule THEN EmptyRule ELSE @,
                           !.current = <<"global", 0>>]
      [] line.of \in {"connection", "user"} ->
            IF Len(config[line.of]) < MaxRules
            THEN [config EXCEPT ![line.of] =
                        Append(@, [name |-> line.name, rule |-> EmptyRule]),
                    !.current = <<line.of, Len(config[line.of]) + 1>>]
            ELSE config
      [] OTHER -> config

\* A setting of the section that is being read; the last value counts.
Assign(config, line) ==
    LET of == config.current[1]
        i == config.current[2]
    IN  CASE of = "none"   -> config
          [] of = "global" -> [config EXCEPT !.global[line.key] = line.value]
          [] OTHER         -> [config EXCEPT ![of][i].rule[line.key] = line.value]

\* guac_ssh_acl_load_config(), a line at a time.
LoadLine(config, line) == IF line.type = "section" THEN BeginSection(config, line)
                          ELSE Assign(config, line)

First(rules, name) ==
    rules[CHOOSE i \in DOMAIN rules :
            /\ rules[i].name = name
            /\ \A j \in 1 .. i - 1 : rules[j].name /= name].rule

Names(rules, name) == \E i \in DOMAIN rules : rules[i].name = name

\* The rule of the user, of the account on the host, of the host, or for all.
guac_ssh_acl_get_rule(config, guacUser, host, sshUser) ==
    CASE Names(config.user, <<guacUser>>) -> First(config.user, <<guacUser>>)
      [] /\ ~Names(config.user, <<guacUser>>)
         /\ Names(config.connection, <<host, sshUser>>) ->
                First(config.connection, <<host, sshUser>>)
      [] /\ ~Names(config.user, <<guacUser>>)
         /\ ~Names(config.connection, <<host, sshUser>>)
         /\ Names(config.connection, <<host>>) -> First(config.connection, <<host>>)
      [] OTHER -> config.global

-----------------------------------------------------------------------------
(* Commands.                                                               *)

Whitespace == {" ", "Tab"}

trim_whitespace(s) ==
    LET text == {i \in DOMAIN s : s[i] \notin Whitespace}
    IN  IF text = {} THEN <<>>
        ELSE SubSeq(s, CHOOSE i \in text : \A j \in text : i <= j,
                       CHOOSE i \in text : \A j \in text : i >= j)

command_matches_pattern(s, p) ==
    \E i \in 0 .. Len(s) - Len(p) : SubSeq(s, i + 1, i + Len(p)) = p

is_alias_or_function_definition(s) ==
    \/ \E p \in Openings : IsPrefix(p, s)
    \/ \E p \in Infixes : command_matches_pattern(s, p)

guac_ssh_acl_check_command(rule, command) ==
    LET cmd == trim_whitespace(command)
    IN  \/ rule = NoRule
        \/ cmd = <<>>
        \/ /\ ~is_alias_or_function_definition(cmd)
           /\ \A p \in rule.blacklist : ~command_matches_pattern(cmd, p)
           /\ rule.whitelist /= {} =>
                    \E p \in rule.whitelist : command_matches_pattern(cmd, p)

is_dangerous_command(s) == \E p \in Dangerous : command_matches_pattern(s, p)

-----------------------------------------------------------------------------
(* The log.                                                                *)

NoLogger == <<>>

\* The name is that of the SSH account, if the user has logged in.
guac_ssh_command_logger_create(inShell) ==
    [buffer |-> <<>>, username |-> IF inShell THEN SshUser ELSE "unknown"]

\* The rule that applies to what is logged is looked up by the id of the
\* connection, not by the name of the user.
LoggedRule(l) == guac_ssh_acl_get_rule(acl, ConnectionId, Host, l.username)

\* The entry for a line that ended: what of it is restricted is not dangerous.
Entry(u, l) ==
    LET rule == LoggedRule(l)
        restricted == ~guac_ssh_acl_check_command(rule, l.buffer)
    IN  [user |-> u, command |-> l.buffer, restricted |-> restricted,
         dangerous |-> ~restricted /\ is_dangerous_command(l.buffer),
         complete |-> TRUE]

Blank(s) == \A i \in DOMAIN s : s[i] = " "

guac_ssh_command_logger_key(u, l, k) ==
    CASE k = "Enter" ->
            [logger |-> [l EXCEPT !.buffer = <<>>],
             entries |-> IF Blank(l.buffer) THEN <<>> ELSE <<Entry(u, l)>>]
      [] k = "BackSpace" ->
            [logger |-> [l EXCEPT !.buffer = IF @ = <<>> THEN @ ELSE Front(@)],
             entries |-> <<>>]
      [] k \in Chars ->
            [logger |-> [l EXCEPT !.buffer = IF Len(@) < MaxLogged
                                             THEN Append(@, k) ELSE @],
             entries |-> <<>>]
      [] k = "Ctrl-U" ->       \* the key is a letter all the same
            [logger |-> [l EXCEPT !.buffer = IF Len(@) < MaxLogged
                                             THEN Append(@, "u") ELSE @],
             entries |-> <<>>]
      [] OTHER -> [logger |-> l, entries |-> <<>>]

\* guac_ssh_command_logger_flush(): what was typed without ending the line.
Incomplete(u, l) ==
    IF l = NoLogger THEN <<>>
    ELSE IF l.buffer = <<>> THEN <<>>
    ELSE <<[user |-> u, command |-> l.buffer, restricted |-> FALSE,
            dangerous |-> FALSE, complete |-> FALSE]>>

-----------------------------------------------------------------------------
(* The editor of the server.                                               *)

EditingKeys == {"Tab", "Ctrl-U"}

Receive1(s, c, completion) ==
    CASE c = "Enter" -> [line |-> <<>>, ran |-> Append(s.ran, s.line)]
      [] c = "BackSpace" ->
            [s EXCEPT !.line = IF @ = <<>> THEN @ ELSE Front(@)]
      [] c = "Tab" -> [s EXCEPT !.line = @ \o completion]
      [] c = "Ctrl-U" -> [s EXCEPT !.line = <<>>]
      [] c \in Chars -> [s EXCEPT !.line = Append(@, c)]

ReceiveAll(chars, completion) ==
    FoldLeft(LAMBDA s, c : Receive1(s, c, completion),
             [line |-> shellLine, ran |-> <<>>], chars)

-----------------------------------------------------------------------------

SshInit ==
    /\ read = <<>>
    /\ acl = EmptyConfig
    /\ session = "none"
    /\ prompted = FALSE
    /\ acl_rule = NoRule
    /\ keys = <<>>
    /\ pressed = 0
    /\ command_buffer = <<>>
    /\ shellLine = <<>>
    /\ edited = FALSE
    /\ outcome = <<>>
    /\ logger = [u \in Typists |-> NoLogger]
    /\ log = <<>>
    /\ typists = {}

ReadLine(line) ==
    /\ session = "none"
    /\ Len(read) < MaxFile
    /\ read' = Append(read, line)
    /\ acl' = LoadLine(acl, line)
    /\ acl_rule' = guac_ssh_acl_get_rule(acl', GuacUser, Host, SshUser)
    /\ UNCHANGED <<session, prompted, keys, pressed, command_buffer, shellLine,
                   edited, outcome, logger, log, typists>>

\* The session begins, asking for a password or not.
Start ==
    /\ session = "none"
    /\ read \in AclFiles
    /\ session' \in {"prompt", "shell"}
    /\ prompted' = (session' = "prompt")
    /\ UNCHANGED <<read, acl, acl_rule, keys, pressed, command_buffer, shellLine,
                   edited, outcome, logger, log, typists>>

\* A user presses a key: it is logged and sent to the terminal.
guac_ssh_user_key_handler(u, k) ==
    /\ session /= "none"
    /\ pressed < MaxKeys
    /\ pressed' = pressed + 1
    /\ LET l == IF logger[u] = NoLogger
                THEN guac_ssh_command_logger_create(session = "shell")
                ELSE logger[u]
           logged == guac_ssh_command_logger_key(u, l, k)
       IN  /\ logger' = [logger EXCEPT ![u] = logged.logger]
           /\ log' = log \o logged.entries
    /\ keys' = Append(keys, k)
    /\ typists' = typists \cup {u}
    /\ UNCHANGED <<read, acl, session, prompted, acl_rule, command_buffer,
                   shellLine, edited, outcome>>

\* The thread of a user ends, and with it the user's log.
guac_ssh_command_logger_free(u) ==
    /\ logger[u] /= NoLogger
    /\ pressed = MaxKeys
    /\ log' = log \o Incomplete(u, logger[u])
    /\ logger' = [logger EXCEPT ![u] = NoLogger]
    /\ UNCHANGED <<read, acl, session, prompted, acl_rule, keys, pressed,
                   command_buffer, shellLine, edited, outcome, typists>>

\* guac_terminal_prompt(): a line that goes to nobody but the prompt.
Prompt ==
    /\ session = "prompt"
    /\ keys /= <<>>
    /\ keys' = Tail(keys)
    /\ session' = IF Head(keys) = "Enter" THEN "shell" ELSE session
    /\ UNCHANGED <<read, acl, prompted, acl_rule, pressed, command_buffer,
                   shellLine, edited, outcome, logger, log, typists>>

\* What is sent to the server, and what becomes of a line that ends.
Sent(chars, ended) ==
    \E completion \in Completions :
        LET s == ReceiveAll(chars, completion)
        IN  /\ shellLine' = s.line
            /\ outcome' = outcome \o ended
                 \o [i \in DOMAIN s.ran |-> [line |-> s.ran[i], refused |-> FALSE,
                                             edited |-> edited]]

Refused == [line |-> command_buffer, refused |-> TRUE, edited |-> edited]

\* Erasing a character that was echoed: "\b \b".
Erase(n) == FlattenSeq([i \in 1 .. n |-> <<"BackSpace", " ", "BackSpace">>])

\* Mutant: a line that is refused is not erased.
MutantRefuse(c) ==
    Sent(<<"Enter", "Enter">>, <<Refused>>)

\* A line that is refused is erased, and an empty one ended instead.
Refuse(c) ==
    Sent(Erase(Len(command_buffer)) \o <<"Enter", "Enter">>,
         <<Refused>>)

EndLine(c) ==
    /\ command_buffer' = <<>>
    /\ \/ /\ guac_ssh_acl_check_command(acl_rule, command_buffer)
          /\ Sent(<<c>>, <<>>)
       \/ /\ ~guac_ssh_acl_check_command(acl_rule, command_buffer)
          /\ Refuse(c)

EditLine(c) ==
    /\ command_buffer' =
            IF c = "BackSpace"
            THEN IF command_buffer = <<>> THEN <<>> ELSE Front(command_buffer)
            ELSE IF Len(command_buffer) < MaxCommand THEN Append(command_buffer, c)
            ELSE command_buffer
    /\ Sent(<<c>>, <<>>)

\* ssh_input_thread(): a character.
InputChar ==
    /\ session = "shell"
    /\ keys /= <<>>
    /\ keys' = Tail(keys)
    /\ edited' = (Head(keys) /= "Enter" /\ (edited \/ Head(keys) \in EditingKeys))
    /\ LET c == Head(keys)
       IN  IF acl_rule = NoRule
           THEN Sent(<<c>>, <<>>) /\ UNCHANGED command_buffer
           ELSE (c = "Enter" /\ EndLine(c)) \/ (c /= "Enter" /\ EditLine(c))
    /\ UNCHANGED <<read, acl, session, prompted, acl_rule, pressed, logger, log,
                   typists>>

SshNext ==
    \/ \E line \in FileLines : ReadLine(line)
    \/ Start \/ Prompt \/ InputChar
    \/ \E u \in Typists : \E k \in KeysOf[u] : guac_ssh_user_key_handler(u, k)
    \/ \E u \in Typists : guac_ssh_command_logger_free(u)

-----------------------------------------------------------------------------
(* Properties.                                                             *)

SshTypeOK ==
    /\ Len(acl.connection) <= MaxRules /\ Len(acl.user) <= MaxRules
    /\ Len(command_buffer) <= MaxCommand
    /\ \A u \in Typists : logger[u] /= NoLogger => Len(logger[u].buffer) <= MaxLogged

\* The lines between a section and the next.
Body(i) == {j \in i + 1 .. Len(read) :
                /\ read[j].type = "setting"
                /\ \A k \in i + 1 .. j : read[k].type = "setting"}

\* What sections say of a key: the last of them counts.
Said(sections, key) ==
    LET at == {j \in UNION {Body(i) : i \in sections} : read[j].key = key}
    IN  IF at = {} THEN {}
        ELSE read[CHOOSE j \in at : \A k \in at : k <= j].value

SectionsFor(of, name) ==
    {i \in DOMAIN read : read[i] = Section(of, name)}

Earliest(set) == {i \in set : \A j \in set : i <= j}

\* The rule of a connection is the one its file states for it: the first section
\* for the user, else the first for the account, else the first for the host,
\* else all the global sections; unless a section could not be noted.
RuleIsMostSpecific ==
    LET Sections(of) == {i \in DOMAIN read : read[i].type = "section"
                                               /\ read[i].of = of}
        chosen == CASE SectionsFor("user", <<GuacUser>>) /= {} ->
                            Earliest(SectionsFor("user", <<GuacUser>>))
                    [] SectionsFor("user", <<GuacUser>>) = {}
                       /\ SectionsFor("connection", <<Host, SshUser>>) /= {} ->
                            Earliest(SectionsFor("connection", <<Host, SshUser>>))
                    [] SectionsFor("user", <<GuacUser>>) = {}
                       /\ SectionsFor("connection", <<Host, SshUser>>) = {}
                       /\ SectionsFor("connection", <<Host>>) /= {} ->
                            Earliest(SectionsFor("connection", <<Host>>))
                    [] OTHER -> Sections("global")
    IN  (/\ Sections("unknown") = {}
         /\ Cardinality(Sections("user")) <= MaxRules
         /\ Cardinality(Sections("connection")) <= MaxRules) =>
            IF chosen = {} THEN acl_rule = NoRule
            ELSE acl_rule = [blacklist |-> Said(chosen, "blacklist"),
                             whitelist |-> Said(chosen, "whitelist")]

\* No line ever became longer than the buffers hold.
Fits ==
    /\ Len(shellLine) <= MaxLogged
    /\ \A i \in DOMAIN outcome : Len(outcome[i].line) <= MaxLogged

Within(text, pattern) ==
    \E i, j \in 1 .. Len(text) : i <= j /\ SubSeq(text, i, j) = pattern

\* The server runs no line that the rule of the connection forbids, whoever
\* typed which part of it and whatever was erased: the copy of the line is the
\* line of the server's editor, and a line that is refused leaves nothing there.
\* Excepted are lines that the server's editor completed or cleared: the copy
\* takes the key for a character (ssh.c:292), and the rule is asked about that.
OnlyAllowedRun ==
    (acl_rule /= NoRule /\ Fits) =>
        /\ session = "shell" /\ ~edited => command_buffer = shellLine
        /\ \A i \in DOMAIN outcome :
             (~outcome[i].refused /\ ~outcome[i].edited /\ ~Blank(outcome[i].line)) =>
                /\ \A p \in Infixes \cup acl_rule.blacklist :
                        ~Within(trim_whitespace(outcome[i].line), p)
                /\ acl_rule.whitelist /= {} =>
                        \E p \in acl_rule.whitelist : Within(outcome[i].line, p)

Ended == SelectSeq(outcome, LAMBDA o : ~Blank(o.line))

Complete == SelectSeq(log, LAMBDA e : e.complete)

\* What one user types is logged line by line as it was handled, and marked
\* restricted exactly when it was refused (where the user has no rule of their
\* own, by which it would be refused but not logged as restricted; and where no
\* line was completed or cleared, which the log does not follow either).
LoggedAsHandled ==
    (/\ \A i \in DOMAIN outcome : ~outcome[i].edited
     /\ Cardinality(typists) = 1 /\ ~prompted /\ keys = <<>> /\ Fits) =>
        /\ Len(Complete) = Len(Ended)
        /\ \A i \in DOMAIN Ended :
             /\ Complete[i].command = Ended[i].line
             /\ ~Names(acl.user, <<GuacUser>>) =>
                    (Complete[i].restricted <=> Ended[i].refused)
             /\ Complete[i].dangerous =>
                    ~Complete[i].restricted

=============================================================================
