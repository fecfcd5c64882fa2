----------------------------- MODULE MCPlugins -----------------------------
(***************************************************************************)
(* The protocol plugins: their settings, the life of their sessions, and   *)
(* what passes between a terminal and its server.  The parts share no      *)
(* state; each behaviour is one of one of them, the others staying as they *)
(* begin.                                                                  *)
(***************************************************************************)
EXTENDS PluginSettings, TextSessions, GraphicalSessions, SshCommands, SftpFiles

VARIABLE part

MCBuilds == {{}, {"COMMON_SSH"}, {"PULSE", "VNC_REPEATER"},
             {"COMMON_SSH", "VNC_REPEATER", "PULSE", "VNC_LISTEN", "SSH_AGENT"}}

MCDisplays ==
    {[width |-> 1024, height |-> 770, dpi |-> 96, timezone |-> NULL,
      name |-> NULL, acl |-> NULL, rule |-> NULL],
     [width |-> 2049, height |-> 1500, dpi |-> 240, timezone |-> "UTC",
      name |-> "user", acl |-> "acl", rule |-> "rule"]}

Config(wol, recording, sftp, paste, readonly) ==
    [wol |-> wol, recording |-> recording, sftp |-> sftp, paste |-> paste,
     readonly |-> readonly]

MCConfigs == {Config(FALSE, FALSE, FALSE, FALSE, {}),
              Config(FALSE, TRUE, FALSE, TRUE, Guests),
              Config(TRUE, FALSE, FALSE, TRUE, {}),
              Config(FALSE, FALSE, TRUE, FALSE, Guests),
              Config(TRUE, TRUE, TRUE, TRUE, {})}

MCSetups == {{}, {"wol", "recording", "microphone"}, {"sftp", "drive", "readonly"},
             {"prompt", "print", "audio"}}

Blacklisted(p) == Setting("blacklist", {p})
Whitelisted(p) == Setting("whitelist", {p})

MCFileLines ==
    {Section("global", <<>>), Section("connection", <<"host">>),
     Section("connection", <<"host", "root">>), Section("user", <<"guac">>),
     Section("user", <<"other">>), Section("unknown", <<>>),
     Blacklisted(<<"a">>), Blacklisted(<<"a", "a">>), Whitelisted(<<"a">>)}

MCAclFiles ==
    {<<>>, <<Section("global", <<>>), Blacklisted(<<"a">>)>>,
     <<Section("user", <<"guac">>), Whitelisted(<<"a">>), Blacklisted(<<"a", "a">>)>>,
     <<Section("connection", <<"host", "root">>), Whitelisted(<<"a">>)>>}

MCKeysOf == [owner |-> {"a", "Enter", "BackSpace", "Tab"}, guest |-> {" ", "Ctrl-U"}]
MCCompletions == {<<>>, <<"a">>}

MCOpenings == {<<"a", " ">>}
MCInfixes == {<<" ", "a">>}
MCDangerous == {<<"a">>}

Dir == [kind |-> "dir"]
File(n) == [kind |-> "file", data |-> [i \in 1 .. n |-> <<0, i>>]]
Link(to) == [kind |-> "link", to |-> to]

MCServerTree ==
    <<>> :> Dir @@ <<"f">> :> File(1) @@ <<"h">> :> Dir @@ <<"h", "f">> :> File(2)
    @@ <<"h", "d">> :> Dir @@ <<"h", "d", "f">> :> File(0)
    @@ <<"h", "l">> :> Link(<<"h", "d">>) @@ <<"h", "o">> :> Link(<<"f">>)

MCHome == <<"h">>

Shared(root, download, upload) ==
    [root_path |-> root, disable_download |-> ~download, disable_upload |-> ~upload]

MCFilesystems ==
    {Shared(<<"", "">>, TRUE, TRUE), Shared(<<"", "h", "">>, TRUE, TRUE),
     Shared(<<"", "h", ".">>, FALSE, TRUE), Shared(<<"", "x", "..">>, TRUE, FALSE),
     Shared(<<"h">>, TRUE, TRUE)}

MCObjectNames == {<<"", "..", "f">>, <<"", "h", "l">>, <<"", "o">>,
                  <<"", "d", "..", ".">>, <<"f">>, <<"", "n", "n", "n">>}
MCTerminalPaths == {<<"f">>, <<"", "h">>}

-----------------------------------------------------------------------------
(* The parts that are not looked at.                                       *)

TextIdle == /\ TextInit /\ tx = "ssh"
            /\ config = Config(FALSE, FALSE, FALSE, FALSE, {})

GraphicalIdle == GraphicalInit /\ gx = "vnc" /\ setup = {}

Parts == {"settings", "text", "telnet", "queue", "graphical", "commands",
          "files"}

Init ==
    /\ part \in Parts
    /\ SettingsInit
    /\ IF part = "text" THEN TextInit ELSE TextIdle
    /\ TelnetInit /\ (part /= "telnet" => initial = {})
    /\ QueueInit
    /\ SshInit
    /\ SftpInit
    /\ part /= "files" =>
         filesystem = guac_common_ssh_create_sftp_filesystem(Shared(<<"", "">>, TRUE, TRUE))
    /\ IF part = "graphical" THEN GraphicalInit ELSE GraphicalIdle

\* A step of one part; the others stay as they are.
Others(p) ==
    /\ part = p
    /\ UNCHANGED part
    /\ p /= "settings" => UNCHANGED settingsVars
    /\ p /= "text" => UNCHANGED txVars
    /\ p /= "telnet" => UNCHANGED telnetVars
    /\ p /= "queue" => UNCHANGED queueVars
    /\ p /= "graphical" => UNCHANGED gVars
    /\ p /= "commands" => UNCHANGED sshVars
    /\ p /= "files" => UNCHANGED sftpVars

Next ==
    \/ Others("settings") /\ SettingsNext
    \/ Others("text") /\ TextNext
    \/ Others("telnet") /\ TelnetNext
    \/ Others("queue") /\ QueueNext
    \/ Others("graphical") /\ GraphicalNext
    \/ Others("commands") /\ SshNext
    \/ Others("files") /\ SftpNext

vars == <<part, settingsVars, txVars, telnetVars, queueVars, gVars,
          sshVars, sftpVars>>

Spec == /\ Init /\ [][Next]_vars
        /\ TextFairness /\ GraphicalFairness
        /\ WF_queueVars(part = "queue" /\ Established)
        /\ WF_queueVars(guac_kubernetes_write_pending_message)

\* On the server of an SSH session: the rule applied is the most specific of the
\* file, only commands it allows are run, and each is logged as it was handled;
\* every handle is closed or known to be kept, nothing outside of the root is
\* named, files arrive whole and listings name what is there.
CommandsSound ==
  /\ SshTypeOK
  /\ RuleIsMostSpecific
  /\ OnlyAllowedRun
  /\ LoggedAsHandled
  /\ SftpSound

\* Freeing a session ends, in every plugin, except in the states known to block
\* it, and messages accepted for Kubernetes are sent.
SessionsEnd ==
  /\ FreeingEnds
  /\ GraphicalFreeingEnds
  /\ MessagesDelivered

=============================================================================
