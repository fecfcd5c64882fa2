--------------------------- MODULE PluginSettings ---------------------------
(***************************************************************************)
(* The arguments of a connection and the settings a plugin reads from      *)
(* them, for every plugin and build.  A user joins with a text for every   *)
(* argument (a blank one where nothing was configured); the settings are   *)
(* what <plugin>_parse_args() makes of the texts.  Here the texts are      *)
(* given one after the other, so that a step shows which settings a text   *)
(* determines.                                                             *)
(*                                                                         *)
(* First come the settings of the plugins that show a terminal: SSH,       *)
(* telnet and Kubernetes (settings.c and settings.h of each).              *)
(***************************************************************************)
EXTENDS GraphicalSettings

-----------------------------------------------------------------------------
(* SSH.                                                                    *)

SshArgs(build) ==
    <<"hostname", "host_key", "port", "timeout", "username", "password",
      "font_name", "font_size", "enable_sftp", "sftp_root_directory",
      "sftp_disable_download", "sftp_disable_upload", "private_key",
      "passphrase", "public_key">>
    \o When("SSH_AGENT", build,
      <<"enable_agent">>)
    \o <<"color_scheme", "command", "typescript_path", "typescript_name",
      "create_typescript_path", "typescript_write_existing",
      "recording_path", "recording_name", "recording_exclude_output",
      "recording_exclude_mouse", "recording_include_keys",
      "create_recording_path", "recording_write_existing", "read_only",
      "server_alive_interval", "backspace", "terminal_type", "scrollback",
      "locale", "timezone", "disable_copy", "disable_paste",
      "wol_send_packet", "wol_mac_addr", "wol_broadcast_addr",
      "wol_udp_port", "wol_wait_time">>

SshIndices1(build) ==
    <<"hostname", "host_key", "port", "timeout", "username", "password",
      "font_name", "font_size", "enable_sftp", "sftp_root_directory",
      "sftp_disable_download", "sftp_disable_upload", "private_key",
      "passphrase", "public_key">>
    \o When("SSH_AGENT", build,
      <<"enable_agent">>)
    \o <<"color_scheme", "command", "typescript_path", "typescript_name",
      "create_typescript_path", "typescript_write_existing",
      "recording_path", "recording_name", "recording_exclude_output">>

SshIndices2(build) ==
    <<"recording_exclude_mouse", "recording_include_keys",
      "create_recording_path", "recording_write_existing", "read_only",
      "server_alive_interval", "backspace", "terminal_type", "scrollback",
      "locale", "timezone", "disable_copy", "disable_paste",
      "wol_send_packet", "wol_mac_addr", "wol_broadcast_addr",
      "wol_udp_port", "wol_wait_time">>

SshIndices(build) ==
    SshIndices1(build) \o SshIndices2(build)

SshParse1(A, info, build) ==
    Flags(A, {"enable_sftp", "sftp_disable_download",
                  "sftp_disable_upload", "read_only",
                  "create_typescript_path", "typescript_write_existing",
                  "recording_exclude_output", "recording_exclude_mouse"})
    @@ Texts(A, {"host_key", "username", "password", "command",
                  "typescript_path", "recording_path"})
    @@ [hostname |-> String(A.hostname, ""),
        key_base64 |-> String(A.private_key, NULL),
        key_passphrase |-> String(A.passphrase, NULL),
        public_key_base64 |-> String(A.public_key, NULL),
        max_scrollback |-> Number(A.scrollback, "1000"),
        font_name |-> String(A.font_name, "monospace"),
        font_size |-> Number(A.font_size, "12"),
        color_scheme |-> String(A.color_scheme, ""),
        width |-> ToString(info.width),
        height |-> ToString(info.height),
        resolution |-> ToString(info.dpi),
        sftp_root_directory |-> String(A.sftp_root_directory, "/"),
        port |-> String(A.port, "22"),
        timeout |-> Number(A.timeout, "10"),
        typescript_name |-> String(A.typescript_name, "typescript"),
        recording_name |-> String(A.recording_name, "recording")]
    @@ Given("SSH_AGENT", build,
        Flags(A, {"enable_agent"}))

SshParse2(A, info, build) ==
    Flags(A, {"recording_include_keys", "create_recording_path",
                  "recording_write_existing", "disable_copy", "disable_paste"})
    @@ Texts(A, {"locale"})
    @@ [server_alive_interval |-> Number(A.server_alive_interval, "0"),
        backspace |-> Number(A.backspace, "127"),
        terminal_type |-> String(A.terminal_type, "linux"),
        timezone |-> String(A.timezone, info.timezone),
        guacamole_username |-> info.name]

guac_ssh_parse_args(A, info, build) ==
    SshParse1(A, info, build)
    @@ SshParse2(A, info, build) @@ WakeOnLan(A)
        @@ [acl_config |-> info.acl,
            acl_rule |-> IF info.acl = NULL THEN NULL ELSE info.rule]

SshStruct1(build) ==
    Declared("char*", {"hostname", "host_key", "port", "username", "password",
           "key_base64", "key_passphrase", "public_key_base64", "command",
           "font_name", "color_scheme", "sftp_root_directory"})
    @@ Declared("int",
           {"timeout", "max_scrollback", "font_size", "width", "height",
           "resolution"})
    @@ Declared("bool",
           {"read_only", "disable_copy", "disable_paste", "enable_sftp",
           "sftp_disable_download", "sftp_disable_upload"})
    @@ Given("SSH_AGENT", build,
        Declared("bool", {"enable_agent"}))

SshStruct2(build) ==
    Declared("char*", {"typescript_path", "typescript_name", "recording_path",
           "recording_name", "terminal_type", "locale", "timezone",
           "wol_mac_addr", "wol_broadcast_addr", "guacamole_username"})
    @@ Declared("bool", {"create_typescript_path", "typescript_write_existing",
           "create_recording_path", "recording_exclude_output",
           "recording_exclude_mouse", "recording_include_keys",
           "recording_write_existing", "wol_send_packet"})
    @@ Declared("int", {"server_alive_interval", "backspace", "wol_udp_port",
           "wol_wait_time"})
    @@ Declared("guac_ssh_acl_config*", {"acl_config"})
    @@ Declared("guac_ssh_acl_rule*", {"acl_rule"})

SshStruct(build) ==
    SshStruct1(build) @@ SshStruct2(build)

guac_ssh_settings_free(build) ==
    {"hostname", "host_key", "port", "username", "password", "key_base64",
     "key_passphrase", "public_key_base64", "font_name", "color_scheme",
     "command", "sftp_root_directory", "typescript_name", "typescript_path",
     "recording_name", "recording_path", "terminal_type", "locale",
     "timezone", "wol_mac_addr", "wol_broadcast_addr", "guacamole_username"}

-----------------------------------------------------------------------------
(* Telnet.                                                                 *)

\* guac_telnet_compile_regex(): "(" stands for what cannot be compiled.
Regex(pattern) == IF pattern = "(" THEN NULL ELSE pattern

\* A pattern for success is dropped without one for failure, and conversely.
BothOrNone(A, v) ==
    IF \E w \in {A.login_success_regex, A.login_failure_regex} : w \in {"", "("}
    THEN NULL ELSE v

TelnetArgs(build) ==
    <<"hostname", "port", "timeout", "username", "username_regex",
      "password", "password_regex", "font_name", "font_size", "color_scheme",
      "typescript_path", "typescript_name", "create_typescript_path",
      "typescript_write_existing", "recording_path", "recording_name",
      "recording_exclude_output", "recording_exclude_mouse",
      "recording_include_keys", "create_recording_path",
      "recording_write_existing", "read_only", "backspace", "terminal_type",
      "scrollback", "login_success_regex", "login_failure_regex",
      "disable_copy", "disable_paste", "wol_send_packet", "wol_mac_addr",
      "wol_broadcast_addr", "wol_udp_port", "wol_wait_time">>

TelnetIndices1(build) ==
    <<"hostname", "port", "timeout", "username", "username_regex",
      "password", "password_regex", "font_name", "font_size", "color_scheme",
      "typescript_path", "typescript_name", "create_typescript_path",
      "typescript_write_existing", "recording_path", "recording_name",
      "recording_exclude_output", "recording_exclude_mouse",
      "recording_include_keys", "create_recording_path",
      "recording_write_existing", "read_only", "backspace">>

TelnetIndices2(build) ==
    <<"terminal_type", "scrollback", "login_success_regex",
      "login_failure_regex", "disable_copy", "disable_paste",
      "wol_send_packet", "wol_mac_addr", "wol_broadcast_addr",
      "wol_udp_port", "wol_wait_time">>

TelnetIndices(build) ==
    TelnetIndices1(build) \o TelnetIndices2(build)

TelnetParse1(A, info, build) ==
    Flags(A, {"read_only", "create_typescript_path",
                  "typescript_write_existing", "recording_exclude_output",
                  "recording_exclude_mouse", "recording_include_keys"})
    @@ Texts(A, {"username", "password", "typescript_path", "recording_path"})
    @@ [hostname |-> String(A.hostname, ""),
        username_regex |-> IF A.username = "" THEN NULL
                         ELSE Regex(String(A.username_regex, "[Ll]ogin:")),
        password_regex |-> IF A.password = "" THEN NULL
                         ELSE Regex(String(A.password_regex, "[Pp]assword:")),
        login_success_regex |-> BothOrNone(A, A.login_success_regex),
        login_failure_regex |-> BothOrNone(A, A.login_failure_regex),
        max_scrollback |-> Number(A.scrollback, "1000"),
        font_name |-> String(A.font_name, "monospace"),
        font_size |-> Number(A.font_size, "12"),
        color_scheme |-> String(A.color_scheme, ""),
        width |-> ToString(info.width),
        height |-> ToString(info.height),
        resolution |-> ToString(info.dpi),
        port |-> String(A.port, "23"),
        timeout |-> Number(A.timeout, "10"),
        typescript_name |-> String(A.typescript_name, "typescript"),
        recording_name |-> String(A.recording_name, "recording")]

TelnetParse2(A, info, build) ==
    Flags(A, {"create_recording_path", "recording_write_existing",
                  "disable_copy", "disable_paste"})
    @@ [backspace |-> Number(A.backspace, "127"),
        terminal_type |-> String(A.terminal_type, "linux")]

guac_telnet_parse_args(A, info, build) ==
    TelnetParse1(A, info, build)
    @@ TelnetParse2(A, info, build) @@ WakeOnLan(A)

TelnetStruct1(build) ==
    Declared("char*", {"hostname", "port", "username", "password", "font_name",
           "color_scheme", "typescript_path", "typescript_name",
           "recording_path", "recording_name"})
    @@ Declared("int",
           {"timeout", "max_scrollback", "font_size", "width", "height",
           "resolution"})
    @@ Declared("regex_t*",
           {"username_regex", "password_regex", "login_success_regex",
           "login_failure_regex"})
    @@ Declared("bool", {"read_only", "disable_copy", "disable_paste",
           "create_typescript_path", "typescript_write_existing"})

TelnetStruct2(build) ==
    Declared("bool", {"create_recording_path", "recording_exclude_output",
           "recording_exclude_mouse", "recording_include_keys",
           "recording_write_existing", "wol_send_packet"})
    @@ Declared("int", {"backspace", "wol_udp_port", "wol_wait_time"})
    @@ Declared("char*",
           {"terminal_type", "wol_mac_addr", "wol_broadcast_addr"})

TelnetStruct(build) ==
    TelnetStruct1(build) @@ TelnetStruct2(build)

guac_telnet_settings_free(build) ==
    {"hostname", "port", "username", "password", "font_name", "color_scheme",
     "typescript_name", "typescript_path", "recording_name",
     "recording_path", "terminal_type", "wol_mac_addr", "wol_broadcast_addr"}

-----------------------------------------------------------------------------
(* Kubernetes.                                                             *)

KubernetesArgs(build) ==
    <<"hostname", "port", "namespace", "pod", "container", "exec_command",
      "use_ssl", "client_cert", "client_key", "ca_cert", "ignore_cert",
      "font_name", "font_size", "color_scheme", "typescript_path",
      "typescript_name", "create_typescript_path",
      "typescript_write_existing", "recording_path", "recording_name",
      "recording_exclude_output", "recording_exclude_mouse",
      "recording_include_keys", "create_recording_path",
      "recording_write_existing", "read_only", "backspace", "scrollback",
      "disable_copy", "disable_paste">>

KubernetesIndices1(build) ==
    <<"hostname", "port", "namespace", "pod", "container", "exec_command",
      "use_ssl", "client_cert", "client_key", "ca_cert", "ignore_cert",
      "font_name", "font_size", "color_scheme", "typescript_path",
      "typescript_name", "create_typescript_path",
      "typescript_write_existing", "recording_path", "recording_name",
      "recording_exclude_output", "recording_exclude_mouse">>

KubernetesIndices2(build) ==
    <<"recording_include_keys", "create_recording_path",
      "recording_write_existing", "read_only", "backspace", "scrollback",
      "disable_copy", "disable_paste">>

KubernetesIndices(build) ==
    KubernetesIndices1(build) \o KubernetesIndices2(build)

KubernetesParse1(A, info, build) ==
    Flags(A, {"use_ssl", "read_only", "create_typescript_path",
                  "typescript_write_existing", "recording_exclude_output",
                  "recording_exclude_mouse", "recording_include_keys",
                  "create_recording_path", "recording_write_existing"})
    @@ Texts(A, {"exec_command", "typescript_path", "recording_path"})
    @@ [hostname |-> String(A.hostname, ""),
        port |-> Number(A.port, "8080"),
        kubernetes_namespace |-> String(A.namespace, "default"),
        kubernetes_pod |-> String(A.pod, NULL),
        kubernetes_container |-> String(A.container, NULL),
        client_cert |-> IF Boolean(A.use_ssl, "false") = "true"
                THEN String(A.client_cert, NULL) ELSE NULL,
        client_key |-> IF Boolean(A.use_ssl, "false") = "true"
                THEN String(A.client_key, NULL) ELSE NULL,
        ca_cert |-> IF Boolean(A.use_ssl, "false") = "true"
                THEN String(A.ca_cert, NULL) ELSE NULL,
        ignore_cert |-> IF Boolean(A.use_ssl, "false") = "true"
                THEN Boolean(A.ignore_cert, "false") ELSE "false",
        max_scrollback |-> Number(A.scrollback, "1000"),
        font_name |-> String(A.font_name, "monospace"),
        font_size |-> Number(A.font_size, "12"),
        color_scheme |-> String(A.color_scheme, ""),
        width |-> ToString(info.width),
        height |-> ToString(info.height),
        resolution |-> ToString(info.dpi),
        typescript_name |-> String(A.typescript_name, "typescript"),
        recording_name |-> String(A.recording_name, "recording")]

KubernetesParse2(A, info, build) ==
    Flags(A, {"disable_copy", "disable_paste"})
    @@ [backspace |-> Number(A.backspace, "127")]

guac_kubernetes_parse_args(A, info, build) ==
    KubernetesParse1(A, info, build)
    @@ KubernetesParse2(A, info, build)

KubernetesStruct1(build) ==
    Declared("char*", {"hostname", "kubernetes_namespace", "kubernetes_pod",
           "kubernetes_container", "exec_command", "client_cert",
           "client_key", "ca_cert", "font_name", "color_scheme",
           "typescript_path", "typescript_name"})
    @@ Declared("int",
           {"port", "max_scrollback", "font_size", "width", "height",
           "resolution"})
    @@ Declared("bool", {"use_ssl", "ignore_cert", "read_only", "disable_copy",
           "disable_paste", "create_typescript_path",
           "typescript_write_existing"})

KubernetesStruct2(build) ==
    Declared("char*", {"recording_path", "recording_name"})
    @@ Declared("bool", {"create_recording_path", "recording_exclude_output",
           "recording_exclude_mouse", "recording_include_keys",
           "recording_write_existing"})
    @@ Declared("int", {"backspace"})

KubernetesStruct(build) ==
    KubernetesStruct1(build) @@ KubernetesStruct2(build)

guac_kubernetes_settings_free(build) ==
    {"hostname", "kubernetes_namespace", "kubernetes_pod",
     "kubernetes_container", "exec_command", "client_cert", "client_key",
     "ca_cert", "font_name", "color_scheme", "typescript_name",
     "typescript_path", "recording_name", "recording_path"}

-----------------------------------------------------------------------------

CONSTANTS
    Builds,   \* sets of features that are built together
    Displays  \* what users tell about themselves in the handshake

VARIABLES
    plugin,   \* the plugin of the connection, "none" before anybody joins
    build,    \* the features of this build
    info,     \* what the user told in the handshake
    given,    \* argument -> text
    settings  \* what the plugin read

settingsVars == <<plugin, build, info, given, settings>>

Plugins == {"rdp", "vnc", "ssh", "telnet", "kubernetes"}

\* The names told to the client ...
Args(p, b) ==
    CASE p = "rdp"        -> RdpArgs(b)
      [] p = "vnc"        -> VncArgs(b)
      [] p = "ssh"        -> SshArgs(b)
      [] p = "telnet"     -> TelnetArgs(b)
      [] p = "kubernetes" -> KubernetesArgs(b)

\* ... and the indices at which the texts are looked up.
Indices(p, b) ==
    CASE p = "rdp"        -> RdpIndices(b)
      [] p = "vnc"        -> VncIndices(b)
      [] p = "ssh"        -> SshIndices(b)
      [] p = "telnet"     -> TelnetIndices(b)
      [] p = "kubernetes" -> KubernetesIndices(b)

\* The text found at an index is the one given for the name at that position.
ByIndex(p, b, texts) ==
    LET idx == Indices(p, b)
    IN  [n \in ToSet(idx) |->
            texts[Args(p, b)[CHOOSE i \in DOMAIN idx : idx[i] = n]]]

\* The settings are NULL unless there is a text for every index.
Parsed(p, b, i, texts) ==
    IF Len(Args(p, b)) /= Len(Indices(p, b)) THEN None
    ELSE LET A == ByIndex(p, b, texts)
         IN  CASE p = "rdp"        -> guac_rdp_parse_args(A, i, b)
               [] p = "vnc"        -> guac_vnc_parse_args(A, i, b)
               [] p = "ssh"        -> guac_ssh_parse_args(A, i, b)
               [] p = "telnet"     -> guac_telnet_parse_args(A, i, b)
               [] p = "kubernetes" -> guac_kubernetes_parse_args(A, i, b)

Struct(p, b) ==
    CASE p = "rdp"        -> RdpStruct(b)
      [] p = "vnc"        -> VncStruct(b)
      [] p = "ssh"        -> SshStruct(b)
      [] p = "telnet"     -> TelnetStruct(b)
      [] p = "kubernetes" -> KubernetesStruct(b)

Freed(p, b) ==
    CASE p = "rdp"        -> guac_rdp_settings_free(b)
      [] p = "vnc"        -> guac_vnc_settings_free(b)
      [] p = "ssh"        -> guac_ssh_settings_free(b)
      [] p = "telnet"     -> guac_telnet_settings_free(b)
      [] p = "kubernetes" -> guac_kubernetes_settings_free(b)

-----------------------------------------------------------------------------
(* The meaning of the arguments.                                           *)

NumberArgs ==
    {"port", "timeout", "dpi", "color_depth", "sftp_timeout",
     "sftp_server_alive_interval", "gateway_port", "wol_udp_port",
     "wol_wait_time", "autoretry", "compress_level", "quality_level",
     "dest_port", "listen_timeout", "font_size", "scrollback",
     "server_alive_interval", "backspace", "width", "height",
     "preconnection_id"}

\* Flags are recognised by their names, as a user would.
FlagArgs ==
    {"disable_audio", "enable_printing", "enable_drive", "create_drive_path",
     "disable_download", "disable_upload", "console", "console_audio",
     "ignore_cert", "cert_tofu", "disable_auth", "enable_wallpaper",
     "enable_theming", "enable_font_smoothing", "enable_full_window_drag",
     "enable_desktop_composition", "enable_menu_animations",
     "disable_bitmap_caching", "disable_offscreen_caching", "disable_gfx",
     "enable_sftp", "sftp_disable_download", "sftp_disable_upload",
     "recording_exclude_output", "recording_exclude_mouse",
     "recording_exclude_touch", "recording_include_keys",
     "create_recording_path", "recording_write_existing",
     "enable_audio_input", "enable_touch", "read_only", "disable_copy",
     "disable_paste", "wol_send_packet", "force_lossless",
     "disable_display_resize", "swap_red_blue", "enable_audio",
     "reverse_connect", "disable_server_input", "enable_agent",
     "create_typescript_path", "typescript_write_existing", "use_ssl"}

Options ==
    [security |-> {"nla", "tls", "rdp", "vmconnect", "nla-ext"},
     server_layout |-> {"de-de-qwertz"}, cursor |-> {"remote"},
     resize_method |-> {"reconnect", "display-update"},
     normalize_clipboard |-> {"unix", "windows"},
     login_success_regex |-> {"pattern", "("},
     login_failure_regex |-> {"pattern", "("}]

\* Texts of an argument: some it accepts and one that is not for it.
Samples(a) ==
    {"text"} \cup
    CASE a \in NumberArgs      -> {"3", "-1", "70000"}
      [] a \in FlagArgs        -> {"true", "false"}
      [] a \in DOMAIN Options  -> Options[a]
      [] a = "disable_glyph_caching" -> {"true", "false"}
      [] OTHER                 -> {}

\* The setting an argument is for, where it has another name.
Renamed ==
    [rdp |-> [ignore_cert |-> "ignore_certificate",
        cert_tofu |-> "certificate_tofu",
        cert_fingerprints |-> "certificate_fingerprints",
        disable_auth |-> "disable_authentication", dpi |-> "resolution",
        force_lossless |-> "lossless", enable_wallpaper |-> "wallpaper_enabled",
        enable_theming |-> "theming_enabled",
        enable_font_smoothing |-> "font_smoothing_enabled",
        enable_full_window_drag |-> "full_window_drag_enabled",
        enable_desktop_composition |-> "desktop_composition_enabled",
        enable_menu_animations |-> "menu_animations_enabled",
        enable_printing |-> "printing_enabled", enable_drive |-> "drive_enabled",
        disable_audio |-> "audio_enabled", disable_gfx |-> "enable_gfx",
        static_channels |-> "svc_names", security |-> "security_mode"],
     vnc |-> [force_lossless |-> "lossless", autoretry |-> "retries",
        enable_audio |-> "audio_enabled", audio_servername |-> "pa_servername",
        cursor |-> "remote_cursor"],
     ssh |-> [private_key |-> "key_base64", passphrase |-> "key_passphrase",
        public_key |-> "public_key_base64", scrollback |-> "max_scrollback"],
     telnet |-> [scrollback |-> "max_scrollback"],
     kubernetes |-> [namespace |-> "kubernetes_namespace",
        pod |-> "kubernetes_pod", container |-> "kubernetes_container",
        scrollback |-> "max_scrollback"]]

Meant(p, a) == IF a \in DOMAIN Renamed[p] THEN Renamed[p][a] ELSE a

\* What an argument needs to be given before it says anything.
Needs(p, a) ==
    CASE a \in {"wol_mac_addr", "wol_broadcast_addr", "wol_udp_port",
                "wol_wait_time"} -> {"wol_send_packet"}
      [] a = "wol_send_packet" -> {"wol_mac_addr"}
      [] p = "kubernetes" /\ a \in {"client_cert", "client_key", "ca_cert",
                                    "ignore_cert"} -> {"use_ssl"}
      [] a = "audio_servername" -> {"enable_audio"}
      [] a = "username_regex" -> {"username"}
      [] a = "password_regex" -> {"password"}
      [] a = "login_success_regex" -> {"login_failure_regex"}
      [] a = "login_failure_regex" -> {"login_success_regex"}
      [] OTHER -> {}

\* The settings whose value depends on another argument as well.
AlsoFor(p, a) ==
    CASE a = "hostname" /\ p \in {"rdp", "vnc"} -> {"sftp_hostname"}
      [] a = "username" /\ p = "rdp" -> {"sftp_username"}
      [] a = "username" /\ p = "telnet" -> {"username_regex"}
      [] a = "password" /\ p = "telnet" -> {"password_regex"}
      [] a = "security" -> {"port"}
      [] a = "disable_gfx" -> {"color_depth"}
      [] a = "dpi" -> {"width", "height"}
      [] a = "normalize_clipboard" -> {"clipboard_crlf"}
      [] a = "enable_audio" -> {"pa_servername"}
      [] a = "use_ssl" -> {"client_cert", "client_key", "ca_cert", "ignore_cert"}
      [] a = "wol_send_packet" ->
            {"wol_mac_addr", "wol_broadcast_addr", "wol_udp_port",
             "wol_wait_time"}
      [] a = "wol_mac_addr" -> {"wol_send_packet"}
      [] a = "login_success_regex" -> {"login_failure_regex"}
      [] a = "login_failure_regex" -> {"login_success_regex"}
      [] OTHER -> {}

\* What the setting must be when an argument was given a text it accepts.
Expected(p, a, v) ==
    CASE a \in {"disable_audio", "disable_gfx"} -> Not(v)
      [] a = "security" -> SecurityMode(v)
      [] a = "resize_method" -> ResizeMethod(v)
      [] a \in {"cursor", "normalize_clipboard"} -> "true"
      [] a = "wol_udp_port" -> ToString(Numerals[v] % 65536)
      [] a = "width" -> IF v = "-1" THEN "1024"
                        ELSE ToString(Numerals[v] - (Numerals[v] % 4))
      [] a = "height" -> IF v = "-1" THEN "768" ELSE v
      [] OTHER -> v

Accepted(p, a) ==
    CASE a = "disable_glyph_caching" -> {}
      [] a \in {"width", "height"} /\ p /= "rdp" -> {}
      [] a \in NumberArgs \cup FlagArgs -> Samples(a) \ {"text"}
      [] a \in DOMAIN Options -> Options[a] \ {"("}
      [] OTHER -> Samples(a)

-----------------------------------------------------------------------------

SettingsInit ==
    /\ plugin = "none"
    /\ build = {}
    /\ info = None
    /\ given = None
    /\ settings = None

\* A user joins with nothing configured.
Join(p, b, i) ==
    /\ plugin = "none"
    /\ plugin' = p
    /\ build' = b
    /\ info' = i
    /\ given' = [a \in ToSet(Args(p, b)) |-> ""]
    /\ settings' = Parsed(p, b, i, given')

GivenArgs == {a \in DOMAIN given : given[a] /= ""}

\* An argument is given; a second one where the first could matter to it.
Give(a, v) ==
    /\ given[a] = ""
    /\ \/ GivenArgs = {}
       \/ /\ Cardinality(GivenArgs) = 1
          /\ \E f \in GivenArgs : \/ f \in Needs(plugin, a)
                                  \/ Meant(plugin, a) \in AlsoFor(plugin, f)
    /\ given' = [given EXCEPT ![a] = v]
    /\ settings' = Parsed(plugin, build, info, given')
    /\ UNCHANGED <<plugin, build, info>>

SettingsNext ==
    \/ \E p \in Plugins, b \in Builds, i \in Displays : Join(p, b, i)
    \/ \E a \in DOMAIN given : \E v \in Samples(a) : Give(a, v)

-----------------------------------------------------------------------------
(* Properties.                                                             *)

\* Every setting of the structure is set, in every build, and nothing else is:
\* a plugin whose list of arguments and enumeration have come apart refuses
\* every user (guac_rdp_parse_args() and its siblings return NULL).
SettingsTypeOK ==
    plugin \in Plugins =>
        /\ DOMAIN settings = DOMAIN Struct(plugin, build)
        /\ given \in [ToSet(Args(plugin, build)) -> STRING]

\* Whatever text is given for an argument that accepts it is found in the
\* setting that argument is for.  The names sent to the client, the enumeration
\* of indices and the code that reads them are three lists kept apart, with
\* parts of each compiled only in some builds.
SettingsAsGiven ==
    \A a \in GivenArgs :
        (/\ given[a] \in Accepted(plugin, a)
         /\ \A n \in Needs(plugin, a) : given[n] \in Accepted(plugin, n)
         /\ "wol_send_packet" \in Needs(plugin, a) =>
                given["wol_send_packet"] = "true"
         /\ \A n \in Needs(plugin, a) \cap {"use_ssl", "enable_audio"} :
                given[n] = "true")
        => settings[Meant(plugin, a)] = Expected(plugin, a, given[a])

\* Every text the settings own is released with them, in every build.
TextsReleased ==
    plugin \in Plugins =>
        {f \in DOMAIN Struct(plugin, build) :
            Struct(plugin, build)[f] \in {"char*", "char**"}}
          = Freed(plugin, build)

\* The two ways of passing the settings to FreeRDP, one for each of its
\* versions, tell it the same, but for the timeout (which only the older one
\* passes).
PushesAgree ==
    plugin = "rdp" =>
        \A fips \in BOOLEAN :
            LET new == guac_rdp_push_settings(settings, fips)
                old == AssignSettings(settings, fips)
            IN  /\ DOMAIN new = DOMAIN old \ {"TcpAckTimeout"}
                /\ \A k \in DOMAIN new : new[k] = old[k]

\* Giving an argument changes the setting it is for, and those that default to
\* it, and no other.
GivenOnlyWhereMeant ==
    [][\A a \in DOMAIN given :
        given'[a] /= given[a] =>
            \A f \in DOMAIN settings :
                settings'[f] /= settings[f] =>
                    f \in {Meant(plugin, a)} \cup AlsoFor(plugin, a)]_settingsVars

\* In every build, every setting is read from the argument of its name and from
\* no other, is set once, is released with the settings, and is the same by
\* either of FreeRDP's interfaces.
SettingsSound ==
  /\ [](SettingsTypeOK /\ SettingsAsGiven /\ TextsReleased /\ PushesAgree)
  /\ GivenOnlyWhereMeant

=============================================================================
