------------------------- MODULE GraphicalSettings --------------------------
(***************************************************************************)
(* How the plugins read the arguments a user's "connect" gives them        *)
(* (libguac/user.c).  The client is told the names of the arguments and    *)
(* answers with one text per name, in that order; a plugin reads the text  *)
(* at an index of an enumeration that is written separately and must list  *)
(* the arguments in the same order, in every build.                        *)
(*                                                                         *)
(* All settings are texts here: a number is the text of the number, a flag *)
(* is "true" or "false".  Names are written with "_" for "-".  A build is  *)
(* the set of features that were found when it was configured.             *)
(*                                                                         *)
(* The settings of the RDP and VNC plugins (settings.c, settings.h of      *)
(* protocols/rdp and protocols/vnc, resolution.c): the arguments and their *)
(* indices, how each setting is read, the structure they are kept in, what *)
(* is freed with it, and what FreeRDP is told, by either of its two        *)
(* interfaces.                                                             *)
(***************************************************************************)
EXTENDS Integers, Sequences, FiniteSets, SequencesExt, TLC

NULL == "NULL"

\* Of the texts used as arguments, those that are numbers.
Numerals == ("-1" :> -1) @@ ("3" :> 3) @@ ("70000" :> 70000)

\* atoi(), which reads anything else as zero.
atoi(v) == IF v \in DOMAIN Numerals THEN Numerals[v] ELSE 0

Truth(b) == IF b THEN "true" ELSE "false"

Not(flag) == Truth(flag /= "true")

\* guac_user_parse_args_string()
String(v, default) == IF v = "" THEN default ELSE v

\* guac_user_parse_args_int(): anything but a number is as good as a blank.
Number(v, default) == IF v \in DOMAIN Numerals THEN v ELSE default

\* guac_user_parse_args_boolean()
Boolean(v, default) == IF v \in {"true", "false"} THEN v ELSE default

\* Flags that are false, and texts that are NULL, unless they are given under
\* their own name.
Flags(A, names) == [n \in names |-> Boolean(A[n], "false")]

Texts(A, names) == [n \in names |-> String(A[n], NULL)]

\* The part of an array or of a structure that only some builds have.
When(feature, build, names) == IF feature \in build THEN names ELSE <<>>

Given(feature, build, record) ==
    IF feature \in build THEN record ELSE [n \in {} |-> ""]

Declared(type, names) == [n \in names |-> type]

\* The settings of wake-on-LAN, which four plugins read in the same way: nothing
\* is read unless a packet is wanted, and none is sent without an address.
WakeOnLan(A) ==
    LET wanted == Boolean(A.wol_send_packet, "false") = "true"
        port   == Number(A.wol_udp_port, "9")
    IN  [wol_send_packet |-> Truth(wanted /\ A.wol_mac_addr /= ""),
         wol_mac_addr |-> IF wanted THEN String(A.wol_mac_addr, NULL) ELSE NULL,
         wol_broadcast_addr |->
            IF wanted THEN String(A.wol_broadcast_addr, "255.255.255.255")
            ELSE NULL,
         wol_udp_port |-> IF wanted THEN ToString(IF port \in DOMAIN Numerals
                                                  THEN Numerals[port] % 65536
                                                  ELSE 9)
                          ELSE "0",
         wol_wait_time |-> IF wanted THEN Number(A.wol_wait_time, "0") ELSE "0"]

-----------------------------------------------------------------------------
(* VNC.                                                                    *)

VncArgs(build) ==
    <<"hostname", "port", "read_only", "disable_display_resize", "encodings",
      "username", "password", "swap_red_blue", "color_depth", "cursor",
      "autoretry", "clipboard_encoding">>
    \o When("VNC_REPEATER", build,
      <<"dest_host", "dest_port">>)
    \o When("PULSE", build,
      <<"enable_audio", "audio_servername">>)
    \o When("VNC_LISTEN", build,
      <<"reverse_connect", "listen_timeout">>)
    \o When("COMMON_SSH", build,
      <<"enable_sftp", "sftp_hostname", "sftp_host_key", "sftp_port",
      "sftp_timeout", "sftp_username", "sftp_password", "sftp_private_key",
      "sftp_passphrase", "sftp_public_key", "sftp_directory",
      "sftp_root_directory", "sftp_server_alive_interval",
      "sftp_disable_download", "sftp_disable_upload">>)
    \o <<"recording_path", "recording_name", "recording_exclude_output",
      "recording_exclude_mouse", "recording_include_keys",
      "create_recording_path", "recording_write_existing", "disable_copy",
      "disable_paste", "disable_server_input", "wol_send_packet",
      "wol_mac_addr", "wol_broadcast_addr", "wol_udp_port", "wol_wait_time",
      "force_lossless", "compress_level", "quality_level">>

\* Mutant: the enumeration lists the PulseAudio server before its flag.
MutantSwappedIndices(build) ==
    <<"hostname", "port", "read_only", "disable_display_resize", "encodings",
      "username", "password", "swap_red_blue", "color_depth", "cursor",
      "autoretry", "clipboard_encoding">>
    \o When("VNC_REPEATER", build, <<"dest_host", "dest_port">>)
    \o When("PULSE", build, <<"audio_servername", "enable_audio">>)
    \o When("VNC_LISTEN", build, <<"reverse_connect", "listen_timeout">>)
    \o When("COMMON_SSH", build,
      <<"enable_sftp", "sftp_hostname", "sftp_host_key", "sftp_port",
      "sftp_timeout">>)

VncIndices1(build) ==
    <<"hostname", "port", "read_only", "disable_display_resize", "encodings",
      "username", "password", "swap_red_blue", "color_depth", "cursor",
      "autoretry", "clipboard_encoding">>
    \o When("VNC_REPEATER", build,
      <<"dest_host", "dest_port">>)
    \o When("PULSE", build,
      <<"enable_audio", "audio_servername">>)
    \o When("VNC_LISTEN", build,
      <<"reverse_connect", "listen_timeout">>)
    \o When("COMMON_SSH", build,
      <<"enable_sftp", "sftp_hostname", "sftp_host_key", "sftp_port",
      "sftp_timeout">>)

VncIndices2(build) ==
    When("COMMON_SSH", build,
      <<"sftp_username", "sftp_password", "sftp_private_key",
      "sftp_passphrase", "sftp_public_key", "sftp_directory",
      "sftp_root_directory", "sftp_server_alive_interval",
      "sftp_disable_download", "sftp_disable_upload">>)
    \o <<"recording_path", "recording_name", "recording_exclude_output",
      "recording_exclude_mouse", "recording_include_keys",
      "create_recording_path", "recording_write_existing", "disable_copy",
      "disable_paste", "disable_server_input", "wol_send_packet">>

VncIndices3(build) ==
    <<"wol_mac_addr", "wol_broadcast_addr", "wol_udp_port", "wol_wait_time",
      "force_lossless", "compress_level", "quality_level">>

VncIndices(build) ==
    VncIndices1(build) \o VncIndices2(build) \o VncIndices3(build)

VncParse1(A, info, build) ==
    Flags(A, {"swap_red_blue", "read_only", "disable_server_input",
                  "disable_display_resize"})
    @@ Texts(A, {"username", "password", "clipboard_encoding"})
    @@ [hostname |-> String(A.hostname, ""),
        port |-> Number(A.port, "0"),
        remote_cursor |-> Truth(A.cursor = "remote"),
        color_depth |-> Number(A.color_depth, "0"),
        lossless |-> Boolean(A.force_lossless, "false"),
        compress_level |-> Number(A.compress_level, "-1"),
        quality_level |-> Number(A.quality_level, "-1"),
        encodings |->
            String(A.encodings, "zrle ultra copyrect hextile zlib corre rre raw"),
        retries |-> Number(A.autoretry, "0")]
    @@ Given("VNC_REPEATER", build,
        Texts(A, {"dest_host"})
        @@ [dest_port |-> Number(A.dest_port, "0")])
    @@ Given("VNC_LISTEN", build,
        Flags(A, {"reverse_connect"})
        @@ [listen_timeout |-> Number(A.listen_timeout, "5000")])
    @@ Given("PULSE", build,
        [audio_enabled |-> Boolean(A.enable_audio, "false"),
            pa_servername |-> IF Boolean(A.enable_audio, "false") = "true"
                      THEN String(A.audio_servername, NULL) ELSE NULL])
    @@ Given("COMMON_SSH", build,
        Flags(A, {"enable_sftp"})
        @@ Texts(A, {"sftp_host_key"})
        @@ [sftp_hostname |-> String(A.sftp_hostname, A.hostname),
            sftp_port |-> String(A.sftp_port, "22")])

VncParse2(A, info, build) ==
    Given("COMMON_SSH", build,
        Flags(A, {"sftp_disable_download", "sftp_disable_upload"})
        @@ Texts(A, {"sftp_private_key", "sftp_public_key", "sftp_directory"})
        @@ [sftp_timeout |-> Number(A.sftp_timeout, "10"),
            sftp_username |-> String(A.sftp_username, ""),
            sftp_password |-> String(A.sftp_password, ""),
            sftp_passphrase |-> String(A.sftp_passphrase, ""),
            sftp_root_directory |-> String(A.sftp_root_directory, "/"),
            sftp_server_alive_interval |->
                Number(A.sftp_server_alive_interval, "0")])
    @@ Flags(A, {"recording_exclude_output", "recording_exclude_mouse",
                  "recording_include_keys", "create_recording_path",
                  "recording_write_existing", "disable_copy", "disable_paste"})
    @@ Texts(A, {"recording_path"})
    @@ [recording_name |-> String(A.recording_name, "recording")]

guac_vnc_parse_args(A, info, build) ==
    VncParse1(A, info, build)
    @@ VncParse2(A, info, build) @@ WakeOnLan(A)

VncStruct1(build) ==
    Declared("char*", {"hostname", "username", "password", "encodings",
           "clipboard_encoding"})
    @@ Declared("int",
           {"port", "color_depth", "compress_level", "quality_level",
           "retries"})
    @@ Declared("bool",
           {"disable_display_resize", "swap_red_blue", "read_only",
           "lossless", "remote_cursor", "disable_copy", "disable_paste"})
    @@ Given("VNC_REPEATER", build,
        Declared("char*", {"dest_host"})
        @@ Declared("int", {"dest_port"}))
    @@ Given("VNC_LISTEN", build,
        Declared("bool", {"reverse_connect"})
        @@ Declared("int", {"listen_timeout"}))
    @@ Given("PULSE", build,
        Declared("bool", {"audio_enabled"})
        @@ Declared("char*", {"pa_servername"}))
    @@ Given("COMMON_SSH", build,
        Declared("bool", {"enable_sftp"})
        @@ Declared("char*", {"sftp_hostname"}))

VncStruct2(build) ==
    Given("COMMON_SSH", build,
        Declared("char*", {"sftp_host_key", "sftp_port", "sftp_username",
               "sftp_password", "sftp_private_key", "sftp_passphrase",
               "sftp_public_key", "sftp_directory", "sftp_root_directory"})
        @@ Declared("int", {"sftp_timeout", "sftp_server_alive_interval"})
        @@ Declared("bool", {"sftp_disable_download", "sftp_disable_upload"}))
    @@ Declared("char*", {"recording_path", "recording_name", "wol_mac_addr"})
    @@ Declared("bool", {"create_recording_path", "recording_exclude_output",
           "recording_exclude_mouse", "recording_include_keys",
           "recording_write_existing", "wol_send_packet"})

VncStruct3(build) ==
    Declared("char*", {"wol_broadcast_addr"})
    @@ Declared("int", {"wol_udp_port", "wol_wait_time"})
    @@ Declared("bool", {"disable_server_input"})

VncStruct(build) ==
    VncStruct1(build) @@ VncStruct2(build) @@ VncStruct3(build)

guac_vnc_settings_free(build) ==
    {"clipboard_encoding", "encodings", "hostname", "password",
     "recording_name", "recording_path", "username", "wol_mac_addr",
     "wol_broadcast_addr"}
    \cup (IF "VNC_REPEATER" \in build
           THEN {"dest_host"}
           ELSE {})
    \cup (IF "COMMON_SSH" \in build
           THEN {"sftp_directory", "sftp_root_directory", "sftp_host_key",
                  "sftp_hostname", "sftp_passphrase", "sftp_password",
                  "sftp_port", "sftp_private_key", "sftp_public_key",
                  "sftp_username"}
           ELSE {})
    \cup (IF "PULSE" \in build
           THEN {"pa_servername"}
           ELSE {})


-----------------------------------------------------------------------------
(* RDP.                                                                    *)


-----------------------------------------------------------------------------
(* Arguments and indices.                                                  *)

RdpArgs(build) ==
    <<"hostname", "port", "timeout", "domain", "username", "password",
      "width", "height", "dpi", "initial_program", "color_depth",
      "disable_audio", "enable_printing", "printer_name", "enable_drive",
      "drive_name", "drive_path", "create_drive_path", "disable_download",
      "disable_upload", "console", "console_audio", "server_layout",
      "security", "ignore_cert", "cert_tofu", "cert_fingerprints",
      "disable_auth", "remote_app", "remote_app_dir", "remote_app_args",
      "static_channels", "client_name", "enable_wallpaper", "enable_theming",
      "enable_font_smoothing", "enable_full_window_drag",
      "enable_desktop_composition", "enable_menu_animations",
      "disable_bitmap_caching", "disable_offscreen_caching",
      "disable_glyph_caching", "disable_gfx", "preconnection_id",
      "preconnection_blob", "timezone">>
    \o When("COMMON_SSH", build,
      <<"enable_sftp", "sftp_hostname", "sftp_host_key", "sftp_port",
      "sftp_timeout", "sftp_username", "sftp_password", "sftp_private_key",
      "sftp_passphrase", "sftp_public_key", "sftp_directory",
      "sftp_root_directory", "sftp_server_alive_interval",
      "sftp_disable_download", "sftp_disable_upload">>)
    \o <<"recording_path", "recording_name", "recording_exclude_output",
      "recording_exclude_mouse", "recording_exclude_touch",
      "recording_include_keys", "create_recording_path",
      "recording_write_existing", "resize_method", "enable_audio_input",
      "enable_touch", "read_only", "gateway_hostname", "gateway_port",
      "gateway_domain", "gateway_username", "gateway_password",
      "load_balance_info", "disable_copy", "disable_paste",
      "wol_send_packet", "wol_mac_addr", "wol_broadcast_addr",
      "wol_udp_port", "wol_wait_time", "force_lossless",
      "normalize_clipboard">>

RdpIndices1(build) ==
    <<"hostname", "port", "timeout", "domain", "username", "password",
      "width", "height", "dpi", "initial_program", "color_depth",
      "disable_audio", "enable_printing", "printer_name", "enable_drive",
      "drive_name", "drive_path", "create_drive_path", "disable_download",
      "disable_upload", "console", "console_audio", "server_layout",
      "security", "ignore_cert">>

RdpIndices2(build) ==
    <<"certificate_tofu", "certificate_fingerprints", "disable_auth",
      "remote_app", "remote_app_dir", "remote_app_args", "static_channels",
      "client_name", "enable_wallpaper", "enable_theming",
      "enable_font_smoothing", "enable_full_window_drag",
      "enable_desktop_composition", "enable_menu_animations",
      "disable_bitmap_caching", "disable_offscreen_caching",
      "disable_glyph_caching", "disable_gfx", "preconnection_id",
      "preconnection_blob", "timezone">>
    \o When("COMMON_SSH", build,
      <<"enable_sftp">>)

RdpIndices3(build) ==
    When("COMMON_SSH", build,
      <<"sftp_hostname", "sftp_host_key", "sftp_port", "sftp_timeout",
      "sftp_username", "sftp_password", "sftp_private_key",
      "sftp_passphrase", "sftp_public_key", "sftp_directory",
      "sftp_root_directory", "sftp_server_alive_interval",
      "sftp_disable_download", "sftp_disable_upload">>)
    \o <<"recording_path", "recording_name", "recording_exclude_output",
      "recording_exclude_mouse", "recording_exclude_touch",
      "recording_include_keys", "create_recording_path",
      "recording_write_existing">>

RdpIndices4(build) ==
    <<"resize_method", "enable_audio_input", "enable_touch", "read_only",
      "gateway_hostname", "gateway_port", "gateway_domain",
      "gateway_username", "gateway_password", "load_balance_info",
      "disable_copy", "disable_paste", "wol_send_packet", "wol_mac_addr",
      "wol_broadcast_addr", "wol_udp_port", "wol_wait_time",
      "force_lossless", "normalize_clipboard">>

RdpIndices(build) ==
    RdpIndices1(build) \o RdpIndices2(build)
       \o RdpIndices3(build) \o RdpIndices4(build)

-----------------------------------------------------------------------------
(* Settings that are not read as they are.                                 *)

SecurityMode(v) ==
    CASE v = "nla"       -> "GUAC_SECURITY_NLA"
      [] v = "nla-ext"   -> "GUAC_SECURITY_EXTENDED_NLA"
      [] v = "tls"       -> "GUAC_SECURITY_TLS"
      [] v = "rdp"       -> "GUAC_SECURITY_RDP"
      [] v = "vmconnect" -> "GUAC_SECURITY_VMCONNECT"
      [] OTHER           -> "GUAC_SECURITY_ANY"

\* Whether the area of the user's display, in pixels of a resolution, is
\* at least 800 x 600 at that resolution.
guac_rdp_resolution_reasonable(info, resolution) ==
    \/ info.dpi = resolution
    \/ ((info.width * resolution) \div info.dpi)
            * ((info.height * resolution) \div info.dpi) >= 800 * 600

guac_rdp_suggest_resolution(info) ==
    CASE guac_rdp_resolution_reasonable(info, 96) -> 96
      [] ~guac_rdp_resolution_reasonable(info, 96)
            /\ guac_rdp_resolution_reasonable(info, 120) -> 120
      [] OTHER -> info.dpi

Resolution(A, info) ==
    IF A.dpi \in DOMAIN Numerals THEN Numerals[A.dpi]
    ELSE guac_rdp_suggest_resolution(info)

\* A size is computed from the user's display unless one is given; one that is
\* not positive is replaced.
Size(v, optimal, A, info, default) ==
    LET computed == optimal * Resolution(A, info)
        pixels   == IF computed >= 0 THEN computed \div info.dpi
                    ELSE -((-computed) \div info.dpi)
        wanted   == IF v /= "" THEN atoi(v) ELSE pixels
    IN  IF wanted <= 0 THEN default ELSE wanted

\* The width is rounded down to a multiple of four.
Width(A, info) ==
    LET width == Size(A.width, info.width, A, info, 1024)
    IN  width - (width % 4)

Height(A, info) == Size(A.height, info.height, A, info, 768)

PreconnectionId(v) == IF v = "" \/ atoi(v) < 0 THEN "-1" ELSE ToString(atoi(v))

\* guac_rdp_keymap_find(), with the default for a name that is not found.
ServerLayout(v) == IF v = "de-de-qwertz" THEN v ELSE "en-us-qwerty"

ResizeMethod(v) ==
    CASE v = "reconnect" -> "GUAC_RESIZE_RECONNECT"
      [] v = "display-update" -> "GUAC_RESIZE_DISPLAY_UPDATE"
      [] OTHER -> "GUAC_RESIZE_NONE"

Normalized(A) ==
    [convert |-> Truth(A.normalize_clipboard \in {"unix", "windows"}),
     crlf |-> Truth(A.normalize_clipboard = "windows")]

-----------------------------------------------------------------------------
(* All settings.                                                           *)

RdpParse1(A, info, build) ==
    Flags(A, {"console", "console_audio", "certificate_tofu"})
    @@ Texts(A, {"certificate_fingerprints"})
    @@ [ignore_certificate |-> Boolean(A.ignore_cert, "false"),
        disable_authentication |-> Boolean(A.disable_auth, "false"),
        security_mode |-> SecurityMode(A.security),
        hostname |-> String(A.hostname, ""),
        port |->
            Number(A.port, IF A.security = "vmconnect" THEN "2179" ELSE "3389"),
        timeout |-> Number(A.timeout, "10"),
        resolution |-> ToString(Resolution(A, info)),
        width |-> ToString(Width(A, info)),
        height |-> ToString(Height(A, info))]

RdpParse2(A, info, build) ==
    Flags(A, {"read_only", "disable_bitmap_caching",
                  "disable_offscreen_caching"})
    @@ Texts(A, {"domain", "username", "password", "initial_program",
                  "remote_app", "remote_app_dir", "remote_app_args",
                  "preconnection_blob"})
    @@ [lossless |-> Boolean(A.force_lossless, "false"),
        client_name |-> String(A.client_name, "Guacamole RDP"),
        svc_names |-> String(A.static_channels, NULL),
        wallpaper_enabled |-> Boolean(A.enable_wallpaper, "false"),
        theming_enabled |-> Boolean(A.enable_theming, "false"),
        font_smoothing_enabled |-> Boolean(A.enable_font_smoothing, "false"),
        full_window_drag_enabled |->
            Boolean(A.enable_full_window_drag, "false"),
        desktop_composition_enabled |->
            Boolean(A.enable_desktop_composition, "false"),
        menu_animations_enabled |-> Boolean(A.enable_menu_animations, "false"),
        disable_glyph_caching |-> "true",
        preconnection_id |-> PreconnectionId(A.preconnection_id),
        audio_enabled |-> Not(Boolean(A.disable_audio, "false"))]

RdpParse3(A, info, build) ==
    Flags(A, {"create_drive_path", "disable_download", "disable_upload"})
    @@ Texts(A, {"recording_path"})
    @@ [printing_enabled |-> Boolean(A.enable_printing, "false"),
        printer_name |-> String(A.printer_name, "Guacamole Printer"),
        drive_enabled |-> Boolean(A.enable_drive, "false"),
        drive_name |-> String(A.drive_name, "Guacamole Filesystem"),
        drive_path |-> String(A.drive_path, ""),
        server_layout |-> ServerLayout(A.server_layout),
        timezone |-> String(A.timezone, info.timezone),
        recording_name |-> String(A.recording_name, "recording")]
    @@ Given("COMMON_SSH", build,
        Flags(A, {"enable_sftp", "sftp_disable_download",
                      "sftp_disable_upload"})
        @@ Texts(A, {"sftp_host_key", "sftp_private_key", "sftp_public_key",
                      "sftp_directory"})
        @@ [sftp_hostname |-> String(A.sftp_hostname, A.hostname),
            sftp_port |-> String(A.sftp_port, "22"),
            sftp_timeout |-> Number(A.sftp_timeout, "10"),
            sftp_username |-> String(A.sftp_username, A.username),
            sftp_password |-> String(A.sftp_password, ""),
            sftp_passphrase |-> String(A.sftp_passphrase, ""),
            sftp_root_directory |-> String(A.sftp_root_directory, "/"),
            sftp_server_alive_interval |->
                Number(A.sftp_server_alive_interval, "0")])

RdpParse4(A, info, build) ==
    Flags(A, {"recording_exclude_output", "recording_exclude_mouse",
                  "recording_exclude_touch", "recording_include_keys",
                  "create_recording_path", "recording_write_existing",
                  "enable_touch", "enable_audio_input", "disable_copy",
                  "disable_paste"})
    @@ Texts(A, {"gateway_hostname", "gateway_domain", "gateway_username",
                  "gateway_password", "load_balance_info"})
    @@ [resize_method |-> ResizeMethod(A.resize_method),
        enable_gfx |-> Not(Boolean(A.disable_gfx, "false")),
        color_depth |-> Number(A.color_depth,
                       IF Boolean(A.disable_gfx, "false") = "true"
                       THEN "16" ELSE "32"),
        gateway_port |-> Number(A.gateway_port, "443"),
        normalize_clipboard |-> Normalized(A).convert,
        clipboard_crlf |-> Normalized(A).crlf]

guac_rdp_parse_args(A, info, build) ==
    RdpParse1(A, info, build)
    @@ RdpParse2(A, info, build)
    @@ RdpParse3(A, info, build)
    @@ RdpParse4(A, info, build) @@ WakeOnLan(A)

RdpStruct1(build) ==
    Declared("char*",
        {"hostname", "domain", "username", "password", "printer_name",
           "drive_name", "drive_path", "initial_program", "client_name"})
    @@ Declared("int",
           {"port", "timeout", "read_only", "color_depth", "width", "height",
           "resolution", "lossless", "audio_enabled", "printing_enabled",
           "drive_enabled", "create_drive_path", "disable_download",
           "disable_upload", "console", "console_audio", "ignore_certificate"})
    @@ Declared("guac_rdp_keymap*", {"server_layout"})
    @@ Declared("guac_rdp_security", {"security_mode"})

RdpStruct2(build) ==
    Declared("int",
        {"certificate_tofu", "disable_authentication", "disable_copy",
           "disable_paste", "normalize_clipboard", "clipboard_crlf",
           "wallpaper_enabled", "theming_enabled", "font_smoothing_enabled",
           "full_window_drag_enabled", "desktop_composition_enabled",
           "menu_animations_enabled", "disable_bitmap_caching",
           "disable_offscreen_caching", "disable_glyph_caching",
           "preconnection_id"})
    @@ Declared("char*",
           {"certificate_fingerprints", "remote_app", "remote_app_dir",
           "remote_app_args", "preconnection_blob", "timezone"})
    @@ Declared("char**", {"svc_names"})

RdpStruct3(build) ==
    Given("COMMON_SSH", build,
        Declared("int",
            {"enable_sftp", "sftp_timeout", "sftp_server_alive_interval",
               "sftp_disable_download", "sftp_disable_upload"})
        @@ Declared("char*", {"sftp_hostname", "sftp_host_key", "sftp_port",
               "sftp_username", "sftp_password", "sftp_private_key",
               "sftp_passphrase", "sftp_public_key", "sftp_directory",
               "sftp_root_directory"}))
    @@ Declared("char*", {"recording_path", "recording_name"})
    @@ Declared("int", {"create_recording_path", "recording_exclude_output",
           "recording_exclude_mouse", "recording_exclude_touch",
           "recording_include_keys", "recording_write_existing"})

RdpStruct4(build) ==
    Declared("guac_rdp_resize_method", {"resize_method"})
    @@ Declared("int", {"enable_audio_input", "enable_gfx", "enable_touch",
           "gateway_port", "wol_send_packet", "wol_udp_port", "wol_wait_time"})
    @@ Declared("char*",
           {"gateway_hostname", "gateway_domain", "gateway_username",
           "gateway_password", "load_balance_info", "wol_mac_addr",
           "wol_broadcast_addr"})

RdpStruct(build) ==
    RdpStruct1(build) @@ RdpStruct2(build)
       @@ RdpStruct3(build) @@ RdpStruct4(build)

guac_rdp_settings_free(build) ==
    {"client_name", "domain", "drive_name", "drive_path", "hostname",
     "certificate_fingerprints", "initial_program", "password",
     "preconnection_blob", "recording_name", "recording_path", "remote_app",
     "remote_app_args", "remote_app_dir", "timezone", "username",
     "printer_name", "svc_names", "gateway_hostname", "gateway_domain",
     "gateway_username", "gateway_password", "load_balance_info",
     "wol_mac_addr", "wol_broadcast_addr"}
    \cup (IF "COMMON_SSH" \in build
           THEN {"sftp_directory", "sftp_root_directory", "sftp_host_key",
                  "sftp_hostname", "sftp_passphrase", "sftp_password",
                  "sftp_port", "sftp_private_key", "sftp_public_key",
                  "sftp_username"}
           ELSE {})

-----------------------------------------------------------------------------
(* What FreeRDP is told.                                                   *)

Copied(s, table) == [k \in DOMAIN table |-> s[table[k]]]

Opposite(s, table) == [k \in DOMAIN table |-> Not(s[table[k]])]

Enabled(names) == [k \in names |-> "true"]

None == [k \in {} |-> ""]

guac_rdp_get_performance_flags(s) ==
    {f \in {"PERF_DISABLE_WALLPAPER", "PERF_DISABLE_THEMING",
            "PERF_ENABLE_FONT_SMOOTHING", "PERF_DISABLE_FULLWINDOWDRAG",
            "PERF_ENABLE_DESKTOP_COMPOSITION", "PERF_DISABLE_MENUANIMATIONS"} :
        CASE f = "PERF_DISABLE_WALLPAPER" -> s.wallpaper_enabled /= "true"
          [] f = "PERF_DISABLE_THEMING" -> s.theming_enabled /= "true"
          [] f = "PERF_ENABLE_FONT_SMOOTHING" ->
                s.font_smoothing_enabled = "true"
          [] f = "PERF_DISABLE_FULLWINDOWDRAG" ->
                s.full_window_drag_enabled /= "true"
          [] f = "PERF_ENABLE_DESKTOP_COMPOSITION" ->
                s.desktop_composition_enabled = "true"
          [] f = "PERF_DISABLE_MENUANIMATIONS" ->
                s.menu_animations_enabled /= "true"}

\* With the setters of FreeRDP.
SetDisplay(s) ==
    Copied(s, [Domain |-> "domain", Username |-> "username",
        Password |-> "password", ServerHostname |-> "hostname",
        ServerPort |-> "port", DesktopWidth |-> "width",
        DesktopHeight |-> "height", AlternateShell |-> "initial_program",
        KeyboardLayout |-> "server_layout",
        AllowFontSmoothing |-> "font_smoothing_enabled",
        AllowDesktopComposition |-> "desktop_composition_enabled",
        ClientHostname |-> "client_name", ConsoleSession |-> "console",
        RemoteConsoleAudio |-> "console_audio",
        AudioPlayback |-> "audio_enabled",
        AudioCapture |-> "enable_audio_input"])
    @@ Opposite(s, [DisableWallpaper |-> "wallpaper_enabled",
        DisableFullWindowDrag |-> "full_window_drag_enabled",
        DisableMenuAnims |-> "menu_animations_enabled",
        DisableThemes |-> "theming_enabled"])
    @@ Enabled({"FrameMarkerCommandEnabled", "SurfaceFrameMarkerEnabled",
        "FastPathInput", "FastPathOutput"})
    @@ (IF s.enable_gfx = "true"
        THEN [ColorDepth |-> "32"]
             @@ Enabled({"SupportGraphicsPipeline", "RemoteFxCodec",
                         "SoftwareGdi"})
        ELSE [ColorDepth |-> s.color_depth])
    @@ [ConnectionType |-> "CONNECTION_TYPE_LAN",
        PerformanceFlags |-> guac_rdp_get_performance_flags(s),
        TZ |-> s.timezone,
        SupportDisplayControl |->
            Truth(s.resize_method = "GUAC_RESIZE_DISPLAY_UPDATE"),
        DeviceRedirection |->
            Truth("true" \in {s.audio_enabled, s.drive_enabled,
                              s.printing_enabled})]

\* The protocols offered when the connection is negotiated.
Offers(names) ==
    [k \in {"RdpSecurity", "TlsSecurity", "NlaSecurity", "ExtSecurity"} |->
        Truth(k \in names)]

SetSecurity(s, fips) ==
    LET mode == s.security_mode
    IN  CASE mode = "GUAC_SECURITY_RDP" ->
                Offers({"RdpSecurity"}) @@ Enabled({"UseRdpSecurityLayer"})
                @@ [EncryptionLevel |-> "ENCRYPTION_LEVEL_CLIENT_COMPATIBLE",
                    EncryptionMethods |-> "40BIT|128BIT|FIPS"]
          [] mode = "GUAC_SECURITY_TLS" -> Offers({"TlsSecurity"})
          [] mode = "GUAC_SECURITY_NLA" -> Offers({"NlaSecurity"})
          [] mode = "GUAC_SECURITY_EXTENDED_NLA" -> Offers({"ExtSecurity"})
          [] mode = "GUAC_SECURITY_VMCONNECT" ->
                Offers({"TlsSecurity", "NlaSecurity"})
                @@ Enabled({"VmConnectMode"})
          [] mode = "GUAC_SECURITY_ANY" ->
                Offers(IF fips THEN {"RdpSecurity", "TlsSecurity"}
                       ELSE {"RdpSecurity", "TlsSecurity", "NlaSecurity"})

SetRemote(s) ==
    [Authentication |-> Not(s.disable_authentication),
     IgnoreCertificate |-> s.ignore_certificate,
     AutoAcceptCertificate |-> s.certificate_tofu,
     BitmapCacheEnabled |-> Not(s.disable_bitmap_caching),
     OffscreenSupportLevel |-> Not(s.disable_offscreen_caching),
     GlyphSupportLevel |-> Not(s.disable_glyph_caching),
     OsMajorType |-> "UNSPECIFIED", OsMinorType |-> "UNSPECIFIED",
     DesktopResize |-> "true"]
    @@ (IF s.certificate_fingerprints = NULL THEN None
        ELSE [CertificateAcceptedFingerprints |-> s.certificate_fingerprints])
    @@ (IF s.remote_app = NULL THEN None
        ELSE Enabled({"Workarea", "RemoteApplicationMode",
                      "RemoteAppLanguageBarSupported"})
             @@ Copied(s, [RemoteApplicationProgram |-> "remote_app",
                    ShellWorkingDirectory |-> "remote_app_dir",
                    RemoteApplicationCmdLine |-> "remote_app_args"]))
    @@ (IF s.preconnection_id = "-1" THEN None
        ELSE [NegotiateSecurityLayer |-> "false",
              SendPreconnectionPdu |-> "true",
              PreconnectionId |-> s.preconnection_id])
    @@ (IF s.preconnection_blob = NULL THEN None
        ELSE [NegotiateSecurityLayer |-> "false",
              SendPreconnectionPdu |-> "true",
              PreconnectionBlob |-> s.preconnection_blob])
    @@ (IF s.gateway_hostname = NULL THEN None
        ELSE [GatewayEnabled |-> "true", GatewayUseSameCredentials |-> "false"]
             @@ Copied(s, [GatewayHostname |-> "gateway_hostname",
                    GatewayPort |-> "gateway_port",
                    GatewayDomain |-> "gateway_domain",
                    GatewayUsername |-> "gateway_username",
                    GatewayPassword |-> "gateway_password"]))
    @@ (IF s.load_balance_info = NULL THEN None
        ELSE [LoadBalanceInfo |-> s.load_balance_info,
              LoadBalanceInfoLength |-> s.load_balance_info])

guac_rdp_push_settings(s, fips) ==
    SetDisplay(s) @@ SetSecurity(s, fips) @@ SetRemote(s)

\* With the fields of older FreeRDP, in an order of their own.
AssignDisplay(s) ==
    [TcpAckTimeout |-> IF s.timeout \in DOMAIN Numerals
                       THEN ToString(Numerals[s.timeout] * 1000) ELSE "10000",
     ColorDepth |-> IF s.enable_gfx = "true" THEN "32" ELSE s.color_depth,
     DisableWallpaper |-> Not(s.wallpaper_enabled),
     DisableFullWindowDrag |-> Not(s.full_window_drag_enabled),
     DisableMenuAnims |-> Not(s.menu_animations_enabled),
     DisableThemes |-> Not(s.theming_enabled),
     ConnectionType |-> "CONNECTION_TYPE_LAN",
     PerformanceFlags |-> guac_rdp_get_performance_flags(s),
     TZ |-> s.timezone,
     SupportDisplayControl |->
        Truth(s.resize_method = "GUAC_RESIZE_DISPLAY_UPDATE"),
     DeviceRedirection |-> Truth(s.audio_enabled = "true"
        \/ s.drive_enabled = "true" \/ s.printing_enabled = "true")]
    @@ Copied(s, [Domain |-> "domain", Username |-> "username",
        Password |-> "password", ServerHostname |-> "hostname",
        ServerPort |-> "port", DesktopWidth |-> "width",
        DesktopHeight |-> "height", AlternateShell |-> "initial_program",
        KeyboardLayout |-> "server_layout",
        AllowFontSmoothing |-> "font_smoothing_enabled",
        AllowDesktopComposition |-> "desktop_composition_enabled",
        ClientHostname |-> "client_name", ConsoleSession |-> "console",
        RemoteConsoleAudio |-> "console_audio",
        AudioPlayback |-> "audio_enabled",
        AudioCapture |-> "enable_audio_input"])
    @@ Enabled({"FrameMarkerCommandEnabled", "SurfaceFrameMarkerEnabled",
        "FastPathInput", "FastPathOutput"})
    @@ (IF s.enable_gfx = "true"
        THEN Enabled({"SupportGraphicsPipeline", "RemoteFxCodec",
                      "SoftwareGdi"})
        ELSE None)

AssignSecurity(s, fips) ==
    LET mode == s.security_mode
        any == mode = "GUAC_SECURITY_ANY"
        vm  == mode = "GUAC_SECURITY_VMCONNECT"
        rdp == mode = "GUAC_SECURITY_RDP"
        tls == mode = "GUAC_SECURITY_TLS"
        nla == mode = "GUAC_SECURITY_NLA"
    IN  [RdpSecurity |-> Truth(rdp \/ any),
         TlsSecurity |-> Truth(tls \/ vm \/ any),
         NlaSecurity |-> Truth(nla \/ vm \/ (any /\ ~fips)),
         ExtSecurity |-> Truth(mode = "GUAC_SECURITY_EXTENDED_NLA")]
        @@ (IF rdp
            THEN [UseRdpSecurityLayer |-> "true",
                  EncryptionLevel |-> "ENCRYPTION_LEVEL_CLIENT_COMPATIBLE",
                  EncryptionMethods |-> "40BIT|128BIT|FIPS"]
            ELSE None)
        @@ (IF vm THEN [VmConnectMode |-> "true"] ELSE None)

AssignRemote(s) ==
    (IF s.remote_app = NULL THEN None
     ELSE [Workarea |-> "true", RemoteApplicationMode |-> "true",
           RemoteAppLanguageBarSupported |-> "true",
           RemoteApplicationProgram |-> s.remote_app,
           ShellWorkingDirectory |-> s.remote_app_dir,
           RemoteApplicationCmdLine |-> s.remote_app_args])
    @@ (IF s.preconnection_id = "-1" /\ s.preconnection_blob = NULL THEN None
        ELSE [NegotiateSecurityLayer |-> "false",
              SendPreconnectionPdu |-> "true"])
    @@ (IF s.preconnection_id = "-1" THEN None
        ELSE [PreconnectionId |-> s.preconnection_id])
    @@ (IF s.preconnection_blob = NULL THEN None
        ELSE [PreconnectionBlob |-> s.preconnection_blob])
    @@ (IF s.gateway_hostname = NULL THEN None
        ELSE [GatewayEnabled |-> "true", GatewayUseSameCredentials |-> "false",
              GatewayHostname |-> s.gateway_hostname,
              GatewayPort |-> s.gateway_port,
              GatewayDomain |-> s.gateway_domain,
              GatewayUsername |-> s.gateway_username,
              GatewayPassword |-> s.gateway_password])
    @@ (IF s.load_balance_info = NULL THEN None
        ELSE [LoadBalanceInfo |-> s.load_balance_info,
              LoadBalanceInfoLength |-> s.load_balance_info])
    @@ (IF s.certificate_fingerprints = NULL THEN None
        ELSE [CertificateAcceptedFingerprints |-> s.certificate_fingerprints])
    @@ Opposite(s, [Authentication |-> "disable_authentication",
        BitmapCacheEnabled |-> "disable_bitmap_caching",
        OffscreenSupportLevel |-> "disable_offscreen_caching",
        GlyphSupportLevel |-> "disable_glyph_caching"])
    @@ Copied(s, [IgnoreCertificate |-> "ignore_certificate",
                  AutoAcceptCertificate |-> "certificate_tofu"])
    @@ [OsMajorType |-> "UNSPECIFIED", OsMinorType |-> "UNSPECIFIED",
        DesktopResize |-> "true"]

AssignSettings(s, fips) ==
    AssignDisplay(s) @@ AssignSecurity(s, fips) @@ AssignRemote(s)

=============================================================================
