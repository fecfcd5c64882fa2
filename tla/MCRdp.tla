------------------------------- MODULE MCRdp -------------------------------
(***************************************************************************)
(* What users of an RDP connection type, touch, resize and say, and what  *)
(* the server prints.  The parts share no state; each behaviour is one of  *)
(* one of them, the others staying as they begin.                          *)
(***************************************************************************)
EXTENDS RdpKeyboard, RdpEvents, RdpDevices, RdpAudioInput

VARIABLE part

\* A small layout: two cases of a letter, a character of the third level and a
\* dead key.
MCKeymap ==
    <<Mapping("LSHIFT", 42, {}, {}, {}, {}),
      Mapping("RSHIFT", 54, {}, {}, {}, {}),
      Mapping("LCTRL", 29, {}, {}, {}, {}),
      Mapping("LALT", 56, {}, {}, {}, {}),
      Mapping("RALT", 312, {}, {}, {}, {}),
      Mapping("CAPS_LOCK", 58, {}, {}, {}, {}),
      Mapping("ALTGR", 312, {}, {}, {}, {}),
      Mapping("a", 30, {}, {"SHIFT", "ALTGR"}, {}, {"CAPS"}),
      Mapping("A", 30, {"SHIFT"}, {"ALTGR"}, {}, {"CAPS"}),
      Mapping("A", 30, {}, {"SHIFT", "ALTGR"}, {"CAPS"}, {}),
      Mapping("a", 30, {"SHIFT"}, {"ALTGR"}, {"CAPS"}, {}),
      Mapping("@", 16, {"ALTGR"}, {"SHIFT"}, {}, {}),
      Mapping("dead_acute", 13, {}, {"SHIFT", "ALTGR"}, {}, {})>>

MCDecomposed == [aacute |-> <<"dead_acute", "a">>,
                 egrave |-> <<"dead_grave", "e">>]

\* Too high, with an odd width, so large that products overflow, and without a
\* height.
MCSizes == {<<100, 16001>>, <<1025, 768>>, <<9001, 524800>>, <<640, 0>>}

DispIdle ==
    /\ method = "none" /\ requested = NoSize /\ dwriter = NoSize
    /\ current = <<1024, 768>> /\ wanted = current /\ goal = current
    /\ again = FALSE /\ elapsed = TRUE /\ layout = TRUE /\ requests = 0
    /\ busy = FALSE /\ died = FALSE

MCStreamFormats == {PCM(2, 2, 1), PCM(2, 1, 2)}
MCServerFormats == {<<NoFormat, PCM(2, 1, 1)>>, <<PCM(2, 1, 2), PCM(1, 1, 1)>>}

Init ==
    /\ part \in {"keyboard", "events", "size", "devices", "audio"}
    /\ RdpKeyboardInit
    /\ EventsInit
    /\ IF part = "size" THEN DispInit ELSE DispIdle
    /\ DevicesInit
    /\ AudioInit

\* A step of one part; the others stay as they are.
Others(p) ==
    /\ part = p
    /\ UNCHANGED part
    /\ p /= "keyboard" => UNCHANGED keyboardVars
    /\ p /= "events" => UNCHANGED eventVars
    /\ p /= "size" => UNCHANGED dispVars
    /\ p /= "devices" => UNCHANGED deviceVars
    /\ p /= "audio" => UNCHANGED audioVars

Next ==
    \/ Others("keyboard") /\ RdpKeyboardNext
    \/ Others("events") /\ EventsNext
    \/ Others("size") /\ DispNext
    \/ Others("devices") /\ DevicesNext
    \/ Others("audio") /\ AudioNext

vars == <<part, keyboardVars, eventVars, dispVars, deviceVars, audioVars>>

Spec == Init /\ [][Next]_vars /\ DispFairness /\ DevicesFairness
        /\ WF_audioVars(part = "audio" /\ FlushStep) /\ WF_audioVars(TimeIsDue)

\* What the owner prints is what the server sent as far as it was accepted, a
\* job is not used after it was freed, and no thread waits for a printer while
\* it keeps others from sending; the server hears what the user says, whole and
\* in order.
ChannelsSound ==
  /\ DevicesTypeOK
  /\ PrintedAsAccepted
  /\ JobSafe
  /\ OthersCanSend
  /\ AudioSound

\* A size that was requested is adopted, unless requested before the channel
\* was there; a print job ends; a packet of sound that is full is sent.
RdpProgress ==
  /\ SizeAdopted
  /\ PrintingEnds
  /\ PacketsSent

=============================================================================
