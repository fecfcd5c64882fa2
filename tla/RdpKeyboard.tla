---------------------------- MODULE RdpKeyboard ----------------------------
(***************************************************************************)
(* The keyboard of an RDP connection, which types the characters users     *)
(* mean on a server with a layout of its own (keyboard.c, decompose.c):    *)
(* modifiers and locks are changed as the layout requires, behind the back *)
(* of the users, who hold keys of their own.                               *)
(*                                                                         *)
(* A keysym is a name.  The server is external: it has the keys that are   *)
(* down, its locks, and types what its layout says for a scancode, given   *)
(* the modifiers and the locks.                                            *)
(***************************************************************************)
EXTENDS Integers, Sequences, FiniteSets, SequencesExt

CONSTANTS
    Keymap,         \* sequence of mappings, those of the parents first
    Decomposed,     \* keysym -> <<dead keysym, base keysym>>
    Codepoints,     \* keysyms which have a Unicode codepoint
    KeyInputs,      \* keysyms that users press
    MaxHeld,        \* how many keys users hold at a time
    MaxDefinitions, \* GUAC_RDP_KEY_MAX_DEFINITIONS
    MaxKeysyms      \* GUAC_RDP_KEYBOARD_MAX_KEYSYMS

VARIABLES
    keyboard,   \* rdp_client->keyboard, and what it has sent for this event
    server,     \* the keyboard of the server
    asked,      \* the last keysym pressed, or ""
    kheld       \* keysyms users hold

keyboardVars == <<keyboard, server, asked, kheld>>

-----------------------------------------------------------------------------
(* The keys.                                                               *)

Mapping(keysym, scancode, set, clear, setLocks, clearLocks) ==
    [keysym |-> keysym, scancode |-> scancode, set |-> set, clear |-> clear,
     setLocks |-> setLocks, clearLocks |-> clearLocks]

\* Keysyms beyond the maximum, and definitions beyond theirs, are dropped.
guac_rdp_keyboard_add_mapping(keys, m) ==
    LET at == {i \in DOMAIN keys : keys[i].keysym = m.keysym}
        i == CHOOSE j \in at : TRUE
    IN  IF at = {}
        THEN IF Len(keys) = MaxKeysyms THEN keys
             ELSE Append(keys, [keysym |-> m.keysym, definitions |-> <<m>>])
        ELSE IF Len(keys[i].definitions) = MaxDefinitions THEN keys
        ELSE [keys EXCEPT ![i].definitions = Append(@, m)]

\* The keys, in the order in which they are first mapped.
Keys == FoldLeft(guac_rdp_keyboard_add_mapping, <<>>, Keymap)

Defined(keysym) == \E i \in DOMAIN Keys : Keys[i].keysym = keysym

Definitions(keysym) ==
    Keys[CHOOSE i \in DOMAIN Keys : Keys[i].keysym = keysym].definitions

guac_rdp_keyboard_is_defined(keysym) == Defined(keysym)

\* pressed[keysym] is the definition used to press the key, 0 if it is not.
guac_rdp_keyboard_alloc ==
    [locks |-> {}, synchronized |-> FALSE, userPressed |-> 0, sent |-> <<>>,
     pressed |-> [k \in {Keys[i].keysym : i \in DOMAIN Keys} |-> 0],
     user |-> {}]

guac_rdp_keyboard_is_pressed(kb, keysym) ==
    keysym \in DOMAIN kb.pressed /\ kb.pressed[keysym] /= 0

guac_rdp_keyboard_get_modifier_flags(kb) ==
    LET AnyOf(keysyms) == \E k \in keysyms : guac_rdp_keyboard_is_pressed(kb, k)
    IN  (IF AnyOf({"LSHIFT", "RSHIFT"}) THEN {"SHIFT"} ELSE {})
        \cup (IF AnyOf({"RALT", "ALTGR"}) \/ (AnyOf({"LALT"}) /\ AnyOf({"RCTRL", "LCTRL"}))
              THEN {"ALTGR"} ELSE {})

\* A change of a lock costs twice what a change of a modifier does.
CostOf(def, locks, flags) ==
    1 + 2 * Cardinality((def.setLocks \ locks) \cup (def.clearLocks \cap locks))
      + Cardinality((def.clear \cap flags) \cup (def.set \ flags))

guac_rdp_keyboard_get_cost(kb, def) ==
    CostOf(def, kb.locks, guac_rdp_keyboard_get_modifier_flags(kb))

FirstCheapest(cost) ==
    CHOOSE i \in DOMAIN cost :
        \A j \in DOMAIN cost : cost[i] < cost[j] \/ (cost[i] = cost[j] /\ i <= j)

\* The index of the definition: the one used to press the key, or the first of
\* the cheapest.
guac_rdp_keyboard_get_definition(kb, keysym) ==
    IF kb.pressed[keysym] /= 0 THEN kb.pressed[keysym]
    ELSE FirstCheapest([i \in DOMAIN Definitions(keysym) |->
                          guac_rdp_keyboard_get_cost(kb, Definitions(keysym)[i])])

guac_rdp_send_key_event(kb, def, pressed) ==
    [kb EXCEPT !.sent = Append(@, [type |-> "key", scancode |-> def.scancode,
                                   pressed |-> pressed])]

guac_rdp_send_synchronize_event(kb, locks) ==
    [kb EXCEPT !.sent = Append(@, [type |-> "sync", locks |-> locks])]

guac_rdp_send_unicode_event(kb, keysym) ==
    [kb EXCEPT !.sent = Append(@, [type |-> "unicode", keysym |-> keysym])]

guac_rdp_keyboard_update_locks(kb, set, clear) ==
    LET locks == (kb.locks \cup set) \ clear
    IN  IF locks = kb.locks THEN kb
        ELSE [guac_rdp_send_synchronize_event(kb, locks) EXCEPT !.locks = locks]

guac_rdp_keyboard_lock_flag(keysym) ==
    CASE keysym = "CAPS_LOCK" -> {"CAPS"}
      [] keysym = "NUM_LOCK"  -> {"NUM"}
      [] OTHER                -> {}

RECURSIVE guac_rdp_keyboard_update_keysym(_, _, _, _)

Synthetic(kb, keysyms, pressed) ==
    FoldLeft(LAMBDA k, keysym :
                guac_rdp_keyboard_update_keysym(k, keysym, pressed, "SYNTHETIC"),
             kb, keysyms)

\* A modifier is pressed by one key and released by all that may hold it.
UpdateModifier(kb, modifier, set, clear, press, release) ==
    IF modifier \in set THEN Synthetic(kb, press, TRUE)
    ELSE IF modifier \in clear THEN Synthetic(kb, release, FALSE)
    ELSE kb

\* Mutant: only the left shift key is released.
MutantChangeModifiers(kb, set, clear) ==
    UpdateModifier(
        UpdateModifier(kb, "SHIFT", set, clear, <<"LSHIFT">>, <<"LSHIFT">>),
        "ALTGR", set, clear, <<"ALTGR">>,
        <<"ALTGR", "LALT", "RALT", "LCTRL", "RCTRL">>)

ChangeModifiers(kb, set, clear) ==
    UpdateModifier(
        UpdateModifier(kb, "SHIFT", set, clear, <<"LSHIFT">>, <<"LSHIFT", "RSHIFT">>),
        "ALTGR", set, clear, <<"ALTGR">>,
        <<"ALTGR", "LALT", "RALT", "LCTRL", "RCTRL">>)

guac_rdp_keyboard_update_modifiers(kb, setFlags, clearFlags) ==
    ChangeModifiers(kb, setFlags \ guac_rdp_keyboard_get_modifier_flags(kb),
                    clearFlags \cap guac_rdp_keyboard_get_modifier_flags(kb))

\* The key's event, after what its definition d requires.
SendDefinition(kb, d, def, pressed) ==
    LET ready == IF pressed
                 THEN guac_rdp_keyboard_update_modifiers(
                        guac_rdp_keyboard_update_locks(kb, def.setLocks,
                                                       def.clearLocks),
                        def.set, def.clear)
                 ELSE kb
    IN  IF def.scancode = 0 THEN <<kb, 0>>
        ELSE <<guac_rdp_send_key_event(ready, def, pressed), d>>

\* <<keyboard, definition or 0>>
guac_rdp_keyboard_send_defined_key(kb, keysym, pressed) ==
    LET d == guac_rdp_keyboard_get_definition(kb, keysym)
    IN  SendDefinition(kb, d, Definitions(keysym)[d], pressed)

\* A dead key and the base character, if the keymap has both.
CanDecompose(keysym) ==
    /\ keysym \in DOMAIN Decomposed
    /\ \A i \in 1 .. 2 : guac_rdp_keyboard_is_defined(Decomposed[keysym][i])

guac_rdp_decompose_keysym(kb, keysym) ==
    LET dead == Decomposed[keysym][1]
        base == Decomposed[keysym][2]
        Tap(k, key) == Synthetic(Synthetic(k, <<key>>, TRUE), <<key>>, FALSE)
    IN  Tap(Tap(kb, dead), base)

guac_rdp_keyboard_send_missing_key(kb, keysym) ==
    IF CanDecompose(keysym) THEN guac_rdp_decompose_keysym(kb, keysym)
    ELSE IF keysym \in Codepoints THEN guac_rdp_send_unicode_event(kb, keysym)
    ELSE kb

\* Every key still pressed is released.
guac_rdp_keyboard_reset(kb) ==
    FoldLeft(LAMBDA k, key : IF k.pressed[key.keysym] = 0 THEN k
                             ELSE guac_rdp_keyboard_update_keysym(
                                    k, key.keysym, FALSE, "SYNTHETIC"),
             kb, Keys)

\* What the user holds, as far as the keymap knows it.
CountUserPressed(kb, keysym, pressed) ==
    IF Defined(keysym) /\ (keysym \in kb.user) /= pressed
    THEN [kb EXCEPT !.user = IF pressed THEN @ \cup {keysym} ELSE @ \ {keysym},
                    !.userPressed = IF pressed THEN @ + 1 ELSE @ - 1]
    ELSE kb

\* A lock changes when its key is pressed.
Toggled(kb, keysym, pressed) ==
    LET toggled == guac_rdp_keyboard_lock_flag(keysym)
    IN  IF pressed THEN [kb EXCEPT !.locks = (@ \ toggled) \cup (toggled \ @)]
        ELSE kb

\* What was sent is remembered; a key that could not be is typed in another way.
AfterSending(sent, keysym, pressed) ==
    LET kb == IF Defined(keysym)
              THEN [sent[1] EXCEPT !.pressed[keysym] =
                                       IF pressed THEN sent[2] ELSE 0]
              ELSE sent[1]
    IN  IF sent[2] = 0 /\ pressed
        THEN guac_rdp_keyboard_send_missing_key(kb, keysym) ELSE kb

PressOrRelease(kb, keysym, pressed) ==
    AfterSending(
        IF Defined(keysym)
        THEN guac_rdp_keyboard_send_defined_key(kb, keysym, pressed)
        ELSE <<kb, 0>>, keysym, pressed)

\* The server is told of the locks before the first key.
Synchronized(kb) ==
    IF kb.synchronized THEN kb
    ELSE [guac_rdp_send_synchronize_event(kb, kb.locks) EXCEPT !.synchronized = TRUE]

\* A key that changes its state is sent; once users hold no key, none stays down.
UpdateCounted(kb, keysym, pressed) ==
    IF ~Defined(keysym) \/ guac_rdp_keyboard_is_pressed(kb, keysym) /= pressed
    THEN PressOrRelease(Toggled(kb, keysym, pressed), keysym, pressed)
    ELSE kb

ResetIfReleased(kb) ==
    IF kb.userPressed = 0 THEN guac_rdp_keyboard_reset(kb) ELSE kb

guac_rdp_keyboard_update_keysym(kb, keysym, pressed, source) ==
    IF source = "CLIENT"
    THEN ResetIfReleased(UpdateCounted(
            CountUserPressed(Synchronized(kb), keysym, pressed), keysym, pressed))
    ELSE UpdateCounted(Synchronized(kb), keysym, pressed)

-----------------------------------------------------------------------------
(* The server.                                                             *)

ScancodesOf(keysym) ==
    {Keymap[i].scancode : i \in {j \in DOMAIN Keymap : Keymap[j].keysym = keysym}}

ServerModifiers(down) ==
    LET Holds(keysym) == ScancodesOf(keysym) \cap down /= {}
    IN  (IF Holds("LSHIFT") \/ Holds("RSHIFT") THEN {"SHIFT"} ELSE {})
        \cup (IF Holds("ALTGR") \/ Holds("RALT")
                 \/ (Holds("LALT") /\ (Holds("LCTRL") \/ Holds("RCTRL")))
              THEN {"ALTGR"} ELSE {})

\* The keysyms the layout gives a scancode.
Types(scancode, modifiers, locks) ==
    {Keymap[i].keysym : i \in {j \in DOMAIN Keymap :
        /\ Keymap[j].scancode = scancode
        /\ Keymap[j].set \subseteq modifiers
        /\ Keymap[j].clear \cap modifiers = {}
        /\ Keymap[j].setLocks \subseteq locks
        /\ Keymap[j].clearLocks \cap locks = {}}}

Receive(s, e) ==
    CASE e.type = "sync" -> [s EXCEPT !.locks = e.locks]
      [] e.type = "unicode" -> [s EXCEPT !.typed = Append(@, {e.keysym})]
      [] e.type = "key" /\ ~e.pressed -> [s EXCEPT !.down = @ \ {e.scancode}]
      [] e.type = "key" /\ e.pressed ->
            LET toggled == UNION {guac_rdp_keyboard_lock_flag(k) :
                                    k \in {l \in {"CAPS_LOCK", "NUM_LOCK"} :
                                            e.scancode \in ScancodesOf(l)}}
            IN  [s EXCEPT !.typed = Append(@, Types(e.scancode,
                                                ServerModifiers(s.down), s.locks)),
                          !.down = @ \cup {e.scancode},
                          !.locks = (@ \ toggled) \cup (toggled \ @)]

-----------------------------------------------------------------------------

RdpKeyboardInit ==
    /\ keyboard = guac_rdp_keyboard_alloc
    /\ server = [down |-> {}, locks |-> {}, typed |-> <<>>]
    /\ asked = ""
    /\ kheld = {}

\* guac_rdp_handle_key_event(): the state of a key of the users changes.
guac_rdp_handle_key_event(keysym, pressed) ==
    /\ \E kb \in {guac_rdp_keyboard_update_keysym(keyboard, keysym, pressed, "CLIENT")} :
         /\ keyboard' = [kb EXCEPT !.sent = <<>>]
         /\ server' = FoldLeft(Receive, [server EXCEPT !.typed = <<>>], kb.sent)
    /\ asked' = IF pressed /\ ~guac_rdp_keyboard_is_pressed(keyboard, keysym)
                THEN keysym ELSE ""

PressKey(keysym) ==
    /\ Cardinality(kheld) < MaxHeld
    /\ guac_rdp_handle_key_event(keysym, TRUE)
    /\ kheld' = kheld \cup {keysym}

ReleaseKey(keysym) ==
    /\ keysym \in kheld
    /\ guac_rdp_handle_key_event(keysym, FALSE)
    /\ kheld' = kheld \ {keysym}

\* The locks of the server change and it tells (guac_rdp_keyboard_set_indicators()).
guac_rdp_keyboard_set_indicators(locks) ==
    /\ keyboard.synchronized
    /\ keyboard' = [keyboard EXCEPT !.locks = locks]
    /\ server' = [server EXCEPT !.locks = locks, !.typed = <<>>]
    /\ asked' = ""
    /\ UNCHANGED kheld

RdpKeyboardNext ==
    \/ \E keysym \in KeyInputs : PressKey(keysym) \/ ReleaseKey(keysym)
    \/ \E locks \in SUBSET {"CAPS"} : guac_rdp_keyboard_set_indicators(locks)

RdpKeyboardTypeOK ==
    /\ keyboard.locks \subseteq {"CAPS", "NUM"}
    /\ keyboard.userPressed \in 0 .. MaxHeld
    /\ \A k \in DOMAIN keyboard.pressed :
            keyboard.pressed[k] \in 0 .. Len(Definitions(k))

\* A key that a user presses types the character the user means, whatever keys
\* are held (by users, or to type something else) and whatever locks are set:
\* directly, as a dead key and a base character, or as Unicode.  (But for a
\* character that is composed with a key that is already held.)
TypedAsMeant ==
    (/\ asked /= ""
     /\ Defined(asked) \/ asked \in Codepoints
     /\ CanDecompose(asked) =>
            \A i \in 1 .. 2 : Decomposed[asked][i] \notin kheld) =>
        /\ server.typed /= <<>>
        /\ \/ asked \in Last(server.typed)
           \/ /\ CanDecompose(asked)
              /\ Decomposed[asked][2] \in Last(server.typed)
              /\ \E i \in 1 .. Len(server.typed) - 1 :
                    Decomposed[asked][1] \in server.typed[i]

\* Nothing stays pressed on the server once the users hold no key that the
\* keymap knows, and the keyboard agrees with the server about the locks.
NothingStuck ==
    /\ (\A k \in kheld : ~Defined(k)) => server.down = {}
    /\ keyboard.synchronized => keyboard.locks = server.locks

\* Whatever keys, locks and modifiers users hold, the server types what they
\* typed and keeps no key down once they let go.
KeyboardSound ==
  /\ RdpKeyboardTypeOK
  /\ TypedAsMeant
  /\ NothingStuck

=============================================================================
