------------------------------ MODULE Guaclog ------------------------------
(***************************************************************************)
(* guaclog: the keys of a recording as readable text.  Modifier keys are   *)
(* kept in the order in which they were pressed, until all that were       *)
(* pressed after them are released; a key that is pressed while one of     *)
(* them makes shortcuts is written with the names of all that are kept.    *)
(*                                                                         *)
(* A key has a name, which is its keysym here, and may have a value, the   *)
(* bytes it types.                                                         *)
(***************************************************************************)
EXTENDS Integers, FiniteSets, SequencesExt

CONSTANTS GUACLOG_MAX_KEYS,
          Keysyms,     \* bound: the keys of recordings
          MaxKeys      \* bound: "key" instructions in a recording

VARIABLES key_states,  \* the modifiers in guaclog_state
          output,      \* what was written, and for what
          held,        \* the modifiers that are pressed
          keysLeft

logVars == <<key_states, output, held, keysLeft>>

NULL == <<-1>>

-----------------------------------------------------------------------------
(* Keys *)

\* The modifiers among known_keys: AltGr and Shift change what is typed, and with
\* Ctrl, Meta, Alt, Super and Hyper nothing is typed.
ShiftKeys == {65027, 65505, 65506}
CommandKeys == {65507, 65508} \cup (65511 .. 65518)

\* Return, Space, Enter and the keypad type something, the other keys of known_keys
\* have a name only: Backspace to Escape, Home to End, Insert, Undo, Help, Num, the
\* keypad's, F1 to F24, Caps and Delete.
KnownValue(keysym) ==
    CASE keysym \in ShiftKeys -> <<>>
      [] keysym \in {65293, 65421} -> <<10>>
      [] keysym = 65408 -> <<32>>
      [] keysym \in {65450, 65451} \cup (65453 .. 65465) -> <<keysym - 65408>>
      [] OTHER -> NULL

KnownKeys ==
    ShiftKeys \cup CommandKeys
        \cup {65293, 65421, 65408, 65450, 65451} \cup (65453 .. 65465)
        \cup {65288, 65289, 65291, 65299, 65300, 65301, 65307}
        \cup (65360 .. 65367) \cup {65379, 65381, 65386, 65407}
        \cup (65429 .. 65436) \cup {65438} \cup (65470 .. 65493) \cup {65509, 65535}

\* The bytes guaclog_get_unicode_key() makes of a code point.
Unicode(c) ==
    CASE c <= 127  -> <<c>>
      [] c > 127 /\ c <= 2047 -> <<192 + (c \div 64), 128 + (c % 64)>>
      [] OTHER -> <<224 + (c \div 4096), 128 + ((c \div 64) % 64), 128 + (c % 64)>>

IsUnicode(keysym) == keysym \in 0 .. 255 \/ keysym \in 16777216 .. 16842751

guaclog_keydef_alloc(keysym) ==
    [keysym |-> keysym,
     modifier |-> keysym \in ShiftKeys \cup CommandKeys,
     value |-> CASE keysym \in KnownKeys -> KnownValue(keysym)
                 [] keysym \notin KnownKeys /\ IsUnicode(keysym) -> Unicode(keysym % 65536)
                 [] OTHER -> NULL]

-----------------------------------------------------------------------------
(* The state of the keyboard *)

\* An entry of the key is replaced where it is.
guaclog_state_add_key(keydef, pressed) ==
    LET entry == [keydef |-> keydef, pressed |-> pressed]
        same == {i \in DOMAIN key_states : key_states[i].keydef.keysym = keydef.keysym}
    IN  IF same /= {} THEN [key_states EXCEPT ![CHOOSE i \in same : TRUE] = entry]
        ELSE Append(key_states, entry)

\* Mutant: the entry of a released key is removed with those after it.
MutantTrim(states) ==
    LET up == {i \in DOMAIN states : ~states[i].pressed}
    IN  IF up = {} THEN states ELSE SubSeq(states, 1, Min(up) - 1)

guaclog_state_trim_keys(states) ==
    LET down == {i \in DOMAIN states : states[i].pressed}
    IN  IF down = {} THEN <<>> ELSE SubSeq(states, 1, Max(down))

\* Entries count though their key may have been released.
guaclog_state_is_shortcut(states) ==
    \E i \in DOMAIN states : states[i].keydef.value = NULL

\* What is written for a key: the names before it if it is part of a shortcut, and its
\* value, or its name if it has none.
Logged(states, keydef) ==
    [shortcut |-> IF guaclog_state_is_shortcut(states)
                  THEN [i \in DOMAIN states |-> states[i].keydef.keysym] ELSE <<>>,
     value |-> keydef.value]

guaclog_state_update_key(keysym, pressed) ==
    LET keydef == guaclog_keydef_alloc(keysym)
        full == /\ Len(key_states) = GUACLOG_MAX_KEYS
                /\ \A i \in DOMAIN key_states : key_states[i].keydef.keysym /= keysym
    IN  IF keydef.modifier
        THEN /\ key_states' = IF full THEN key_states
                              ELSE guaclog_state_trim_keys(
                                        guaclog_state_add_key(keydef, pressed))
             /\ UNCHANGED output
        ELSE /\ output' = IF pressed
                          THEN Append(output, [text |-> Logged(key_states, keydef),
                                               keysym |-> keysym, held |-> held])
                          ELSE output
             /\ UNCHANGED key_states

\* guaclog_handle_key(): an instruction of a recording.
guaclog_handle_key(keysym, pressed) ==
    /\ keysLeft > 0
    /\ keysLeft' = keysLeft - 1
    /\ held' = IF keysym \notin ShiftKeys \cup CommandKeys THEN held
               ELSE IF pressed THEN held \cup {keysym} ELSE held \ {keysym}
    /\ guaclog_state_update_key(keysym, pressed)

LogInit == key_states = <<>> /\ output = <<>> /\ held = {} /\ keysLeft = MaxKeys

\* The recording is over.
LogEnd == keysLeft = 0 /\ UNCHANGED logVars

LogNext ==
    \/ \E keysym \in Keysyms, pressed \in BOOLEAN : guaclog_handle_key(keysym, pressed)
    \/ LogEnd

-----------------------------------------------------------------------------
\* The modifiers that are kept as pressed are those that are held, each is kept once,
\* and what is kept ends with one that is held, in whatever order keys are released
\* and pressed again.
ModifiersHeld ==
    /\ {key_states[i].keydef.keysym : i \in {j \in DOMAIN key_states : key_states[j].pressed}}
          = held
    /\ Cardinality({key_states[i].keydef.keysym : i \in DOMAIN key_states})
          = Len(key_states)
    /\ key_states /= <<>> => Last(key_states).pressed

\* The code point of the bytes of a character.
CodePoint(bytes) ==
    CASE Len(bytes) = 1 -> bytes[1]
      [] Len(bytes) = 2 /\ bytes[1] \in 192 .. 223 -> (bytes[1] - 192) * 64 + bytes[2] - 128
      [] Len(bytes) = 3 /\ bytes[1] \in 224 .. 239 ->
            (bytes[1] - 224) * 4096 + (bytes[2] - 128) * 64 + bytes[3] - 128
      [] OTHER -> -1

\* What is written as typed was typed: without a modifier that makes shortcuts, and its
\* bytes are those of the character of the key.  What is written as a shortcut names
\* every modifier that was held.
LogReadable ==
    \A i \in DOMAIN output :
        LET o == output[i]
        IN  /\ o.text.shortcut = <<>> => o.held \cap CommandKeys = {}
            /\ o.text.shortcut /= <<>> => o.held \subseteq ToSet(o.text.shortcut)
            /\ o.keysym \notin KnownKeys /\ IsUnicode(o.keysym) =>
                 CodePoint(o.text.value) = o.keysym % 65536

\* No modifier that is held is forgotten, in whichever order keys are released,
\* and the log reads as what was typed.
KeysKept ==
  /\ ModifiersHeld
  /\ LogReadable

=============================================================================
