------------------------------ MODULE Keyboard ------------------------------
(***************************************************************************)
(* The PS/2 keyboard driver: kernel/src/device/keyboard/keyboard.c and     *)
(* keycode.c.                                                              *)
(*                                                                         *)
(* A key on the keyboard has a name, a scan code, and is extended if its   *)
(* bytes are prefixed with 0xe0.  The controller holds the bytes of the    *)
(* keys pressed and released until the interrupt handler reads them, one   *)
(* byte for each interrupt.  Scan codes are named by the key of the plain  *)
(* set.                                                                    *)
(***************************************************************************)
EXTENDS Integers, Sequences, SequencesExt, FiniteSetsExt

CONSTANT MaxBytes  \* bound: bytes in the controller before the user waits for them

Prefix == [code |-> "e0", release |-> FALSE]

VARIABLES
  keys,          \* external: the keys that are used: name, code and ext of each
  bytes,         \* external: the bytes in the controller's output buffer
  held,          \* external: the keys that are physically down
  is_extended,   \* the last byte was 0xe0
  keystate,      \* the keystate_ variables that are true
  toggled        \* the lock keys whose state variable is true

keyVars == <<keys, bytes, held, is_extended, keystate, toggled>>

KeyboardInit(ks) ==
  /\ keys = ks
  /\ bytes = <<>> /\ held = {}
  /\ is_extended = FALSE
  /\ keystate = {} /\ toggled = {}

Reserved == "reserved"
Modifiers == {"lshift", "rshift", "lctrl", "rctrl", "lalt", "ralt"}
Shifts == {"lshift", "rshift"}
LockKeys == {"caps", "num", "scroll"}

\* The bytes a key sends when it goes down or up.
BytesOf(key, up) ==
  LET code == [code |-> key.code, release |-> up]
  IN IF key.ext THEN <<Prefix, code>> ELSE <<code>>

\* A key goes down, or repeats while it is down (the typist holds down at most
\* one key besides the modifiers) ...
Press(key) ==
  /\ Len(bytes) < MaxBytes
  /\ {k \in held : k.name \notin Modifiers} \subseteq {key} \/ key.name \in Modifiers
  /\ bytes' = bytes \o BytesOf(key, FALSE)
  /\ held' = held \union {key}
  /\ UNCHANGED <<keys, is_extended, keystate, toggled>>

\* ... and up.
Release(key) ==
  /\ Len(bytes) < MaxBytes
  /\ key \in held
  /\ bytes' = bytes \o BytesOf(key, TRUE)
  /\ held' = held \ {key}
  /\ UNCHANGED <<keys, is_extended, keystate, toggled>>

\* keycode_get_by_scancode and keycode_get_keypad_by_scancode.  The table of the
\* extended set has the right ctrl and alt keys and nothing else.
Keycode(code, ext) ==
  IF ~ext THEN code
  ELSE CASE code = "lctrl" -> "rctrl" [] code = "lalt" -> "ralt" [] OTHER -> Reserved

\* What is assumed of a keyboard: a name is the name of one key, no key has the
\* code of the prefix, and the driver knows the modifiers.
IsKeyboard(ks) ==
  /\ ks \subseteq [name : STRING, code : STRING \ {"e0"}, ext : BOOLEAN]
  /\ \A k, l \in ks : k.name = l.name => k = l
  /\ \A k \in ks : \/ Keycode(k.code, k.ext) = k.name
                   \/ {Keycode(k.code, k.ext), k.name} \cap Modifiers = {}

\* Mutant: the prefix stays in force when the key is unknown.
ExtendedAfter_stuck(byte) ==
  byte = Prefix \/ (is_extended /\ Keycode(byte.code, is_extended) = Reserved)

\* is_extended after a byte.
ExtendedAfter(byte) == byte = Prefix

\* _set_key_state.
KeyStateAfter(keycode, pressed) ==
  IF keycode \notin Modifiers THEN keystate
  ELSE IF pressed THEN keystate \union {keycode} ELSE keystate \ {keycode}

\* What _process_scan_code publishes.
KeyData(keycode, pressed) ==
  [code |-> keycode, pressed |-> pressed,
   shift |-> KeyStateAfter(keycode, pressed) \cap Shifts # {}]

\* keyboard_callback and _process_scan_code up to kevent_publish: read a byte;
\* a prefix or an unknown key changes nothing else.
ReadByte(keycode) ==
  LET byte == Head(bytes)
      known == byte # Prefix /\ keycode # Reserved
  IN /\ bytes' = Tail(bytes)
     /\ is_extended' = ExtendedAfter(byte)
     /\ keystate' = IF known THEN KeyStateAfter(keycode, ~byte.release) ELSE keystate
     /\ toggled' = IF known /\ keycode \in LockKeys /\ ~byte.release
                   THEN SymDiff(toggled, {keycode}) ELSE toggled
     /\ UNCHANGED <<keys, held>>

-----------------------------------------------------------------------------
\* The driver knows which modifiers are down: once every byte has been read,
\* the shift, ctrl and alt states are those of the keys, whatever extended or
\* unknown keys were pressed in between and in whatever order keys came up.
ModifiersTracked ==
  bytes = <<>> =>
    keystate = {key.name : key \in held} \cap Modifiers
=============================================================================
