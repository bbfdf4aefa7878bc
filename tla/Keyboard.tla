------------------------------ MODULE Keyboard ------------------------------
(***************************************************************************)
(* The PS/2 keyboard driver, core/drivers/ps2_keyboard.c, between a        *)
(* keyboard that sends scancodes of set 1 and the core process that pulls  *)
(* the events.  There is a core process throughout; Kernel.tla has what    *)
(* happens without one.                                                    *)
(*                                                                         *)
(* Every interrupt is one action.  The wait of ps2_read for the second     *)
(* byte of a pair, with interrupts disabled, is not a step: the keyboard   *)
(* always sends it.                                                        *)
(***************************************************************************)
EXTENDS Integers, SequencesExt

CONSTANTS
    Keys,       \* the keys somebody types on, as [ext : BOOLEAN, code : scancode]
    MaxWire,    \* bound: bytes under way
    MaxQueue    \* bound: events in the queue

SCANCODE_MAX == 128
Prefix == 224   \* 0xE0, sent before the scancode of an extended key

(* No key has the scancode whose release would be the prefix.              *)
ASSUME KeysAssumption ==
    /\ Keys \subseteq [ext : BOOLEAN, code : (1..(SCANCODE_MAX - 1)) \ {Prefix - SCANCODE_MAX}]
    /\ MaxWire \in Nat /\ MaxQueue \in Nat

VARIABLES
    key_states, \* the keycodes whose state is true
    events,     \* the queue of the core process
    held,       \* keys that are down
    repeating,  \* the key that the keyboard repeats: none or one, as a set
    wire,       \* bytes sent and not yet read
    seen,       \* keycodes that are down, as the core process knows from its events
    typed       \* characters typed of which the core process has no event yet

vars == <<key_states, events, held, repeating, wire, seen, typed>>

-----------------------------------------------------------------------------
(* The tables of ps2_keyboard_init.                                        *)

None == "none"
KEYS_LEFT_SHIFT == "left shift"
KEYS_RIGHT_SHIFT == "right shift"

Row(first, keys) == [s \in first..(first + Len(keys) - 1) |-> keys[s - first + 1]]

Digits == <<"1", "2", "3", "4", "5", "6", "7", "8", "9", "0", "-", "=">>
Upper == <<"q", "w", "e", "r", "t", "y", "u", "i", "o", "p", "[", "]">>
Home == <<"a", "s", "d", "f", "g", "h", "j", "k", "l", ";", "'", "backquote">>
Lower == <<"z", "x", "c", "v", "b", "n", "m", ",", ".", "/">>

scs_mapping ==
    Row(2, Digits) @@ Row(16, Upper) @@ Row(30, Home) @@ Row(44, Lower)
    @@ Row(42, <<KEYS_LEFT_SHIFT, "backslash">>) @@ Row(54, <<KEYS_RIGHT_SHIFT>>) @@ Row(57, <<" ">>)
    @@ [s \in 0..(SCANCODE_MAX - 1) |-> None]

Printable == Range(Digits \o Upper \o Home \o Lower \o <<"backslash", " ">>)
Keycodes == Printable \union {KEYS_LEFT_SHIFT, KEYS_RIGHT_SHIFT}

shift_mapping ==
    LET plain == Digits \o Upper \o Home \o Lower \o <<"backslash", " ">>
        shifted ==
            <<"!", "@", "#", "$", "%", "^", "&", "*", "(", ")", "_", "+",
              "Q", "W", "E", "R", "T", "Y", "U", "I", "O", "P", "{", "}",
              "A", "S", "D", "F", "G", "H", "J", "K", "L", ":", "double quote", "~",
              "Z", "X", "C", "V", "B", "N", "M", "<", ">", "?", "|", " ">>
    IN  [k \in Printable |-> shifted[CHOOSE i \in DOMAIN plain : plain[i] = k]]

Characters == Printable \union Range(shift_mapping)

(* No two scancodes are the same key, every character has another one, and *)
(* a shift key has none.                                                   *)
ASSUME TablesAssumption ==
    /\ DOMAIN scs_mapping = 0..(SCANCODE_MAX - 1)
    /\ Printable \intersect {None, KEYS_LEFT_SHIFT, KEYS_RIGHT_SHIFT} = {}
    /\ \A s, t \in DOMAIN scs_mapping :
        scs_mapping[s] = scs_mapping[t] => s = t \/ scs_mapping[s] = None
    /\ Range(scs_mapping) = Keycodes \union {None}
    /\ \A k, l \in Printable : shift_mapping[k] = shift_mapping[l] => k = l

-----------------------------------------------------------------------------
(* The driver.                                                             *)

Event(kind, keycode, repeat) == [kind |-> kind, keycode |-> keycode, repeat |-> repeat]

is_shift_pressed(states) == KEYS_LEFT_SHIFT \in states \/ KEYS_RIGHT_SHIFT \in states

(* Mutant: the state is left as it is.                                     *)
KeyReleaseStuck(keycode) ==
    /\ events' = Append(events, Event("KEY_UP", keycode, FALSE))
    /\ key_states' = key_states

key_release(keycode) ==
    /\ events' = Append(events, Event("KEY_UP", keycode, FALSE))
    /\ key_states' = key_states \ {keycode}

(* The event for a printable character, as the shift keys are then.        *)
CharEvent(keycode, states) ==
    IF keycode \notin Printable THEN <<>>
    ELSE <<Event("CHAR", IF is_shift_pressed(states) THEN shift_mapping[keycode] ELSE keycode, FALSE)>>

(* Mutant: the state is set before it is put in the event.                 *)
KeyPressSetFirst(keycode) ==
    /\ key_states' = key_states \union {keycode}
    /\ events' = events \o <<Event("KEY", keycode, keycode \in key_states')>>
                        \o CharEvent(keycode, key_states')

(* A key press that is not the first of its key is marked as a repetition. *)
key_press(keycode) ==
    /\ key_states' = key_states \union {keycode}
    /\ events' = events \o <<Event("KEY", keycode, keycode \in key_states)>>
                        \o CharEvent(keycode, key_states')

(* Mutant: the second byte of a pair is left for the next interrupt.       *)
ReadOne(bytes) == Tail(bytes)

(* What the handler leaves in the wire.                                    *)
Read(bytes) == IF Head(bytes) = Prefix THEN Tail(Tail(bytes)) ELSE Tail(bytes)

(* Mutant: the key need not be in the table.                               *)
TransformAll(scancode) ==
    IF scancode <= SCANCODE_MAX THEN key_press(scs_mapping[scancode])
    ELSE key_release(scs_mapping[scancode - SCANCODE_MAX])

(* A byte with the top bit is a release; keys that are not in the table    *)
(* are ignored.  (The tables end before SCANCODE_MAX itself; no keyboard   *)
(* sends that byte.)                                                       *)
Transform(scancode) ==
    LET keycode == scs_mapping[scancode % SCANCODE_MAX] IN
    IF keycode = None THEN UNCHANGED <<events, key_states>>
    ELSE IF scancode <= SCANCODE_MAX THEN key_press(keycode)
    ELSE key_release(keycode)

(* handle_keyboard_irq: an extended key is read and ignored.               *)
KeyboardIRQ ==
    /\ wire # <<>> /\ Len(events) < MaxQueue
    /\ IF Head(wire) = Prefix THEN UNCHANGED <<events, key_states>> ELSE Transform(Head(wire))
    /\ wire' = Read(wire)
    /\ UNCHANGED <<held, repeating, seen, typed>>

-----------------------------------------------------------------------------
(* The keyboard and who types on it.                                       *)

Sent(key, code) == IF key.ext THEN <<Prefix, code>> ELSE <<code>>

Keycode(key) == IF key.ext THEN None ELSE scs_mapping[key.code]
Down == {Keycode(key) : key \in held} \ {None}

(* The character that somebody means by a key.                             *)
Meant(key) ==
    LET k == Keycode(key) IN
    IF k \notin Printable THEN <<>>
    ELSE IF \E s \in {KEYS_LEFT_SHIFT, KEYS_RIGHT_SHIFT} : s \in Down THEN <<shift_mapping[k]>>
    ELSE <<k>>

Send(bytes) == wire' = wire \o bytes /\ Len(wire') <= MaxWire

Press(key) ==
    /\ key \notin held
    /\ Send(Sent(key, key.code))
    /\ held' = held \union {key} /\ repeating' = {key}
    /\ typed' = typed \o Meant(key)
    /\ UNCHANGED <<key_states, events, seen>>

Repeat(key) ==
    /\ key \in repeating
    /\ Send(Sent(key, key.code))
    /\ typed' = typed \o Meant(key)
    /\ UNCHANGED <<key_states, events, held, repeating, seen>>

Release(key) ==
    /\ key \in held
    /\ Send(Sent(key, key.code + SCANCODE_MAX))
    /\ held' = held \ {key} /\ repeating' = repeating \ {key}
    /\ UNCHANGED <<key_states, events, seen, typed>>

-----------------------------------------------------------------------------
(* The core process, which keeps track of the keys.                        *)

After(down, event) ==
    CASE event.kind = "KEY" -> down \union {event.keycode}
      [] event.kind = "KEY_UP" -> down \ {event.keycode}
      [] OTHER -> down

PullEvent ==
    /\ events # <<>>
    /\ events' = Tail(events)
    /\ seen' = After(seen, Head(events))
    /\ typed' = IF Head(events).kind = "CHAR" /\ typed # <<>> THEN Tail(typed) ELSE typed
    /\ UNCHANGED <<key_states, held, repeating, wire>>

Init ==
    /\ key_states = {} /\ events = <<>>
    /\ held = {} /\ repeating = {} /\ wire = <<>>
    /\ seen = {} /\ typed = <<>>

Next ==
    \/ KeyboardIRQ
    \/ PullEvent
    \/ \E key \in Keys : Press(key) \/ Repeat(key) \/ Release(key)

Spec == Init /\ [][Next]_vars

-----------------------------------------------------------------------------
(* Properties.                                                             *)

TypeOK ==
    /\ key_states \subseteq Keycodes /\ seen \subseteq Keycodes
    /\ \A i \in DOMAIN events :
        /\ events[i].kind \in {"KEY", "KEY_UP", "CHAR"} /\ events[i].repeat \in BOOLEAN
        /\ events[i].keycode \in IF events[i].kind = "CHAR" THEN Characters ELSE Keycodes
    /\ held \subseteq Keys /\ repeating \subseteq held /\ Cardinality(repeating) <= 1
    /\ wire \in Seq(0..255) /\ typed \in Seq(Characters)

(* The keys that are down after the first n events of a stream, of which   *)
(* those of down were when it began: each was pressed, or was one of those,*)
(* and has not been released since.                                        *)
Following(down, stream, n) ==
    LET Releases(i, k) == stream[i].kind = "KEY_UP" /\ stream[i].keycode = k
    IN  {k \in Keycodes :
            \/ k \in down /\ \A i \in 1..n : ~Releases(i, k)
            \/ \E i \in 1..n :
                /\ stream[i].kind = "KEY" /\ stream[i].keycode = k
                /\ \A j \in (i + 1)..n : ~Releases(j, k)}

(* What a process knows from the first n events of the queue.              *)
Known(n) == Following(seen, events, n)

(* The events of each key alternate: a first press that is not marked as a *)
(* repetition, repetitions that are, and one release.                      *)
StreamAgrees ==
    \A i \in DOMAIN events :
        LET event == events[i] IN
        /\ event.kind = "KEY" => (event.repeat <=> event.keycode \in Known(i - 1))
        /\ event.kind = "KEY_UP" => event.keycode \in Known(i - 1)

(* No key is stuck and none is missed: once all bytes are handled, what    *)
(* the driver takes to be down is what is down, and the events say so too. *)
StatesAgree ==
    /\ wire = <<>> => key_states = Down
    /\ Known(Len(events)) = key_states

(* The characters among the first n events of a stream.                    *)
CharsTo(stream, n) == Cardinality({i \in 1..n : stream[i].kind = "CHAR"})

(* The characters arrive as they were typed, each once, with the shift     *)
(* keys as they were when it was typed.                                    *)
CharsAsTyped ==
    /\ \A i \in DOMAIN events : events[i].kind = "CHAR" =>
        /\ CharsTo(events, i) <= Len(typed)
        /\ events[i].keycode = typed[CharsTo(events, i)]
    /\ wire = <<>> => CharsTo(events, Len(events)) = Len(typed)
=============================================================================
