--------------------------- MODULE KeyboardProofs ---------------------------
(***************************************************************************)
(* What holds of the keyboard driver for every set of keys and every bound *)
(* of Keyboard.tla: the invariants that Keyboard_typing checks.            *)
(*                                                                         *)
(* The inductive invariant extends what the properties say of the queue to *)
(* the bytes that are still under way: the wire is read as a stream of     *)
(* events too (Mark), which follows the driver's states as the queue       *)
(* follows the core process's.                                             *)
(***************************************************************************)
EXTENDS Keyboard, FiniteSetTheorems, TLAPS

Byte == 0..255

(* The byte at i is the scancode of a key that is not an extended one.     *)
Lone(bytes, i) == bytes[i] # Prefix /\ (i > 1 => bytes[i - 1] # Prefix)

(* The event that the driver will make of the byte at i.                   *)
Mark(bytes, i) ==
    IF Lone(bytes, i) /\ scs_mapping[bytes[i] % SCANCODE_MAX] # None
    THEN Event(IF bytes[i] <= SCANCODE_MAX THEN "KEY" ELSE "KEY_UP",
               scs_mapping[bytes[i] % SCANCODE_MAX], FALSE)
    ELSE Event("NONE", None, FALSE)

Marks(bytes) == [i \in DOMAIN bytes |-> Mark(bytes, i)]

(* The driver's states when it has read the byte at n.                     *)
StatesAt(n) == Following(key_states, Marks(wire), n)

(* No byte after the prefix is missing, or is a prefix itself.             *)
Paired(bytes) ==
    \A i \in DOMAIN bytes : bytes[i] = Prefix =>
        i + 1 \in DOMAIN bytes /\ bytes[i + 1] # Prefix

(* Every release under way is of a key that is down when it is read.       *)
ReleasesMeet ==
    \A i \in DOMAIN wire :
        Mark(wire, i).kind = "KEY_UP" => Mark(wire, i).keycode \in StatesAt(i - 1)

(* The character that a key makes when certain keys are down.              *)
Char(keycode, states) == IF is_shift_pressed(states) THEN shift_mapping[keycode] ELSE keycode

(* The byte at i makes a character.                                        *)
Types(bytes, i) == Mark(bytes, i).kind = "KEY" /\ Mark(bytes, i).keycode \in Printable

(* The characters that the first n bytes make.                             *)
TypedBy(bytes, n) == Cardinality({i \in 1..n : Types(bytes, i)})

(* The characters that the queue holds.                                    *)
Queued == CharsTo(events, Len(events))

(* What was typed is in the queue and under way, in the order it was typed.*)
TypedInOrder ==
    /\ Queued + TypedBy(wire, Len(wire)) = Len(typed)
    /\ \A i \in DOMAIN events : events[i].kind = "CHAR" =>
        events[i].keycode = typed[CharsTo(events, i)]
    /\ \A i \in DOMAIN wire : Types(wire, i) =>
        Char(Mark(wire, i).keycode, StatesAt(i)) = typed[Queued + TypedBy(wire, i)]

KeyEvents ==
    [kind : {"KEY", "KEY_UP"}, keycode : Keycodes, repeat : BOOLEAN]
        \union [kind : {"CHAR"}, keycode : Characters, repeat : BOOLEAN]

Typing ==
    /\ key_states \subseteq Keycodes /\ seen \subseteq Keycodes
    /\ events \in Seq(KeyEvents)
    /\ held \subseteq Keys /\ repeating \subseteq held
    /\ repeating = {} \/ \E key \in held : repeating = {key}
    /\ wire \in Seq(Byte) /\ typed \in Seq(Characters)

Wiring ==
    /\ Paired(wire)
    /\ StatesAt(Len(wire)) = Down
    /\ ReleasesMeet

Queueing ==
    /\ Known(Len(events)) = key_states
    /\ StreamAgrees

KeyboardInv == Typing /\ Wiring /\ Queueing /\ TypedInOrder

-----------------------------------------------------------------------------
(* Streams of events and the keys that are down.                           *)

LEMMA FollowSame ==
    ASSUME NEW D, NEW s, NEW t, NEW n \in Nat, \A i \in 1..n : s[i] = t[i]
    PROVE  Following(D, s, n) = Following(D, t, n)
BY DEF Following

LEMMA FollowNone ==
    ASSUME NEW D \in SUBSET Keycodes, NEW s
    PROVE  Following(D, s, 0) = D
BY DEF Following

LEMMA FollowStep ==
    ASSUME NEW D, NEW s, NEW n \in Nat,
           s[n + 1].kind = "KEY" => s[n + 1].keycode \in Keycodes
    PROVE  Following(D, s, n + 1) = After(Following(D, s, n), s[n + 1])
<1> DEFINE Ups(i, k) == s[i].kind = "KEY_UP" /\ s[i].keycode = k
           Held(n_, k) ==
               \/ k \in D /\ \A i \in 1..n_ : ~Ups(i, k)
               \/ \E i \in 1..n_ : /\ s[i].kind = "KEY" /\ s[i].keycode = k
                                   /\ \A j \in (i + 1)..n_ : ~Ups(j, k)
<1>1. \A m \in Nat : Following(D, s, m) = {k \in Keycodes : Held(m, k)}
    BY DEF Following
<1>2. ASSUME NEW k, s[n + 1].kind = "KEY", s[n + 1].keycode = k
      PROVE  Held(n + 1, k)
    BY <1>2
<1>3. ASSUME NEW k, ~(s[n + 1].kind = "KEY" /\ s[n + 1].keycode = k)
      PROVE  Held(n + 1, k) <=> Held(n, k) /\ ~Ups(n + 1, k)
    <2>1. Held(n + 1, k) => Held(n, k) /\ ~Ups(n + 1, k)
        BY <1>3
    <2>2. Held(n, k) /\ ~Ups(n + 1, k) => Held(n + 1, k)
        BY <1>3
    <2> QED BY <2>1, <2>2
<1> HIDE DEF Held
<1>4. CASE s[n + 1].kind = "KEY"
    BY <1>1, <1>2, <1>3, <1>4 DEF After
<1>5. CASE s[n + 1].kind = "KEY_UP"
    BY <1>1, <1>3, <1>5 DEF After
<1>6. CASE s[n + 1].kind # "KEY" /\ s[n + 1].kind # "KEY_UP"
    BY <1>1, <1>3, <1>6 DEF After
<1> QED BY <1>4, <1>5, <1>6

LEMMA FollowRest ==
    ASSUME NEW D, NEW s, NEW t, NEW n \in Nat, \A i \in 1..n : t[i] = s[i + 1],
           s[1].kind = "KEY" => s[1].keycode \in Keycodes
    PROVE  Following(After(D, s[1]), t, n) = Following(D, s, n + 1)
<1> DEFINE Ups(i, k) == s[i].kind = "KEY_UP" /\ s[i].keycode = k
           Presses(i, k) == s[i].kind = "KEY" /\ s[i].keycode = k
<1>1. ASSUME NEW k \in Keycodes
      PROVE  k \in Following(After(D, s[1]), t, n) <=> k \in Following(D, s, n + 1)
    <2>1. k \in Following(After(D, s[1]), t, n) <=>
            \/ k \in After(D, s[1]) /\ \A i \in 2..(n + 1) : ~Ups(i, k)
            \/ \E i \in 2..(n + 1) : Presses(i, k) /\ \A j \in (i + 1)..(n + 1) : ~Ups(j, k)
        <3>1. (\A i \in 1..n : ~(t[i].kind = "KEY_UP" /\ t[i].keycode = k))
                <=> \A i \in 2..(n + 1) : ~Ups(i, k)
            <4>1. \A i \in 2..(n + 1) : i - 1 \in 1..n /\ (i - 1) + 1 = i
                OBVIOUS
            <4> QED BY <4>1
        <3>2. ASSUME NEW i \in 1..n
              PROVE  (\A j \in (i + 1)..n : ~(t[j].kind = "KEY_UP" /\ t[j].keycode = k))
                        <=> \A j \in (i + 2)..(n + 1) : ~Ups(j, k)
            <4>1. \A j \in (i + 2)..(n + 1) : j - 1 \in (i + 1)..n /\ j - 1 \in 1..n /\ (j - 1) + 1 = j
                OBVIOUS
            <4>2. \A j \in (i + 1)..n : j + 1 \in (i + 2)..(n + 1) /\ j \in 1..n
                OBVIOUS
            <4> QED BY <4>1, <4>2
        <3>3. (\E i \in 1..n : /\ t[i].kind = "KEY" /\ t[i].keycode = k
                               /\ \A j \in (i + 1)..n : ~(t[j].kind = "KEY_UP" /\ t[j].keycode = k))
                <=> \E i \in 2..(n + 1) : Presses(i, k) /\ \A j \in (i + 1)..(n + 1) : ~Ups(j, k)
            <4> DEFINE Lasts(i) == Presses(i, k) /\ \A j \in (i + 1)..(n + 1) : ~Ups(j, k)
                       LastsRest(i) ==
                            /\ t[i].kind = "KEY" /\ t[i].keycode = k
                            /\ \A j \in (i + 1)..n : ~(t[j].kind = "KEY_UP" /\ t[j].keycode = k)
            <4>1. ASSUME NEW i \in 1..n
                  PROVE  LastsRest(i) <=> Lasts(i + 1)
                <5>1. t[i] = s[i + 1] /\ (i + 1) + 1 = i + 2
                    OBVIOUS
                <5> QED BY <3>2, <5>1
            <4>2. \A i \in 2..(n + 1) : i - 1 \in 1..n /\ (i - 1) + 1 = i
                OBVIOUS
            <4>3. \A i \in 1..n : i + 1 \in 2..(n + 1)
                OBVIOUS
            <4> HIDE DEF Lasts, LastsRest
            <4>4. (\E i \in 1..n : LastsRest(i)) <=> \E i \in 2..(n + 1) : Lasts(i)
                BY <4>1, <4>2, <4>3
            <4> QED BY <4>4 DEF Lasts, LastsRest
        <3>4. k \in Following(After(D, s[1]), t, n) <=>
                \/ k \in After(D, s[1]) /\ \A i \in 1..n : ~(t[i].kind = "KEY_UP" /\ t[i].keycode = k)
                \/ \E i \in 1..n : /\ t[i].kind = "KEY" /\ t[i].keycode = k
                                   /\ \A j \in (i + 1)..n : ~(t[j].kind = "KEY_UP" /\ t[j].keycode = k)
            BY DEF Following
        <3> QED BY <3>1, <3>3, <3>4
    <2>2. k \in Following(D, s, n + 1) <=>
            \/ k \in D /\ \A i \in 1..(n + 1) : ~Ups(i, k)
            \/ \E i \in 1..(n + 1) : Presses(i, k) /\ \A j \in (i + 1)..(n + 1) : ~Ups(j, k)
        BY DEF Following
    <2>3. 1..(n + 1) = {1} \union 2..(n + 1)
        OBVIOUS
    <2>4. k \in After(D, s[1]) <=> Presses(1, k) \/ (k \in D /\ ~Ups(1, k))
        BY DEF After
    <2> HIDE DEF Ups, Presses
    <2> QED BY <2>1, <2>2, <2>3, <2>4
<1> QED BY <1>1 DEF Following

-----------------------------------------------------------------------------
(* How many of the first n places have a property.                         *)

CountTo(S, n) == Cardinality({i \in 1..n : i \in S})

LEMMA CountSome ==
    ASSUME NEW S, NEW n \in Nat
    PROVE  /\ IsFiniteSet({i \in 1..n : i \in S})
           /\ CountTo(S, n) \in Nat
           /\ CountTo(S, 0) = 0
<1>1. IsFiniteSet({i \in 1..n : i \in S})
    BY FS_Interval, FS_Subset, 1 \in Int, n \in Int, {i \in 1..n : i \in S} \subseteq 1..n
<1>2. {i \in 1..0 : i \in S} = {}
    OBVIOUS
<1> QED BY <1>1, <1>2, FS_CardinalityType, FS_EmptySet DEF CountTo

LEMMA CountSame ==
    ASSUME NEW S, NEW T, NEW n \in Nat, \A i \in 1..n : i \in S <=> i \in T
    PROVE  CountTo(S, n) = CountTo(T, n)
<1>1. {i \in 1..n : i \in S} = {i \in 1..n : i \in T}
    OBVIOUS
<1> QED BY <1>1 DEF CountTo

LEMMA CountStep ==
    ASSUME NEW S, NEW n \in Nat
    PROVE  CountTo(S, n + 1) = CountTo(S, n) + IF n + 1 \in S THEN 1 ELSE 0
<1> DEFINE A == {i \in 1..n : i \in S}
<1>1. n + 1 \notin A
    OBVIOUS
<1>2. {i \in 1..(n + 1) : i \in S} = IF n + 1 \in S THEN A \union {n + 1} ELSE A
    OBVIOUS
<1>3. IsFiniteSet(A) /\ CountTo(S, n) \in Nat
    BY CountSome
<1>4. Cardinality(A \union {n + 1}) = Cardinality(A) + 1
    BY <1>1, <1>3, FS_AddElement
<1> QED BY <1>2, <1>3, <1>4 DEF CountTo

LEMMA CountRest ==
    ASSUME NEW S, NEW T, NEW n \in Nat, \A i \in 1..n : i \in T <=> i + 1 \in S
    PROVE  CountTo(S, n + 1) = CountTo(T, n) + IF 1 \in S THEN 1 ELSE 0
<1> DEFINE A == {i \in 1..n : i \in T}
           B == {i \in 2..(n + 1) : i \in S}
           f == [i \in A |-> i + 1]
<1>1. f \in Bijection(A, B)
    <2>1. \A i \in A : f[i] \in B
        OBVIOUS
    <2>2. \A i, j \in A : f[i] = f[j] => i = j
        OBVIOUS
    <2>3. \A b \in B : b - 1 \in A /\ f[b - 1] = b
        OBVIOUS
    <2> QED BY <2>1, <2>2, <2>3 DEF Bijection, Injection, Surjection, IsInjective
<1>2. IsFiniteSet(A) /\ CountTo(T, n) \in Nat
    BY CountSome
<1>3. IsFiniteSet(B) /\ Cardinality(B) = Cardinality(A)
    BY <1>1, <1>2, FS_Bijection DEF ExistsBijection
<1>4. 1 \notin B
    OBVIOUS
<1>5. {i \in 1..(n + 1) : i \in S} = IF 1 \in S THEN B \union {1} ELSE B
    OBVIOUS
<1>6. Cardinality(B \union {1}) = Cardinality(B) + 1
    BY <1>3, <1>4, FS_AddElement
<1> QED BY <1>2, <1>3, <1>5, <1>6 DEF CountTo

LEMMA CountWithin ==
    ASSUME NEW S, NEW n \in Nat, NEW m \in 0..n
    PROVE  /\ CountTo(S, m) <= CountTo(S, n)
           /\ m \in 1..n /\ m \in S => CountTo(S, m) \in 1..CountTo(S, n)
<1> DEFINE A == {i \in 1..m : i \in S}
           B == {i \in 1..n : i \in S}
<1>1. A \subseteq B
    OBVIOUS
<1>2. IsFiniteSet(A) /\ IsFiniteSet(B) /\ CountTo(S, m) \in Nat /\ CountTo(S, n) \in Nat
    BY CountSome
<1>3. CountTo(S, m) <= CountTo(S, n)
    BY <1>1, <1>2, FS_Subset DEF CountTo
<1>4. ASSUME m \in 1..n, m \in S
      PROVE  CountTo(S, m) # 0
    BY <1>2, <1>4, FS_EmptySet, m \in A DEF CountTo
<1> QED BY <1>2, <1>3, <1>4


-----------------------------------------------------------------------------
(* The wire as a stream.                                                   *)

LEMMA SeqElement ==
    ASSUME NEW S, NEW s \in Seq(S), NEW i \in 1..Len(s)
    PROVE  s[i] \in S
OBVIOUS

LEMMA SeqTail ==
    ASSUME NEW S, NEW s \in Seq(S), s # <<>>
    PROVE  /\ Head(s) = s[1] /\ Len(s) \in Nat \ {0} /\ DOMAIN s = 1..Len(s)
           /\ Tail(s) \in Seq(S) /\ Len(Tail(s)) = Len(s) - 1
           /\ \A i \in 1..(Len(s) - 1) : Tail(s)[i] = s[i + 1]
OBVIOUS

LEMMA SeqShort ==
    ASSUME NEW S, NEW a \in S, NEW b \in S
    PROVE  /\ <<a>> \in Seq(S) /\ Len(<<a>>) = 1 /\ <<a>>[1] = a
           /\ <<a, b>> \in Seq(S) /\ Len(<<a, b>>) = 2 /\ <<a, b>>[1] = a /\ <<a, b>>[2] = b
OBVIOUS

(* u is s followed by t.                                                   *)
Joined(s, t, u) ==
    /\ Len(u) = Len(s) + Len(t) /\ Len(s) \in Nat /\ Len(t) \in Nat
    /\ DOMAIN u = 1..Len(u) /\ DOMAIN s = 1..Len(s)
    /\ \A i \in 1..Len(s) : u[i] = s[i]
    /\ \A i \in 1..Len(t) : u[Len(s) + i] = t[i]

LEMMA SeqConcat ==
    ASSUME NEW S, NEW s \in Seq(S), NEW t \in Seq(S)
    PROVE  s \o t \in Seq(S) /\ Joined(s, t, s \o t)
BY DEF Joined

LEMMA Scancode ==
    ASSUME NEW b \in Byte
    PROVE  scs_mapping[b % SCANCODE_MAX] \in Keycodes \union {None}
<1>1. b % SCANCODE_MAX \in 0..(SCANCODE_MAX - 1)
    BY DEF SCANCODE_MAX, Byte
<1> HIDE DEF SCANCODE_MAX
<1>3. b % SCANCODE_MAX \in DOMAIN scs_mapping
    BY <1>1, TablesAssumption
<1>2. scs_mapping[b % SCANCODE_MAX] \in Range(scs_mapping)
    BY <1>3 DEF Range
<1> QED BY <1>2, TablesAssumption

LEMMA MarkKinds ==
    ASSUME NEW bytes \in Seq(Byte), NEW i \in 1..Len(bytes)
    PROVE  /\ Mark(bytes, i).kind \in {"KEY", "KEY_UP", "NONE"}
           /\ Mark(bytes, i).kind # "NONE" => Mark(bytes, i).keycode \in Keycodes
<1>1. bytes[i] \in Byte
    BY SeqElement
<1>2. scs_mapping[bytes[i] % SCANCODE_MAX] \in Keycodes \union {None}
    BY <1>1, Scancode
<1> QED BY <1>2 DEF Mark, Event

LEMMA NoMark ==
    ASSUME NEW bytes, NEW i, ~Lone(bytes, i)
    PROVE  Mark(bytes, i).kind = "NONE"
BY DEF Mark, Event

(* How many bytes one interrupt reads.                                     *)
Step(bytes) == IF Head(bytes) = Prefix THEN 2 ELSE 1

LEMMA WireRead ==
    ASSUME NEW bytes \in Seq(Byte), bytes # <<>>, Paired(bytes)
    PROVE  /\ Read(bytes) \in Seq(Byte)
           /\ Step(bytes) \in 1..2 /\ Step(bytes) <= Len(bytes)
           /\ Len(Read(bytes)) = Len(bytes) - Step(bytes)
           /\ \A i \in 1..Len(Read(bytes)) : Mark(Read(bytes), i) = Mark(bytes, i + Step(bytes))
           /\ Step(bytes) = 2 => Mark(bytes, 1).kind = "NONE" /\ Mark(bytes, 2).kind = "NONE"
           /\ Paired(Read(bytes))
<1> DEFINE n == Len(bytes)
           rest == Read(bytes)
           r == Step(bytes)
<1>1. n \in Nat \ {0} /\ Head(bytes) = bytes[1] /\ DOMAIN bytes = 1..n
    BY SeqTail
<1>2. /\ r = 2 => n >= 2 /\ bytes[1] = Prefix /\ bytes[2] # Prefix
      /\ r = 1 => bytes[1] # Prefix
      /\ r \in 1..2
    <2>1. 1 \in DOMAIN bytes
        BY <1>1
    <2>2. bytes[1] = Prefix => 2 \in DOMAIN bytes /\ bytes[2] # Prefix
        BY <2>1, 1 + 1 = 2 DEF Paired
    <2> QED BY <1>1, <2>2 DEF Step
<1>3. /\ rest \in Seq(Byte) /\ Len(rest) = n - r
      /\ \A i \in 1..(n - r) : rest[i] = bytes[i + r]
    <2>1. CASE r = 1
        BY <1>1, <2>1, SeqTail DEF Read, Step
    <2>2. CASE r = 2
        <3>1. Tail(bytes) \in Seq(Byte) /\ Len(Tail(bytes)) = n - 1 /\ Tail(bytes) # <<>>
              /\ \A i \in 1..(n - 1) : Tail(bytes)[i] = bytes[i + 1]
            <4>1. Len(Tail(bytes)) = n - 1 /\ Tail(bytes) \in Seq(Byte)
                BY SeqTail
            <4>2. Tail(bytes) # <<>>
                <5> SUFFICES ASSUME Len(Tail(bytes)) = 0
                             PROVE  FALSE
                    BY <4>1
                <5> HIDE DEF r
                <5> QED BY <1>1, <1>2, <2>2, <4>1
            <4> QED BY <4>1, <4>2, SeqTail
        <3> DEFINE one == Tail(bytes)
        <3>2. rest = Tail(one)
            BY <2>2 DEF Read, Step
        <3> HIDE DEF one, rest
        <3>3. /\ Tail(one) \in Seq(Byte) /\ Len(Tail(one)) = n - 2
              /\ \A i \in 1..(n - 2) : Tail(one)[i] = one[i + 1]
            BY <1>1, <3>1, SeqTail DEF one
        <3>4. \A i \in 1..(n - 2) : one[i + 1] = bytes[i + 2]
            BY <1>1, <3>1 DEF one
        <3> QED BY <2>2, <3>2, <3>3, <3>4
    <2> QED BY <1>2, <2>1, <2>2
<1> HIDE DEF rest, r
<1>4. \A i \in 1..(n - r) : Lone(rest, i) <=> Lone(bytes, i + r)
    <2> TAKE i \in 1..(n - r)
    <2>1. rest[i] = bytes[i + r]
        BY <1>3
    <2>2. CASE i = 1
        BY <1>1, <1>2, <2>1, <2>2 DEF Lone
    <2>3. CASE i > 1
        <3>1. rest[i - 1] = bytes[i - 1 + r] /\ i - 1 + r = i + r - 1
            BY <1>1, <1>2, <1>3, <2>3
        <3> QED BY <1>2, <2>1, <2>3, <3>1 DEF Lone
    <2> QED BY <1>1, <1>2, <2>2, <2>3
<1>5. \A i \in 1..(n - r) : Mark(rest, i) = Mark(bytes, i + r)
    BY <1>3, <1>4 DEF Mark
<1>6. r = 2 => ~Lone(bytes, 1) /\ ~Lone(bytes, 2)
    BY <1>2 DEF Lone
<1>7. Paired(rest)
    <2> SUFFICES ASSUME NEW i \in 1..(n - r), rest[i] = Prefix
                 PROVE  i + 1 \in 1..(n - r) /\ rest[i + 1] # Prefix
        BY <1>3 DEF Paired
    <2>1. i + r \in 1..n /\ bytes[i + r] = Prefix
        BY <1>1, <1>2, <1>3
    <2>2. i + r + 1 \in 1..n /\ bytes[i + r + 1] # Prefix
        BY <1>1, <2>1 DEF Paired
    <2>3. i + 1 \in 1..(n - r) /\ (i + 1) + r = i + r + 1
        BY <1>1, <1>2, <2>2
    <2> QED BY <1>3, <2>2, <2>3
<1> QED BY <1>1, <1>2, <1>3, <1>5, <1>6, <1>7, NoMark DEF rest, r

LEMMA Halves ==
    ASSUME NEW c \in 1..127, NEW up \in {0, 128}, c # 96
    PROVE  /\ c + up \in 0..255 /\ c + up # 224
           /\ (c + up) % 128 = c
           /\ c + up <= 128 <=> up = 0
<1>1. CASE up = 0
    BY <1>1
<1>2. CASE up = 128
    BY <1>2
<1> QED BY <1>1, <1>2

LEMMA KeyBytes ==
    ASSUME NEW key \in Keys, NEW up \in {0, SCANCODE_MAX}
    PROVE  LET code == key.code + up
           IN  /\ key.ext \in BOOLEAN /\ code \in Byte /\ code # Prefix
               /\ code % SCANCODE_MAX = key.code /\ (code <= SCANCODE_MAX <=> up = 0)
<1>1. key.ext \in BOOLEAN /\ key.code \in (1..(SCANCODE_MAX - 1)) \ {Prefix - SCANCODE_MAX}
    BY KeysAssumption
<1> DEFINE c == key.code
<1> HIDE DEF c
<1>2. c \in 1..127 /\ c # 96
    BY <1>1 DEF SCANCODE_MAX, Prefix, c
<1>3. up \in {0, 128}
    BY DEF SCANCODE_MAX
<1>4. /\ c + up \in 0..255 /\ c + up # 224
      /\ (c + up) % 128 = c
      /\ c + up <= 128 <=> up = 0
    BY <1>2, <1>3, Halves
<1> QED BY <1>1, <1>4 DEF SCANCODE_MAX, Prefix, Byte, c

(* What the driver will make of the bytes of one key.                      *)
SentMarks(bytes, key, up, sent) ==
    /\ Len(sent) = Len(bytes) + IF key.ext THEN 2 ELSE 1
    /\ Paired(sent)
    /\ \A i \in 1..Len(bytes) : Mark(sent, i) = Mark(bytes, i)
    /\ key.ext => /\ Mark(sent, Len(bytes) + 1).kind = "NONE"
                  /\ Mark(sent, Len(bytes) + 2).kind = "NONE"
    /\ ~key.ext /\ Keycode(key) = None => Mark(sent, Len(bytes) + 1).kind = "NONE"
    /\ Keycode(key) # None =>
        /\ ~key.ext
        /\ Mark(sent, Len(bytes) + 1) = Event(IF up = 0 THEN "KEY" ELSE "KEY_UP", Keycode(key), FALSE)

LEMMA WireSent ==
    ASSUME NEW bytes \in Seq(Byte), Paired(bytes), NEW key \in Keys,
           NEW up \in {0, SCANCODE_MAX},
           NEW added, added = Sent(key, key.code + up), NEW sent, Joined(bytes, added, sent)
    PROVE  SentMarks(bytes, key, up, sent)
<1> DEFINE code == key.code + up
           n == Len(bytes)
<1>1. /\ key.ext \in BOOLEAN /\ code \in Byte /\ code # Prefix
      /\ code % SCANCODE_MAX = key.code /\ (code <= SCANCODE_MAX <=> up = 0)
    BY KeyBytes
<1>2. /\ added \in Seq(Byte) /\ Len(added) = IF key.ext THEN 2 ELSE 1
      /\ key.ext => added[1] = Prefix /\ added[2] = code
      /\ ~key.ext => added[1] = code
    <2>1. Prefix \in Byte
        BY DEF Prefix, Byte
    <2>2. added = IF key.ext THEN <<Prefix, code>> ELSE <<code>>
        BY DEF Sent
    <2> HIDE DEF code
    <2>3. CASE key.ext
        <3>1. added = <<Prefix, code>>
            BY <2>2, <2>3
        <3>2. /\ <<Prefix, code>> \in Seq(Byte) /\ Len(<<Prefix, code>>) = 2
              /\ <<Prefix, code>>[1] = Prefix /\ <<Prefix, code>>[2] = code
            BY <1>1, <2>1, SeqShort
        <3>3. added \in Seq(Byte) /\ Len(added) = 2 /\ added[1] = Prefix /\ added[2] = code
            BY <3>1, <3>2
        <3> QED BY <2>3, <3>3
    <2>4. CASE ~key.ext
        <3>1. added = <<code>>
            BY <2>2, <2>4
        <3>2. /\ <<code>> \in Seq(Byte)
              /\ Len(<<code>>) = 1
              /\ <<code>>[1] = code
            BY <1>1, <2>1, SeqShort
        <3>3. added \in Seq(Byte) /\ Len(added) = 1 /\ added[1] = code
            BY <3>1, <3>2
        <3> QED BY <2>4, <3>3
    <2> QED BY <2>3, <2>4
<1>3. /\ Len(sent) = n + Len(added) /\ n \in Nat
      /\ \A i \in 1..n : sent[i] = bytes[i]
      /\ \A i \in 1..Len(added) : sent[n + i] = added[i]
      /\ DOMAIN bytes = 1..n /\ DOMAIN sent = 1..Len(sent)
    BY DEF Joined
<1> HIDE DEF code
<1>4. /\ Len(sent) = n + IF key.ext THEN 2 ELSE 1
      /\ sent[n + 1] = IF key.ext THEN Prefix ELSE code
      /\ key.ext => sent[n + 2] = code
    <2>1. CASE key.ext
        <3>1. Len(added) = 2 /\ added[1] = Prefix /\ added[2] = code
            BY <1>2, <2>1
        <3> QED BY <1>3, <2>1, <3>1
    <2>2. CASE ~key.ext
        <3>1. Len(added) = 1 /\ added[1] = code
            BY <1>2, <2>2
        <3> QED BY <1>3, <2>2, <3>1
    <2> QED BY <2>1, <2>2
<1>5. n > 0 => bytes[n] # Prefix
    <2> SUFFICES ASSUME n > 0, bytes[n] = Prefix
                 PROVE  FALSE
        OBVIOUS
    <2>1. n \in DOMAIN bytes
        BY <1>3
    <2>2. n + 1 \in DOMAIN bytes
        BY <2>1 DEF Paired
    <2> QED BY <1>3, <2>2
<1>6. \A i \in 1..n : Mark(sent, i) = Mark(bytes, i)
    <2>1. \A i \in 1..n : Lone(sent, i) <=> Lone(bytes, i)
        BY <1>3 DEF Lone
    <2> QED BY <1>3, <2>1 DEF Mark
<1>7. key.ext => ~Lone(sent, n + 1) /\ ~Lone(sent, n + 2)
    BY <1>3, <1>4 DEF Lone
<1>8. ~key.ext => Lone(sent, n + 1)
    BY <1>1, <1>3, <1>4, <1>5 DEF Lone
<1>9. Keycode(key) # None => ~key.ext /\ scs_mapping[key.code] # None /\ Keycode(key) = scs_mapping[key.code]
    BY DEF Keycode
<1>10. ~key.ext => Mark(sent, n + 1) =
            IF scs_mapping[key.code] # None
            THEN Event(IF up = 0 THEN "KEY" ELSE "KEY_UP", scs_mapping[key.code], FALSE)
            ELSE Event("NONE", None, FALSE)
    BY <1>1, <1>4, <1>8 DEF Mark
<1>11. Paired(sent)
    <2> SUFFICES ASSUME NEW i \in 1..Len(sent), sent[i] = Prefix
                 PROVE  i + 1 \in 1..Len(sent) /\ sent[i + 1] # Prefix
        BY <1>3 DEF Paired
    <2>1. CASE i \in 1..n
        <3>1. bytes[i] = Prefix /\ i \in DOMAIN bytes
            BY <1>3, <2>1
        <3>2. i + 1 \in 1..n /\ bytes[i + 1] # Prefix
            BY <1>3, <3>1 DEF Paired
        <3> QED BY <1>3, <1>4, <3>2
    <2>2. CASE i = n + 1
        BY <1>1, <1>3, <1>4, <2>2
    <2>3. CASE i = n + 2
        BY <1>1, <1>3, <1>4, <2>3
    <2>4. Len(sent) \in {n + 1, n + 2} /\ n \in Nat
        BY <1>3, <1>4
    <2>5. i \in 1..n \/ i = n + 1 \/ i = n + 2
        BY <2>4
    <2> QED BY <2>5, <2>1, <2>2, <2>3
<1>12. ~key.ext /\ Keycode(key) = None => Mark(sent, n + 1).kind = "NONE"
    BY <1>10 DEF Keycode, Event
<1>13. Keycode(key) # None =>
            Mark(sent, n + 1) = Event(IF up = 0 THEN "KEY" ELSE "KEY_UP", Keycode(key), FALSE)
    BY <1>9, <1>10
<1>14. key.ext => Mark(sent, n + 1).kind = "NONE" /\ Mark(sent, n + 2).kind = "NONE"
    BY <1>7, NoMark
<1> QED BY <1>3, <1>4, <1>6, <1>9, <1>11, <1>12, <1>13, <1>14 DEF SentMarks


-----------------------------------------------------------------------------
(* The queue as a stream.                                                  *)

Agrees(down, stream) ==
    \A i \in 1..Len(stream) :
        /\ stream[i].kind = "KEY" =>
            (stream[i].repeat <=> stream[i].keycode \in Following(down, stream, i - 1))
        /\ stream[i].kind = "KEY_UP" => stream[i].keycode \in Following(down, stream, i - 1)

InOrder(stream, chars) ==
    \A i \in 1..Len(stream) : stream[i].kind = "CHAR" =>
        stream[i].keycode = chars[CharsTo(stream, i)]

LEMMA EventKinds ==
    ASSUME NEW e \in KeyEvents
    PROVE  /\ e.kind \in {"KEY", "KEY_UP", "CHAR"} /\ e.repeat \in BOOLEAN
           /\ e.kind # "CHAR" => e.keycode \in Keycodes
           /\ e.kind = "CHAR" => e.keycode \in Characters
BY DEF KeyEvents

LEMMA CharsCount ==
    ASSUME NEW s, NEW n \in Nat
    PROVE  /\ CharsTo(s, n) = CountTo({i \in Nat : s[i].kind = "CHAR"}, n)
           /\ CharsTo(s, n) \in Nat
<1>1. {i \in 1..n : s[i].kind = "CHAR"} = {i \in 1..n : i \in {j \in Nat : s[j].kind = "CHAR"}}
    OBVIOUS
<1>2. CharsTo(s, n) = CountTo({i \in Nat : s[i].kind = "CHAR"}, n)
    BY <1>1 DEF CharsTo, CountTo
<1> QED BY <1>2, CountSome

LEMMA SeqAppend ==
    ASSUME NEW S, NEW s \in Seq(S), NEW e \in S
    PROVE  /\ Append(s, e) \in Seq(S) /\ Len(Append(s, e)) = Len(s) + 1 /\ Len(s) \in Nat
           /\ \A i \in 1..Len(s) : Append(s, e)[i] = s[i]
           /\ Append(s, e)[Len(s) + 1] = e
           /\ DOMAIN s = 1..Len(s)
OBVIOUS

LEMMA FollowQueued ==
    ASSUME NEW D, NEW s \in Seq(KeyEvents), NEW e \in KeyEvents, Agrees(D, s),
           e.kind = "KEY" => (e.repeat <=> e.keycode \in Following(D, s, Len(s))),
           e.kind = "KEY_UP" => e.keycode \in Following(D, s, Len(s))
    PROVE  /\ Agrees(D, Append(s, e))
           /\ Following(D, Append(s, e), Len(s) + 1) = After(Following(D, s, Len(s)), e)
<1> DEFINE t == Append(s, e)
           n == Len(s)
<1>1. /\ Len(t) = n + 1 /\ n \in Nat
      /\ \A i \in 1..n : t[i] = s[i]
      /\ t[n + 1] = e
    BY SeqAppend
<1> HIDE DEF t, n
<1>2. \A i \in 0..n : Following(D, t, i) = Following(D, s, i)
    BY <1>1, FollowSame
<1>3. Following(D, t, n + 1) = After(Following(D, t, n), t[n + 1])
    <2>1. t[n + 1].kind = "KEY" => t[n + 1].keycode \in Keycodes
        BY <1>1, EventKinds
    <2>2. n \in Nat
        BY <1>1
    <2> QED BY <2>1, <2>2, FollowStep
<1>4. Agrees(D, t)
    <2> SUFFICES ASSUME NEW i \in 1..(n + 1)
                 PROVE  /\ t[i].kind = "KEY" => (t[i].repeat <=> t[i].keycode \in Following(D, t, i - 1))
                        /\ t[i].kind = "KEY_UP" => t[i].keycode \in Following(D, t, i - 1)
        BY <1>1 DEF Agrees
    <2>1. CASE i \in 1..n
        <3>1. t[i] = s[i] /\ Following(D, t, i - 1) = Following(D, s, i - 1)
            BY <1>1, <1>2, <2>1
        <3> QED BY <2>1, <3>1 DEF Agrees, n
    <2>2. CASE i = n + 1
        <3>1. t[i] = e /\ Following(D, t, i - 1) = Following(D, s, n)
            BY <1>1, <1>2, <2>2
        <3> QED BY <3>1 DEF n
    <2> QED BY <1>1, <2>1, <2>2
<1> QED BY <1>1, <1>2, <1>3, <1>4 DEF t, n

LEMMA CharsQueued ==
    ASSUME NEW s \in Seq(KeyEvents), NEW e \in KeyEvents, NEW chars, InOrder(s, chars),
           e.kind = "CHAR" => e.keycode = chars[CharsTo(s, Len(s)) + 1]
    PROVE  /\ InOrder(Append(s, e), chars)
           /\ CharsTo(Append(s, e), Len(s) + 1) =
                CharsTo(s, Len(s)) + IF e.kind = "CHAR" THEN 1 ELSE 0
<1> DEFINE t == Append(s, e)
           n == Len(s)
           S == {i \in Nat : s[i].kind = "CHAR"}
           T == {i \in Nat : t[i].kind = "CHAR"}
<1>1. /\ Len(t) = n + 1 /\ n \in Nat
      /\ \A i \in 1..n : t[i] = s[i]
      /\ t[n + 1] = e
    BY SeqAppend
<1>2. \A i \in Nat : CharsTo(s, i) = CountTo(S, i) /\ CharsTo(t, i) = CountTo(T, i)
    BY CharsCount
<1>3. \A i \in 1..n : i \in S <=> i \in T
    BY <1>1
<1>4. n + 1 \in T <=> e.kind = "CHAR"
    BY <1>1
<1> HIDE DEF t, n, S, T
<1>5. \A i \in 0..n : CountTo(T, i) = CountTo(S, i)
    BY <1>1, <1>3, CountSame
<1>6. CountTo(T, n + 1) = CountTo(T, n) + IF n + 1 \in T THEN 1 ELSE 0
    BY <1>1, CountStep
<1>7. CharsTo(t, n + 1) = CharsTo(s, n) + IF e.kind = "CHAR" THEN 1 ELSE 0
    BY <1>1, <1>2, <1>4, <1>5, <1>6
<1>8. InOrder(t, chars)
    <2> SUFFICES ASSUME NEW i \in 1..(n + 1), t[i].kind = "CHAR"
                 PROVE  t[i].keycode = chars[CharsTo(t, i)]
        BY <1>1 DEF InOrder
    <2>1. CASE i \in 1..n
        <3>1. t[i] = s[i] /\ CharsTo(t, i) = CharsTo(s, i)
            BY <1>1, <1>2, <1>5, <2>1
        <3> QED BY <2>1, <3>1 DEF InOrder, n
    <2>2. CASE i = n + 1
        <3>1. t[i] = e /\ CharsTo(t, i) = CharsTo(s, n) + 1
            BY <1>1, <1>7, <2>2
        <3> QED BY <3>1 DEF n
    <2> QED BY <1>1, <2>1, <2>2
<1> QED BY <1>7, <1>8 DEF t, n

LEMMA FollowPulled ==
    ASSUME NEW D, NEW s \in Seq(KeyEvents), s # <<>>, Agrees(D, s)
    PROVE  /\ Agrees(After(D, Head(s)), Tail(s))
           /\ Following(After(D, Head(s)), Tail(s), Len(Tail(s))) = Following(D, s, Len(s))
<1> DEFINE t == Tail(s)
           n == Len(t)
           E == After(D, s[1])
<1>1. /\ Head(s) = s[1] /\ Len(s) = n + 1 /\ n \in Nat
      /\ \A i \in 1..n : t[i] = s[i + 1]
    BY SeqTail
<1>2. s[1] \in KeyEvents
    BY <1>1, SeqElement
<1> HIDE DEF t, n
<1>3. \A i \in 0..n : Following(E, t, i) = Following(D, s, i + 1)
    BY <1>1, <1>2, EventKinds, FollowRest
<1>4. Agrees(E, t)
    <2> SUFFICES ASSUME NEW i \in 1..n
                 PROVE  /\ t[i].kind = "KEY" => (t[i].repeat <=> t[i].keycode \in Following(E, t, i - 1))
                        /\ t[i].kind = "KEY_UP" => t[i].keycode \in Following(E, t, i - 1)
        BY <1>1 DEF Agrees, n
    <2>1. t[i] = s[i + 1] /\ i + 1 \in 1..Len(s) /\ (i + 1) - 1 = i
        BY <1>1
    <2>2. Following(E, t, i - 1) = Following(D, s, i)
        <3>1. i - 1 \in 0..n /\ (i - 1) + 1 = i
            BY <1>1
        <3> QED BY <1>3, <3>1
    <2> QED BY <2>1, <2>2 DEF Agrees
<1> QED BY <1>1, <1>3, <1>4 DEF t, n

LEMMA CharsPulled ==
    ASSUME NEW s \in Seq(KeyEvents), s # <<>>
    PROVE  LET first == IF s[1].kind = "CHAR" THEN 1 ELSE 0
           IN  \A i \in 0..(Len(s) - 1) : CharsTo(s, i + 1) = CharsTo(Tail(s), i) + first
<1> DEFINE t == Tail(s)
           n == Len(t)
           S == {i \in Nat : s[i].kind = "CHAR"}
           T == {i \in Nat : t[i].kind = "CHAR"}
<1>1. /\ Len(s) = n + 1 /\ n \in Nat
      /\ \A i \in 1..n : t[i] = s[i + 1]
    BY SeqTail
<1>2. \A i \in Nat : CharsTo(s, i) = CountTo(S, i) /\ CharsTo(t, i) = CountTo(T, i)
    BY CharsCount
<1>3. \A i \in 1..n : i \in T <=> i + 1 \in S
    BY <1>1
<1>4. 1 \in S <=> s[1].kind = "CHAR"
    OBVIOUS
<1> HIDE DEF t, n, S, T
<1>5. \A i \in 0..n : CountTo(S, i + 1) = CountTo(T, i) + IF 1 \in S THEN 1 ELSE 0
    BY <1>1, <1>3, CountRest
<1> QED BY <1>1, <1>2, <1>4, <1>5 DEF t


-----------------------------------------------------------------------------
(* What the steps do to the stream on the wire.                            *)

LEMMA TypesCount ==
    ASSUME NEW bytes, NEW n \in Nat
    PROVE  /\ TypedBy(bytes, n) = CountTo({i \in Nat : Types(bytes, i)}, n)
           /\ TypedBy(bytes, n) \in Nat
<1>1. {i \in 1..n : Types(bytes, i)} = {i \in 1..n : i \in {j \in Nat : Types(bytes, j)}}
    OBVIOUS
<1>2. TypedBy(bytes, n) = CountTo({i \in Nat : Types(bytes, i)}, n)
    BY <1>1 DEF TypedBy, CountTo
<1> QED BY <1>2, CountSome

LEMMA MarksAre ==
    ASSUME NEW bytes \in Seq(Byte), NEW i \in 1..Len(bytes)
    PROVE  Marks(bytes)[i] = Mark(bytes, i)
BY DEF Marks

LEMMA StatesRead ==
    ASSUME NEW bytes \in Seq(Byte), bytes # <<>>, Paired(bytes), NEW D
    PROVE  \A n \in 0..Len(Read(bytes)) :
                Following(After(D, Mark(bytes, 1)), Marks(Read(bytes)), n)
                    = Following(D, Marks(bytes), n + Step(bytes))
<1> DEFINE s == Marks(bytes)
           t == Marks(Read(bytes))
           r == Step(bytes)
           E == After(D, Mark(bytes, 1))
<1> SUFFICES ASSUME NEW n \in 0..Len(Read(bytes))
             PROVE  Following(E, t, n) = Following(D, s, n + r)
    OBVIOUS
<1>1. /\ Read(bytes) \in Seq(Byte)
      /\ r \in 1..2 /\ r <= Len(bytes) /\ Len(bytes) \in Nat
      /\ Len(Read(bytes)) = Len(bytes) - r
      /\ \A i \in 1..Len(Read(bytes)) : Mark(Read(bytes), i) = Mark(bytes, i + r)
      /\ r = 2 => Mark(bytes, 1).kind = "NONE" /\ Mark(bytes, 2).kind = "NONE"
    BY WireRead, SeqTail
<1>2. /\ \A i \in 1..Len(bytes) : s[i] = Mark(bytes, i)
      /\ \A i \in 1..n : t[i] = Mark(Read(bytes), i)
    BY <1>1, MarksAre
<1> HIDE DEF s, t, r
<1>3. /\ \A i \in 1..n : t[i] = s[i + r]
      /\ s[1] = Mark(bytes, 1)
      /\ r = 2 => s[1].kind = "NONE" /\ s[2].kind = "NONE"
    BY <1>1, <1>2
<1>4. \A i \in 1..Len(bytes) : s[i].kind = "KEY" => s[i].keycode \in Keycodes
    BY <1>2, MarkKinds
<1>5. CASE r = 1
    <2>1. s[1].kind = "KEY" => s[1].keycode \in Keycodes
        BY <1>1, <1>4
    <2>2. n \in Nat /\ \A i \in 1..n : t[i] = s[i + 1]
        BY <1>1, <1>3, <1>5
    <2>3. Following(After(D, s[1]), t, n) = Following(D, s, n + 1)
        BY <2>1, <2>2, FollowRest
    <2> QED BY <1>3, <1>5, <2>3
<1>6. CASE r = 2
    <2> DEFINE u == [i \in 1..(n + 1) |-> s[i + 1]]
    <2>1. /\ \A i \in 1..(n + 1) : u[i] = s[i + 1]
          /\ u[1] = s[2]
          /\ \A i \in 1..n : t[i] = u[i + 1]
        BY <1>3, <1>6
    <2> HIDE DEF u
    <2>2. After(D, s[1]) = D /\ After(D, u[1]) = D
        BY <1>3, <1>6, <2>1 DEF After
    <2>3. n \in Nat /\ n + 1 \in Nat /\ s[1].kind # "KEY" /\ u[1].kind # "KEY"
        BY <1>1, <1>3, <1>6, <2>1
    <2>4. Following(After(D, u[1]), t, n) = Following(D, u, n + 1)
        BY <2>1, <2>3, FollowRest
    <2>5. Following(After(D, s[1]), u, n + 1) = Following(D, s, (n + 1) + 1)
        <3> DEFINE m == n + 1
        <3>1. m \in Nat /\ \A i \in 1..m : u[i] = s[i + 1]
            BY <2>1, <2>3
        <3> HIDE DEF m
        <3>2. Following(After(D, s[1]), u, m) = Following(D, s, m + 1)
            BY <2>3, <3>1, FollowRest
        <3> QED BY <3>2 DEF m
    <2> QED BY <1>1, <1>3, <1>6, <2>2, <2>4, <2>5
<1> QED BY <1>1, <1>5, <1>6

LEMMA TypesRead ==
    ASSUME NEW bytes \in Seq(Byte), bytes # <<>>, Paired(bytes)
    PROVE  LET first == IF Types(bytes, 1) THEN 1 ELSE 0
           IN  /\ \A n \in 0..Len(Read(bytes)) :
                    TypedBy(bytes, n + Step(bytes)) = TypedBy(Read(bytes), n) + first
               /\ \A i \in 1..Len(Read(bytes)) :
                    Types(Read(bytes), i) <=> Types(bytes, i + Step(bytes))
               /\ Types(bytes, 1) => Step(bytes) = 1
<1> DEFINE rest == Read(bytes)
           r == Step(bytes)
           S == {i \in Nat : Types(bytes, i)}
           T == {i \in Nat : Types(rest, i)}
           first == IF Types(bytes, 1) THEN 1 ELSE 0
<1>1. /\ r \in 1..2 /\ r <= Len(bytes) /\ Len(bytes) \in Nat
      /\ Len(rest) = Len(bytes) - r
      /\ \A i \in 1..Len(rest) : Mark(rest, i) = Mark(bytes, i + r)
      /\ r = 2 => Mark(bytes, 1).kind = "NONE" /\ Mark(bytes, 2).kind = "NONE"
    BY WireRead, SeqTail
<1>2. /\ \A i \in 1..Len(rest) : Types(rest, i) <=> Types(bytes, i + r)
      /\ r = 2 => ~Types(bytes, 1) /\ ~Types(bytes, 2)
    BY <1>1 DEF Types
<1>3. \A n \in Nat : TypedBy(bytes, n) = CountTo(S, n) /\ TypedBy(rest, n) = CountTo(T, n)
    BY TypesCount
<1>4. /\ \A i \in 1..Len(rest) : i \in T <=> i + r \in S
      /\ r = 2 => 1 \notin S /\ 2 \notin S
      /\ 1 \in S <=> Types(bytes, 1)
    BY <1>1, <1>2
<1> HIDE DEF rest, r, S, T
<1>5. ASSUME NEW n \in 0..Len(rest)
      PROVE  CountTo(S, n + r) = CountTo(T, n) + IF 1 \in S THEN 1 ELSE 0
    <2>1. CASE r = 1
        BY <1>1, <1>4, <2>1, CountRest
    <2>2. CASE r = 2
        <3> DEFINE U == {i \in Nat : i + 1 \in S}
        <3>1. /\ \A i \in 1..(n + 1) : i \in U <=> i + 1 \in S
              /\ \A i \in 1..n : i \in T <=> i + 1 \in U
              /\ 1 \notin U /\ 1 \notin S
            BY <1>1, <1>4, <2>2
        <3> HIDE DEF U
        <3>2. CountTo(U, n + 1) = CountTo(T, n) + 0
            BY <3>1, CountRest
        <3>3. CountTo(S, (n + 1) + 1) = CountTo(U, n + 1) + 0
            BY <3>1, CountRest
        <3>4. CountTo(T, n) \in Nat
            <4>1. n \in Nat
                BY <1>1
            <4> QED BY <4>1, CountSome
        <3> QED BY <1>1, <2>2, <3>1, <3>2, <3>3, <3>4
    <2> QED BY <1>1, <2>1, <2>2
<1>6. \A n \in 0..Len(rest) : TypedBy(bytes, n + r) = TypedBy(rest, n) + first
    BY <1>1, <1>3, <1>4, <1>5
<1> QED BY <1>1, <1>2, <1>6 DEF rest, r

(* The characters of t, of whose bytes s has the first n.                  *)
TypesMore(s, t, n) ==
    /\ \A i \in 0..n : TypedBy(t, i) = TypedBy(s, i)
    /\ \A i \in 1..n : Types(t, i) <=> Types(s, i)
    /\ TypedBy(t, n + 1) = TypedBy(s, n) + IF Types(t, n + 1) THEN 1 ELSE 0
    /\ TypedBy(t, n + 2) = TypedBy(t, n + 1) + IF Types(t, n + 2) THEN 1 ELSE 0

LEMMA TypesSent ==
    ASSUME NEW s, NEW t, NEW n \in Nat, \A i \in 1..n : Mark(t, i) = Mark(s, i)
    PROVE  TypesMore(s, t, n)
<1> DEFINE S == {i \in Nat : Types(s, i)}
           T == {i \in Nat : Types(t, i)}
<1>1. \A i \in 1..n : Types(t, i) <=> Types(s, i)
    BY DEF Types
<1>2. \A i \in Nat : TypedBy(s, i) = CountTo(S, i) /\ TypedBy(t, i) = CountTo(T, i)
    BY TypesCount
<1>3. /\ \A i \in 1..n : i \in T <=> i \in S
      /\ \A i \in Nat : i \in T <=> Types(t, i)
    BY <1>1
<1> HIDE DEF S, T
<1>4. \A i \in 0..n : CountTo(T, i) = CountTo(S, i)
    BY <1>3, CountSame
<1>5. CountTo(T, n + 1) = CountTo(T, n) + IF n + 1 \in T THEN 1 ELSE 0
    BY CountStep
<1>6. CountTo(T, (n + 1) + 1) = CountTo(T, n + 1) + IF (n + 1) + 1 \in T THEN 1 ELSE 0
    BY CountStep
<1> QED BY <1>1, <1>2, <1>3, <1>4, <1>5, <1>6 DEF TypesMore


-----------------------------------------------------------------------------
(* The interrupt.                                                          *)

LEMMA CharTyped ==
    ASSUME NEW k \in Printable, NEW states
    PROVE  Char(k, states) \in Characters /\ k \in Keycodes /\ k \in Characters
<1>1. DOMAIN shift_mapping = Printable
    BY DEF shift_mapping
<1>2. shift_mapping[k] \in Range(shift_mapping)
    BY <1>1 DEF Range
<1> QED BY <1>2 DEF Char, Characters, Keycodes

LEMMA EventTyped ==
    /\ \A k \in Keycodes : \A states :
        Event("KEY", k, k \in states) \in KeyEvents /\ Event("KEY_UP", k, FALSE) \in KeyEvents
    /\ \A c \in Characters : Event("CHAR", c, FALSE) \in KeyEvents
BY DEF Event, KeyEvents

LEMMA EventFields ==
    ASSUME NEW kind, NEW k
    PROVE  /\ Event(kind, k, FALSE).kind = kind
           /\ Event(kind, k, FALSE).keycode = k
BY DEF Event

LEMMA SeqAppendIs ==
    ASSUME NEW S, NEW s \in Seq(S), NEW a \in S
    PROVE  s \o <<a>> = Append(s, a) /\ Append(s, a) \o <<>> = Append(s, a)
<1>1. s \o <<a>> = Append(s, a)
    OBVIOUS
<1>2. Append(s, a) \in Seq(S)
    OBVIOUS
<1>3. \A t \in Seq(S) : t \o <<>> = t
    OBVIOUS
<1> QED BY <1>1, <1>2, <1>3

(* The four things an interrupt can do: nothing, a key press with or       *)
(* without a character, a release.                                         *)
Queues(mark) ==
    \/ mark.kind = "NONE" /\ events' = events
    \/ /\ mark.kind = "KEY" /\ mark.keycode \notin Printable
       /\ events' = Append(events, Event("KEY", mark.keycode, mark.keycode \in key_states))
    \/ /\ mark.kind = "KEY" /\ mark.keycode \in Printable
       /\ events' = Append(Append(events, Event("KEY", mark.keycode, mark.keycode \in key_states)),
                           Event("CHAR", Char(mark.keycode, key_states'), FALSE))
    \/ mark.kind = "KEY_UP" /\ events' = Append(events, Event("KEY_UP", mark.keycode, FALSE))

LEMMA Interrupt ==
    ASSUME Typing, KeyboardIRQ
    PROVE  /\ wire # <<>> /\ wire' = Read(wire)
           /\ key_states' = After(key_states, Mark(wire, 1))
           /\ Queues(Mark(wire, 1))
           /\ UNCHANGED <<held, repeating, seen, typed>>
<1> DEFINE m == Mark(wire, 1)
           k == scs_mapping[wire[1] % SCANCODE_MAX]
           press == Event("KEY", k, k \in key_states)
           char == Event("CHAR", Char(k, key_states'), FALSE)
<1>1. /\ wire # <<>> /\ wire' = Read(wire)
      /\ IF Head(wire) = Prefix THEN UNCHANGED <<events, key_states>> ELSE Transform(Head(wire))
      /\ UNCHANGED <<held, repeating, seen, typed>>
    BY DEF KeyboardIRQ
<1>2. Head(wire) = wire[1] /\ wire[1] \in Byte
    BY <1>1, SeqTail, SeqElement DEF Typing
<1>3. k \in Keycodes \union {None}
    BY <1>2, Scancode
<1>4. Lone(wire, 1) <=> wire[1] # Prefix
    BY DEF Lone
<1>5. CASE wire[1] = Prefix \/ k = None
    <2>1. UNCHANGED <<events, key_states>>
        BY <1>1, <1>2, <1>5 DEF Transform
    <2>2. m.kind = "NONE"
        BY <1>4, <1>5, EventFields DEF Mark
    <2> QED BY <1>1, <2>1, <2>2 DEF Queues, After
<1>6. CASE wire[1] # Prefix /\ k # None /\ wire[1] <= SCANCODE_MAX
    <2>1. m = Event("KEY", k, FALSE)
        BY <1>4, <1>6 DEF Mark
    <2>2. m.kind = "KEY" /\ m.keycode = k
        <3> HIDE DEF m, k
        <3>1. /\ Event("KEY", k, FALSE).kind = "KEY"
              /\ Event("KEY", k, FALSE).keycode = k
            BY EventFields
        <3> QED BY <2>1, <3>1
    <2>3. key_press(k)
        BY <1>1, <1>2, <1>6 DEF Transform
    <2>4. key_states' = After(key_states, m)
        BY <2>2, <2>3 DEF key_press, After
    <2>5. events' = events \o <<press>> \o CharEvent(k, key_states')
        BY <2>3 DEF key_press
    <2>6. press \in KeyEvents
        BY <1>3, <1>6, EventTyped
    <2>7. CASE k \notin Printable
        <3>1. CharEvent(k, key_states') = <<>>
            BY <2>7 DEF CharEvent
        <3>2. events' = Append(events, press)
            <4>1. events \in Seq(KeyEvents)
                BY DEF Typing
            <4>2. events \o <<press>> = Append(events, press) /\ Append(events, press) \o <<>> = Append(events, press)
                BY <2>6, <4>1, SeqAppendIs
            <4> QED BY <2>5, <3>1, <4>2
        <3> QED BY <1>1, <2>2, <2>4, <2>7, <3>2 DEF Queues
    <2>8. CASE k \in Printable
        <3>1. CharEvent(k, key_states') = <<char>>
            BY <2>8 DEF CharEvent, Char
        <3>2. char \in KeyEvents
            BY <2>8, CharTyped, EventTyped
        <3>3. events' = Append(Append(events, press), char)
            <4>1. events \in Seq(KeyEvents)
                BY DEF Typing
            <4>2. events' = events \o <<press>> \o <<char>>
                BY <2>5, <3>1
            <4>3. events \o <<press>> \o <<char>> = Append(Append(events, press), char)
                <5> HIDE DEF press, char
                <5>1. events \o <<press>> = Append(events, press)
                    BY <2>6, <4>1, SeqAppendIs
                <5>2. Append(events, press) \in Seq(KeyEvents)
                    BY <2>6, <4>1, SeqAppend
                <5>3. Append(events, press) \o <<char>> = Append(Append(events, press), char)
                    BY <3>2, <5>2, SeqAppendIs
                <5> QED BY <5>1, <5>3
            <4> QED BY <4>2, <4>3
        <3> QED BY <1>1, <2>2, <2>4, <2>8, <3>3 DEF Queues
    <2> QED BY <2>7, <2>8
<1>7. CASE wire[1] # Prefix /\ k # None /\ ~(wire[1] <= SCANCODE_MAX)
    <2>1. m = Event("KEY_UP", k, FALSE)
        BY <1>4, <1>7 DEF Mark
    <2>2. m.kind = "KEY_UP" /\ m.keycode = k
        <3> HIDE DEF m, k
        <3>1. /\ Event("KEY_UP", k, FALSE).kind = "KEY_UP"
              /\ Event("KEY_UP", k, FALSE).keycode = k
            BY EventFields
        <3> QED BY <2>1, <3>1
    <2>3. key_release(k)
        BY <1>1, <1>2, <1>7 DEF Transform
    <2> QED BY <1>1, <2>2, <2>3 DEF key_release, Queues, After
<1> QED BY <1>5, <1>6, <1>7

LEMMA FirstMark ==
    ASSUME Typing, wire # <<>>
    PROVE  /\ Mark(wire, 1).kind \in {"KEY", "KEY_UP", "NONE"}
           /\ Mark(wire, 1).kind # "NONE" => Mark(wire, 1).keycode \in Keycodes
           /\ After(key_states, Mark(wire, 1)) \subseteq Keycodes
           /\ 1 \in DOMAIN wire
<1>1. 1 \in 1..Len(wire) /\ DOMAIN wire = 1..Len(wire) /\ wire \in Seq(Byte)
    BY SeqTail DEF Typing
<1>2. /\ Mark(wire, 1).kind \in {"KEY", "KEY_UP", "NONE"}
      /\ Mark(wire, 1).kind # "NONE" => Mark(wire, 1).keycode \in Keycodes
    BY <1>1, MarkKinds
<1> QED BY <1>1, <1>2 DEF After, Typing

LEMMA TypingInterrupt ==
    ASSUME Typing, Wiring, KeyboardIRQ
    PROVE  Typing'
<1> DEFINE m == Mark(wire, 1)
           press == Event("KEY", m.keycode, m.keycode \in key_states)
           char == Event("CHAR", Char(m.keycode, key_states'), FALSE)
<1>1. /\ wire # <<>> /\ wire' = Read(wire) /\ key_states' = After(key_states, m)
      /\ Queues(m) /\ UNCHANGED <<held, repeating, seen, typed>>
    BY Interrupt
<1>2. wire' \in Seq(Byte)
    BY <1>1, WireRead DEF Typing, Wiring
<1>3. key_states' \subseteq Keycodes /\ (m.kind # "NONE" => m.keycode \in Keycodes)
    BY <1>1, FirstMark
<1>4. events' \in Seq(KeyEvents)
    <2>1. CASE m.kind = "NONE" /\ events' = events
        BY <2>1 DEF Typing
    <2>2. CASE m.kind = "KEY" /\ events' = Append(events, press)
        <3>1. press \in KeyEvents
            BY <1>3, <2>2, EventTyped
        <3> QED BY <2>2, <3>1, SeqAppend DEF Typing
    <2>3. CASE m.kind = "KEY" /\ m.keycode \in Printable /\ events' = Append(Append(events, press), char)
        <3>1. press \in KeyEvents /\ char \in KeyEvents
            BY <1>3, <2>3, EventTyped, CharTyped
        <3>2. Append(events, press) \in Seq(KeyEvents)
            BY <3>1, SeqAppend DEF Typing
        <3> QED BY <2>3, <3>1, <3>2, SeqAppend
    <2>4. CASE m.kind = "KEY_UP" /\ events' = Append(events, Event("KEY_UP", m.keycode, FALSE))
        <3>1. Event("KEY_UP", m.keycode, FALSE) \in KeyEvents
            BY <1>3, <2>4, EventTyped
        <3> QED BY <2>4, <3>1, SeqAppend DEF Typing
    <2> QED BY <1>1, <2>1, <2>2, <2>3, <2>4 DEF Queues
<1> QED BY <1>1, <1>2, <1>3, <1>4 DEF Typing


LEMMA WiringInterrupt ==
    ASSUME Typing, Wiring, KeyboardIRQ
    PROVE  Wiring'
<1> DEFINE m == Mark(wire, 1)
           r == Step(wire)
<1>1. /\ wire # <<>> /\ wire' = Read(wire) /\ key_states' = After(key_states, m)
      /\ held' = held
    BY Interrupt
<1>2. wire \in Seq(Byte) /\ Paired(wire)
    BY DEF Typing, Wiring
<1>3. /\ wire' \in Seq(Byte) /\ Paired(wire')
      /\ r \in 1..2 /\ Len(wire') = Len(wire) - r /\ Len(wire') \in Nat /\ Len(wire) \in Nat
      /\ \A i \in 1..Len(wire') : Mark(wire', i) = Mark(wire, i + r)
      /\ DOMAIN wire' = 1..Len(wire') /\ DOMAIN wire = 1..Len(wire)
    BY <1>1, <1>2, WireRead
<1>4. \A n \in 0..Len(wire') :
            Following(key_states', Marks(wire'), n) = Following(key_states, Marks(wire), n + r)
    BY <1>1, <1>2, StatesRead
<1>5. Following(key_states', Marks(wire'), Len(wire')) = Down'
    <2>1. Down' = Down
        BY <1>1 DEF Down
    <2>2. Following(key_states, Marks(wire), Len(wire)) = Down
        BY DEF Wiring, StatesAt
    <2>3. Len(wire') \in 0..Len(wire') /\ Len(wire') + r = Len(wire)
        BY <1>3
    <2> QED BY <1>4, <2>1, <2>2, <2>3
<1>6. ASSUME NEW i \in 1..Len(wire'), Mark(wire', i).kind = "KEY_UP"
      PROVE  Mark(wire', i).keycode \in Following(key_states', Marks(wire'), i - 1)
    <2>1. /\ i + r \in DOMAIN wire /\ (i + r) - 1 = (i - 1) + r /\ i - 1 \in 0..Len(wire')
          /\ Mark(wire', i) = Mark(wire, i + r)
        <3> DEFINE n == Len(wire)
                   d == Len(wire')
        <3>1. r \in 1..2 /\ d = n - r /\ d \in Nat /\ n \in Nat
            BY <1>3
        <3> HIDE DEF r, n, d
        <3>2. i \in 1..d
            BY DEF d
        <3>3. i + r \in 1..n /\ (i + r) - 1 = (i - 1) + r /\ i - 1 \in 0..d
            BY <3>1, <3>2
        <3> QED BY <1>3, <3>3 DEF n, d
    <2>2. Mark(wire, i + r).keycode \in Following(key_states, Marks(wire), (i + r) - 1)
        BY <1>6, <2>1 DEF Wiring, ReleasesMeet, StatesAt
    <2> QED BY <1>4, <2>1, <2>2
<1> QED BY <1>3, <1>5, <1>6 DEF Wiring, StatesAt, ReleasesMeet

LEMMA QueueingIs ==
    ASSUME events \in Seq(KeyEvents)
    PROVE  Queueing <=> /\ Following(seen, events, Len(events)) = key_states
                        /\ Agrees(seen, events)
<1>1. DOMAIN events = 1..Len(events)
    BY SeqAppend
<1>2. StreamAgrees <=> Agrees(seen, events)
    BY <1>1 DEF StreamAgrees, Agrees, Known
<1> QED BY <1>2 DEF Queueing, Known

LEMMA QueueingInterrupt ==
    ASSUME Typing, Wiring, Queueing, KeyboardIRQ, Typing'
    PROVE  Queueing'
<1> DEFINE m == Mark(wire, 1)
           press == Event("KEY", m.keycode, m.keycode \in key_states)
           char == Event("CHAR", Char(m.keycode, key_states'), FALSE)
           up == Event("KEY_UP", m.keycode, FALSE)
           n == Len(events)
<1>1. /\ wire # <<>> /\ key_states' = After(key_states, m)
      /\ Queues(m) /\ seen' = seen
    BY Interrupt
<1>2. /\ m.kind # "NONE" => m.keycode \in Keycodes
      /\ 1 \in DOMAIN wire
    BY <1>1, FirstMark
<1>3. /\ events \in Seq(KeyEvents) /\ Agrees(seen, events) /\ Following(seen, events, n) = key_states
    BY QueueingIs DEF Typing
<1>4. m.kind = "KEY_UP" => m.keycode \in key_states
    <2>1. Following(key_states, Marks(wire), 1 - 1) = key_states
        BY FollowNone DEF Typing
    <2> QED BY <1>2, <2>1 DEF Wiring, ReleasesMeet, StatesAt
<1>5. SUFFICES Following(seen, events', Len(events')) = key_states' /\ Agrees(seen, events')
    <2>1. events' \in Seq(KeyEvents)
        BY DEF Typing
    <2>2. DOMAIN events' = 1..Len(events')
        BY <2>1, SeqAppend
    <2> QED BY <1>1, <2>2 DEF Queueing, Known, StreamAgrees, Agrees
<1>6. CASE m.kind = "NONE" /\ events' = events
    BY <1>1, <1>3, <1>6 DEF After
<1>7. ASSUME m.kind = "KEY"
      PROVE  /\ press \in KeyEvents
             /\ Append(events, press) \in Seq(KeyEvents)
             /\ Len(Append(events, press)) = n + 1
             /\ Agrees(seen, Append(events, press))
             /\ Following(seen, Append(events, press), n + 1) = key_states'
    <2>1. press \in KeyEvents
        BY <1>2, <1>7, EventTyped
    <2>2. press.kind = "KEY" /\ press.keycode = m.keycode /\ (press.repeat <=> m.keycode \in key_states)
        <3> DEFINE k == m.keycode
        <3> HIDE DEF k
        <3>1. LET e == Event("KEY", k, k \in key_states)
              IN  e.kind = "KEY" /\ e.keycode = k /\ (e.repeat <=> k \in key_states)
            BY DEF Event
        <3> QED BY <3>1 DEF k
    <2>3. key_states' = After(key_states, press)
        BY <1>1, <1>7, <2>2 DEF After
    <2> HIDE DEF press, m
    <2>4. /\ Agrees(seen, Append(events, press))
          /\ Following(seen, Append(events, press), n + 1) = After(key_states, press)
        BY <1>3, <2>1, <2>2, FollowQueued
    <2>5. Append(events, press) \in Seq(KeyEvents) /\ Len(Append(events, press)) = n + 1
        BY <1>3, <2>1, SeqAppend
    <2> QED BY <2>1, <2>3, <2>4, <2>5
<1>8. CASE m.kind = "KEY" /\ events' = Append(events, press)
    BY <1>7, <1>8
<1>9. CASE m.kind = "KEY" /\ m.keycode \in Printable /\ events' = Append(Append(events, press), char)
    <2>1. char \in KeyEvents
        BY <1>9, CharTyped, EventTyped
    <2>2. char.kind = "CHAR"
        BY EventFields
    <2> DEFINE s == Append(events, press)
    <2>3. /\ s \in Seq(KeyEvents) /\ Len(s) = n + 1 /\ Agrees(seen, s)
          /\ Following(seen, s, Len(s)) = key_states'
        BY <1>7, <1>9
    <2>4. events' = Append(s, char)
        BY <1>9
    <2> HIDE DEF s, char
    <2>5. /\ Agrees(seen, Append(s, char))
          /\ Following(seen, Append(s, char), Len(s) + 1) = After(key_states', char)
        BY <2>1, <2>2, <2>3, FollowQueued
    <2>6. Len(Append(s, char)) = Len(s) + 1
        BY <2>1, <2>3, SeqAppend
    <2>7. After(key_states', char) = key_states'
        BY <2>2 DEF After
    <2> QED BY <2>4, <2>5, <2>6, <2>7
<1>10. CASE m.kind = "KEY_UP" /\ events' = Append(events, up)
    <2>1. up \in KeyEvents /\ up.kind = "KEY_UP" /\ up.keycode = m.keycode
        BY <1>2, <1>10, EventTyped, EventFields
    <2>2. key_states' = After(key_states, up)
        BY <1>1, <1>10, <2>1 DEF After
    <2>3. up.keycode \in key_states
        BY <1>4, <1>10, <2>1
    <2>4. events' = Append(events, up)
        BY <1>10
    <2> HIDE DEF up, m
    <2>5. /\ Agrees(seen, Append(events, up))
          /\ Following(seen, Append(events, up), n + 1) = After(key_states, up)
        BY <1>3, <2>1, <2>3, FollowQueued
    <2>6. Len(Append(events, up)) = n + 1
        BY <1>3, <2>1, SeqAppend
    <2> QED BY <2>2, <2>4, <2>5, <2>6
<1> QED BY <1>1, <1>6, <1>8, <1>9, <1>10 DEF Queues


LEMMA OrderIs ==
    ASSUME Typing
    PROVE  /\ TypedInOrder <=>
                /\ CharsTo(events, Len(events)) + TypedBy(wire, Len(wire)) = Len(typed)
                /\ InOrder(events, typed)
                /\ \A i \in 1..Len(wire) : Types(wire, i) =>
                    Char(Mark(wire, i).keycode, Following(key_states, Marks(wire), i))
                        = typed[CharsTo(events, Len(events)) + TypedBy(wire, i)]
           /\ CharsTo(events, Len(events)) \in Nat /\ TypedBy(wire, Len(wire)) \in Nat
           /\ \A i \in 0..Len(wire) : TypedBy(wire, i) \in Nat
<1>1. /\ DOMAIN events = 1..Len(events) /\ DOMAIN wire = 1..Len(wire)
      /\ Len(events) \in Nat /\ Len(wire) \in Nat
    BY DEF Typing
<1>2. TypedInOrder <=>
                /\ CharsTo(events, Len(events)) + TypedBy(wire, Len(wire)) = Len(typed)
                /\ InOrder(events, typed)
                /\ \A i \in 1..Len(wire) : Types(wire, i) =>
                    Char(Mark(wire, i).keycode, Following(key_states, Marks(wire), i))
                        = typed[CharsTo(events, Len(events)) + TypedBy(wire, i)]
    BY <1>1 DEF TypedInOrder, Queued, InOrder, StatesAt
<1>3. CharsTo(events, Len(events)) \in Nat
    BY <1>1, CharsCount
<1>4. \A i \in Nat : TypedBy(wire, i) \in Nat
    BY TypesCount
<1>5. \A i \in 0..Len(wire) : i \in Nat
    BY <1>1
<1> QED BY <1>1, <1>2, <1>3, <1>4, <1>5

LEMMA OrderInterrupt ==
    ASSUME Typing, Wiring, TypedInOrder, KeyboardIRQ, Typing'
    PROVE  TypedInOrder'
<1> DEFINE m == Mark(wire, 1)
           press == Event("KEY", m.keycode, m.keycode \in key_states)
           char == Event("CHAR", Char(m.keycode, key_states'), FALSE)
           up == Event("KEY_UP", m.keycode, FALSE)
           r == Step(wire)
           q == CharsTo(events, Len(events))
           first == IF Types(wire, 1) THEN 1 ELSE 0
<1>1. /\ wire # <<>> /\ wire' = Read(wire) /\ key_states' = After(key_states, m)
      /\ Queues(m) /\ typed' = typed
    BY Interrupt
<1>2. /\ wire \in Seq(Byte) /\ Paired(wire) /\ events \in Seq(KeyEvents)
      /\ m.kind # "NONE" => m.keycode \in Keycodes
    BY <1>1, FirstMark DEF Typing, Wiring
<1>3. /\ q + TypedBy(wire, Len(wire)) = Len(typed)
      /\ InOrder(events, typed)
      /\ \A i \in 1..Len(wire) : Types(wire, i) =>
            Char(Mark(wire, i).keycode, Following(key_states, Marks(wire), i))
                = typed[q + TypedBy(wire, i)]
      /\ q \in Nat /\ \A i \in 0..Len(wire) : TypedBy(wire, i) \in Nat
    BY OrderIs
<1>4. /\ r \in 1..2 /\ Len(wire) = Len(wire') + r /\ Len(wire') \in Nat
      /\ \A i \in 1..Len(wire') : Mark(wire', i) = Mark(wire, i + r)
    BY <1>1, <1>2, WireRead, SeqTail
<1>5. \A n \in 0..Len(wire') :
            /\ Following(key_states', Marks(wire'), n) = Following(key_states, Marks(wire), n + r)
            /\ TypedBy(wire, n + r) = TypedBy(wire', n) + first
    BY <1>1, <1>2, StatesRead, TypesRead
<1>6. \A i \in 1..Len(wire') : Types(wire', i) <=> Types(wire, i + r)
    BY <1>1, <1>2, TypesRead
<1>7. /\ InOrder(events', typed)
      /\ CharsTo(events', Len(events')) = q + first
    <2>1. CASE m.kind = "NONE" /\ events' = events
        <3>1. first = 0
            BY <2>1 DEF Types
        <3> QED BY <1>3, <2>1, <3>1
    <2>2. ASSUME NEW e \in KeyEvents, e.kind # "CHAR"
          PROVE  /\ InOrder(Append(events, e), typed)
                 /\ CharsTo(Append(events, e), Len(Append(events, e))) = q
                 /\ Append(events, e) \in Seq(KeyEvents)
        <3>1. /\ InOrder(Append(events, e), typed)
              /\ CharsTo(Append(events, e), Len(events) + 1) = q + 0
            BY <1>2, <1>3, <2>2, CharsQueued
        <3>2. Len(Append(events, e)) = Len(events) + 1 /\ Append(events, e) \in Seq(KeyEvents)
            BY <1>2, SeqAppend
        <3> QED BY <1>3, <3>1, <3>2
    <2>3. m.kind = "KEY" => press \in KeyEvents /\ press.kind = "KEY"
        <3> DEFINE k == m.keycode
        <3> HIDE DEF k
        <3>1. Event("KEY", k, k \in key_states).kind = "KEY"
            BY DEF Event
        <3> QED BY <1>2, <3>1, EventTyped DEF k
    <2>4. CASE m.kind = "KEY" /\ m.keycode \notin Printable /\ events' = Append(events, press)
        <3>1. first = 0
            BY <2>4 DEF Types
        <3> HIDE DEF press
        <3> QED BY <1>3, <2>2, <2>3, <2>4, <3>1
    <2>5. CASE m.kind = "KEY" /\ m.keycode \in Printable /\ events' = Append(Append(events, press), char)
        <3>1. first = 1 /\ Types(wire, 1)
            BY <2>5 DEF Types
        <3>2. char \in KeyEvents /\ char.kind = "CHAR" /\ char.keycode = Char(m.keycode, key_states')
            BY <2>5, CharTyped, EventTyped, EventFields
        <3>3. r = 1 /\ 1 \in 1..Len(wire)
            BY <1>1, <1>2, <1>4, <3>1, TypesRead
        <3>4. TypedBy(wire, 1) = 1
            <4>1. TypedBy(wire, 0 + 1) = TypedBy(wire', 0) + 1
                BY <1>4, <1>5, <3>1, <3>3
            <4>2. TypedBy(wire', 0) = 0
                BY TypesCount, CountSome
            <4> QED BY <4>1, <4>2
        <3>5. Following(key_states, Marks(wire), 1) = key_states'
            <4>1. Following(key_states', Marks(wire'), 0) = Following(key_states, Marks(wire), 0 + 1)
                BY <1>4, <1>5, <3>3
            <4>2. Following(key_states', Marks(wire'), 0) = key_states'
                BY FollowNone DEF Typing
            <4> QED BY <4>1, <4>2
        <3>6. char.keycode = typed[q + 1]
            BY <1>3, <3>1, <3>2, <3>3, <3>4, <3>5
        <3> DEFINE s == Append(events, press)
        <3>7. /\ s \in Seq(KeyEvents) /\ InOrder(s, typed) /\ CharsTo(s, Len(s)) = q
              /\ events' = Append(s, char)
            <4> HIDE DEF press, char
            <4> QED BY <2>2, <2>3, <2>5
        <3> HIDE DEF s, char
        <3>8. /\ InOrder(Append(s, char), typed)
              /\ CharsTo(Append(s, char), Len(s) + 1) = q + 1
            BY <3>2, <3>6, <3>7, CharsQueued
        <3>9. Len(Append(s, char)) = Len(s) + 1
            BY <3>2, <3>7, SeqAppend
        <3> QED BY <3>1, <3>7, <3>8, <3>9
    <2>6. CASE m.kind = "KEY_UP" /\ events' = Append(events, up)
        <3>1. first = 0
            BY <2>6 DEF Types
        <3>2. up \in KeyEvents /\ up.kind = "KEY_UP"
            BY <1>2, <2>6, EventTyped, EventFields
        <3> HIDE DEF up
        <3> QED BY <1>3, <2>2, <2>6, <3>1, <3>2
    <2> QED BY <1>1, <2>1, <2>4, <2>5, <2>6 DEF Queues
<1>8. \A n \in 0..Len(wire') : TypedBy(wire', n) \in Nat
    <2>1. \A n \in Nat : TypedBy(wire', n) \in Nat
        BY TypesCount
    <2> QED BY <1>4, <2>1
<1> DEFINE d == Len(wire')
           p == CharsTo(events', Len(events'))
<1>20. first \in {0, 1} /\ p = q + first /\ typed' = typed
    BY <1>1, <1>7
<1> HIDE DEF first, p, q, r, d
<1>9. p + TypedBy(wire', d) = Len(typed')
    <2>1. TypedBy(wire, d + r) = TypedBy(wire', d) + first /\ TypedBy(wire', d) \in Nat
        BY <1>4, <1>5, <1>8 DEF d
    <2>2. q + TypedBy(wire, d + r) = Len(typed)
        BY <1>3, <1>4 DEF d
    <2> QED BY <1>3, <1>20, <2>1, <2>2
<1>10. ASSUME NEW i \in 1..d, Types(wire', i)
       PROVE  Char(Mark(wire', i).keycode, Following(key_states', Marks(wire'), i))
                    = typed'[p + TypedBy(wire', i)]
    <2>1. i \in 1..d /\ i \in 0..d /\ i + r \in 1..Len(wire)
        BY <1>4 DEF d
    <2>2. TypedBy(wire, i + r) = TypedBy(wire', i) + first /\ TypedBy(wire', i) \in Nat
        BY <1>5, <1>8, <2>1 DEF d
    <2>3. p + TypedBy(wire', i) = q + TypedBy(wire, i + r)
        BY <1>3, <1>20, <2>2
    <2>4. Types(wire, i + r) /\ Mark(wire', i) = Mark(wire, i + r)
        BY <1>4, <1>6, <1>10, <2>1 DEF d
    <2>5. Following(key_states', Marks(wire'), i) = Following(key_states, Marks(wire), i + r)
        BY <1>5, <2>1 DEF d
    <2> QED BY <1>3, <1>20, <2>1, <2>3, <2>4, <2>5
<1>11. DOMAIN events' = 1..Len(events') /\ DOMAIN wire' = 1..Len(wire')
    BY DEF Typing
<1> QED BY <1>1, <1>7, <1>9, <1>10, <1>11 DEF TypedInOrder, InOrder, Queued, StatesAt, p, d


-----------------------------------------------------------------------------
(* The core process pulls an event.                                        *)

LEMMA CharsWithin ==
    ASSUME NEW s, NEW n \in Nat, NEW i \in 1..n, s[i].kind = "CHAR"
    PROVE  CharsTo(s, i) \in 1..CharsTo(s, n)
<1> DEFINE S == {j \in Nat : s[j].kind = "CHAR"}
<1>1. CharsTo(s, i) = CountTo(S, i) /\ CharsTo(s, n) = CountTo(S, n)
    BY CharsCount
<1>2. i \in S /\ i \in 0..n /\ i \in 1..n
    OBVIOUS
<1> HIDE DEF S
<1> QED BY <1>1, <1>2, CountWithin

LEMMA TypesWithin ==
    ASSUME NEW s, NEW n \in Nat, NEW i \in 1..n, Types(s, i)
    PROVE  TypedBy(s, i) \in 1..TypedBy(s, n)
<1> DEFINE S == {j \in Nat : Types(s, j)}
<1>1. TypedBy(s, i) = CountTo(S, i) /\ TypedBy(s, n) = CountTo(S, n)
    BY TypesCount
<1>2. i \in S /\ i \in 0..n /\ i \in 1..n
    OBVIOUS
<1> HIDE DEF S
<1> QED BY <1>1, <1>2, CountWithin

LEMMA PullKeeps ==
    ASSUME Typing, Wiring, Queueing, TypedInOrder, PullEvent
    PROVE  Typing' /\ Wiring' /\ Queueing' /\ TypedInOrder'
<1> DEFINE rest == Tail(events)
           n == Len(rest)
           first == IF events[1].kind = "CHAR" THEN 1 ELSE 0
           q == CharsTo(events, Len(events))
           p == CharsTo(rest, n)
<1>1. /\ events # <<>> /\ events' = rest /\ seen' = After(seen, Head(events))
      /\ typed' = IF Head(events).kind = "CHAR" /\ typed # <<>> THEN Tail(typed) ELSE typed
      /\ UNCHANGED <<key_states, held, repeating, wire>>
    BY DEF PullEvent
<1>2. /\ events \in Seq(KeyEvents) /\ typed \in Seq(Characters) /\ seen \subseteq Keycodes
    BY DEF Typing
<1>3. /\ Head(events) = events[1] /\ Len(events) = n + 1 /\ n \in Nat
      /\ rest \in Seq(KeyEvents) /\ \A i \in 1..n : rest[i] = events[i + 1]
      /\ events[1] \in KeyEvents
    BY <1>1, <1>2, SeqTail, SeqElement
<1>4. /\ q + TypedBy(wire, Len(wire)) = Len(typed)
      /\ InOrder(events, typed)
      /\ \A i \in 1..Len(wire) : Types(wire, i) =>
            Char(Mark(wire, i).keycode, Following(key_states, Marks(wire), i))
                = typed[q + TypedBy(wire, i)]
      /\ q \in Nat /\ TypedBy(wire, Len(wire)) \in Nat
    BY OrderIs
<1>5. /\ \A i \in 0..n : CharsTo(events, i + 1) = CharsTo(rest, i) + first
      /\ \A i \in 0..n : CharsTo(rest, i) \in Nat
    <2>1. \A i \in 0..(Len(events) - 1) : CharsTo(events, i + 1) = CharsTo(rest, i) + first
        BY <1>1, <1>2, CharsPulled
    <2>2. \A i \in 0..n : i \in Nat
        BY <1>3
    <2>3. \A i \in Nat : CharsTo(rest, i) \in Nat
        BY CharsCount
    <2> QED BY <1>3, <2>1, <2>2, <2>3
<1>6. first \in {0, 1} /\ q = p + first /\ p \in Nat /\ n \in Nat
    BY <1>3, <1>5
<1>7. /\ typed' \in Seq(Characters) /\ Len(typed') = Len(typed) - first
      /\ \A i \in 1..Len(typed') : typed'[i] = typed[i + first]
    <2>1. CASE first = 0
        <3>1. typed' = typed
            BY <1>1, <1>3, <2>1
        <3>2. Len(typed) \in Nat /\ typed' \in Seq(Characters) /\ first = 0
            BY <1>2, <2>1, <3>1
        <3> HIDE DEF first
        <3> QED BY <3>1, <3>2
    <2>2. CASE first = 1
        <3>1. typed # <<>>
            BY <1>4, <1>6, <2>2
        <3>2. typed' = Tail(typed)
            BY <1>1, <1>3, <2>2, <3>1
        <3> QED BY <1>2, <2>2, <3>1, <3>2, SeqTail
    <2> QED BY <1>6, <2>1, <2>2
<1>8. Typing'
    <2>1. seen' \subseteq Keycodes
        BY <1>1, <1>2, <1>3, EventKinds DEF After
    <2> QED BY <1>1, <1>3, <1>7, <2>1 DEF Typing
<1>9. Wiring'
    BY <1>1 DEF Wiring, StatesAt, ReleasesMeet, Down
<1>10. Queueing'
    <2>1. Following(seen, events, Len(events)) = key_states /\ Agrees(seen, events)
        BY <1>2, QueueingIs
    <2>2. Following(seen', rest, n) = key_states /\ Agrees(seen', rest)
        BY <1>1, <1>2, <2>1, FollowPulled
    <2>3. DOMAIN events' = 1..Len(events')
        BY <1>1, <1>3, SeqAppend
    <2> QED BY <1>1, <2>2, <2>3 DEF Queueing, Known, StreamAgrees, Agrees
<1>11. TypedInOrder'
    <2> DEFINE w == TypedBy(wire, Len(wire))
    <2> HIDE DEF rest, n, first, q, p, w
    <2>6. q + w = Len(typed) /\ q \in Nat /\ w \in Nat
        BY <1>4 DEF w
    <2>7. Len(typed') = Len(typed) - first
        BY <1>7
    <2>8. Len(typed') = p + w /\ p + w \in Nat
        BY <1>6, <2>6, <2>7
    <2>1. p + TypedBy(wire, Len(wire)) = Len(typed')
        BY <2>8 DEF w
    <2>2. ASSUME NEW i \in 1..n, rest[i].kind = "CHAR"
          PROVE  rest[i].keycode = typed'[CharsTo(rest, i)]
        <3>1. rest[i] = events[i + 1] /\ i + 1 \in 1..Len(events)
            BY <1>3
        <3>2. events[i + 1].keycode = typed[CharsTo(events, i + 1)]
            BY <1>4, <2>2, <3>1 DEF InOrder
        <3>3. CharsTo(rest, i) \in 1..p
            BY <1>6, <2>2, CharsWithin DEF p
        <3>4. CharsTo(events, i + 1) = CharsTo(rest, i) + first
            BY <1>5, <1>6
        <3>5. CharsTo(rest, i) \in 1..Len(typed')
            BY <1>6, <2>6, <2>8, <3>3
        <3> QED BY <1>7, <3>1, <3>2, <3>4, <3>5
    <2>3. ASSUME NEW i \in 1..Len(wire), Types(wire, i)
          PROVE  Char(Mark(wire, i).keycode, Following(key_states, Marks(wire), i))
                    = typed'[p + TypedBy(wire, i)]
        <3>1. TypedBy(wire, i) \in 1..TypedBy(wire, Len(wire))
            <4>1. Len(wire) \in Nat
                BY DEF Typing
            <4> QED BY <2>3, <4>1, TypesWithin
        <3>2. p + TypedBy(wire, i) \in 1..Len(typed')
              /\ (p + TypedBy(wire, i)) + first = q + TypedBy(wire, i)
            <4> DEFINE x == TypedBy(wire, i)
            <4>1. x \in 1..w
                BY <3>1 DEF w
            <4> HIDE DEF x
            <4>2. p + x \in 1..(p + w)
                BY <1>6, <2>6, <4>1
            <4>3. (p + x) + first = q + x
                BY <1>6, <2>6, <4>1
            <4> QED BY <2>8, <4>2, <4>3 DEF x
        <3> QED BY <1>4, <1>7, <2>3, <3>2
    <2>4. DOMAIN events' = 1..Len(events') /\ DOMAIN wire' = 1..Len(wire')
        BY <1>8 DEF Typing
    <2>5. events' = rest /\ Len(events') = n /\ CharsTo(events', Len(events')) = p
        BY <1>1 DEF rest, n, p
    <2> QED BY <1>1, <2>1, <2>2, <2>3, <2>4, <2>5 DEF TypedInOrder, Queued, StatesAt
<1> QED BY <1>8, <1>9, <1>10, <1>11


-----------------------------------------------------------------------------
(* Somebody presses, holds or releases a key.                              *)

(* What a key sends: marks of nothing, or the mark of one event.           *)
KeySent(bytes, key, up, sent, D) ==
    LET n == Len(bytes)
        d == Following(D, Marks(bytes), n)
        k == Keycode(key)
    IN  /\ sent \in Seq(Byte) /\ Paired(sent) /\ n \in Nat /\ Len(sent) \in {n + 1, n + 2}
        /\ \A i \in 1..n : Mark(sent, i) = Mark(bytes, i)
        /\ \A i \in 0..n : Following(D, Marks(sent), i) = Following(D, Marks(bytes), i)
        /\ k = None =>
            /\ \A i \in (n + 1)..Len(sent) : Mark(sent, i).kind = "NONE"
            /\ Following(D, Marks(sent), Len(sent)) = d
        /\ k # None =>
            /\ Len(sent) = n + 1 /\ k \in Keycodes
            /\ Mark(sent, n + 1).kind = (IF up = 0 THEN "KEY" ELSE "KEY_UP")
            /\ Mark(sent, n + 1).keycode = k
            /\ Following(D, Marks(sent), n + 1) = IF up = 0 THEN d \union {k} ELSE d \ {k}

LEMMA SentStream ==
    ASSUME NEW bytes \in Seq(Byte), Paired(bytes), NEW key \in Keys,
           NEW up \in {0, SCANCODE_MAX},
           NEW sent, sent = bytes \o Sent(key, key.code + up), NEW D
    PROVE  KeySent(bytes, key, up, sent, D)
<1> DEFINE n == Len(bytes)
           d == Following(D, Marks(bytes), n)
           k == Keycode(key)
           kind == IF up = 0 THEN "KEY" ELSE "KEY_UP"
<1> PICK added : added = Sent(key, key.code + up)
    OBVIOUS
<1>0. sent = bytes \o added
    OBVIOUS
<1>21. added \in Seq(Byte)
    <2>1. key.code + up \in Byte
        BY KeyBytes
    <2>2. Prefix \in Byte
        BY DEF Prefix, Byte
    <2> DEFINE c == key.code + up
    <2>3. added = IF key.ext THEN <<Prefix, c>> ELSE <<c>>
        BY DEF Sent
    <2> HIDE DEF c
    <2>4. <<Prefix, c>> \in Seq(Byte) /\ <<c>> \in Seq(Byte)
        BY <2>1, <2>2, SeqShort DEF c
    <2> QED BY <2>3, <2>4
<1>2. sent \in Seq(Byte) /\ Joined(bytes, added, sent)
    <2>1. bytes \o added \in Seq(Byte) /\ Joined(bytes, added, bytes \o added)
        BY <1>21, SeqConcat, Zenon
    <2> QED BY <1>0, <2>1
<1>1. /\ Len(sent) = n + IF key.ext THEN 2 ELSE 1
      /\ Paired(sent)
      /\ \A i \in 1..n : Mark(sent, i) = Mark(bytes, i)
      /\ key.ext => Mark(sent, n + 1).kind = "NONE" /\ Mark(sent, n + 2).kind = "NONE"
      /\ ~key.ext /\ k = None => Mark(sent, n + 1).kind = "NONE"
      /\ k # None => ~key.ext /\ Mark(sent, n + 1) = Event(kind, k, FALSE)
    <2>1. SentMarks(bytes, key, up, sent)
        BY <1>2, WireSent
    <2> QED BY <2>1 DEF SentMarks
<1>3. n \in Nat /\ key.ext \in BOOLEAN
    BY KeyBytes
<1>4. Len(sent) \in {n + 1, n + 2} /\ (~key.ext => Len(sent) = n + 1)
    BY <1>1, <1>3
<1>5. \A i \in 1..Len(sent) : Marks(sent)[i] = Mark(sent, i)
    BY <1>2, MarksAre
<1>6. \A i \in 1..n : Marks(sent)[i] = Marks(bytes)[i]
    <2>1. \A i \in 1..n : Marks(bytes)[i] = Mark(bytes, i)
        BY MarksAre
    <2>2. \A i \in 1..n : i \in 1..Len(sent)
        BY <1>3, <1>4
    <2> QED BY <1>1, <1>5, <2>1, <2>2
<1>7. \A i \in 0..n : Following(D, Marks(sent), i) = Following(D, Marks(bytes), i)
    BY <1>3, <1>6, FollowSame
<1>8. \A i \in 1..Len(sent) : Mark(sent, i).kind = "KEY" => Mark(sent, i).keycode \in Keycodes
    BY <1>2, MarkKinds
<1>9. \A i \in n..(Len(sent) - 1) :
            Following(D, Marks(sent), i + 1) = After(Following(D, Marks(sent), i), Mark(sent, i + 1))
    <2> TAKE i \in n..(Len(sent) - 1)
    <2>1. i \in Nat /\ i + 1 \in 1..Len(sent)
        BY <1>3, <1>4
    <2>2. Marks(sent)[i + 1] = Mark(sent, i + 1)
        BY <1>5, <2>1
    <2> QED BY <1>8, <2>1, <2>2, FollowStep
<1>10. Following(D, Marks(sent), n) = d
    BY <1>3, <1>7
<1> HIDE DEF n, d, k
<1>11. n \in n..(Len(sent) - 1) /\ n + 1 \in 1..Len(sent)
    BY <1>3, <1>4
<1>12. ASSUME k = None
       PROVE  /\ \A i \in (n + 1)..Len(sent) : Mark(sent, i).kind = "NONE"
              /\ Following(D, Marks(sent), Len(sent)) = d
    <2>1. Mark(sent, n + 1).kind = "NONE"
        BY <1>1, <1>3, <1>12 DEF k, n
    <2>2. Following(D, Marks(sent), n + 1) = d
        BY <1>9, <1>10, <1>11, <2>1 DEF After
    <2>3. CASE Len(sent) = n + 1
        BY <1>3, <2>1, <2>2, <2>3
    <2>4. CASE Len(sent) = n + 2
        <3>1. Mark(sent, n + 2).kind = "NONE"
            BY <1>1, <1>3, <1>4, <2>4 DEF n
        <3>2. n + 1 \in n..(Len(sent) - 1) /\ (n + 1) + 1 = n + 2
            BY <1>3, <2>4
        <3>3. Following(D, Marks(sent), n + 2) = d
            BY <1>9, <2>2, <3>1, <3>2 DEF After
        <3> QED BY <1>3, <2>1, <2>4, <3>1, <3>3
    <2> QED BY <1>4, <2>3, <2>4
<1>13. ASSUME k # None
       PROVE  /\ Len(sent) = n + 1 /\ k \in Keycodes
              /\ Mark(sent, n + 1).kind = kind /\ Mark(sent, n + 1).keycode = k
              /\ Following(D, Marks(sent), n + 1) = IF up = 0 THEN d \union {k} ELSE d \ {k}
    <2>1. Len(sent) = n + 1 /\ Mark(sent, n + 1) = Event(kind, k, FALSE)
        BY <1>1, <1>4, <1>13 DEF k, n
    <2>2. Mark(sent, n + 1).kind = kind /\ Mark(sent, n + 1).keycode = k
        <3> HIDE DEF kind
        <3>1. Event(kind, k, FALSE).kind = kind /\ Event(kind, k, FALSE).keycode = k
            BY EventFields
        <3> QED BY <2>1, <3>1
    <2>3. k \in Keycodes
        BY <1>2, <1>11, <2>2, MarkKinds
    <2>4. Following(D, Marks(sent), n + 1) = After(d, Mark(sent, n + 1))
        BY <1>9, <1>10, <1>11
    <2> QED BY <2>1, <2>2, <2>3, <2>4 DEF After
<1> QED BY <1>1, <1>2, <1>3, <1>4, <1>7, <1>12, <1>13 DEF n, d, k, KeySent


LEMMA MeantIs ==
    ASSUME NEW key
    PROVE  /\ Keycode(key) \in Printable =>
                /\ Meant(key) = <<Char(Keycode(key), Down \union {Keycode(key)})>>
                /\ Char(Keycode(key), Down \union {Keycode(key)}) \in Characters
                /\ Keycode(key) # None
           /\ Keycode(key) \notin Printable => Meant(key) = <<>>
<1> DEFINE k == Keycode(key)
<1>1. ASSUME k \in Printable
      PROVE  Meant(key) = <<Char(k, Down \union {k})>>
    <2>1. k # KEYS_LEFT_SHIFT /\ k # KEYS_RIGHT_SHIFT
        BY <1>1, TablesAssumption
    <2>2. is_shift_pressed(Down \union {k}) <=> \E s \in {KEYS_LEFT_SHIFT, KEYS_RIGHT_SHIFT} : s \in Down
        BY <2>1 DEF is_shift_pressed
    <2> QED BY <1>1, <2>2 DEF Meant, Char
<1>2. k \in Printable => k # None
    BY TablesAssumption
<1>3. k \notin Printable => Meant(key) = <<>>
    BY DEF Meant
<1> QED BY <1>1, <1>2, <1>3, CharTyped

LEMMA SendKeeps ==
    ASSUME Typing, Wiring, Queueing, TypedInOrder,
           NEW key \in Keys, NEW up \in {0, SCANCODE_MAX},
           wire' = wire \o Sent(key, key.code + up),
           UNCHANGED <<key_states, events, seen>>,
           Keycode(key) = None => Down' = Down,
           Keycode(key) # None =>
                Down' = IF up = 0 THEN Down \union {Keycode(key)} ELSE Down \ {Keycode(key)},
           Keycode(key) # None /\ up # 0 => Keycode(key) \in Down,
           typed' = IF up = 0 THEN typed \o Meant(key) ELSE typed,
           held' \subseteq Keys, repeating' \subseteq held',
           repeating' = {} \/ \E k \in held' : repeating' = {k}
    PROVE  Typing' /\ Wiring' /\ Queueing' /\ TypedInOrder'
<1> DEFINE n == Len(wire)
           k == Keycode(key)
           D == key_states
           q == CharsTo(events, Len(events))
           w == TypedBy(wire, n)
           types == up = 0 /\ k \in Printable
<1>1. /\ wire \in Seq(Byte) /\ typed \in Seq(Characters) /\ events \in Seq(KeyEvents)
      /\ Paired(wire) /\ Following(D, Marks(wire), n) = Down
    BY DEF Typing, Wiring, StatesAt
<1>2. /\ wire' \in Seq(Byte) /\ Paired(wire') /\ n \in Nat /\ Len(wire') \in {n + 1, n + 2}
      /\ \A i \in 1..n : Mark(wire', i) = Mark(wire, i)
      /\ \A i \in 0..n : Following(D, Marks(wire'), i) = Following(D, Marks(wire), i)
      /\ k = None =>
            /\ \A i \in (n + 1)..Len(wire') : Mark(wire', i).kind = "NONE"
            /\ Following(D, Marks(wire'), Len(wire')) = Down
      /\ k # None =>
            /\ Len(wire') = n + 1 /\ k \in Keycodes
            /\ Mark(wire', n + 1).kind = (IF up = 0 THEN "KEY" ELSE "KEY_UP")
            /\ Mark(wire', n + 1).keycode = k
            /\ Following(D, Marks(wire'), n + 1) = IF up = 0 THEN Down \union {k} ELSE Down \ {k}
    <2>1. KeySent(wire, key, up, wire', key_states)
        BY <1>1, SentStream
    <2> QED BY <1>1, <2>1 DEF KeySent
<1>3. key_states' = D /\ events' = events /\ seen' = seen
    OBVIOUS
<1> HIDE DEF n, k, D
<1>4. /\ typed' \in Seq(Characters)
      /\ types => /\ Len(typed') = Len(typed) + 1
                  /\ typed'[Len(typed) + 1] = Char(k, Down \union {k})
                  /\ k # None
      /\ ~types => typed' = typed
      /\ \A i \in 1..Len(typed) : typed'[i] = typed[i]
      /\ Len(typed) \in Nat
    <2>1. CASE types
        <3> DEFINE c == Char(k, Down \union {k})
        <3>1. Meant(key) = <<c>> /\ c \in Characters /\ k # None
            BY <2>1, MeantIs DEF k
        <3>2. typed' = typed \o <<c>>
            BY <2>1, <3>1
        <3> HIDE DEF c
        <3>3. typed \o <<c>> = Append(typed, c)
            BY <1>1, <3>1, SeqAppendIs
        <3> QED BY <1>1, <2>1, <3>1, <3>2, <3>3, SeqAppend DEF c
    <2>2. CASE ~types
        <3>1. typed' = typed
            <4>1. CASE up # 0
                BY <4>1
            <4>2. CASE up = 0
                <5>1. Meant(key) = <<>>
                    BY <2>2, <4>2, MeantIs DEF k
                <5> QED BY <1>1, <4>2, <5>1
            <4> QED BY <4>1, <4>2
        <3>2. typed \in Seq(Characters) /\ Len(typed) \in Nat
            BY <1>1
        <3> HIDE DEF types
        <3> QED BY <2>2, <3>1, <3>2
    <2> QED BY <2>1, <2>2
<1>5. Typing'
    BY <1>2, <1>3, <1>4 DEF Typing, D
<1>6. Following(D, Marks(wire'), Len(wire')) = Down'
    BY <1>2 DEF k
<1>7. ASSUME NEW i \in 1..Len(wire'), Mark(wire', i).kind = "KEY_UP"
      PROVE  Mark(wire', i).keycode \in Following(D, Marks(wire'), i - 1)
    <2>1. CASE i \in 1..n
        <3>1. Mark(wire', i) = Mark(wire, i) /\ i - 1 \in 0..n /\ i \in DOMAIN wire
            BY <1>1, <1>2, <2>1 DEF n
        <3>2. Mark(wire, i).keycode \in Following(D, Marks(wire), i - 1)
            BY <1>7, <3>1 DEF Wiring, ReleasesMeet, StatesAt, D
        <3> QED BY <1>2, <3>1, <3>2
    <2>2. CASE i \in (n + 1)..Len(wire')
        <3>1. k # None
            BY <1>2, <1>7, <2>2
        <3>2. i = n + 1 /\ up # 0
            BY <1>2, <1>7, <2>2, <3>1
        <3>3. Following(D, Marks(wire'), n) = Down
            BY <1>1, <1>2 DEF n
        <3>4. i - 1 = n /\ k \in Down
            BY <1>2, <3>1, <3>2 DEF k
        <3> QED BY <1>2, <3>1, <3>2, <3>3, <3>4
    <2> QED BY <1>2, <2>1, <2>2
<1>8. DOMAIN wire' = 1..Len(wire') /\ DOMAIN events' = 1..Len(events')
    BY <1>1, <1>2, <1>3
<1>9. Wiring'
    BY <1>2, <1>3, <1>6, <1>7, <1>8 DEF Wiring, StatesAt, ReleasesMeet
<1>10. Queueing'
    BY <1>3 DEF Queueing, Known, StreamAgrees, D
<1>11. /\ q + w = Len(typed) /\ q \in Nat /\ w \in Nat
       /\ InOrder(events, typed)
       /\ \A i \in 1..n : Types(wire, i) =>
            Char(Mark(wire, i).keycode, Following(D, Marks(wire), i)) = typed[q + TypedBy(wire, i)]
    BY OrderIs DEF n, D
<1>12. /\ \A i \in 0..n : TypedBy(wire', i) = TypedBy(wire, i)
       /\ \A i \in 1..n : Types(wire', i) <=> Types(wire, i)
       /\ TypedBy(wire', n + 1) = w + IF Types(wire', n + 1) THEN 1 ELSE 0
       /\ TypedBy(wire', n + 2) = TypedBy(wire', n + 1) + IF Types(wire', n + 2) THEN 1 ELSE 0
    <2>1. n \in Nat /\ \A i \in 1..n : Mark(wire', i) = Mark(wire, i)
        BY <1>2
    <2>2. TypesMore(wire, wire', n)
        BY <2>1, TypesSent
    <2> QED BY <2>2 DEF TypesMore
<1> HIDE DEF q, w
<1>13. /\ \A i \in (n + 1)..Len(wire') : Types(wire', i) <=> types /\ i = n + 1
       /\ TypedBy(wire', Len(wire')) = w + IF types THEN 1 ELSE 0
    <2>1. CASE k = None
        <3>1. \A i \in (n + 1)..Len(wire') : ~Types(wire', i)
            BY <1>2, <2>1 DEF Types
        <3>2. ~types
            BY <1>4, <2>1
        <3> HIDE DEF types
        <3> QED BY <1>2, <1>11, <1>12, <3>1, <3>2
    <2>2. CASE k # None
        <3>1. Types(wire', n + 1) <=> types
            BY <1>2, <2>2 DEF Types
        <3> HIDE DEF types
        <3> QED BY <1>2, <1>12, <2>2, <3>1
    <2> QED BY <2>1, <2>2
<1>14. q + TypedBy(wire', Len(wire')) = Len(typed')
    <2> HIDE DEF types
    <2> QED BY <1>4, <1>11, <1>13
<1>15. InOrder(events, typed')
    <2> SUFFICES ASSUME NEW i \in 1..Len(events), events[i].kind = "CHAR"
                 PROVE  events[i].keycode = typed'[CharsTo(events, i)]
        BY DEF InOrder
    <2>1. Len(events) \in Nat
        BY <1>1
    <2>2. CharsTo(events, i) \in 1..q
        BY <2>1, CharsWithin DEF q
    <2>3. CharsTo(events, i) \in 1..Len(typed)
        BY <1>4, <1>11, <2>2
    <2> QED BY <1>4, <1>11, <2>3 DEF InOrder
<1>16. ASSUME NEW i \in 1..Len(wire'), Types(wire', i)
       PROVE  Char(Mark(wire', i).keycode, Following(D, Marks(wire'), i)) = typed'[q + TypedBy(wire', i)]
    <2>1. CASE i \in 1..n
        <3>1. Types(wire, i) /\ Mark(wire', i) = Mark(wire, i)
            BY <1>2, <1>12, <1>16, <2>1
        <3>2. /\ TypedBy(wire', i) = TypedBy(wire, i)
              /\ Following(D, Marks(wire'), i) = Following(D, Marks(wire), i)
            BY <1>2, <1>12, <2>1
        <3>3. TypedBy(wire, i) \in 1..w
            BY <1>2, <2>1, <3>1, TypesWithin DEF w
        <3>4. q + TypedBy(wire, i) \in 1..Len(typed)
            BY <1>4, <1>11, <3>3
        <3> QED BY <1>4, <1>11, <2>1, <3>1, <3>2, <3>4
    <2>2. CASE i \in (n + 1)..Len(wire')
        <3>1. types /\ i = n + 1
            BY <1>13, <1>16, <2>2
        <3>2. k # None /\ Mark(wire', i).keycode = k /\ Following(D, Marks(wire'), i) = Down \union {k}
            BY <1>2, <1>4, <3>1
        <3>3. TypedBy(wire', i) = w + 1
            BY <1>12, <1>16, <3>1
        <3>4. q + (w + 1) = Len(typed) + 1
            BY <1>4, <1>11
        <3> QED BY <1>4, <3>1, <3>2, <3>3, <3>4
    <2>3. i \in 1..n \/ i \in (n + 1)..Len(wire')
        <3>1. n \in Nat /\ Len(wire') \in Nat
            BY <1>2
        <3> QED BY <3>1
    <2> QED BY <2>1, <2>2, <2>3
<1>17. TypedInOrder'
    BY <1>3, <1>8, <1>14, <1>15, <1>16 DEF TypedInOrder, Queued, InOrder, StatesAt, q
<1> QED BY <1>5, <1>9, <1>10, <1>17


LEMMA DownAfter ==
    ASSUME held \subseteq Keys, NEW key \in Keys
    PROVE  /\ Keycode(key) = None =>
                (held' = held \union {key} \/ held' = held \ {key} => Down' = Down)
           /\ Keycode(key) # None /\ held' = held \union {key} => Down' = Down \union {Keycode(key)}
           /\ Keycode(key) # None /\ held' = held \ {key} => Down' = Down \ {Keycode(key)}
           /\ Keycode(key) # None /\ key \in held => Keycode(key) \in Down
<1>1. ASSUME NEW other \in held, Keycode(other) = Keycode(key), Keycode(key) # None
      PROVE  other = key
    <2>1. other \in Keys /\ other.ext = FALSE /\ key.ext = FALSE
        BY <1>1, KeyBytes DEF Keycode
    <2>2. scs_mapping[other.code] = scs_mapping[key.code] /\ scs_mapping[key.code] # None
        BY <1>1, <2>1 DEF Keycode
    <2>3. other.code \in DOMAIN scs_mapping /\ key.code \in DOMAIN scs_mapping
        <3>1. \A k \in Keys : k.code \in 1..(SCANCODE_MAX - 1)
            BY KeysAssumption
        <3>2. 1..(SCANCODE_MAX - 1) \subseteq 0..(SCANCODE_MAX - 1)
            BY DEF SCANCODE_MAX
        <3> QED BY <2>1, <3>1, <3>2, TablesAssumption
    <2>4. other.code = key.code
        BY <2>2, <2>3, TablesAssumption
    <2>5. \A k \in Keys : k = [ext |-> k.ext, code |-> k.code]
        BY KeysAssumption
    <2> QED BY <2>1, <2>4, <2>5
<1>2. ASSUME Keycode(key) = None, held' = held \union {key} \/ held' = held \ {key}
      PROVE  Down' = Down
    BY <1>2 DEF Down
<1>3. ASSUME Keycode(key) # None, held' = held \union {key}
      PROVE  Down' = Down \union {Keycode(key)}
    BY <1>3 DEF Down
<1>4. ASSUME Keycode(key) # None, held' = held \ {key}
      PROVE  Down' = Down \ {Keycode(key)}
    BY <1>1, <1>4 DEF Down
<1>5. Keycode(key) # None /\ key \in held => Keycode(key) \in Down
    BY DEF Down
<1> QED BY <1>2, <1>3, <1>4, <1>5

-----------------------------------------------------------------------------
(* The invariants.                                                         *)

LEMMA InitKeyboard == Init => KeyboardInv
<1> SUFFICES ASSUME Init
             PROVE  KeyboardInv
    OBVIOUS
<1>1. /\ key_states = {} /\ events = <<>> /\ held = {} /\ repeating = {} /\ wire = <<>>
      /\ seen = {} /\ typed = <<>>
    BY DEF Init
<1>2. Typing
    BY <1>1 DEF Typing
<1>3. \A s : Following({}, s, 0) = {}
    BY FollowNone
<1>4. Down = {}
    BY <1>1 DEF Down
<1>5. Len(<<>>) = 0 /\ DOMAIN <<>> = {}
    OBVIOUS
<1>6. Wiring
    BY <1>1, <1>3, <1>4, <1>5 DEF Wiring, StatesAt, ReleasesMeet, Paired
<1>7. Queueing
    BY <1>1, <1>3, <1>5 DEF Queueing, Known, StreamAgrees
<1>8. CharsTo(<<>>, 0) = 0 /\ TypedBy(<<>>, 0) = 0
    <2>1. {i \in 1..0 : <<>>[i].kind = "CHAR"} = {} /\ {i \in 1..0 : Types(<<>>, i)} = {}
        OBVIOUS
    <2> QED BY <2>1, FS_EmptySet DEF CharsTo, TypedBy
<1>9. TypedInOrder
    BY <1>1, <1>5, <1>8 DEF TypedInOrder, Queued
<1> QED BY <1>2, <1>6, <1>7, <1>9 DEF KeyboardInv

LEMMA StepKeyboard == KeyboardInv /\ [Next]_vars => KeyboardInv'
<1> SUFFICES ASSUME KeyboardInv, [Next]_vars
             PROVE  KeyboardInv'
    OBVIOUS
<1>1. Typing /\ Wiring /\ Queueing /\ TypedInOrder
    BY DEF KeyboardInv
<1>2. held \subseteq Keys /\ repeating \subseteq held
      /\ (repeating = {} \/ \E key \in held : repeating = {key})
    BY <1>1 DEF Typing
<1>3. CASE KeyboardIRQ
    BY <1>1, <1>3, TypingInterrupt, WiringInterrupt, QueueingInterrupt, OrderInterrupt DEF KeyboardInv
<1>4. CASE PullEvent
    BY <1>1, <1>4, PullKeeps DEF KeyboardInv
<1>5. ASSUME NEW key \in Keys, Press(key)
      PROVE  KeyboardInv'
    <2>1. /\ wire' = wire \o Sent(key, key.code) /\ held' = held \union {key} /\ repeating' = {key}
          /\ typed' = typed \o Meant(key) /\ UNCHANGED <<key_states, events, seen>>
        BY <1>5 DEF Press, Send
    <2>2. key.code = key.code + 0 /\ 0 \in {0, SCANCODE_MAX}
        BY KeysAssumption DEF SCANCODE_MAX
    <2>3. /\ Keycode(key) = None => Down' = Down
          /\ Keycode(key) # None => Down' = Down \union {Keycode(key)}
        BY <1>2, <2>1, DownAfter
    <2> QED BY <1>1, <1>2, <2>1, <2>2, <2>3, SendKeeps DEF KeyboardInv
<1>6. ASSUME NEW key \in Keys, Repeat(key)
      PROVE  KeyboardInv'
    <2>1. /\ wire' = wire \o Sent(key, key.code) /\ held' = held /\ repeating' = repeating
          /\ typed' = typed \o Meant(key) /\ UNCHANGED <<key_states, events, seen>>
          /\ key \in held
        BY <1>2, <1>6 DEF Repeat, Send
    <2>2. key.code = key.code + 0 /\ 0 \in {0, SCANCODE_MAX}
        BY KeysAssumption DEF SCANCODE_MAX
    <2>3. /\ Keycode(key) = None => Down' = Down
          /\ Keycode(key) # None => Down' = Down \union {Keycode(key)}
        BY <1>2, <2>1, DownAfter
    <2> QED BY <1>1, <1>2, <2>1, <2>2, <2>3, SendKeeps DEF KeyboardInv
<1>7. ASSUME NEW key \in Keys, Release(key)
      PROVE  KeyboardInv'
    <2>1. /\ wire' = wire \o Sent(key, key.code + SCANCODE_MAX)
          /\ held' = held \ {key} /\ repeating' = repeating \ {key}
          /\ UNCHANGED <<key_states, events, seen, typed>> /\ key \in held
        BY <1>7 DEF Release, Send
    <2>2. SCANCODE_MAX # 0 /\ SCANCODE_MAX \in {0, SCANCODE_MAX}
        BY DEF SCANCODE_MAX
    <2>3. /\ Keycode(key) = None => Down' = Down
          /\ Keycode(key) # None => Down' = Down \ {Keycode(key)} /\ Keycode(key) \in Down
        BY <1>2, <2>1, DownAfter
    <2>4. /\ held' \subseteq Keys /\ repeating' \subseteq held'
          /\ (repeating' = {} \/ \E k \in held' : repeating' = {k})
        BY <1>2, <2>1
    <2> QED BY <1>1, <2>1, <2>2, <2>3, <2>4, SendKeeps DEF KeyboardInv
<1>8. CASE UNCHANGED vars
    BY <1>1, <1>8 DEF vars, KeyboardInv, Typing, Wiring, Queueing, TypedInOrder, StatesAt, ReleasesMeet,
            Down, Known, StreamAgrees, Queued
<1> QED BY <1>3, <1>4, <1>5, <1>6, <1>7, <1>8 DEF Next


LEMMA InvTypes == KeyboardInv => TypeOK
<1> SUFFICES ASSUME Typing
             PROVE  TypeOK
    BY DEF KeyboardInv
<1>1. \A i \in DOMAIN events :
        /\ events[i].kind \in {"KEY", "KEY_UP", "CHAR"} /\ events[i].repeat \in BOOLEAN
        /\ events[i].keycode \in IF events[i].kind = "CHAR" THEN Characters ELSE Keycodes
    <2> TAKE i \in DOMAIN events
    <2>1. events[i] \in KeyEvents
        BY SeqElement, SeqAppend DEF Typing
    <2> QED BY <2>1, EventKinds
<1>2. Cardinality(repeating) <= 1
    <2>1. CASE repeating = {}
        BY <2>1, FS_EmptySet
    <2>2. ASSUME NEW key \in held, repeating = {key}
          PROVE  Cardinality(repeating) = 1
        BY <2>2, FS_Singleton
    <2> QED BY <2>1, <2>2 DEF Typing
<1> QED BY <1>1, <1>2 DEF Typing, TypeOK, Byte

LEMMA InvAgrees == KeyboardInv => StreamAgrees /\ StatesAgree
<1> SUFFICES ASSUME Typing, Wiring, Queueing
             PROVE  StreamAgrees /\ StatesAgree
    BY DEF KeyboardInv
<1>1. ASSUME wire = <<>>
      PROVE  key_states = Down
    <2>1. Len(wire) = 0
        BY <1>1
    <2>2. Following(key_states, Marks(wire), 0) = Down
        BY <2>1 DEF Wiring, StatesAt
    <2> QED BY <2>2, FollowNone DEF Typing
<1> QED BY <1>1 DEF Queueing, StatesAgree

LEMMA InvChars == KeyboardInv => CharsAsTyped
<1> SUFFICES ASSUME Typing, TypedInOrder
             PROVE  CharsAsTyped
    BY DEF KeyboardInv
<1> DEFINE q == CharsTo(events, Len(events))
           w == TypedBy(wire, Len(wire))
<1>1. q + w = Len(typed) /\ q \in Nat /\ w \in Nat /\ InOrder(events, typed)
    BY OrderIs
<1>2. DOMAIN events = 1..Len(events) /\ Len(events) \in Nat
    BY DEF Typing
<1>3. ASSUME NEW i \in DOMAIN events, events[i].kind = "CHAR"
      PROVE  CharsTo(events, i) <= Len(typed) /\ events[i].keycode = typed[CharsTo(events, i)]
    <2>1. CharsTo(events, i) \in 1..q
        BY <1>2, <1>3, CharsWithin
    <2> HIDE DEF q, w
    <2>2. CharsTo(events, i) <= Len(typed)
        BY <1>1, <2>1
    <2> QED BY <1>1, <1>2, <1>3, <2>2 DEF InOrder
<1>4. ASSUME wire = <<>>
      PROVE  q = Len(typed)
    <2>1. Len(wire) = 0
        BY <1>4
    <2>2. {i \in 1..0 : Types(wire, i)} = {}
        OBVIOUS
    <2>3. w = 0
        BY <2>1, <2>2, FS_EmptySet DEF TypedBy
    <2> HIDE DEF q, w
    <2> QED BY <1>1, <2>3
<1> QED BY <1>3, <1>4 DEF CharsAsTyped

(* What is in the queue and on the wire agrees, at every step, with what   *)
(* the driver takes to be down, what is down and what was typed.           *)
THEOREM KeyboardInvariant == Spec => []KeyboardInv
<1>1. Init => KeyboardInv
    BY InitKeyboard
<1>2. KeyboardInv /\ [Next]_vars => KeyboardInv'
    BY StepKeyboard
<1> QED BY <1>1, <1>2, PTL DEF Spec

(* The driver's state, the queue and the wire keep their types: no keycode *)
(* that is not in the tables reaches a process.                            *)
THEOREM KeyboardTyped == Spec => []TypeOK
BY KeyboardInvariant, InvTypes, PTL

(* Each key's events alternate, whatever the keys, the order they are      *)
(* pressed in, and how late the core process pulls: a press is marked as a *)
(* repetition if and only if the key is known to be down, and a release    *)
(* comes only for a key that is.                                           *)
THEOREM EventsAlternate == Spec => []StreamAgrees
BY KeyboardInvariant, InvAgrees, PTL

(* No key is stuck and none is missed: once the bytes are read, the keys   *)
(* that the driver takes to be down are those that are.                    *)
THEOREM NoKeyStuck == Spec => []StatesAgree
BY KeyboardInvariant, InvAgrees, PTL

(* The characters in the queue are the first of those typed, in order,     *)
(* each once, and shifted as the shift keys were when it was typed.        *)
THEOREM TypedArrives == Spec => []CharsAsTyped
BY KeyboardInvariant, InvChars, PTL

=============================================================================
