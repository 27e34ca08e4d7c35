------------------------------ MODULE Keyboard ------------------------------
(***************************************************************************)
(* The keyboard driver: the keyboard sends the bytes of scancode set 2,    *)
(* every byte raises vector 33, and keyboard_interrupt_handler feeds it to *)
(* kbd_translate, which keeps its state between bytes (PS2_Keyboard.c).    *)
(*                                                                         *)
(* A character is the table entry it is read from, [sc, upper]; the tables *)
(* agree on the keypad.                                                    *)
(***************************************************************************)
EXTENDS Integers, Sequences, SequencesExt

CONSTANTS
  Keys,          \* the keys of the keyboard: [sc, ext]
  MaxEvents,     \* bound on key presses, repeats and releases
  MaxWire        \* bytes the keyboard keeps for the driver

ASSUME KeyboardAssumption ==
  /\ Keys \subseteq [sc : 0..255, ext : BOOLEAN]
  /\ MaxEvents \in Nat /\ MaxWire \in Nat

VARIABLES
  ps2_state,     \* shift, caps, release, extended
  printed,       \* what the handler printed
  wire,          \* bytes sent and not read yet
  down,          \* the keys that are pressed
  \* history: events so far, strokes of caps lock modulo 2, and the characters
  \* the pressed keys stand for
  events, caps_lock, meant

vars == <<ps2_state, printed, wire, down, events, caps_lock, meant>>

-----------------------------------------------------------------------------
SC2_EXT_PREFIX == 224
SC2_BREAK_PREFIX == 240
SC2_SHIFT == {18, 89}
SC2_CAPS == 88
table_size == 128

\* What the tables have entries for (the keys the model uses are among them).
letters == {21, 26, 27, 28, 29, 33, 34, 35, 36, 42, 43, 44, 45, 49, 50, 51, 52,
            53, 58, 59, 60, 66, 67, 68, 75, 77}
keypad == {105, 107, 108, 112, 113, 114, 115, 116, 117, 121, 122, 123, 124, 125}
unshifted == keypad \cup {13, 41, 90, 102, 118}
symbols == {14, 22, 30, 37, 38, 46, 54, 61, 62, 65, 69, 70, 73, 74, 76, 78, 82,
            84, 85, 91, 93}
Printable == letters \cup unshifted \cup symbols

\* sc2_shift[sc] or sc2_normal[sc].
table_char(sc, shift) == [sc |-> sc, upper |-> shift /\ sc \notin unshifted]

\* Caps lock swaps the case of letters only.
with_caps(ch, caps) ==
  IF caps /\ ch.sc \in letters THEN [ch EXCEPT !.upper = ~@] ELSE ch

Init ==
  /\ ps2_state = [shift |-> FALSE, caps |-> FALSE, release |-> FALSE,
                  extended |-> FALSE]
  /\ printed = <<>> /\ wire = <<>> /\ down = {}
  /\ events = 0 /\ caps_lock = FALSE /\ meant = <<>>

-----------------------------------------------------------------------------
(* The keyboard (external): it sends set 2 make and break codes in order.  *)

make_code(k) == IF k.ext THEN <<SC2_EXT_PREFIX, k.sc>> ELSE <<k.sc>>
break_code(k) == IF k.ext THEN <<SC2_EXT_PREFIX, SC2_BREAK_PREFIX, k.sc>>
                 ELSE <<SC2_BREAK_PREFIX, k.sc>>

Sends(bytes) ==
  /\ Len(wire) + Len(bytes) <= MaxWire
  /\ events < MaxEvents
  /\ wire' = wire \o bytes
  /\ events' = events + 1

ShiftHeld(keys) == \E k \in keys : ~k.ext /\ k.sc \in SC2_SHIFT

\* A key is pressed, or repeats while it is held.
KeyDown(k) ==
  /\ Sends(make_code(k))
  /\ down' = down \cup {k}
  /\ meant' = IF ~k.ext /\ k.sc \in Printable
                THEN Append(meant, with_caps(table_char(k.sc, ShiftHeld(down)),
                                             caps_lock))
                ELSE meant
  /\ UNCHANGED <<ps2_state, printed, caps_lock>>

KeyUp(k) ==
  /\ k \in down
  /\ Sends(break_code(k))
  /\ down' = down \ {k}
  /\ caps_lock' = (caps_lock # (k.sc = SC2_CAPS /\ ~k.ext))
  /\ UNCHANGED <<ps2_state, printed, meant>>

-----------------------------------------------------------------------------
(* keyboard_interrupt_handler and kbd_translate, on the byte sc            *)

\* Mutant: the release flag survives the key it belongs to.
after_key_sticky == ps2_state

\* The release flag is consumed by the key that follows it.
after_key == [ps2_state EXCEPT !.release = FALSE]

\* Mutant: caps lock also toggles on its make code.
caps_stroke_both(release) == TRUE

\* Caps lock toggles when the key is released.
caps_stroke(release) == release

translate_prefix(sc) ==
  /\ sc = SC2_EXT_PREFIX
  /\ ps2_state' = [ps2_state EXCEPT !.extended = TRUE]
  /\ UNCHANGED printed

\* The byte after the prefix is ignored.
translate_extended(sc) ==
  /\ sc # SC2_EXT_PREFIX /\ ps2_state.extended
  /\ ps2_state' = [ps2_state EXCEPT !.extended = FALSE]
  /\ UNCHANGED printed

Plain(sc) == sc # SC2_EXT_PREFIX /\ ~ps2_state.extended

translate_break(sc) ==
  /\ Plain(sc) /\ sc = SC2_BREAK_PREFIX
  /\ ps2_state' = [ps2_state EXCEPT !.release = TRUE]
  /\ UNCHANGED printed

translate_shift(sc) ==
  /\ Plain(sc) /\ sc \in SC2_SHIFT
  /\ ps2_state' = [after_key EXCEPT !.shift = ~ps2_state.release]
  /\ UNCHANGED printed

translate_caps(sc) ==
  /\ Plain(sc) /\ sc = SC2_CAPS /\ caps_stroke(ps2_state.release)
  /\ ps2_state' = [after_key EXCEPT !.caps = ~@]
  /\ UNCHANGED printed

\* Mutant: the index is not checked.
past_table_unchecked(sc) == FALSE

past_table(sc) == sc >= table_size

\* A 0 in the table; what lies after the table is not 0.
no_char(sc) == sc < table_size /\ sc \notin Printable

\* Any other key; a release, a code past the table and a 0 print nothing.
translate_key(sc) ==
  /\ Plain(sc) /\ sc # SC2_BREAK_PREFIX /\ sc \notin SC2_SHIFT
  /\ ~(sc = SC2_CAPS /\ caps_stroke(ps2_state.release))
  /\ ps2_state' = after_key
  /\ printed' = IF ps2_state.release \/ past_table(sc) \/ no_char(sc)
                  THEN printed
                  ELSE Append(printed, with_caps(table_char(sc, ps2_state.shift),
                                                 ps2_state.caps))

kbd_translate(sc) ==
  \/ translate_prefix(sc) \/ translate_extended(sc) \/ translate_break(sc)
  \/ translate_shift(sc) \/ translate_caps(sc) \/ translate_key(sc)

keyboard_interrupt_handler ==
  /\ wire # <<>>
  /\ kbd_translate(Head(wire))
  /\ wire' = Tail(wire)
  /\ UNCHANGED <<down, events, caps_lock, meant>>

\* Nobody types any more.
Quiet == wire = <<>> /\ events = MaxEvents /\ UNCHANGED vars

Next ==
  \/ \E k \in Keys : KeyDown(k)
  \/ \E k \in Keys : KeyUp(k)
  \/ keyboard_interrupt_handler
  \/ Quiet

Spec == Init /\ [][Next]_vars

\* What the driver relies on: a code that is a prefix is no key's, there is one
\* shift key, and an extended key shares its code only with keys that print
\* nothing and are no shift (its break code is taken for their make code).
Ordinary(keys) ==
  /\ \A k \in keys : k.sc # SC2_EXT_PREFIX /\ k.sc # SC2_BREAK_PREFIX
  /\ \A k, l \in keys : ~k.ext /\ ~l.ext /\ {k.sc, l.sc} \subseteq SC2_SHIFT => k = l
  /\ \A k \in keys : k.ext => k.sc \notin Printable \cup SC2_SHIFT

-----------------------------------------------------------------------------
(* Properties *)

Chars == [sc : 0..(table_size - 1), upper : BOOLEAN]

\* The type of every variable; characters are read from inside the tables.
TypeOK ==
  /\ ps2_state \in [shift : BOOLEAN, caps : BOOLEAN, release : BOOLEAN,
                    extended : BOOLEAN]
  /\ printed \in Seq(Chars) /\ meant \in Seq(Chars)
  /\ wire \in Seq(0..255) /\ Len(wire) <= MaxWire
  /\ down \subseteq Keys /\ events \in 0..MaxEvents /\ caps_lock \in BOOLEAN

\* However many bytes are still on the wire, what has been printed is a prefix
\* of what the pressed keys stand for, in order and in the right case; and it
\* is all of it once the wire is empty.
PrintsWhatIsTyped ==
  /\ IsPrefix(printed, meant)
  /\ wire = <<>> => printed = meant

\* When the wire is empty, the driver's picture of the modifiers is the real
\* one and it is not in the middle of a code.
DecoderInStep ==
  wire = <<>> => /\ ps2_state.shift = ShiftHeld(down)
                 /\ ps2_state.caps = caps_lock
                 /\ ~ps2_state.release /\ ~ps2_state.extended

\* Extended keys print nothing ("ignore ps2_state.extended keys for now",
\* PS2_Keyboard.c).
ExtendedKeysIgnored == Len(printed) <= Len(meant)
=============================================================================
