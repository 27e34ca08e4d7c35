----------------------------- MODULE MCKeyboard -----------------------------
EXTENDS Keyboard

Key(sc) == [sc |-> sc, ext |-> FALSE]
ExtendedKey(sc) == [sc |-> sc, ext |-> TRUE]

\* A letter, a keypad digit, shift, caps lock, a function key whose code is
\* past the tables, and right control, which is extended but shares its code
\* with a key that prints nothing.
TypingKeys == {Key(28), Key(116), Key(18), Key(88), Key(131), ExtendedKey(20)}

\* A letter, and the arrow key that shares its code with the keypad digit.
ArrowKeys == {Key(28), ExtendedKey(116)}

\* A modifier key of either kind is no obstacle; the arrow key is.
ASSUME KeysAreOrdinary == Ordinary(TypingKeys) /\ ~Ordinary(ArrowKeys)
=============================================================================
