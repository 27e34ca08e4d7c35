--------------------------- MODULE KeyboardProofs ---------------------------
(***************************************************************************)
(* Theorems about the keyboard driver, for any keyboard, however much is   *)
(* typed and however far the driver is behind.                             *)
(*                                                                         *)
(* What has been printed says nothing of the bytes still on the wire, so   *)
(* the properties are not inductive.  The invariant (InStep) says what the *)
(* wire is good for: fed to the decoder from the state it is in, it takes  *)
(* it to the real state of the keys and prints exactly what is missing.    *)
(* There is a decoding of the wire, a state and a count of characters      *)
(* after each byte, that witnesses it: the driver takes its first byte     *)
(* away and the keyboard adds bytes at its end.                            *)
(***************************************************************************)
EXTENDS Keyboard, SequenceTheorems, TLAPS

States == [shift : BOOLEAN, caps : BOOLEAN, release : BOOLEAN, extended : BOOLEAN]
Bytes == 0..255

-----------------------------------------------------------------------------
(* kbd_translate as a function of the state and the byte                   *)

Decoded(s, b) ==
  LET plain == b # SC2_EXT_PREFIX /\ ~s.extended
  IN [shift    |-> IF plain /\ b \in SC2_SHIFT THEN ~s.release ELSE s.shift,
      caps     |-> IF plain /\ b = SC2_CAPS /\ s.release THEN ~s.caps ELSE s.caps,
      release  |-> IF plain THEN b = SC2_BREAK_PREFIX ELSE s.release,
      extended |-> b = SC2_EXT_PREFIX]

Prints(s, b) == b \in Printable /\ ~s.extended /\ ~s.release
CharOf(s, b) == with_caps(table_char(b, s.shift), s.caps)

\* The tables have no entry for a modifier or a prefix, and none past the end.
LEMMA PrintableCodes ==
  ASSUME NEW b \in Printable
  PROVE  /\ b \in 0..(table_size - 1)
         /\ b # SC2_EXT_PREFIX /\ b # SC2_BREAK_PREFIX /\ b \notin SC2_SHIFT /\ b # SC2_CAPS
BY DEF Printable, letters, unshifted, keypad, symbols, table_size, SC2_EXT_PREFIX,
       SC2_BREAK_PREFIX, SC2_SHIFT, SC2_CAPS

\* What is printed is an entry of the tables.
LEMMA CharType ==
  ASSUME NEW b \in Printable, NEW shift \in BOOLEAN, NEW caps \in BOOLEAN
  PROVE  with_caps(table_char(b, shift), caps) \in Chars
<1>1. b \in 0..(table_size - 1)
  BY PrintableCodes
<1>2. table_char(b, shift) \in Chars
  BY <1>1 DEF table_char, Chars
<1> QED BY <1>2 DEF with_caps, Chars

\* States are equal if they agree on the four flags.
LEMMA SameState ==
  ASSUME NEW s \in States, NEW t \in States, s.shift <=> t.shift, s.caps <=> t.caps,
         s.release <=> t.release, s.extended <=> t.extended
  PROVE  s = t
BY DEF States

\* The flags of t are those that s has after byte b.
FlagsAfter(s, b, t) ==
  /\ t.extended <=> b = SC2_EXT_PREFIX
  /\ t.release <=> (IF b # SC2_EXT_PREFIX /\ ~s.extended
                      THEN b = SC2_BREAK_PREFIX ELSE s.release)
  /\ t.shift <=> (IF b # SC2_EXT_PREFIX /\ ~s.extended /\ b \in SC2_SHIFT
                    THEN ~s.release ELSE s.shift)
  /\ t.caps <=> (IF b # SC2_EXT_PREFIX /\ ~s.extended /\ b = SC2_CAPS /\ s.release
                   THEN ~s.caps ELSE s.caps)

\* Decoded gives the flags after a byte.
LEMMA DecodedFlags ==
  ASSUME NEW s \in States, NEW b
  PROVE  Decoded(s, b) \in States /\ FlagsAfter(s, b, Decoded(s, b))
BY DEF Decoded, States, FlagsAfter

\* A state with those flags is the state after the byte.
LEMMA DecodedIs ==
  ASSUME NEW s \in States, NEW t \in States, NEW b, FlagsAfter(s, b, t)
  PROVE  t = Decoded(s, b)
<1> PICK d \in States : d = Decoded(s, b) /\ FlagsAfter(s, b, d)
  BY DecodedFlags
<1>1. t.extended <=> d.extended
  BY DEF FlagsAfter
<1>2. t.release <=> d.release
  BY DEF FlagsAfter
<1>3. t.shift <=> d.shift
  BY DEF FlagsAfter
<1>4. t.caps <=> d.caps
  BY DEF FlagsAfter
<1> QED BY <1>1, <1>2, <1>3, <1>4, SameState

\* kbd_translate is that function.
LEMMA TranslateIs ==
  ASSUME ps2_state \in States, NEW b \in Bytes, kbd_translate(b)
  PROVE  /\ ps2_state' = Decoded(ps2_state, b)
         /\ printed' = IF Prints(ps2_state, b) THEN Append(printed, CharOf(ps2_state, b))
                       ELSE printed
<1> PICK s, t : s = ps2_state /\ t = ps2_state'
  OBVIOUS
<1>0. s \in States
  OBVIOUS
<1> USE DEF SC2_EXT_PREFIX, SC2_BREAK_PREFIX, SC2_SHIFT, SC2_CAPS
<1>1. b \in Printable => b < table_size /\ b # 224 /\ b # 240 /\ b \notin {18, 89} /\ b # 88
  BY PrintableCodes DEF table_size
<1>2. CASE translate_prefix(b)
  <2>1. b = 224 /\ t = [s EXCEPT !.extended = TRUE] /\ printed' = printed
    BY <1>2 DEF translate_prefix
  <2>2. /\ t \in States /\ t.extended
        /\ t.shift <=> s.shift
        /\ t.caps <=> s.caps
        /\ t.release <=> s.release
    BY ONLY <1>0, <2>1 DEF States
  <2>3. FlagsAfter(s, b, t)
    BY <2>1, <2>2 DEF FlagsAfter
  <2>4. t = Decoded(s, b)
    BY <1>0, <2>2, <2>3, DecodedIs
  <2> QED BY <1>1, <2>1, <2>4 DEF Prints
<1>3. CASE translate_extended(b)
  <2>1. /\ b # 224 /\ s.extended /\ printed' = printed
        /\ t = [s EXCEPT !.extended = FALSE]
    BY <1>3 DEF translate_extended
  <2>2. /\ t \in States /\ ~t.extended
        /\ t.shift <=> s.shift
        /\ t.caps <=> s.caps
        /\ t.release <=> s.release
    BY ONLY <1>0, <2>1 DEF States
  <2>3. FlagsAfter(s, b, t)
    BY <2>1, <2>2 DEF FlagsAfter
  <2>4. t = Decoded(s, b)
    BY <1>0, <2>2, <2>3, DecodedIs
  <2> QED BY <2>1, <2>4 DEF Prints
<1>4. CASE translate_break(b)
  <2>1. /\ b = 240 /\ ~s.extended /\ printed' = printed
        /\ t = [s EXCEPT !.release = TRUE]
    BY <1>4 DEF translate_break, Plain
  <2>2. /\ t \in States /\ t.release /\ ~t.extended
        /\ t.shift <=> s.shift
        /\ t.caps <=> s.caps
    BY ONLY <1>0, <2>1 DEF States
  <2>3. FlagsAfter(s, b, t)
    BY <2>1, <2>2 DEF FlagsAfter
  <2>4. t = Decoded(s, b)
    BY <1>0, <2>2, <2>3, DecodedIs
  <2> QED BY <1>1, <2>1, <2>4 DEF Prints
<1>5. CASE translate_shift(b)
  <2>1. /\ b \in {18, 89} /\ ~s.extended /\ printed' = printed
        /\ t = [[s EXCEPT !.release = FALSE] EXCEPT !.shift = ~s.release]
    BY <1>5 DEF translate_shift, Plain, after_key
  <2>2. /\ t \in States /\ ~t.release /\ ~t.extended
        /\ t.shift <=> ~s.release
        /\ t.caps <=> s.caps
    BY ONLY <1>0, <2>1 DEF States
  <2>3. FlagsAfter(s, b, t)
    BY <2>1, <2>2 DEF FlagsAfter
  <2>4. t = Decoded(s, b)
    BY <1>0, <2>2, <2>3, DecodedIs
  <2> QED BY <1>1, <2>1, <2>4 DEF Prints
<1>6. CASE translate_caps(b)
  <2>1. /\ b = 88 /\ ~s.extended /\ s.release /\ printed' = printed
        /\ t = [[s EXCEPT !.release = FALSE] EXCEPT !.caps = ~@]
    BY <1>6 DEF translate_caps, caps_stroke, Plain, after_key
  <2>2. /\ t \in States /\ ~t.release /\ ~t.extended
        /\ t.shift <=> s.shift
        /\ t.caps <=> ~s.caps
    BY ONLY <1>0, <2>1 DEF States
  <2>3. FlagsAfter(s, b, t)
    BY <2>1, <2>2 DEF FlagsAfter
  <2>4. t = Decoded(s, b)
    BY <1>0, <2>2, <2>3, DecodedIs
  <2> QED BY <1>1, <2>1, <2>4 DEF Prints
<1>7. CASE translate_key(b)
  <2>1. /\ t = [s EXCEPT !.release = FALSE] /\ ~s.extended
        /\ b # 224 /\ b # 240 /\ b \notin {18, 89} /\ ~(b = 88 /\ s.release)
        /\ printed' = IF s.release \/ past_table(b) \/ no_char(b) THEN printed
                      ELSE Append(printed, CharOf(s, b))
    BY <1>7 DEF translate_key, Plain, caps_stroke, after_key, CharOf
  <2>2. /\ t \in States /\ ~t.release /\ ~t.extended
        /\ t.shift <=> s.shift
        /\ t.caps <=> s.caps
    BY ONLY <1>0, <2>1 DEF States
  <2>3. FlagsAfter(s, b, t)
    BY <2>1, <2>2 DEF FlagsAfter
  <2>4. t = Decoded(s, b)
    BY <1>0, <2>2, <2>3, DecodedIs
  <2>5. (past_table(b) \/ no_char(b)) <=> b \notin Printable
    BY <1>1 DEF past_table, no_char, Bytes, table_size
  <2>6. (s.release \/ past_table(b) \/ no_char(b)) <=> ~Prints(s, b)
    BY <2>1, <2>5 DEF Prints
  <2> QED BY <2>1, <2>4, <2>6
<1> QED BY <1>2, <1>3, <1>4, <1>5, <1>6, <1>7 DEF kbd_translate

-----------------------------------------------------------------------------
(* Decodings of a wire                                                     *)

\* st and c are the states and the numbers of characters printed after each
\* byte of w, if m is what is printed in all.
IsDecoding(w, m, st, c) ==
  /\ st \in [0..Len(w) -> States] /\ c \in [0..Len(w) -> 0..Len(m)]
  /\ c[Len(w)] = Len(m)
  /\ \A i \in 1..Len(w) :
       /\ st[i] = Decoded(st[i - 1], w[i])
       /\ IF Prints(st[i - 1], w[i])
            THEN c[i] = c[i - 1] + 1 /\ m[c[i]] = CharOf(st[i - 1], w[i])
            ELSE c[i] = c[i - 1]

\* Wire w takes the decoder from state s, with p printed, to state t with m.
Decodes(w, s, p, t, m) ==
  \E st, c : /\ IsDecoding(w, m, st, c) /\ st[0] = s /\ st[Len(w)] = t
             /\ Len(p) = c[0] /\ \A j \in 1..Len(p) : p[j] = m[j]

\* An empty wire changes nothing.
LEMMA EmptyWire ==
  ASSUME NEW s \in States, NEW m \in Seq(Chars)
  PROVE  Decodes(<<>>, s, m, s, m)
<1> DEFINE st == [i \in 0..0 |-> s]
           c == [i \in 0..0 |-> Len(m)]
<1>1. Len(m) \in Nat
  OBVIOUS
<1>2. IsDecoding(<<>>, m, st, c)
  BY <1>1 DEF IsDecoding
<1>3. st[0] = s /\ st[Len(<<>>)] = s /\ c[0] = Len(m)
  OBVIOUS
<1> HIDE DEF st, c
<1> QED BY <1>2, <1>3 DEF Decodes

\* With nothing on the wire nothing is missing.
LEMMA NothingOnWire ==
  ASSUME NEW s, NEW t, NEW p \in Seq(Chars), NEW m \in Seq(Chars), Decodes(<<>>, s, p, t, m)
  PROVE  s = t /\ p = m
<1>1. PICK st, c : /\ IsDecoding(<<>>, m, st, c) /\ st[0] = s /\ st[Len(<<>>)] = t
                   /\ Len(p) = c[0] /\ \A j \in 1..Len(p) : p[j] = m[j]
  BY DEF Decodes
<1>2. Len(p) = Len(m)
  BY <1>1 DEF IsDecoding
<1> QED BY <1>1, <1>2, SeqEqual

\* What has been printed is a prefix of what will have been.
LEMMA PrintedIsPrefix ==
  ASSUME NEW w, NEW s, NEW t, NEW p \in Seq(Chars), NEW m \in Seq(Chars), Len(w) \in Nat,
         Decodes(w, s, p, t, m)
  PROVE  IsPrefix(p, m)
<1>1. PICK st, c : /\ IsDecoding(w, m, st, c)
                   /\ Len(p) = c[0] /\ \A j \in 1..Len(p) : p[j] = m[j]
  BY DEF Decodes
<1>2. Len(p) <= Len(m) /\ Len(p) \in Nat /\ Len(m) \in Nat
  <2>1. Len(m) \in Nat
    OBVIOUS
  <2>2. 0 \in 0..Len(w) /\ c \in [0..Len(w) -> 0..Len(m)]
    BY <1>1 DEF IsDecoding
  <2>3. c[0] \in 0..Len(m)
    BY ONLY <2>2
  <2> QED BY ONLY <1>1, <2>1, <2>3
<1>3. SubSeq(p, 1, Len(p)) = p
  BY SubSeqFull
<1>4. /\ SubSeq(m, 1, Len(p)) \in Seq(Chars) /\ Len(SubSeq(m, 1, Len(p))) = Len(p)
      /\ \A i \in 1..Len(p) : SubSeq(m, 1, Len(p))[i] = m[i]
  BY <1>2
<1>5. SubSeq(m, 1, Len(p)) = p
  BY <1>1, <1>4, SeqEqual
<1> QED BY <1>2, <1>3, <1>5 DEF IsPrefix

\* The driver takes the first byte.
LEMMA FirstByte ==
  ASSUME NEW w \in Seq(Bytes), w # <<>>, NEW s \in States, NEW t, NEW p \in Seq(Chars),
         NEW m \in Seq(Chars), Decodes(w, s, p, t, m), NEW q,
         q = IF Prints(s, Head(w)) THEN Append(p, CharOf(s, Head(w))) ELSE p
  PROVE  Decodes(Tail(w), Decoded(s, Head(w)), q, t, m)
<1>1. PICK st, c : /\ IsDecoding(w, m, st, c) /\ st[0] = s /\ st[Len(w)] = t
                   /\ Len(p) = c[0] /\ \A j \in 1..Len(p) : p[j] = m[j]
  BY DEF Decodes
<1>2. PICK n \in Nat : n = Len(w) /\ n >= 1
  BY EmptySeq
<1>3. /\ Len(Tail(w)) = n - 1 /\ Head(w) = w[1]
      /\ \A i \in 1..(n - 1) : Tail(w)[i] = w[i + 1]
  BY <1>2, HeadTailProperties
<1> DEFINE st1 == [i \in 0..(n - 1) |-> st[i + 1]]
           c1 == [i \in 0..(n - 1) |-> c[i + 1]]
<1>4. /\ st \in [0..n -> States] /\ c \in [0..n -> 0..Len(m)] /\ c[n] = Len(m)
      /\ \A i \in 1..n :
           /\ st[i] = Decoded(st[i - 1], w[i])
           /\ IF Prints(st[i - 1], w[i])
                THEN c[i] = c[i - 1] + 1 /\ m[c[i]] = CharOf(st[i - 1], w[i])
                ELSE c[i] = c[i - 1]
  BY <1>1, <1>2 DEF IsDecoding
<1>5. /\ st1 \in [0..(n - 1) -> States] /\ c1 \in [0..(n - 1) -> 0..Len(m)]
      /\ c1[n - 1] = Len(m) /\ st1[n - 1] = t /\ st1[0] = st[1] /\ c1[0] = c[1]
  BY <1>1, <1>2, <1>4
<1>6. ASSUME NEW i \in 1..(n - 1)
      PROVE  /\ st1[i] = Decoded(st1[i - 1], Tail(w)[i])
             /\ IF Prints(st1[i - 1], Tail(w)[i])
                  THEN c1[i] = c1[i - 1] + 1 /\ m[c1[i]] = CharOf(st1[i - 1], Tail(w)[i])
                  ELSE c1[i] = c1[i - 1]
  <2>1. i + 1 \in 1..n /\ (i + 1) - 1 = i /\ i \in 0..(n - 1) /\ i - 1 \in 0..(n - 1)
        /\ (i - 1) + 1 = i
    BY <1>2
  <2>2. st1[i] = st[i + 1] /\ st1[i - 1] = st[i] /\ c1[i] = c[i + 1] /\ c1[i - 1] = c[i]
    BY <2>1
  <2>3. Tail(w)[i] = w[i + 1]
    BY <1>3
  <2> HIDE DEF st1, c1
  <2> QED BY <1>4, <2>1, <2>2, <2>3
<1>7. IsDecoding(Tail(w), m, st1, c1)
  <2> HIDE DEF st1, c1
  <2> QED BY <1>3, <1>5, <1>6 DEF IsDecoding
<1>8. st[1] = Decoded(s, Head(w))
  BY <1>1, <1>2, <1>3, <1>4
<1>9. Len(q) = c[1] /\ \A j \in 1..Len(q) : q[j] = m[j]
  <2>1. /\ IF Prints(s, Head(w)) THEN c[1] = c[0] + 1 /\ m[c[1]] = CharOf(s, Head(w))
                                 ELSE c[1] = c[0]
        /\ c[0] \in Nat
    BY <1>1, <1>2, <1>3, <1>4
  <2>2. CASE Prints(s, Head(w))
    <3>1. /\ Len(q) = Len(p) + 1 /\ q[Len(p) + 1] = CharOf(s, Head(w))
          /\ \A j \in 1..Len(p) : q[j] = p[j]
      BY <2>2
    <3> QED BY <1>1, <2>1, <2>2, <3>1
  <2>3. CASE ~Prints(s, Head(w))
    BY <1>1, <2>1, <2>3
  <2> QED BY <2>2, <2>3
<1> HIDE DEF st1, c1
<1> QED BY <1>3, <1>5, <1>7, <1>8, <1>9 DEF Decodes

\* The keyboard adds a byte at the end.
LEMMA LastByte ==
  ASSUME NEW w \in Seq(Bytes), NEW b \in Bytes, NEW s, NEW t \in States, NEW p \in Seq(Chars),
         NEW m \in Seq(Chars), Decodes(w, s, p, t, m), NEW m2,
         m2 = IF Prints(t, b) THEN Append(m, CharOf(t, b)) ELSE m
  PROVE  Decodes(Append(w, b), s, p, Decoded(t, b), m2)
<1>1. PICK st, c : /\ IsDecoding(w, m, st, c) /\ st[0] = s /\ st[Len(w)] = t
                   /\ Len(p) = c[0] /\ \A j \in 1..Len(p) : p[j] = m[j]
  BY DEF Decodes
<1>2. PICK n \in Nat, l \in Nat : n = Len(w) /\ l = Len(m)
  OBVIOUS
<1>3. /\ Len(Append(w, b)) = n + 1 /\ Append(w, b)[n + 1] = b
      /\ \A i \in 1..n : Append(w, b)[i] = w[i]
  BY <1>2, AppendProperties
<1>4. /\ st \in [0..n -> States] /\ c \in [0..n -> 0..l] /\ c[n] = l /\ st[n] = t
      /\ \A i \in 1..n :
           /\ st[i] = Decoded(st[i - 1], w[i])
           /\ IF Prints(st[i - 1], w[i])
                THEN c[i] = c[i - 1] + 1 /\ m[c[i]] = CharOf(st[i - 1], w[i])
                ELSE c[i] = c[i - 1]
  BY <1>1, <1>2 DEF IsDecoding
<1>5. PICK l2 \in Nat : /\ l2 = Len(m2) /\ l <= l2
                        /\ l2 = (IF Prints(t, b) THEN l + 1 ELSE l)
                        /\ Prints(t, b) => m2[l2] = CharOf(t, b)
                        /\ \A j \in 1..l : m2[j] = m[j]
  <2>1. CASE Prints(t, b)
    <3>1. b \in Printable /\ CharOf(t, b) \in Chars
      BY <2>1, CharType DEF Prints, CharOf, States
    <3>2. m2 = Append(m, CharOf(t, b))
      BY <2>1
    <3>3. Len(m2) = l + 1 /\ m2[l + 1] = CharOf(t, b) /\ \A j \in 1..l : m2[j] = m[j]
      BY <1>2, <3>1, <3>2, AppendProperties
    <3> QED BY <2>1, <3>3
  <2>2. CASE ~Prints(t, b)
    BY <2>2, <1>2
  <2> QED BY <2>1, <2>2
<1> DEFINE st1 == [i \in 0..(n + 1) |-> IF i = n + 1 THEN Decoded(t, b) ELSE st[i]]
           c1 == [i \in 0..(n + 1) |-> IF i = n + 1 THEN l2 ELSE c[i]]
<1>6. Decoded(t, b) \in States
  BY DecodedFlags
<1>7. st1 \in [0..(n + 1) -> States] /\ c1 \in [0..(n + 1) -> 0..l2]
  <2>1. ASSUME NEW i \in 0..(n + 1) PROVE st1[i] \in States /\ c1[i] \in 0..l2
    BY <1>4, <1>5, <1>6
  <2> QED BY <2>1
<1>8. /\ st1[0] = s /\ c1[0] = c[0] /\ st1[n + 1] = Decoded(t, b) /\ c1[n + 1] = l2
      /\ \A i \in 0..n : st1[i] = st[i] /\ c1[i] = c[i]
  BY <1>1
<1>9. ASSUME NEW i \in 1..(n + 1)
      PROVE  /\ st1[i] = Decoded(st1[i - 1], Append(w, b)[i])
             /\ IF Prints(st1[i - 1], Append(w, b)[i])
                  THEN c1[i] = c1[i - 1] + 1 /\ m2[c1[i]] = CharOf(st1[i - 1], Append(w, b)[i])
                  ELSE c1[i] = c1[i - 1]
  <2> HIDE DEF st1, c1
  <2>1. CASE i = n + 1
    <3>1. st1[i - 1] = t /\ c1[i - 1] = l
      BY <2>1, <1>4, <1>8
    <3>2. st1[i] = Decoded(t, b) /\ c1[i] = l2 /\ Append(w, b)[i] = b
      BY <2>1, <1>3, <1>8
    <3> QED BY <3>1, <3>2, <1>5
  <2>2. CASE i # n + 1
    <3>1. i \in 1..n /\ i \in 0..n /\ i - 1 \in 0..n
      BY <2>2
    <3>2. /\ st1[i - 1] = st[i - 1] /\ c1[i - 1] = c[i - 1] /\ st1[i] = st[i] /\ c1[i] = c[i]
          /\ Append(w, b)[i] = w[i]
      BY <3>1, <1>3, <1>8
    <3>3. /\ st[i] = Decoded(st[i - 1], w[i])
          /\ IF Prints(st[i - 1], w[i])
                THEN c[i] = c[i - 1] + 1 /\ m[c[i]] = CharOf(st[i - 1], w[i])
                ELSE c[i] = c[i - 1]
          /\ c[i] \in 0..l /\ c[i - 1] \in 0..l
      BY <3>1, <1>4
    <3>4. Prints(st[i - 1], w[i]) => m2[c[i]] = m[c[i]]
      BY <3>3, <1>5
    <3> QED BY <3>2, <3>3, <3>4
  <2> QED BY <2>1, <2>2
<1>10. IsDecoding(Append(w, b), m2, st1, c1)
  <2> HIDE DEF st1, c1
  <2> QED BY <1>3, <1>5, <1>7, <1>8, <1>9 DEF IsDecoding
<1>11. Len(p) = c1[0] /\ \A j \in 1..Len(p) : p[j] = m2[j]
  <2>1. c[0] \in 0..l
    BY <1>4
  <2> HIDE DEF st1, c1
  <2> QED BY <1>1, <1>5, <1>8, <2>1
<1> HIDE DEF st1, c1
<1> QED BY <1>3, <1>8, <1>10, <1>11 DEF Decodes

-----------------------------------------------------------------------------
(* The types *)

\* A byte sequence keeps its type.
LEMMA CodesType ==
  ASSUME NEW k \in Keys
  PROVE  /\ make_code(k) \in Seq(Bytes) /\ break_code(k) \in Seq(Bytes)
         /\ k.sc \in Bytes /\ k.ext \in BOOLEAN
<1>1. k.sc \in Bytes /\ k.ext \in BOOLEAN
  BY KeyboardAssumption DEF Bytes
<1>2. SC2_EXT_PREFIX \in Bytes /\ SC2_BREAK_PREFIX \in Bytes
  BY DEF SC2_EXT_PREFIX, SC2_BREAK_PREFIX, Bytes
<1> QED BY <1>1, <1>2 DEF make_code, break_code

\* The type invariant is inductive by itself.
LEMMA TypesStep ==
  ASSUME TypeOK, [Next]_vars
  PROVE  TypeOK'
<1> USE DEF States, Bytes
<1>1. ASSUME NEW k \in Keys, KeyDown(k) PROVE TypeOK'
  <2>1. wire' = wire \o make_code(k) /\ events' = events + 1 /\ events < MaxEvents
        /\ Len(wire) + Len(make_code(k)) <= MaxWire
    BY <1>1 DEF KeyDown, Sends
  <2>2. wire' \in Seq(0..255) /\ Len(wire') <= MaxWire
    BY <2>1, CodesType, ConcatProperties DEF TypeOK
  <2>3. events' \in 0..MaxEvents
    BY <2>1, KeyboardAssumption DEF TypeOK
  <2>4. meant' \in Seq(Chars)
    <3>1. CASE ~k.ext /\ k.sc \in Printable
      <4>1. ShiftHeld(down) \in BOOLEAN /\ caps_lock \in BOOLEAN
        BY DEF ShiftHeld, TypeOK
      <4>2. with_caps(table_char(k.sc, ShiftHeld(down)), caps_lock) \in Chars
        BY <3>1, <4>1, CharType
      <4> QED BY <1>1, <3>1, <4>2, AppendProperties DEF KeyDown, TypeOK
    <3>2. CASE ~(~k.ext /\ k.sc \in Printable)
      BY <1>1, <3>2 DEF KeyDown, TypeOK
    <3> QED BY <3>1, <3>2
  <2>5. down' \subseteq Keys /\ UNCHANGED <<ps2_state, printed, caps_lock>>
    BY <1>1 DEF KeyDown, TypeOK
  <2> QED BY <2>2, <2>3, <2>4, <2>5 DEF TypeOK
<1>2. ASSUME NEW k \in Keys, KeyUp(k) PROVE TypeOK'
  <2>1. wire' = wire \o break_code(k) /\ events' = events + 1 /\ events < MaxEvents
        /\ Len(wire) + Len(break_code(k)) <= MaxWire
    BY <1>2 DEF KeyUp, Sends
  <2>2. wire' \in Seq(0..255) /\ Len(wire') <= MaxWire
    BY <2>1, CodesType, ConcatProperties DEF TypeOK
  <2>3. events' \in 0..MaxEvents
    BY <2>1, KeyboardAssumption DEF TypeOK
  <2>4. down' \subseteq Keys /\ UNCHANGED <<ps2_state, printed, meant>>
    BY <1>2 DEF KeyUp, TypeOK
  <2>5. caps_lock' \in BOOLEAN
    BY <1>2 DEF KeyUp
  <2> QED BY <2>2, <2>3, <2>4, <2>5 DEF TypeOK
<1>3. CASE keyboard_interrupt_handler
  <2>1. wire # <<>> /\ wire \in Seq(Bytes) /\ kbd_translate(Head(wire)) /\ wire' = Tail(wire)
        /\ UNCHANGED <<down, events, caps_lock, meant>> /\ ps2_state \in States
    BY <1>3 DEF keyboard_interrupt_handler, TypeOK
  <2>2. Head(wire) \in Bytes /\ wire' \in Seq(Bytes) /\ Len(wire') = Len(wire) - 1
    BY <2>1, HeadTailProperties
  <2>3. /\ ps2_state' = Decoded(ps2_state, Head(wire))
        /\ printed' = IF Prints(ps2_state, Head(wire))
                        THEN Append(printed, CharOf(ps2_state, Head(wire))) ELSE printed
    BY <2>1, <2>2, TranslateIs
  <2>4. ps2_state' \in States
    BY <2>1, <2>3, DecodedFlags
  <2>5. printed' \in Seq(Chars)
    <3>1. Prints(ps2_state, Head(wire)) => CharOf(ps2_state, Head(wire)) \in Chars
      BY <2>1, CharType DEF Prints, CharOf
    <3> QED BY <2>3, <3>1, AppendProperties DEF TypeOK
  <2>6. Len(wire') <= MaxWire
    <3>1. Len(wire) \in Nat
      BY <2>1
    <3> QED BY <2>2, <3>1, KeyboardAssumption DEF TypeOK
  <2> QED BY <2>1, <2>2, <2>4, <2>5, <2>6 DEF TypeOK
<1>4. CASE UNCHANGED vars
  BY <1>4 DEF vars, TypeOK
<1> QED BY <1>1, <1>2, <1>3, <1>4 DEF Next, Quiet

\* The types hold at first.
LEMMA FirstTypes ==
  ASSUME Init
  PROVE  TypeOK
<1>1. ps2_state \in States
  BY DEF Init, States
<1>2. printed \in Seq(Chars) /\ meant \in Seq(Chars) /\ wire \in Seq(0..255) /\ Len(wire) = 0
  BY DEF Init
<1>3. down \subseteq Keys /\ caps_lock \in BOOLEAN /\ events = 0
  BY DEF Init
<1> QED BY <1>1, <1>2, <1>3, KeyboardAssumption DEF TypeOK, States

\* Characters are read from inside the tables and the wire is never longer
\* than the keyboard's buffer, whatever the keys are (kbd_translate).
THEOREM KeyboardTypes == Spec => []TypeOK
BY FirstTypes, TypesStep, PTL DEF Spec

-----------------------------------------------------------------------------
(* The decoder is in step with the keys *)

\* The state the decoder would be in if it had read everything.
RealState == [shift |-> ShiftHeld(down), caps |-> caps_lock,
              release |-> FALSE, extended |-> FALSE]

InStep == TypeOK /\ Decodes(wire, ps2_state, printed, RealState, meant)

\* The sequences of codes, byte by byte.
LEMMA AddedBytes ==
  ASSUME NEW w \in Seq(Bytes), NEW a \in Bytes, NEW b \in Bytes, NEW c \in Bytes
  PROVE  /\ w \o <<a>> = Append(w, a) /\ w \o <<a, b>> = Append(Append(w, a), b)
         /\ w \o <<a, b, c>> = Append(Append(Append(w, a), b), c)
         /\ Append(w, a) \in Seq(Bytes) /\ Append(Append(w, a), b) \in Seq(Bytes)
<1>1. w \o <<a>> = Append(w, a)
  OBVIOUS
<1>2. w \o <<a, b>> = Append(Append(w, a), b)
  OBVIOUS
<1>3. w \o <<a, b, c>> = Append(Append(Append(w, a), b), c)
  OBVIOUS
<1>4. Append(w, a) \in Seq(Bytes) /\ Append(Append(w, a), b) \in Seq(Bytes)
  OBVIOUS
<1> QED BY <1>1, <1>2, <1>3, <1>4

\* A byte that prints nothing.
LEMMA LastSilent ==
  ASSUME NEW w \in Seq(Bytes), NEW b \in Bytes, NEW s, NEW t \in States,
         NEW p \in Seq(Chars), NEW m \in Seq(Chars), Decodes(w, s, p, t, m), ~Prints(t, b)
  PROVE  Decodes(Append(w, b), s, p, Decoded(t, b), m)
BY LastByte

\* Two bytes that print nothing.
LEMMA TwoSilent ==
  ASSUME NEW w \in Seq(Bytes), NEW a \in Bytes, NEW b \in Bytes, NEW s, NEW t \in States,
         NEW p \in Seq(Chars), NEW m \in Seq(Chars), Decodes(w, s, p, t, m),
         ~Prints(t, a), ~Prints(Decoded(t, a), b)
  PROVE  Decodes(w \o <<a, b>>, s, p, Decoded(Decoded(t, a), b), m)
<1>1. Decodes(Append(w, a), s, p, Decoded(t, a), m)
  BY LastSilent
<1>2. Append(w, a) \in Seq(Bytes) /\ Decoded(t, a) \in States
  BY AddedBytes, DecodedFlags
<1>3. Decodes(Append(Append(w, a), b), s, p, Decoded(Decoded(t, a), b), m)
  BY <1>1, <1>2, LastSilent
<1>4. w \o <<a, b>> = Append(Append(w, a), b)
  BY AddedBytes
<1> QED BY ONLY <1>3, <1>4

\* The flags of the real state.
LEMMA RealFlags ==
  ASSUME TypeOK
  PROVE  /\ RealState \in States /\ ~RealState.release /\ ~RealState.extended
         /\ RealState.shift <=> ShiftHeld(down)
         /\ RealState.caps <=> caps_lock
<1>1. caps_lock \in BOOLEAN /\ ShiftHeld(down) \in BOOLEAN
  BY DEF TypeOK, ShiftHeld
<1> QED BY <1>1 DEF RealState, States

\* The same of the next state.
LEMMA RealFlagsNext ==
  ASSUME TypeOK'
  PROVE  /\ RealState' \in States /\ ~(RealState').release /\ ~(RealState').extended
         /\ (RealState').shift <=> ShiftHeld(down')
         /\ (RealState').caps <=> caps_lock'
<1>1. caps_lock' \in BOOLEAN /\ ShiftHeld(down') \in BOOLEAN
  BY DEF TypeOK, ShiftHeld
<1>2. RealState' = [shift |-> ShiftHeld(down'), caps |-> caps_lock',
                    release |-> FALSE, extended |-> FALSE]
  BY DEF RealState, ShiftHeld
<1> QED BY <1>1, <1>2 DEF States

\* A press: the decoder ends in the real state, and prints what is meant.
LEMMA PressInStep ==
  ASSUME Ordinary(Keys), InStep, NEW k \in Keys, KeyDown(k), TypeOK'
  PROVE  Decodes(wire', ps2_state', printed', RealState', meant')
<1> USE DEF SC2_EXT_PREFIX, SC2_BREAK_PREFIX, SC2_SHIFT, SC2_CAPS
<1>1. PICK R \in States, R1 \in States : R = RealState /\ R1 = RealState'
  BY RealFlags, RealFlagsNext DEF InStep
<1>2. /\ Decodes(wire, ps2_state, printed, R, meant) /\ wire \in Seq(Bytes)
      /\ printed \in Seq(Chars) /\ meant \in Seq(Chars)
  BY <1>1 DEF InStep, TypeOK, Bytes
<1>3. /\ ~R.release /\ ~R.extended /\ (R.shift <=> ShiftHeld(down)) /\ (R.caps <=> caps_lock)
      /\ ~R1.release /\ ~R1.extended /\ (R1.shift <=> ShiftHeld(down')) /\ (R1.caps <=> caps_lock')
  BY <1>1, RealFlags, RealFlagsNext DEF InStep
<1>4. /\ wire' = wire \o make_code(k) /\ UNCHANGED <<ps2_state, printed, caps_lock>>
      /\ down' = down \cup {k}
      /\ meant' = IF ~k.ext /\ k.sc \in Printable
                    THEN Append(meant, with_caps(table_char(k.sc, ShiftHeld(down)), caps_lock))
                    ELSE meant
  BY DEF KeyDown, Sends
<1>5. k.sc \in Bytes /\ k.ext \in BOOLEAN /\ k.sc # 224 /\ k.sc # 240
  BY CodesType DEF Ordinary
<1>6. CASE k.ext
  <2>1. wire' = wire \o <<224, k.sc>> /\ 224 \in Bytes
    BY <1>4, <1>6 DEF make_code, Bytes
  <2>2. k.sc \notin Printable /\ 224 \notin Printable
    BY <1>6, PrintableCodes DEF Ordinary
  <2>3. PICK E \in States : E = Decoded(R, 224) /\ E.extended /\ ~E.release
                            /\ (E.shift <=> R.shift) /\ (E.caps <=> R.caps)
    BY <1>3, DecodedFlags DEF FlagsAfter
  <2>4. ShiftHeld(down') <=> ShiftHeld(down)
    BY <1>4, <1>6 DEF ShiftHeld
  <2>5. Decoded(E, k.sc) = R1
    BY <1>3, <1>4, <1>5, <2>3, <2>4, DecodedFlags, SameState DEF FlagsAfter
  <2>6. ~Prints(R, 224) /\ ~Prints(E, k.sc)
    BY <2>2 DEF Prints
  <2>7. Decodes(wire', ps2_state, printed, R1, meant)
    BY <1>2, <1>5, <2>1, <2>3, <2>5, <2>6, TwoSilent
  <2> QED BY <1>1, <1>4, <1>6, <2>7
<1>7. CASE ~k.ext
  <2>1. wire' = Append(wire, k.sc)
    BY <1>2, <1>4, <1>5, <1>7, AddedBytes DEF make_code
  <2>2. meant' = IF Prints(R, k.sc) THEN Append(meant, CharOf(R, k.sc)) ELSE meant
    <3>1. R.shift = ShiftHeld(down) /\ R.caps = caps_lock
      BY <1>1 DEF RealState
    <3>2. Prints(R, k.sc) <=> k.sc \in Printable
      BY <1>3 DEF Prints
    <3> QED BY <1>4, <1>7, <3>1, <3>2 DEF CharOf
  <2>3. Decodes(wire', ps2_state, printed, Decoded(R, k.sc), meant')
    BY <1>2, <1>5, <2>1, <2>2, LastByte
  <2>4. CASE k.sc \in SC2_SHIFT
    <3>1. ShiftHeld(down')
      BY <1>4, <1>7, <2>4 DEF ShiftHeld
    <3>2. Decoded(R, k.sc) = R1
      BY <1>3, <1>4, <1>5, <2>4, <3>1, DecodedFlags, SameState DEF FlagsAfter
    <3> QED BY <1>1, <1>4, <2>3, <3>2
  <2>5. CASE k.sc \notin SC2_SHIFT
    <3>1. ShiftHeld(down') <=> ShiftHeld(down)
      BY <1>4, <2>5 DEF ShiftHeld
    <3>2. Decoded(R, k.sc) = R1
      BY <1>3, <1>4, <1>5, <2>5, <3>1, DecodedFlags, SameState DEF FlagsAfter
    <3> QED BY <1>1, <1>4, <2>3, <3>2
  <2> QED BY <2>4, <2>5
<1> QED BY <1>5, <1>6, <1>7

\* A release: prints nothing, and updates the modifiers.
LEMMA ReleaseInStep ==
  ASSUME Ordinary(Keys), InStep, NEW k \in Keys, KeyUp(k), TypeOK'
  PROVE  Decodes(wire', ps2_state', printed', RealState', meant')
<1> USE DEF SC2_EXT_PREFIX, SC2_BREAK_PREFIX, SC2_SHIFT, SC2_CAPS
<1>1. PICK R \in States, R1 \in States : R = RealState /\ R1 = RealState'
  BY RealFlags, RealFlagsNext DEF InStep
<1>2. /\ Decodes(wire, ps2_state, printed, R, meant) /\ wire \in Seq(Bytes)
      /\ printed \in Seq(Chars) /\ meant \in Seq(Chars) /\ down \subseteq Keys
  BY <1>1 DEF InStep, TypeOK, Bytes
<1>3. /\ ~R.release /\ ~R.extended /\ (R.shift <=> ShiftHeld(down)) /\ (R.caps <=> caps_lock)
      /\ ~R1.release /\ ~R1.extended /\ (R1.shift <=> ShiftHeld(down')) /\ (R1.caps <=> caps_lock')
  BY <1>1, RealFlags, RealFlagsNext DEF InStep
<1>4. /\ wire' = wire \o break_code(k) /\ UNCHANGED <<ps2_state, printed, meant>>
      /\ down' = down \ {k} /\ k \in down
      /\ caps_lock' <=> ~(caps_lock <=> (k.sc = 88 /\ ~k.ext))
  <2>1. caps_lock \in BOOLEAN /\ caps_lock' = (caps_lock # (k.sc = 88 /\ ~k.ext))
    BY DEF KeyUp, InStep, TypeOK
  <2>2. caps_lock' <=> ~(caps_lock <=> (k.sc = 88 /\ ~k.ext))
    BY <2>1
  <2> QED BY <2>2 DEF KeyUp, Sends
<1>5. /\ k.sc \in Bytes /\ k.ext \in BOOLEAN /\ k.sc # 224 /\ k.sc # 240
      /\ 224 \in Bytes /\ 240 \in Bytes /\ 224 \notin Printable /\ 240 \notin Printable
  BY CodesType, PrintableCodes DEF Ordinary, Bytes
<1>6. k.ext \/ k.sc \notin SC2_SHIFT => (ShiftHeld(down') <=> ShiftHeld(down))
  BY <1>4 DEF ShiftHeld
<1>7. CASE k.ext
  <2>1. wire' = wire \o <<224, 240, k.sc>>
    BY <1>4, <1>7 DEF break_code
  <2>2. k.sc \notin Printable /\ k.sc \notin SC2_SHIFT
    BY <1>7 DEF Ordinary
  <2>3. PICK E \in States : E = Decoded(R, 224) /\ E.extended /\ ~E.release
                            /\ (E.shift <=> R.shift) /\ (E.caps <=> R.caps)
    BY <1>3, DecodedFlags DEF FlagsAfter
  <2>4. Decoded(E, 240) = R
    BY <1>3, <2>3, DecodedFlags, SameState DEF FlagsAfter
  <2>5. ~Prints(R, 224) /\ ~Prints(E, 240) /\ ~Prints(R, k.sc)
    BY <1>5, <2>2 DEF Prints
  <2>6. Decodes(wire \o <<224, 240>>, ps2_state, printed, R, meant)
    <3>1. Decodes(wire \o <<224, 240>>, ps2_state, printed, Decoded(Decoded(R, 224), 240), meant)
      BY <1>2, <1>5, <2>3, <2>5, TwoSilent
    <3> QED BY ONLY <2>3, <2>4, <3>1
  <2>7. wire \o <<224, 240>> \in Seq(Bytes) /\ wire' = Append(wire \o <<224, 240>>, k.sc)
    <3>1. wire \o <<224, 240>> = Append(Append(wire, 224), 240)
      BY <1>2, <1>5, AddedBytes
    <3>2. wire \o <<224, 240, k.sc>> = Append(Append(Append(wire, 224), 240), k.sc)
      BY <1>2, <1>5, AddedBytes
    <3>3. Append(Append(wire, 224), 240) \in Seq(Bytes)
      BY <1>2, <1>5, AddedBytes
    <3> QED BY <2>1, <3>1, <3>2, <3>3
  <2>8. Decoded(R, k.sc) = R1
    BY <1>3, <1>4, <1>5, <1>6, <1>7, <2>2, DecodedFlags, SameState DEF FlagsAfter
  <2>9. Decodes(wire', ps2_state, printed, R1, meant)
    <3>1. PICK w \in Seq(Bytes) : w = wire \o <<224, 240>> /\ wire' = Append(w, k.sc)
      BY <2>7
    <3>2. PICK b \in Bytes : b = k.sc /\ ~Prints(R, b)
      BY <1>5, <2>5
    <3>3. Decodes(w, ps2_state, printed, R, meant)
      BY ONLY <2>6, <3>1
    <3>4. Decodes(Append(w, b), ps2_state, printed, Decoded(R, b), meant)
      BY ONLY <1>2, <3>2, <3>3, LastSilent
    <3> QED BY ONLY <2>8, <3>1, <3>2, <3>4
  <2> QED BY <1>1, <1>4, <2>9
<1>8. CASE ~k.ext
  <2>1. wire' = wire \o <<240, k.sc>>
    BY <1>4, <1>8 DEF break_code
  <2>2. PICK Q \in States : Q = Decoded(R, 240) /\ ~Q.extended /\ Q.release
                            /\ (Q.shift <=> R.shift) /\ (Q.caps <=> R.caps)
    BY <1>3, DecodedFlags DEF FlagsAfter
  <2>3. ~Prints(R, 240) /\ ~Prints(Q, k.sc)
    BY <1>5, <2>2 DEF Prints
  <2>4. Decodes(wire', ps2_state, printed, Decoded(Q, k.sc), meant)
    BY <1>2, <1>5, <2>1, <2>2, <2>3, TwoSilent
  <2>5. k.sc \in SC2_SHIFT => ~ShiftHeld(down')
    <3>1. ASSUME k.sc \in SC2_SHIFT, NEW l \in down', ~l.ext, l.sc \in SC2_SHIFT PROVE FALSE
      BY <3>1, <1>2, <1>4, <1>8 DEF Ordinary
    <3> QED BY <3>1 DEF ShiftHeld
  <2>6. Decoded(Q, k.sc) = R1
    <3>1. CASE k.sc \in SC2_SHIFT
      BY <1>3, <1>4, <1>5, <1>8, <2>2, <2>5, <3>1, DecodedFlags, SameState DEF FlagsAfter
    <3>2. CASE k.sc \notin SC2_SHIFT
      BY <1>3, <1>4, <1>5, <1>6, <1>8, <2>2, <3>2, DecodedFlags, SameState DEF FlagsAfter
    <3> QED BY <3>1, <3>2
  <2> QED BY <1>1, <1>4, <2>4, <2>6
<1> QED BY <1>5, <1>7, <1>8

\* The invariant is inductive.
LEMMA InStepStep ==
  ASSUME Ordinary(Keys), InStep, [Next]_vars
  PROVE  InStep'
<1>1. TypeOK'
  BY TypesStep DEF InStep
<1>2. ASSUME NEW k \in Keys, KeyDown(k) PROVE InStep'
  BY <1>1, <1>2, PressInStep DEF InStep
<1>3. ASSUME NEW k \in Keys, KeyUp(k) PROVE InStep'
  BY <1>1, <1>3, ReleaseInStep DEF InStep
<1>4. CASE keyboard_interrupt_handler
  <2>1. /\ wire # <<>> /\ wire \in Seq(Bytes) /\ ps2_state \in States
        /\ kbd_translate(Head(wire)) /\ wire' = Tail(wire)
        /\ printed \in Seq(Chars) /\ meant \in Seq(Chars)
        /\ UNCHANGED <<down, caps_lock, meant>>
    BY <1>4 DEF keyboard_interrupt_handler, InStep, TypeOK, Bytes, States
  <2>2. Head(wire) \in Bytes
    BY <2>1, HeadTailProperties
  <2>3. /\ ps2_state' = Decoded(ps2_state, Head(wire))
        /\ printed' = IF Prints(ps2_state, Head(wire))
                        THEN Append(printed, CharOf(ps2_state, Head(wire))) ELSE printed
    BY <2>1, <2>2, TranslateIs
  <2>4. Decodes(wire, ps2_state, printed, RealState, meant)
    BY DEF InStep
  <2>5. Decodes(wire', ps2_state', printed', RealState, meant)
    BY <2>1, <2>3, <2>4, FirstByte
  <2>6. RealState' = RealState
    BY <2>1 DEF RealState, ShiftHeld
  <2> QED BY <1>1, <2>1, <2>5, <2>6 DEF InStep
<1>5. CASE UNCHANGED vars
  <2>1. RealState' = RealState
    BY <1>5 DEF vars, RealState, ShiftHeld
  <2> QED BY <1>1, <1>5, <2>1 DEF vars, InStep
<1> QED BY <1>2, <1>3, <1>4, <1>5 DEF Next, Quiet

\* At first nothing is on the wire.
LEMMA FirstInStep ==
  ASSUME Init, TypeOK
  PROVE  InStep
<1>1. /\ ps2_state = RealState /\ ps2_state \in States
  BY DEF Init, RealState, ShiftHeld, States
<1>2. wire = <<>> /\ printed = meant /\ meant \in Seq(Chars)
  BY DEF Init, TypeOK
<1> QED BY <1>1, <1>2, EmptyWire DEF InStep

\* On an ordinary keyboard the bytes on the wire always take the decoder to the
\* real state of the keys, and print what is missing of what was typed.
THEOREM AlwaysInStep == ASSUME Ordinary(Keys) PROVE Spec => []InStep
<1>1. ASSUME Init PROVE InStep
  BY <1>1, FirstInStep, FirstTypes
<1> QED BY <1>1, InStepStep, PTL DEF Spec

\* What is printed is, in order and in the right case, a prefix of what the
\* pressed keys stand for, and all of it when the wire is empty (kbd_translate
\* called by keyboard_interrupt_handler for every byte).
THEOREM TypedIsPrinted == ASSUME Ordinary(Keys) PROVE Spec => []PrintsWhatIsTyped
<1>1. ASSUME InStep PROVE PrintsWhatIsTyped
  <2>1. /\ wire \in Seq(Bytes) /\ printed \in Seq(Chars) /\ meant \in Seq(Chars)
        /\ Decodes(wire, ps2_state, printed, RealState, meant)
    BY <1>1 DEF InStep, TypeOK, Bytes
  <2>2. IsPrefix(printed, meant)
    BY <2>1, PrintedIsPrefix
  <2>3. wire = <<>> => printed = meant
    BY <2>1, NothingOnWire
  <2> QED BY <2>2, <2>3 DEF PrintsWhatIsTyped
<1> QED BY <1>1, AlwaysInStep, PTL

\* The driver's modifiers are the real ones whenever it has caught up, after
\* any sequence of presses, repeats and releases.
THEOREM ModifiersInStep == ASSUME Ordinary(Keys) PROVE Spec => []DecoderInStep
<1>1. ASSUME InStep PROVE DecoderInStep
  <2>1. /\ printed \in Seq(Chars) /\ meant \in Seq(Chars)
        /\ Decodes(wire, ps2_state, printed, RealState, meant)
    BY <1>1 DEF InStep, TypeOK
  <2>2. wire = <<>> => ps2_state = RealState
    BY <2>1, NothingOnWire
  <2> QED BY <2>2 DEF DecoderInStep, RealState
<1> QED BY <1>1, AlwaysInStep, PTL
=============================================================================
