------------------------- MODULE PS2ControllerProofs -------------------------
(***************************************************************************)
(* ps2_controller_init configures a controller that keeps up with it.      *)
(*                                                                         *)
(* The driver and the controller meet in the byte written last (Pending),  *)
(* in the answer to a question (Answered) and in the configuration byte    *)
(* (ConfByteInv, ConfigInv); as long as nothing went wrong between them,   *)
(* the driver's position says what each can be.                            *)
(***************************************************************************)
EXTENDS PS2Controller, TLAPS

-----------------------------------------------------------------------------
(* The inductive invariant                                                 *)

Bytes == 0..255
Bits == 0..7
ToCommand(c) == [to |-> "command", byte |-> c]
ToData(b) == [to |-> "data", byte |-> b]
Writes == [to : {"command", "data"}, byte : Bytes]
Origins == {"controller", "port1", "port2", "key"}

\* The stages at which the driver waits for an answer.
Waiting == {"conf1", "self_tested", "conf2", "tested1", "tested2"}

\* The stages after the configuration was written for the last time.
Resetting == {"reset1", "send1", "first1", "second1", "id1",
              "reset2", "send2", "first2", "second2", "id2", "info"}

\* From the second reading of the configuration to the tests of the ports, ...
Testing == {"dual", "write_conf3", "conf_data3", "test1", "tested1", "test2",
            "tested2", "tested", "enable_port1"}
\* ... and from there until the configuration is written.
Enabling == {"enable_port2", "write_conf4", "conf_data4", "flush2"} \cup Resetting

\* From the first reading of the configuration to the second.
Preparing == {"write_conf1", "conf_data1", "self_test", "self_tested",
              "write_conf2", "conf_data2", "enable2", "read_conf2", "conf2"}

Stages == {"init", "disable2", "flush", "read_conf1", "conf1", "failed", "returned"}
            \cup Preparing \cup Testing \cup Enabling

Types ==
  /\ pc \in Stages /\ conf_byte \in Bytes /\ dual \in BOOLEAN
  /\ port1_ok \in BOOLEAN /\ port2_ok \in BOOLEAN
  /\ config \in Bytes /\ expects \in {"port1", "port2", "config"}
  /\ inbuf \in {<<>>} \cup {<<w>> : w \in Writes}
  /\ out \in Seq([byte : Bytes, from : Origins])
  /\ hw \in [dual : BOOLEAN, self_test : {SELF_TEST_OK, BAT_FAILED},
             test1 : {0, 1}, test2 : {0, 1}]

\* What the driver may have written last and the controller not yet read.
Pending ==
  CASE pc = "disable2"  -> {ToCommand(173)}
    [] pc \in {"flush", "read_conf1", "write_conf3"} -> {ToCommand(167)}
    [] pc \in {"conf1", "conf2"} -> {ToCommand(32)}
    [] pc \in {"conf_data1", "conf_data2", "conf_data3", "conf_data4"} -> {ToCommand(96)}
    [] pc \in {"self_test", "enable2", "test1", "flush2"} -> {ToData(conf_byte)}
    [] pc = "self_tested" -> {ToCommand(170)}
    [] pc = "read_conf2" -> {ToCommand(168)}
    [] pc = "tested1" -> {ToCommand(171)}
    [] pc = "tested2" -> {ToCommand(169)}
    [] pc = "enable_port2" -> {ToCommand(174)}
    [] pc = "write_conf4" -> {ToCommand(174), ToCommand(168)}
    [] pc \in Resetting \cup {"returned"} ->
         {ToData(conf_byte), ToData(255), ToCommand(212)}
    [] OTHER -> {}

PendingInv == inbuf = <<>> \/ \E w \in Pending : inbuf = <<w>>

\* The answer the driver waits for, if the controller has read the question.
Truth ==
  CASE pc \in {"conf1", "conf2"} -> config
    [] pc = "self_tested" -> hw.self_test
    [] pc = "tested1" -> hw.test1
    [] OTHER -> hw.test2

NoAnswer(o) == \A n \in DOMAIN o : o[n].from # "controller"
OneAnswer(o, b) == \E n \in DOMAIN o :
  /\ o[n].byte = b /\ o[n].from = "controller"
  /\ \A m \in DOMAIN o : m # n => o[m].from # "controller"

AnswerInv ==
  IF pc \in Waiting /\ inbuf = <<>> THEN OneAnswer(out, Truth) ELSE NoAnswer(out)

\* What is known of the driver's copy of the configuration.
Off(b, S) == S \cap BitsOf(b) = {}
ConfByteInv ==
  /\ pc \in Preparing => Off(conf_byte, {IRQ1, CLOCK1_OFF, TRANSLATION})
  /\ pc \in Testing \cup Enabling =>
       /\ dual = hw.dual /\ Off(conf_byte, {CLOCK1_OFF, TRANSLATION})
       /\ CLOCK2_OFF \in BitsOf(conf_byte) <=> ~dual
  /\ pc \in Testing =>
       /\ IRQ1 \notin BitsOf(conf_byte)
       /\ dual => IRQ2 \notin BitsOf(conf_byte)
  /\ pc \in Enabling => (IRQ1 \in BitsOf(conf_byte) <=> hw.test1 = 0)
  /\ pc = "enable_port2" /\ dual => IRQ2 \notin BitsOf(conf_byte)
  /\ pc \in Enabling \ {"enable_port2"} /\ dual =>
       (IRQ2 \in BitsOf(conf_byte) <=> hw.test2 = 0)

\* What the tests said.
TestInv ==
  /\ pc \in {"write_conf2", "conf_data2", "enable2", "read_conf2", "conf2"}
              \cup Testing \cup Enabling => hw.self_test = SELF_TEST_OK
  /\ pc = "tested2" => dual
  /\ pc \in {"test2", "tested2", "tested", "enable_port1", "enable_port2"} =>
       (port1_ok <=> hw.test1 = 0)
  /\ pc \in {"tested", "enable_port1", "enable_port2"} =>
       (port2_ok <=> dual /\ hw.test2 = 0)
  /\ pc \in {"enable_port1"} \cup Enabling =>
       hw.test1 = 0 \/ (hw.dual /\ hw.test2 = 0)

\* The configuration in the controller, and what its next data byte is for.
ConfigInv ==
  /\ pc \in {"conf_data1", "conf_data2", "conf_data3", "conf_data4"} /\ inbuf = <<>> =>
       expects = "config"
  /\ pc \in {"self_test", "enable2", "test1"} /\ inbuf # <<>> => expects = "config"
  /\ pc = "enable2" /\ inbuf = <<>> => config = Config(conf_byte)
  /\ pc = "read_conf2" /\ inbuf # <<>> => config = Config(conf_byte)
  /\ (pc = "read_conf2" /\ inbuf = <<>>) \/ pc = "conf2" =>
       /\ Off(config, {IRQ1, CLOCK1_OFF, TRANSLATION})
       /\ CLOCK2_OFF \in BitsOf(config) <=> ~hw.dual

\* The last configuration is on its way, or there.
LastInv ==
  \/ inbuf = <<ToData(conf_byte)>> /\ expects = "config"
  \/ /\ config = Config(conf_byte)
     /\ inbuf # <<>> => inbuf[1] \in {ToData(255), ToCommand(212)}
     /\ expects # "config"

\* A result of 0 was returned after all that.
ResultInv ==
  pc = "returned" /\ ret = 0 =>
    /\ hw.self_test = SELF_TEST_OK
    /\ hw.test1 = 0 \/ (hw.dual /\ hw.test2 = 0)
    /\ Off(conf_byte, {CLOCK1_OFF, TRANSLATION})
    /\ CLOCK2_OFF \in BitsOf(conf_byte) <=> ~hw.dual
    /\ IRQ1 \in BitsOf(conf_byte) <=> hw.test1 = 0
    /\ hw.dual => (IRQ2 \in BitsOf(conf_byte) <=> hw.test2 = 0)
    /\ ps2_info.is_dual_channel = hw.dual /\ ps2_info.config = conf_byte
    /\ LastInv

PromptInv ==
  /\ PendingInv /\ AnswerInv /\ ConfByteInv /\ TestInv /\ ConfigInv /\ ResultInv
  /\ pc \in {"flush2"} \cup Resetting => LastInv

Inv == Types /\ (mishaps = {} => PromptInv)

-----------------------------------------------------------------------------
(* Bits and bytes                                                          *)

\* The byte with the given binary digits.
Value(x) == x[0] + 2 * x[1] + 4 * x[2] + 8 * x[3] + 16 * x[4] + 32 * x[5]
              + 64 * x[6] + 128 * x[7]

\* The digits of a byte are found by division.
LEMMA Digits ==
  ASSUME NEW x \in [Bits -> {0, 1}], NEW b, b = Value(x)
  PROVE  /\ b \in Bytes /\ b % 2 = x[0] /\ (b \div 2) % 2 = x[1] /\ (b \div 4) % 2 = x[2]
         /\ (b \div 8) % 2 = x[3] /\ (b \div 16) % 2 = x[4] /\ (b \div 32) % 2 = x[5]
         /\ (b \div 64) % 2 = x[6] /\ (b \div 128) % 2 = x[7]
<1>1. /\ x[0] \in {0, 1} /\ x[1] \in {0, 1} /\ x[2] \in {0, 1} /\ x[3] \in {0, 1}
      /\ x[4] \in {0, 1} /\ x[5] \in {0, 1} /\ x[6] \in {0, 1} /\ x[7] \in {0, 1}
  BY DEF Bits
<1>2. PICK y0 \in {0, 1}, y1 \in {0, 1}, y2 \in {0, 1}, y3 \in {0, 1},
         y4 \in {0, 1}, y5 \in {0, 1}, y6 \in {0, 1}, y7 \in {0, 1} :
           y0 = x[0] /\ y1 = x[1] /\ y2 = x[2] /\ y3 = x[3]
             /\ y4 = x[4] /\ y5 = x[5] /\ y6 = x[6] /\ y7 = x[7]
  BY <1>1
<1>3. b = y0 + 2 * y1 + 4 * y2 + 8 * y3 + 16 * y4 + 32 * y5 + 64 * y6 + 128 * y7
  BY <1>2 DEF Value
<1>4. /\ b \in 0..255 /\ b % 2 = y0 /\ (b \div 2) % 2 = y1 /\ (b \div 4) % 2 = y2
      /\ (b \div 8) % 2 = y3 /\ (b \div 16) % 2 = y4 /\ (b \div 32) % 2 = y5
      /\ (b \div 64) % 2 = y6 /\ (b \div 128) % 2 = y7
  BY ONLY <1>3
<1> QED BY <1>2, <1>4 DEF Bytes

\* BitsOf reads those digits.
LEMMA BitsOfIs ==
  ASSUME NEW b \in Bytes
  PROVE  /\ BitsOf(b) \subseteq Bits
         /\ 0 \in BitsOf(b) <=> b % 2 = 1
         /\ 1 \in BitsOf(b) <=> (b \div 2) % 2 = 1
         /\ 2 \in BitsOf(b) <=> (b \div 4) % 2 = 1
         /\ 3 \in BitsOf(b) <=> (b \div 8) % 2 = 1
         /\ 4 \in BitsOf(b) <=> (b \div 16) % 2 = 1
         /\ 5 \in BitsOf(b) <=> (b \div 32) % 2 = 1
         /\ 6 \in BitsOf(b) <=> (b \div 64) % 2 = 1
         /\ 7 \in BitsOf(b) <=> (b \div 128) % 2 = 1
<1>1. b \div 2 ^ 0 = b /\ 2 ^ 1 = 2 /\ 2 ^ 2 = 4 /\ 2 ^ 3 = 8
      /\ 2 ^ 4 = 16 /\ 2 ^ 5 = 32 /\ 2 ^ 6 = 64 /\ 2 ^ 7 = 128
  BY DEF Bytes
<1> QED BY <1>1 DEF BitsOf, Bits

\* ByteOf has the elements as digits.
LEMMA ByteOfIs ==
  ASSUME NEW S
  PROVE  \E x \in [Bits -> {0, 1}] :
           ByteOf(S) = Value(x) /\ \A n \in Bits : n \in S <=> x[n] = 1
<1> DEFINE x == [n \in Bits |-> IF n \in S THEN 1 ELSE 0]
<1>1. x \in [Bits -> {0, 1}] /\ \A n \in Bits : n \in S <=> x[n] = 1
  OBVIOUS
<1>2. ByteOf(S) = Value(x)
  BY DEF ByteOf, Value, Bits
<1> HIDE DEF x
<1> QED BY <1>1, <1>2

\* The bits of the byte with bits S are S.
LEMMA BitsOfByte ==
  ASSUME NEW S, S \subseteq Bits
  PROVE  ByteOf(S) \in Bytes /\ BitsOf(ByteOf(S)) = S
<1>1. PICK x \in [Bits -> {0, 1}] :
        ByteOf(S) = Value(x) /\ \A n \in Bits : n \in S <=> x[n] = 1
  BY ByteOfIs
<1>2. PICK b : b = ByteOf(S)
  OBVIOUS
<1>3. /\ b \in Bytes /\ b % 2 = x[0] /\ (b \div 2) % 2 = x[1] /\ (b \div 4) % 2 = x[2]
      /\ (b \div 8) % 2 = x[3] /\ (b \div 16) % 2 = x[4] /\ (b \div 32) % 2 = x[5]
      /\ (b \div 64) % 2 = x[6] /\ (b \div 128) % 2 = x[7]
  BY <1>1, <1>2, Digits
<1>4. Bits = {0, 1, 2, 3, 4, 5, 6, 7}
  BY DEF Bits
<1>5. \A n \in {0, 1, 2, 3, 4, 5, 6, 7} : n \in BitsOf(b) <=> x[n] = 1
  BY <1>3, BitsOfIs
<1>6. BitsOf(b) \subseteq Bits
  BY <1>3, BitsOfIs
<1>7. \A n \in Bits : n \in BitsOf(b) <=> n \in S
  BY <1>1, <1>4, <1>5
<1> QED BY ONLY <1>2, <1>3, <1>6, <1>7, S \subseteq Bits

\* A byte is the byte with its bits.
LEMMA ByteOfBits ==
  ASSUME NEW b \in Bytes
  PROVE  ByteOf(BitsOf(b)) = b
<1>1. PICK x \in [Bits -> {0, 1}] :
        /\ ByteOf(BitsOf(b)) = Value(x)
        /\ \A n \in Bits : n \in BitsOf(b) <=> x[n] = 1
  BY ByteOfIs
<1>2. /\ x[0] \in {0, 1} /\ x[1] \in {0, 1} /\ x[2] \in {0, 1} /\ x[3] \in {0, 1}
      /\ x[4] \in {0, 1} /\ x[5] \in {0, 1} /\ x[6] \in {0, 1} /\ x[7] \in {0, 1}
  BY DEF Bits
<1>3. Bits = {0, 1, 2, 3, 4, 5, 6, 7}
  BY DEF Bits
<1>4. /\ b % 2 = x[0] /\ (b \div 2) % 2 = x[1] /\ (b \div 4) % 2 = x[2]
      /\ (b \div 8) % 2 = x[3] /\ (b \div 16) % 2 = x[4] /\ (b \div 32) % 2 = x[5]
      /\ (b \div 64) % 2 = x[6] /\ (b \div 128) % 2 = x[7]
  <2>1. /\ b % 2 \in {0, 1} /\ (b \div 2) % 2 \in {0, 1} /\ (b \div 4) % 2 \in {0, 1}
        /\ (b \div 8) % 2 \in {0, 1} /\ (b \div 16) % 2 \in {0, 1}
        /\ (b \div 32) % 2 \in {0, 1} /\ (b \div 64) % 2 \in {0, 1}
        /\ (b \div 128) % 2 \in {0, 1}
    BY DEF Bytes
  <2>2. \A n \in {0, 1, 2, 3, 4, 5, 6, 7} : n \in BitsOf(b) <=> x[n] = 1
    BY <1>1, <1>3
  <2> QED BY <1>2, <2>1, <2>2, BitsOfIs
<1>5. b = Value(x)
  <2>1. PICK y0 \in {0, 1}, y1 \in {0, 1}, y2 \in {0, 1}, y3 \in {0, 1},
           y4 \in {0, 1}, y5 \in {0, 1}, y6 \in {0, 1}, y7 \in {0, 1} :
             y0 = x[0] /\ y1 = x[1] /\ y2 = x[2] /\ y3 = x[3]
               /\ y4 = x[4] /\ y5 = x[5] /\ y6 = x[6] /\ y7 = x[7]
    BY <1>2
  <2>2. /\ b \in 0..255 /\ b % 2 = y0 /\ (b \div 2) % 2 = y1 /\ (b \div 4) % 2 = y2
        /\ (b \div 8) % 2 = y3 /\ (b \div 16) % 2 = y4 /\ (b \div 32) % 2 = y5
        /\ (b \div 64) % 2 = y6 /\ (b \div 128) % 2 = y7
    BY <1>4, <2>1 DEF Bytes
  <2>3. b = y0 + 2 * y1 + 4 * y2 + 8 * y3 + 16 * y4 + 32 * y5 + 64 * y6 + 128 * y7
    BY ONLY <2>2
  <2> QED BY <2>1, <2>3 DEF Value
<1> QED BY <1>1, <1>5

\* Clearing and setting bits.
LEMMA ClearBitsIs ==
  ASSUME NEW b \in Bytes, NEW S
  PROVE  ClearBits(b, S) \in Bytes /\ BitsOf(ClearBits(b, S)) = BitsOf(b) \ S
<1>1. BitsOf(b) \ S \subseteq Bits
  BY BitsOfIs
<1> QED BY <1>1, BitsOfByte DEF ClearBits

LEMMA SetBitsIs ==
  ASSUME NEW b \in Bytes, NEW S, S \subseteq Bits
  PROVE  /\ SetBits(b, S) \in Bytes /\ BitsOf(SetBits(b, S)) = BitsOf(b) \cup S
         /\ S \subseteq BitsOf(b) => SetBits(b, S) = b
<1>1. BitsOf(b) \cup S \subseteq Bits
  BY BitsOfIs
<1>2. SetBits(b, S) \in Bytes /\ BitsOf(SetBits(b, S)) = BitsOf(b) \cup S
  BY <1>1, BitsOfByte DEF SetBits
<1>3. ASSUME S \subseteq BitsOf(b) PROVE SetBits(b, S) = b
  <2>1. BitsOf(b) \cup S = BitsOf(b)
    BY <1>3
  <2> QED BY <2>1, ByteOfBits DEF SetBits
<1> QED BY <1>2, <1>3

\* What a controller makes of a configuration byte written to it.
LEMMA ConfigIs ==
  ASSUME NEW b \in Bytes
  PROVE  /\ Config(b) \in Bytes
         /\ BitsOf(Config(b)) = IF hw.dual THEN BitsOf(b) ELSE BitsOf(b) \cup {CLOCK2_OFF}
         /\ hw.dual \/ CLOCK2_OFF \in BitsOf(b) => Config(b) = b
<1>1. {CLOCK2_OFF} \subseteq Bits
  BY DEF CLOCK2_OFF, Bits
<1> QED BY <1>1, SetBitsIs DEF Config

-----------------------------------------------------------------------------
(* The bytes to be read                                                    *)

OutBytes == [byte : Bytes, from : Origins]

\* Reading the first byte.
LEMMA ReadByte ==
  ASSUME NEW o \in Seq(OutBytes), o # <<>>
  PROVE  /\ Head(o) \in OutBytes /\ Tail(o) \in Seq(OutBytes)
         /\ NoAnswer(o) => NoAnswer(Tail(o)) /\ Head(o).from # "controller"
         /\ \A b : OneAnswer(o, b) /\ Head(o).from = "controller" =>
                     Head(o).byte = b /\ NoAnswer(Tail(o))
<1>1. /\ Len(o) \in Nat \ {0} /\ Head(o) = o[1] /\ Tail(o) \in Seq(OutBytes)
      /\ Len(Tail(o)) = Len(o) - 1 /\ DOMAIN o = 1..Len(o) /\ o[1] \in OutBytes
      /\ \A n \in 1..(Len(o) - 1) : Tail(o)[n] = o[n + 1]
  <2>1. Len(o) \in Nat \ {0} /\ DOMAIN o = 1..Len(o)
    OBVIOUS
  <2>2. o[1] \in OutBytes /\ Head(o) = o[1]
    BY <2>1
  <2>3. Tail(o) \in Seq(OutBytes) /\ Len(Tail(o)) = Len(o) - 1
    BY <2>1
  <2>4. \A n \in 1..(Len(o) - 1) : Tail(o)[n] = o[n + 1]
    BY <2>1
  <2> QED BY <2>1, <2>2, <2>3, <2>4
<1>2. DOMAIN Tail(o) = 1..(Len(o) - 1)
  BY <1>1
<1>3. \A n \in DOMAIN Tail(o) : n + 1 \in DOMAIN o /\ n + 1 # 1 /\ Tail(o)[n] = o[n + 1]
  BY <1>1, <1>2
<1>4. 1 \in DOMAIN o
  BY <1>1
<1>5. NoAnswer(o) => NoAnswer(Tail(o)) /\ Head(o).from # "controller"
  BY <1>1, <1>3, <1>4 DEF NoAnswer
<1>6. ASSUME NEW b, OneAnswer(o, b), Head(o).from = "controller"
      PROVE  Head(o).byte = b /\ NoAnswer(Tail(o))
  BY <1>1, <1>3, <1>4, <1>6 DEF OneAnswer, NoAnswer
<1> QED BY <1>1, <1>5, <1>6

\* A byte is added at the end.
LEMMA AddByte ==
  ASSUME NEW o \in Seq(OutBytes), NEW x \in OutBytes
  PROVE  /\ Append(o, x) \in Seq(OutBytes)
         /\ x.from # "controller" /\ NoAnswer(o) => NoAnswer(Append(o, x))
         /\ \A b : x.from # "controller" /\ OneAnswer(o, b) => OneAnswer(Append(o, x), b)
         /\ x.from = "controller" /\ NoAnswer(o) => OneAnswer(Append(o, x), x.byte)
<1> DEFINE l == Len(o) + 1
<1>1. /\ Len(o) \in Nat /\ DOMAIN o = 1..Len(o) /\ Append(o, x) \in Seq(OutBytes)
      /\ DOMAIN Append(o, x) = 1..(Len(o) + 1) /\ Append(o, x)[Len(o) + 1] = x
      /\ \A n \in 1..Len(o) : Append(o, x)[n] = o[n]
  OBVIOUS
<1>2. /\ l \in DOMAIN Append(o, x) /\ Append(o, x)[l] = x
      /\ \A n \in DOMAIN Append(o, x) : n = l \/ n \in DOMAIN o
      /\ \A n \in DOMAIN o : n # l /\ n \in DOMAIN Append(o, x) /\ Append(o, x)[n] = o[n]
  BY <1>1
<1> HIDE DEF l
<1>3. x.from # "controller" /\ NoAnswer(o) => NoAnswer(Append(o, x))
  BY <1>2 DEF NoAnswer
<1>4. ASSUME NEW b, x.from # "controller", OneAnswer(o, b) PROVE OneAnswer(Append(o, x), b)
  <2>1. PICK n \in DOMAIN o : /\ o[n].byte = b /\ o[n].from = "controller"
                              /\ \A m \in DOMAIN o : m # n => o[m].from # "controller"
    BY <1>4 DEF OneAnswer
  <2>2. \A m \in DOMAIN Append(o, x) : m # n => Append(o, x)[m].from # "controller"
    BY <1>2, <1>4, <2>1
  <2> QED BY <1>2, <2>1, <2>2 DEF OneAnswer
<1>5. x.from = "controller" /\ NoAnswer(o) => OneAnswer(Append(o, x), x.byte)
  BY <1>2 DEF NoAnswer, OneAnswer
<1> QED BY <1>1, <1>3, <1>4, <1>5

\* A device answers.
LEMMA AddReply ==
  ASSUME NEW o \in Seq(OutBytes), NEW reply \in Seq(Bytes),
         NEW p \in Origins \ {"controller"}, NEW a,
         a = [n \in DOMAIN reply |-> [byte |-> reply[n], from |-> p]]
  PROVE  o \o a \in Seq(OutBytes) /\ (NoAnswer(o) => NoAnswer(o \o a))
<1>1. Len(reply) \in Nat /\ DOMAIN reply = 1..Len(reply) /\ \A n \in DOMAIN reply : reply[n] \in Bytes
  OBVIOUS
<1>2. a \in [1..Len(reply) -> OutBytes]
  BY <1>1 DEF OutBytes
<1>3. a \in Seq(OutBytes) /\ Len(a) = Len(reply)
  BY <1>1, <1>2
<1>4. \A n \in 1..Len(a) : a[n].from # "controller"
  BY <1>1, <1>3
<1>5. /\ o \o a \in Seq(OutBytes) /\ DOMAIN (o \o a) = 1..(Len(o) + Len(a))
      /\ \A n \in 1..Len(o) : (o \o a)[n] = o[n]
      /\ \A n \in 1..(Len(o) + Len(a)) : n \notin 1..Len(o) =>
            n - Len(o) \in 1..Len(a) /\ (o \o a)[n] = a[n - Len(o)]
      /\ DOMAIN o = 1..Len(o)
  BY <1>3
<1> QED BY <1>4, <1>5 DEF NoAnswer

-----------------------------------------------------------------------------
(* The accesses, if nothing goes wrong                                     *)

\* A command is written when the one before has been read.
LEMMA CommandWritten ==
  ASSUME Inv, NEW c, write_ps2_bcommand(c)
  PROVE  /\ UNCHANGED <<r1, ret, ps2_info, config, expects, out, hw>>
         /\ inbuf' = <<ToCommand(c)>>
         /\ mishaps' = {} => mishaps = {} /\ inbuf = <<>>
BY DEF write_ps2_bcommand, controller, ToCommand

\* So is a byte of data, or else the wait times out.
LEMMA DataWritten ==
  ASSUME NEW b, NEW written, ps2_write_timeout(b, written)
  PROVE  /\ UNCHANGED <<r1, ret, ps2_info, config, expects, out, hw>>
         /\ inbuf' = <<ToData(b)>> \/ inbuf' = inbuf
         /\ mishaps' = {} => mishaps = {} /\ inbuf = <<>> /\ inbuf' = <<ToData(b)>> /\ written
BY DEF ps2_write_timeout, controller, ToData

\* A byte is read, or the poll times out.
LEMMA ByteRead ==
  ASSUME Inv, NEW r, NEW from, ps2_read_timeout(r, from)
  PROVE  /\ UNCHANGED <<config, expects, inbuf, hw>>
         /\ r \in Bytes \cup {-1} /\ out' \in Seq(OutBytes)
         /\ mishaps' = {} => /\ mishaps = {}
                             /\ NoAnswer(out) => NoAnswer(out')
<1>1. out \in Seq(OutBytes)
  BY DEF Inv, Types, OutBytes
<1>2. UNCHANGED <<config, expects, inbuf, hw>>
  BY DEF ps2_read_timeout
<1>3. CASE out # <<>> /\ r = Head(out).byte /\ out' = Tail(out)
  <2>1. Head(out) \in OutBytes /\ Tail(out) \in Seq(OutBytes)
        /\ (NoAnswer(out) => NoAnswer(Tail(out)))
    BY <1>1, <1>3, ReadByte
  <2>2. mishaps' = {} => mishaps = {}
    BY DEF ps2_read_timeout
  <2> QED BY <1>2, <1>3, <2>1, <2>2 DEF OutBytes
<1>4. CASE r = -1 /\ out' = out
  <2>1. mishaps' = {} => mishaps = {}
    BY DEF ps2_read_timeout
  <2> QED BY <1>1, <1>2, <1>4, <2>1
<1> QED BY <1>3, <1>4 DEF ps2_read_timeout

\* What the driver gets for the answer is the answer.
LEMMA AnswerRead ==
  ASSUME Inv, NEW r, Answer(r), pc \in Waiting
  PROVE  /\ UNCHANGED <<r1, ret, ps2_info, config, expects, inbuf, hw>>
         /\ r \in Bytes \cup {-1} /\ out' \in Seq(OutBytes)
         /\ mishaps' = {} => /\ mishaps = {} /\ inbuf = <<>> /\ r = Truth
                             /\ NoAnswer(out')
<1>1. ps2_read_timeout(r, "controller") /\ UNCHANGED <<r1, ret, ps2_info>>
  BY DEF Answer
<1>2. /\ UNCHANGED <<config, expects, inbuf, hw>>
      /\ r \in Bytes \cup {-1} /\ out' \in Seq(OutBytes)
      /\ mishaps' = {} => mishaps = {}
  BY <1>1, ByteRead
<1>3. ASSUME mishaps' = {} PROVE inbuf = <<>> /\ r = Truth /\ NoAnswer(out')
  <2>1. out # <<>> /\ r = Head(out).byte /\ out' = Tail(out) /\ Head(out).from = "controller"
    BY <1>1, <1>3 DEF ps2_read_timeout
  <2>2. out \in Seq(OutBytes) /\ AnswerInv
    BY <1>2, <1>3 DEF Inv, Types, OutBytes, PromptInv
  <2>3. ~NoAnswer(out)
    BY <2>1, <2>2, ReadByte
  <2>4. inbuf = <<>> /\ OneAnswer(out, Truth)
    BY <2>2, <2>3 DEF AnswerInv
  <2> QED BY <2>1, <2>2, <2>4, ReadByte
<1> QED BY <1>1, <1>2, <1>3

-----------------------------------------------------------------------------
(* The steps of the driver                                                 *)

\* The types after a step of the driver.
LEMMA DriverTypes ==
  ASSUME Types, pc' \in Stages, conf_byte' \in Bytes, dual' \in BOOLEAN,
         port1_ok' \in BOOLEAN, port2_ok' \in BOOLEAN, out' \in Seq(OutBytes),
         \/ inbuf' = inbuf
         \/ \E c \in Bytes : inbuf' = <<ToCommand(c)>> \/ inbuf' = <<ToData(c)>>,
         UNCHANGED <<config, expects, hw>>
  PROVE  Types'
<1>1. inbuf' \in {<<>>} \cup {<<w>> : w \in Writes}
  BY DEF Types, ToCommand, ToData, Writes
<1> QED BY <1>1 DEF Types, OutBytes

\* A command is written, and the driver goes on.
LEMMA CommandTypes ==
  ASSUME Inv, NEW c \in Bytes, write_ps2_bcommand(c), pc' \in Stages,
         conf_byte' \in Bytes, UNCHANGED <<dual, port1_ok, port2_ok>>
  PROVE  Types'
<1>1. UNCHANGED <<config, expects, out, hw>> /\ inbuf' = <<ToCommand(c)>>
  BY CommandWritten
<1> QED BY <1>1, DriverTypes DEF Inv, Types, OutBytes

\* Commands that are not answered.
LEMMA CommandsInv ==
  ASSUME Inv, Commands
  PROVE  Inv'
<1> USE DEF Goto, Locals, Inv, PromptInv, PendingInv, Pending, AnswerInv, ConfByteInv, TestInv,
            ConfigInv, ResultInv, LastInv, Off, Config, Waiting, Resetting, Testing, Enabling,
            Preparing
<1>1. CASE pc = "init" /\ write_ps2_bcommand(173) /\ Goto("disable2")
  <2>1. /\ UNCHANGED <<r1, ret, ps2_info, config, expects, out, hw>>
        /\ inbuf' = <<ToCommand(173)>> /\ (mishaps' = {} => mishaps = {} /\ inbuf = <<>>)
    BY <1>1, CommandWritten
  <2>2. Types'
    <3>1. 173 \in Bytes /\ pc' \in Stages /\ conf_byte' \in Bytes /\ UNCHANGED <<dual, port1_ok, port2_ok>>
      BY <1>1 DEF Bytes, Stages, Types
    <3> QED BY <1>1, <3>1, CommandTypes
  <2>3. mishaps' = {} => PromptInv'
    BY <1>1, <2>1
  <2> QED BY <2>2, <2>3
<1>2. CASE pc = "disable2" /\ write_ps2_bcommand(167) /\ Goto("flush")
  <2>1. /\ UNCHANGED <<r1, ret, ps2_info, config, expects, out, hw>>
        /\ inbuf' = <<ToCommand(167)>> /\ (mishaps' = {} => mishaps = {} /\ inbuf = <<>>)
    BY <1>2, CommandWritten
  <2>2. Types'
    <3>1. 167 \in Bytes /\ pc' \in Stages /\ conf_byte' \in Bytes /\ UNCHANGED <<dual, port1_ok, port2_ok>>
      BY <1>2 DEF Bytes, Stages, Types
    <3> QED BY <1>2, <3>1, CommandTypes
  <2>3. mishaps' = {} => PromptInv'
    BY <1>2, <2>1
  <2> QED BY <2>2, <2>3
<1>3. CASE pc = "enable2" /\ write_ps2_bcommand(168) /\ Goto("read_conf2")
  <2>1. /\ UNCHANGED <<r1, ret, ps2_info, config, expects, out, hw>>
        /\ inbuf' = <<ToCommand(168)>> /\ (mishaps' = {} => mishaps = {} /\ inbuf = <<>>)
    BY <1>3, CommandWritten
  <2>2. Types'
    <3>1. 168 \in Bytes /\ pc' \in Stages /\ conf_byte' \in Bytes /\ UNCHANGED <<dual, port1_ok, port2_ok>>
      BY <1>3 DEF Bytes, Stages, Types
    <3> QED BY <1>3, <3>1, CommandTypes
  <2>3. mishaps' = {} => PromptInv'
    BY <1>3, <2>1
  <2> QED BY <2>2, <2>3
<1>4. CASE pc = "dual" /\ write_ps2_bcommand(167) /\ Goto("write_conf3")
  <2>1. /\ UNCHANGED <<r1, ret, ps2_info, config, expects, out, hw>>
        /\ inbuf' = <<ToCommand(167)>> /\ (mishaps' = {} => mishaps = {} /\ inbuf = <<>>)
    BY <1>4, CommandWritten
  <2>2. Types'
    <3>1. 167 \in Bytes /\ pc' \in Stages /\ conf_byte' \in Bytes /\ UNCHANGED <<dual, port1_ok, port2_ok>>
      BY <1>4 DEF Bytes, Stages, Types
    <3> QED BY <1>4, <3>1, CommandTypes
  <2>3. mishaps' = {} => PromptInv'
    BY <1>4, <2>1
  <2> QED BY <2>2, <2>3
<1>5. CASE pc = "enable_port1" /\ port1_ok /\ write_ps2_bcommand(174)
          /\ Locals("enable_port2", SetBits(conf_byte, {IRQ1}), dual, port1_ok, port2_ok)
  <2>1. /\ UNCHANGED <<r1, ret, ps2_info, config, expects, out, hw>>
        /\ inbuf' = <<ToCommand(174)>> /\ (mishaps' = {} => mishaps = {} /\ inbuf = <<>>)
    BY <1>5, CommandWritten
  <2>2. /\ conf_byte' \in Bytes /\ conf_byte \in Bytes
        /\ BitsOf(conf_byte') = BitsOf(conf_byte) \cup {IRQ1}
    BY <1>5, SetBitsIs DEF Types, IRQ1, Bits
  <2>3. Types'
    <3>1. 174 \in Bytes /\ pc' \in Stages /\ UNCHANGED <<dual, port1_ok, port2_ok>>
      BY <1>5 DEF Bytes, Stages
    <3> QED BY <1>5, <2>2, <3>1, CommandTypes
  <2>4. mishaps' = {} => PromptInv'
    BY <1>5, <2>1, <2>2 DEF IRQ1, IRQ2, CLOCK1_OFF, CLOCK2_OFF, TRANSLATION
  <2> QED BY <2>3, <2>4
<1>6. CASE pc = "enable_port2" /\ port2_ok /\ write_ps2_bcommand(168)
          /\ Locals("write_conf4", SetBits(conf_byte, {IRQ2}), dual, port1_ok, port2_ok)
  <2>1. /\ UNCHANGED <<r1, ret, ps2_info, config, expects, out, hw>>
        /\ inbuf' = <<ToCommand(168)>> /\ (mishaps' = {} => mishaps = {} /\ inbuf = <<>>)
    BY <1>6, CommandWritten
  <2>2. /\ conf_byte' \in Bytes /\ conf_byte \in Bytes
        /\ BitsOf(conf_byte') = BitsOf(conf_byte) \cup {IRQ2}
    BY <1>6, SetBitsIs DEF Types, IRQ2, Bits
  <2>3. Types'
    <3>1. 168 \in Bytes /\ pc' \in Stages /\ UNCHANGED <<dual, port1_ok, port2_ok>>
      BY <1>6 DEF Bytes, Stages
    <3> QED BY <1>6, <2>2, <3>1, CommandTypes
  <2>4. mishaps' = {} => PromptInv'
    BY <1>6, <2>1, <2>2 DEF IRQ1, IRQ2, CLOCK1_OFF, CLOCK2_OFF, TRANSLATION
  <2> QED BY <2>3, <2>4
<1>7. CASE pc = "reset2" /\ port2_ok /\ write_ps2_bcommand(212) /\ Goto("send2")
  <2>1. /\ UNCHANGED <<r1, ret, ps2_info, config, expects, out, hw>>
        /\ inbuf' = <<ToCommand(212)>> /\ (mishaps' = {} => mishaps = {} /\ inbuf = <<>>)
    BY <1>7, CommandWritten
  <2>2. Types'
    <3>1. 212 \in Bytes /\ pc' \in Stages /\ conf_byte' \in Bytes /\ UNCHANGED <<dual, port1_ok, port2_ok>>
      BY <1>7 DEF Bytes, Stages, Types
    <3> QED BY <1>7, <3>1, CommandTypes
  <2>3. mishaps' = {} => PromptInv'
    BY <1>7, <2>1 DEF ToCommand, ToData
  <2> QED BY <2>2, <2>3
<1> QED BY <1>1, <1>2, <1>3, <1>4, <1>5, <1>6, <1>7 DEF Commands

\* Commands that are answered.
LEMMA QuestionsInv ==
  ASSUME Inv, Questions
  PROVE  Inv'
<1> USE DEF Goto, Locals, Inv, PromptInv, PendingInv, Pending, AnswerInv, ConfByteInv, TestInv,
            ConfigInv, ResultInv, LastInv, Off, Config, Waiting, Resetting, Testing, Enabling,
            Preparing
<1>1. CASE pc = "read_conf1" /\ write_ps2_bcommand(32) /\ Goto("conf1")
  <2>1. /\ UNCHANGED <<r1, ret, ps2_info, config, expects, out, hw>>
        /\ inbuf' = <<ToCommand(32)>> /\ (mishaps' = {} => mishaps = {} /\ inbuf = <<>>)
    BY <1>1, CommandWritten
  <2>2. Types'
    <3>1. 32 \in Bytes /\ pc' \in Stages /\ conf_byte' \in Bytes /\ UNCHANGED <<dual, port1_ok, port2_ok>>
      BY <1>1 DEF Bytes, Stages, Types
    <3> QED BY <1>1, <3>1, CommandTypes
  <2>3. mishaps' = {} => PromptInv'
    BY <1>1, <2>1
  <2> QED BY <2>2, <2>3
<1>2. CASE pc = "self_test" /\ write_ps2_bcommand(170) /\ Goto("self_tested")
  <2>1. /\ UNCHANGED <<r1, ret, ps2_info, config, expects, out, hw>>
        /\ inbuf' = <<ToCommand(170)>> /\ (mishaps' = {} => mishaps = {} /\ inbuf = <<>>)
    BY <1>2, CommandWritten
  <2>2. Types'
    <3>1. 170 \in Bytes /\ pc' \in Stages /\ conf_byte' \in Bytes /\ UNCHANGED <<dual, port1_ok, port2_ok>>
      BY <1>2 DEF Bytes, Stages, Types
    <3> QED BY <1>2, <3>1, CommandTypes
  <2>3. mishaps' = {} => PromptInv'
    BY <1>2, <2>1
  <2> QED BY <2>2, <2>3
<1>3. CASE pc = "read_conf2" /\ write_ps2_bcommand(32) /\ Goto("conf2")
  <2>1. /\ UNCHANGED <<r1, ret, ps2_info, config, expects, out, hw>>
        /\ inbuf' = <<ToCommand(32)>> /\ (mishaps' = {} => mishaps = {} /\ inbuf = <<>>)
    BY <1>3, CommandWritten
  <2>2. Types'
    <3>1. 32 \in Bytes /\ pc' \in Stages /\ conf_byte' \in Bytes /\ UNCHANGED <<dual, port1_ok, port2_ok>>
      BY <1>3 DEF Bytes, Stages, Types
    <3> QED BY <1>3, <3>1, CommandTypes
  <2>3. mishaps' = {} => PromptInv'
    BY <1>3, <2>1
  <2> QED BY <2>2, <2>3
<1>4. CASE pc = "test1" /\ write_ps2_bcommand(171) /\ Goto("tested1")
  <2>1. /\ UNCHANGED <<r1, ret, ps2_info, config, expects, out, hw>>
        /\ inbuf' = <<ToCommand(171)>> /\ (mishaps' = {} => mishaps = {} /\ inbuf = <<>>)
    BY <1>4, CommandWritten
  <2>2. Types'
    <3>1. 171 \in Bytes /\ pc' \in Stages /\ conf_byte' \in Bytes /\ UNCHANGED <<dual, port1_ok, port2_ok>>
      BY <1>4 DEF Bytes, Stages, Types
    <3> QED BY <1>4, <3>1, CommandTypes
  <2>3. mishaps' = {} => PromptInv'
    BY <1>4, <2>1
  <2> QED BY <2>2, <2>3
<1>5. CASE pc = "test2" /\ dual /\ write_ps2_bcommand(169) /\ Goto("tested2")
  <2>1. /\ UNCHANGED <<r1, ret, ps2_info, config, expects, out, hw>>
        /\ inbuf' = <<ToCommand(169)>> /\ (mishaps' = {} => mishaps = {} /\ inbuf = <<>>)
    BY <1>5, CommandWritten
  <2>2. Types'
    <3>1. 169 \in Bytes /\ pc' \in Stages /\ conf_byte' \in Bytes /\ UNCHANGED <<dual, port1_ok, port2_ok>>
      BY <1>5 DEF Bytes, Stages, Types
    <3> QED BY <1>5, <3>1, CommandTypes
  <2>3. ASSUME mishaps' = {} PROVE PromptInv'
    <3>0. mishaps = {} /\ inbuf = <<>>
      BY <2>1, <2>3
    <3>1. PendingInv' /\ AnswerInv'
      BY <1>5, <2>1, <3>0
    <3>2. ConfByteInv'
      BY <1>5, <2>1, <3>0
    <3>3. TestInv'
      BY <1>5, <2>1, <3>0
    <3>4. ConfigInv'
      BY <1>5, <2>1, <3>0
    <3>5. ResultInv'
      BY <1>5, <2>1, <3>0
    <3> QED BY <1>5, <3>1, <3>2, <3>3, <3>4, <3>5
  <2> QED BY <2>2, <2>3
<1> QED BY <1>1, <1>2, <1>3, <1>4, <1>5 DEF Questions

\* An answer is read, and the driver goes on.
LEMMA AnswerTypes ==
  ASSUME Inv, NEW r, Answer(r), pc \in Waiting, pc' \in Stages, conf_byte' \in Bytes,
         dual' \in BOOLEAN, port1_ok' \in BOOLEAN, port2_ok' \in BOOLEAN
  PROVE  Types'
<1>1. UNCHANGED <<config, expects, inbuf, hw>> /\ out' \in Seq(OutBytes)
  BY AnswerRead
<1> QED BY <1>1, DriverTypes DEF Inv, Types

\* What is read as a configuration byte is a byte.
LEMMA UintType ==
  ASSUME NEW r \in Bytes \cup {-1}
  PROVE  uint8(r) \in Bytes /\ (r \in Bytes => uint8(r) = r)
BY DEF uint8, Bytes

\* The first reading of the configuration.
LEMMA ReadConf1Inv ==
  ASSUME Inv, read_conf1
  PROVE  Inv'
<1> USE DEF Goto, Locals, Inv, PromptInv, PendingInv, Pending, AnswerInv, ConfByteInv, TestInv,
            ConfigInv, ResultInv, LastInv, Off, Config, Waiting, Resetting, Testing, Enabling,
            Preparing
<1>1. PICK r : /\ pc = "conf1" /\ Answer(r)
                /\ Locals("write_conf1", ClearBits(uint8(r), {IRQ1, CLOCK1_OFF, TRANSLATION}),
                          dual, port1_ok, port2_ok)
  BY DEF read_conf1
<1>2. /\ UNCHANGED <<r1, ret, ps2_info, config, expects, inbuf, hw>>
      /\ r \in Bytes \cup {-1} /\ out' \in Seq(OutBytes)
      /\ mishaps' = {} => mishaps = {} /\ inbuf = <<>> /\ NoAnswer(out')
  BY <1>1, AnswerRead
<1>3. conf_byte' \in Bytes /\ Off(conf_byte', {IRQ1, CLOCK1_OFF, TRANSLATION})
  <2>1. uint8(r) \in Bytes
    BY <1>2, UintType
  <2> QED BY <1>1, <2>1, ClearBitsIs
<1>4. Types'
  <2>1. /\ pc' \in Stages /\ dual' \in BOOLEAN /\ port1_ok' \in BOOLEAN
        /\ port2_ok' \in BOOLEAN
    BY <1>1 DEF Types, Stages
  <2> QED BY <1>1, <1>3, <2>1, AnswerTypes
<1>5. mishaps' = {} => PromptInv'
  BY <1>1, <1>2, <1>3
<1> QED BY <1>4, <1>5

\* The result of the self test.
LEMMA SelfTestInv ==
  ASSUME Inv, self_test
  PROVE  Inv'
<1> USE DEF Goto, Locals, Inv, PromptInv, PendingInv, Pending, AnswerInv, ConfByteInv, TestInv,
            ConfigInv, ResultInv, LastInv, Off, Config, Waiting, Resetting, Testing, Enabling,
            Preparing
<1>1. PICK r : /\ pc = "self_tested" /\ Answer(r)
                /\ Goto(IF r = SELF_TEST_OK THEN "write_conf2" ELSE "failed")
  BY DEF self_test, self_test_result
<1>2. /\ UNCHANGED <<r1, ret, ps2_info, config, expects, inbuf, hw>>
      /\ mishaps' = {} =>
           mishaps = {} /\ inbuf = <<>> /\ NoAnswer(out') /\ r = hw.self_test
  <2>1. Truth = hw.self_test
    BY <1>1 DEF Truth
  <2> QED BY <1>1, <2>1, AnswerRead
<1>3. Types'
  <2>1. /\ pc' \in Stages /\ dual' \in BOOLEAN /\ port1_ok' \in BOOLEAN
        /\ port2_ok' \in BOOLEAN /\ conf_byte' \in Bytes
    BY <1>1 DEF Types, Stages
  <2> QED BY <1>1, <2>1, AnswerTypes
<1>4. mishaps' = {} => PromptInv'
  BY <1>1, <1>2
<1> QED BY <1>3, <1>4

\* The second reading of the configuration tells whether there are two channels.
LEMMA ReadConf2Inv ==
  ASSUME Inv, read_conf2
  PROVE  Inv'
<1> USE DEF Goto, Locals, Inv, PromptInv, PendingInv, Pending, AnswerInv, ConfByteInv, TestInv,
            ConfigInv, ResultInv, LastInv, Off, Config, Waiting, Resetting, Testing, Enabling,
            Preparing
<1>1. PICK r : /\ pc = "conf2" /\ Answer(r)
                /\ IF CLOCK2_OFF \in BitsOf(uint8(r))
                     THEN Locals("test1", uint8(r), FALSE, port1_ok, port2_ok)
                     ELSE Locals("dual", ClearBits(uint8(r), {IRQ1, IRQ2, CLOCK2_OFF}), TRUE,
                                 port1_ok, port2_ok)
  BY DEF read_conf2
<1>2. /\ UNCHANGED <<r1, ret, ps2_info, config, expects, inbuf, hw>>
      /\ r \in Bytes \cup {-1}
      /\ mishaps' = {} => mishaps = {} /\ inbuf = <<>> /\ NoAnswer(out') /\ r = config
  <2>1. Truth = config
    BY <1>1 DEF Truth
  <2> QED BY <1>1, <2>1, AnswerRead
<1>3. PICK b \in Bytes : b = uint8(r) /\ (mishaps' = {} => b = config)
  BY <1>2, UintType DEF Types
<1>4. ClearBits(b, {IRQ1, IRQ2, CLOCK2_OFF}) \in Bytes
      /\ BitsOf(ClearBits(b, {IRQ1, IRQ2, CLOCK2_OFF})) = BitsOf(b) \ {IRQ1, IRQ2, CLOCK2_OFF}
  BY ClearBitsIs
<1>5. Types'
  <2>1. /\ pc' \in Stages /\ dual' \in BOOLEAN /\ port1_ok' \in BOOLEAN
        /\ port2_ok' \in BOOLEAN /\ conf_byte' \in Bytes
    <3>1. pc' \in {"test1", "dual"} /\ dual' \in BOOLEAN /\ conf_byte' \in Bytes
          /\ UNCHANGED <<port1_ok, port2_ok>>
      <4>1. CASE CLOCK2_OFF \in BitsOf(b)
        <5>1. pc' = "test1" /\ conf_byte' = b /\ dual' = FALSE /\ port1_ok' = port1_ok /\ port2_ok' = port2_ok
          BY <1>1, <1>3, <4>1
        <5> QED BY ONLY <5>1
      <4>2. CASE CLOCK2_OFF \notin BitsOf(b)
        BY <1>1, <1>3, <1>4, <4>2
      <4> QED BY <4>1, <4>2
    <3> QED BY <3>1 DEF Types, Stages
  <2> QED BY <1>1, <2>1, AnswerTypes
<1>6. ASSUME mishaps' = {} PROVE PromptInv'
  <2>1. /\ mishaps = {} /\ hw.self_test = SELF_TEST_OK /\ hw.dual \in BOOLEAN
        /\ Off(b, {IRQ1, CLOCK1_OFF, TRANSLATION}) /\ (CLOCK2_OFF \in BitsOf(b) <=> ~hw.dual)
    BY <1>1, <1>2, <1>3, <1>6 DEF Types
  <2>2. CASE CLOCK2_OFF \in BitsOf(b)
    <3>0. pc' = "test1" /\ conf_byte' = b /\ dual' = FALSE
      BY <1>1, <1>3, <2>2
    <3>1. PendingInv' /\ AnswerInv'
      BY <3>0, <1>2, <1>6, <2>1, <2>2
    <3>2. ConfByteInv'
      BY <3>0, <1>2, <1>6, <2>1, <2>2 DEF IRQ1, IRQ2, CLOCK1_OFF, CLOCK2_OFF, TRANSLATION
    <3>3. TestInv'
      BY <3>0, <1>2, <1>6, <2>1, <2>2
    <3>4. ConfigInv'
      BY <3>0, <1>2, <1>6, <2>1, <2>2
    <3>5. ResultInv'
      BY <3>0, <1>2, <1>6, <2>1, <2>2
    <3> QED BY <3>0, <3>1, <3>2, <3>3, <3>4, <3>5
  <2>3. CASE CLOCK2_OFF \notin BitsOf(b)
    <3>0. /\ pc' = "dual" /\ BitsOf(conf_byte') = BitsOf(b) \ {IRQ1, IRQ2, CLOCK2_OFF}
          /\ dual' = TRUE
      BY <1>1, <1>3, <1>4, <2>3
    <3>1. PendingInv' /\ AnswerInv'
      BY <3>0, <1>2, <1>6, <2>1, <2>3
    <3>2. ConfByteInv'
      BY <3>0, <1>2, <1>6, <2>1, <2>3 DEF IRQ1, IRQ2, CLOCK1_OFF, CLOCK2_OFF, TRANSLATION
    <3>3. TestInv'
      BY <3>0, <1>2, <1>6, <2>1, <2>3
    <3>4. ConfigInv'
      BY <3>0, <1>2, <1>6, <2>1, <2>3
    <3>5. ResultInv'
      BY <3>0, <1>2, <1>6, <2>1, <2>3
    <3> QED BY <3>0, <3>1, <3>2, <3>3, <3>4, <3>5
  <2> QED BY <2>2, <2>3
<1> QED BY <1>5, <1>6

\* The results of the tests of the ports.
LEMMA TestPortsInv ==
  ASSUME Inv, test_ports
  PROVE  Inv'
<1> USE DEF Goto, Locals, Inv, PromptInv, PendingInv, Pending, AnswerInv, ConfByteInv, TestInv,
            ConfigInv, ResultInv, LastInv, Off, Config, Waiting, Resetting, Testing, Enabling,
            Preparing
<1>1. PICK r, ok : ok \in BOOLEAN /\ Answer(r) /\ (ok <=> r = 0)
        /\ \/ pc = "tested1" /\ Locals("test2", conf_byte, dual, ok, port2_ok)
           \/ pc = "tested2" /\ Locals("tested", conf_byte, dual, port1_ok, ok)
  <2>1. PICK r :
          \/ pc = "tested1" /\ Answer(r) /\ Locals("test2", conf_byte, dual, r = 0, port2_ok)
          \/ pc = "tested2" /\ Answer(r) /\ Locals("tested", conf_byte, dual, port1_ok, r = 0)
    BY DEF test_ports
  <2>2. PICK ok \in BOOLEAN : ok = (r = 0)
    OBVIOUS
  <2> QED BY <2>1, <2>2, Zenon
<1>2. /\ UNCHANGED <<r1, ret, ps2_info, config, expects, inbuf, hw>>
      /\ mishaps' = {} => mishaps = {} /\ inbuf = <<>> /\ NoAnswer(out') /\ r = Truth
  BY <1>1, AnswerRead
<1>3. Types'
  <2>1. /\ pc' \in Stages /\ dual' \in BOOLEAN /\ port1_ok' \in BOOLEAN
        /\ port2_ok' \in BOOLEAN /\ conf_byte' \in Bytes
    BY <1>1 DEF Types, Stages
  <2> QED BY <1>1, <2>1, AnswerTypes
<1>4. CASE pc = "tested1"
  <2>1. Truth = hw.test1
    BY <1>4 DEF Truth
  <2>2. mishaps' = {} => PromptInv'
    BY <1>1, <1>2, <1>4, <2>1
  <2> QED BY <1>3, <2>2
<1>5. CASE pc = "tested2"
  <2>1. Truth = hw.test2
    BY <1>5 DEF Truth
  <2>2. mishaps' = {} => dual
    BY <1>2, <1>5
  <2>3. ASSUME mishaps' = {} PROVE PromptInv'
    <3>0. /\ pc' = "tested" /\ (port2_ok' <=> r = 0) /\ UNCHANGED <<conf_byte, dual, port1_ok>>
          /\ mishaps = {} /\ r = hw.test2
      BY <1>1, <1>2, <1>5, <2>1, <2>3
    <3>1. PendingInv' /\ AnswerInv'
      BY <3>0, <1>2, <1>5, <2>2, <2>3
    <3>2. ConfByteInv'
      BY <3>0, <1>2, <1>5, <2>2, <2>3
    <3>3. TestInv'
      BY <3>0, <1>2, <1>5, <2>2, <2>3
    <3>4. ConfigInv'
      BY <3>0, <1>2, <1>5, <2>2, <2>3
    <3>5. ResultInv'
      BY <3>0, <1>2, <1>5, <2>2, <2>3
    <3> QED BY <3>0, <3>1, <3>2, <3>3, <3>4, <3>5
  <2> QED BY <1>3, <2>3
<1> QED BY <1>1, <1>4, <1>5

\* The stages of a write of the configuration.
LEMMA ConfigWritesAre ==
  ASSUME NEW w \in ConfigWrites
  PROVE  \/ w[1] = "write_conf1" /\ w[2] = "conf_data1" /\ w[3] = "self_test"
         \/ w[1] = "write_conf2" /\ w[2] = "conf_data2" /\ w[3] = "enable2"
         \/ w[1] = "write_conf3" /\ w[2] = "conf_data3" /\ w[3] = "test1"
         \/ w[1] = "write_conf4" /\ w[2] = "conf_data4" /\ w[3] = "flush2"
BY DEF ConfigWrites

\* A configuration byte is written: the command first, ...
LEMMA WriteConfCommand ==
  ASSUME Inv, NEW w \in ConfigWrites, pc = w[1], write_ps2_bcommand(96), Goto(w[2])
  PROVE  Inv'
<1> USE DEF Goto, Locals, Inv, PromptInv, PendingInv, Pending, AnswerInv, ConfByteInv, TestInv,
            ConfigInv, ResultInv, LastInv, Off, Config, Waiting, Resetting, Testing, Enabling,
            Preparing
<1>1. /\ UNCHANGED <<r1, ret, ps2_info, config, expects, out, hw>>
      /\ inbuf' = <<ToCommand(96)>> /\ (mishaps' = {} => mishaps = {} /\ inbuf = <<>>)
  BY CommandWritten
<1>2. UNCHANGED <<conf_byte, dual, port1_ok, port2_ok>>
  OBVIOUS
<1>3. \/ pc = "write_conf1" /\ pc' = "conf_data1"
      \/ pc = "write_conf2" /\ pc' = "conf_data2"
      \/ pc = "write_conf3" /\ pc' = "conf_data3"
      \/ pc = "write_conf4" /\ pc' = "conf_data4"
  <2>1. pc = w[1] /\ pc' = w[2]
    OBVIOUS
  <2> QED BY ONLY <2>1, w \in ConfigWrites, ConfigWritesAre
<1>4. Types'
  <2>1. 96 \in Bytes /\ pc' \in Stages /\ conf_byte' \in Bytes
    BY <1>2, <1>3 DEF Bytes, Stages, Types
  <2> QED BY <1>2, <2>1, CommandTypes
<1>5. ASSUME mishaps' = {} PROVE PromptInv'
  <2>1. PendingInv' /\ AnswerInv'
    BY <1>1, <1>2, <1>3, <1>5
  <2>2. ConfByteInv'
    BY <1>1, <1>2, <1>3, <1>5
  <2>3. TestInv'
    BY <1>1, <1>2, <1>3, <1>5
  <2>4. ConfigInv'
    BY <1>1, <1>2, <1>3, <1>5
  <2>5. ResultInv'
    BY <1>1, <1>2, <1>3, <1>5
  <2>6. pc' \in {"flush2"} \cup Resetting => LastInv'
    BY <1>1, <1>2, <1>3, <1>5
  <2> QED BY <2>1, <2>2, <2>3, <2>4, <2>5, <2>6
<1> QED BY <1>4, <1>5

\* ... then the byte.
LEMMA WriteConfData ==
  ASSUME Inv, NEW w \in ConfigWrites, pc = w[2], Goto(w[3]), NEW written,
         ps2_write_timeout(conf_byte, written)
  PROVE  Inv'
<1> USE DEF Goto, Locals, Inv, PromptInv, PendingInv, Pending, AnswerInv, ConfByteInv, TestInv,
            ConfigInv, ResultInv, LastInv, Off, Config, Waiting, Resetting, Testing, Enabling,
            Preparing
<1>1. /\ UNCHANGED <<r1, ret, ps2_info, config, expects, out, hw>>
      /\ inbuf' = <<ToData(conf_byte)>> \/ inbuf' = inbuf
      /\ mishaps' = {} => mishaps = {} /\ inbuf = <<>> /\ inbuf' = <<ToData(conf_byte)>>
  BY DataWritten
<1>2. UNCHANGED <<conf_byte, dual, port1_ok, port2_ok>>
  OBVIOUS
<1>3. \/ pc = "conf_data1" /\ pc' = "self_test"
      \/ pc = "conf_data2" /\ pc' = "enable2"
      \/ pc = "conf_data3" /\ pc' = "test1"
      \/ pc = "conf_data4" /\ pc' = "flush2"
  <2>1. pc = w[2] /\ pc' = w[3]
    OBVIOUS
  <2> QED BY ONLY <2>1, w \in ConfigWrites, ConfigWritesAre
<1>4. Types'
  <2>1. /\ pc' \in Stages /\ conf_byte' \in Bytes /\ conf_byte \in Bytes /\ dual' \in BOOLEAN
        /\ port1_ok' \in BOOLEAN /\ port2_ok' \in BOOLEAN /\ out' \in Seq(OutBytes)
    BY <1>1, <1>2, <1>3 DEF Stages, Types, OutBytes
  <2> QED BY <1>1, <2>1, DriverTypes
<1>5. ASSUME mishaps' = {} PROVE PromptInv'
  <2>1. PendingInv' /\ AnswerInv'
    BY <1>1, <1>2, <1>3, <1>5
  <2>2. ConfByteInv'
    BY <1>1, <1>2, <1>3, <1>5
  <2>3. TestInv'
    BY <1>1, <1>2, <1>3, <1>5
  <2>4. ConfigInv'
    BY <1>1, <1>2, <1>3, <1>5
  <2>5. ResultInv'
    BY <1>1, <1>2, <1>3, <1>5
  <2>6. pc' \in {"flush2"} \cup Resetting => LastInv'
    BY <1>1, <1>2, <1>3, <1>5
  <2> QED BY <2>1, <2>2, <2>3, <2>4, <2>5, <2>6
<1> QED BY <1>4, <1>5

LEMMA WriteConfInv ==
  ASSUME Inv, write_conf
  PROVE  Inv'
BY WriteConfCommand, WriteConfData DEF write_conf

\* Old bytes are thrown away.
LEMMA FlushInv ==
  ASSUME Inv, flush
  PROVE  Inv'
<1> USE DEF Goto, Locals, Inv, PromptInv, PendingInv, Pending, AnswerInv, ConfByteInv, TestInv,
            ConfigInv, ResultInv, LastInv, Off, Config, Waiting, Resetting, Testing, Enabling,
            Preparing
<1>1. /\ \/ pc = "flush" /\ pc' = "read_conf1"
         \/ pc = "flush2" /\ pc' = "reset1"
      /\ UNCHANGED <<r1, ret, ps2_info, config, expects, inbuf, hw, mishaps>>
      /\ UNCHANGED <<conf_byte, dual, port1_ok, port2_ok>>
  BY DEF flush, flush_out_buff
<1>2. out' \in Seq(OutBytes) /\ (NoAnswer(out) => NoAnswer(out'))
  <2>1. out \in Seq(OutBytes) /\ out' = IF out = <<>> THEN <<>> ELSE Tail(out)
    BY DEF flush, flush_out_buff, Types, OutBytes
  <2>2. CASE out = <<>>
    BY <2>1, <2>2
  <2>3. CASE out # <<>>
    BY <2>1, <2>3, ReadByte
  <2> QED BY <2>2, <2>3
<1>3. Types'
  <2>1. pc' \in Stages
    BY <1>1 DEF Stages
  <2> QED BY <1>1, <1>2, <2>1, DriverTypes DEF Types
<1>4. ASSUME mishaps' = {} PROVE PromptInv'
  <2>1. PendingInv' /\ AnswerInv'
    BY <1>1, <1>2, <1>4
  <2>2. ConfByteInv'
    BY <1>1, <1>2, <1>4
  <2>3. TestInv'
    BY <1>1, <1>2, <1>4
  <2>4. ConfigInv'
    BY <1>1, <1>2, <1>4
  <2>5. ResultInv'
    BY <1>1, <1>2, <1>4
  <2>6. pc' \in {"flush2"} \cup Resetting => LastInv'
    BY <1>1, <1>2, <1>4
  <2> QED BY <2>1, <2>2, <2>3, <2>4, <2>5, <2>6
<1> QED BY <1>3, <1>4

\* The decisions between the accesses.
LEMMA BranchesInv ==
  ASSUME Inv, branches
  PROVE  Inv'
<1> USE DEF Goto, Locals, Inv, PromptInv, PendingInv, Pending, AnswerInv, ConfByteInv, TestInv,
            ConfigInv, ResultInv, LastInv, Off, Config, Waiting, Resetting, Testing, Enabling,
            Preparing
<1>1. UNCHANGED <<r1, ret, ps2_info, config, expects, out, inbuf, hw, mishaps, conf_byte, dual>>
  BY DEF branches, controller
<1>2. /\ port1_ok' = port1_ok
      /\ \/ pc = "test2" /\ ~dual /\ pc' = "tested" /\ port2_ok' = FALSE
         \/ /\ port2_ok' = port2_ok
            /\ \/ pc = "tested" /\ (port1_ok \/ port2_ok) /\ pc' = "enable_port1"
               \/ pc = "tested" /\ pc' = "failed"
               \/ pc = "enable_port1" /\ ~port1_ok /\ pc' = "enable_port2"
               \/ pc = "enable_port2" /\ ~port2_ok /\ pc' = "write_conf4"
               \/ pc = "reset1" /\ pc' \in {"send1", "reset2"}
               \/ pc = "reset2" /\ pc' = "info"
  BY DEF branches
<1>3. Types'
  <2>1. pc' \in Stages
    BY <1>2 DEF Stages
  <2>2. port2_ok \in BOOLEAN /\ (port2_ok' = FALSE \/ port2_ok' = port2_ok)
    BY <1>2 DEF Types
  <2>3. port2_ok' \in BOOLEAN
    BY ONLY <2>2
  <2> QED BY <1>1, <1>2, <2>1, <2>3, DriverTypes DEF Types, OutBytes
<1>4. ASSUME mishaps' = {} PROVE PromptInv'
  <2>1. PendingInv' /\ AnswerInv'
    BY <1>1, <1>2, <1>4
  <2>2. ConfByteInv'
    BY <1>1, <1>2, <1>4
  <2>3. TestInv'
    BY <1>1, <1>2, <1>4
  <2>4. ConfigInv'
    BY <1>1, <1>2, <1>4
  <2>5. ResultInv'
    BY <1>1, <1>2, <1>4
  <2>6. pc' \in {"flush2"} \cup Resetting => LastInv'
    BY <1>1, <1>2, <1>4
  <2> QED BY <2>1, <2>2, <2>3, <2>4, <2>5, <2>6
<1> QED BY <1>3, <1>4

\* A step of the resets, which touch neither the configuration nor what is
\* known of it.
LEMMA ResetStep ==
  ASSUME Inv, pc \in Resetting, pc' \in Resetting,
         UNCHANGED <<conf_byte, dual, config, expects, hw>>,
         port1_ok' \in BOOLEAN, port2_ok' \in BOOLEAN, out' \in Seq(OutBytes),
         inbuf' = inbuf \/ inbuf' = <<ToData(255)>>,
         mishaps' = {} =>
           /\ mishaps = {} /\ (NoAnswer(out) => NoAnswer(out'))
           /\ inbuf' = inbuf \/ (inbuf = <<>> /\ inbuf' = <<ToData(255)>>)
  PROVE  Inv'
<1> USE DEF Goto, Locals, Inv, PromptInv, PendingInv, Pending, AnswerInv, ConfByteInv, TestInv,
            ConfigInv, ResultInv, LastInv, Off, Config, Waiting, Resetting, Testing, Enabling,
            Preparing
<1>1. Types'
  <2>1. pc' \in Stages /\ 255 \in Bytes
    BY DEF Stages, Bytes
  <2> QED BY <2>1, DriverTypes DEF Types
<1>2. ASSUME mishaps' = {} PROVE PromptInv'
  <2>0. /\ PromptInv /\ LastInv /\ (NoAnswer(out) => NoAnswer(out'))
        /\ inbuf' = inbuf \/ (inbuf = <<>> /\ inbuf' = <<ToData(255)>>)
    BY <1>2
  <2>1. PendingInv' /\ AnswerInv'
    BY <2>0
  <2>2. ConfByteInv'
    BY <2>0
  <2>3. TestInv'
    BY <2>0
  <2>4. ConfigInv'
    BY <2>0
  <2>5. ResultInv'
    BY <2>0
  <2>6. pc' \in {"flush2"} \cup Resetting => LastInv'
    BY <2>0
  <2> QED BY <2>1, <2>2, <2>3, <2>4, <2>5, <2>6
<1> QED BY <1>1, <1>2

\* A reset that fails.
LEMMA ResetFailsIs ==
  ASSUME Inv, NEW d \in Resets, ResetFails(d) \/ Goto(d.first) \/ Goto(d.second)
                                  \/ Goto(d.id) \/ Goto(d.next)
  PROVE  /\ pc' \in Resetting /\ UNCHANGED <<conf_byte, dual>>
         /\ port1_ok' \in BOOLEAN /\ port2_ok' \in BOOLEAN
<1>1. pc' \in {d.first, d.second, d.id, d.next} /\ UNCHANGED <<conf_byte, dual>>
  BY DEF ResetFails, Goto, Locals
<1>2. {d.first, d.second, d.id, d.next} \subseteq Resetting
  BY DEF Resets, Resetting
<1>3. port1_ok \in BOOLEAN /\ port2_ok \in BOOLEAN
  BY DEF Inv, Types
<1>4. PICK p1 \in BOOLEAN, p2 \in BOOLEAN :
        p1 = (port1_ok /\ d.port # "port1") /\ p2 = (port2_ok /\ d.port # "port2")
  OBVIOUS
<1>5. \/ port1_ok' = p1 /\ port2_ok' = p2
      \/ port1_ok' = port1_ok /\ port2_ok' = port2_ok
  BY <1>4, Zenon DEF ResetFails, Goto, Locals
<1>6. port1_ok' \in BOOLEAN /\ port2_ok' \in BOOLEAN
  BY ONLY <1>3, <1>4, <1>5
<1> QED BY <1>1, <1>2, <1>6

LEMMA ResetDevInv ==
  ASSUME Inv, ps2_reset_dev
  PROVE  Inv'
<1>1. PICK d \in Resets : reset_send(d) \/ reset_first(d) \/ reset_second(d) \/ reset_id(d)
  BY DEF ps2_reset_dev
<1>2. {d.send, d.first, d.second, d.id} \subseteq Resetting
  BY DEF Resets, Resetting
<1>3. CASE reset_send(d)
  <2>1. /\ \E written \in BOOLEAN : ps2_write_timeout(255, written)
        /\ ResetFails(d) \/ Goto(d.first)
    BY <1>3 DEF reset_send
  <2>2. /\ UNCHANGED <<config, expects, out, hw>>
        /\ inbuf' = <<ToData(255)>> \/ inbuf' = inbuf
        /\ mishaps' = {} => mishaps = {} /\ inbuf = <<>> /\ inbuf' = <<ToData(255)>>
    BY <2>1, DataWritten
  <2>3. /\ pc' \in Resetting /\ UNCHANGED <<conf_byte, dual>>
        /\ port1_ok' \in BOOLEAN /\ port2_ok' \in BOOLEAN
    BY <2>1, ResetFailsIs
  <2>4. pc \in Resetting /\ out' \in Seq(OutBytes)
    BY <1>2, <1>3, <2>2 DEF reset_send, Inv, Types, OutBytes
  <2> QED BY <2>2, <2>3, <2>4, ResetStep
<1>4. CASE reset_first(d) \/ reset_second(d) \/ reset_id(d)
  <2>1. PICK r : ps2_read_timeout(r, d.port)
    BY <1>4 DEF reset_first, reset_second, reset_id
  <2>2. pc \in Resetting
    BY <1>2, <1>4 DEF reset_first, reset_second, reset_id
  <2>3. ResetFails(d) \/ Goto(d.second) \/ Goto(d.id) \/ Goto(d.next)
    BY <1>4 DEF reset_first, reset_second, reset_id
  <2>4. /\ UNCHANGED <<config, expects, inbuf, hw>> /\ out' \in Seq(OutBytes)
        /\ mishaps' = {} => mishaps = {} /\ (NoAnswer(out) => NoAnswer(out'))
    BY <2>1, ByteRead
  <2>5. /\ pc' \in Resetting /\ UNCHANGED <<conf_byte, dual>>
        /\ port1_ok' \in BOOLEAN /\ port2_ok' \in BOOLEAN
    BY <2>3, ResetFailsIs
  <2> QED BY <2>2, <2>4, <2>5, ResetStep
<1> QED BY <1>1, <1>3, <1>4

\* ps2_controller_init returns.
LEMMA FailsInv ==
  ASSUME Inv, fails
  PROVE  Inv'
<1> USE DEF Goto, Locals, Inv, PromptInv, PendingInv, Pending, AnswerInv, ConfByteInv, TestInv,
            ConfigInv, ResultInv, LastInv, Off, Config, Waiting, Resetting, Testing, Enabling,
            Preparing
<1>1. /\ pc = "failed" /\ pc' = "returned" /\ ret' = -1
      /\ UNCHANGED <<conf_byte, dual, port1_ok, port2_ok, config, expects, out, inbuf, hw, mishaps>>
  BY DEF fails, Returns, controller
<1>2. Types'
  <2>1. pc' \in Stages
    BY <1>1 DEF Stages
  <2> QED BY <1>1, <2>1, DriverTypes DEF Types, OutBytes
<1>3. ASSUME mishaps' = {} PROVE PromptInv'
  <2>1. PendingInv' /\ AnswerInv'
    BY <1>1, <1>3
  <2>2. ConfByteInv'
    BY <1>1, <1>3
  <2>3. TestInv'
    BY <1>1, <1>3
  <2>4. ConfigInv'
    BY <1>1, <1>3
  <2>5. ResultInv'
    BY <1>1, <1>3
  <2>6. pc' \in {"flush2"} \cup Resetting => LastInv'
    BY <1>1, <1>3
  <2> QED BY <2>1, <2>2, <2>3, <2>4, <2>5, <2>6
<1> QED BY <1>2, <1>3

LEMMA SucceedsInv ==
  ASSUME Inv, succeeds
  PROVE  Inv'
<1> USE DEF Goto, Locals, Inv, PromptInv, PendingInv, Pending, AnswerInv, ConfByteInv, TestInv,
            ConfigInv, ResultInv, LastInv, Off, Config, Waiting, Resetting, Testing, Enabling,
            Preparing
<1>1. /\ pc = "info" /\ pc' = "returned"
      /\ UNCHANGED <<conf_byte, dual, port1_ok, port2_ok, config, expects, out, inbuf, hw, mishaps>>
      /\ ps2_info'.is_dual_channel = dual /\ ps2_info'.config = conf_byte
  BY DEF succeeds, controller
<1>2. Types'
  <2>1. pc' \in Stages
    BY <1>1 DEF Stages
  <2> QED BY <1>1, <2>1, DriverTypes DEF Types, OutBytes
<1>3. ASSUME mishaps' = {} PROVE PromptInv'
  <2>1. PendingInv' /\ AnswerInv'
    BY <1>1, <1>3
  <2>2. ConfByteInv'
    BY <1>1, <1>3
  <2>3. TestInv'
    BY <1>1, <1>3
  <2>4. ConfigInv'
    BY <1>1, <1>3
  <2>5. ResultInv'
    BY <1>1, <1>3
  <2>6. pc' \in {"flush2"} \cup Resetting => LastInv'
    BY <1>1, <1>3
  <2> QED BY <2>1, <2>2, <2>3, <2>4, <2>5, <2>6
<1> QED BY <1>2, <1>3

\* Every step of the driver.
LEMMA DriverInv ==
  ASSUME Inv, Driver
  PROVE  Inv'
BY CommandsInv, QuestionsInv, ReadConf1Inv, SelfTestInv, ReadConf2Inv, TestPortsInv, WriteConfInv,
   FlushInv, BranchesInv, ResetDevInv, FailsInv, SucceedsInv DEF Driver

-----------------------------------------------------------------------------
(* The steps of the controller                                             *)

\* The controller reads a byte: only its own state changes.
LEMMA Consumed ==
  ASSUME Consume
  PROVE  /\ inbuf' = <<>>
         /\ UNCHANGED <<pc, conf_byte, dual, port1_ok, port2_ok, ret, ps2_info, hw, mishaps>>
BY DEF Consume, driver

LEMMA CommandConsumed ==
  ASSUME Consume, NEW c, inbuf = <<ToCommand(c)>>
  PROVE  Command(c)
<1>1. inbuf[1].to = "command" /\ inbuf[1].byte = c
  BY DEF ToCommand
<1> QED BY <1>1 DEF Consume

LEMMA DataConsumed ==
  ASSUME Consume, NEW b, inbuf = <<ToData(b)>>
  PROVE  Data(b)
<1>1. inbuf[1].to = "data" /\ inbuf[1].byte = b
  BY DEF ToData
<1> QED BY <1>1 DEF Consume

\* A command leaves the bytes to be read alone, or adds its answer to them.
LEMMA CommandKeepsOut ==
  ASSUME NEW c \in {173, 174, 167, 168, 96, 212}, Command(c)
  PROVE  out' = out
BY DEF Command

LEMMA CommandAnswered ==
  ASSUME Inv, NEW c, Command(c)
  PROVE  /\ c = 32 => Answers(config) /\ UNCHANGED config
         /\ c = 170 => Answers(hw.self_test)
         /\ c = 171 => Answers(hw.test1)
         /\ c = 169 => Answers(hw.test2)
BY DEF Command

\* What a command does to the configuration, and to the use of the next byte.
LEMMA CommandConfigures ==
  ASSUME NEW c, Command(c)
  PROVE  /\ c = 96 => expects' = "config" /\ UNCHANGED config
         /\ c = 212 => expects' = "port2" /\ UNCHANGED config
         /\ c = 168 => config' = Config(ClearBits(config, {CLOCK2_OFF}))
BY DEF Command

\* An answer of the controller is a byte.
LEMMA AnswersType ==
  ASSUME Inv, NEW b \in Bytes, Answers(b)
  PROVE  out' \in Seq(OutBytes) /\ (NoAnswer(out) => OneAnswer(out', b))
<1> DEFINE x == [byte |-> b, from |-> "controller"]
<1>1. x \in OutBytes /\ x.byte = b /\ x.from = "controller"
  BY DEF OutBytes, Origins
<1>2. out \in Seq(OutBytes) /\ out' = Append(out, x)
  BY DEF Inv, Types, OutBytes, Answers
<1> HIDE DEF x
<1> QED BY <1>1, <1>2, AddByte

\* The bits of the configuration that the commands change.
LEMMA ClockBits ==
  ASSUME Inv, NEW n \in {CLOCK1_OFF, CLOCK2_OFF}
  PROVE  /\ SetBits(config, {n}) \in Bytes /\ ClearBits(config, {n}) \in Bytes
         /\ Config(ClearBits(config, {n})) \in Bytes
<1>1. config \in Bytes /\ {n} \subseteq Bits
  BY DEF Inv, Types, CLOCK1_OFF, CLOCK2_OFF, Bits
<1> QED BY <1>1, SetBitsIs, ClearBitsIs, ConfigIs

LEMMA CommandType ==
  ASSUME Inv, NEW c, Command(c)
  PROVE  /\ config' \in Bytes /\ expects' \in {"port1", "port2", "config"}
         /\ out' \in Seq(OutBytes)
<1>1. /\ config \in Bytes /\ hw.self_test \in Bytes /\ hw.test1 \in Bytes /\ hw.test2 \in Bytes
      /\ out \in Seq(OutBytes) /\ FirmwareConfigs \subseteq Bytes
  BY PS2Assumption DEF Inv, Types, OutBytes, Bytes, SELF_TEST_OK, BAT_FAILED
<1>2. expects' \in {"port1", "port2", "config"}
  BY DEF Command
<1>3. config' \in Bytes
  <2>1. \/ config' \in {config} \cup FirmwareConfigs
        \/ \E n \in {CLOCK1_OFF, CLOCK2_OFF} :
             config' \in {SetBits(config, {n}), ClearBits(config, {n}),
                          Config(ClearBits(config, {n}))}
    BY DEF Command
  <2> QED BY <1>1, <2>1, ClockBits
<1>4. out' = out \/ \E b \in {config, hw.self_test, hw.test1, hw.test2} : Answers(b)
  BY DEF Command
<1> QED BY <1>1, <1>2, <1>3, <1>4, AnswersType

LEMMA DataType ==
  ASSUME Inv, NEW b \in Bytes, Data(b)
  PROVE  /\ config' \in Bytes /\ expects' = "port1" /\ out' \in Seq(OutBytes)
         /\ NoAnswer(out) => NoAnswer(out')
         /\ config' = IF expects = "config" THEN Config(b) ELSE config
<1>1. out \in Seq(OutBytes) /\ config \in Bytes /\ expects \in {"port1", "port2", "config"}
  BY DEF Inv, Types, OutBytes
<1>2. CASE expects = "config"
  BY <1>1, <1>2, ConfigIs DEF Data
<1>3. CASE expects # "config"
  <2>1. PICK reply \in DeviceReplies :
          out' = out \o [n \in DOMAIN reply |-> [byte |-> reply[n], from |-> expects]]
    BY <1>3 DEF Data
  <2>2. reply \in Seq(Bytes) /\ expects \in Origins \ {"controller"}
    BY <1>1, <1>3, PS2Assumption DEF Bytes, Origins
  <2>3. out' \in Seq(OutBytes) /\ (NoAnswer(out) => NoAnswer(out'))
    BY <1>1, <2>1, <2>2, AddReply
  <2> QED BY <1>1, <1>3, <2>3 DEF Data
<1> QED BY <1>2, <1>3

LEMMA ConsumeTypes ==
  ASSUME Inv, Consume
  PROVE  Types'
<1>1. PICK w \in Writes : inbuf = <<w>>
  BY DEF Inv, Types, Consume
<1>2. /\ config' \in Bytes /\ expects' \in {"port1", "port2", "config"}
      /\ out' \in Seq(OutBytes)
  <2>1. inbuf[1] = w /\ w.byte \in Bytes /\ (Command(w.byte) \/ Data(w.byte))
    BY <1>1 DEF Consume, Writes
  <2> QED BY <2>1, CommandType, DataType
<1> QED BY <1>2, Consumed DEF Inv, Types, OutBytes

\* The answer to a question.
LEMMA ConsumeAnswers ==
  ASSUME Inv, Consume, mishaps = {}
  PROVE  AnswerInv'
<1> USE DEF Waiting
<1>1. /\ inbuf' = <<>> /\ UNCHANGED <<pc, hw>> /\ inbuf # <<>>
      /\ NoAnswer(out) /\ PendingInv
  BY Consumed DEF Inv, PromptInv, AnswerInv, Consume
<1>2. PICK w \in Pending : inbuf = <<w>>
  BY <1>1 DEF PendingInv
<1>3. config \in Bytes /\ hw.self_test \in Bytes /\ hw.test1 \in Bytes /\ hw.test2 \in Bytes
  BY DEF Inv, Types, Bytes, SELF_TEST_OK, BAT_FAILED
<1>4. CASE pc \in {"conf1", "conf2"}
  <2>1. Command(32)
    <3>1. w = ToCommand(32)
      BY <1>2, <1>4 DEF Pending, Resetting
    <3> QED BY <1>2, <3>1, CommandConsumed
  <2>2. Answers(config) /\ Truth' = config
    BY <1>1, <1>4, <2>1, CommandAnswered DEF Truth
  <2> QED BY <1>1, <1>3, <1>4, <2>2, AnswersType DEF AnswerInv
<1>5. CASE pc = "self_tested"
  <2>1. Command(170)
    <3>1. w = ToCommand(170)
      BY <1>2, <1>5 DEF Pending, Resetting
    <3> QED BY <1>2, <3>1, CommandConsumed
  <2>2. Answers(hw.self_test) /\ Truth' = hw.self_test
    BY <1>1, <1>5, <2>1, CommandAnswered DEF Truth
  <2> QED BY <1>1, <1>3, <1>5, <2>2, AnswersType DEF AnswerInv
<1>6. CASE pc = "tested1"
  <2>1. Command(171)
    <3>1. w = ToCommand(171)
      BY <1>2, <1>6 DEF Pending, Resetting
    <3> QED BY <1>2, <3>1, CommandConsumed
  <2>2. Answers(hw.test1) /\ Truth' = hw.test1
    BY <1>1, <1>6, <2>1, CommandAnswered DEF Truth
  <2> QED BY <1>1, <1>3, <1>6, <2>2, AnswersType DEF AnswerInv
<1>7. CASE pc = "tested2"
  <2>1. Command(169)
    <3>1. w = ToCommand(169)
      BY <1>2, <1>7 DEF Pending, Resetting
    <3> QED BY <1>2, <3>1, CommandConsumed
  <2>2. Answers(hw.test2) /\ Truth' = hw.test2
    BY <1>1, <1>7, <2>1, CommandAnswered DEF Truth
  <2> QED BY <1>1, <1>3, <1>7, <2>2, AnswersType DEF AnswerInv
<1>8. CASE pc \notin Waiting
  <2>1. (\E b \in {conf_byte, 255} : w = ToData(b))
          \/ \E c \in {173, 174, 167, 168, 96, 212} : w = ToCommand(c)
    BY <1>2, <1>8 DEF Pending
  <2>2. NoAnswer(out')
    <3>1. CASE \E b \in {conf_byte, 255} : w = ToData(b)
      <4>0. conf_byte \in Bytes /\ 255 \in Bytes
        BY DEF Inv, Types, Bytes
      <4>1. PICK b \in Bytes : w = ToData(b)
        BY ONLY <3>1, <4>0
      <4> QED BY <1>1, <1>2, <4>1, DataConsumed, DataType
    <3>2. CASE \E c \in {173, 174, 167, 168, 96, 212} : w = ToCommand(c)
      BY <1>1, <1>2, <3>2, CommandConsumed, CommandKeepsOut
    <3> QED BY <2>1, <3>1, <3>2
  <2> QED BY <1>1, <1>8, <2>2 DEF AnswerInv
<1> QED BY <1>4, <1>5, <1>6, <1>7, <1>8

\* The configuration, as commands and data change it.
LEMMA ConsumeConfigures ==
  ASSUME Inv, Consume, mishaps = {}
  PROVE  ConfigInv'
<1>1. /\ inbuf' = <<>> /\ UNCHANGED <<pc, conf_byte, hw>> /\ inbuf # <<>>
      /\ PendingInv /\ ConfigInv /\ ConfByteInv /\ config \in Bytes /\ conf_byte \in Bytes
  BY Consumed DEF Inv, PromptInv, Consume, Types
<1>2. PICK w \in Pending : inbuf = <<w>>
  BY <1>1 DEF PendingInv
<1>3. ASSUME pc \in {"conf_data1", "conf_data2", "conf_data3", "conf_data4"}
      PROVE  expects' = "config"
  <2>1. Command(96)
    <3>1. w = ToCommand(96)
      BY <1>2, <1>3 DEF Pending, Resetting
    <3> QED BY <1>2, <3>1, CommandConsumed
  <2> QED BY <2>1, CommandConfigures
<1>4. ASSUME pc = "enable2" PROVE config' = Config(conf_byte)
  <2>1. Data(conf_byte) /\ expects = "config"
    <3>1. w = ToData(conf_byte)
      BY <1>2, <1>4 DEF Pending, Resetting
    <3> QED BY <1>1, <1>2, <1>4, <3>1, DataConsumed DEF ConfigInv
  <2> QED BY <1>1, <2>1, DataType
<1>5. ASSUME pc \in {"read_conf2", "conf2"}
      PROVE  /\ Off(config', {IRQ1, CLOCK1_OFF, TRANSLATION})
             /\ CLOCK2_OFF \in BitsOf(config') <=> ~hw.dual
  <2>1. CASE pc = "read_conf2"
    <3>1. Command(168) /\ config = Config(conf_byte)
      <4>1. w = ToCommand(168)
        BY <1>2, <2>1 DEF Pending, Resetting
      <4> QED BY <1>1, <1>2, <2>1, <4>1, CommandConsumed DEF ConfigInv
    <3>2. config' = Config(ClearBits(config, {CLOCK2_OFF}))
      BY <3>1, CommandConfigures
    <3>3. ClearBits(config, {CLOCK2_OFF}) \in Bytes
          /\ BitsOf(ClearBits(config, {CLOCK2_OFF})) = BitsOf(config) \ {CLOCK2_OFF}
      BY <1>1, ClearBitsIs
    <3>4. BitsOf(config') = IF hw.dual THEN BitsOf(config) \ {CLOCK2_OFF}
                            ELSE (BitsOf(config) \ {CLOCK2_OFF}) \cup {CLOCK2_OFF}
      BY <3>2, <3>3, ConfigIs
    <3>5. BitsOf(config) \subseteq BitsOf(conf_byte) \cup {CLOCK2_OFF}
      BY <1>1, <3>1, ConfigIs
    <3>6. Off(conf_byte, {IRQ1, CLOCK1_OFF, TRANSLATION})
      BY <1>1, <2>1 DEF ConfByteInv, Preparing
    <3> QED BY <3>4, <3>5, <3>6 DEF Off, IRQ1, CLOCK1_OFF, CLOCK2_OFF, TRANSLATION
  <2>2. CASE pc = "conf2"
    <3>1. Command(32)
      <4>1. w = ToCommand(32)
        BY <1>2, <2>2 DEF Pending, Resetting
      <4> QED BY <1>2, <4>1, CommandConsumed
    <3>2. config' = config
      BY <3>1, CommandAnswered
    <3> QED BY <1>1, <2>2, <3>2 DEF ConfigInv
  <2> QED BY <1>5, <2>1, <2>2
<1>6. Config(conf_byte)' = Config(conf_byte)
  BY <1>1 DEF Config
<1> QED BY <1>1, <1>3, <1>4, <1>5, <1>6 DEF ConfigInv, Off

\* The last configuration arrives, or it has arrived and stays.
LEMMA ConsumeKeepsLast ==
  ASSUME Inv, Consume, LastInv
  PROVE  LastInv'
<1>1. /\ inbuf' = <<>> /\ UNCHANGED <<conf_byte, hw>> /\ inbuf # <<>>
      /\ conf_byte \in Bytes /\ 255 \in Bytes
  BY Consumed DEF Inv, Consume, Types, Bytes
<1>2. Config(conf_byte)' = Config(conf_byte)
  BY <1>1 DEF Config
<1>3. config' = Config(conf_byte) /\ expects' # "config"
  <2>1. CASE inbuf = <<ToData(conf_byte)>> /\ expects = "config"
    <3>1. Data(conf_byte)
      BY <2>1, DataConsumed
    <3> QED BY <1>1, <2>1, <3>1, DataType
  <2>2. CASE /\ config = Config(conf_byte) /\ expects # "config"
             /\ inbuf[1] \in {ToData(255), ToCommand(212)}
    <3>1. PICK w \in Writes : inbuf = <<w>>
      BY <1>1 DEF Inv, Types
    <3>2. inbuf = <<ToData(255)>> \/ inbuf = <<ToCommand(212)>>
      BY <2>2, <3>1
    <3>3. CASE inbuf = <<ToData(255)>>
      BY <1>1, <2>2, <3>3, DataConsumed, DataType
    <3>4. CASE inbuf = <<ToCommand(212)>>
      BY <2>2, <3>4, CommandConsumed, CommandConfigures
    <3> QED BY <3>2, <3>3, <3>4
  <2> QED BY <1>1, <2>1, <2>2 DEF LastInv
<1> QED BY <1>1, <1>2, <1>3 DEF LastInv

LEMMA ConsumeInv ==
  ASSUME Inv, Consume
  PROVE  Inv'
<1>1. /\ inbuf' = <<>>
      /\ UNCHANGED <<pc, conf_byte, dual, port1_ok, port2_ok, ret, ps2_info, hw, mishaps>>
  BY Consumed
<1>2. ASSUME mishaps = {} PROVE PromptInv'
  <2>0. PromptInv
    BY <1>2 DEF Inv
  <2>1. PendingInv'
    BY <1>1 DEF PendingInv
  <2>2. AnswerInv' /\ ConfigInv'
    BY <1>2, ConsumeAnswers, ConsumeConfigures
  <2>3. ConfByteInv'
    BY <1>1, <2>0 DEF PromptInv, ConfByteInv, Off
  <2>4. TestInv'
    BY <1>1, <2>0 DEF PromptInv, TestInv
  <2>5. ResultInv'
    BY <1>1, <2>0, ConsumeKeepsLast DEF PromptInv, ResultInv, Off
  <2>6. pc' \in {"flush2"} \cup Resetting => LastInv'
    BY <1>1, <2>0, ConsumeKeepsLast DEF PromptInv
  <2> QED BY <2>1, <2>2, <2>3, <2>4, <2>5, <2>6 DEF PromptInv
<1> QED BY <1>1, <1>2, ConsumeTypes DEF Inv

\* A key is pressed: its byte goes behind the answer, if there is one.
LEMMA TypedInv ==
  ASSUME Inv, Typed
  PROVE  Inv'
<1> DEFINE x == [byte |-> KEY_A, from |-> "key"]
<1>1. x \in OutBytes /\ x.from # "controller"
  BY DEF OutBytes, Bytes, Origins, KEY_A
<1>2. /\ out \in Seq(OutBytes) /\ out' = Append(out, x)
      /\ UNCHANGED <<pc, conf_byte, dual, port1_ok, port2_ok, ret, ps2_info, config, expects,
                     inbuf, hw, mishaps>>
  BY DEF Typed, driver, Inv, Types, OutBytes
<1> HIDE DEF x
<1>3. out' \in Seq(OutBytes) /\ (NoAnswer(out) => NoAnswer(out'))
      /\ \A b : OneAnswer(out, b) => OneAnswer(out', b)
  BY <1>1, <1>2, AddByte
<1>4. Types'
  BY <1>2, <1>3, DriverTypes DEF Inv, Types
<1>5. ASSUME mishaps = {} PROVE PromptInv'
  <2>0. PromptInv
    BY <1>5 DEF Inv
  <2>1. PendingInv'
    BY <1>2, <2>0 DEF PromptInv, PendingInv, Pending
  <2>2. AnswerInv'
    <3>1. Truth' = Truth
      BY <1>2 DEF Truth
    <3> QED BY <1>2, <1>3, <2>0, <3>1 DEF PromptInv, AnswerInv
  <2>3. ConfByteInv'
    BY <1>2, <2>0 DEF PromptInv, ConfByteInv, Off
  <2>4. TestInv'
    BY <1>2, <2>0 DEF PromptInv, TestInv
  <2>5. ConfigInv' /\ (LastInv => LastInv')
    BY <1>2, <2>0 DEF PromptInv, ConfigInv, LastInv, Off, Config
  <2>6. ResultInv'
    BY <1>2, <2>0, <2>5 DEF PromptInv, ResultInv, Off
  <2> QED BY <1>2, <2>0, <2>1, <2>2, <2>3, <2>4, <2>5, <2>6 DEF PromptInv
<1> QED BY <1>2, <1>4, <1>5 DEF Inv

-----------------------------------------------------------------------------
(* The invariant, and what the driver is for                               *)

\* Nothing changes.
LEMMA StutterInv ==
  ASSUME Inv, UNCHANGED vars
  PROVE  Inv'
<1>1. UNCHANGED <<pc, conf_byte, dual, port1_ok, port2_ok, ret, ps2_info, config, expects,
                  out, inbuf, hw, mishaps>>
  BY DEF vars, driver, controller
<1>2. Types'
  BY <1>1, DriverTypes DEF Inv, Types, OutBytes
<1>3. ASSUME PromptInv PROVE PromptInv'
  <2>1. PendingInv' /\ AnswerInv'
    BY <1>1, <1>3 DEF PromptInv, PendingInv, Pending, AnswerInv, Truth
  <2>2. ConfByteInv' /\ TestInv'
    BY <1>1, <1>3 DEF PromptInv, ConfByteInv, TestInv, Off
  <2>3. ConfigInv' /\ (LastInv => LastInv')
    BY <1>1, <1>3 DEF PromptInv, ConfigInv, LastInv, Off, Config
  <2>4. ResultInv'
    BY <1>1, <1>3, <2>3 DEF PromptInv, ResultInv, Off
  <2> QED BY <1>1, <1>3, <2>1, <2>2, <2>3, <2>4 DEF PromptInv
<1> QED BY <1>1, <1>2, <1>3 DEF Inv

LEMMA InitInv ==
  ASSUME Init
  PROVE  Inv
<1>1. pc = "init" /\ inbuf = <<>> /\ out = <<>> /\ conf_byte = 0
  BY DEF Init
<1>2. Types
  <2>1. config \in Bytes /\ pc \in Stages /\ conf_byte \in Bytes
    BY <1>1, PS2Assumption DEF Init, Bytes, Stages
  <2>2. /\ dual \in BOOLEAN /\ port1_ok \in BOOLEAN /\ port2_ok \in BOOLEAN
        /\ expects \in {"port1", "port2", "config"}
        /\ hw \in [dual : BOOLEAN, self_test : {SELF_TEST_OK, BAT_FAILED},
                   test1 : {0, 1}, test2 : {0, 1}]
    BY DEF Init
  <2>3. out \in Seq([byte : Bytes, from : Origins])
    BY <1>1
  <2> QED BY <1>1, <2>1, <2>2, <2>3 DEF Types
<1>3. PromptInv
  <2>1. PendingInv /\ AnswerInv
    BY <1>1 DEF PendingInv, AnswerInv, Waiting, NoAnswer
  <2>2. ConfByteInv /\ TestInv /\ ConfigInv /\ ResultInv
    BY <1>1 DEF ConfByteInv, TestInv, ConfigInv, ResultInv, Preparing, Testing, Enabling, Resetting
  <2> QED BY <1>1, <2>1, <2>2 DEF PromptInv, Resetting
<1> QED BY <1>2, <1>3 DEF Inv

\* The driver and the controller agree, at every stage, on what has been
\* written, on the answer and on the configuration, as long as nothing went
\* wrong between them.
THEOREM Agreement == Spec => []Inv
<1>1. ASSUME Inv, [Next]_vars PROVE Inv'
  BY <1>1, DriverInv, ConsumeInv, TypedInv, StutterInv DEF Next, Returned
<1> QED BY <1>1, InitInv, PTL DEF Spec

\* ps2_controller_init configures every controller that keeps up with it,
\* whatever the firmware left and the devices answer.
THEOREM Configures == Spec => []ConfiguredIfPrompt
<1>1. ASSUME Inv PROVE ConfiguredIfPrompt
  <2>1. SUFFICES ASSUME ret = 0, pc = "returned", inbuf = <<>>, mishaps = {}
                 PROVE  /\ hw.self_test = SELF_TEST_OK
                        /\ hw.test1 = 0 \/ (hw.dual /\ hw.test2 = 0)
                        /\ Configured
    BY DEF ConfiguredIfPrompt
  <2>2. ResultInv /\ conf_byte \in Bytes
    BY <1>1, <2>1 DEF Inv, Types, PromptInv
  <2>3. config = Config(conf_byte)
    BY <2>1, <2>2 DEF ResultInv, LastInv
  <2>4. config = conf_byte
    BY <2>1, <2>2, <2>3, ConfigIs DEF ResultInv
  <2>5. Configured
    BY <2>1, <2>2, <2>4 DEF ResultInv, Configured, Off
  <2> QED BY <2>1, <2>2, <2>5 DEF ResultInv
<1> QED BY <1>1, Agreement, PTL
=============================================================================
