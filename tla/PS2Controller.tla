---------------------------- MODULE PS2Controller ----------------------------
(***************************************************************************)
(* ps2_controller_init (PS2_Controller.c): the driver writes commands and  *)
(* polls for answers, each poll with a timeout, while the controller works *)
(* at its own pace and the devices behind it may send bytes of their own.  *)
(*                                                                         *)
(* A step of the driver is one access that matters: a byte written, a byte *)
(* read, or a poll that timed out.  The controller and its devices are     *)
(* external.                                                               *)
(***************************************************************************)
EXTENDS Integers, Sequences

CONSTANTS
  FirmwareConfigs,    \* the configuration byte as the firmware leaves it
  DeviceReplies,      \* what a device may answer to a reset
  MaxKeys,            \* bytes the user makes the keyboard send meanwhile
  MaxOut              \* bytes the controller and the devices keep

ASSUME PS2Assumption ==
  /\ FirmwareConfigs \subseteq 0..255 /\ MaxKeys \in Nat /\ MaxOut \in Nat
  /\ DeviceReplies \subseteq Seq(0..255)

VARIABLES
  \* the driver: where it is, its variables, the result and ps2_info
  pc, conf_byte, dual, port1_ok, port2_ok, r1, ret, ps2_info,
  \* the controller: its configuration, the byte written and not consumed yet,
  \* what the next data byte is for, the bytes to be read, and its make
  config, inbuf, expects, out, hw,
  \* history: bytes typed, and what has gone wrong between the two
  keys, mishaps

driver == <<pc, conf_byte, dual, port1_ok, port2_ok, r1, ret, ps2_info>>
controller == <<config, expects, out>>
vars == <<driver, controller, inbuf, hw, keys, mishaps>>

-----------------------------------------------------------------------------
BitsOf(b) == {n \in 0..7 : (b \div 2 ^ n) % 2 = 1}
ByteOf(S) == LET bit(n) == IF n \in S THEN 2 ^ n ELSE 0
             IN bit(0) + bit(1) + bit(2) + bit(3) + bit(4) + bit(5) + bit(6) + bit(7)
ClearBits(b, S) == ByteOf(BitsOf(b) \ S)
SetBits(b, S) == ByteOf(BitsOf(b) \cup S)

\* Bits of the configuration byte.
IRQ1 == 0
IRQ2 == 1
CLOCK1_OFF == 4
CLOCK2_OFF == 5
TRANSLATION == 6

SELF_TEST_OK == 85
ACK == 250
BAT_OK == 170
BAT_FAILED == 252
KEY_A == 28
Nothing == -1

Init ==
  /\ pc = "init" /\ conf_byte = 0 /\ dual = FALSE
  /\ port1_ok = FALSE /\ port2_ok = FALSE /\ r1 = 0 /\ ret = Nothing
  /\ ps2_info = [exists |-> FALSE, enabled |-> FALSE, is_dual_channel |-> FALSE,
                 config |-> 0]
  /\ config \in FirmwareConfigs /\ inbuf = <<>> /\ expects = "port1"
  /\ out = <<>>
  /\ hw \in [dual : BOOLEAN, self_test : {SELF_TEST_OK, BAT_FAILED},
             test1 : {0, 1}, test2 : {0, 1}]
  /\ ~hw.dual => hw.test2 = 1
  /\ keys = 0 /\ mishaps = {}

-----------------------------------------------------------------------------
(* The controller (external)                                               *)

\* A controller with one channel reads the clock bit of the second as 1.
Config(b) == IF hw.dual THEN b ELSE SetBits(b, {CLOCK2_OFF})

Answers(b) == out' = Append(out, [byte |-> b, from |-> "controller"])

Command(c) ==
  /\ expects' = CASE c = 96 -> "config" [] c = 212 -> "port2" [] OTHER -> "port1"
  /\ CASE c = 32  -> Answers(config) /\ UNCHANGED config
       [] c = 170 -> /\ Answers(hw.self_test)
                     /\ config' \in {config} \cup FirmwareConfigs
       [] c = 171 -> Answers(hw.test1) /\ UNCHANGED config
       [] c = 169 -> Answers(hw.test2) /\ UNCHANGED config
       [] c = 173 -> config' = SetBits(config, {CLOCK1_OFF}) /\ UNCHANGED out
       [] c = 174 -> config' = ClearBits(config, {CLOCK1_OFF}) /\ UNCHANGED out
       [] c = 167 -> config' = SetBits(config, {CLOCK2_OFF}) /\ UNCHANGED out
       [] c = 168 -> config' = Config(ClearBits(config, {CLOCK2_OFF})) /\ UNCHANGED out
       [] OTHER   -> UNCHANGED <<config, out>>

\* A data byte is the configuration, or the reset for a device, whose answer
\* (none, if it is not there) follows.
Data(b) ==
  /\ expects' = "port1"
  /\ \/ expects = "config" /\ config' = Config(b) /\ UNCHANGED out
     \/ /\ expects # "config" /\ UNCHANGED config
        /\ \E reply \in DeviceReplies :
             out' = out \o [n \in DOMAIN reply |->
                              [byte |-> reply[n], from |-> expects]]

Consume ==
  /\ inbuf # <<>> /\ Len(out) < MaxOut
  /\ IF inbuf[1].to = "command" THEN Command(inbuf[1].byte) ELSE Data(inbuf[1].byte)
  /\ inbuf' = <<>>
  /\ UNCHANGED <<driver, hw, keys, mishaps>>

\* A key is pressed while the clock of the first port is on.
Typed ==
  /\ keys < MaxKeys /\ CLOCK1_OFF \notin BitsOf(config) /\ Len(out) < MaxOut
  /\ keys' = keys + 1
  /\ out' = Append(out, [byte |-> KEY_A, from |-> "key"])
  /\ UNCHANGED <<driver, config, expects, inbuf, hw, mishaps>>

-----------------------------------------------------------------------------
(* The driver's accesses                                                   *)

Locals(p, c, d, o1, o2) ==
  /\ pc' = p /\ conf_byte' = c /\ dual' = d /\ port1_ok' = o1 /\ port2_ok' = o2
Goto(p) == Locals(p, conf_byte, dual, port1_ok, port2_ok)

\* outportb to the command register: nobody looks at the input buffer first.
write_ps2_bcommand(c) ==
  /\ inbuf' = <<[to |-> "command", byte |-> c]>>
  /\ mishaps' = IF inbuf = <<>> THEN mishaps ELSE mishaps \cup {"overrun"}
  /\ UNCHANGED <<r1, ret, ps2_info, controller, hw, keys>>

\* A byte for the data port, once the input buffer is empty; TRUE if it was
\* written and FALSE if the wait timed out.
ps2_write_timeout(b, written) ==
  /\ \/ written /\ inbuf = <<>> /\ inbuf' = <<[to |-> "data", byte |-> b]>>
        /\ UNCHANGED mishaps
     \/ ~written /\ inbuf # <<>> /\ UNCHANGED inbuf
        /\ mishaps' = mishaps \cup {"timeout"}
  /\ UNCHANGED <<r1, ret, ps2_info, controller, hw, keys>>

\* Mutant: the poll goes on for ever.
may_time_out_never == FALSE

may_time_out == out = <<>>

\* A poll for a byte of the given origin: the first that is there, whoever
\* sent it, or -1.
ps2_read_timeout(r, from) ==
  /\ \/ out # <<>> /\ r = Head(out).byte /\ out' = Tail(out)
        /\ mishaps' = IF Head(out).from = from THEN mishaps
                      ELSE mishaps \cup {"foreign"}
     \/ may_time_out /\ r = -1 /\ UNCHANGED out
        /\ mishaps' = IF from = "controller" THEN mishaps \cup {"timeout"}
                      ELSE mishaps
  /\ UNCHANGED <<config, expects, inbuf, hw, keys>>

Answer(r) == ps2_read_timeout(r, "controller") /\ UNCHANGED <<r1, ret, ps2_info>>
Readable == {-1} \cup {out[n].byte : n \in DOMAIN out}

uint8(r) == r % 256

flush_out_buff ==
  /\ out' = IF out = <<>> THEN <<>> ELSE Tail(out)
  /\ UNCHANGED <<r1, ret, ps2_info, config, expects, inbuf, hw, keys, mishaps>>

Returns(r) ==
  /\ ret' = r /\ Goto("returned")
  /\ UNCHANGED <<r1, ps2_info, controller, inbuf, hw, keys, mishaps>>

-----------------------------------------------------------------------------
(* ps2_controller_init                                                     *)

\* Commands without an answer: where, which, and where to after it.
Commands ==
  \/ pc = "init" /\ write_ps2_bcommand(173) /\ Goto("disable2")
  \/ pc = "disable2" /\ write_ps2_bcommand(167) /\ Goto("flush")
  \/ pc = "enable2" /\ write_ps2_bcommand(168) /\ Goto("read_conf2")
  \/ pc = "dual" /\ write_ps2_bcommand(167) /\ Goto("write_conf3")
  \/ pc = "enable_port1" /\ port1_ok /\ write_ps2_bcommand(174)
     /\ Locals("enable_port2", SetBits(conf_byte, {IRQ1}), dual, port1_ok, port2_ok)
  \/ pc = "enable_port2" /\ port2_ok /\ write_ps2_bcommand(168)
     /\ Locals("write_conf4", SetBits(conf_byte, {IRQ2}), dual, port1_ok, port2_ok)
  \/ pc = "reset2" /\ port2_ok /\ write_ps2_bcommand(212) /\ Goto("send2")

\* Commands that are answered.
Questions ==
  \/ pc = "read_conf1" /\ write_ps2_bcommand(32) /\ Goto("conf1")
  \/ pc = "self_test" /\ write_ps2_bcommand(170) /\ Goto("self_tested")
  \/ pc = "read_conf2" /\ write_ps2_bcommand(32) /\ Goto("conf2")
  \/ pc = "test1" /\ write_ps2_bcommand(171) /\ Goto("tested1")
  \/ pc = "test2" /\ dual /\ write_ps2_bcommand(169) /\ Goto("tested2")

\* The answers.  A timeout of a configuration byte is the byte 0xFF.
read_conf1 ==
  \E r \in Readable :
    /\ pc = "conf1" /\ Answer(r)
    /\ Locals("write_conf1",
              ClearBits(uint8(r), {IRQ1, CLOCK1_OFF, TRANSLATION}),
              dual, port1_ok, port2_ok)

self_test_result(good, bad) == \E r \in Readable :
  pc = "self_tested" /\ Answer(r) /\ Goto(IF r = SELF_TEST_OK THEN good ELSE bad)

\* Mutant: the configuration is not written again after the self test.
self_test_unwritten == self_test_result("enable2", "failed")

self_test == self_test_result("write_conf2", "failed")

read_conf2 == \E r \in Readable :
  /\ pc = "conf2" /\ Answer(r)
  /\ IF CLOCK2_OFF \in BitsOf(uint8(r))
       THEN Locals("test1", uint8(r), FALSE, port1_ok, port2_ok)
       ELSE Locals("dual", ClearBits(uint8(r), {IRQ1, IRQ2, CLOCK2_OFF}), TRUE,
                   port1_ok, port2_ok)

test_ports == \E r \in Readable :
  \/ pc = "tested1" /\ Answer(r)
     /\ Locals("test2", conf_byte, dual, r = 0, port2_ok)
  \/ pc = "tested2" /\ Answer(r)
     /\ Locals("tested", conf_byte, dual, port1_ok, r = 0)

\* write_ps2_2bcommand(0x60): the command, then the configuration byte, whose
\* timeout is not looked at.
ConfigWrites == {<<"write_conf1", "conf_data1", "self_test">>,
                 <<"write_conf2", "conf_data2", "enable2">>,
                 <<"write_conf3", "conf_data3", "test1">>,
                 <<"write_conf4", "conf_data4", "flush2">>}

write_conf == \E w \in ConfigWrites :
  \/ pc = w[1] /\ write_ps2_bcommand(96) /\ Goto(w[2])
  \/ pc = w[2] /\ Goto(w[3])
     /\ \E written \in BOOLEAN : ps2_write_timeout(conf_byte, written)

flush ==
  \/ pc = "flush" /\ flush_out_buff /\ Goto("read_conf1")
  \/ pc = "flush2" /\ flush_out_buff /\ Goto("reset1")

\* Branches without an access.
branches ==
  /\ \/ pc = "test2" /\ ~dual /\ Locals("tested", conf_byte, dual, port1_ok, FALSE)
     \/ pc = "tested" /\ Goto(IF port1_ok \/ port2_ok THEN "enable_port1" ELSE "failed")
     \/ pc = "enable_port1" /\ ~port1_ok /\ Goto("enable_port2")
     \/ pc = "enable_port2" /\ ~port2_ok /\ Goto("write_conf4")
     \/ pc = "reset1" /\ Goto(IF port1_ok THEN "send1" ELSE "reset2")
     \/ pc = "reset2" /\ ~port2_ok /\ Goto("info")
  /\ UNCHANGED <<r1, ret, ps2_info, controller, inbuf, hw, keys, mishaps>>

\* ps2_reset_dev: the reset, two answers in either order, and an id.
Resets == {[port |-> "port1", send |-> "send1", first |-> "first1",
            second |-> "second1", id |-> "id1", next |-> "reset2"],
           [port |-> "port2", send |-> "send2", first |-> "first2",
            second |-> "second2", id |-> "id2", next |-> "info"]}

\* The result only reaches the local port_ok.
ResetFails(d) == Locals(d.next, conf_byte, dual,
                        port1_ok /\ d.port # "port1", port2_ok /\ d.port # "port2")

reset_send(d) ==
  /\ pc = d.send
  /\ \/ ps2_write_timeout(255, TRUE) /\ Goto(d.first)
     \/ ps2_write_timeout(255, FALSE) /\ ResetFails(d)

reset_first(d) == \E r \in Readable :
  /\ pc = d.first /\ ps2_read_timeout(r, d.port) /\ r1' = r
  /\ IF r \in {-1, BAT_FAILED} THEN ResetFails(d) ELSE Goto(d.second)
  /\ UNCHANGED <<ret, ps2_info>>

reset_second(d) == \E r \in Readable :
  /\ pc = d.second /\ ps2_read_timeout(r, d.port)
  /\ IF {r1, r} = {ACK, BAT_OK} THEN Goto(d.id) ELSE ResetFails(d)
  /\ UNCHANGED <<r1, ret, ps2_info>>

reset_id(d) == \E r \in Readable :
  /\ pc = d.id /\ ps2_read_timeout(r, d.port) /\ Goto(d.next)
  /\ UNCHANGED <<r1, ret, ps2_info>>

ps2_reset_dev == \E d \in Resets :
  reset_send(d) \/ reset_first(d) \/ reset_second(d) \/ reset_id(d)

fails == pc = "failed" /\ Returns(-1)

succeeds ==
  /\ pc = "info" /\ Goto("returned") /\ ret' = 0
  /\ ps2_info' = [exists |-> TRUE, enabled |-> TRUE, is_dual_channel |-> dual,
                  config |-> conf_byte]
  /\ UNCHANGED <<r1, controller, inbuf, hw, keys, mishaps>>

Driver ==
  \/ Commands \/ Questions \/ read_conf1 \/ self_test \/ read_conf2
  \/ test_ports \/ write_conf \/ flush \/ branches \/ ps2_reset_dev \/ fails
  \/ succeeds

Returned == pc = "returned" /\ UNCHANGED vars

Next == Driver \/ Consume \/ Typed \/ Returned

\* The processor executes the driver; nothing is assumed of the controller.
Spec == Init /\ [][Next]_vars /\ WF_vars(Driver)

-----------------------------------------------------------------------------
(* Properties *)

\* What ps2_controller_init is for: scancodes are not translated (the decoder
\* expects set 2), each port that passed its test has its clock and its
\* interrupt on, no other port interrupts, and ps2_info tells the truth.
Configured ==
  LET on == BitsOf(config)
  IN /\ TRANSLATION \notin on
     /\ hw.test1 = 0 => IRQ1 \in on /\ CLOCK1_OFF \notin on
     /\ hw.test1 # 0 => IRQ1 \notin on
     /\ hw.dual => (IRQ2 \in on) = (hw.test2 = 0)
     /\ hw.dual /\ hw.test2 = 0 => CLOCK2_OFF \notin on
     /\ ps2_info.is_dual_channel = hw.dual
     /\ ps2_info.config = config

\* If every byte was consumed in time, the controller never let a poll time
\* out, and no key came in between, a result of 0 means that the controller
\* passes its self test, a port works, and all is configured: whatever the
\* firmware left, whatever the self test did to the configuration, and whether
\* or not the devices answer their reset.
ConfiguredIfPrompt ==
  ret = 0 /\ pc = "returned" /\ inbuf = <<>> /\ mishaps = {} =>
    /\ hw.self_test = SELF_TEST_OK
    /\ hw.test1 = 0 \/ (hw.dual /\ hw.test2 = 0)
    /\ Configured

\* ps2_controller_init returns, even if the controller never answers and even
\* if keys are pressed all the time: every poll is bounded.
InitReturns == <>(pc = "returned")
=============================================================================
