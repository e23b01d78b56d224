-------------------------------- MODULE Stm32 --------------------------------
(***************************************************************************)
(* The firmware of the main box, STM32/Src/freertos.c: its tasks and the   *)
(* queues between them.                                                    *)
(*                                                                         *)
(*   StartKeyStateTask --keypressed--> StartDefaultTask --+                *)
(*   StartRecvFPGA ---------------------------------------+--Send7200-->   *)
(*   Callback01 (every second, the temperatures) ---------+  StartTask7200 *)
(*   StartRecv7200 (commands of the TS-7200) -------------+                *)
(*                                                                         *)
(* and all of them but StartRecvFPGA also fill SendFPGA, which             *)
(* StartSendFPGA empties into the FPGA: it makes the tones.  No task ever  *)
(* waits for room in a queue: what does not fit is lost.                   *)
(*                                                                         *)
(* A step goes from one vTaskDelay or queue operation to the next.  Of the *)
(* messages to the TS-7200 and of the keys only the number is kept: how    *)
(* they are received is SerialLink's question, the other way round.        *)
(* Delays at the start of a task are steps it does not take yet.           *)
(***************************************************************************)
EXTENDS Naturals, Sequences

CONSTANTS KEYPRESSED, SEND7200, SENDFPGA,   \* lengths of the queues
          Temp                              \* readings of the engine's temperature

\* What a reading is compared with: > engine_temp_limit, >= fan_on_temp and
\* <= fan_off_temp.  The TS-7200 sets all three, so that any may hold together.
Threshold == {"above_limit", "above_on", "below_off"}

ASSUME ConstantsAssumption ==
  /\ {KEYPRESSED, SEND7200, SENDFPGA} \subseteq Nat \ {0}
  /\ Temp \subseteq SUBSET Threshold /\ {"below_off"} \in Temp

ToFPGA == {"DTMF_TONE_ON", "SPECIAL_TONE_ON", "DTMF_TONE_OFF", "SETTING"}

VARIABLES server_up, engine_on, fan_on, too_high_flag, raw_data,
          keypressed, Send7200, SendFPGA,
          scan,              \* StartKeyStateTask
          dflt,              \* StartDefaultTask
          call,              \* Callback01
          rx,                \* StartRecvFPGA: "loop", or "frame" while it reads one
          tx,                \* StartTask7200: "ready" or "sending"
          tone,              \* FPGA: the tone it makes
          \* History:
          tone_lost,         \* a message to the FPGA did not fit
          late               \* frames that have ended since SERVER_DOWN

control == <<server_up, engine_on>>
temp    == <<fan_on, too_high_flag, raw_data, call>>
keypad  == <<keypressed, scan, dflt>>
link    == <<rx, tx, late>>
fpga    == <<SendFPGA, tone, tone_lost>>
vars    == <<control, temp, keypad, link, fpga, Send7200>>

Init ==
  /\ server_up = FALSE /\ engine_on = FALSE
  /\ fan_on = FALSE /\ too_high_flag = FALSE /\ raw_data = {"below_off"} /\ call = "wait"
  /\ keypressed = 0 /\ scan = "WAIT_FOR_PRESS" /\ dflt = "get"
  /\ Send7200 = 0 /\ rx = "loop" /\ tx = "ready" /\ late = 0
  /\ SendFPGA = <<>> /\ tone = "off" /\ tone_lost = FALSE

\* Mutant: as if the queue had no end.
Plus1_NoLimit(q, size) == q + 1

\* xQueueSend(queue, item, 0) on queues of which only the length is kept
Plus1(q, size) == IF q < size THEN q + 1 ELSE q
Tell == Send7200' = Plus1(Send7200, SEND7200)

\* ... and on SendFPGA
TellFPGA(m) ==
  /\ SendFPGA' = IF Len(SendFPGA) < SENDFPGA THEN Append(SendFPGA, m) ELSE SendFPGA
  /\ tone_lost' = (tone_lost \/ (Len(SendFPGA) = SENDFPGA /\ m # "SETTING"))
  /\ UNCHANGED tone

--------------------------------------------------------------------------------
(* Keypad: StartKeyStateTask and StartDefaultTask *)

Press ==
  /\ scan = "WAIT_FOR_PRESS" /\ scan' = "WAIT_FOR_RELEASE"
  /\ TellFPGA("DTMF_TONE_ON")
  /\ UNCHANGED <<control, temp, keypressed, dflt, link, Send7200>>

Release ==
  /\ scan = "WAIT_FOR_RELEASE" /\ scan' = "tone_off"
  /\ keypressed' = Plus1(keypressed, KEYPRESSED)
  /\ UNCHANGED <<control, temp, dflt, link, fpga, Send7200>>

ReleaseToneOff ==      \* 5 ms later
  /\ scan = "tone_off" /\ scan' = "WAIT_FOR_PRESS"
  /\ TellFPGA("DTMF_TONE_OFF")
  /\ UNCHANGED <<control, temp, keypressed, dflt, link, Send7200>>

\* The key itself; behind A to D and * a NAV_ command, behind # nothing, behind
\* a digit its beep.
GetKey ==
  /\ dflt = "get" /\ keypressed > 0 /\ keypressed' = keypressed - 1
  /\ Tell /\ dflt' \in {"nav", "tone1", "get"}
  /\ UNCHANGED <<control, temp, scan, link, fpga>>

Navigate ==
  /\ dflt = "nav" /\ dflt' = "get"
  /\ Tell
  /\ UNCHANGED <<control, temp, keypressed, scan, link, fpga>>

\* Two tones of 20 ms.
Beep ==
  /\ \/ dflt = "tone1" /\ dflt' = "tone2" /\ TellFPGA("DTMF_TONE_ON")
     \/ dflt = "tone2" /\ dflt' = "tone3" /\ TellFPGA("DTMF_TONE_ON")
     \/ dflt = "tone3" /\ dflt' = "get" /\ TellFPGA("DTMF_TONE_OFF")
  /\ UNCHANGED <<control, temp, keypressed, scan, link, Send7200>>

--------------------------------------------------------------------------------
(* Callback01, the one-second timer *)

ReadTemp ==            \* ENGINE_TEMP
  /\ call = "wait" /\ server_up /\ call' = "indoor"
  /\ raw_data' \in Temp
  /\ Tell
  /\ UNCHANGED <<control, keypad, link, fpga, fan_on, too_high_flag>>

ReadIndoor ==          \* INDOOR_TEMP
  /\ call = "indoor" /\ call' = "alarm"
  /\ Tell
  /\ UNCHANGED <<control, keypad, link, fpga, fan_on, too_high_flag, raw_data>>

\* Mutant: the flag is cleared, the tone is not.
Alarm_NoToneOff ==
  /\ call = "alarm"
  /\ \/ /\ ~too_high_flag /\ "above_limit" \in raw_data /\ call' = "tell"
        /\ TellFPGA("SPECIAL_TONE_ON")
     \/ too_high_flag /\ call' = "fan_on" /\ UNCHANGED fpga
     \/ ~too_high_flag /\ "above_limit" \notin raw_data /\ call' = "fan_on" /\ UNCHANGED fpga
  /\ too_high_flag' = FALSE
  /\ UNCHANGED <<control, keypad, link, Send7200, fan_on, raw_data>>

\* The alarm sounds every other second.
Alarm ==
  /\ call = "alarm"
  /\ \/ /\ ~too_high_flag /\ "above_limit" \in raw_data /\ call' = "tell"
        /\ TellFPGA("SPECIAL_TONE_ON")
     \/ too_high_flag /\ call' = "fan_on" /\ TellFPGA("DTMF_TONE_OFF")
     \/ ~too_high_flag /\ "above_limit" \notin raw_data /\ call' = "fan_on" /\ UNCHANGED fpga
  /\ too_high_flag' = FALSE
  /\ UNCHANGED <<control, keypad, link, Send7200, fan_on, raw_data>>

TellTooHigh ==         \* TEMP_TOO_HIGH, 100 ms later
  /\ call = "tell" /\ call' = "fan_on"
  /\ too_high_flag' = TRUE /\ Tell
  /\ UNCHANGED <<control, keypad, link, fpga, fan_on, raw_data>>

\* What the STM32 takes for the fan's state changes whether the message fits or
\* not.
SwitchFan(on) == fan_on' = on /\ Tell       \* ON_FAN or OFF_FAN

FanOn ==
  /\ call = "fan_on" /\ call' = "fan_off"
  /\ IF engine_on /\ ~fan_on /\ "above_on" \in raw_data THEN SwitchFan(TRUE)
     ELSE UNCHANGED <<fan_on, Send7200>>
  /\ UNCHANGED <<control, keypad, link, fpga, too_high_flag, raw_data>>

\* Mutant: the test of line 1538 is the one of line 1528 again.
FanOff_AboveOn ==
  /\ call = "fan_off" /\ call' = "wait"
  /\ IF fan_on /\ "above_on" \in raw_data THEN SwitchFan(FALSE)
     ELSE UNCHANGED <<fan_on, Send7200>>
  /\ UNCHANGED <<control, keypad, link, fpga, too_high_flag, raw_data>>

FanOff ==              \* 200 ms later if an ON_FAN was sent
  /\ call = "fan_off" /\ call' = "wait"
  /\ IF fan_on /\ "below_off" \in raw_data THEN SwitchFan(FALSE)
     ELSE UNCHANGED <<fan_on, Send7200>>
  /\ UNCHANGED <<control, keypad, link, fpga, too_high_flag, raw_data>>

Callback01 == ReadTemp \/ ReadIndoor \/ Alarm \/ TellTooHigh \/ FanOn \/ FanOff

--------------------------------------------------------------------------------
(* The links: StartRecv7200, StartRecvFPGA, StartSendFPGA, StartTask7200 *)

\* A command of the TS-7200: SERVER_UP and SEND_CONFIG2, which set the
\* temperatures, SERVER_DOWN, those about engine and fan, GET_CONFIG2, which is
\* answered, and a setting, which goes on to the FPGA.
Recv7200 ==
  /\ \/ /\ server_up' = TRUE /\ late' = 0 /\ raw_data' \in Temp
        /\ UNCHANGED <<engine_on, fan_on, Send7200, fpga>>
     \/ /\ raw_data' \in Temp
        /\ UNCHANGED <<control, fan_on, Send7200, late, fpga>>
     \/ server_up' = FALSE /\ UNCHANGED <<engine_on, fan_on, raw_data, Send7200, late, fpga>>
     \/ engine_on' \in BOOLEAN /\ UNCHANGED <<server_up, fan_on, raw_data, Send7200, late, fpga>>
     \/ fan_on' \in BOOLEAN /\ UNCHANGED <<control, raw_data, Send7200, late, fpga>>
     \/ Tell /\ UNCHANGED <<control, fan_on, raw_data, late, fpga>>
     \/ TellFPGA("SETTING") /\ UNCHANGED <<control, fan_on, raw_data, late, Send7200>>
  /\ UNCHANGED <<keypad, too_high_flag, call, rx, tx>>

\* A frame of the FPGA, once the server is up.  At its end SEND_RT_VALUES1 if the
\* engine is on, SEND_RT_VALUES2 and 3 if they are asked for, and
\* SEND_RT_FPGA_STATUS; how many of them is not kept.
RecvFPGA ==
  /\ \/ rx = "loop" /\ server_up /\ rx' = "frame" /\ UNCHANGED Send7200
     \/ rx = "frame" /\ Tell /\ rx' \in {"frame", "loop"}
  /\ UNCHANGED <<control, temp, keypad, tx, late, fpga>>

\* StartSendFPGA
SendToFPGA ==
  /\ SendFPGA # <<>> /\ SendFPGA' = Tail(SendFPGA)
  /\ tone' = CASE Head(SendFPGA) = "DTMF_TONE_ON" -> "dtmf"
               [] Head(SendFPGA) = "SPECIAL_TONE_ON" -> "special"
               [] Head(SendFPGA) = "DTMF_TONE_OFF" -> "off"
               [] Head(SendFPGA) = "SETTING" -> tone
  /\ UNCHANGED <<control, temp, keypad, link, Send7200, tone_lost>>

\* Mutant: the queue is emptied onto the line whether the server is up or not.
Take_Always ==
  /\ tx = "ready" /\ Send7200 > 0 /\ Send7200' = Send7200 - 1
  /\ tx' = "sending"
  /\ UNCHANGED <<control, temp, keypad, fpga, rx, late>>

\* Without a server the message is dropped.
Take ==
  /\ tx = "ready" /\ Send7200 > 0 /\ Send7200' = Send7200 - 1
  /\ tx' = IF server_up THEN "sending" ELSE "ready"
  /\ UNCHANGED <<control, temp, keypad, fpga, rx, late>>

Transmit ==
  /\ tx = "sending" /\ tx' = "ready"
  /\ late' = IF server_up THEN late ELSE late + 1
  /\ UNCHANGED <<control, temp, keypad, fpga, rx, Send7200>>

Next ==
  \/ Press \/ Release \/ ReleaseToneOff \/ GetKey \/ Navigate \/ Beep
  \/ Callback01 \/ Recv7200 \/ RecvFPGA \/ SendToFPGA \/ Take \/ Transmit

Spec == Init /\ [][Next]_vars

\* The timer's callback and the task that empties SendFPGA get the processor; no
\* task at their side keeps it.
Fairness == WF_vars(Callback01) /\ WF_vars(SendToFPGA)
FairSpec == Spec /\ Fairness
--------------------------------------------------------------------------------
(* Properties. *)

\* Types; no queue is ever longer than it was created.
TypeOK ==
  /\ {server_up, engine_on, fan_on, too_high_flag, tone_lost} \subseteq BOOLEAN
  /\ raw_data \in Temp
  /\ call \in {"wait", "indoor", "alarm", "tell", "fan_on", "fan_off"}
  /\ keypressed \in 0..KEYPRESSED /\ Send7200 \in 0..SEND7200
  /\ SendFPGA \in Seq(ToFPGA) /\ Len(SendFPGA) <= SENDFPGA
  /\ scan \in {"WAIT_FOR_PRESS", "WAIT_FOR_RELEASE", "tone_off"}
  /\ dflt \in {"get", "nav", "tone1", "tone2", "tone3"}
  /\ rx \in {"loop", "frame"} /\ tx \in {"ready", "sending"} /\ late \in Nat
  /\ tone \in {"off", "dtmf", "special"}

\* Whatever keypad, key task and alarm send to the FPGA at the same time, no tone
\* stays on: when none of them has anything to end any more, it is off.  Unless
\* a message was lost in a full queue.
TonesEnd ==
  \/ tone_lost
  \/ /\ scan = "WAIT_FOR_PRESS" /\ dflt \in {"get", "nav", "tone1"}
     /\ ~too_high_flag /\ call # "tell" /\ SendFPGA = <<>>
     => tone = "off"

\* After SERVER_DOWN at most the frame that was on its way still comes:
\* the TS-7200 is about to end, and nobody reads its serial port.
QuietAfterDown == late <= 1

\* While the engine stays at fan_on_temp or above, the STM32 switches the fan on
\* again whoever switches it off; while it stays too hot, the alarm sounds again
\* and again, whatever keys are pressed (or the queue lost a tone); when it stays
\* at fan_off_temp or below, the fan goes off again: even if the temperatures are
\* set so that several of these hold at once.
TemperatureIsWatched ==
  /\ <>[](server_up /\ engine_on /\ "above_on" \in raw_data) => []<>fan_on
  /\ <>[](server_up /\ "above_limit" \in raw_data) => []<>(tone = "special") \/ <>tone_lost
  /\ <>[](server_up /\ "below_off" \in raw_data) => []<>~fan_on
================================================================================
