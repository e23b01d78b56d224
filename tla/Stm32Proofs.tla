------------------------------ MODULE Stm32Proofs ------------------------------
(***************************************************************************)
(* The tones and the silence after SERVER_DOWN, for queues of any length   *)
(* and any order in which keys, commands and temperatures arrive.          *)
(***************************************************************************)
EXTENDS Stm32, TLAPS

(* The tone is off once the FPGA has been sent what is in the queue: the     *)
(* last message that is not a setting is a tone-off.                         *)
EndsSilent ==
  \/ tone = "off" /\ \A j \in 1..Len(SendFPGA) : SendFPGA[j] = "SETTING"
  \/ \E i \in 1..Len(SendFPGA) :
        /\ SendFPGA[i] = "DTMF_TONE_OFF"
        /\ \A j \in i + 1..Len(SendFPGA) : SendFPGA[j] = "SETTING"

(* No task has a tone to end. *)
NobodySounds ==
  scan = "WAIT_FOR_PRESS" /\ dflt \in {"get", "nav", "tone1"} /\ ~too_high_flag /\ call # "tell"

(* TonesEnd, stated of the messages on their way.                            *)
SilentAfterQueue == NobodySounds => EndsSilent \/ tone_lost

(* Frames are only begun while the server is up, and each ends once.         *)
LateIsBounded ==
  /\ server_up \/ tx = "sending" => late = 0
  /\ QuietAfterDown

Inv == TypeOK /\ SilentAfterQueue /\ LateIsBounded

--------------------------------------------------------------------------------
(* The queue to the FPGA *)

LEMMA TellFPGATyped ==
  ASSUME TypeOK, NEW m \in ToFPGA, TellFPGA(m)
  PROVE  /\ SendFPGA' \in Seq(ToFPGA) /\ Len(SendFPGA') <= SENDFPGA
         /\ tone_lost' \in BOOLEAN /\ tone' = tone
         /\ tone_lost => tone_lost'
<1>1. SENDFPGA \in Nat /\ Len(SendFPGA) \in Nat
  BY ConstantsAssumption DEF TypeOK
<1>2. CASE Len(SendFPGA) < SENDFPGA
  <2>1. SendFPGA' = Append(SendFPGA, m)
    BY <1>2 DEF TellFPGA
  <2>2. SendFPGA' \in Seq(ToFPGA) /\ Len(SendFPGA') = Len(SendFPGA) + 1
    BY <2>1 DEF TypeOK
  <2> QED
    BY <1>1, <1>2, <2>2 DEF TellFPGA, TypeOK
<1>3. CASE ~(Len(SendFPGA) < SENDFPGA)
  BY <1>3 DEF TellFPGA, TypeOK
<1> QED
  BY <1>2, <1>3

\* A tone-off that fits leaves nothing to sound.
LEMMA ToneOffEnds ==
  ASSUME TypeOK, TellFPGA("DTMF_TONE_OFF")
  PROVE  EndsSilent' \/ tone_lost'
<1>1. SENDFPGA \in Nat /\ Len(SendFPGA) \in Nat
  BY ConstantsAssumption DEF TypeOK
<1>2. CASE Len(SendFPGA) < SENDFPGA
  <2>1. SendFPGA' = Append(SendFPGA, "DTMF_TONE_OFF")
    BY <1>2 DEF TellFPGA
  <2>2. /\ Len(SendFPGA') = Len(SendFPGA) + 1
        /\ SendFPGA'[Len(SendFPGA) + 1] = "DTMF_TONE_OFF"
    BY <2>1 DEF TypeOK
  <2> QED
    BY <1>1, <2>2 DEF EndsSilent
<1>3. CASE ~(Len(SendFPGA) < SENDFPGA)
  <2>1. Len(SendFPGA) = SENDFPGA
    BY <1>1, <1>3 DEF TypeOK
  <2> QED
    BY <2>1 DEF TellFPGA
<1> QED
  BY <1>2, <1>3

\* A setting does not get in the way of a tone-off.
LEMMA SettingKeepsSilence ==
  ASSUME TypeOK, TellFPGA("SETTING"), EndsSilent
  PROVE  EndsSilent'
<1>1. SENDFPGA \in Nat /\ Len(SendFPGA) \in Nat
  BY ConstantsAssumption DEF TypeOK
<1>2. CASE Len(SendFPGA) < SENDFPGA
  <2>1. SendFPGA' = Append(SendFPGA, "SETTING") /\ tone' = tone
    BY <1>2 DEF TellFPGA
  <2>2. /\ Len(SendFPGA') = Len(SendFPGA) + 1
        /\ SendFPGA'[Len(SendFPGA) + 1] = "SETTING"
        /\ \A j \in 1..Len(SendFPGA) : SendFPGA'[j] = SendFPGA[j]
    BY <2>1 DEF TypeOK
  <2>3. CASE tone = "off" /\ \A j \in 1..Len(SendFPGA) : SendFPGA[j] = "SETTING"
    <3>1. \A j \in 1..Len(SendFPGA') : SendFPGA'[j] = "SETTING"
      BY <1>1, <2>2, <2>3
    <3> QED
      BY <2>1, <2>3, <3>1 DEF EndsSilent
  <2>4. ASSUME NEW i \in 1..Len(SendFPGA), SendFPGA[i] = "DTMF_TONE_OFF",
               \A j \in i + 1..Len(SendFPGA) : SendFPGA[j] = "SETTING"
        PROVE  EndsSilent'
    <3>1. i \in 1..Len(SendFPGA') /\ SendFPGA'[i] = "DTMF_TONE_OFF"
      BY <1>1, <2>2, <2>4
    <3>2. \A j \in i + 1..Len(SendFPGA') : SendFPGA'[j] = "SETTING"
      BY <1>1, <2>2, <2>4
    <3> QED
      BY <3>1, <3>2 DEF EndsSilent
  <2> QED
    BY <2>3, <2>4 DEF EndsSilent
<1>3. CASE ~(Len(SendFPGA) < SENDFPGA)
  BY <1>3 DEF TellFPGA, EndsSilent
<1> QED
  BY <1>2, <1>3

\* What StartSendFPGA takes is the first message.
LEMMA SendingKeepsSilence ==
  ASSUME TypeOK, SendToFPGA, EndsSilent
  PROVE  EndsSilent'
<1>1. /\ SendFPGA \in Seq(ToFPGA) /\ SendFPGA # <<>>
      /\ SendFPGA' = Tail(SendFPGA)
  BY DEF SendToFPGA, TypeOK
<1>2. /\ Len(SendFPGA) \in Nat \ {0} /\ Len(SendFPGA') = Len(SendFPGA) - 1
      /\ \A j \in 1..Len(SendFPGA') : SendFPGA'[j] = SendFPGA[j + 1]
      /\ Head(SendFPGA) = SendFPGA[1]
  BY <1>1
<1>3. CASE tone = "off" /\ \A j \in 1..Len(SendFPGA) : SendFPGA[j] = "SETTING"
  <2>1. Head(SendFPGA) = "SETTING"
    BY <1>2, <1>3
  <2>2. tone' = "off"
    BY <1>3, <2>1 DEF SendToFPGA
  <2>3. \A j \in 1..Len(SendFPGA') : SendFPGA'[j] = "SETTING"
    BY <1>2, <1>3
  <2> QED
    BY <2>2, <2>3 DEF EndsSilent
<1>4. ASSUME NEW i \in 1..Len(SendFPGA), SendFPGA[i] = "DTMF_TONE_OFF",
             \A j \in i + 1..Len(SendFPGA) : SendFPGA[j] = "SETTING"
      PROVE  EndsSilent'
  <2>1. CASE i = 1
    <3>1. tone' = "off"
      BY <1>2, <1>4, <2>1 DEF SendToFPGA
    <3>2. \A j \in 1..Len(SendFPGA') : SendFPGA'[j] = "SETTING"
      BY <1>2, <1>4, <2>1
    <3> QED
      BY <3>1, <3>2 DEF EndsSilent
  <2>2. CASE i # 1
    <3>1. i - 1 \in 1..Len(SendFPGA') /\ SendFPGA'[i - 1] = "DTMF_TONE_OFF"
      BY <1>2, <1>4, <2>2
    <3>2. \A j \in (i - 1) + 1..Len(SendFPGA') : SendFPGA'[j] = "SETTING"
      BY <1>2, <1>4, <2>2
    <3> QED
      BY <3>1, <3>2 DEF EndsSilent
  <2> QED
    BY <2>1, <2>2
<1> QED
  BY <1>3, <1>4 DEF EndsSilent

--------------------------------------------------------------------------------
(* The steps *)

\* The other two queues.
LEMMA Plus1Fits ==
  ASSUME NEW q \in Nat, NEW size \in Nat, q <= size
  PROVE  Plus1(q, size) \in 0..size
BY DEF Plus1

LEMMA TypeStep ==
  ASSUME TypeOK, [Next]_vars
  PROVE  TypeOK'
<1> DEFINE Q == SendFPGA' \in Seq(ToFPGA) /\ Len(SendFPGA') <= SENDFPGA
<1>1. \A m \in ToFPGA : TellFPGA(m) => Q /\ tone_lost' \in BOOLEAN /\ tone' = tone
  BY TellFPGATyped
<1>2. UNCHANGED fpga => Q /\ tone_lost' \in BOOLEAN /\ tone' = tone
  BY DEF fpga, TypeOK
<1>3. Tell \/ UNCHANGED Send7200 => Send7200' \in 0..SEND7200
  <2>1. SEND7200 \in Nat /\ Send7200 \in Nat /\ Send7200 <= SEND7200
    BY ConstantsAssumption DEF TypeOK
  <2> QED
    BY <2>1, Plus1Fits DEF Tell
<1>4. Plus1(keypressed, KEYPRESSED) \in 0..KEYPRESSED
  <2>1. KEYPRESSED \in Nat /\ keypressed \in Nat /\ keypressed <= KEYPRESSED
    BY ConstantsAssumption DEF TypeOK
  <2> QED
    BY <2>1, Plus1Fits
<1>5. UNCHANGED raw_data \/ raw_data' \in Temp => raw_data' \in Temp
  BY DEF TypeOK
<1> HIDE DEF Q
<1> USE DEF TypeOK, control, temp, keypad, link
<1>6. CASE Press
  BY <1>1, <1>6 DEF Press, ToFPGA, Q
<1>7. CASE Release
  BY <1>2, <1>4, <1>7 DEF Release, Q
<1>8. CASE ReleaseToneOff
  BY <1>1, <1>8 DEF ReleaseToneOff, ToFPGA, Q
<1>9. CASE GetKey
  <2>1. keypressed' \in 0..KEYPRESSED
    BY <1>9, ConstantsAssumption DEF GetKey
  <2>2. Q /\ tone_lost' \in BOOLEAN /\ tone' = tone
    BY <1>2, <1>9 DEF GetKey
  <2>3. Send7200' \in 0..SEND7200
    BY <1>3, <1>9 DEF GetKey
  <2> QED
    BY <1>9, <2>1, <2>2, <2>3 DEF GetKey, Q
<1>10. CASE Beep
  BY <1>1, <1>10 DEF Beep, ToFPGA, Q
<1>11. CASE ReadTemp
  BY <1>2, <1>3, <1>11 DEF ReadTemp, Q
<1>12. CASE ReadIndoor
  BY <1>2, <1>3, <1>12 DEF ReadIndoor, Q
<1>13. CASE Alarm
  <2>1. Q /\ tone_lost' \in BOOLEAN /\ tone' = tone
    BY <1>1, <1>2, <1>13 DEF Alarm, ToFPGA
  <2> QED
    BY <1>13, <2>1 DEF Alarm, Q
<1>14. CASE TellTooHigh
  BY <1>2, <1>3, <1>14 DEF TellTooHigh, Q
<1>15. CASE Recv7200
  <2>1. Q /\ tone_lost' \in BOOLEAN /\ tone' = tone
    BY <1>1, <1>2, <1>15 DEF Recv7200, ToFPGA
  <2>2. Send7200' \in 0..SEND7200
    BY <1>3, <1>15 DEF Recv7200
  <2>3. server_up' \in BOOLEAN /\ engine_on' \in BOOLEAN /\ fan_on' \in BOOLEAN
    BY <1>15 DEF Recv7200
  <2>4. late' \in Nat /\ raw_data' \in Temp
    BY <1>5, <1>15 DEF Recv7200
  <2>5. UNCHANGED <<keypad, too_high_flag, call, rx, tx>>
    BY <1>15 DEF Recv7200
  <2> QED
    BY <2>1, <2>2, <2>3, <2>4, <2>5 DEF Q
<1>16. CASE RecvFPGA
  BY <1>2, <1>3, <1>16 DEF RecvFPGA, Q
<1>17. CASE SendToFPGA
  <2>1. SendFPGA' \in Seq(ToFPGA) /\ Len(SendFPGA') <= SENDFPGA /\ Head(SendFPGA) \in ToFPGA
    BY <1>17, ConstantsAssumption DEF SendToFPGA
  <2>2. tone' \in {"off", "dtmf", "special"}
    BY <1>17, <2>1 DEF SendToFPGA, ToFPGA
  <2> QED
    BY <1>17, <2>1, <2>2 DEF SendToFPGA
<1>18. CASE Navigate
  BY <1>2, <1>3, <1>18 DEF Navigate, Q
<1>19. CASE Take
  BY <1>2, <1>19, ConstantsAssumption DEF Take, Q
<1>20. CASE Transmit
  BY <1>2, <1>20 DEF Transmit, Q
<1>21. CASE FanOn
  BY <1>2, <1>3, <1>21 DEF FanOn, SwitchFan, Q
<1>22. CASE FanOff
  BY <1>2, <1>3, <1>22 DEF FanOff, SwitchFan, Q
<1>23. CASE UNCHANGED vars
  BY <1>2, <1>23 DEF vars, Q
<1> QED
  BY <1>6, <1>7, <1>8, <1>9, <1>10, <1>11, <1>12, <1>13, <1>14, <1>15, <1>16, <1>17,
     <1>18, <1>19, <1>20, <1>21, <1>22, <1>23 DEF Next, Callback01

\* A task that stops sounding says so last; the other messages are settings.
LEMMA SilenceStep ==
  ASSUME TypeOK, SilentAfterQueue, [Next]_vars
  PROVE  SilentAfterQueue'
<1>1. TellFPGA("DTMF_TONE_OFF") => EndsSilent' \/ tone_lost'
  BY ToneOffEnds
<1>2. TellFPGA("SETTING") /\ EndsSilent => EndsSilent'
  BY SettingKeepsSilence
<1>3. UNCHANGED fpga => (EndsSilent' <=> EndsSilent) /\ tone_lost' = tone_lost
  BY DEF fpga, EndsSilent
<1>4. \A m \in ToFPGA : TellFPGA(m) /\ tone_lost => tone_lost'
  BY TellFPGATyped
<1> USE DEF SilentAfterQueue, NobodySounds, temp, keypad
<1>5. CASE Press
  BY <1>5 DEF Press
<1>6. CASE Release
  BY <1>6 DEF Release
<1>7. CASE ReleaseToneOff
  BY <1>1, <1>7 DEF ReleaseToneOff
<1>8. CASE GetKey
  BY <1>3, <1>8 DEF GetKey
<1>9. CASE Beep
  BY <1>1, <1>9 DEF Beep
<1>10. CASE ReadTemp
  BY <1>3, <1>10 DEF ReadTemp
<1>11. CASE ReadIndoor
  BY <1>3, <1>11 DEF ReadIndoor
<1>12. CASE Alarm
  BY <1>1, <1>3, <1>12 DEF Alarm
<1>13. CASE TellTooHigh
  BY <1>13 DEF TellTooHigh
<1>14. CASE Recv7200
  <2>1. UNCHANGED fpga \/ TellFPGA("SETTING")
    BY <1>14 DEF Recv7200
  <2>2. EndsSilent \/ tone_lost => EndsSilent' \/ tone_lost'
    BY <1>2, <1>3, <1>4, <2>1 DEF ToFPGA
  <2>3. UNCHANGED <<keypad, too_high_flag, call>>
    BY <1>14 DEF Recv7200
  <2> QED
    BY <2>2, <2>3
<1>15. CASE RecvFPGA
  BY <1>3, <1>15 DEF RecvFPGA
<1>16. CASE SendToFPGA
  <2>1. EndsSilent => EndsSilent'
    BY <1>16, SendingKeepsSilence
  <2> QED
    BY <1>16, <2>1 DEF SendToFPGA
<1>17. CASE Navigate
  BY <1>3, <1>17 DEF Navigate
<1>18. CASE Take
  BY <1>3, <1>18 DEF Take
<1>19. CASE Transmit
  BY <1>3, <1>19 DEF Transmit
<1>20. CASE FanOn
  BY <1>3, <1>20 DEF FanOn
<1>21. CASE FanOff
  BY <1>3, <1>21 DEF FanOff
<1>22. CASE UNCHANGED vars
  BY <1>3, <1>22 DEF vars
<1> QED
  BY <1>5, <1>6, <1>7, <1>8, <1>9, <1>10, <1>11, <1>12, <1>13, <1>14, <1>15, <1>16, <1>17,
     <1>18, <1>19, <1>20, <1>21, <1>22 DEF Next, Callback01

LEMMA LateStep ==
  ASSUME TypeOK, LateIsBounded, [Next]_vars
  PROVE  LateIsBounded'
<1> USE DEF LateIsBounded, QuietAfterDown, TypeOK, control, link
<1>1. CASE Recv7200
  BY <1>1 DEF Recv7200
<1>2. CASE RecvFPGA
  BY <1>2 DEF RecvFPGA
<1>3. CASE Take
  BY <1>3 DEF Take
<1>4. CASE Transmit
  BY <1>4 DEF Transmit
<1>5. CASE UNCHANGED <<control, link>>
  BY <1>5
<1>6. CASE ~(Recv7200 \/ RecvFPGA \/ Take \/ Transmit)
  BY <1>5, <1>6 DEF Next, Callback01, Press, Release, ReleaseToneOff, GetKey, Navigate, Beep,
                    ReadTemp, ReadIndoor, Alarm, TellTooHigh, FanOn, FanOff, SendToFPGA, vars
<1> QED
  BY <1>1, <1>2, <1>3, <1>4, <1>6

LEMMA Invariance == Spec => []Inv
<1>1. Init => Inv
  <2> SUFFICES ASSUME Init PROVE Inv
    OBVIOUS
  <2>1. SendFPGA \in Seq(ToFPGA) /\ Len(SendFPGA) = 0
    BY DEF Init
  <2>2. TypeOK
    <3>1. KEYPRESSED \in Nat /\ SEND7200 \in Nat /\ SENDFPGA \in Nat
      BY ConstantsAssumption
    <3>2. 0 \in 0..KEYPRESSED /\ 0 \in 0..SEND7200 /\ Len(SendFPGA) <= SENDFPGA
      BY <2>1, <3>1
    <3>3. {server_up, engine_on, fan_on, too_high_flag, tone_lost} \subseteq BOOLEAN
      BY DEF Init
    <3> QED
      BY <2>1, <3>1, <3>2, <3>3, ConstantsAssumption DEF Init, TypeOK
  <2>3. EndsSilent
    BY <2>1 DEF Init, EndsSilent
  <2>4. LateIsBounded
    BY DEF Init, LateIsBounded, QuietAfterDown
  <2> QED
    BY <2>2, <2>3, <2>4 DEF Inv, SilentAfterQueue
<1>2. Inv /\ [Next]_vars => Inv'
  BY TypeStep, SilenceStep, LateStep DEF Inv
<1> QED
  BY <1>1, <1>2, PTL DEF Spec

--------------------------------------------------------------------------------

(* Types, and no queue is longer than it was created.                        *)
THEOREM TypeCorrect == Spec => []TypeOK
<1>1. Inv => TypeOK
  BY DEF Inv
<1> QED
  BY <1>1, Invariance, PTL

(* When keys, key task and alarm have nothing to end any more and the queue  *)
(* is empty, the FPGA makes no tone, unless a full queue lost a message.     *)
THEOREM TonesAreEnded == Spec => []TonesEnd
<1>1. Inv => TonesEnd
  BY DEF Inv, SilentAfterQueue, NobodySounds, EndsSilent, TonesEnd
<1> QED
  BY <1>1, Invariance, PTL

(* At most one frame ends after SERVER_DOWN, and none is begun.              *)
THEOREM QuietOnceDown == Spec => []QuietAfterDown
<1>1. Inv => QuietAfterDown
  BY DEF Inv, LateIsBounded
<1> QED
  BY <1>1, Invariance, PTL
================================================================================
