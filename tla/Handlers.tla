-------------------------------- MODULE Handlers --------------------------------
(***************************************************************************)
(* The handlers of thread_io/tasks.c as sequences of steps, one step per   *)
(* access to something shared between threads.  A step is a record: what   *)
(* it does (op) and its operands (a, b).  OutputControl executes them.     *)
(* Messages to the LCD, the STM32 and the client change nothing here and   *)
(* are left out; outputs that are not in use are skipped.                  *)
(***************************************************************************)
EXTENDS Integers, Sequences, SequencesExt, Wiring

CONSTANTS Output,      \* the outputs in use
          odata,       \* [Output -> input_port, polarity, type, time_delay]
          actual_lights_on_delay

ASSUME HandlerAssumption ==
  /\ Output \subseteq Number
  /\ odata \in [Output -> [input_port : 0..41, polarity : {0, 1},
                           type : 0..4, time_delay : 0..255]]
  /\ \A p \in Output : odata[p].type \in {2, 3} => odata[p].time_delay > 0
  /\ actual_lights_on_delay \in Nat

Op(op, a, b) == [op |-> op, a |-> a, b |-> b]

Find(p)       == Op("find", p, 0)        \* ollist_find_data(p, &otp, &oll)
Insert(p)     == Op("insert", p, 0)      \* ollist_insert_data(p, &oll, otp)
InsertOtp     == Op("insert_otp", 0, 0)  \* ollist_insert_data(otp->port, &oll, otp)
Put(f, v)     == Op("put", f, v)         \* otp->f = v
ToggleOtp     == Op("toggle", 0, 0)      \* TOGGLE_OTP
StartTimer    == Op("start_timer", 0, 0) \* otp->time_left = otp->time_delay
Out(p, v)     == Op("out", p, v)         \* change_output(p, v)
OutOtp(v)     == Op("out_otp", 0, v)     \* change_output(otp->port, v)
OutOnoff      == Op("out_onoff", 0, 0)   \* change_output(otp->port, otp->onoff)
SetOutput(v)  == Op("set_output", 0, v)  \* set_output(otp, v)
IfReset0(ops) == Op("if_reset0", 0, ops) \* if(otp->reset == 0) { ops }
Input(i, v)   == Op("change_input", i, v)
Msg(c)        == Op("msg", c, 0)         \* add_msg_queue(c)
Assign(g, v)  == Op("assign", g, v)      \* a global = v
Sleep         == Op("sleep", 0, 0)       \* usleep
Exit          == Op("exit", 0, 0)        \* the task has returned

InUse(p, ops) == IF p \in Output THEN ops ELSE <<>>

\* for(i = 0;i < 40;i++) body[i]
ForOutputs(body) ==
  LET pass[n \in 0..40] == IF n = 0 THEN <<>> ELSE pass[n - 1] \o body[n - 1]
  IN  pass[40]

--------------------------------------------------------------------------------
(* set_output: what it goes on to do once it has looked at the type and the  *)
(* reset field of the record.                                                *)

SetOutputBranch(cfg, reset, onoff) ==
  CASE cfg.type = 0 ->
         <<Put("onoff", IF cfg.polarity = 1 THEN 1 - onoff ELSE onoff),
           OutOnoff, InsertOtp>>
    [] cfg.type = 1 /\ reset = 0 -> <<Put("reset", 1), ToggleOtp, OutOnoff, InsertOtp>>
    [] cfg.type = 1 /\ reset = 1 -> <<Put("reset", 0)>>
    [] cfg.type \in {2, 3} /\ reset = 0 ->
         <<Put("reset", 1), StartTimer, Put("onoff", 1), OutOtp(1), InsertOtp>>
    [] cfg.type = 4 /\ reset = 0 ->
         <<Put("reset", 1), Put("onoff", 0), OutOnoff, InsertOtp, Msg("ESTOP_SIGNAL")>>
    [] cfg.type = 4 /\ reset = 1 -> <<Put("reset", 3)>>
    [] OTHER -> <<>>

\* The loop over ip[] in both monitors: every output assigned to input i.
ServeInput(i, onoff) ==
  ForOutputs([p \in Number |->
    IF p \in Output /\ odata[p].input_port = i THEN <<Find(p), SetOutput(onoff)>> ELSE <<>>])

--------------------------------------------------------------------------------
(* timer_task *)

\* Mutant: the running lights are forgotten.
LightsOff_NoRunning ==
  <<Msg("OFF_LLIGHTS"), Msg("OFF_RLIGHTS"), Msg("OFF_LIGHTS"), Msg("OFF_FAN"), Sleep>>

LightsOff ==
  <<Msg("OFF_LLIGHTS"), Msg("OFF_RLIGHTS"), Msg("OFF_LIGHTS"),
    Msg("OFF_RUNNING_LIGHTS"), Msg("OFF_FAN"), Sleep>>

LightsOn == <<Msg("ON_LIGHTS"), Msg("ON_RUNNING_LIGHTS")>>

\* if(test_xblinkers > 0): 1 becomes 2 and 2 becomes 0, in the same pass
EndBlinkerTest(flag, i) == <<Assign(flag, 0), Input(i, 0)>>

\* The pass over the outputs that looks for timed ones.
TimerPass ==
  ForOutputs([p \in Number |->
    IF p \in Output /\ p < TESTOUTPUT27 THEN <<Find(p), Op("timed", p, 0)>> ELSE <<>>])

\* The body of the if for a timed output in progress.
TimedOutput(p, cfg) ==
  IF cfg.type = 3 THEN <<Op("blink", 0, 0), Op("count", p, 0)>>
                  ELSE <<Op("count", p, 0)>>

\* Mutant: the record keeps its reset field when the time is up.
TimeIsUp_KeepReset(p, cfg) ==
  <<Out(p, 0), Put("onoff", 0), InsertOtp, Op("clear_fake", 1, 0), Op("clear_fake", 2, 0)>>

\* Mutant: the relay is left to the record's onoff, as the commented-out call had it.
TimeIsUp_OutOnoff(p, cfg) ==
  <<OutOnoff, Put("onoff", 0), Put("reset", 0), InsertOtp,
    Op("clear_fake", 1, 0), Op("clear_fake", 2, 0)>>

TimeIsUp(p, cfg) ==
  (IF cfg.type = 3 /\ cfg.time_delay % 2 = 0 THEN <<ToggleOtp>> ELSE <<>>)
  \o <<Out(p, 0), Put("onoff", 0), Put("reset", 0), InsertOtp,
       Op("clear_fake", 1, 0), Op("clear_fake", 2, 0)>>

--------------------------------------------------------------------------------
(* basic_controls_task: one entry per case of its switch. *)

\* The record follows its input.
Follow(p, v) == InUse(p, <<Find(p), Put("onoff", v), Insert(p)>>)
FollowBoth(p, q, v) == Follow(p, v) \o Follow(q, v)

\* Mutant: the records change, the input does not.
ViaInput_NoInput(i, v, follow) == follow

\* ON_x / OFF_x for outputs that follow an input: the input, then the records
ViaInput(i, v, follow) == <<Input(i, v)>> \o follow

Direct(p, v) == InUse(p, <<Find(p), SetOutput(v)>>)

Wipers(v1, v2) ==
  Direct(WWIPER1, v1) \o InUse(WWIPER2, <<Find(WWIPER2), Sleep, SetOutput(v2)>>)

\* sp_cmd_arr, played twice
SpecialCmd ==
  LET L(v) == Direct(LHEADLAMP, v) \o <<Sleep>>
      R(v) == Direct(RHEADLAMP, v) \o <<Sleep>>
      l(v) == Direct(LBRIGHTS, v) \o <<Sleep>>
      r(v) == Direct(RBRIGHTS, v) \o <<Sleep>>
      once == L(1) \o l(1) \o R(1) \o r(1) \o l(0) \o L(0) \o r(0) \o R(0)
              \o R(1) \o r(1) \o L(1) \o l(1) \o l(0) \o L(0) \o r(0) \o R(0)
  IN  once \o once

\* Mutant: ON_FUEL_PUMP without its test of reset.
FuelPumpOn_NoTest ==
  <<Find(FUELPUMP), Out(FUELPUMP, 1), Put("onoff", 1), Insert(FUELPUMP)>>

FuelPumpOn ==
  <<Find(FUELPUMP), IfReset0(<<Out(FUELPUMP, 1), Put("onoff", 1)>>), Insert(FUELPUMP)>>

FuelPumpOff ==
  <<Find(FUELPUMP), IfReset0(<<Out(FUELPUMP, 0), Put("onoff", 0), Insert(FUELPUMP)>>)>>

\* Mutant: the record goes back under the index of the case before.
Acc_WrongIndex(v) == <<Find(ACCON), Insert(FUELPUMP), IfReset0(<<Out(ACCON, v)>>)>>

Acc(v) == <<Find(ACCON), Insert(ACCON), IfReset0(<<Out(ACCON, v)>>)>>

Energize(p) ==
  InUse(p, <<Find(p), Put("onoff", 1), Put("reset", 0), Out(p, 1), InsertOtp>>)

\* Mutant: the edge of the starter's input has no time to be seen.
StartSeq_NoSleep ==
  Energize(ACCON) \o Energize(FUELPUMP)
  \o InUse(STARTER, <<Find(STARTER)>>)
  \o <<Sleep, Input(STARTER_INPUT, 0), Input(STARTER_INPUT, 1),
       Assign("engine_running", 1)>>

StartSeq ==
  Energize(ACCON) \o Energize(FUELPUMP)
  \o InUse(STARTER, <<Find(STARTER)>>)
  \o <<Sleep, Input(STARTER_INPUT, 0), Sleep, Input(STARTER_INPUT, 1),
       Assign("engine_running", 1)>>

Cut(p) == InUse(p, <<Out(p, 0), Find(p), Put("onoff", 0), InsertOtp>>)

Shutdown ==
  <<Assign("run_time", 0), Assign("engine_running", 0)>>
  \o Cut(ACCON) \o <<Sleep>> \o Cut(FUELPUMP)
  \o <<Assign("lights_on_countdown", actual_lights_on_delay)>>

EndProgram(n) == <<Assign("shutdown_all", 1), Assign("reboot_on_exit", n)>>

Program(cmd) ==
  CASE cmd = "ENABLE_START"       -> <<Input(STARTER_INPUT, 1)>>
    [] cmd = "STARTER_OFF"        -> <<Input(STARTER_INPUT, 0)>>
    [] cmd = "ON_ACC"             -> InUse(ACCON, Acc(1))
    [] cmd = "OFF_ACC"            -> InUse(ACCON, Acc(0))
    [] cmd = "ON_FUEL_PUMP"       -> InUse(FUELPUMP, FuelPumpOn)
    [] cmd = "OFF_FUEL_PUMP"      -> InUse(FUELPUMP, FuelPumpOff)
    [] cmd = "ON_FAN"             -> ViaInput(COOLINGFAN_INPUT, 1, Follow(COOLINGFAN, 1))
    [] cmd = "OFF_FAN"            -> ViaInput(COOLINGFAN_INPUT, 0, Follow(COOLINGFAN, 0))
    [] cmd = "ON_LIGHTS"          -> ViaInput(HEADLAMP_INPUT, 1, FollowBoth(LHEADLAMP, RHEADLAMP, 1))
    [] cmd = "OFF_LIGHTS"         -> ViaInput(HEADLAMP_INPUT, 0, FollowBoth(LHEADLAMP, RHEADLAMP, 0))
    [] cmd = "ON_LLIGHTS"         -> Direct(LHEADLAMP, 1)
    [] cmd = "OFF_LLIGHTS"        -> Direct(LHEADLAMP, 0)
    [] cmd = "ON_RLIGHTS"         -> Direct(RHEADLAMP, 1)
    [] cmd = "OFF_RLIGHTS"        -> Direct(RHEADLAMP, 0)
    [] cmd = "ON_RUNNING_LIGHTS"  -> ViaInput(RUNNING_LIGHTS_INPUT, 1, Follow(RUNNINGLIGHTS, 1))
    [] cmd = "OFF_RUNNING_LIGHTS" -> ViaInput(RUNNING_LIGHTS_INPUT, 0, Follow(RUNNINGLIGHTS, 0))
    [] cmd = "SPECIAL_CMD"        -> SpecialCmd
    [] cmd = "ON_BRIGHTS"         -> ViaInput(BRIGHTS_INPUT, 1, FollowBoth(LBRIGHTS, RBRIGHTS, 1))
    [] cmd = "OFF_BRIGHTS"        -> ViaInput(BRIGHTS_INPUT, 0, FollowBoth(LBRIGHTS, RBRIGHTS, 0))
    [] cmd = "ON_RBRIGHTS"        -> Direct(RBRIGHTS, 1)
    [] cmd = "OFF_RBRIGHTS"       -> Direct(RBRIGHTS, 0)
    [] cmd = "ON_LBRIGHTS"        -> Direct(LBRIGHTS, 1)
    [] cmd = "OFF_LBRIGHTS"       -> Direct(LBRIGHTS, 0)
    [] cmd = "TEST_LEFT_BLINKER"  -> <<Input(LEFTBLINKER_INPUT, 1), Assign("test_lblinkers", 1)>>
    [] cmd = "TEST_RIGHT_BLINKER" -> <<Input(RIGHTBLINKER_INPUT, 1), Assign("test_rblinkers", 1)>>
    [] cmd = "ON_BRAKES"          -> <<Input(BRAKE_INPUT, 1)>>
    [] cmd = "OFF_BRAKES"         -> <<Input(BRAKE_INPUT, 0)>>
    [] cmd = "WIPER1"             -> Wipers(1, 0)
    [] cmd = "WIPER2"             -> Wipers(1, 1)
    [] cmd = "WIPER_OFF"          -> Wipers(0, 0)
    [] cmd = "START_SEQ"          -> StartSeq
    [] cmd = "SHUTDOWN"           -> Shutdown
    [] cmd = "SHUTDOWN_IOBOX"     -> <<Sleep>> \o EndProgram(3)
    [] cmd = "REBOOT_IOBOX"       -> <<Sleep>> \o EndProgram(2)
    [] cmd = "UPLOAD_NEW"         -> EndProgram(4)
    [] cmd = "UPLOAD_NEW_PARAM"   -> EndProgram(5)
    [] cmd = "SHELL_AND_RENAME"   -> EndProgram(6)
    [] cmd = "UPLOAD_OTHER"       -> EndProgram(1)
    [] OTHER                      -> <<>>     \* ESTOP_SIGNAL among them
================================================================================
