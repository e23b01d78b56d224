---------------------------- MODULE MCOutputControl ----------------------------
(***************************************************************************)
(* Small instances of OutputControl.  The configuration of the outputs is  *)
(* that of thread_io/odata.csv, with the delays cut down to a few seconds. *)
(***************************************************************************)
EXTENDS OutputControl, TLC

CONSTANTS c1, c2, c3, c4, c5, c6

MCDelay == 2

\* input_port, type and (for timed outputs) a delay, as in odata.csv
Odata(input, type, delay) ==
  [input_port |-> input, polarity |-> 0, type |-> type, time_delay |-> delay]

OdataCsv ==
  [p \in Number |->
     CASE p = STARTER           -> Odata(STARTER_INPUT, 2, MCDelay)
       [] p \in {ACCON, FUELPUMP} -> Odata(ESTOP_INPUT, 4, 0)
       [] p = COOLINGFAN        -> Odata(COOLINGFAN_INPUT, 0, 0)
       [] p \in {LHEADLAMP, RHEADLAMP} -> Odata(HEADLAMP_INPUT, 0, 0)
       [] p = RUNNINGLIGHTS     -> Odata(RUNNING_LIGHTS_INPUT, 0, 0)
       [] p \in {8, 10}         -> Odata(LEFTBLINKER_INPUT, 3, MCDelay)
       [] p \in {9, 11}         -> Odata(RIGHTBLINKER_INPUT, 3, MCDelay)
       [] p \in {12, 13}        -> Odata(BRAKE_INPUT, 0, 0)
       [] p = 14                -> Odata(LEFTBLINKER_INPUT, 2, MCDelay)
       [] p = 15                -> Odata(RIGHTBLINKER_INPUT, 2, MCDelay)
       [] p \in {LBRIGHTS, RBRIGHTS} -> Odata(BRIGHTS_INPUT, 0, 0)
       [] OTHER                 -> Odata(41, 0, 0)]

MCodata == [p \in Output |-> OdataCsv[p]]

ChunkSymmetry == Permutations(Chunk)
================================================================================
