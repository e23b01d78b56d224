-------------------------------- MODULE Wiring --------------------------------
(***************************************************************************)
(* The inputs and outputs of the truck by name: enum input_types and the   *)
(* members of enum output_types (mytypes.h) that have a handler.           *)
(***************************************************************************)
EXTENDS RealBanks

HEADLAMP_INPUT       == 0
RUNNING_LIGHTS_INPUT == 1
LEFTBLINKER_INPUT    == 2
RIGHTBLINKER_INPUT   == 3
BRIGHTS_INPUT        == 4
STARTER_INPUT        == 5
COOLINGFAN_INPUT     == 6
ESTOP_INPUT          == 7
BRAKE_INPUT          == 8

STARTER       == 0
ACCON         == 1
FUELPUMP      == 2
COOLINGFAN    == 3
LHEADLAMP     == 4
RHEADLAMP     == 5
RUNNINGLIGHTS == 6
LBRIGHTS      == 16
RBRIGHTS      == 17
WWIPER1       == 21
WWIPER2       == 22
TESTOUTPUT27  == 30

\* A line of an input register, numbered across the registers.
Line(i) == 8 * BankOf(i) + IndexOf(i)
Lines(bank) == {8 * bank + k : k \in Index}
================================================================================
