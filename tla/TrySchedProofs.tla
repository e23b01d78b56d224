---------------------------- MODULE TrySchedProofs ----------------------------
(***************************************************************************)
(* What the start-up script keeps intact, whatever is uploaded, whenever   *)
(* sched dies and whenever the power goes, for any number of boots.        *)
(***************************************************************************)
EXTENDS TrySched, TLAPS

(* Whatever may become sched is a program, or is still being copied; sched2    *)
(* outside the part of the script in which it holds an unjudged download.     *)
ProgramsKept ==
  /\ file["root_sched"] \in {"none", "prog"} \/ copying = "root_sched" \/ cut
  /\ SchedIsAProgram
  /\ pc \in Untested \/ file["sched2"] \in {"none", "prog"} \/ copying = "sched2" \/ cut \/ missed
  /\ pc = "install_sched" => file["sched2"] = "prog" \/ cut \/ missed

(* sched2 is not being copied while the script puts a download there, nor     *)
(* when it is told to run it.                                                 *)
CopiedAlone ==
  /\ copying = "sched2" => pc \notin Untested \cup {"server", "install_sched", "chmod_install"}
  /\ copying = "sched2" /\ pc = "exited" => OUT \notin 4..6

(* What replaces param.conf is a file of parameters, and what WriteParams     *)
(* writes comes from parameters that were loaded.                             *)
ParametersKept ==
  /\ ParamConfHoldsParameters
  /\ file["sched2"] # "blank"
  /\ pc = "install_params" => file["sched2"] = "params"

(* sched may be executed, except between mv and chmod.                        *)
PermissionKept ==
  pc \in {"chmod_boot", "chmod_install"} \/ "sched" \in exec \/ unmarked

Inv == TypeOK /\ ProgramsKept /\ CopiedAlone /\ ParametersKept /\ PermissionKept

--------------------------------------------------------------------------------

LEMMA InitInv == Init => Inv
BY DEF Init, Inv, TypeOK, ProgramsKept, CopiedAlone, ParametersKept, SchedIsAProgram,
       PermissionKept, ParamConfHoldsParameters, Untested, File, Content, Code,
       Crashed, Other, Pc

\* mv gives the target the source's content, and its incomplete copy if there is
\* one.
LEMMA MvMoves ==
  ASSUME Inv, NEW from \in {"root_sched", "sched2"}, NEW to \in {"sched", "param_conf"},
         Mv(from, to), to = "param_conf" => copying # from
  PROVE  /\ file' \in [File -> Content] /\ exec' \subseteq File
         /\ file'[to] = file[from] /\ file'[from] = "none"
         /\ \A f \in File \ {from, to} : file'[f] = file[f]
         /\ copying' \in {"no", "root_sched", "sched2", "sched"}
         /\ copying' # "no" => file'[copying'] = "torn"
         /\ copying' = IF copying = from THEN to ELSE IF copying = to THEN "no" ELSE copying
<1>0. from \in File /\ to \in File /\ from # to /\ File = {"root_sched", "sched", "sched2", "param_conf"}
  BY DEF File
<1>1. file' = [file EXCEPT ![to] = file[from], ![from] = "none"]
  BY DEF Mv
<1>2. "none" \in Content
  BY DEF Content
<1>3. file' \in [File -> Content]
  BY <1>0, <1>1, <1>2 DEF Inv, TypeOK
<1>4. /\ file'[to] = file[from] /\ file'[from] = "none"
      /\ \A f \in File \ {from, to} : file'[f] = file[f]
  BY <1>0, <1>1 DEF Inv, TypeOK
<1>5. exec' \subseteq File
  BY <1>0 DEF Mv, Inv, TypeOK
<1>6. copying' = IF copying = from THEN to ELSE IF copying = to THEN "no" ELSE copying
  BY <1>0 DEF Mv
<1>7. copying \in {"no", "root_sched", "sched2", "sched"} /\ (copying # "no" => file[copying] = "torn")
  BY DEF Inv, TypeOK
<1>8. copying' \in {"no", "root_sched", "sched2", "sched"}
  BY <1>6, <1>7
<1>9. copying' # "no" => file'[copying'] = "torn"
  BY <1>0, <1>4, <1>6, <1>7
<1> QED
  BY <1>3, <1>4, <1>5, <1>6, <1>8, <1>9

\* Every step of the script keeps the invariant.
LEMMA ScriptInv ==
  ASSUME Inv, Script
  PROVE  Inv'
<1> USE DEF Inv, TypeOK, ProgramsKept, CopiedAlone, ParametersKept, SchedIsAProgram,
            PermissionKept, ParamConfHoldsParameters, Untested, Goto, sched_vars, history
<1>0. File = {"root_sched", "sched", "sched2", "param_conf"}
  BY DEF File
<1>1. CASE Boot
  <2>1. CASE \A f \in {"root_sched", "sched2"} : file[f] = "none"
    <3>a. TypeOK'
      BY <1>1, <2>1 DEF Boot, Pc
    <3>b. (ProgramsKept /\ CopiedAlone)'
      BY <1>1, <2>1 DEF Boot
    <3>c. (ParametersKept /\ PermissionKept)'
      BY <1>1, <2>1 DEF Boot
    <3> HIDE DEF TypeOK, ProgramsKept, CopiedAlone, ParametersKept, PermissionKept
    <3> QED
      BY <3>a, <3>b, <3>c
  <2>2. ASSUME NEW f \in {"root_sched", "sched2"}, file[f] # "none", InstallFound(f),
               pc = "boot", pc' = "chmod_boot",
               UNCHANGED <<OUT, rerun, sched_vars, spoiled, missed, unmarked>>
        PROVE  Inv'
    <3>1. /\ file' \in [File -> Content] /\ exec' \subseteq File
          /\ file'["sched"] = file[f] /\ file'[f] = "none"
          /\ \A g \in File \ {f, "sched"} : file'[g] = file[g]
          /\ copying' \in {"no", "root_sched", "sched2", "sched"}
          /\ copying' # "no" => file'[copying'] = "torn"
          /\ copying' = IF copying = f THEN "sched"
                        ELSE IF copying = "sched" THEN "no" ELSE copying
      BY <2>2, MvMoves DEF InstallFound
    <3>2. cut' = (cut \/ copying = f)
      BY <2>2 DEF InstallFound
    <3>3. file'["param_conf"] = file["param_conf"]
      BY <1>0, <3>1
    <3>4. CASE f = "root_sched"
      <4>1. file'["sched2"] = file["sched2"]
        BY <1>0, <3>1, <3>4
      <4> QED
        <5>a. TypeOK'
          BY <2>2, <3>1, <3>2, <3>3, <3>4, <4>1 DEF Pc
        <5>b. (ProgramsKept /\ CopiedAlone)'
          BY <2>2, <3>1, <3>2, <3>3, <3>4, <4>1
        <5>c. (ParametersKept /\ PermissionKept)'
          BY <2>2, <3>1, <3>2, <3>3, <3>4, <4>1
        <5> HIDE DEF TypeOK, ProgramsKept, CopiedAlone, ParametersKept, PermissionKept
        <5> QED
          BY <5>a, <5>b, <5>c
    <3>5. CASE f = "sched2"
      <4>1. file'["root_sched"] = file["root_sched"]
        BY <1>0, <3>1, <3>5
      <4> QED
        <5>a. TypeOK'
          BY <2>2, <3>1, <3>2, <3>3, <3>5, <4>1 DEF Pc
        <5>b. (ProgramsKept /\ CopiedAlone)'
          BY <2>2, <3>1, <3>2, <3>3, <3>5, <4>1
        <5>c. (ParametersKept /\ PermissionKept)'
          BY <2>2, <3>1, <3>2, <3>3, <3>5, <4>1
        <5> HIDE DEF TypeOK, ProgramsKept, CopiedAlone, ParametersKept, PermissionKept
        <5> QED
          BY <5>a, <5>b, <5>c
    <3> QED
      BY <3>4, <3>5
  <2> QED
    BY <1>1, <2>1, <2>2 DEF Boot
<1>2. CASE Chmod
  BY <1>2 DEF Chmod, Pc, File
<1>3. CASE CannotRun
  <2>1. OUT' \in Code \cup Crashed \cup {0, 10, 11, Other}
    BY <1>3 DEF CannotRun
  <2>2. pc' = "exited" => OUT' \notin 4..6
    BY <1>3 DEF CannotRun, Crashed, Other
  <2> QED
    BY <1>3, <2>1, <2>2 DEF CannotRun, Pc
<1>4. CASE StartSched
  BY <1>4 DEF StartSched, Pc
<1>5. CASE Dispatch
  <2>1. CASE OUT = 6 /\ file["sched2"] # "none" /\ RunSched2
    <3>1. /\ file' \in [File -> Content] /\ exec' \subseteq File
          /\ file'["sched"] = file["sched2"] /\ file'["sched2"] = "none"
          /\ \A g \in File \ {"sched2", "sched"} : file'[g] = file[g]
          /\ copying' \in {"no", "root_sched", "sched2", "sched"}
          /\ copying' # "no" => file'[copying'] = "torn"
          /\ copying' = IF copying = "sched2" THEN "sched"
                        ELSE IF copying = "sched" THEN "no" ELSE copying
      BY <2>1, MvMoves DEF RunSched2
    <3>2. file'["root_sched"] = file["root_sched"] /\ file'["param_conf"] = file["param_conf"]
      BY <1>0, <3>1
    <3>3. unmarked' = (unmarked \/ "sched2" \notin exec) /\ pc' = "run" /\ rerun' = TRUE
      BY <2>1 DEF RunSched2
    <3>4. "sched2" \in exec => "sched" \in exec'
      BY <2>1 DEF RunSched2, Mv
    <3>5. copying # "sched2"
      BY <1>5, <2>1 DEF Dispatch
    <3> QED
      BY <1>5, <3>1, <3>2, <3>3, <3>4, <3>5 DEF Dispatch, Pc
  <2>2. CASE ~(OUT = 6 /\ file["sched2"] # "none" /\ RunSched2)
    <3>1. /\ pc' \in {"shell", "rebooting", "halted"} \/ (pc' = "server" /\ OUT \in {4, 5})
          /\ pc = "exited"
          /\ UNCHANGED <<OUT, rerun, file, exec, sched_vars, copying, history>>
      BY <1>5, <2>2 DEF Dispatch
    <3>2. copying = "sched2" => pc' # "server"
      BY <3>1
    <3>a. TypeOK'
      <4> HIDE DEF ProgramsKept, CopiedAlone, ParametersKept, PermissionKept
      <4> QED
        BY <3>1 DEF Pc
    <3>b. (ProgramsKept /\ CopiedAlone)'
      BY <3>1, <3>2
    <3>c. (ParametersKept /\ PermissionKept)'
      BY <3>1
    <3> HIDE DEF TypeOK, ProgramsKept, CopiedAlone, ParametersKept, PermissionKept
    <3> QED
      BY <3>a, <3>b, <3>c
  <2> QED
    BY <2>1, <2>2
<1>6. CASE ServerOpens
  BY <1>6 DEF ServerOpens, Pc, File, Content
<1>7. CASE ServerReceives
  BY <1>7 DEF ServerReceives, Pc, File, Content
<1>8. CASE Test
  <2>a. TypeOK'
    BY <1>8 DEF Test, Sched2Returns10, ShowParamsReturns11, Pc
  <2>b. (ProgramsKept /\ CopiedAlone)'
    BY <1>8 DEF Test, Sched2Returns10, ShowParamsReturns11
  <2>c. (ParametersKept /\ PermissionKept)'
    BY <1>8 DEF Test, Sched2Returns10, ShowParamsReturns11
  <2> HIDE DEF TypeOK, ProgramsKept, CopiedAlone, ParametersKept, PermissionKept
  <2> QED
    BY <2>a, <2>b, <2>c
<1>9. CASE InstallSched
  <2>1. /\ file' \in [File -> Content] /\ exec' \subseteq File
        /\ file'["sched"] = file["sched2"] /\ file'["sched2"] = "none"
        /\ \A g \in File \ {"sched2", "sched"} : file'[g] = file[g]
        /\ copying' \in {"no", "root_sched", "sched2", "sched"}
        /\ copying' # "no" => file'[copying'] = "torn"
        /\ copying' = IF copying = "sched2" THEN "sched"
                      ELSE IF copying = "sched" THEN "no" ELSE copying
    BY <1>9, MvMoves DEF InstallSched
  <2>2. file'["root_sched"] = file["root_sched"] /\ file'["param_conf"] = file["param_conf"]
    BY <1>0, <2>1
  <2> QED
    BY <1>9, <2>1, <2>2 DEF InstallSched, Pc
<1>10. CASE InstallParams
  <2>1. copying # "sched2"
    BY <1>10 DEF InstallParams
  <2>2. /\ file' \in [File -> Content] /\ exec' \subseteq File
        /\ file'["param_conf"] = file["sched2"] /\ file'["sched2"] = "none"
        /\ \A g \in File \ {"sched2", "param_conf"} : file'[g] = file[g]
        /\ copying' \in {"no", "root_sched", "sched2", "sched"}
        /\ copying' # "no" => file'[copying'] = "torn"
        /\ copying' = IF copying = "sched2" THEN "param_conf"
                      ELSE IF copying = "param_conf" THEN "no" ELSE copying
    BY <1>10, <2>1, MvMoves DEF InstallParams
  <2>3. file'["root_sched"] = file["root_sched"] /\ file'["sched"] = file["sched"]
    BY <1>0, <2>2
  <2>4. /\ pc = "install_params" /\ pc' = "rebooting"
        /\ UNCHANGED <<OUT, rerun, sched_vars, history>>
    BY <1>10 DEF InstallParams
  <2>5. exec' \cap {"sched"} = exec \cap {"sched"}
    BY <1>10 DEF InstallParams, Mv
  <2>a. TypeOK'
    BY <2>1, <2>2, <2>4 DEF Pc
  <2>b. (ProgramsKept /\ CopiedAlone)'
    BY <2>1, <2>2, <2>3, <2>4
  <2>c. (ParametersKept /\ PermissionKept)'
    BY <2>1, <2>2, <2>3, <2>4, <2>5
  <2> HIDE DEF TypeOK, ProgramsKept, CopiedAlone, ParametersKept, PermissionKept
  <2> QED
    BY <2>a, <2>b, <2>c
<1>11. CASE Discard
  BY <1>11 DEF Discard, Pc, File, Content
<1>12. CASE Reboot
  BY <1>12 DEF Reboot, Pc
<1> QED
  BY <1>1, <1>2, <1>3, <1>4, <1>5, <1>6, <1>7, <1>8, <1>9, <1>10, <1>11, <1>12 DEF Script

\* So does every step of sched, the users and the power.
LEMMA NextInv ==
  ASSUME Inv, [Next]_vars
  PROVE  Inv'
<1> USE DEF Inv, TypeOK, ProgramsKept, CopiedAlone, ParametersKept, SchedIsAProgram,
            PermissionKept, ParamConfHoldsParameters, Untested, Goto, sched_vars, history
<1>1. CASE Script
  BY <1>1, ScriptInv
<1>2. CASE ClientConnects
  BY <1>2 DEF ClientConnects, Pc
<1>3. CASE BeginSave
  BY <1>3 DEF BeginSave, Pc, File, Content
<1>4. CASE EndSave
  <2>1. /\ file' \in [File -> Content] /\ UNCHANGED <<exec, copying, history>>
        /\ file'["param_conf"] = IF ps = "good" THEN "params" ELSE "blank"
        /\ \A f \in {"root_sched", "sched", "sched2"} : file'[f] = file[f]
        /\ pc = "sched"
    BY <1>4 DEF EndSave, File, Content
  <2>2. \/ saving' = "no" /\ UNCHANGED <<pc, OUT, rerun, ps>>
        \/ \E code \in Code : Ended(code)
    BY <1>4 DEF EndSave
  <2>a. TypeOK'
    <3>1. copying' # "no" => file'[copying'] = "torn"
      BY <2>1
    <3>2. CASE saving' = "no" /\ UNCHANGED <<pc, OUT, rerun, ps>>
      BY <2>1, <3>1, <3>2
    <3>3. CASE \E code \in Code : Ended(code)
      BY <2>1, <3>1, <3>3 DEF Ended, Pc
    <3> QED
      BY <2>2, <3>2, <3>3
  <2>b. (ProgramsKept /\ CopiedAlone)'
    BY <2>1, <2>2 DEF Ended
  <2>c. (ParametersKept /\ PermissionKept)'
    BY <2>1, <2>2 DEF Ended
  <2> HIDE DEF TypeOK, ProgramsKept, CopiedAlone, ParametersKept, PermissionKept
  <2> QED
    BY <2>a, <2>b, <2>c
<1>5. CASE Exit
  <2>a. TypeOK'
    BY <1>5 DEF Exit, Ended, Pc, Code
  <2>b. (ProgramsKept /\ CopiedAlone)'
    BY <1>5 DEF Exit, Ended
  <2>c. (ParametersKept /\ PermissionKept)'
    BY <1>5 DEF Exit, Ended
  <2> HIDE DEF TypeOK, ProgramsKept, CopiedAlone, ParametersKept, PermissionKept
  <2> QED
    BY <2>a, <2>b, <2>c
<1>6. CASE Crash
  <2>1. PICK code \in Crashed : Ended(code)
    BY <1>6 DEF Crash
  <2>2. code \notin 4..6
    BY DEF Crashed
  <2>3. /\ OUT' \in Code \cup Crashed \cup {0, 10, 11, Other}
        /\ pc' = "exited" => OUT' \notin 4..6
        /\ pc' \in {"boot", "exited"} /\ rerun' = FALSE /\ saving' = "no" /\ ps' = "bad"
    BY <2>1, <2>2 DEF Ended
  <2> QED
    <3>a. TypeOK'
      BY <1>6, <2>3 DEF Crash, Pc
    <3>b. (ProgramsKept /\ CopiedAlone)'
      BY <1>6, <2>3 DEF Crash
    <3>c. (ParametersKept /\ PermissionKept)'
      BY <1>6, <2>3 DEF Crash
    <3> HIDE DEF TypeOK, ProgramsKept, CopiedAlone, ParametersKept, PermissionKept
    <3> QED
      BY <3>a, <3>b, <3>c
<1>7. CASE BeginCopy
  BY <1>7 DEF BeginCopy, Pc, File, Content
<1>8. CASE EndCopy
  BY <1>8 DEF EndCopy, Pc, File, Content
<1>9. CASE PowerCut
  BY <1>9 DEF PowerCut, Pc
<1>10. CASE PowerOn
  BY <1>10 DEF PowerOn, Pc
<1>11. CASE UNCHANGED vars
  BY <1>11 DEF vars
<1> QED
  BY <1>1, <1>2, <1>3, <1>4, <1>5, <1>6, <1>7, <1>8, <1>9, <1>10, <1>11 DEF Next

LEMMA Invariance == Spec => []Inv
<1> QED
  BY InitInv, NextInv, PTL DEF Spec

--------------------------------------------------------------------------------

(* Types; files are open, and parameters in memory, only while sched runs;   *)
(* the tests on OUT in try_sched.sh lead to the branch of its value.         *)
THEOREM TypeCorrect == Spec => []TypeOK
<1>1. Inv => TypeOK
  BY DEF Inv
<1> QED
  BY <1>1, Invariance, PTL

(* try_sched.sh never leaves anything but a program to be started, except    *)
(* after an upload or a copy that was cut short, or a test that a torn       *)
(* program passes.                                                           *)
THEOREM SchedStaysAProgram == Spec => []SchedIsAProgram
<1>1. Inv => SchedIsAProgram
  BY DEF Inv, ProgramsKept
<1> QED
  BY <1>1, Invariance, PTL

(* And never anything that may not be executed, except when the power goes   *)
(* between mv and chmod, or when line 87 moves a file without permission.    *)
THEOREM SchedStaysExecutable == Spec => []SchedCanBeExecuted
<1>1. Inv => SchedCanBeExecuted
  BY DEF Inv, PermissionKept, SchedCanBeExecuted
<1> QED
  BY <1>1, Invariance, PTL

(* Only a WriteParams cut short costs the parameters: no upload, crash or    *)
(* power cut elsewhere does.                                                 *)
THEOREM ParametersSurvive == Spec => []ParamConfHoldsParameters
<1>1. Inv => ParamConfHoldsParameters
  BY DEF Inv, ParametersKept
<1> QED
  BY <1>1, Invariance, PTL
================================================================================
