------------------------------- MODULE TrySched -------------------------------
(***************************************************************************)
(* The life of the TS-7200 around sched: thread_io/mingetty/try_sched.sh,  *)
(* which starts it, acts on its exit code and brings in new versions of it *)
(* and of param.conf through ./server; param.conf as sched itself reads    *)
(* and writes it; crashes and power cuts in between.                       *)
(*                                                                         *)
(* `pc' is the place in the script, or what runs in its stead:             *)
(*   boot       lines 4-18: which program is to run                        *)
(*   run        about to execute ./sched (line 20, or 88 when `rerun')     *)
(*   sched      ./sched runs                                               *)
(*   exited     the chain of tests on OUT, lines 26-104                    *)
(*   server, accept, recv   ./server: opening sched2, waiting for the      *)
(*              client, receiving                                          *)
(*   test       ./sched2 test 1 (OUT = 4) or ./show_params 1 (OUT = 5)     *)
(*   install_sched, install_params, discard    mv, mv or rm of sched2      *)
(*   chmod_boot, chmod_install    chmod +x sched, after the mv of line 6   *)
(*              or 12, or of line 53                                       *)
(*   rebooting  /sbin/reboot has been called                               *)
(*   shell      the script has ended                                       *)
(*   halted     after /sbin/shutdown -h now                                *)
(*   off        no power                                                   *)
(*                                                                         *)
(* A file's content is one of                                              *)
(*   none    there is no such file      empty   created, nothing written   *)
(*   prog    a complete program         params  a complete param.conf      *)
(*   torn    part of the bytes, the rest zero, missing or stale            *)
(*   blank   a param.conf with both markers around parameters that were    *)
(*           never set                                                     *)
(***************************************************************************)
EXTENDS Naturals, FiniteSets

File    == {"root_sched", "sched", "sched2", "param_conf"}
Content == {"none", "empty", "prog", "params", "torn", "blank"}
Code    == 1..6                        \* exit codes of sched's main
Crashed == {139, 141}                  \* 128 + SIGSEGV, 128 + SIGPIPE
Other   == 99                          \* any other exit code (126, 127, 255...)
Pc      == {"boot", "run", "sched", "exited", "server", "accept", "recv", "test",
            "install_sched", "install_params", "discard", "chmod_boot", "chmod_install",
            "rebooting", "shell", "halted", "off"}

VARIABLES pc, OUT, rerun,
          file,      \* the contents of the files
          exec,      \* those with the execute permission
          ps,        \* sched's parameters in memory: "good" or "bad"
          saving,    \* WriteParams has param.conf open: "no", "set" or "exit"
          copying,   \* the file a user's copy is writing, or "no"
          \* History:
          cut,       \* an unjudged download or a user's copy was cut short by the
                     \* power or a reboot, or moved before it was complete
          spoiled,   \* sched died, or power was cut, inside WriteParams
          missed,    \* ./sched2 test 1 returned 10 for a torn program
          unmarked   \* sched was put in place without its execute permission

sched_vars == <<ps, saving>>
history == <<cut, spoiled, missed, unmarked>>
vars == <<pc, OUT, rerun, file, exec, sched_vars, copying, history>>

Init ==
  /\ pc = "boot" /\ OUT = 0 /\ rerun = FALSE
  /\ file = [f \in File |-> CASE f = "sched" -> "prog" [] f = "param_conf" -> "params"
                              [] OTHER -> "none"]
  /\ exec = {"sched"}
  /\ ps = "bad" /\ saving = "no" /\ copying = "no"
  /\ cut = FALSE /\ spoiled = FALSE /\ missed = FALSE /\ unmarked = FALSE

Goto(from, to) == pc = from /\ pc' = to

\* mv from to; the execute permission moves along, and so does a copy that
\* still writes the file.
Mv(from, to) ==
  /\ file' = [file EXCEPT ![to] = file[from], ![from] = "none"]
  /\ exec' = (exec \ {from, to}) \cup (IF from \in exec THEN {to} ELSE {})
  /\ copying' = CASE copying = from -> to [] copying = to -> "no" [] OTHER -> copying

--------------------------------------------------------------------------------
(* try_sched.sh *)

\* Lines 4-18.  Nothing says where a sched2 found here comes from, nor whether
\* it is complete.
InstallFound(f) == Mv(f, "sched") /\ cut' = (cut \/ copying = f)

\* Mutant: the file found is not made executable.
Boot_NoChmod ==
  /\ Goto("boot", "run")
  /\ CASE file["root_sched"] # "none" -> InstallFound("root_sched")
       [] file["root_sched"] = "none" /\ file["sched2"] # "none" -> InstallFound("sched2")
       [] OTHER -> UNCHANGED <<file, exec, copying, cut>>
  /\ UNCHANGED <<OUT, rerun, sched_vars, spoiled, missed, unmarked>>

Boot ==
  /\ pc = "boot"
  /\ IF \A f \in {"root_sched", "sched2"} : file[f] = "none"
     THEN pc' = "run" /\ UNCHANGED <<file, exec, copying, cut>>
     ELSE /\ pc' = "chmod_boot"
          /\ IF file["root_sched"] # "none" THEN InstallFound("root_sched")
             ELSE InstallFound("sched2")
  /\ UNCHANGED <<OUT, rerun, sched_vars, spoiled, missed, unmarked>>

\* chmod +x sched, lines 7 and 13, and line 54.
Chmod ==
  /\ Goto("chmod_boot", "run") \/ Goto("chmod_install", "rebooting")
  /\ exec' = exec \cup {"sched"}
  /\ UNCHANGED <<OUT, rerun, file, sched_vars, copying, history>>

\* The shell cannot execute it, or it dies at once: what is left of a program
\* may still run.
CannotRun ==
  /\ pc = "run"
  /\ \/ file["sched"] # "prog"
     \/ "sched" \notin exec
  /\ pc' = IF rerun THEN "boot" ELSE "exited"
  /\ OUT' \in IF rerun THEN {OUT}
              ELSE IF file["sched"] = "torn" /\ "sched" \in exec THEN Crashed \cup {Other}
              ELSE {Other}
  /\ rerun' = FALSE
  /\ UNCHANGED <<file, exec, sched_vars, copying, history>>

\* ./sched odata.dat; its init_ips loads the parameters (config_file.c)
StartSched ==
  /\ Goto("run", "sched")
  /\ file["sched"] \in {"prog", "torn"} /\ "sched" \in exec
  /\ ps' = IF file["param_conf"] = "params" THEN "good" ELSE "bad"
  /\ UNCHANGED <<OUT, rerun, file, exec, saving, copying, history>>

\* Line 87: mv without chmod.
RunSched2 ==
  /\ Mv("sched2", "sched")
  /\ pc' = "run" /\ rerun' = TRUE
  /\ unmarked' = (unmarked \/ "sched2" \notin exec)

\* Mutant: line 43 tests for 4 and above.
Dispatch_FromFour ==
  /\ pc = "exited"
  /\ \/ OUT \in {1, Other} \cup Crashed /\ pc' = "shell"
     \/ OUT = 2 /\ pc' = "rebooting"
     \/ OUT = 3 /\ pc' = "halted"
     \/ OUT \in 4..6 /\ pc' = "server"
  /\ UNCHANGED <<OUT, rerun, file, exec, sched_vars, copying, history>>

\* The tests on the exit code.  1 and the codes nothing tests for end in the
\* shell, and so do 139 and 141, whose branches only write to status.txt.
Dispatch ==
  /\ pc = "exited"
  /\ \/ /\ \/ OUT \in {1, Other} \cup Crashed /\ pc' = "shell"
           \/ OUT = 2 /\ pc' = "rebooting"
           \/ OUT = 3 /\ pc' = "halted"
           \/ OUT \in {4, 5} /\ pc' = "server"
           \/ OUT = 6 /\ file["sched2"] = "none" /\ pc' = "rebooting"
        /\ UNCHANGED <<rerun, file, exec, copying, unmarked>>
     \/ OUT = 6 /\ file["sched2"] # "none" /\ RunSched2
  /\ UNCHANGED <<OUT, sched_vars, cut, spoiled, missed>>

\* ./server creates or truncates sched2 (also for a new param.conf) and listens.
ServerOpens ==
  /\ Goto("server", "accept")
  /\ file' = [file EXCEPT !["sched2"] = "empty"]
  /\ exec' = IF file["sched2"] = "none" THEN exec \cup {"sched2"} ELSE exec
  /\ UNCHANGED <<OUT, rerun, sched_vars, copying, history>>

\* accept has no time limit; recv has one of 50 ms.
ClientConnects ==
  /\ Goto("accept", "recv")
  /\ UNCHANGED <<OUT, rerun, file, exec, sched_vars, copying, history>>

\* The chunks are written at full length whatever recv returned.
ServerReceives ==
  /\ Goto("recv", "test")
  /\ \E c \in {"prog", "params", "torn", "empty"} : file' = [file EXCEPT !["sched2"] = c]
  /\ UNCHANGED <<OUT, rerun, exec, sched_vars, copying, history>>

\* ./sched2 test 1: main returns 10 when it is given two arguments.
Sched2Returns10 ==
  /\ "sched2" \in exec
  /\ file["sched2"] \in {"prog", "torn"}

\* Mutant: the end of the file is not looked at.
ShowParamsReturns11_BeginOnly == file["sched2"] \in {"params", "blank", "torn"}

\* ./show_params 1 looks at the markers at both ends of the file.
ShowParamsReturns11 == file["sched2"] \in {"params", "blank"}

\* Lines 47-50 and 67-70.
Test ==
  /\ pc = "test"
  /\ \/ /\ OUT = 4 /\ Sched2Returns10
        /\ pc' = "install_sched" /\ OUT' = 10
        /\ missed' = (missed \/ file["sched2"] = "torn")
     \/ /\ OUT = 4 /\ (file["sched2"] = "prog" => "sched2" \notin exec)
        /\ pc' = "discard" /\ OUT' = Other /\ UNCHANGED missed
     \/ /\ OUT = 5 /\ ShowParamsReturns11
        /\ pc' = "install_params" /\ OUT' = 11 /\ UNCHANGED missed
     \/ /\ OUT = 5 /\ ~ShowParamsReturns11
        /\ pc' = "discard" /\ OUT' = Other /\ UNCHANGED missed
  /\ UNCHANGED <<rerun, file, exec, sched_vars, copying, cut, spoiled, unmarked>>

InstallSched ==
  /\ Goto("install_sched", "chmod_install")
  /\ Mv("sched2", "sched")
  /\ UNCHANGED <<OUT, rerun, sched_vars, history>>

InstallParams ==
  /\ Goto("install_params", "rebooting")
  /\ Mv("sched2", "param_conf")
  /\ UNCHANGED <<OUT, rerun, sched_vars, history>>

\* Mutant: a bad download is removed and the script goes on to its end.
Discard_NoReboot ==
  /\ Goto("discard", "shell")
  /\ file' = [file EXCEPT !["sched2"] = "none"]
  /\ exec' = exec \ {"sched2"}
  /\ UNCHANGED <<OUT, rerun, sched_vars, copying, history>>

\* Mutant: a bad download stays where it is.
Discard_NoRm ==
  /\ Goto("discard", "rebooting")
  /\ UNCHANGED <<OUT, rerun, file, exec, sched_vars, copying, history>>

Discard ==
  /\ Goto("discard", "rebooting")
  /\ file' = [file EXCEPT !["sched2"] = "none"]
  /\ exec' = exec \ {"sched2"}
  /\ UNCHANGED <<OUT, rerun, sched_vars, copying, history>>

\* It also ends whatever else runs on the box.
Reboot ==
  /\ Goto("rebooting", "boot")
  /\ OUT' = 0 /\ copying' = "no"
  /\ cut' = (cut \/ copying # "no")
  /\ UNCHANGED <<rerun, file, exec, sched_vars, spoiled, missed, unmarked>>

--------------------------------------------------------------------------------
(* sched, as far as param.conf and its end are concerned.                    *)

\* WriteParams opens param.conf with O_TRUNC and then writes it in pieces:
\* after a SET_... command, with all parameters new after UPDATE_CONFIG, and
\* for EXIT_PROGRAM.
BeginSave ==
  /\ pc = "sched" /\ saving = "no"
  /\ saving' \in {"set", "exit"}
  /\ ps' \in IF saving' = "set" THEN {ps, "good"} ELSE {ps}
  /\ file' = [file EXCEPT !["param_conf"] = "torn"]
  /\ UNCHANGED <<pc, OUT, rerun, exec, copying, history>>

\* The exit code reaches the script, unless line 88 has started this sched.
\* Nobody asks for an upload, or for sched2 to be run, while sched2 is still
\* being copied.
Ended(code) ==
  /\ copying = "sched2" => code \notin 4..6
  /\ pc' = IF rerun THEN "boot" ELSE "exited"
  /\ OUT' = IF rerun THEN OUT ELSE code
  /\ rerun' = FALSE
  /\ saving' = "no" /\ ps' = "bad"

EndSave ==
  /\ pc = "sched"
  /\ file' = [file EXCEPT !["param_conf"] = IF ps = "good" THEN "params" ELSE "blank"]
  /\ \/ saving = "set" /\ saving' = "no" /\ UNCHANGED <<pc, OUT, rerun, ps>>
     \/ saving = "exit" /\ \E code \in Code : Ended(code)
  /\ UNCHANGED <<exec, copying, history>>

\* Any other end command (basic_controls_task, sched.c's main).
Exit ==
  /\ pc = "sched" /\ saving = "no"
  /\ \E code \in Code : Ended(code)
  /\ UNCHANGED <<file, exec, copying, history>>

\* A signal kills sched, at any place in any of its threads.
Crash ==
  /\ pc = "sched"
  /\ \E code \in Crashed : Ended(code)
  /\ spoiled' = (spoiled \/ saving # "no")
  /\ UNCHANGED <<file, exec, copying, cut, missed, unmarked>>

--------------------------------------------------------------------------------
(* The user and the power. *)

\* Somebody copies a new program to the box, with or without its permissions.
BeginCopy ==
  /\ pc \in {"sched", "shell"} /\ copying = "no"
  /\ \E f \in {"root_sched", "sched2"} :
       /\ copying' = f
       /\ file' = [file EXCEPT ![f] = "torn"]
       /\ exec' \in {exec, exec \cup {f}}
  /\ UNCHANGED <<pc, OUT, rerun, sched_vars, history>>

EndCopy ==
  /\ pc \notin {"rebooting", "halted", "off"} /\ copying # "no"
  /\ copying' = "no"
  /\ file' = [file EXCEPT ![copying] = "prog"]
  /\ UNCHANGED <<pc, OUT, rerun, exec, sched_vars, history>>

\* Places of the script at which sched2 holds something not known to be a
\* program.
Untested == {"accept", "recv", "test", "install_params", "discard"}

PowerCut ==
  /\ pc # "off" /\ pc' = "off"
  /\ OUT' = 0 /\ rerun' = FALSE /\ ps' = "bad" /\ saving' = "no" /\ copying' = "no"
  /\ cut' = (cut \/ pc \in Untested \/ copying # "no")
  /\ spoiled' = (spoiled \/ saving # "no")
  /\ unmarked' = (unmarked \/ (pc \in {"chmod_boot", "chmod_install"} /\ "sched" \notin exec))
  /\ UNCHANGED <<file, exec, missed>>

PowerOn ==
  /\ Goto("off", "boot")
  /\ UNCHANGED <<OUT, rerun, file, exec, sched_vars, copying, history>>

Script == \/ Boot \/ Chmod \/ CannotRun \/ StartSched \/ Dispatch
          \/ ServerOpens \/ ServerReceives \/ Test \/ InstallSched \/ InstallParams \/ Discard \/ Reboot

Next == Script \/ ClientConnects \/ BeginSave \/ EndSave \/ Exit \/ Crash
        \/ BeginCopy \/ EndCopy \/ PowerCut \/ PowerOn

Spec == Init /\ [][Next]_vars

\* The shell goes on with its script, and whoever has sent sched into the
\* upload also sends the file.
Fairness == WF_vars(Script) /\ WF_vars(ClientConnects)
FairSpec == Spec /\ Fairness
--------------------------------------------------------------------------------
(* Properties. *)

\* Types; parameters are in memory, and param.conf is open, only while sched
\* runs; a file that is being copied is not complete; and the tests on OUT take
\* the script to the branch of its value (lines 43, 50, 63, 70).
TypeOK ==
  /\ pc \in Pc
  /\ OUT \in Code \cup Crashed \cup {0, 10, 11, Other}
  /\ rerun \in BOOLEAN
  /\ file \in [File -> Content]
  /\ exec \subseteq File
  /\ ps \in {"good", "bad"} /\ saving \in {"no", "set", "exit"}
  /\ saving # "no" \/ ps = "good" => pc = "sched"
  /\ copying \in {"no", "root_sched", "sched2", "sched"}
  /\ copying # "no" => file[copying] = "torn"
  /\ pc \in {"server", "accept", "recv", "test"} => OUT \in {4, 5}
  /\ pc = "install_sched" => OUT = 10
  /\ pc = "install_params" => OUT = 11
  /\ cut \in BOOLEAN /\ spoiled \in BOOLEAN /\ missed \in BOOLEAN /\ unmarked \in BOOLEAN

\* What try_sched.sh leaves to be started is a complete program, whatever the
\* client has sent into sched2, a file of parameters included: unless power is
\* cut before the download has been judged, or a user's copy is cut short (lines
\* 4-14 install either at the next boot), or ./sched2 test 1 does not notice that
\* the program is torn.
SchedIsAProgram == file["sched"] = "prog" \/ cut \/ missed

\* Whatever the script puts in place it also makes executable before it starts
\* it (lines 7, 13 and 54), wherever it came from and whatever happens on the
\* way: unless power is cut between the mv and the chmod, which nothing at the
\* next boot makes up for, or line 87 moves a sched2 copied without its
\* permission.
SchedCanBeExecuted == pc = "run" => "sched" \in exec \/ unmarked

\* The parameters on disk, and those sched works with, are the ones somebody
\* has set.  Only a WriteParams that was cut short (config_file.c:237 truncates
\* the file first) takes them away; a download never does (show_params.c).
ParamConfHoldsParameters ==
  \/ spoiled
  \/ /\ saving = "no" => file["param_conf"] = "params"
     /\ pc = "sched" => ps = "good"

\* An upload ends with sched being started again, the new one or the old one:
\* no outcome of the download leaves the truck without its controls
\* (try_sched.sh:43-80).
UploadLeadsToRestart == (pc = "server") ~> (pc \in {"run", "off"})

================================================================================
