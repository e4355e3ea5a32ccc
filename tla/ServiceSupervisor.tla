-------------------------- MODULE ServiceSupervisor --------------------------
(***************************************************************************)
(* How webhostd runs the configured service command: it starts it, starts  *)
(* it again some time after it ended, and on the RESTART command asks it   *)
(* to terminate and, if it does not, kills it.                             *)
(*                                                                         *)
(* The daemon is one Qt event loop.  It is blocked while a command handler *)
(* waits for a helper program (waitForFinished()): time goes on then and   *)
(* the service lives or dies, but no slot runs.  service is the daemon's   *)
(* QProcess; alive, what is true of the child process; the two differ      *)
(* until the event loop has seen the child end.                            *)
(***************************************************************************)
EXTENDS Integers

CONSTANTS
    RespawnDelay,   \* ServiceRespawnDelay of the configuration, in ticks
    KillInterval,   \* WEBHOSTD_PROCESS_KILL_INTERVAL, in ticks
    MaxRestarts     \* bound on the RESTART commands of a behaviour

ASSUME DelayAssumption == RespawnDelay \in Nat /\ KillInterval \in Nat \ {0}
ASSUME MaxRestartsAssumption == MaxRestarts \in Nat

Off == -1           \* a timer that is not armed

VARIABLES
    configured,           \* a service command is configured
    service,              \* main_service_process
    alive,                \* the child process exists
    termed,               \* it was sent SIGTERM
    killed,               \* it was sent SIGKILL
    main_garbage_timer,   \* ticks until the timers fire, or Off
    main_kill_timer,
    blocked,              \* a handler waits for a helper program
    restarts              \* RESTART commands so far

child  == <<alive, termed, killed>>
timers == <<main_garbage_timer, main_kill_timer>>
vars   == <<configured, service, child, timers, blocked, restarts>>

-----------------------------------------------------------------------------
(* MainObject::MainObject() *)
Init ==
    /\ configured \in BOOLEAN
    /\ service = "null"
    /\ alive = FALSE /\ termed = FALSE /\ killed = FALSE
    /\ main_garbage_timer = 0
    /\ main_kill_timer = Off
    /\ blocked = FALSE
    /\ restarts = 0

(* The old QProcess, which is not running, is deleted and a new one made.  *)
garbageTimerData ==
    /\ ~blocked /\ main_garbage_timer = 0
    /\ main_garbage_timer' = Off
    /\ service' = IF configured THEN "starting" ELSE "null"
    /\ alive' = configured
    /\ termed' = FALSE /\ killed' = FALSE
    /\ UNCHANGED <<configured, main_kill_timer, blocked, restarts>>

(* QProcess: the child has executed the program. *)
started ==
    /\ ~blocked /\ service = "starting"
    /\ service' = "running"
    /\ UNCHANGED <<configured, child, timers, blocked, restarts>>

(* FailedToStart: the program could not be executed.  The slot logs, and   *)
(* no finished() follows.                                                  *)
serviceErrorData ==
    /\ ~blocked /\ service = "starting"
    /\ service' = "failed"
    /\ alive' = FALSE
    /\ UNCHANGED <<configured, termed, killed, timers, blocked, restarts>>

(* The child ends, by itself or by a signal. *)
Exit ==
    /\ alive /\ service = "running"
    /\ alive' = FALSE
    /\ UNCHANGED <<configured, service, termed, killed, timers, blocked, restarts>>

(* Mutant: the interval of the other timer is taken. *)
ConfusedServiceFinishedData ==
    /\ ~blocked /\ service = "running" /\ ~alive
    /\ service' = "finished"
    /\ main_kill_timer' = Off
    /\ main_garbage_timer' = KillInterval
    /\ UNCHANGED <<configured, child, blocked, restarts>>

(* Mutant: a service that was told to end is not started again. *)
ForgetfulServiceFinishedData ==
    /\ ~blocked /\ service = "running" /\ ~alive
    /\ service' = "finished"
    /\ main_kill_timer' = Off
    /\ main_garbage_timer' = IF termed THEN Off ELSE RespawnDelay
    /\ UNCHANGED <<configured, child, blocked, restarts>>

serviceFinishedData ==
    /\ ~blocked /\ service = "running" /\ ~alive
    /\ service' = "finished"
    /\ main_kill_timer' = Off
    /\ main_garbage_timer' = RespawnDelay
    /\ UNCHANGED <<configured, child, blocked, restarts>>

(* Mutant: the replacement is scheduled before the old service has ended. *)
HastyRestart ==
    /\ ~blocked /\ restarts < MaxRestarts /\ service # "null"
    /\ termed' = (termed \/ alive)
    /\ main_kill_timer' = KillInterval
    /\ main_garbage_timer' = RespawnDelay
    /\ restarts' = restarts + 1
    /\ UNCHANGED <<configured, service, alive, killed, blocked>>

(* QProcess::terminate() signals a child that exists; the kill timer is    *)
(* started, or started anew, whenever there is a QProcess.                 *)
Restart ==
    /\ ~blocked /\ restarts < MaxRestarts /\ service # "null"
    /\ termed' = (termed \/ alive)
    /\ main_kill_timer' = KillInterval
    /\ restarts' = restarts + 1
    /\ UNCHANGED <<configured, service, alive, killed, main_garbage_timer, blocked>>

(* Mutant: the process is asked to terminate once more. *)
MildKillTimerData ==
    /\ ~blocked /\ main_kill_timer = 0
    /\ main_kill_timer' = Off
    /\ termed' = (termed \/ alive)
    /\ UNCHANGED <<configured, service, alive, killed, main_garbage_timer, blocked, restarts>>

killTimerData ==
    /\ ~blocked /\ main_kill_timer = 0
    /\ main_kill_timer' = Off
    /\ killed' = (killed \/ alive)
    /\ UNCHANGED <<configured, service, alive, termed, main_garbage_timer, blocked, restarts>>

(* UPGRADE kills the service and ends the daemon; systemd, which takes     *)
(* what is left of the service with it, starts a new one.                  *)
Upgrade ==
    /\ ~blocked
    /\ service' = "null"
    /\ alive' = FALSE /\ termed' = FALSE /\ killed' = FALSE
    /\ main_garbage_timer' = 0
    /\ main_kill_timer' = Off
    /\ UNCHANGED <<configured, blocked, restarts>>

(* REBOOT, IP, NTP and the user commands wait for the programs they run.   *)
RunCommand ==
    /\ ~blocked /\ blocked' = TRUE
    /\ UNCHANGED <<configured, service, child, timers, restarts>>

CommandFinished ==
    /\ blocked /\ blocked' = FALSE
    /\ UNCHANGED <<configured, service, child, timers, restarts>>

Elapse(t) == IF t \in {Off, 0} THEN t ELSE t - 1

(* A free event loop fires a timer that has run out before time goes on.   *)
Tick ==
    /\ blocked \/ 0 \notin {main_garbage_timer, main_kill_timer}
    /\ main_garbage_timer' = Elapse(main_garbage_timer)
    /\ main_kill_timer' = Elapse(main_kill_timer)
    /\ timers' # timers
    /\ UNCHANGED <<configured, service, child, blocked, restarts>>

Next ==
    \/ garbageTimerData \/ killTimerData
    \/ started \/ serviceErrorData \/ serviceFinishedData
    \/ Exit
    \/ Restart \/ Upgrade
    \/ RunCommand \/ CommandFinished
    \/ Tick

(* Time passes, helper programs end (waitForFinished() gives up after 30   *)
(* seconds), the event loop serves its timers and its children, and a      *)
(* killed process ends.  Commands come one at a time and leave the event   *)
(* loop room for what has become due, hence strong fairness of the slots.  *)
Fairness ==
    /\ WF_vars(CommandFinished)
    /\ SF_vars(Tick)
    /\ SF_vars(garbageTimerData) /\ SF_vars(killTimerData)
    /\ SF_vars(started \/ serviceErrorData)
    /\ SF_vars(serviceFinishedData)
    /\ WF_vars(killed /\ Exit)

Spec == Init /\ [][Next]_vars /\ Fairness

-----------------------------------------------------------------------------
Timer(max) == {Off} \cup 0..max

(* Every variable holds values of its kind. *)
TypeOK ==
    /\ configured \in BOOLEAN
    /\ service \in {"null", "starting", "running", "failed", "finished"}
    /\ alive \in BOOLEAN /\ termed \in BOOLEAN /\ killed \in BOOLEAN
    /\ main_garbage_timer \in Timer(RespawnDelay)
    /\ main_kill_timer \in Timer(KillInterval)
    /\ blocked \in BOOLEAN
    /\ restarts \in 0..MaxRestarts

(* There is one service: garbageTimerData() never runs, nor is it due to,  *)
(* while the old child lives, so it never deletes a running QProcess nor   *)
(* starts a second service beside it.                                      *)
SingleService ==
    main_garbage_timer # Off => ~alive /\ service \in {"null", "finished"}

(* A service that was told to terminate and lives is not forgotten: either *)
(* the kill timer runs or it was killed (Restart(), killTimerData(), and   *)
(* serviceFinishedData(), which stops the timer).                          *)
TermIsFollowedUp ==
    termed /\ alive => killed \/ main_kill_timer # Off

(* The service that ended is started again (serviceFinishedData()).        *)
Respawned ==
    service = "finished" ~> service \in {"null", "starting"}

(* A RESTART that finds the service running replaces it, whether or not it *)
(* obeys SIGTERM and whatever else the daemon waits for meanwhile.         *)
RestartReplaces ==
    service = "running" /\ termed ~> ~termed
=============================================================================
