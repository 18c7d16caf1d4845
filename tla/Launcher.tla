------------------------------ MODULE Launcher ------------------------------
(***************************************************************************)
(* main of src/cmd/dynamorio-sandbox/main.go after the command line has    *)
(* been parsed: a docker client is started under a context with a deadline *)
(* that a signal cancels too, and its end becomes an exit status.          *)
(*                                                                         *)
(* Four processes: the launcher, its signal goroutine and the context; the *)
(* docker client, which the context kills; the container, which it does    *)
(* not; and in the container the timeout command, which ends the program.  *)
(* Time is counted in units; a timer fires before time passes its moment.  *)
(***************************************************************************)
EXTENDS Integers

CONSTANTS
    Timeout,    \* cfg.Timeout
    KillAfter,  \* cfg.KillAfter, > 0
    Resolution, \* of the durations in the container's command line (1 ms)
    Grace,      \* what main adds to both for its own deadline (5 s)
    AppCodes,   \* exit statuses of the program
    Horizon     \* bound: time stops here, and no container starts too late for it

ASSUME TimeAssumption ==
    /\ Timeout \in Nat /\ KillAfter \in Nat \ {0} /\ Resolution \in Nat \ {0}
    /\ Grace \in Nat /\ Horizon \in Nat
    /\ AppCodes \subseteq 0..255

TimedOut == 124  \* main and the timeout command
Killed == 137    \* the timeout command, after SIGKILL
Signalled == 255 \* os.Exit(-1): ExitCode of a process that a signal ended
CarrierError == 1
DockerError == 125
NoCode == -1

VARIABLES
    now,         \* time since main set the deadline
    ctx,         \* ctx.Err(): live, deadline, canceled
    signal,      \* SIGINT or SIGTERM: none, queued in sigCh, taken
    launcher,    \* start, waiting, returned, exited
    err,         \* of cmd.Run: none, nil, exit (an ExitError), other
    exit,        \* exit status of the launcher
    client,      \* docker client: none, running, zombie, reaped
    clientCode,  \* how the client ended
    cancelled,   \* the context has killed the client, or found it a zombie
    container,   \* absent, running, termed (SIGTERM was sent), stopped
    started,     \* when the container was started
    containerCode

vars == <<now, ctx, signal, launcher, err, exit, client, clientCode, cancelled,
          container, started, containerCode>>

main == <<launcher, err, exit>>
docker == <<client, clientCode, cancelled>>
carrier == <<container, started, containerCode>>

Init ==
    /\ now = 0 /\ ctx = "live" /\ signal = "none"
    /\ launcher = "start" /\ err = "none" /\ exit = NoCode
    /\ client = "none" /\ clientCode = NoCode /\ cancelled = FALSE
    /\ container = "absent" /\ started = 0 /\ containerCode = NoCode

-----------------------------------------------------------------------------
(* context.WithTimeout.  The first form forgets the grace of the kill.      *)
DeadlineShort == Timeout + Grace

Deadline == Timeout + KillAfter + Grace

(* A duration as the command line gives it: rounded to the resolution.      *)
durationSecondsString(d) == ((2 * d + Resolution) \div (2 * Resolution)) * Resolution

TimeoutText == durationSecondsString(Timeout)
KillAfterText == durationSecondsString(KillAfter)

(* Moments the timeout command acts on; a duration of 0, also one that is   *)
(* only written as 0, switches it off.  KillDueNever is the command without *)
(* --kill-after.                                                            *)
TermAt == started + TimeoutText
KillAt == started + TimeoutText + KillAfterText

TermDue == container = "running" /\ TimeoutText > 0 /\ now = TermAt

KillDueNever == FALSE

KillDue == container = "termed" /\ KillAfterText > 0 /\ now = KillAt

DeadlineDue == ctx = "live" /\ now = Deadline

Tick ==
    /\ now < Horizon
    /\ ~TermDue /\ ~KillDue /\ ~DeadlineDue
    /\ now' = now + 1
    /\ UNCHANGED <<ctx, signal, main, docker, carrier>>

Expire ==
    /\ DeadlineDue
    /\ ctx' = "deadline"
    /\ UNCHANGED <<now, signal, main, docker, carrier>>

(* A signal arrives, and the goroutine takes it unless the context is done. *)
Signal ==
    /\ signal = "none" /\ launcher # "exited"
    /\ signal' = "queued"
    /\ UNCHANGED <<now, ctx, main, docker, carrier>>

TakeSignal ==
    /\ signal = "queued" /\ ctx = "live" /\ launcher # "exited"
    /\ signal' = "taken" /\ ctx' = "canceled"
    /\ UNCHANGED <<now, main, docker, carrier>>

-----------------------------------------------------------------------------
(* cmd.Start: not if the context is done; docker may be missing.            *)
Start ==
    /\ launcher = "start"
    /\ \/ /\ ctx = "live"
          /\ launcher' = "waiting" /\ client' = "running"
          /\ UNCHANGED err
       \/ /\ launcher' = "returned" /\ err' = "other"
          /\ UNCHANGED client
    /\ UNCHANGED <<now, ctx, signal, exit, clientCode, cancelled, carrier>>

(* exec.CommandContext kills the client when the context is done.  A client *)
(* that has ended but has not been waited for accepts the signal as well,   *)
(* or is reported as done.  The first form sends what a client may ignore.  *)
KillClientGently ==
    /\ ctx # "live" /\ ~cancelled /\ client \in {"running", "zombie"}
    /\ cancelled' = TRUE
    /\ UNCHANGED <<now, ctx, signal, main, client, clientCode, carrier>>

KillClient ==
    /\ ctx # "live" /\ ~cancelled
    /\ \/ /\ client = "running"
          /\ client' = "zombie" /\ clientCode' = Signalled
       \/ /\ client = "zombie"
          /\ UNCHANGED <<client, clientCode>>
    /\ cancelled' = TRUE
    /\ UNCHANGED <<now, ctx, signal, main, carrier>>

(* cmd.Wait: an exit status other than 0 first, then the context's error.   *)
Wait ==
    /\ launcher = "waiting" /\ client = "zombie"
    /\ launcher' = "returned" /\ client' = "reaped"
    /\ err' = IF clientCode # 0 THEN "exit" ELSE IF cancelled THEN "other" ELSE "nil"
    /\ UNCHANGED <<now, ctx, signal, exit, clientCode, cancelled, carrier>>

(* The end of main.  The first form reports success when it was cancelled.  *)
StatusLenient ==
    IF err = "nil" \/ ctx = "canceled" THEN 0
    ELSE IF ctx = "deadline" THEN TimedOut
    ELSE IF err = "exit" THEN clientCode ELSE CarrierError

Status ==
    IF err = "nil" THEN 0
    ELSE IF ctx = "deadline" THEN TimedOut
    ELSE IF err = "exit" THEN clientCode ELSE CarrierError

Exit ==
    /\ launcher = "returned"
    /\ launcher' = "exited" /\ exit' = Status
    /\ UNCHANGED <<now, ctx, signal, err, docker, carrier>>

-----------------------------------------------------------------------------
(* The docker client and the container it asks the daemon for.  External.   *)
(* A client may fail before there is a container.  It is assumed that one   *)
(* whose container runs neither dies by itself nor loses the daemon.        *)
ClientFails ==
    /\ client = "running" /\ container = "absent"
    /\ client' = "zombie" /\ clientCode' = DockerError
    /\ UNCHANGED <<now, ctx, signal, main, cancelled, carrier>>

ContainerStarts ==
    /\ client = "running" /\ container = "absent"
    /\ now + TimeoutText + KillAfterText <= Horizon
    /\ container' = "running" /\ started' = now
    /\ UNCHANGED <<now, ctx, signal, main, docker, containerCode>>

ClientEnds ==
    /\ client = "running" /\ container = "stopped"
    /\ client' = "zombie" /\ clientCode' = containerCode
    /\ UNCHANGED <<now, ctx, signal, main, cancelled, carrier>>

Stop(code) ==
    /\ container' = "stopped" /\ containerCode' = code
    /\ UNCHANGED <<now, ctx, signal, main, docker, started>>

(* The program ends; after SIGTERM the timeout command answers for it.      *)
AppExits(code) ==
    /\ container \in {"running", "termed"}
    /\ Stop(IF container = "termed" THEN TimedOut ELSE code)

(* The command built by buildDockerArgs: SIGTERM, which a program may       *)
(* ignore, then SIGKILL.                                                    *)
TimeoutTerms ==
    /\ TermDue
    /\ container' = "termed"
    /\ UNCHANGED <<now, ctx, signal, main, docker, started, containerCode>>

TimeoutKills == KillDue /\ Stop(Killed)

-----------------------------------------------------------------------------
Timers == Tick \/ Expire \/ TimeoutTerms \/ TimeoutKills
Launch == Start \/ Wait \/ Exit

Next ==
    \/ Timers \/ Launch \/ KillClient \/ TakeSignal
    \/ Signal
    \/ ContainerStarts \/ ClientFails \/ ClientEnds
    \/ \E code \in AppCodes : AppExits(code)

(* Time passes and timers fire; main and the goroutine of the context are   *)
(* scheduled.  Nothing is assumed of docker or of the program.              *)
Spec == Init /\ [][Next]_vars /\ WF_vars(Timers) /\ WF_vars(Launch) /\ WF_vars(KillClient)

-----------------------------------------------------------------------------
(* The launcher ends, whatever docker and the program do and whenever a     *)
(* signal comes.                                                            *)
LauncherExits == <>(launcher = "exited")

(* A container that was started stops, also when the launcher has killed the*)
(* client or is gone: the timeout command built into its command line does  *)
(* it, if neither of its durations is written as 0.                         *)
ContainerStops ==
    TimeoutText > 0 /\ KillAfterText > 0 => (container = "running" ~> container = "stopped")

(* Without a signal the launcher leaves a running container behind only if  *)
(* docker used up the grace period to start it: main's deadline is later    *)
(* than the container's own, though that one may have been rounded up, by   *)
(* up to half the resolution for each duration.                             *)
OrphanOnlyIfLate ==
    TimeoutText > 0 /\ KillAfterText > 0 =>
        (launcher = "exited" /\ container \in {"running", "termed"}
            /\ started + 2 * (Resolution \div 2) < Grace
         => ctx = "canceled")

(* Success is reported only for a program that ended by itself with success;*)
(* and where neither deadline nor signal came, the status is the one the    *)
(* container ended with.                                                    *)
ExitFaithful ==
    launcher = "exited" =>
        /\ exit = 0 => containerCode = 0
        /\ ctx = "live" /\ container = "stopped" => exit = containerCode
=============================================================================
