--------------------------- MODULE LauncherProof ---------------------------
(***************************************************************************)
(* Proofs about Launcher, for every timeout, grace, horizon and set of     *)
(* exit statuses.                                                          *)
(***************************************************************************)
EXTENDS Launcher, TLAPS

TypeInv ==
    /\ now \in Nat /\ started \in Nat
    /\ ctx \in {"live", "deadline", "canceled"}
    /\ launcher \in {"start", "waiting", "returned", "exited"}
    /\ err \in {"none", "nil", "exit", "other"}
    /\ client \in {"none", "running", "zombie", "reaped"} /\ cancelled \in BOOLEAN
    /\ container \in {"absent", "running", "termed", "stopped"}
    /\ exit \in Int /\ clientCode \in Int /\ containerCode \in Int

(* Who waits for whom: main, the client it started and the container the    *)
(* client asked for.                                                        *)
ProcessInv ==
    /\ launcher = "start" => client = "none" /\ err = "none"
    /\ launcher = "waiting" => client \in {"running", "zombie"}
    /\ launcher \in {"returned", "exited"} => client \in {"none", "reaped"} /\ err # "none"
    /\ client = "none" => container = "absent"
    /\ cancelled => ctx # "live" /\ client \in {"zombie", "reaped"}

(* How the client ended: killed by the context; without a container; or     *)
(* after the container, with its status.                                    *)
ClientInv ==
    client \in {"zombie", "reaped"} =>
        \/ cancelled /\ clientCode = Signalled
        \/ container = "absent" /\ clientCode = DockerError
        \/ container = "stopped" /\ clientCode = containerCode

(* What cmd.Run returned, and what main made of it.                         *)
ErrInv ==
    /\ err = "nil" => client = "reaped" /\ clientCode = 0 /\ ~cancelled
    /\ err = "exit" => client = "reaped" /\ clientCode # 0
    /\ err = "other" => client = "none" \/ cancelled

(* The context does not become live again, so of the status only these      *)
(* parts outlive main.                                                      *)
ExitInv ==
    launcher = "exited" =>
        /\ exit = 0 => err = "nil"
        /\ ctx = "live" /\ err = "nil" => exit = 0
        /\ ctx = "live" /\ err = "exit" => exit = clientCode

(* The timers: nothing is late, and a container that runs has time left.    *)
TimeInv ==
    /\ ctx = "deadline" => now >= Deadline
    /\ TimeoutText > 0 /\ container = "running" => now <= TermAt
    /\ KillAfterText > 0 /\ container = "termed" => now <= KillAt

Inv == TypeInv /\ ProcessInv /\ ClientInv /\ ErrInv /\ ExitInv /\ TimeInv

(* durationSecondsString rounds to a number at most half the resolution     *)
(* away.                                                                    *)
LEMMA RoundingLemma ==
    ASSUME NEW d \in Nat
    PROVE  /\ durationSecondsString(d) \in Nat
           /\ durationSecondsString(d) <= d + (Resolution \div 2)
  <1> DEFINE r == Resolution
             q == (2 * d + r) \div (2 * r)
             h == r \div 2
  <1>1. r \in Nat \ {0}
    BY TimeAssumption
  <1> HIDE DEF r
  <1>2. q \in Nat /\ q * (2 * r) <= 2 * d + r
    BY <1>1
  <1>3. h \in Nat /\ (r = 2 * h \/ r = 2 * h + 1)
    BY <1>1
  <1> HIDE DEF q, h
  <1>4. q * (2 * r) = 2 * (q * r) /\ q * r \in Nat
    BY <1>1, <1>2
  <1>5. q * r <= d + h
    BY <1>1, <1>2, <1>3, <1>4
  <1>6. durationSecondsString(d) = q * r
    BY DEF durationSecondsString, q, r
  <1> QED BY <1>4, <1>5, <1>6 DEF h, r

(* The two durations of the command line.                                   *)
LEMMA TextLemma ==
    /\ TimeoutText \in Nat /\ TimeoutText <= Timeout + (Resolution \div 2)
    /\ KillAfterText \in Nat /\ KillAfterText <= KillAfter + (Resolution \div 2)
  BY RoundingLemma, TimeAssumption DEF TimeoutText, KillAfterText

(* Initially.                                                               *)
LEMMA InvInit == Init => Inv
  <1> SUFFICES ASSUME Init PROVE Inv
    OBVIOUS
  <1>0. cancelled \in BOOLEAN
    BY Zenon DEF Init
  <1>1. TypeInv
    BY <1>0 DEF Init, TypeInv, NoCode
  <1>2. ProcessInv /\ ClientInv /\ ErrInv /\ ExitInv /\ TimeInv
    BY DEF Init, ProcessInv, ClientInv, ErrInv, ExitInv, TimeInv
  <1> QED BY <1>1, <1>2 DEF Inv

(* One step, action by action.                                              *)
LEMMA InvStep == Inv /\ [Next]_vars => Inv'
  <1> SUFFICES ASSUME Inv, [Next]_vars PROVE Inv'
    OBVIOUS
  <1> USE DEF Inv, TypeInv, ProcessInv, ClientInv, ErrInv, ExitInv, TimeInv,
              main, docker, carrier, NoCode, Signalled, DockerError
  <1>1. CASE Tick
    BY <1>1, TimeAssumption, TextLemma DEF Tick, TermDue, KillDue, DeadlineDue, TermAt, KillAt, Deadline
  <1>2. CASE Expire
    BY <1>2, TimeAssumption DEF Expire, DeadlineDue, Deadline, TermAt, KillAt
  <1>3. CASE Signal \/ TakeSignal
    BY <1>3 DEF Signal, TakeSignal, TermAt, KillAt
  <1>4. CASE Start
    <2>1. client = "none" /\ ~cancelled /\ container = "absent" /\ err = "none"
      BY <1>4 DEF Start
    <2>2. CASE ctx = "live" /\ launcher' = "waiting" /\ client' = "running" /\ UNCHANGED err
      BY <1>4, <2>1, <2>2 DEF Start, TermAt, KillAt
    <2>3. CASE launcher' = "returned" /\ err' = "other" /\ UNCHANGED client
      BY <1>4, <2>1, <2>3 DEF Start, TermAt, KillAt
    <2> QED BY <1>4, <2>2, <2>3 DEF Start
  <1>5. CASE KillClient
    BY <1>5 DEF KillClient, TermAt, KillAt
  <1>6. CASE Wait
    BY <1>6 DEF Wait, TermAt, KillAt
  <1>7. CASE Exit
    BY <1>7 DEF Exit, Status, TimedOut, CarrierError, TermAt, KillAt
  <1>8. CASE ClientFails \/ ClientEnds
    BY <1>8 DEF ClientFails, ClientEnds, TermAt, KillAt
  <1>9. CASE ContainerStarts
    BY <1>9, TimeAssumption, TextLemma DEF ContainerStarts, TermAt, KillAt
  <1>10. ASSUME NEW code \in AppCodes, AppExits(code) PROVE Inv'
    BY <1>10, TimeAssumption, TextLemma DEF AppExits, Stop, TimedOut, TermAt, KillAt
  <1>11. CASE TimeoutTerms
    BY <1>11, TimeAssumption, TextLemma DEF TimeoutTerms, TermDue, TermAt, KillAt
  <1>12. CASE TimeoutKills
    BY <1>12 DEF TimeoutKills, KillDue, Stop, Killed, TermAt, KillAt
  <1>13. CASE UNCHANGED vars
    BY <1>13 DEF vars, TermAt, KillAt
  <1> QED
    BY <1>1, <1>2, <1>3, <1>4, <1>5, <1>6, <1>7, <1>8, <1>9, <1>10, <1>11, <1>12, <1>13
    DEF Next, Timers, Launch

(* The inductive invariant holds throughout.                                *)
LEMMA InvHolds == Spec => []Inv
  BY InvInit, InvStep, PTL DEF Spec

(* main: an exit status of 0 is the program's own, and where neither the    *)
(* deadline nor a signal came the status is the container's, for every      *)
(* timeout and every order of client, container, timers and signal.         *)
THEOREM ExitIsFaithful == Spec => []ExitFaithful
  <1>1. Inv => ExitFaithful
    BY DEF Inv, TypeInv, ProcessInv, ClientInv, ErrInv, ExitInv, ExitFaithful,
           Signalled, DockerError
  <1> QED BY InvHolds, <1>1, PTL

(* main and the command of buildDockerArgs: a container that was started    *)
(* within the grace period, less what the durations may have been rounded   *)
(* up by, and still runs when the launcher has ended was left behind by a   *)
(* signal, never by the deadline; unless a duration was written as 0.       *)
THEOREM OrphanIsLate == Spec => []OrphanOnlyIfLate
  <1>1. Inv => OrphanOnlyIfLate
    <2> SUFFICES ASSUME Inv, TimeoutText > 0, KillAfterText > 0,
                        launcher = "exited", container \in {"running", "termed"},
                        started + 2 * (Resolution \div 2) < Grace
                 PROVE  ctx = "canceled"
      BY DEF OrphanOnlyIfLate
    <2>1. ctx # "live"
      BY DEF Inv, ProcessInv, ClientInv
    <2>2. now <= KillAt
      BY TextLemma DEF Inv, TypeInv, TimeInv, TermAt, KillAt
    <2>3. Resolution \div 2 \in Nat
      BY TimeAssumption
    <2>4. KillAt < Deadline
      BY <2>3, TextLemma, TimeAssumption DEF Inv, TypeInv, Deadline, KillAt
    <2>5. now < Deadline
      BY <2>2, <2>4, TextLemma, TimeAssumption DEF Inv, TypeInv, Deadline, KillAt
    <2>6. ctx # "deadline"
      BY <2>5, TimeAssumption DEF Inv, TypeInv, TimeInv, Deadline
    <2> QED BY <2>1, <2>6 DEF Inv, TypeInv
  <1> QED BY InvHolds, <1>1, PTL
=============================================================================
