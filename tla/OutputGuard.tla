---------------------------- MODULE OutputGuard ----------------------------
(***************************************************************************)
(* The output caps of src/syscall_filter.c: enforce_output_limit, the      *)
(* write branch of event_pre_syscall that calls it, and the time budget    *)
(* that is checked before it, together with the loop in which a program    *)
(* writes the rest of what was not taken.                                  *)
(*                                                                         *)
(* Descriptors 1 and 2 have a counter and a limit each.  The pre event     *)
(* charges a write before the kernel executes it, and nothing corrects the *)
(* charge afterwards.  The counters are shared by all threads and no lock  *)
(* protects them, so that the loads and the store of one event are separate*)
(* steps; where the source reads the counter again, the compiled code may  *)
(* use the value it loaded before or load it anew, and both are allowed.   *)
(***************************************************************************)
EXTENDS Integers

CONSTANTS
    Threads,             \* application threads
    Lengths,             \* byte counts the application passes to write
    g_max_stdout_bytes,  \* DR_MAX_STDOUT_BYTES, 0 = unlimited
    g_max_stderr_bytes,  \* DR_MAX_STDERR_BYTES, 0 = unlimited
    SizeMod,             \* size_t is arithmetic modulo SizeMod (2^64)
    AppMay,              \* ways of writing this application uses, see AppWays
    WrittenCap           \* bound: a stream takes no more bytes than this

(* write and pwrite64 are always possible; switched on per instance are     *)
(* writev, and writing to a stream through a duplicate of its descriptor.   *)
AppWays == {"writev", "duplicate"}

Guarded == {1, 2}
Copies  == IF "duplicate" \in AppMay THEN {3} ELSE {}
StreamOf(fd) == IF fd \in Guarded THEN fd ELSE 1

limit == [fd \in Guarded |-> IF fd = 1 THEN g_max_stdout_bytes ELSE g_max_stderr_bytes]

ASSUME GuardAssumption ==
    /\ g_max_stdout_bytes \in 0..(SizeMod - 1) /\ g_max_stderr_bytes \in 0..(SizeMod - 1)
    /\ SizeMod \in Nat \ {0} /\ Lengths \subseteq 0..(SizeMod - 1) /\ WrittenCap \in Nat
    /\ AppMay \subseteq AppWays

VARIABLES
    used,      \* g_stdout_bytes and g_stderr_bytes
    written,   \* bytes the kernel has accepted for each stream
    pc,        \* per thread: phase of the write in progress
    todo,      \* per thread: descriptor and bytes still to be written
    count,     \* per thread: the call's length parameter
    base,      \* per thread: the counter value it has loaded
    cpu,       \* g_max_cpu_ms: unlimited, not yet used up, used up
    g_output_truncate  \* DR_OUTPUT_LIMIT_ACTION=truncate, fixed at start-up

vars == <<used, written, pc, todo, count, base, cpu, g_output_truncate>>

Nothing == [fd |-> 0, n |-> 0]

WrapSub(a, b) == IF a >= b THEN a - b ELSE a - b + SizeMod
WrapAdd(a, b) == IF a + b < SizeMod THEN a + b ELSE a + b - SizeMod

Limited(fd) == fd \in Guarded /\ limit[fd] > 0

-----------------------------------------------------------------------------
Init ==
    /\ used = [fd \in Guarded |-> 0] /\ written = [fd \in Guarded |-> 0]
    /\ pc = [t \in Threads |-> "app"]
    /\ todo = [t \in Threads |-> Nothing]
    /\ count = [t \in Threads |-> 0]
    /\ base = [t \in Threads |-> 0]
    /\ cpu \in {"unlimited", "left"}
    /\ g_output_truncate \in BOOLEAN

(* Time passes the budget.                                                  *)
Expire ==
    /\ cpu = "left"
    /\ cpu' = "spent"
    /\ UNCHANGED <<used, written, pc, todo, count, base, g_output_truncate>>

Goto(t, phase, n, b) ==
    /\ pc' = [pc EXCEPT ![t] = phase]
    /\ count' = [count EXCEPT ![t] = n]
    /\ base' = [base EXCEPT ![t] = b]
    /\ UNCHANGED <<cpu, g_output_truncate>>

(* The call returns to a program that tries again while bytes are left.     *)
Return(t, left) ==
    /\ Goto(t, IF left > 0 THEN "pre" ELSE "app", 0, 0)
    /\ todo' = [todo EXCEPT ![t] = IF left > 0 THEN [@ EXCEPT !.n = left] ELSE Nothing]

(* An error ends the loop.                                                  *)
Fail(t) == Return(t, 0) /\ UNCHANGED <<used, written>>

-----------------------------------------------------------------------------
(* The program has n bytes to write, or drops what is left.  External.      *)
Begin(t, fd, n) ==
    /\ pc[t] = "app"
    /\ Goto(t, "pre", 0, 0)
    /\ todo' = [todo EXCEPT ![t] = [fd |-> fd, n |-> n]]
    /\ UNCHANGED <<used, written>>

GiveUp(t) == pc[t] = "pre" /\ Fail(t)

-----------------------------------------------------------------------------
Fd(t) == todo[t].fd
N(t)  == todo[t].n

(* check_cpuish_budget: ETIMEDOUT, before anything else is looked at.       *)
check_cpuish_budget == cpu # "spent"

PreTimedOut(t) ==
    /\ pc[t] = "pre" /\ ~check_cpuish_budget
    /\ Fail(t)

(* writev, and every write to a descriptor without a limit, is not counted; *)
(* writev is not timed either.                                              *)
PreUncounted(t) ==
    /\ pc[t] = "pre"
    /\ (check_cpuish_budget /\ ~Limited(Fd(t))) \/ "writev" \in AppMay
    /\ Goto(t, "policy", N(t), 0)
    /\ UNCHANGED <<used, written, todo>>

(* enforce_output_limit, first load: the cap is reached, and the answer is  *)
(* EFBIG, or 0 bytes when truncating.  The first form always answers 0.     *)
PreAtLimitEmpty(t) ==
    /\ pc[t] = "pre" /\ check_cpuish_budget
    /\ Limited(Fd(t)) /\ used[Fd(t)] >= limit[Fd(t)]
    /\ Return(t, N(t))
    /\ UNCHANGED <<used, written>>

PreAtLimit(t) ==
    /\ pc[t] = "pre" /\ check_cpuish_budget
    /\ Limited(Fd(t)) /\ used[Fd(t)] >= limit[Fd(t)]
    /\ Return(t, IF g_output_truncate THEN N(t) ELSE 0)
    /\ UNCHANGED <<used, written>>

(* ... or not.                                                              *)
PreBelowLimit(t) ==
    /\ pc[t] = "pre" /\ check_cpuish_budget
    /\ Limited(Fd(t)) /\ used[Fd(t)] < limit[Fd(t)]
    /\ Goto(t, "charge", N(t), used[Fd(t)])
    /\ UNCHANGED <<used, written, todo>>

(* Second load: what remains of the cap.                                    *)
Loads(t) == {base[t], used[Fd(t)]}

Remaining(t, loaded) == WrapSub(limit[Fd(t)], loaded)

(* Too long, DR_OUTPUT_LIMIT_ACTION=fail.                                   *)
PreTooLong(t, loaded) ==
    /\ pc[t] = "charge" /\ ~g_output_truncate
    /\ N(t) > Remaining(t, loaded)
    /\ Fail(t)

(* The length that passes: cut to what remains.  The first form cuts to the *)
(* overrun.                                                                 *)
RequestedOverrun(t, loaded) ==
    IF N(t) > Remaining(t, loaded) THEN Remaining(t, loaded) - N(t) ELSE N(t)

Requested(t, loaded) ==
    IF N(t) > Remaining(t, loaded) THEN Remaining(t, loaded) ELSE N(t)

(* The call passes; third load.  The first form counts the cut but leaves   *)
(* the application's length in the call's parameter.                        *)
PreChargeUncut(t, loaded, again) ==
    /\ pc[t] = "charge"
    /\ N(t) > Remaining(t, loaded) => g_output_truncate
    /\ Goto(t, "store", N(t), WrapAdd(again, Requested(t, loaded)))
    /\ UNCHANGED <<used, written, todo>>

PreCharge(t, loaded, again) ==
    /\ pc[t] = "charge"
    /\ N(t) > Remaining(t, loaded) => g_output_truncate
    /\ Goto(t, "store", Requested(t, loaded), WrapAdd(again, Requested(t, loaded)))
    /\ UNCHANGED <<used, written, todo>>

(* The counter is stored; the first form forgets to.                        *)
PreStoreForgotten(t) ==
    /\ pc[t] = "store"
    /\ Goto(t, "policy", count[t], 0)
    /\ UNCHANGED <<used, written, todo>>

PreStore(t) ==
    /\ pc[t] = "store"
    /\ used' = [used EXCEPT ![Fd(t)] = base[t]]
    /\ Goto(t, "policy", count[t], 0)
    /\ UNCHANGED <<written, todo>>

(* After the charge: the descriptor's write rule, DR_STDIO_ONLY_WRITES.     *)
PreRefusedByRule(t) == pc[t] = "policy" /\ Fail(t)

-----------------------------------------------------------------------------
(* The kernel accepts some of the bytes (none only when none are offered),  *)
(* or fails.  External.                                                     *)
KernelWrite(t, k) ==
    /\ pc[t] = "policy"
    /\ k <= count[t] /\ (k = 0 => count[t] = 0)
    /\ written[StreamOf(Fd(t))] + k <= WrittenCap
    /\ written' = [written EXCEPT ![StreamOf(Fd(t))] = @ + k]
    /\ Return(t, N(t) - k)
    /\ UNCHANGED used

KernelFails(t) == pc[t] = "policy" /\ Fail(t)

-----------------------------------------------------------------------------
(* What a thread does once it has bytes to write.                           *)
Step(t) ==
    \/ PreTimedOut(t) \/ PreUncounted(t) \/ PreAtLimit(t) \/ PreBelowLimit(t)
    \/ pc[t] = "charge" /\ \E loaded \in Loads(t) :
          \/ PreTooLong(t, loaded)
          \/ \E again \in {loaded, used[Fd(t)]} : PreCharge(t, loaded, again)
    \/ PreStore(t) \/ PreRefusedByRule(t)
    \/ \E k \in 0..WrittenCap : KernelWrite(t, k)
    \/ KernelFails(t)

Next ==
    \/ Expire
    \/ \E t \in Threads :
          \/ \E fd \in Guarded \cup Copies, n \in Lengths : Begin(t, fd, n)
          \/ GiveUp(t) \/ Step(t)

(* Time passes, and a thread that is in a call or has bytes left goes on:   *)
(* the scheduler runs it and the kernel answers.  Nothing makes a program   *)
(* begin or give up.                                                        *)
Spec == Init /\ [][Next]_vars /\ WF_vars(Expire) /\ \A t \in Threads : WF_vars(Step(t))

-----------------------------------------------------------------------------
(* Type invariant: the counters are size_t values.                          *)
TypeOK ==
    /\ used \in [Guarded -> 0..(SizeMod - 1)]
    /\ written \in [Guarded -> 0..WrittenCap]
    /\ pc \in [Threads -> {"app", "pre", "charge", "store", "policy"}]
    /\ todo \in [Threads -> [fd : {0, 1, 2, 3}, n : 0..(SizeMod - 1)]]
    /\ count \in [Threads -> 0..(SizeMod - 1)]
    /\ base \in [Threads -> 0..(SizeMod - 1)]
    /\ cpu \in {"unlimited", "left", "spent"}
    /\ g_output_truncate \in BOOLEAN

(* What reaches a limited stream never exceeds its cap, whether writes are  *)
(* refused or cut, and whatever part of them the kernel accepts.            *)
OutputWithinLimit == \A fd \in Guarded : Limited(fd) => written[fd] <= limit[fd]

(* Between calls the counter of a limited stream covers what was written and*)
(* stays within the limit, so that limit - used does not wrap round.        *)
ChargeCoversOutput ==
    (\A t \in Threads : pc[t] \in {"app", "pre"}) =>
        \A fd \in Guarded : Limited(fd) => written[fd] <= used[fd] /\ used[fd] <= limit[fd]

(* A program that writes until everything is out, and stops on an error,    *)
(* gets through: enforce_output_limit never keeps it at the cap for ever,   *)
(* if writes at the cap fail or check_cpuish_budget ends the wait.          *)
WriteLoopEnds ==
    (~g_output_truncate \/ cpu # "unlimited") =>
        \A t \in Threads : pc[t] # "app" ~> pc[t] = "app"
=============================================================================
