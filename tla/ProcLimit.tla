----------------------------- MODULE ProcLimit -----------------------------
(***************************************************************************)
(* The process limit of src/syscall_filter.c: the fork, vfork, clone,      *)
(* clone3 and execve branches of event_pre_syscall.                        *)
(*                                                                         *)
(* The counter and its mutex live in the client's memory, and there is one *)
(* client per address space: a task created with CLONE_VM shares its       *)
(* creator's, fork copies it as it is at that moment, execve starts a new  *)
(* one.  A counted call takes the mutex, then counts, releases the mutex   *)
(* and compares; the kernel creates the task in a step of its own.         *)
(***************************************************************************)
EXTENDS Integers, FiniteSets

CONSTANTS
    g_max_procs,   \* DR_MAX_PROCS
    IntMax,        \* int counts up to IntMax (2^31 - 1)
    AppMay,        \* calls this application also makes, see AppCalls
    MaxTasks,      \* bound: tasks alive at the same time
    MaxClients,    \* bound: address spaces ever created
    ProcCap,       \* bound: processes ever created
    CountCap       \* bound: a client that has counted so far counts no more

(* Always possible are fork, also while other tasks share the address space,*)
(* vfork and clone.  Switched on per instance is clone3.                    *)
AppCalls == {"clone3"}

ASSUME ProcAssumption ==
    /\ g_max_procs \in 1..IntMax /\ IntMax \in Nat
    /\ MaxTasks \in Nat \ {0} /\ MaxClients \in Nat \ {0}
    /\ ProcCap \in Nat /\ CountCap \in Nat
    /\ AppMay \subseteq AppCalls

Tasks   == 1..MaxTasks
Clients == 1..MaxClients

(* What a call creates: a process with a copy of the memory, a process that *)
(* shares it, a thread.                                                     *)
Kinds == {"fork", "share", "thread"}

VARIABLES
    phase,         \* per task: free (no such task), app, counting, kernel
    kind,          \* per task: what its call creates, none between calls
    leader,        \* per task: the first task of its process, 0 when free
    client,        \* per task: the client in its address space, 0 when free
    procs,         \* processes created so far
    clients,       \* clients started so far
    g_proc_count,  \* per client
    g_mutex,       \* per client: the holder, 0 if free
    g_block_exec,  \* DR_EXEC, fixed at start-up
    copied         \* history: clients copied while their mutex was held

vars == <<phase, kind, leader, client, procs, clients, g_proc_count, g_mutex, g_block_exec, copied>>

Init ==
    /\ phase = [t \in Tasks |-> IF t = 1 THEN "app" ELSE "free"]
    /\ kind = [t \in Tasks |-> "none"]
    /\ leader = [t \in Tasks |-> IF t = 1 THEN 1 ELSE 0]
    /\ client = [t \in Tasks |-> IF t = 1 THEN 1 ELSE 0]
    /\ procs = 1 /\ clients = 1
    /\ g_proc_count = [c \in Clients |-> 0] /\ g_mutex = [c \in Clients |-> 0]
    /\ g_block_exec \in BOOLEAN /\ copied = {}

-----------------------------------------------------------------------------
(* new_proc.  The first parameter of clone3 is the address of its arguments:*)
(* the flag is taken from a bit of that address, which may be either.       *)
new_proc(k) == IF "clone3" \in AppMay THEN BOOLEAN ELSE {k # "thread"}

(* fork, vfork, clone or clone3; counted calls wait for dr_mutex_lock.      *)
PreCreate(t, k, counted) ==
    /\ phase[t] = "app"
    /\ procs < ProcCap /\ g_proc_count[client[t]] < CountCap
    /\ counted => g_mutex[client[t]] = 0
    /\ g_mutex' = IF counted THEN [g_mutex EXCEPT ![client[t]] = t] ELSE g_mutex
    /\ phase' = [phase EXCEPT ![t] = IF counted THEN "counting" ELSE "kernel"]
    /\ kind' = [kind EXCEPT ![t] = k]
    /\ UNCHANGED <<leader, client, procs, clients, g_proc_count, g_block_exec, copied>>

(* The call ends: refused, failed, or answered in the creating task.        *)
Return(t) ==
    /\ phase' = [phase EXCEPT ![t] = "app"]
    /\ kind' = [kind EXCEPT ![t] = "none"]

Incremented(n) == IF n = IntMax THEN -IntMax - 1 ELSE n + 1

(* ++g_proc_count, dr_mutex_unlock, and the comparison with the limit.  The *)
(* first two forms leave a refused call without unlocking, and allow one    *)
(* process too many.                                                        *)
PreCountKeepsLock(t) ==
    LET cnt == Incremented(g_proc_count[client[t]])
    IN  /\ phase[t] = "counting"
        /\ g_proc_count' = [g_proc_count EXCEPT ![client[t]] = cnt]
        /\ g_mutex' = [g_mutex EXCEPT ![client[t]] = IF cnt > g_max_procs THEN t ELSE 0]
        /\ \/ cnt > g_max_procs /\ Return(t)
           \/ cnt <= g_max_procs /\ phase' = [phase EXCEPT ![t] = "kernel"] /\ UNCHANGED kind
        /\ UNCHANGED <<leader, client, procs, clients, g_block_exec, copied>>

PreCountOneMore(t) ==
    LET cnt == Incremented(g_proc_count[client[t]])
    IN  /\ phase[t] = "counting"
        /\ g_proc_count' = [g_proc_count EXCEPT ![client[t]] = cnt]
        /\ g_mutex' = [g_mutex EXCEPT ![client[t]] = 0]
        /\ \/ cnt > g_max_procs + 1 /\ Return(t)
           \/ cnt <= g_max_procs + 1 /\ phase' = [phase EXCEPT ![t] = "kernel"] /\ UNCHANGED kind
        /\ UNCHANGED <<leader, client, procs, clients, g_block_exec, copied>>

PreCount(t) ==
    LET cnt == Incremented(g_proc_count[client[t]])
    IN  /\ phase[t] = "counting"
        /\ g_proc_count' = [g_proc_count EXCEPT ![client[t]] = cnt]
        /\ g_mutex' = [g_mutex EXCEPT ![client[t]] = 0]
        /\ \/ cnt > g_max_procs /\ Return(t)
           \/ cnt <= g_max_procs /\ phase' = [phase EXCEPT ![t] = "kernel"] /\ UNCHANGED kind
        /\ UNCHANGED <<leader, client, procs, clients, g_block_exec, copied>>

-----------------------------------------------------------------------------
(* The kernel answers a call that passed.  External.                        *)
Child(u) == phase[u] = "free" /\ \A v \in 1..(u - 1) : phase[v] # "free"

Answer(t, u) ==
    /\ phase' = [phase EXCEPT ![t] = "app", ![u] = "app"]
    /\ kind' = [kind EXCEPT ![t] = "none"]

KernelFork(t, u) ==
    /\ phase[t] = "kernel" /\ kind[t] = "fork" /\ Child(u)
    /\ clients < MaxClients
    /\ clients' = clients + 1 /\ procs' = procs + 1
    /\ client' = [client EXCEPT ![u] = clients']
    /\ g_proc_count' = [g_proc_count EXCEPT ![clients'] = g_proc_count[client[t]]]
    /\ g_mutex' = [g_mutex EXCEPT ![clients'] = g_mutex[client[t]]]
    /\ leader' = [leader EXCEPT ![u] = u]
    /\ copied' = IF g_mutex[client[t]] # 0 THEN copied \cup {clients'} ELSE copied
    /\ Answer(t, u)
    /\ UNCHANGED g_block_exec

KernelClone(t, u) ==
    /\ phase[t] = "kernel" /\ kind[t] # "fork" /\ Child(u)
    /\ client' = [client EXCEPT ![u] = client[t]]
    /\ leader' = [leader EXCEPT ![u] = IF kind[t] = "thread" THEN leader[t] ELSE u]
    /\ procs' = IF kind[t] = "thread" THEN procs ELSE procs + 1
    /\ Answer(t, u)
    /\ UNCHANGED <<clients, g_proc_count, g_mutex, g_block_exec, copied>>

KernelFails(t) ==
    /\ phase[t] = "kernel"
    /\ Return(t)
    /\ UNCHANGED <<leader, client, procs, clients, g_proc_count, g_mutex, g_block_exec, copied>>

(* These tasks are gone; no filter code runs in them and nothing is counted *)
(* back.                                                                    *)
Vanish(gone) ==
    /\ phase' = [t \in Tasks |-> IF t \in gone THEN "free" ELSE phase[t]]
    /\ leader' = [t \in Tasks |-> IF t \in gone THEN 0 ELSE leader[t]]

KernelExit(t) ==
    /\ phase[t] = "app"
    /\ \A u \in Tasks \ {t} : leader[u] # t
    /\ Vanish({t})
    /\ client' = [client EXCEPT ![t] = 0]
    /\ UNCHANGED <<kind, procs, clients, g_proc_count, g_mutex, g_block_exec, copied>>

-----------------------------------------------------------------------------
(* execve by the first task of a process: it goes on as one task with a new *)
(* client.  The process's threads end; none of them is in the filter.  When *)
(* refused, nothing changes.                                                *)
PreExec(t) ==
    LET threads == {u \in Tasks \ {t} : leader[u] = t}
    IN  /\ ~g_block_exec
        /\ phase[t] = "app" /\ leader[t] = t /\ \A u \in threads : phase[u] = "app"
        /\ clients < MaxClients
        /\ clients' = clients + 1
        /\ Vanish(threads)
        /\ client' = [u \in Tasks |-> IF u = t THEN clients'
                                      ELSE IF u \in threads THEN 0 ELSE client[u]]
        /\ UNCHANGED <<kind, procs, g_proc_count, g_mutex, g_block_exec, copied>>

Next ==
    \E t \in Tasks :
        \/ \E k \in Kinds : \E counted \in new_proc(k) : PreCreate(t, k, counted)
        \/ PreCount(t)
        \/ \E u \in Tasks : KernelFork(t, u) \/ KernelClone(t, u)
        \/ KernelFails(t) \/ KernelExit(t) \/ PreExec(t)

Spec == Init /\ [][Next]_vars

-----------------------------------------------------------------------------
(* Where exec is blocked the limit bounds the whole tree of processes, dead *)
(* ones included: not by g_max_procs, since every fork takes a copy of the  *)
(* counter along, but by 2^g_max_procs, since the copy counts the call that *)
(* made it.                                                                 *)
TreeBound == g_block_exec => procs <= 2^g_max_procs

(* Every path of the counting branches releases g_mutex: its holder is a    *)
(* task of that client that is about to unlock.  The one way to lose it is  *)
(* to be copied by fork while another task holds it: that client never gets *)
(* it back, and none of its tasks ever gets past dr_mutex_lock.             *)
MutexHeldInside ==
    \A c \in Clients :
        IF c \in copied
        THEN g_mutex[c] # 0 /\ \A t \in Tasks : client[t] = c => phase[t] # "counting"
        ELSE g_mutex[c] # 0 => phase[g_mutex[c]] = "counting" /\ client[g_mutex[c]] = c
=============================================================================
