--------------------------- MODULE ProcLimitProof ---------------------------
(***************************************************************************)
(* Proofs about ProcLimit, for every limit and any number of tasks and     *)
(* clients: g_mutex is only lost where fork copies it while it is held, and*)
(* the tree of processes is bounded by 2^g_max_procs.                      *)
(***************************************************************************)
EXTENDS ProcLimit, Counting, TLAPS

-----------------------------------------------------------------------------
(* Typing: a task that exists has a client that has been started.           *)
TypeInv ==
    /\ phase \in [Tasks -> {"free", "app", "counting", "kernel"}]
    /\ kind \in [Tasks -> Kinds \cup {"none"}]
    /\ leader \in [Tasks -> 0..MaxTasks]
    /\ client \in [Tasks -> 0..MaxClients]
    /\ procs \in Nat /\ clients \in Clients
    /\ g_proc_count \in [Clients -> Int] /\ g_mutex \in [Clients -> 0..MaxTasks]
    /\ copied \subseteq Clients
    /\ \A t \in Tasks : client[t] <= clients /\ (client[t] = 0 <=> phase[t] = "free")

(* Initially.                                                               *)
LEMMA TypeInit == Init => TypeInv
  BY ProcAssumption DEF Init, TypeInv, Tasks, Clients

(* A task that exists has a client.                                         *)
LEMMA HasClient ==
    ASSUME TypeInv, NEW t \in Tasks, phase[t] # "free"
    PROVE  client[t] \in Clients
  BY ProcAssumption DEF TypeInv, Clients

(* One step keeps the types, whatever the tasks do.                         *)
LEMMA TypeStep == TypeInv /\ [Next]_vars => TypeInv'
  <1> SUFFICES ASSUME TypeInv, [Next]_vars PROVE TypeInv'
    OBVIOUS
  <1>0. Tasks \subseteq 1..MaxTasks /\ MaxTasks \in Nat /\ MaxClients \in Nat /\ clients \in 1..MaxClients
    BY ProcAssumption DEF Tasks, Clients, TypeInv
  <1>1. ASSUME NEW t \in Tasks, NEW k \in Kinds, NEW counted \in BOOLEAN, PreCreate(t, k, counted)
        PROVE  TypeInv'
    <2>1. client[t] \in Clients
      BY <1>1, HasClient DEF PreCreate
    <2>2. g_mutex' \in [Clients -> 0..MaxTasks]
      BY <1>0, <1>1, <2>1 DEF PreCreate, TypeInv
    <2> QED BY <1>1, <2>2 DEF PreCreate, TypeInv, Kinds
  <1>2. ASSUME NEW t \in Tasks, PreCount(t) PROVE TypeInv'
    <2>1. client[t] \in Clients
      BY <1>2, HasClient DEF PreCount
    <2>2. g_mutex' \in [Clients -> 0..MaxTasks]
      BY <1>0, <1>2, <2>1 DEF PreCount, TypeInv
    <2>3. Incremented(g_proc_count[client[t]]) \in Int
      BY <2>1, ProcAssumption DEF Incremented, TypeInv
    <2>4. g_proc_count' \in [Clients -> Int]
      BY <1>2, <2>1, <2>3 DEF PreCount, TypeInv
    <2> QED BY <1>2, <2>2, <2>4 DEF PreCount, Return, TypeInv
  <1>3. ASSUME NEW t \in Tasks, NEW u \in Tasks, KernelFork(t, u) PROVE TypeInv'
    <2>1. client[t] \in Clients
      BY <1>3, HasClient DEF KernelFork
    <2>2. clients' = clients + 1 /\ clients' \in Clients
      BY <1>0, <1>3 DEF KernelFork, Clients
    <2>3. t # u /\ phase[u] = "free"
      BY <1>3 DEF KernelFork, Child
    <2>4. phase' \in [Tasks -> {"free", "app", "counting", "kernel"}]
          /\ kind' \in [Tasks -> Kinds \cup {"none"}]
      BY <1>3 DEF KernelFork, Answer, TypeInv
    <2>5. leader' \in [Tasks -> 0..MaxTasks]
      BY <1>0, <1>3 DEF KernelFork, TypeInv, Tasks
    <2>8. client' \in [Tasks -> 0..MaxClients]
      BY <1>0, <1>3, <2>2 DEF KernelFork, TypeInv, Clients
    <2>6. g_proc_count' \in [Clients -> Int] /\ g_mutex' \in [Clients -> 0..MaxTasks]
      BY <1>3, <2>1, <2>2 DEF KernelFork, TypeInv
    <2>7. \A v \in Tasks : client'[v] <= clients' /\ (client'[v] = 0 <=> phase'[v] = "free")
      BY <1>0, <1>3, <2>2, <2>3 DEF KernelFork, Answer, TypeInv
    <2> QED BY <1>3, <2>2, <2>4, <2>5, <2>6, <2>7, <2>8 DEF KernelFork, TypeInv
  <1>4. ASSUME NEW t \in Tasks, NEW u \in Tasks, KernelClone(t, u) PROVE TypeInv'
    <2>1. client[t] \in Clients /\ t # u /\ phase[u] = "free"
      BY <1>4, HasClient DEF KernelClone, Child
    <2>4. phase' \in [Tasks -> {"free", "app", "counting", "kernel"}]
          /\ kind' \in [Tasks -> Kinds \cup {"none"}]
      BY <1>4 DEF KernelClone, Answer, TypeInv
    <2>5. leader' \in [Tasks -> 0..MaxTasks] /\ client' \in [Tasks -> 0..MaxClients]
      BY <1>0, <1>4, <2>1 DEF KernelClone, TypeInv, Tasks
    <2>7. \A v \in Tasks : client'[v] <= clients' /\ (client'[v] = 0 <=> phase'[v] = "free")
      BY <1>0, <1>4, <2>1 DEF KernelClone, Answer, TypeInv, Clients
    <2> QED BY <1>4, <2>4, <2>5, <2>7 DEF KernelClone, TypeInv
  <1>5. ASSUME NEW t \in Tasks, KernelFails(t) PROVE TypeInv'
    BY <1>5 DEF KernelFails, Return, TypeInv
  <1>6. ASSUME NEW t \in Tasks, KernelExit(t) PROVE TypeInv'
    BY <1>0, <1>6 DEF KernelExit, Vanish, TypeInv
  <1>7. ASSUME NEW t \in Tasks, PreExec(t) PROVE TypeInv'
    <2>1. clients' = clients + 1 /\ clients' \in Clients
      BY <1>0, <1>7 DEF PreExec, Clients
    <2>4. phase' \in [Tasks -> {"free", "app", "counting", "kernel"}]
          /\ leader' \in [Tasks -> 0..MaxTasks]
      BY <1>0, <1>7 DEF PreExec, Vanish, TypeInv
    <2>5. client' \in [Tasks -> 0..MaxClients]
      BY <1>0, <1>7, <2>1 DEF PreExec, TypeInv, Clients
    <2>7. \A v \in Tasks : client'[v] <= clients' /\ (client'[v] = 0 <=> phase'[v] = "free")
      BY <1>0, <1>7, <2>1 DEF PreExec, Vanish, TypeInv
    <2> QED BY <1>7, <2>1, <2>4, <2>5, <2>7 DEF PreExec, TypeInv
  <1>8. CASE UNCHANGED vars
    BY <1>8 DEF vars, TypeInv
  <1> QED BY <1>1, <1>2, <1>3, <1>4, <1>5, <1>6, <1>7, <1>8 DEF Next, new_proc

-----------------------------------------------------------------------------
(* The mutex.  Only started clients have been copied, and one not started   *)
(* yet has a free mutex.                                                    *)
LockInv ==
    /\ MutexHeldInside
    /\ \A c \in copied : c <= clients
    /\ \A c \in Clients : c > clients => g_mutex[c] = 0

(* One step, action by action: only fork copies a mutex.                    *)
LEMMA LockStep ==
    ASSUME TypeInv, LockInv, [Next]_vars
    PROVE  LockInv'
  <1>0. MaxTasks \in Nat /\ MaxClients \in Nat /\ clients \in 1..MaxClients /\ 0 \notin Tasks
    BY ProcAssumption DEF Clients, TypeInv, Tasks
  <1>h. \A c \in Clients : g_mutex[c] # 0 => g_mutex[c] \in Tasks
    BY <1>0 DEF TypeInv, Tasks
  <1>c. \A t \in Tasks : client[t] <= clients /\ client[t] \in Nat
    BY <1>0 DEF TypeInv
  <1>n. \A c \in copied : c \in Nat /\ c <= clients
    BY <1>0 DEF TypeInv, LockInv, Clients
  <1> USE DEF LockInv, MutexHeldInside
  <1>1. ASSUME NEW t \in Tasks, NEW k \in Kinds, NEW counted \in BOOLEAN, PreCreate(t, k, counted)
        PROVE  LockInv'
    <2>1. client[t] \in Clients
      BY <1>1, HasClient DEF PreCreate
    <2>2. UNCHANGED <<client, clients, copied>>
      BY <1>1 DEF PreCreate
    <2>3. CASE counted
      <3>1. /\ g_mutex[client[t]] = 0 /\ client[t] \notin copied
            /\ g_mutex' = [g_mutex EXCEPT ![client[t]] = t]
            /\ phase' = [phase EXCEPT ![t] = "counting"]
        BY <1>1, <2>1, <2>3 DEF PreCreate
      <3> QED BY <1>0, <1>c, <1>h, <1>1, <2>1, <2>2, <3>1 DEF PreCreate, TypeInv
    <2>4. CASE ~counted
      <3>1. g_mutex' = g_mutex /\ phase' = [phase EXCEPT ![t] = "kernel"] /\ phase[t] = "app"
        BY <1>1, <2>4 DEF PreCreate
      <3> QED BY <1>h, <2>2, <3>1 DEF TypeInv
    <2> QED BY <2>3, <2>4
  <1>2. ASSUME NEW t \in Tasks, PreCount(t) PROVE LockInv'
    <2>1. client[t] \in Clients /\ phase[t] = "counting"
      BY <1>2, HasClient DEF PreCount
    <2>2. /\ UNCHANGED <<client, clients, copied>>
          /\ g_mutex' = [g_mutex EXCEPT ![client[t]] = 0]
      BY <1>2 DEF PreCount
    <2>3. client[t] \notin copied
      BY <2>1
    <2>4. \A v \in Tasks : v # t => phase'[v] = phase[v]
      BY <1>2 DEF PreCount, Return, TypeInv
    <2>5. phase'[t] # "counting"
      BY <1>2 DEF PreCount, Return, TypeInv
    <2>6. \A c \in Clients : c # client[t] => g_mutex'[c] = g_mutex[c]
      BY <2>2 DEF TypeInv
    <2>7. g_mutex'[client[t]] = 0
      BY <2>1, <2>2 DEF TypeInv
    <2> QED BY <1>h, <2>1, <2>2, <2>3, <2>4, <2>5, <2>6, <2>7
  <1>3. ASSUME NEW t \in Tasks, NEW u \in Tasks, KernelFork(t, u) PROVE LockInv'
    <2>1. client[t] \in Clients /\ phase[t] = "kernel"
      BY <1>3, HasClient DEF KernelFork
    <2>2. clients' = clients + 1 /\ clients' \in Clients /\ t # u /\ phase[u] = "free"
      BY <1>0, <1>3 DEF KernelFork, Child, Clients
    <2>3. /\ g_mutex'[clients'] = g_mutex[client[t]]
          /\ \A c \in Clients : c # clients' => g_mutex'[c] = g_mutex[c]
      BY <1>3, <2>2 DEF KernelFork, TypeInv
    <2>4. copied' = IF g_mutex[client[t]] # 0 THEN copied \cup {clients'} ELSE copied
      BY <1>3 DEF KernelFork
    <2>5. /\ client'[u] = clients' /\ phase'[u] = "app" /\ phase'[t] = "app"
          /\ \A v \in Tasks : v # u => client'[v] = client[v]
          /\ \A v \in Tasks : v \notin {t, u} => phase'[v] = phase[v]
      BY <1>3, <2>2 DEF KernelFork, Answer, TypeInv
    <2>6. clients' \notin copied /\ \A v \in Tasks : client[v] # clients'
      BY <1>0, <1>c, <2>2
    <2>7. ASSUME NEW c \in Clients
          PROVE  IF c \in copied'
                 THEN g_mutex'[c] # 0 /\ \A v \in Tasks : client'[v] = c => phase'[v] # "counting"
                 ELSE g_mutex'[c] # 0 => phase'[g_mutex'[c]] = "counting" /\ client'[g_mutex'[c]] = c
      <3>1. CASE c = clients'
        <4>1. c \in copied' <=> g_mutex'[c] # 0
          BY <2>3, <2>4, <2>6, <3>1
        <4>2. \A v \in Tasks : client'[v] = c => phase'[v] # "counting"
          BY <2>5, <2>6, <3>1
        <4> QED BY <4>1, <4>2
      <3>2. CASE c # clients'
        <4>1. (c \in copied' <=> c \in copied) /\ g_mutex'[c] = g_mutex[c]
          BY <2>3, <2>4, <3>2
        <4>2. \A v \in Tasks : client'[v] = c => client[v] = c /\ v # u
          BY <2>5, <3>2
        <4>3. \A v \in Tasks : v # u /\ phase'[v] = "counting" => phase[v] = "counting"
          BY <2>5
        <4>4. \A v \in Tasks : phase[v] = "counting" => phase'[v] = "counting" /\ client'[v] = client[v]
          BY <2>1, <2>2, <2>5
        <4> QED BY <1>h, <4>1, <4>2, <4>3, <4>4
      <3> QED BY <3>1, <3>2
    <2>8. \A c \in copied' : c <= clients'
      <3>1. \A c \in copied : c <= clients + 1
        BY <1>0, <1>n
      <3>2. clients + 1 <= clients + 1
        BY <1>0
      <3> QED BY <2>2, <2>4, <3>1, <3>2
    <2>9. \A c \in Clients : c > clients' => g_mutex'[c] = 0
      BY <1>0, <2>2, <2>3 DEF Clients
    <2> QED BY <2>7, <2>8, <2>9
  <1>4. ASSUME NEW t \in Tasks, NEW u \in Tasks, KernelClone(t, u) PROVE LockInv'
    <2>1. client[t] \in Clients /\ t # u /\ phase[u] = "free" /\ phase[t] = "kernel"
      BY <1>4, HasClient DEF KernelClone, Child
    <2>2. /\ UNCHANGED <<clients, g_mutex, copied>> /\ phase'[u] = "app" /\ phase'[t] = "app"
          /\ \A v \in Tasks : v # u => client'[v] = client[v]
          /\ \A v \in Tasks : v \notin {t, u} => phase'[v] = phase[v]
      BY <1>4, <2>1 DEF KernelClone, Answer, TypeInv
    <2> QED BY <1>h, <2>1, <2>2
  <1>5. ASSUME NEW t \in Tasks, KernelFails(t) PROVE LockInv'
    BY <1>5, <1>h DEF KernelFails, Return, TypeInv
  <1>6. ASSUME NEW t \in Tasks, KernelExit(t) PROVE LockInv'
    <2>1. /\ UNCHANGED <<clients, g_mutex, copied>> /\ phase[t] = "app" /\ phase'[t] = "free"
          /\ \A v \in Tasks : v # t => phase'[v] = phase[v] /\ client'[v] = client[v]
      BY <1>6 DEF KernelExit, Vanish, TypeInv
    <2> QED BY <1>h, <2>1
  <1>7. ASSUME NEW t \in Tasks, PreExec(t) PROVE LockInv'
    <2>1. clients' = clients + 1 /\ clients' \in Clients /\ UNCHANGED <<g_mutex, copied>>
      BY <1>0, <1>7 DEF PreExec, Clients
    <2>2. \A v \in Tasks : phase[v] = "counting" => phase'[v] = "counting" /\ client'[v] = client[v]
      BY <1>7 DEF PreExec, Vanish, TypeInv
    <2>3. \A v \in Tasks : phase'[v] = "counting" => phase[v] = "counting" /\ client'[v] = client[v]
      BY <1>7 DEF PreExec, Vanish, TypeInv
    <2>4. MutexHeldInside'
      BY <1>h, <2>1, <2>2, <2>3
    <2>5. \A c \in copied' : c <= clients'
      BY <1>0, <1>n, <2>1
    <2>6. \A c \in Clients : c > clients' => g_mutex'[c] = 0
      BY <1>0, <2>1 DEF Clients
    <2> QED BY <2>4, <2>5, <2>6
  <1>8. CASE UNCHANGED vars
    BY <1>8 DEF vars
  <1> HIDE DEF LockInv, MutexHeldInside
  <1> QED BY <1>1, <1>2, <1>3, <1>4, <1>5, <1>6, <1>7, <1>8 DEF Next, new_proc

(* dr_mutex_lock and dr_mutex_unlock around ++g_proc_count, for every number*)
(* of tasks and clients and every order of their calls: whoever holds a     *)
(* client's g_mutex is a task of that client about to release it, except in *)
(* a client that was copied while another task held it, where it stays      *)
(* locked and no counted call ever passes.                                  *)
THEOREM MutexIsHeldInside == Spec => []MutexHeldInside
  <1>1. Init => TypeInv /\ LockInv
    BY TypeInit DEF Init, LockInv, MutexHeldInside
  <1>2. TypeInv /\ LockInv /\ [Next]_vars => (TypeInv /\ LockInv)'
    BY TypeStep, LockStep
  <1>3. LockInv => MutexHeldInside
    BY DEF LockInv
  <1> QED BY <1>1, <1>2, <1>3, PTL DEF Spec

-----------------------------------------------------------------------------
(* The tree.  A counter never wraps round where every client stops counting *)
(* in time.  g_mutex keeps a second task of the client from counting between*)
(* another's test of the bound and its increment.                           *)
CountInv ==
    /\ g_proc_count \in [Clients -> Nat]
    /\ \A t \in Tasks : phase[t] = "counting" =>
           g_mutex[client[t]] = t /\ g_proc_count[client[t]] < IntMax

(* One step keeps the counters below the wrap.                              *)
LEMMA CountStep ==
    ASSUME CountCap <= IntMax, TypeInv, CountInv, [Next]_vars
    PROVE  CountInv'
  <1>0. /\ MaxTasks \in Nat /\ MaxClients \in Nat /\ clients \in 1..MaxClients
        /\ IntMax \in Nat /\ CountCap \in Nat /\ 0 \notin Tasks
    BY ProcAssumption DEF Clients, TypeInv, Tasks
  <1>1. ASSUME NEW t \in Tasks, NEW k \in Kinds, NEW counted \in BOOLEAN, PreCreate(t, k, counted)
        PROVE  CountInv'
    <2>1. client[t] \in Clients
      BY <1>1, HasClient DEF PreCreate
    <2>2. g_proc_count' = g_proc_count /\ client' = client /\ g_proc_count[client[t]] < IntMax
      BY <1>0, <1>1, <2>1 DEF PreCreate, CountInv
    <2>3. CASE counted
      BY <1>0, <1>1, <2>1, <2>2, <2>3, HasClient DEF PreCreate, CountInv, TypeInv
    <2>4. CASE ~counted
      BY <1>0, <1>1, <2>1, <2>2, <2>4 DEF PreCreate, CountInv, TypeInv
    <2> QED BY <2>3, <2>4
  <1>2. ASSUME NEW t \in Tasks, PreCount(t) PROVE CountInv'
    <2>1. client[t] \in Clients /\ g_proc_count[client[t]] \in Nat /\ g_proc_count[client[t]] < IntMax
      BY <1>2, HasClient DEF PreCount, CountInv
    <2>2. Incremented(g_proc_count[client[t]]) \in Nat
      BY <1>0, <2>1 DEF Incremented
    <2>3. g_proc_count' \in [Clients -> Nat]
      BY <1>2, <2>1, <2>2 DEF PreCount, CountInv
    <2>4. ASSUME NEW v \in Tasks, phase'[v] = "counting"
          PROVE  g_mutex'[client'[v]] = v /\ g_proc_count'[client'[v]] < IntMax
      <3>1. v # t /\ phase[v] = "counting" /\ client' = client
        BY <1>2, <2>4 DEF PreCount, Return, TypeInv
      <3>2. client[v] # client[t] /\ client[v] \in Clients
        BY <1>2, <3>1, HasClient DEF PreCount, CountInv
      <3> QED BY <1>2, <2>1, <3>1, <3>2 DEF PreCount, CountInv, TypeInv
    <2> QED BY <2>3, <2>4 DEF CountInv
  <1>3. ASSUME NEW t \in Tasks, NEW u \in Tasks, KernelFork(t, u) PROVE CountInv'
    <2>1. client[t] \in Clients /\ phase[t] = "kernel"
      BY <1>3, HasClient DEF KernelFork
    <2>2. clients' = clients + 1 /\ clients' \in Clients /\ t # u /\ phase[u] = "free"
      BY <1>0, <1>3 DEF KernelFork, Child, Clients
    <2>3. g_proc_count' \in [Clients -> Nat]
      BY <1>3, <2>1, <2>2 DEF KernelFork, CountInv
    <2>4. ASSUME NEW v \in Tasks, phase'[v] = "counting"
          PROVE  g_mutex'[client'[v]] = v /\ g_proc_count'[client'[v]] < IntMax
      <3>1. v # t /\ v # u /\ phase[v] = "counting" /\ client'[v] = client[v]
        BY <1>3, <2>1, <2>2, <2>4 DEF KernelFork, Answer, TypeInv
      <3>2. client[v] \in Clients /\ client[v] # clients'
        BY <1>0, <2>2, <3>1, HasClient DEF TypeInv
      <3> QED BY <1>3, <2>2, <3>1, <3>2 DEF KernelFork, CountInv, TypeInv
    <2> QED BY <2>3, <2>4 DEF CountInv
  <1>4. ASSUME NEW t \in Tasks, NEW u \in Tasks, KernelClone(t, u) PROVE CountInv'
    <2>1. t # u /\ phase[u] = "free"
      BY <1>4 DEF KernelClone, Child
    <2> QED BY <1>4, <2>1 DEF KernelClone, Answer, CountInv, TypeInv
  <1>5. ASSUME NEW t \in Tasks, KernelFails(t) PROVE CountInv'
    BY <1>5 DEF KernelFails, Return, CountInv, TypeInv
  <1>6. ASSUME NEW t \in Tasks, KernelExit(t) PROVE CountInv'
    BY <1>6 DEF KernelExit, Vanish, CountInv, TypeInv
  <1>7. ASSUME NEW t \in Tasks, PreExec(t) PROVE CountInv'
    BY <1>7 DEF PreExec, Vanish, CountInv, TypeInv
  <1>8. CASE UNCHANGED vars
    BY <1>8 DEF vars, CountInv
  <1> QED BY <1>1, <1>2, <1>3, <1>4, <1>5, <1>6, <1>7, <1>8 DEF Next, new_proc

(* How many processes a client that has counted n calls may still lead to,  *)
(* itself included: each call it counts halves the number, and the other    *)
(* half goes to the process the call creates.                               *)
Limit == 2^g_max_procs
Weight(n) == 2^(IF n < g_max_procs THEN g_max_procs - n ELSE 0)

(* Weights: positive, halved by each counted call.                          *)
LEMMA WeightLemma ==
    ASSUME NEW n \in Nat
    PROVE  /\ Limit \in Nat /\ Weight(n) \in 1..Limit
           /\ n < g_max_procs => Weight(n) = Weight(n + 1) + Weight(n + 1)
           /\ Weight(n + 1) <= Weight(n)
  <1>0. g_max_procs \in Nat
    BY ProcAssumption
  <1> DEFINE E(i) == IF i < g_max_procs THEN g_max_procs - i ELSE 0
  <1>1. \A i \in Nat : E(i) \in Nat /\ E(i) <= g_max_procs /\ Weight(i) = 2^E(i)
    BY <1>0 DEF Weight
  <1>2. Limit \in Nat
    BY <1>0, PowerIsCount DEF Limit
  <1>3. \A i \in Nat : Weight(i) \in 1..Limit
    <2> TAKE i \in Nat
    <2>1. PICK e \in Nat : e = E(i)
      BY <1>1
    <2>2. e <= g_max_procs /\ Weight(i) = 2^e
      BY <1>1, <2>1
    <2>3. 2^e <= Limit /\ 1 <= 2^e /\ 2^e \in Nat
      BY <1>0, <2>2, PowerGrows, PowerIsCount DEF Limit
    <2> QED BY <1>2, <2>2, <2>3
  <1>4. ASSUME n < g_max_procs PROVE Weight(n) = Weight(n + 1) + Weight(n + 1)
    <2>0. E(n + 1) \in Nat
      BY <1>0
    <2>1. PICK e \in Nat : e = E(n + 1)
      BY <2>0, Zenon
    <2>2. E(n) = e + 1
      BY <1>0, <1>4, <2>1
    <2>3. Weight(n) = 2^E(n) /\ Weight(n + 1) = 2^E(n + 1)
      BY Zenon DEF Weight
    <2>4. Weight(n) = 2^(e + 1) /\ Weight(n + 1) = 2^e
      <3> HIDE DEF E
      <3> QED BY <2>1, <2>2, <2>3
    <2> QED BY <2>4, PowerDoubles
  <1>5. Weight(n + 1) <= Weight(n)
    <2>1. CASE n < g_max_procs
      BY <1>2, <1>3, <1>4, <2>1
    <2>2. CASE ~(n < g_max_procs)
      <3>1. Weight(n) = Weight(n + 1)
        BY <1>0, <2>2 DEF Weight
      <3> QED BY <1>2, <1>3, <3>1
    <2> QED BY <2>1, <2>2
  <1> QED BY <1>2, <1>3, <1>4, <1>5

(* Places that hold such a number: the clients, and the tasks whose counted *)
(* call the kernel has not answered yet.                                    *)
Places == 1..(MaxClients + MaxTasks)
Place(t) == MaxClients + t

Covers(f) ==
    /\ \A c \in Clients : c <= clients => Weight(g_proc_count[c]) <= f[c]
    /\ \A t \in Tasks : phase[t] = "kernel" =>
          /\ kind[t] = "fork" => Weight(g_proc_count[client[t]]) <= f[Place(t)]
          /\ kind[t] \notin {"fork", "thread"} => 1 <= f[Place(t)]

(* The limit is divided among the places, and every process but the first   *)
(* of a client has used up one of its units.                                *)
TreeInv ==
    g_block_exec =>
        \E f \in [Places -> 0..Limit] :
            Covers(f) /\ Cardinality(Units(Places, Limit, f)) + procs <= Limit + clients

(* Clients and tasks have different places.                                 *)
LEMMA PlaceLemma ==
    /\ IsFiniteSet(Places) /\ Clients \subseteq Places
    /\ \A t \in Tasks : Place(t) \in Places /\ Place(t) \notin Clients
    /\ \A t, u \in Tasks : Place(t) = Place(u) => t = u
  <1>0. MaxTasks \in Nat /\ MaxClients \in Nat /\ MaxClients + MaxTasks \in Int
    BY ProcAssumption
  <1>1. IsFiniteSet(Places)
    BY <1>0, FS_Interval DEF Places
  <1> QED BY <1>0, <1>1 DEF Places, Place, Clients, Tasks

(* At first the whole limit belongs to the first client.                    *)
LEMMA TreeInit == Init => TreeInv
  <1> SUFFICES ASSUME Init PROVE TreeInv
    OBVIOUS
  <1> DEFINE f == [x \in Places |-> IF x = 1 THEN Limit ELSE 0]
  <1>0. Limit \in Nat /\ Weight(0) \in 1..Limit /\ 1 \in Clients /\ 1 \in Places
    BY WeightLemma, PlaceLemma, ProcAssumption DEF Clients
  <1>1. f \in [Places -> 0..Limit]
    BY <1>0
  <1>2. Covers(f)
    <2>1. ASSUME NEW c \in Clients, c <= clients PROVE Weight(g_proc_count[c]) <= f[c]
      <3>1. c = 1 /\ g_proc_count[c] = 0
        BY <2>1 DEF Init, Clients
      <3> QED BY <1>0, <3>1
    <2>2. \A t \in Tasks : phase[t] # "kernel"
      BY DEF Init
    <2> QED BY <2>1, <2>2 DEF Covers
  <1>3. \A s \in Places \ {1} : f[s] = 0
    OBVIOUS
  <1>4. procs = 1 /\ clients = 1
    BY DEF Init
  <1> HIDE DEF f
  <1>5. Cardinality(Units(Places, Limit, f)) <= Limit
    BY <1>0, <1>1, <1>3, PlaceLemma, UnitsAtOne
  <1>6. Cardinality(Units(Places, Limit, f)) \in Nat
    BY <1>0, <1>1, PlaceLemma, UnitsFinite
  <1>7. Cardinality(Units(Places, Limit, f)) + procs <= Limit + clients
    BY <1>0, <1>4, <1>5, <1>6
  <1> QED BY <1>1, <1>2, <1>7 DEF TreeInv

(* One step moves units between places: a counted call halves the weight of *)
(* its client, and the other half goes with the call to the new process.    *)
LEMMA TreeStep ==
    ASSUME "clone3" \notin AppMay, TypeInv, CountInv, TreeInv, [Next]_vars, g_block_exec
    PROVE  TreeInv'
  <1>0. /\ MaxTasks \in Nat /\ MaxClients \in Nat /\ clients \in 1..MaxClients
        /\ procs \in Nat /\ Limit \in Nat /\ \A n \in Nat : Weight(n) \in 1..Limit
    BY ProcAssumption, WeightLemma DEF Clients, TypeInv
  <1>1. PICK f \in [Places -> 0..Limit] :
            Covers(f) /\ Cardinality(Units(Places, Limit, f)) + procs <= Limit + clients
    BY DEF TreeInv
  <1>2. Cardinality(Units(Places, Limit, f)) \in Nat
    BY <1>0, PlaceLemma, UnitsFinite
  <1>s. ASSUME Covers(f)', procs' = procs, clients' = clients PROVE TreeInv'
    BY <1>1, <1>s DEF TreeInv
  <1>3. ASSUME NEW t \in Tasks, NEW k \in Kinds, PreCreate(t, k, k # "thread")
        PROVE  TreeInv'
    <2>1. Covers(f)'
      BY <1>1, <1>3 DEF PreCreate, Covers, TypeInv
    <2> QED BY <1>3, <1>s, <2>1 DEF PreCreate
  <1>4. ASSUME NEW t \in Tasks, PreCount(t) PROVE TreeInv'
    <2> DEFINE c == client[t]
               n == g_proc_count[c]
    <2>1. /\ c \in Clients /\ c <= clients /\ n \in Nat /\ n < IntMax /\ n + 1 \in Nat
          /\ phase[t] = "counting"
      BY <1>4, HasClient DEF PreCount, CountInv, TypeInv
    <2>i. Incremented(n) = n + 1
      BY <2>1, ProcAssumption DEF Incremented
    <2>2. /\ g_proc_count' = [g_proc_count EXCEPT ![c] = n + 1]
          /\ UNCHANGED <<client, procs, clients>>
      BY <1>4, <2>i DEF PreCount
    <2>3. \A d \in Clients : g_proc_count'[d] = IF d = c THEN n + 1 ELSE g_proc_count[d]
      BY <2>1, <2>2 DEF CountInv
    <2>4. Weight(n + 1) <= Weight(n) /\ Weight(n + 1) \in 1..Limit /\ Weight(n) \in 1..Limit
      BY <1>0, <2>1, WeightLemma
    <2>5. \A d \in Clients : Weight(g_proc_count'[d]) <= Weight(g_proc_count[d])
      BY <1>0, <2>3, <2>4 DEF CountInv
    <2>w. \A d \in Clients : Weight(g_proc_count'[d]) \in Nat /\ Weight(g_proc_count[d]) \in Nat
      BY <1>0, <2>1, <2>3, <2>4 DEF CountInv
    <2>6. CASE n + 1 > g_max_procs
      <3>1. phase' = [phase EXCEPT ![t] = "app"] /\ kind' = [kind EXCEPT ![t] = "none"]
        BY <1>4, <2>1, <2>i, <2>6, ProcAssumption DEF PreCount, Return
      <3>2. Covers(f)'
        <4>1. ASSUME NEW d \in Clients, d <= clients PROVE Weight(g_proc_count'[d]) <= f[d]
          <5>1. Weight(g_proc_count[d]) <= f[d] /\ f[d] \in Nat
            BY <1>1, <4>1, PlaceLemma, <1>0 DEF Covers
          <5> QED BY <2>5, <2>w, <5>1
        <4>2. ASSUME NEW v \in Tasks, phase'[v] = "kernel"
              PROVE  /\ v # t /\ phase[v] = "kernel" /\ kind'[v] = kind[v] /\ client[v] \in Clients
                     /\ f[Place(v)] \in Nat
          <5>1. v # t
            BY <3>1, <4>2 DEF TypeInv
          <5>2. phase[v] = "kernel" /\ kind'[v] = kind[v]
            BY <3>1, <4>2, <5>1 DEF TypeInv
          <5>3. Place(v) \in Places
            BY PlaceLemma
          <5> QED BY <1>0, <5>1, <5>2, <5>3, HasClient
        <4>3. ASSUME NEW v \in Tasks, phase'[v] = "kernel", kind[v] = "fork"
              PROVE  Weight(g_proc_count'[client[v]]) <= f[Place(v)]
          <5>1. Weight(g_proc_count[client[v]]) <= f[Place(v)]
            BY <1>1, <4>2, <4>3 DEF Covers
          <5> QED BY <2>5, <2>w, <4>2, <4>3, <5>1
        <4> QED BY <1>1, <2>2, <4>1, <4>2, <4>3 DEF Covers
      <3> QED BY <1>s, <2>2, <3>2
    <2>7. CASE ~(n + 1 > g_max_procs)
      <3>1. phase' = [phase EXCEPT ![t] = "kernel"] /\ kind' = kind
        BY <1>4, <2>1, <2>i, <2>7, ProcAssumption DEF PreCount
      <3>2. Weight(n) = Weight(n + 1) + Weight(n + 1)
        BY <2>1, <2>7, WeightLemma, ProcAssumption
      <3>g. PICK g : g = [f EXCEPT ![c] = Weight(n + 1), ![Place(t)] = Weight(n + 1)]
        OBVIOUS
      <3>3. c \in Places /\ Place(t) \in Places /\ Place(t) # c
        BY <2>1, PlaceLemma
      <3>4. g \in [Places -> 0..Limit]
        BY <1>0, <2>4, <3>g, <3>3
      <3>5. g[c] = Weight(n + 1) /\ g[Place(t)] = Weight(n + 1)
            /\ \A x \in Places \ {c, Place(t)} : g[x] = f[x]
        BY <3>g, <3>3
      <3>6. Weight(n) <= f[c]
        BY <1>1, <2>1 DEF Covers
      <3>7. g[c] + g[Place(t)] <= f[c]
        BY <3>2, <3>5, <3>6
      <3>8. \A x \in Places \ {c, Place(t)} : g[x] <= f[x]
        BY <3>5, <1>0
      <3>9. Cardinality(Units(Places, Limit, g)) <= Cardinality(Units(Places, Limit, f))
        BY <1>0, <3>3, <3>4, <3>7, <3>8, PlaceLemma, UnitsMove
      <3>10. Cardinality(Units(Places, Limit, g)) \in Nat
        BY <1>0, <3>4, PlaceLemma, UnitsFinite
      <3>11. Covers(g)'
        <4>1. ASSUME NEW d \in Clients, d <= clients PROVE Weight(g_proc_count'[d]) <= g[d]
          <5>1. CASE d = c
            BY <2>3, <2>4, <3>5, <5>1
          <5>2. CASE d # c
            BY <1>1, <2>3, <3>5, <4>1, <5>2, PlaceLemma DEF Covers
          <5> QED BY <5>1, <5>2
        <4>2. ASSUME NEW v \in Tasks, phase'[v] = "kernel", v # t
              PROVE  /\ phase[v] = "kernel" /\ client[v] \in Clients
                     /\ g[Place(v)] = f[Place(v)] /\ f[Place(v)] \in Nat
          <5>1. phase[v] = "kernel"
            BY <3>1, <4>2 DEF TypeInv
          <5> QED BY <3>5, <4>2, <5>1, HasClient, PlaceLemma, <1>0, <2>1
        <4>3. ASSUME NEW v \in Tasks, phase'[v] = "kernel", v # t, kind[v] = "fork"
              PROVE  Weight(g_proc_count'[client[v]]) <= g[Place(v)]
          <5>1. Weight(g_proc_count[client[v]]) <= f[Place(v)]
            BY <1>1, <4>2, <4>3 DEF Covers
          <5> QED BY <2>5, <2>w, <4>2, <4>3, <5>1
        <4>4. ASSUME NEW v \in Tasks, phase'[v] = "kernel", v # t, kind[v] \notin {"fork", "thread"}
              PROVE  1 <= g[Place(v)]
          BY <1>1, <4>2, <4>4 DEF Covers
        <4>5. Weight(g_proc_count'[client[t]]) <= g[Place(t)] /\ 1 <= g[Place(t)]
          BY <1>0, <2>1, <2>3, <2>4, <3>5
        <4> QED BY <2>2, <3>1, <4>1, <4>3, <4>4, <4>5 DEF Covers
      <3>12. Cardinality(Units(Places, Limit, g)) + procs <= Limit + clients
        BY <1>0, <1>1, <1>2, <3>9, <3>10
      <3> QED BY <2>2, <3>4, <3>11, <3>12 DEF TreeInv
    <2> QED BY <2>6, <2>7
  <1>5. ASSUME NEW t \in Tasks, NEW u \in Tasks, KernelFork(t, u) PROVE TreeInv'
    <2> DEFINE c == client[t]
               d == clients + 1
               w == Weight(g_proc_count[c])
    <2>1. /\ phase[t] = "kernel" /\ kind[t] = "fork" /\ c \in Clients /\ w \in 1..Limit
          /\ t # u /\ phase[u] = "free"
      BY <1>0, <1>5, HasClient DEF KernelFork, Child, CountInv
    <2>2. /\ clients' = d /\ procs' = procs + 1 /\ d \in Clients
          /\ client' = [client EXCEPT ![u] = d]
          /\ g_proc_count' = [g_proc_count EXCEPT ![d] = g_proc_count[c]]
          /\ phase' = [phase EXCEPT ![t] = "app", ![u] = "app"]
          /\ kind' = [kind EXCEPT ![t] = "none"]
      BY <1>0, <1>5 DEF KernelFork, Answer, Clients
    <2>3. Place(t) \in Places /\ d \in Places /\ Place(t) # d
      BY <2>2, PlaceLemma
    <2>g. PICK g : g = [f EXCEPT ![Place(t)] = 0, ![d] = w]
      OBVIOUS
    <2>4. g \in [Places -> 0..Limit]
      BY <1>0, <2>1, <2>3, <2>g
    <2>5. g[Place(t)] = 0 /\ g[d] = w /\ \A x \in Places \ {Place(t), d} : g[x] = f[x]
      BY <2>3, <2>g
    <2>6. g[Place(t)] + g[d] <= f[Place(t)]
      BY <1>0, <1>1, <2>1, <2>5 DEF Covers
    <2>7. \A x \in Places \ {Place(t), d} : g[x] <= f[x]
      BY <1>0, <2>5
    <2>8. Cardinality(Units(Places, Limit, g)) <= Cardinality(Units(Places, Limit, f))
      BY <1>0, <2>3, <2>4, <2>6, <2>7, PlaceLemma, UnitsMove
    <2>9. Cardinality(Units(Places, Limit, g)) \in Nat
      BY <1>0, <2>4, PlaceLemma, UnitsFinite
    <2>10. Covers(g)'
      <3>1. ASSUME NEW e \in Clients, e <= clients' PROVE Weight(g_proc_count'[e]) <= g[e]
        <4>1. CASE e = d
          <5>1. g_proc_count'[e] = g_proc_count[c]
            BY <2>2, <4>1 DEF TypeInv
          <5> QED BY <1>0, <2>1, <2>5, <4>1, <5>1
        <4>2. CASE e # d
          <5>1. e \in Nat /\ e <= clients
            BY <1>0, <2>2, <3>1, <4>2 DEF Clients
          <5>2. g_proc_count'[e] = g_proc_count[e]
            BY <2>2, <4>2 DEF TypeInv
          <5>3. g[e] = f[e]
            BY <2>5, <4>2, PlaceLemma
          <5> QED BY <1>1, <5>1, <5>2, <5>3 DEF Covers
        <4> QED BY <4>1, <4>2
      <3>2. ASSUME NEW v \in Tasks, phase'[v] = "kernel"
            PROVE  /\ phase[v] = "kernel" /\ kind'[v] = kind[v] /\ client'[v] = client[v]
                   /\ g[Place(v)] = f[Place(v)]
                   /\ g_proc_count'[client[v]] = g_proc_count[client[v]]
        <4>1. v # t /\ v # u /\ phase[v] = "kernel"
          BY <2>2, <3>2 DEF TypeInv
        <4>2. client[v] \in Clients /\ client[v] # d
          BY <1>0, <4>1, HasClient DEF TypeInv
        <4> QED BY <2>2, <2>5, <4>1, <4>2, PlaceLemma DEF TypeInv
      <3> QED BY <1>1, <3>1, <3>2 DEF Covers
    <2>11. Cardinality(Units(Places, Limit, g)) + procs' <= Limit + clients'
      BY <1>0, <1>1, <1>2, <2>2, <2>8, <2>9
    <2> QED BY <2>4, <2>10, <2>11 DEF TreeInv
  <1>6. ASSUME NEW t \in Tasks, NEW u \in Tasks, KernelClone(t, u) PROVE TreeInv'
    <2>1. /\ phase[t] = "kernel" /\ kind[t] # "fork" /\ t # u /\ phase[u] = "free"
          /\ client' = [client EXCEPT ![u] = client[t]]
          /\ UNCHANGED <<clients, g_proc_count>>
          /\ phase' = [phase EXCEPT ![t] = "app", ![u] = "app"]
          /\ kind' = [kind EXCEPT ![t] = "none"]
          /\ procs' = IF kind[t] = "thread" THEN procs ELSE procs + 1
      BY <1>6 DEF KernelClone, Answer, Child
    <2>2. ASSUME NEW v \in Tasks, phase'[v] = "kernel"
          PROVE  v # t /\ phase[v] = "kernel" /\ kind'[v] = kind[v] /\ client'[v] = client[v]
      BY <2>1, <2>2 DEF TypeInv
    <2>3. CASE kind[t] = "thread"
      <3>1. Covers(f)'
        BY <1>1, <2>1, <2>2 DEF Covers
      <3> QED BY <1>s, <2>1, <2>3, <3>1
    <2>4. CASE kind[t] # "thread"
      <3>g. PICK g : g = [f EXCEPT ![Place(t)] = 0]
        OBVIOUS
      <3>1. Place(t) \in Places /\ f[Place(t)] \in 0..Limit /\ 1 <= f[Place(t)]
        BY <1>1, <2>1, <2>4, PlaceLemma DEF Covers
      <3>2. g \in [Places -> 0..Limit] /\ g[Place(t)] = 0
            /\ \A x \in Places \ {Place(t)} : g[x] = f[x]
        BY <1>0, <3>1, <3>g
      <3>3. (\A x \in Places : g[x] <= f[x]) /\ g[Place(t)] < f[Place(t)]
        BY <1>0, <3>1, <3>2
      <3>4. Cardinality(Units(Places, Limit, g)) + 1 <= Cardinality(Units(Places, Limit, f))
        BY <1>0, <3>1, <3>2, <3>3, PlaceLemma, UnitsSpend
      <3>5. Cardinality(Units(Places, Limit, g)) \in Nat
        BY <1>0, <3>2, PlaceLemma, UnitsFinite
      <3>6. Covers(g)'
        <4>1. \A e \in Clients : g[e] = f[e]
          BY <3>2, PlaceLemma
        <4>2. \A v \in Tasks : v # t => g[Place(v)] = f[Place(v)]
          BY <3>2, PlaceLemma
        <4> QED BY <1>1, <2>1, <2>2, <4>1, <4>2 DEF Covers
      <3>7. Cardinality(Units(Places, Limit, g)) + procs' <= Limit + clients'
        BY <1>0, <1>1, <1>2, <2>1, <2>4, <3>4, <3>5
      <3> QED BY <3>2, <3>6, <3>7 DEF TreeInv
    <2> QED BY <2>3, <2>4
  <1>7. ASSUME NEW t \in Tasks, KernelFails(t) PROVE TreeInv'
    <2>1. Covers(f)'
      BY <1>1, <1>7 DEF KernelFails, Return, Covers, TypeInv
    <2> QED BY <1>7, <1>s, <2>1 DEF KernelFails
  <1>8. ASSUME NEW t \in Tasks, KernelExit(t) PROVE TreeInv'
    <2>1. Covers(f)'
      BY <1>1, <1>8 DEF KernelExit, Vanish, Covers, TypeInv
    <2> QED BY <1>8, <1>s, <2>1 DEF KernelExit
  <1>9. ASSUME NEW t \in Tasks, PreExec(t) PROVE TreeInv'
    BY <1>9 DEF PreExec
  <1>10. CASE UNCHANGED vars
    <2>1. Covers(f)'
      BY <1>1, <1>10 DEF vars, Covers
    <2> QED BY <1>10, <1>s, <2>1 DEF vars
  <1>11. \A k \in Kinds : new_proc(k) = {k # "thread"}
    BY DEF new_proc
  <1> QED BY <1>3, <1>4, <1>5, <1>6, <1>7, <1>8, <1>9, <1>10, <1>11 DEF Next

(* The process limit with exec blocked: for every DR_MAX_PROCS, whatever    *)
(* order the tasks of the tree fork, clone and exit in, no more than        *)
(* 2^g_max_procs processes are ever created.  Not for a program that calls  *)
(* clone3, whose processes may go uncounted, nor past the counter's wrap.   *)
THEOREM TreeIsBounded ==
    ASSUME "clone3" \notin AppMay, CountCap <= IntMax PROVE Spec => []TreeBound
  <1>1. Init => TypeInv /\ CountInv /\ TreeInv
    <2>1. Init => CountInv
      BY DEF Init, CountInv
    <2> QED BY <2>1, TypeInit, TreeInit
  <1>2. TypeInv /\ CountInv /\ TreeInv /\ [Next]_vars => (TypeInv /\ CountInv /\ TreeInv)'
    <2> SUFFICES ASSUME TypeInv, CountInv, TreeInv, [Next]_vars
                 PROVE  (TypeInv /\ CountInv /\ TreeInv)'
      OBVIOUS
    <2>1. TypeInv' /\ CountInv'
      BY TypeStep, CountStep
    <2>2. CASE g_block_exec
      BY <2>1, <2>2, TreeStep
    <2>3. CASE ~g_block_exec
      <3>1. g_block_exec' = g_block_exec
        BY DEF Next, PreCreate, PreCount, KernelFork, KernelClone, KernelFails, KernelExit,
               PreExec, vars
      <3> QED BY <2>1, <2>3, <3>1 DEF TreeInv
    <2> QED BY <2>2, <2>3
  <1>3. TypeInv /\ CountInv /\ TreeInv => TreeBound
    <2> SUFFICES ASSUME TypeInv, CountInv, TreeInv, g_block_exec PROVE procs <= Limit
      BY DEF TreeBound, Limit
    <2>1. PICK f \in [Places -> 0..Limit] :
              Covers(f) /\ Cardinality(Units(Places, Limit, f)) + procs <= Limit + clients
      BY DEF TreeInv
    <2>2. /\ clients \in Nat /\ procs \in Nat /\ Limit \in Nat /\ 1..clients \subseteq Clients
          /\ \A n \in Nat : Weight(n) \in 1..Limit
      <3>1. clients \in 1..MaxClients /\ MaxClients \in Nat /\ procs \in Nat
        BY ProcAssumption DEF TypeInv, Clients
      <3>2. 0 \in Nat /\ \A n \in Nat : Limit \in Nat /\ Weight(n) \in 1..Limit
        BY WeightLemma
      <3> QED BY <3>1, <3>2 DEF Clients
    <2>3. \A c \in 1..clients : 1 <= f[c]
      <3> TAKE c \in 1..clients
      <3>1. c \in Clients /\ c <= clients /\ g_proc_count[c] \in Nat /\ c \in Places
        BY <2>2, PlaceLemma DEF CountInv
      <3>2. Weight(g_proc_count[c]) <= f[c] /\ f[c] \in 0..Limit
        BY <2>1, <3>1 DEF Covers
      <3> QED BY <2>2, <3>1, <3>2
    <2>4. PICK n \in Nat : n = clients
      BY <2>2
    <2>5. 1..n \subseteq Places
      BY <2>2, <2>4, PlaceLemma
    <2>6. n <= Cardinality(Units(Places, Limit, f))
      BY <2>2, <2>3, <2>4, <2>5, PlaceLemma, UnitsAtLeast
    <2>7. Cardinality(Units(Places, Limit, f)) \in Nat
      BY <2>2, PlaceLemma, UnitsFinite
    <2> QED BY <2>1, <2>2, <2>4, <2>6, <2>7
  <1> QED BY <1>1, <1>2, <1>3, PTL DEF Spec
=============================================================================
