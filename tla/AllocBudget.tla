---------------------------- MODULE AllocBudget ----------------------------
(***************************************************************************)
(* The allocation budget of src/syscall_filter.c (DR_MAX_ALLOC_BYTES).     *)
(*                                                                         *)
(* The pre event refuses mmap, mremap and brk calls that do not fit; the   *)
(* post event charges what the kernel really granted.  mmap, mremap and    *)
(* munmap change g_alloc_bytes under g_mutex; brk raises it to the size of *)
(* the heap without the lock.  The lengths a post event charges are the    *)
(* ones the last pre event of any thread left in the g_last_* globals.     *)
(*                                                                         *)
(* Sizes are counted in bytes.  The code charges the length a call names;  *)
(* the kernel maps and releases whole pages.  g_current_brk is assigned and*)
(* never read, and is left out.                                            *)
(***************************************************************************)
EXTENDS Integers

CONSTANTS
    Threads,            \* application threads
    Main,               \* the thread that runs before all others exist
    Sizes,              \* lengths the application passes to mmap, mremap, munmap
    Breaks,             \* heap sizes the application asks brk for
    g_max_alloc_bytes,  \* DR_MAX_ALLOC_BYTES, 0 = unlimited
    PageSize,           \* bytes of a page (4096)
    SizeMod,            \* size_t is arithmetic modulo SizeMod (2^64)
    HeapBase,           \* the break when the program starts
    MapCap, HeapCap,    \* bounds: the kernel grants no more than this
    DriftCap            \* bound on each of the two differences below

Free == "free"          \* g_mutex is not held

ASSUME SizeAssumption ==
    /\ Sizes \subseteq Nat /\ Breaks \subseteq Nat
    /\ PageSize \in Nat \ {0} /\ DriftCap \in Nat
    /\ SizeMod \in Nat /\ HeapBase \in Nat \ {0}
    /\ MapCap \in Nat /\ HeapCap \in Nat /\ HeapCap < SizeMod
    /\ g_max_alloc_bytes \in 0..(SizeMod - 1)
ASSUME ThreadAssumption == Main \in Threads /\ Free \notin Threads

VARIABLES
    g_alloc_bytes, g_initial_brk, g_mutex,
    g_last_sysnum, g_last_mmap_len, g_last_munmap_len,
    g_last_mremap_old_len, g_last_mremap_new_len,
    mapped,      \* kernel: bytes mapped by mmap and mremap and not unmapped
    brk,         \* kernel: the current break
    pc, call, res,
    heapPeak,    \* history: largest heap since the break was learned
    undercharged,  \* history: page tails mapped, and lengths munmap was
                   \* given for ranges the application had not mapped
    overcharged    \* history: page tails released

last    == <<g_last_sysnum, g_last_mmap_len, g_last_munmap_len,
             g_last_mremap_old_len, g_last_mremap_new_len>>
client  == <<g_alloc_bytes, g_initial_brk, g_mutex>>
kernel  == <<mapped, brk>>
history == <<heapPeak, undercharged, overcharged>>
vars    == <<client, last, kernel, pc, call, res, history>>

NoCall == [op |-> "none", old |-> 0, len |-> 0]
MkCall(op, old, len) == [op |-> op, old |-> old, len |-> len]
Addresses == {HeapBase + n : n \in Breaks}

(* Stores to g_alloc_bytes that a post event has decided on but not done.   *)
LockedStores == {"store_add", "store_max", "store_sub", "store_zero"}
Phases == {"app", "kernel", "post", "store_heap"} \cup LockedStores

Max(a, b) == IF a >= b THEN a ELSE b

(* The bytes of the last page of a range of n bytes that lie behind it.     *)
PageTail(n)  == IF n % PageSize = 0 THEN 0 ELSE PageSize - (n % PageSize)
Pages(n) == n + PageTail(n)

-----------------------------------------------------------------------------
(* size_t subtraction and the budget tests.                                 *)

WrapSub(a, b) == IF a >= b THEN a - b ELSE a - b + SizeMod
WrapAdd(a, b) == IF a + b < SizeMod THEN a + b ELSE a + b - SizeMod

alloc_budget_enabled == g_max_alloc_bytes > 0

(* The test without the bytes already charged.                              *)
alloc_budget_has_room_unused(bytes) ==
    ~alloc_budget_enabled \/ bytes <= g_max_alloc_bytes

alloc_budget_has_room(bytes) ==
    ~alloc_budget_enabled \/ bytes <= WrapSub(g_max_alloc_bytes, g_alloc_bytes)

Heap == IF g_initial_brk # 0 /\ brk > g_initial_brk THEN brk - g_initial_brk ELSE 0

-----------------------------------------------------------------------------
Init ==
    /\ g_alloc_bytes = 0 /\ g_initial_brk = 0 /\ g_mutex = Free
    /\ g_last_sysnum = "none" /\ g_last_mmap_len = 0 /\ g_last_munmap_len = 0
    /\ g_last_mremap_old_len = 0 /\ g_last_mremap_new_len = 0
    /\ mapped = 0 /\ brk = HeapBase
    /\ pc = [t \in Threads |-> "app"]
    /\ call = [t \in Threads |-> NoCall]
    /\ res = [t \in Threads |-> 0]
    /\ heapPeak = 0 /\ undercharged = 0 /\ overcharged = 0

-----------------------------------------------------------------------------
(* event_pre_syscall: the globals are reset for every call, then set by the *)
(* call's own branch.                                                       *)

Last(op, mmap_len, munmap_len, old_len, new_len) ==
    /\ g_last_sysnum' = op
    /\ g_last_mmap_len' = mmap_len
    /\ g_last_munmap_len' = munmap_len
    /\ g_last_mremap_old_len' = old_len
    /\ g_last_mremap_new_len' = new_len

(* A thread other than Main exists only once the C library has started it,  *)
(* and the library asks for the break long before.                          *)
Runs(t) == pc[t] = "app" /\ (t = Main \/ g_initial_brk # 0)

Allow(t, c) ==
    /\ Runs(t)
    /\ pc' = [pc EXCEPT ![t] = "kernel"]
    /\ call' = [call EXCEPT ![t] = c]
    /\ UNCHANGED <<client, kernel, res, history>>

(* Refused with ENOMEM.                                                     *)
Refuse(t) ==
    /\ Runs(t)
    /\ UNCHANGED <<client, kernel, pc, call, res, history>>

PreMmap(t, len) ==
    /\ alloc_budget_has_room(len)
    /\ Allow(t, MkCall("mmap", 0, len))
    /\ Last("mmap", len, 0, 0, 0)

PreMmapRefused(t, len) ==
    /\ ~alloc_budget_has_room(len)
    /\ Refuse(t)
    /\ Last("mmap", 0, 0, 0, 0)

PreMunmap(t, len) ==
    /\ Allow(t, MkCall("munmap", 0, len))
    /\ Last("munmap", 0, len, 0, 0)

PreMremap(t, old, new) ==
    /\ new > old => alloc_budget_has_room(new - old)
    /\ Allow(t, MkCall("mremap", old, new))
    /\ Last("mremap", 0, 0, old, new)

PreMremapRefused(t, old, new) ==
    /\ new > old /\ ~alloc_budget_has_room(new - old)
    /\ Refuse(t)
    /\ Last("mremap", 0, 0, old, new)

(* brk is compared with the whole budget, whatever mmap has used of it.     *)
BrkTooLarge(requested) ==
    /\ alloc_budget_enabled /\ g_initial_brk # 0
    /\ requested > g_initial_brk /\ requested - g_initial_brk > g_max_alloc_bytes

(* The limit is not applied.                                                *)
PreBrkUnchecked(t, requested) ==
    /\ Allow(t, MkCall("brk", 0, requested))
    /\ Last("brk", 0, 0, 0, 0)

PreBrk(t, requested) ==
    /\ ~BrkTooLarge(requested)
    /\ Allow(t, MkCall("brk", 0, requested))
    /\ Last("brk", 0, 0, 0, 0)

PreBrkRefused(t, requested) ==
    /\ BrkTooLarge(requested)
    /\ Refuse(t)
    /\ Last("brk", 0, 0, 0, 0)

(* Any other call, mprotect and calls refused for other reasons included:   *)
(* its only effect here is the reset, so its later steps are left out.  dup *)
(* is told apart because it sets g_pending_dup, which the next pre event    *)
(* clears: DupPending.                                                      *)
PreOther(t, op) ==
    /\ Runs(t)
    /\ Last(op, 0, 0, 0, 0)
    /\ UNCHANGED <<client, kernel, pc, call, res, history>>

-----------------------------------------------------------------------------
(* The kernel.  External.  Every mmap takes a fresh range.                  *)

Return(t, r) ==
    /\ pc[t] = "kernel"
    /\ pc' = [pc EXCEPT ![t] = "post"]
    /\ res' = [res EXCEPT ![t] = r]
    /\ UNCHANGED <<client, last, call>>

KernelFails(t) ==
    /\ call[t].op # "brk"
    /\ Return(t, 0)
    /\ UNCHANGED <<kernel, history>>

(* The kernel maps (up) and releases (off) ranges of these lengths: whole   *)
(* pages.  The lengths are 0 where the call does not map or release.        *)
KernelMaps(up, off) ==
    /\ Pages(off) <= mapped /\ mapped - Pages(off) + Pages(up) <= MapCap
    /\ mapped' = mapped - Pages(off) + Pages(up)
    /\ undercharged + PageTail(up) <= DriftCap /\ undercharged' = undercharged + PageTail(up)
    /\ overcharged + PageTail(off) <= DriftCap /\ overcharged' = overcharged + PageTail(off)
    /\ UNCHANGED <<brk, heapPeak>>

KernelMmap(t) ==
    /\ call[t].op = "mmap" /\ call[t].len > 0
    /\ Return(t, 1)
    /\ KernelMaps(call[t].len, 0)

KernelMunmap(t) ==
    /\ call[t].op = "munmap" /\ call[t].len > 0
    /\ Return(t, 1)
    /\ KernelMaps(0, call[t].len)

(* munmap also succeeds on a range that holds nothing, or that exec mapped. *)
KernelMunmapForeign(t) ==
    /\ call[t].op = "munmap" /\ call[t].len > 0
    /\ Return(t, 1)
    /\ undercharged + call[t].len <= DriftCap
    /\ undercharged' = undercharged + call[t].len
    /\ UNCHANGED <<kernel, heapPeak, overcharged>>

KernelMremap(t) ==
    /\ call[t].op = "mremap" /\ call[t].len > 0
    /\ Return(t, 1)
    /\ KernelMaps(call[t].len, call[t].old)

(* brk answers with the break: the requested one, or the old one if it      *)
(* could not be set (or was asked for with brk(0)).                         *)
KernelBrkMoves(t) ==
    /\ call[t].op = "brk"
    /\ call[t].len >= HeapBase /\ call[t].len <= HeapBase + HeapCap
    /\ Return(t, call[t].len)
    /\ brk' = call[t].len
    /\ heapPeak' = IF g_initial_brk # 0 /\ brk' > g_initial_brk
                   THEN Max(heapPeak, brk' - g_initial_brk) ELSE heapPeak
    /\ UNCHANGED <<mapped, undercharged, overcharged>>

KernelBrkStays(t) ==
    /\ call[t].op = "brk"
    /\ Return(t, brk)
    /\ UNCHANGED <<kernel, history>>

-----------------------------------------------------------------------------
(* event_post_syscall.                                                      *)

(* The event takes any successful call for the dup another thread has begun.*)
DupPending == g_last_sysnum = "dup"

Ours(t, op) == call[t].op = op /\ g_last_sysnum = op /\ res[t] = 1

(* Growth is charged with the whole new length.                             *)
BytesToAddWhole(t) ==
    IF Ours(t, "mmap") THEN g_last_mmap_len
    ELSE IF Ours(t, "mremap") /\ g_last_mremap_new_len > g_last_mremap_old_len
         THEN g_last_mremap_new_len ELSE 0

BytesToAdd(t) ==
    IF Ours(t, "mmap") THEN g_last_mmap_len
    ELSE IF Ours(t, "mremap") /\ g_last_mremap_new_len > g_last_mremap_old_len
         THEN g_last_mremap_new_len - g_last_mremap_old_len ELSE 0

BytesToSub(t) ==
    IF Ours(t, "munmap") THEN g_last_munmap_len
    ELSE IF Ours(t, "mremap") /\ g_last_mremap_new_len <= g_last_mremap_old_len
         THEN g_last_mremap_old_len - g_last_mremap_new_len ELSE 0

(* The store is decided on; bytes travel in the call record's old field.    *)
Decide(t, phase, bytes) ==
    /\ pc' = [pc EXCEPT ![t] = phase]
    /\ call' = [call EXCEPT ![t].old = bytes]
    /\ UNCHANGED <<g_alloc_bytes, last, kernel, res, history>>

Lock(t)   == g_mutex = Free /\ g_mutex' = t
Finish(t) ==
    /\ pc' = [pc EXCEPT ![t] = "app"]
    /\ call' = [call EXCEPT ![t] = NoCall]
    /\ res' = [res EXCEPT ![t] = 0]
    /\ UNCHANGED <<last, kernel, history>>

(* alloc_budget_add and alloc_budget_sub: lock, compare ...                 *)
alloc_budget_add(t) ==
    /\ pc[t] = "post" /\ alloc_budget_enabled /\ BytesToAdd(t) > 0
    /\ Lock(t)
    /\ Decide(t, IF BytesToAdd(t) > WrapSub(g_max_alloc_bytes, g_alloc_bytes)
                 THEN "store_max" ELSE "store_add", BytesToAdd(t))
    /\ UNCHANGED g_initial_brk

alloc_budget_sub(t) ==
    /\ pc[t] = "post" /\ alloc_budget_enabled /\ BytesToSub(t) > 0
    /\ Lock(t)
    /\ Decide(t, IF BytesToSub(t) > g_alloc_bytes THEN "store_zero" ELSE "store_sub",
              BytesToSub(t))
    /\ UNCHANGED g_initial_brk

(* ... store, unlock.                                                       *)
StoreLocked(t) ==
    /\ pc[t] \in LockedStores
    /\ g_alloc_bytes' = CASE pc[t] = "store_add"  -> WrapAdd(g_alloc_bytes, call[t].old)
                          [] pc[t] = "store_max"  -> g_max_alloc_bytes
                          [] pc[t] = "store_sub"  -> WrapSub(g_alloc_bytes, call[t].old)
                          [] pc[t] = "store_zero" -> 0
    /\ g_mutex' = Free
    /\ Finish(t)
    /\ UNCHANGED g_initial_brk

PostNothing(t) ==
    /\ pc[t] = "post" /\ (call[t].op # "brk" \/ DupPending)
    /\ ~alloc_budget_enabled \/ (BytesToAdd(t) = 0 /\ BytesToSub(t) = 0)
    /\ Finish(t)
    /\ UNCHANGED client

(* brk: the first answer is learned as the initial break; a granted request *)
(* raises g_alloc_bytes to the heap's size: compare ...                     *)
LearnBrk(t) == g_initial_brk' = IF g_initial_brk = 0 THEN res[t] ELSE g_initial_brk

BrkRaises(t) ==
    /\ call[t].len # 0 /\ res[t] = call[t].len /\ res[t] > g_initial_brk'
    /\ res[t] - g_initial_brk' > g_alloc_bytes

PostBrk(t) ==
    /\ pc[t] = "post" /\ call[t].op = "brk" /\ ~DupPending
    /\ LearnBrk(t) /\ ~BrkRaises(t)
    /\ Finish(t)
    /\ UNCHANGED <<g_alloc_bytes, g_mutex>>

(* The difference is taken the wrong way round.                             *)
PostBrkRaisesSwapped(t) ==
    /\ pc[t] = "post" /\ call[t].op = "brk" /\ ~DupPending
    /\ LearnBrk(t) /\ BrkRaises(t)
    /\ Decide(t, "store_heap", g_initial_brk' - res[t])
    /\ UNCHANGED g_mutex

PostBrkRaises(t) ==
    /\ pc[t] = "post" /\ call[t].op = "brk" /\ ~DupPending
    /\ LearnBrk(t) /\ BrkRaises(t)
    /\ Decide(t, "store_heap", res[t] - g_initial_brk')
    /\ UNCHANGED g_mutex

(* ... store, without g_mutex.                                              *)
StoreHeap(t) ==
    /\ pc[t] = "store_heap"
    /\ g_alloc_bytes' = call[t].old
    /\ Finish(t)
    /\ UNCHANGED <<g_initial_brk, g_mutex>>

-----------------------------------------------------------------------------
Pre(t) ==
    \/ \E len \in Sizes : PreMmap(t, len) \/ PreMmapRefused(t, len) \/ PreMunmap(t, len)
    \/ \E old, new \in Sizes : PreMremap(t, old, new) \/ PreMremapRefused(t, old, new)
    \/ \E requested \in {0} \cup Addresses : PreBrk(t, requested) \/ PreBrkRefused(t, requested)
    \/ \E op \in {"dup", "other"} : PreOther(t, op)

Kernel(t) ==
    \/ KernelFails(t) \/ KernelMmap(t) \/ KernelMunmap(t) \/ KernelMunmapForeign(t)
    \/ KernelMremap(t) \/ KernelBrkMoves(t) \/ KernelBrkStays(t)

Post(t) ==
    \/ alloc_budget_add(t) \/ alloc_budget_sub(t) \/ StoreLocked(t) \/ PostNothing(t)
    \/ PostBrk(t) \/ PostBrkRaises(t) \/ StoreHeap(t)

Next == \E t \in Threads : Pre(t) \/ Kernel(t) \/ Post(t)

Spec == Init /\ [][Next]_vars

-----------------------------------------------------------------------------
(* Type invariant.                                                          *)
TypeOK ==
    /\ g_alloc_bytes \in 0..(SizeMod - 1)
    /\ g_initial_brk \in Nat /\ g_mutex \in Threads \cup {Free}
    /\ g_last_sysnum \in {"none", "other", "dup", "mmap", "munmap", "mremap", "brk"}
    /\ g_last_mmap_len \in Nat /\ g_last_munmap_len \in Nat
    /\ g_last_mremap_old_len \in Nat /\ g_last_mremap_new_len \in Nat
    /\ mapped \in 0..MapCap /\ brk \in HeapBase..(HeapBase + HeapCap)
    /\ pc \in [Threads -> Phases]
    /\ call \in [Threads -> [op : {"none", "mmap", "munmap", "mremap", "brk"},
                             old : Nat, len : Nat]]
    /\ res \in [Threads -> Nat]
    /\ heapPeak \in Nat /\ undercharged \in Nat /\ overcharged \in Nat

Quiescent == \A t \in Threads : pc[t] = "app"

(* The charge never passes the budget, so that the unsigned difference      *)
(* g_max_alloc_bytes - g_alloc_bytes of the room test never wraps round.    *)
ChargeWithinBudget == alloc_budget_enabled => g_alloc_bytes <= g_max_alloc_bytes

(* Between calls the charge differs from what is mapped only by the largest *)
(* heap there ever was, by the page tails that were mapped and released, and*)
(* by what munmap took off for ranges that were not the application's own.  *)
ChargeMatchesMemory ==
    alloc_budget_enabled /\ Quiescent =>
        /\ mapped <= g_alloc_bytes + undercharged
        /\ g_alloc_bytes <= mapped + heapPeak + overcharged

(* What mmap and mremap hold exceeds the budget at most by the page tails   *)
(* mapped so far, less than a page a call, and by the lengths of the munmap *)
(* calls that released nothing.                                             *)
MapsWithinBudget == alloc_budget_enabled => mapped <= g_max_alloc_bytes + undercharged

(* The heap above the learned break never exceeds the budget, with any      *)
(* number of threads.                                                       *)
HeapWithinBudget == alloc_budget_enabled => Heap <= g_max_alloc_bytes
=============================================================================
