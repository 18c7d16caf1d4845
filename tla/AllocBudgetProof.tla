-------------------------- MODULE AllocBudgetProof --------------------------
(***************************************************************************)
(* Proofs about AllocBudget: typing and the heap limit for any number of   *)
(* threads, and the bound on the charge where the unlocked brk store has   *)
(* nothing to race with.                                                   *)
(***************************************************************************)
EXTENDS AllocBudget, TLAPS

BrkRange == HeapBase..(HeapBase + HeapCap)
WithOld  == {"store_add", "store_sub", "store_heap"}

(* Typing is inductive together with the range of the break and of the      *)
(* amounts on their way to g_alloc_bytes.                                   *)
TypeInv ==
    /\ TypeOK
    /\ g_initial_brk # 0 => g_initial_brk \in BrkRange
    /\ \A t \in Threads :
          /\ pc[t] = "post" /\ call[t].op = "brk" => res[t] \in BrkRange
          /\ pc[t] \in WithOld => call[t].old < SizeMod

CallRec == [op : {"none", "mmap", "munmap", "mremap", "brk"}, old : Nat, len : Nat]

(* size_t arithmetic stays in its range.                                    *)
LEMMA WrapLemma ==
    ASSUME NEW a \in 0..(SizeMod - 1), NEW b \in 0..(SizeMod - 1)
    PROVE  WrapSub(a, b) \in 0..(SizeMod - 1) /\ WrapAdd(a, b) \in 0..(SizeMod - 1)
  BY SizeAssumption DEF WrapSub, WrapAdd

(* A range ends less than a page before the end of its last page.           *)
LEMMA PageLemma ==
    ASSUME NEW n \in Nat
    PROVE  /\ PageTail(n) \in Nat /\ PageTail(n) < PageSize
           /\ Pages(n) \in Nat /\ Pages(n) = n + PageTail(n)
  <1>1. PageSize \in Nat /\ 0 < PageSize
    BY SizeAssumption
  <1>2. n % PageSize \in 0..(PageSize - 1)
    BY <1>1
  <1>3. PageTail(n) \in Nat /\ PageTail(n) < PageSize
    BY <1>1, <1>2 DEF PageTail
  <1> QED BY <1>3 DEF Pages

(* What mapping and releasing whole pages does, in one line each.           *)
LEMMA MapsLemma ==
    ASSUME NEW up \in Nat, NEW off \in Nat, mapped \in Nat, KernelMaps(up, off)
    PROVE  /\ mapped' \in 0..MapCap
           /\ mapped' + off + PageTail(off) = mapped + up + PageTail(up)
           /\ undercharged' = undercharged + PageTail(up) /\ overcharged' = overcharged + PageTail(off)
           /\ UNCHANGED <<brk, heapPeak>>
  <1>1. /\ PageTail(up) \in Nat /\ Pages(up) \in Nat /\ Pages(up) = up + PageTail(up)
        /\ PageTail(off) \in Nat /\ Pages(off) \in Nat /\ Pages(off) = off + PageTail(off)
    BY PageLemma
  <1>2. /\ Pages(off) <= mapped /\ mapped - Pages(off) + Pages(up) <= MapCap
        /\ mapped' = mapped - Pages(off) + Pages(up)
    BY DEF KernelMaps
  <1>3. mapped' \in 0..MapCap /\ mapped' + off + PageTail(off) = mapped + up + PageTail(up)
    BY <1>1, <1>2, SizeAssumption
  <1> QED BY <1>3 DEF KernelMaps

(* Initially everything has its type.                                       *)
LEMMA TypeInit == Init => TypeInv
  <1> SUFFICES ASSUME Init PROVE TypeInv
    OBVIOUS
  <1>1. NoCall \in CallRec
    BY DEF NoCall, CallRec
  <1>2. /\ 0 \in 0..(SizeMod - 1) /\ 0 \in 0..MapCap
        /\ HeapBase \in HeapBase..(HeapBase + HeapCap)
    BY SizeAssumption
  <1>3. TypeOK
    BY <1>1, <1>2 DEF Init, TypeOK, Phases, CallRec
  <1> QED BY <1>3 DEF Init, TypeInv, WithOld

(* The pre event keeps the types.                                           *)
LEMMA TypePre ==
    ASSUME TypeInv, NEW t \in Threads, Pre(t)
    PROVE  TypeInv'
  <1>0. Sizes \subseteq Nat /\ {0} \cup Addresses \subseteq Nat
    <2>1. \A n \in Breaks : HeapBase + n \in Nat
      BY SizeAssumption
    <2>2. Addresses \subseteq Nat
      BY <2>1 DEF Addresses
    <2> QED BY <2>2, SizeAssumption
  <1> USE DEF TypeInv, TypeOK
  <1>a. ASSUME NEW c \in CallRec, Allow(t, c),
               NEW op \in {"none", "other", "dup", "mmap", "munmap", "mremap", "brk"},
               NEW a \in Nat, NEW b \in Nat, NEW d \in Nat, NEW e \in Nat, Last(op, a, b, d, e)
        PROVE  TypeInv'
    BY <1>a DEF Allow, Last, client, kernel, history, CallRec, Phases, WithOld
  <1>r. ASSUME UNCHANGED <<client, kernel, pc, call, res, history>>,
               NEW op \in {"none", "other", "dup", "mmap", "munmap", "mremap", "brk"},
               NEW a \in Nat, NEW b \in Nat, NEW d \in Nat, NEW e \in Nat, Last(op, a, b, d, e)
        PROVE  TypeInv'
    BY <1>r DEF Last, client, kernel, history
  <1>1. ASSUME NEW len \in Sizes, PreMmap(t, len) PROVE TypeInv'
    <2>1. MkCall("mmap", 0, len) \in CallRec
      BY <1>0 DEF MkCall, CallRec
    <2> QED BY <1>0, <1>1, <1>a, <2>1 DEF PreMmap
  <1>2. ASSUME NEW len \in Sizes, PreMmapRefused(t, len) PROVE TypeInv'
    <2>1. UNCHANGED <<client, kernel, pc, call, res, history>>
      BY <1>2 DEF PreMmapRefused, Refuse
    <2> QED BY <1>0, <1>2, <1>r, <2>1 DEF PreMmapRefused
  <1>3. ASSUME NEW len \in Sizes, PreMunmap(t, len) PROVE TypeInv'
    <2>1. MkCall("munmap", 0, len) \in CallRec
      BY <1>0 DEF MkCall, CallRec
    <2> QED BY <1>0, <1>3, <1>a, <2>1 DEF PreMunmap
  <1>4. ASSUME NEW old \in Sizes, NEW new \in Sizes, PreMremap(t, old, new) PROVE TypeInv'
    <2>1. MkCall("mremap", old, new) \in CallRec
      BY <1>0 DEF MkCall, CallRec
    <2> QED BY <1>0, <1>4, <1>a, <2>1 DEF PreMremap
  <1>5. ASSUME NEW old \in Sizes, NEW new \in Sizes, PreMremapRefused(t, old, new) PROVE TypeInv'
    <2>1. UNCHANGED <<client, kernel, pc, call, res, history>>
      BY <1>5 DEF PreMremapRefused, Refuse
    <2> QED BY <1>0, <1>5, <1>r, <2>1 DEF PreMremapRefused
  <1>6. ASSUME NEW requested \in {0} \cup Addresses, PreBrk(t, requested) PROVE TypeInv'
    <2>1. MkCall("brk", 0, requested) \in CallRec
      BY <1>0 DEF MkCall, CallRec
    <2> QED BY <1>0, <1>6, <1>a, <2>1 DEF PreBrk
  <1>7. ASSUME NEW requested \in {0} \cup Addresses, PreBrkRefused(t, requested) PROVE TypeInv'
    <2>1. UNCHANGED <<client, kernel, pc, call, res, history>>
      BY <1>7 DEF PreBrkRefused, Refuse
    <2> QED BY <1>0, <1>7, <1>r, <2>1 DEF PreBrkRefused
  <1>8. CASE \E op \in {"dup", "other"} : PreOther(t, op)
    <2>1. PICK op \in {"dup", "other"} : PreOther(t, op)
      BY <1>8
    <2>2. /\ op \in {"none", "other", "dup", "mmap", "munmap", "mremap", "brk"}
          /\ Last(op, 0, 0, 0, 0)
          /\ UNCHANGED <<client, kernel, pc, call, res, history>>
      BY <2>1 DEF PreOther
    <2> QED BY <1>r, <2>2
  <1> QED BY <1>1, <1>2, <1>3, <1>4, <1>5, <1>6, <1>7, <1>8 DEF Pre

(* The kernel's answers keep the types.                                     *)
LEMMA TypeKernel ==
    ASSUME TypeInv, NEW t \in Threads, Kernel(t)
    PROVE  TypeInv'
  <1> USE DEF TypeInv, TypeOK
  <1>c. call[t].len \in Nat /\ call[t].old \in Nat
    OBVIOUS
  <1>r. ASSUME NEW r \in Nat, Return(t, r), mapped' \in 0..MapCap, brk' \in BrkRange,
               heapPeak' \in Nat, undercharged' \in Nat, overcharged' \in Nat,
               call[t].op = "brk" => r \in BrkRange
        PROVE  TypeInv'
    BY <1>r DEF Return, client, last, Phases, BrkRange, WithOld
  <1>1. CASE KernelFails(t)
    BY <1>1, <1>r DEF KernelFails, kernel, history, BrkRange
  <1>m. ASSUME NEW up \in Nat, NEW off \in Nat, KernelMaps(up, off)
        PROVE  /\ mapped' \in 0..MapCap /\ brk' \in BrkRange /\ heapPeak' \in Nat
               /\ undercharged' \in Nat /\ overcharged' \in Nat
    <2>1. mapped \in Nat /\ PageTail(up) \in Nat /\ PageTail(off) \in Nat
      BY PageLemma, SizeAssumption
    <2> QED BY <1>m, <2>1, MapsLemma DEF BrkRange
  <1>2. CASE KernelMmap(t)
    <2>1. KernelMaps(call[t].len, 0) /\ Return(t, 1) /\ call[t].op # "brk"
      BY <1>2 DEF KernelMmap
    <2>2. /\ mapped' \in 0..MapCap /\ brk' \in BrkRange /\ heapPeak' \in Nat
          /\ undercharged' \in Nat /\ overcharged' \in Nat
      BY <1>c, <1>m, <2>1
    <2> QED BY <1>r, <2>1, <2>2
  <1>3. CASE KernelMunmap(t)
    <2>1. KernelMaps(0, call[t].len) /\ Return(t, 1) /\ call[t].op # "brk"
      BY <1>3 DEF KernelMunmap
    <2>2. /\ mapped' \in 0..MapCap /\ brk' \in BrkRange /\ heapPeak' \in Nat
          /\ undercharged' \in Nat /\ overcharged' \in Nat
      BY <1>c, <1>m, <2>1
    <2> QED BY <1>r, <2>1, <2>2
  <1>4. CASE KernelMremap(t)
    <2>1. KernelMaps(call[t].len, call[t].old) /\ Return(t, 1) /\ call[t].op # "brk"
      BY <1>4 DEF KernelMremap
    <2>2. /\ mapped' \in 0..MapCap /\ brk' \in BrkRange /\ heapPeak' \in Nat
          /\ undercharged' \in Nat /\ overcharged' \in Nat
      BY <1>c, <1>m, <2>1
    <2> QED BY <1>r, <2>1, <2>2
  <1>5. CASE KernelBrkMoves(t)
    <2>1. call[t].len \in BrkRange
      BY <1>5, <1>c, SizeAssumption DEF KernelBrkMoves, BrkRange
    <2>2. PICK r \in BrkRange : r = call[t].len
      BY <2>1
    <2>3. r \in Nat /\ brk' = r
      BY <1>5, <2>2, SizeAssumption DEF KernelBrkMoves, BrkRange
    <2>4. heapPeak' \in Nat
      BY <1>5, <2>3 DEF KernelBrkMoves, Max
    <2> QED BY <1>5, <1>r, <2>2, <2>3, <2>4 DEF KernelBrkMoves
  <1>6. CASE KernelBrkStays(t)
    <2>1. PICK r \in BrkRange : r = brk
      BY DEF BrkRange
    <2>2. r \in Nat
      BY SizeAssumption DEF BrkRange
    <2> QED BY <1>6, <1>r, <2>1, <2>2 DEF KernelBrkStays, kernel, history
  <1>7. CASE KernelMunmapForeign(t)
    BY <1>7, <1>r, SizeAssumption DEF KernelMunmapForeign, kernel, BrkRange
  <1> QED BY <1>1, <1>2, <1>3, <1>4, <1>5, <1>6, <1>7 DEF Kernel

(* The post event keeps the types: every amount it charges fits a size_t.   *)
LEMMA TypePost ==
    ASSUME TypeInv, NEW t \in Threads, Post(t)
    PROVE  TypeInv'
  <1> USE DEF TypeInv, TypeOK
  <1>c. /\ call[t] \in CallRec /\ call[t].old \in Nat /\ res[t] \in Nat
        /\ g_alloc_bytes \in 0..(SizeMod - 1) /\ g_max_alloc_bytes \in 0..(SizeMod - 1)
    BY SizeAssumption DEF CallRec
  <1>n. NoCall \in CallRec /\ SizeMod \in Nat
    BY SizeAssumption DEF NoCall, CallRec
  <1>d. ASSUME NEW ph \in Phases, NEW b \in Nat, Decide(t, ph, b), ph \in WithOld => b < SizeMod,
               ph # "post", g_mutex' \in Threads \cup {Free},
               g_initial_brk' \in Nat, g_initial_brk' # 0 => g_initial_brk' \in BrkRange
        PROVE  TypeInv'
    BY <1>c, <1>d DEF Decide, last, kernel, history, CallRec
  <1>f. ASSUME Finish(t), g_alloc_bytes' \in 0..(SizeMod - 1), g_mutex' \in Threads \cup {Free},
               g_initial_brk' \in Nat, g_initial_brk' # 0 => g_initial_brk' \in BrkRange
        PROVE  TypeInv'
    BY <1>n, <1>f DEF Finish, last, kernel, history, CallRec, Phases, WithOld
  <1>b. BytesToAdd(t) \in Nat /\ BytesToSub(t) \in Nat
    BY DEF BytesToAdd, BytesToSub
  <1>w. WrapSub(g_max_alloc_bytes, g_alloc_bytes) \in 0..(SizeMod - 1)
    BY <1>c, WrapLemma
  <1>1. CASE alloc_budget_add(t)
    <2>1. CASE BytesToAdd(t) > WrapSub(g_max_alloc_bytes, g_alloc_bytes)
      <3>1. Decide(t, "store_max", BytesToAdd(t))
        BY <1>1, <2>1 DEF alloc_budget_add
      <3>2. PICK b \in Nat : b = BytesToAdd(t)
        BY <1>b
      <3> QED BY <1>1, <1>d, <3>1, <3>2 DEF alloc_budget_add, Lock, Phases, LockedStores, WithOld
    <2>2. CASE ~(BytesToAdd(t) > WrapSub(g_max_alloc_bytes, g_alloc_bytes))
      <3>1. Decide(t, "store_add", BytesToAdd(t))
        BY <1>1, <2>2 DEF alloc_budget_add
      <3>2. PICK b \in Nat : b = BytesToAdd(t)
        BY <1>b
      <3>3. b < SizeMod
        BY <1>b, <1>n, <1>w, <2>2, <3>2
      <3> QED BY <1>1, <1>d, <3>1, <3>2, <3>3 DEF alloc_budget_add, Lock, Phases, LockedStores
    <2> QED BY <2>1, <2>2
  <1>2. CASE alloc_budget_sub(t)
    <2>1. PICK b \in Nat : b = BytesToSub(t)
      BY <1>b
    <2>2. CASE b > g_alloc_bytes
      <3>1. Decide(t, "store_zero", b)
        BY <1>2, <2>1, <2>2 DEF alloc_budget_sub
      <3> QED BY <1>2, <1>d, <3>1 DEF alloc_budget_sub, Lock, Phases, LockedStores, WithOld
    <2>3. CASE ~(b > g_alloc_bytes)
      <3>1. Decide(t, "store_sub", b)
        BY <1>2, <2>1, <2>3 DEF alloc_budget_sub
      <3>2. b < SizeMod
        BY <1>c, <1>n, <2>3
      <3> QED BY <1>2, <1>d, <3>1, <3>2 DEF alloc_budget_sub, Lock, Phases, LockedStores
    <2> QED BY <2>2, <2>3
  <1>3. CASE StoreLocked(t)
    <2>1. pc[t] \in {"store_add", "store_sub"} => call[t].old \in 0..(SizeMod - 1)
      BY <1>c, <1>n DEF WithOld
    <2>2. 0 \in 0..(SizeMod - 1)
      BY <1>c, <1>n
    <2>3. g_alloc_bytes' \in 0..(SizeMod - 1)
      BY <1>3, <1>c, <2>1, <2>2, WrapLemma DEF StoreLocked, LockedStores
    <2> QED BY <1>3, <1>f, <2>3 DEF StoreLocked
  <1>4. CASE PostNothing(t)
    BY <1>4, <1>f DEF PostNothing, client
  <1>l. ASSUME pc[t] = "post", call[t].op = "brk", LearnBrk(t)
        PROVE  g_initial_brk' \in Nat /\ (g_initial_brk' # 0 => g_initial_brk' \in BrkRange)
    BY <1>l, <1>c DEF LearnBrk
  <1>5. CASE PostBrk(t)
    BY <1>5, <1>f, <1>l DEF PostBrk
  <1>6. CASE PostBrkRaises(t)
    <2>1. /\ pc[t] = "post" /\ call[t].op = "brk" /\ LearnBrk(t) /\ BrkRaises(t)
          /\ Decide(t, "store_heap", res[t] - g_initial_brk') /\ UNCHANGED g_mutex
      BY <1>6 DEF PostBrkRaises
    <2>2. res[t] \in BrkRange /\ g_initial_brk' \in BrkRange
      BY <2>1, <1>l, SizeAssumption DEF LearnBrk, BrkRange
    <2>3. PICK b \in Nat : b = res[t] - g_initial_brk'
      BY <1>c, <1>l, <2>1 DEF BrkRaises
    <2>4. b < SizeMod
      BY <2>2, <2>3, SizeAssumption DEF BrkRange
    <2> QED BY <1>d, <1>l, <2>1, <2>3, <2>4 DEF Phases
  <1>7. CASE StoreHeap(t)
    <2>1. g_alloc_bytes' \in 0..(SizeMod - 1)
      BY <1>7, <1>c, <1>n DEF StoreHeap, WithOld
    <2> QED BY <1>7, <1>f, <2>1 DEF StoreHeap
  <1> QED BY <1>1, <1>2, <1>3, <1>4, <1>5, <1>6, <1>7 DEF Post

(* One step keeps the types.                                                *)
LEMMA TypeStep == TypeInv /\ [Next]_vars => TypeInv'
  <1> SUFFICES ASSUME TypeInv, [Next]_vars PROVE TypeInv'
    OBVIOUS
  <1>1. CASE Next
    BY <1>1, TypePre, TypeKernel, TypePost DEF Next
  <1>2. CASE UNCHANGED vars
    BY <1>2 DEF vars, client, last, kernel, history, TypeInv, TypeOK
  <1> QED BY <1>1, <1>2

(* Every reachable state of every instance has its type: no store to        *)
(* g_alloc_bytes leaves the range of a size_t.                              *)
THEOREM TypeCorrect == Spec => []TypeOK
  <1>1. TypeInv => TypeOK
    BY DEF TypeInv
  <1> QED BY <1>1, TypeInit, TypeStep, PTL DEF Spec

-----------------------------------------------------------------------------
(* The heap limit, for any number of threads.  Before the break is learned  *)
(* only Main runs, so the answer Main is about to learn is the break.       *)
(* Afterwards every brk in progress was compared with the learned value.    *)
HeapInv ==
    /\ g_initial_brk = 0 =>
          /\ \A t \in Threads : t # Main => pc[t] = "app"
          /\ pc[Main] = "post" /\ call[Main].op = "brk" => res[Main] = brk
    /\ alloc_budget_enabled /\ g_initial_brk # 0 =>
          /\ brk <= g_initial_brk + g_max_alloc_bytes
          /\ \A t \in Threads : pc[t] \in {"kernel", "post"} /\ call[t].op = "brk" =>
                 call[t].len <= g_initial_brk + g_max_alloc_bytes

(* Only brk moves the break, and only a brk call is compared with it.       *)
LEMMA HeapStep ==
    ASSUME TypeInv, HeapInv, [Next]_vars
    PROVE  HeapInv'
  <1> USE SizeAssumption, ThreadAssumption
  <1>p. ASSUME NEW t \in Threads, NEW c, Runs(t), pc' = [pc EXCEPT ![t] = "kernel"],
               call' = [call EXCEPT ![t] = c], UNCHANGED <<client, kernel, res>>,
               c.op = "brk" /\ alloc_budget_enabled /\ g_initial_brk # 0 =>
                  c.len <= g_initial_brk + g_max_alloc_bytes
        PROVE  HeapInv'
    BY <1>p DEF HeapInv, Runs, client, kernel, TypeInv, TypeOK, alloc_budget_enabled
  <1>u. ASSUME UNCHANGED <<client, kernel, pc, call, res>>
        PROVE  HeapInv'
    BY <1>u DEF HeapInv, client, kernel, alloc_budget_enabled
  <1>1. ASSUME NEW t \in Threads, Pre(t) PROVE HeapInv'
    <2>1. ASSUME NEW len \in Sizes, PreMmap(t, len) \/ PreMunmap(t, len) PROVE HeapInv'
      BY <1>p, <2>1 DEF PreMmap, PreMunmap, Allow, MkCall
    <2>2. ASSUME NEW old \in Sizes, NEW new \in Sizes, PreMremap(t, old, new) PROVE HeapInv'
      BY <1>p, <2>2 DEF PreMremap, Allow, MkCall
    <2>3. ASSUME NEW requested \in {0} \cup Addresses, PreBrk(t, requested) PROVE HeapInv'
      <3>1. MkCall("brk", 0, requested).len = requested /\ requested \in Int
        BY DEF MkCall, Addresses
      <3>2. g_initial_brk \in Nat
        BY DEF TypeInv, TypeOK
      <3>3. alloc_budget_enabled /\ g_initial_brk # 0 =>
               requested <= g_initial_brk + g_max_alloc_bytes
        BY <2>3, <3>1, <3>2 DEF PreBrk, BrkTooLarge
      <3> QED BY <1>p, <2>3, <3>1, <3>3 DEF PreBrk, Allow
    <2>4. ASSUME NEW len \in Sizes, PreMmapRefused(t, len) PROVE HeapInv'
      BY <1>u, <2>4 DEF PreMmapRefused, Refuse
    <2>5. ASSUME NEW old \in Sizes, NEW new \in Sizes, PreMremapRefused(t, old, new)
          PROVE HeapInv'
      BY <1>u, <2>5 DEF PreMremapRefused, Refuse
    <2>6. ASSUME NEW requested \in {0} \cup Addresses, PreBrkRefused(t, requested) PROVE HeapInv'
      BY <1>u, <2>6 DEF PreBrkRefused, Refuse
    <2>7. CASE \E op \in {"dup", "other"} : PreOther(t, op)
      BY <1>u, <2>7 DEF PreOther
    <2> QED BY <1>1, <2>1, <2>2, <2>3, <2>4, <2>5, <2>6, <2>7 DEF Pre
  <1>2. ASSUME NEW t \in Threads, Kernel(t) PROVE HeapInv'
    <2> DEFINE c == call[t]
    <2>1. /\ pc[t] = "kernel" /\ pc' = [pc EXCEPT ![t] = "post"] /\ call' = call
          /\ UNCHANGED client
      BY <1>2 DEF Kernel, KernelFails, KernelMmap, KernelMunmap, KernelMunmapForeign, KernelMremap,
         KernelBrkMoves, KernelBrkStays, Return
    <2>2. CASE c.op # "brk"
      <3>1. brk' = brk
        BY <1>2, <2>2 DEF Kernel, KernelFails, KernelMmap, KernelMunmap, KernelMunmapForeign, KernelMremap,
           KernelMaps, KernelBrkMoves, KernelBrkStays, kernel
      <3> QED BY <2>1, <2>2, <3>1 DEF HeapInv, client, TypeInv, TypeOK, alloc_budget_enabled
    <2>3. CASE KernelBrkMoves(t)
      <3>1. brk' = c.len /\ res' = [res EXCEPT ![t] = c.len] /\ c.op = "brk"
        BY <2>3 DEF KernelBrkMoves, Return
      <3> QED BY <2>1, <3>1 DEF HeapInv, client, TypeInv, TypeOK, alloc_budget_enabled
    <2>4. CASE KernelBrkStays(t)
      <3>1. brk' = brk /\ res' = [res EXCEPT ![t] = brk] /\ c.op = "brk"
        BY <2>4 DEF KernelBrkStays, Return, kernel
      <3> QED BY <2>1, <3>1 DEF HeapInv, client, TypeInv, TypeOK, alloc_budget_enabled
    <2> QED
      BY <1>2, <2>2, <2>3, <2>4 DEF Kernel, KernelFails, KernelMmap, KernelMunmap, KernelMunmapForeign, KernelMremap
  <1>3. ASSUME NEW t \in Threads, Post(t) PROVE HeapInv'
    <2>a. /\ brk' = brk /\ \A u \in Threads : u # t => pc'[u] = pc[u] /\ call'[u] = call[u]
          /\ pc[t] # "app" /\ pc'[t] \notin {"kernel", "post"}
      BY <1>3 DEF Post, alloc_budget_add, alloc_budget_sub, StoreLocked, PostNothing, PostBrk,
         PostBrkRaises, StoreHeap, Decide, Finish, kernel, TypeInv, TypeOK, LockedStores
    <2>1. CASE g_initial_brk' = g_initial_brk
      <3>1. g_initial_brk = 0 => pc'[t] # "post" /\ (t # Main => FALSE)
        BY <2>a DEF HeapInv
      <3> QED BY <2>a, <2>1, <3>1 DEF HeapInv, alloc_budget_enabled
    <2>2. CASE g_initial_brk' # g_initial_brk
      <3>1. g_initial_brk = 0 /\ g_initial_brk' = res[t] /\ pc[t] = "post" /\ call[t].op = "brk"
        BY <1>3, <2>2 DEF Post, alloc_budget_add, alloc_budget_sub, StoreLocked, PostNothing,
           PostBrk, PostBrkRaises, StoreHeap, LearnBrk, client
      <3>2. t = Main /\ res[t] = brk
        BY <3>1 DEF HeapInv
      <3>3. \A u \in Threads : pc'[u] \notin {"kernel", "post"}
        BY <2>a, <3>1, <3>2 DEF HeapInv
      <3>4. brk \in Nat /\ brk # 0
        BY DEF TypeInv, TypeOK
      <3> QED BY <2>a, <3>1, <3>2, <3>3, <3>4 DEF HeapInv, alloc_budget_enabled
    <2> QED BY <2>1, <2>2
  <1>4. CASE UNCHANGED vars
    BY <1>4, <1>u DEF vars
  <1> QED BY <1>1, <1>2, <1>3, <1>4 DEF Next

(* With any number of threads, whatever they allocate, the heap above the   *)
(* learned break never exceeds DR_MAX_ALLOC_BYTES.                          *)
THEOREM HeapIsLimited == Spec => []HeapWithinBudget
  <1>1. Init => TypeInv /\ HeapInv
    BY TypeInit, ThreadAssumption DEF Init, HeapInv
  <1>2. TypeInv /\ HeapInv /\ [Next]_vars => (TypeInv /\ HeapInv)'
    BY TypeStep, HeapStep
  <1>3. TypeInv /\ HeapInv => HeapWithinBudget
    BY SizeAssumption DEF HeapInv, HeapWithinBudget, Heap, TypeInv, TypeOK, alloc_budget_enabled
  <1> QED BY <1>1, <1>2, <1>3, PTL DEF Spec

-----------------------------------------------------------------------------
(* The bound on the charge.  The store of the brk branch is the only one    *)
(* made without g_mutex: the bound holds if it cannot meet another store,   *)
(* because there is one thread or because no heap is asked for.             *)
Disciplined == (\A t, u \in Threads : t = u) \/ Breaks = {}

ChargeInv ==
    /\ \A t \in Threads : pc[t] \in LockedStores => g_mutex = t
    /\ Breaks = {} => \A t \in Threads :
          pc[t] # "store_heap" /\ (call[t].op = "brk" => call[t].len = 0)
    /\ alloc_budget_enabled =>
          /\ g_alloc_bytes <= g_max_alloc_bytes
          /\ \A t \in Threads :
                /\ pc[t] = "store_add"  => g_alloc_bytes + call[t].old <= g_max_alloc_bytes
                /\ pc[t] = "store_sub"  => call[t].old <= g_alloc_bytes
                /\ pc[t] = "store_heap" => call[t].old <= g_max_alloc_bytes

(* Every store to g_alloc_bytes writes the value its comparison justified.  *)
LEMMA ChargeStep ==
    ASSUME Disciplined, TypeInv, HeapInv, ChargeInv, [Next]_vars
    PROVE  ChargeInv'
  <1> USE SizeAssumption, ThreadAssumption
  <1>t. /\ g_alloc_bytes \in 0..(SizeMod - 1) /\ pc \in [Threads -> Phases]
        /\ call \in [Threads -> CallRec] /\ g_max_alloc_bytes \in 0..(SizeMod - 1)
    BY DEF TypeInv, TypeOK, CallRec
  <1>u. ASSUME UNCHANGED client, NEW t \in Threads, pc'[t] \in {"app", "kernel", "post"},
               \A u \in Threads \ {t} : pc'[u] = pc[u] /\ call'[u] = call[u],
               Breaks = {} => (call'[t].op = "brk" => call'[t].len = 0)
        PROVE  ChargeInv'
    BY <1>u DEF ChargeInv, client, LockedStores, alloc_budget_enabled
  <1>1. ASSUME NEW t \in Threads, Pre(t) PROVE ChargeInv'
    <2>1. ASSUME NEW c, Allow(t, c), Breaks = {} => (c.op = "brk" => c.len = 0)
          PROVE  ChargeInv'
      BY <1>t, <1>u, <2>1 DEF Allow
    <2>2. ASSUME UNCHANGED <<client, pc, call>> PROVE ChargeInv'
      BY <2>2 DEF ChargeInv, client, alloc_budget_enabled
    <2>3. ASSUME NEW len \in Sizes, PreMmap(t, len) \/ PreMunmap(t, len) PROVE ChargeInv'
      BY <2>1, <2>3 DEF PreMmap, PreMunmap, MkCall
    <2>4. ASSUME NEW old \in Sizes, NEW new \in Sizes, PreMremap(t, old, new) PROVE ChargeInv'
      BY <2>1, <2>4 DEF PreMremap, MkCall
    <2>5. ASSUME NEW requested \in {0} \cup Addresses, PreBrk(t, requested) PROVE ChargeInv'
      BY <2>1, <2>5 DEF PreBrk, MkCall, Addresses
    <2>6. ASSUME NEW len \in Sizes, PreMmapRefused(t, len) PROVE ChargeInv'
      BY <2>2, <2>6 DEF PreMmapRefused, Refuse
    <2>7. ASSUME NEW old \in Sizes, NEW new \in Sizes, PreMremapRefused(t, old, new)
          PROVE ChargeInv'
      BY <2>2, <2>7 DEF PreMremapRefused, Refuse
    <2>8. ASSUME NEW requested \in {0} \cup Addresses, PreBrkRefused(t, requested) PROVE ChargeInv'
      BY <2>2, <2>8 DEF PreBrkRefused, Refuse
    <2>9. CASE \E op \in {"dup", "other"} : PreOther(t, op)
      BY <2>2, <2>9 DEF PreOther
    <2> QED BY <1>1, <2>3, <2>4, <2>5, <2>6, <2>7, <2>8, <2>9 DEF Pre
  <1>2. ASSUME NEW t \in Threads, Kernel(t) PROVE ChargeInv'
    <2>1. pc' = [pc EXCEPT ![t] = "post"] /\ call' = call /\ UNCHANGED client
      BY <1>2 DEF Kernel, KernelFails, KernelMmap, KernelMunmap, KernelMunmapForeign, KernelMremap,
         KernelBrkMoves, KernelBrkStays, Return
    <2>2. Breaks = {} => (call'[t].op = "brk" => call'[t].len = 0)
      BY <2>1 DEF ChargeInv
    <2> QED BY <1>t, <1>u, <2>1, <2>2
  <1>3. ASSUME NEW t \in Threads, alloc_budget_add(t) PROVE ChargeInv'
    <2> DEFINE b == BytesToAdd(t)
               p == IF b > WrapSub(g_max_alloc_bytes, g_alloc_bytes) THEN "store_max" ELSE "store_add"
    <2>1. /\ g_mutex = Free /\ g_mutex' = t /\ pc' = [pc EXCEPT ![t] = p]
          /\ call' = [call EXCEPT ![t].old = b] /\ g_alloc_bytes' = g_alloc_bytes
      BY <1>3 DEF alloc_budget_add, Lock, Decide
    <2>2. b \in Nat
      BY DEF BytesToAdd, TypeInv, TypeOK
    <2>3. \A u \in Threads : pc[u] \notin LockedStores
      BY <2>1 DEF ChargeInv
    <2>4. alloc_budget_enabled /\ p = "store_add" => g_alloc_bytes + b <= g_max_alloc_bytes
      BY <1>t, <2>2 DEF WrapSub, ChargeInv
    <2>5. pc'[t] = p /\ call'[t].old = b /\ call'[t].op = call[t].op /\ call'[t].len = call[t].len
          /\ \A u \in Threads \ {t} : pc'[u] = pc[u] /\ call'[u] = call[u]
      BY <1>t, <2>1 DEF CallRec
    <2>6. p \in {"store_max", "store_add"}
      OBVIOUS
    <2> HIDE DEF b, p
    <2> QED BY <2>1, <2>3, <2>4, <2>5, <2>6 DEF ChargeInv, LockedStores, alloc_budget_enabled
  <1>4. ASSUME NEW t \in Threads, alloc_budget_sub(t) PROVE ChargeInv'
    <2> DEFINE b == BytesToSub(t)
               p == IF b > g_alloc_bytes THEN "store_zero" ELSE "store_sub"
    <2>1. /\ g_mutex = Free /\ g_mutex' = t /\ pc' = [pc EXCEPT ![t] = p]
          /\ call' = [call EXCEPT ![t].old = b] /\ g_alloc_bytes' = g_alloc_bytes
      BY <1>4 DEF alloc_budget_sub, Lock, Decide
    <2>2. b \in Nat
      BY DEF BytesToSub, TypeInv, TypeOK
    <2>3. \A u \in Threads : pc[u] \notin LockedStores
      BY <2>1 DEF ChargeInv
    <2>4. p = "store_sub" => b <= g_alloc_bytes
      BY <1>t, <2>2
    <2>5. pc'[t] = p /\ call'[t].old = b /\ call'[t].op = call[t].op /\ call'[t].len = call[t].len
          /\ \A u \in Threads \ {t} : pc'[u] = pc[u] /\ call'[u] = call[u]
      BY <1>t, <2>1 DEF CallRec
    <2>6. p \in {"store_zero", "store_sub"}
      OBVIOUS
    <2> HIDE DEF b, p
    <2> QED BY <2>1, <2>3, <2>4, <2>5, <2>6 DEF ChargeInv, LockedStores, alloc_budget_enabled
  <1>f. ASSUME NEW t \in Threads, Finish(t)
        PROVE  /\ pc'[t] = "app" /\ call'[t].op = "none"
               /\ \A u \in Threads \ {t} : pc'[u] = pc[u] /\ call'[u] = call[u]
    BY <1>t, <1>f DEF Finish, NoCall
  <1>5. ASSUME NEW t \in Threads, StoreLocked(t) PROVE ChargeInv'
    <2>1. pc[t] \in LockedStores /\ \A u \in Threads \ {t} : pc[u] \notin LockedStores
      BY <1>5 DEF StoreLocked, ChargeInv
    <2>2. alloc_budget_enabled => g_alloc_bytes' <= g_max_alloc_bytes
      <3>1. call[t].old \in Nat
        BY <1>t DEF CallRec
      <3> QED BY <1>5, <1>t, <2>1, <3>1 DEF StoreLocked, ChargeInv, LockedStores, WrapAdd, WrapSub
    <2> QED BY <1>5, <1>f, <2>1, <2>2 DEF StoreLocked, ChargeInv, LockedStores, alloc_budget_enabled
  <1>6. ASSUME NEW t \in Threads, PostNothing(t) PROVE ChargeInv'
    BY <1>6, <1>f, <1>u DEF PostNothing
  <1>7. ASSUME NEW t \in Threads, PostBrk(t) PROVE ChargeInv'
    BY <1>7, <1>f DEF PostBrk, ChargeInv, LockedStores, alloc_budget_enabled
  <1>8. ASSUME NEW t \in Threads, PostBrkRaises(t) PROVE ChargeInv'
    <2>1. /\ pc[t] = "post" /\ call[t].op = "brk" /\ LearnBrk(t) /\ BrkRaises(t)
          /\ g_mutex' = g_mutex /\ g_alloc_bytes' = g_alloc_bytes
          /\ pc' = [pc EXCEPT ![t] = "store_heap"]
          /\ call' = [call EXCEPT ![t].old = res[t] - g_initial_brk']
      BY <1>8 DEF PostBrkRaises, Decide
    <2>2. Breaks # {}
      BY <2>1 DEF BrkRaises, ChargeInv
    <2>3. g_initial_brk # 0
      <3>1. CASE g_initial_brk = 0
        <4>1. g_initial_brk' = res[t] /\ res[t] \in Nat
          BY <2>1, <3>1 DEF LearnBrk, TypeInv, TypeOK
        <4> QED BY <2>1, <4>1 DEF BrkRaises
      <3> QED BY <3>1
    <2>4. alloc_budget_enabled => res[t] - g_initial_brk' <= g_max_alloc_bytes
      BY <2>1, <2>3 DEF BrkRaises, LearnBrk, HeapInv, TypeInv, TypeOK
    <2>5. pc'[t] = "store_heap" /\ call'[t].old = res[t] - g_initial_brk'
          /\ \A u \in Threads \ {t} : pc'[u] = pc[u] /\ call'[u] = call[u]
      BY <1>t, <2>1 DEF CallRec
    <2> QED BY <2>1, <2>2, <2>4, <2>5 DEF ChargeInv, LockedStores, alloc_budget_enabled
  <1>9. ASSUME NEW t \in Threads, StoreHeap(t) PROVE ChargeInv'
    <2>1. Breaks # {}
      BY <1>9 DEF StoreHeap, ChargeInv
    <2>2. \A u \in Threads : u = t
      BY <2>1 DEF Disciplined
    <2> QED BY <1>9, <1>f, <2>1, <2>2 DEF StoreHeap, ChargeInv, LockedStores, alloc_budget_enabled
  <1>10. CASE UNCHANGED vars
    BY <1>10 DEF vars, client, ChargeInv, alloc_budget_enabled
  <1> QED
    BY <1>1, <1>2, <1>3, <1>4, <1>5, <1>6, <1>7, <1>8, <1>9, <1>10 DEF Next, Post

(* If the program has one thread, or any number of threads none of which    *)
(* grows the heap, g_alloc_bytes never exceeds the budget: the unsigned     *)
(* difference in alloc_budget_has_room never wraps round.                   *)
THEOREM ChargeIsLimited == ASSUME Disciplined PROVE Spec => []ChargeWithinBudget
  <1>1. Init => TypeInv /\ HeapInv /\ ChargeInv
    BY TypeInit, ThreadAssumption, SizeAssumption DEF Init, HeapInv, ChargeInv, LockedStores, NoCall
  <1>2. TypeInv /\ HeapInv /\ ChargeInv /\ [Next]_vars => (TypeInv /\ HeapInv /\ ChargeInv)'
    BY TypeStep, HeapStep, ChargeStep
  <1>3. ChargeInv => ChargeWithinBudget
    BY DEF ChargeInv, ChargeWithinBudget
  <1> QED BY <1>1, <1>2, <1>3, PTL DEF Spec

-----------------------------------------------------------------------------
(* The charge and the memory, for a program of one thread; with a second    *)
(* thread the g_last_* globals of one call are charged to another.  The     *)
(* lengths may be any.                                                      *)
Solo == Threads = {Main}

Near == mapped <= g_alloc_bytes + undercharged /\ g_alloc_bytes <= mapped + heapPeak + overcharged

(* What the pre event left behind describes the call in the kernel, and its *)
(* room test still holds.                                                   *)
Described(c) ==
    /\ c.op = g_last_sysnum
    /\ c.op = "mmap" => g_last_mmap_len = c.len /\ g_alloc_bytes + c.len <= g_max_alloc_bytes
    /\ c.op = "munmap" => g_last_munmap_len = c.len
    /\ c.op = "mremap" => /\ g_last_mremap_old_len = c.old /\ g_last_mremap_new_len = c.len
                          /\ c.len > c.old =>
                                g_alloc_bytes + (c.len - c.old) <= g_max_alloc_bytes

(* After the kernel's answer the charge fits the memory but for the amounts *)
(* still to be charged.                                                     *)
ToCharge(add, sub) ==
    /\ add = 0 \/ sub = 0
    /\ mapped + sub <= g_alloc_bytes + add + undercharged
    /\ g_alloc_bytes + add <= mapped + sub + heapPeak + overcharged
    /\ g_alloc_bytes + add <= g_max_alloc_bytes

MatchInv ==
    alloc_budget_enabled =>
        /\ g_initial_brk # 0 /\ brk > g_initial_brk => brk - g_initial_brk <= heapPeak
        /\ pc[Main] = "app" => Near
        /\ pc[Main] = "kernel" => Near /\ Described(call[Main])
        /\ pc[Main] = "post" => /\ ToCharge(BytesToAdd(Main), BytesToSub(Main))
                                /\ call[Main].op = "brk" => res[Main] = brk
        /\ pc[Main] = "store_add" => ToCharge(call[Main].old, 0)
        /\ pc[Main] = "store_sub" => ToCharge(0, call[Main].old)
        /\ pc[Main] = "store_zero" => ToCharge(0, call[Main].old) /\ g_alloc_bytes < call[Main].old
        /\ pc[Main] = "store_heap" =>
              Near /\ g_alloc_bytes < call[Main].old /\ call[Main].old <= heapPeak
        /\ pc[Main] # "store_max"

(* The pre event: what it allows fits the budget.                           *)
LEMMA MatchPre ==
    ASSUME TypeInv, ChargeInv, MatchInv, alloc_budget_enabled, Pre(Main)
    PROVE  MatchInv'
  <1> USE SizeAssumption, ThreadAssumption
  <1>t. /\ g_alloc_bytes \in Nat /\ g_max_alloc_bytes \in Nat /\ mapped \in Nat /\ heapPeak \in Nat
        /\ undercharged \in Nat /\ overcharged \in Nat
        /\ pc \in [Threads -> Phases] /\ call \in [Threads -> CallRec]
        /\ g_alloc_bytes <= g_max_alloc_bytes
    BY DEF TypeInv, TypeOK, CallRec, ChargeInv
  <1>w. \A n \in Nat : alloc_budget_has_room(n) => g_alloc_bytes + n <= g_max_alloc_bytes
    BY <1>t DEF alloc_budget_has_room, WrapSub
  <1>a. ASSUME NEW c \in CallRec, Allow(Main, c), Described(c)', Near
        PROVE  MatchInv'
    <2>1. /\ pc'[Main] = "kernel" /\ call'[Main] = c
          /\ UNCHANGED <<g_alloc_bytes, g_initial_brk, brk, mapped, history>>
      BY <1>a, <1>t DEF Allow, client, kernel
    <2> QED BY <1>a, <2>1 DEF MatchInv, Near, alloc_budget_enabled, history
  <1>r. ASSUME UNCHANGED <<client, kernel, pc, call, res, history>>, pc[Main] = "app"
        PROVE  MatchInv'
    BY <1>r DEF MatchInv, Near, alloc_budget_enabled, client, kernel, history
  <1>n. pc[Main] = "app" => Near
    BY DEF MatchInv
  <1>1. ASSUME NEW len \in Sizes, PreMmap(Main, len) PROVE MatchInv'
    <2>0. MkCall("mmap", 0, len) \in CallRec
      BY DEF MkCall, CallRec
    <2>1. PICK c \in CallRec : c = MkCall("mmap", 0, len)
      BY <2>0
    <2>c. c.op = "mmap" /\ c.len = len
      BY <2>1 DEF MkCall
    <2>2. Described(c)'
      BY <1>1, <1>w, <2>1, <2>c DEF PreMmap, Allow, Last, Described, client
    <2> QED BY <1>1, <1>a, <1>n, <2>1, <2>2 DEF PreMmap, Allow, Runs
  <1>2. ASSUME NEW len \in Sizes, PreMmapRefused(Main, len) PROVE MatchInv'
    BY <1>2, <1>r DEF PreMmapRefused, Refuse, Runs
  <1>3. ASSUME NEW len \in Sizes, PreMunmap(Main, len) PROVE MatchInv'
    <2>0. MkCall("munmap", 0, len) \in CallRec
      BY DEF MkCall, CallRec
    <2>1. PICK c \in CallRec : c = MkCall("munmap", 0, len)
      BY <2>0
    <2>c. c.op = "munmap" /\ c.len = len
      BY <2>1 DEF MkCall
    <2>2. Described(c)'
      BY <1>3, <2>1, <2>c DEF PreMunmap, Last, Described
    <2> QED BY <1>3, <1>a, <1>n, <2>1, <2>2 DEF PreMunmap, Allow, Runs
  <1>4. ASSUME NEW old \in Sizes, NEW new \in Sizes, PreMremap(Main, old, new) PROVE MatchInv'
    <2>0. MkCall("mremap", old, new) \in CallRec
      BY DEF MkCall, CallRec
    <2>1. PICK c \in CallRec : c = MkCall("mremap", old, new)
      BY <2>0
    <2>c. c.op = "mremap" /\ c.old = old /\ c.len = new
      BY <2>1 DEF MkCall
    <2>2. new > old => g_alloc_bytes + (new - old) <= g_max_alloc_bytes
      BY <1>4, <1>w DEF PreMremap
    <2>3. Described(c)'
      BY <1>4, <2>1, <2>c, <2>2 DEF PreMremap, Allow, Last, Described, client
    <2> QED BY <1>4, <1>a, <1>n, <2>1, <2>3 DEF PreMremap, Allow, Runs
  <1>5. ASSUME NEW old \in Sizes, NEW new \in Sizes, PreMremapRefused(Main, old, new) PROVE MatchInv'
    BY <1>5, <1>r DEF PreMremapRefused, Refuse, Runs
  <1>6. ASSUME NEW requested \in {0} \cup Addresses, PreBrk(Main, requested) PROVE MatchInv'
    <2>0. MkCall("brk", 0, requested) \in CallRec
      BY DEF MkCall, CallRec, Addresses
    <2>1. PICK c \in CallRec : c = MkCall("brk", 0, requested)
      BY <2>0
    <2>c. c.op = "brk"
      BY <2>1 DEF MkCall
    <2>2. Described(c)'
      BY <1>6, <2>1, <2>c DEF PreBrk, Last, Described
    <2> QED BY <1>6, <1>a, <1>n, <2>1, <2>2 DEF PreBrk, Allow, Runs
  <1>7. ASSUME NEW requested \in {0} \cup Addresses, PreBrkRefused(Main, requested) PROVE MatchInv'
    BY <1>7, <1>r DEF PreBrkRefused, Refuse, Runs
  <1>8. CASE \E op \in {"dup", "other"} : PreOther(Main, op)
    BY <1>8, <1>r DEF PreOther, Runs
  <1> QED BY <1>1, <1>2, <1>3, <1>4, <1>5, <1>6, <1>7, <1>8 DEF Pre

(* The kernel: it changes the memory by what the post event will charge.    *)
LEMMA MatchKernel ==
    ASSUME Solo, TypeInv, ChargeInv, MatchInv, alloc_budget_enabled, Kernel(Main)
    PROVE  MatchInv'
  <1> USE SizeAssumption, ThreadAssumption
  <1> DEFINE c == call[Main]
  <1>t. /\ g_alloc_bytes \in Nat /\ g_max_alloc_bytes \in Nat /\ mapped \in Nat /\ heapPeak \in Nat
        /\ undercharged \in Nat /\ overcharged \in Nat
        /\ pc \in [Threads -> Phases] /\ c.len \in Nat /\ c.old \in Nat /\ res \in [Threads -> Nat]
        /\ brk \in Nat /\ g_initial_brk \in Nat
        /\ g_alloc_bytes <= g_max_alloc_bytes
    BY DEF TypeInv, TypeOK, CallRec, ChargeInv
  <1>k. pc[Main] = "kernel"
    BY DEF Kernel, KernelFails, KernelMmap, KernelMunmap, KernelMunmapForeign, KernelMremap,
           KernelBrkMoves, KernelBrkStays, Return
  <1>n. Near /\ Described(c)
    BY <1>k DEF MatchInv
  <1>r. ASSUME NEW r \in Nat, Return(Main, r)
        PROVE  /\ pc'[Main] = "post" /\ res'[Main] = r /\ call' = call
               /\ UNCHANGED <<client, last>>
    BY <1>r, <1>t DEF Return
  <1>q. ASSUME pc'[Main] = "post", UNCHANGED <<client, brk, heapPeak>>, call' = call,
               ToCharge(BytesToAdd(Main), BytesToSub(Main))', c.op = "brk" => res'[Main] = brk
        PROVE  MatchInv'
    BY <1>q DEF MatchInv, client, alloc_budget_enabled
  <1>1. CASE KernelFails(Main)
    <2>1. /\ pc'[Main] = "post" /\ res'[Main] = 0 /\ call' = call /\ c.op # "brk"
          /\ UNCHANGED <<client, last, kernel, history>>
      BY <1>1, <1>r DEF KernelFails
    <2>2. BytesToAdd(Main)' = 0 /\ BytesToSub(Main)' = 0
      BY <2>1 DEF BytesToAdd, BytesToSub, Ours
    <2>3. ToCharge(0, 0)'
      BY <1>n, <1>t, <2>1 DEF ToCharge, Near, client, kernel, history
    <2> QED BY <1>q, <2>1, <2>2, <2>3 DEF kernel, history
  <1>m. ASSUME NEW up \in Nat, NEW off \in Nat, KernelMaps(up, off), UNCHANGED client,
               NEW add \in Nat, NEW sub \in Nat, add = 0 \/ sub = 0, add + off = sub + up,
               g_alloc_bytes + add <= g_max_alloc_bytes
        PROVE  ToCharge(add, sub)' /\ UNCHANGED <<brk, heapPeak>>
    <2>1. PageTail(up) \in Nat /\ PageTail(off) \in Nat
      BY PageLemma
    <2>2. /\ mapped' \in 0..MapCap /\ UNCHANGED <<brk, heapPeak>>
          /\ mapped' + off + PageTail(off) = mapped + up + PageTail(up)
          /\ undercharged' = undercharged + PageTail(up) /\ overcharged' = overcharged + PageTail(off)
      BY <1>m, <1>t, MapsLemma
    <2>3. /\ mapped' + sub <= g_alloc_bytes + add + undercharged'
          /\ g_alloc_bytes + add <= mapped' + sub + heapPeak + overcharged'
      BY <1>m, <1>n, <1>t, <2>1, <2>2 DEF Near
    <2> QED BY <1>m, <2>2, <2>3 DEF ToCharge, client
  <1>2. CASE KernelMmap(Main)
    <2>1. /\ pc'[Main] = "post" /\ res'[Main] = 1 /\ call' = call /\ c.op = "mmap"
          /\ UNCHANGED <<client, last>> /\ KernelMaps(c.len, 0)
      BY <1>2, <1>r DEF KernelMmap
    <2>2. BytesToAdd(Main)' = c.len /\ BytesToSub(Main)' = 0
      BY <1>n, <2>1 DEF BytesToAdd, BytesToSub, Ours, Described, last
    <2>3. PICK n \in Nat : n = c.len
      BY <1>t
    <2>4. ToCharge(n, 0)' /\ UNCHANGED <<brk, heapPeak>>
      BY <1>m, <1>n, <1>t, <2>1, <2>3 DEF Described
    <2> QED BY <1>q, <2>1, <2>2, <2>3, <2>4
  <1>3. CASE KernelMunmap(Main)
    <2>1. /\ pc'[Main] = "post" /\ res'[Main] = 1 /\ call' = call /\ c.op = "munmap"
          /\ UNCHANGED <<client, last>> /\ KernelMaps(0, c.len)
      BY <1>3, <1>r DEF KernelMunmap
    <2>2. BytesToAdd(Main)' = 0 /\ BytesToSub(Main)' = c.len
      BY <1>n, <2>1 DEF BytesToAdd, BytesToSub, Ours, Described, last
    <2>3. PICK n \in Nat : n = c.len
      BY <1>t
    <2>4. KernelMaps(0, n) /\ 0 + n = n + 0 /\ g_alloc_bytes + 0 <= g_max_alloc_bytes
      BY <1>t, <2>1, <2>3
    <2>5. ToCharge(0, n)' /\ UNCHANGED <<brk, heapPeak>>
      BY <1>m, <2>1, <2>4
    <2> QED BY <1>q, <2>1, <2>2, <2>3, <2>5
  <1>4. CASE KernelMremap(Main)
    <2>1. /\ pc'[Main] = "post" /\ res'[Main] = 1 /\ call' = call /\ c.op = "mremap"
          /\ UNCHANGED <<client, last>> /\ KernelMaps(c.len, c.old)
      BY <1>4, <1>r DEF KernelMremap
    <2>2. /\ BytesToAdd(Main)' = IF c.len > c.old THEN c.len - c.old ELSE 0
          /\ BytesToSub(Main)' = IF c.len <= c.old THEN c.old - c.len ELSE 0
      BY <1>n, <2>1 DEF BytesToAdd, BytesToSub, Ours, Described, last
    <2>3. PICK n \in Nat, m \in Nat : n = c.len /\ m = c.old
      BY <1>t
    <2>4. CASE n > m
      <3>1. PICK add \in Nat : add = n - m
        BY <2>4
      <3>2. g_alloc_bytes + add <= g_max_alloc_bytes
        BY <1>n, <2>1, <2>3, <2>4, <3>1 DEF Described
      <3>3. ToCharge(add, 0)' /\ UNCHANGED <<brk, heapPeak>>
        BY <1>m, <2>1, <2>3, <3>1, <3>2
      <3>4. BytesToAdd(Main)' = add /\ BytesToSub(Main)' = 0
        BY <2>2, <2>3, <2>4, <3>1
      <3> QED BY <1>q, <2>1, <3>3, <3>4
    <2>5. CASE n <= m
      <3>1. PICK sub \in Nat : sub = m - n
        BY <2>5
      <3>2. ToCharge(0, sub)' /\ UNCHANGED <<brk, heapPeak>>
        BY <1>m, <1>t, <2>1, <2>3, <3>1
      <3>3. BytesToAdd(Main)' = 0 /\ BytesToSub(Main)' = sub
        BY <2>2, <2>3, <2>5, <3>1
      <3> QED BY <1>q, <2>1, <3>2, <3>3
    <2> QED BY <2>4, <2>5
  <1>7. CASE KernelMunmapForeign(Main)
    <2>1. /\ pc'[Main] = "post" /\ res'[Main] = 1 /\ call' = call /\ c.op = "munmap"
          /\ UNCHANGED <<client, last, kernel, heapPeak, overcharged>>
          /\ undercharged' = undercharged + c.len
      BY <1>7, <1>r DEF KernelMunmapForeign
    <2>2. BytesToAdd(Main)' = 0 /\ BytesToSub(Main)' = c.len
      BY <1>n, <2>1 DEF BytesToAdd, BytesToSub, Ours, Described, last
    <2>3. PICK n \in Nat : n = c.len
      BY <1>t
    <2>4. /\ mapped + n <= g_alloc_bytes + 0 + (undercharged + n)
          /\ g_alloc_bytes + 0 <= mapped + n + heapPeak + overcharged
      BY <1>n, <1>t DEF Near
    <2>5. ToCharge(0, n)'
      BY <1>t, <2>1, <2>3, <2>4 DEF ToCharge, client, kernel
    <2> QED BY <1>q, <2>1, <2>2, <2>3, <2>5 DEF kernel
  <1>b. ASSUME c.op = "brk", call' = call, UNCHANGED <<g_alloc_bytes, last, mapped>>,
               UNCHANGED <<undercharged, overcharged>>, heapPeak' \in Nat, heapPeak <= heapPeak'
        PROVE  ToCharge(BytesToAdd(Main), BytesToSub(Main))'
    <2>1. BytesToAdd(Main)' = 0 /\ BytesToSub(Main)' = 0
      BY <1>b DEF BytesToAdd, BytesToSub, Ours
    <2>2. PICK h \in Nat : h = heapPeak'
      BY <1>b
    <2>3. /\ mapped <= g_alloc_bytes + undercharged
          /\ g_alloc_bytes <= mapped + heapPeak + overcharged
      BY <1>n DEF Near
    <2>4. g_alloc_bytes <= mapped + h + overcharged
      <3>1. PICK p \in Nat, g \in Nat, m \in Nat, o \in Nat :
                p = heapPeak /\ g = g_alloc_bytes /\ m = mapped /\ o = overcharged
        BY <1>t
      <3>2. p <= h
        BY <1>b, <2>2, <3>1
      <3>3. g <= m + p + o
        BY <2>3, <3>1
      <3>4. g <= m + h + o
        BY <3>2, <3>3
      <3> QED BY <3>1, <3>4
    <2>5. /\ mapped + 0 <= g_alloc_bytes + 0 + undercharged
          /\ g_alloc_bytes + 0 <= mapped + 0 + h + overcharged
          /\ g_alloc_bytes + 0 <= g_max_alloc_bytes
      <3>1. PICK g \in Nat, m \in Nat, o \in Nat, u \in Nat, x \in Nat :
                /\ g = g_alloc_bytes /\ m = mapped /\ o = overcharged /\ u = undercharged
                /\ x = g_max_alloc_bytes
        BY <1>t
      <3>2. g <= x /\ m <= g + u /\ g <= m + h + o
        BY <1>t, <2>3, <2>4, <3>1
      <3>3. m + 0 <= g + 0 + u /\ g + 0 <= m + 0 + h + o /\ g + 0 <= x
        BY <3>2
      <3> QED BY <3>1, <3>3
    <2>6. ToCharge(0, 0)'
      BY <1>b, <2>2, <2>5 DEF ToCharge
    <2> QED BY <2>1, <2>6
  <1>5. CASE KernelBrkMoves(Main)
    <2>1. /\ pc'[Main] = "post" /\ res'[Main] = c.len /\ call' = call /\ c.op = "brk"
          /\ UNCHANGED <<client, last, mapped, undercharged, overcharged>> /\ brk' = c.len
          /\ heapPeak' = IF g_initial_brk # 0 /\ brk' > g_initial_brk
                          THEN Max(heapPeak, brk' - g_initial_brk) ELSE heapPeak
      <3>1. PICK r \in Nat : r = c.len
        BY <1>t
      <3> QED BY <1>5, <1>r, <3>1 DEF KernelBrkMoves
    <2>2. heapPeak' \in Nat /\ heapPeak <= heapPeak'
          /\ (g_initial_brk # 0 /\ brk' > g_initial_brk => brk' - g_initial_brk <= heapPeak')
      BY <1>t, <2>1 DEF Max
    <2>3. ToCharge(BytesToAdd(Main), BytesToSub(Main))'
      BY <1>b, <2>1, <2>2 DEF client
    <2> QED BY <2>1, <2>2, <2>3 DEF MatchInv, client, alloc_budget_enabled
  <1>6. CASE KernelBrkStays(Main)
    <2>1. /\ pc'[Main] = "post" /\ res'[Main] = brk /\ call' = call /\ c.op = "brk"
          /\ UNCHANGED <<client, last, kernel, history>>
      <3>1. PICK r \in Nat : r = brk
        BY <1>t
      <3> QED BY <1>6, <1>r, <3>1 DEF KernelBrkStays
    <2>2. ToCharge(BytesToAdd(Main), BytesToSub(Main))'
      BY <1>b, <1>t, <2>1 DEF client, kernel, history
    <2> QED BY <1>q, <2>1, <2>2 DEF kernel, history
  <1> QED BY <1>1, <1>2, <1>3, <1>4, <1>5, <1>6, <1>7 DEF Kernel

(* The post event: the charge follows the memory.                           *)
LEMMA MatchPost ==
    ASSUME Solo, TypeInv, ChargeInv, MatchInv, alloc_budget_enabled, Post(Main)
    PROVE  MatchInv'
  <1> USE SizeAssumption, ThreadAssumption
  <1> DEFINE c == call[Main]
             add == BytesToAdd(Main)
             sub == BytesToSub(Main)
  <1>t. /\ g_alloc_bytes \in Nat /\ g_max_alloc_bytes \in Nat /\ mapped \in Nat /\ heapPeak \in Nat
        /\ undercharged \in Nat /\ overcharged \in Nat
        /\ pc \in [Threads -> Phases] /\ c.len \in Nat /\ c.old \in Nat /\ res[Main] \in Nat
        /\ call \in [Threads -> CallRec] /\ brk \in Nat /\ g_initial_brk \in Nat /\ SizeMod \in Nat
        /\ g_max_alloc_bytes < SizeMod /\ g_alloc_bytes <= g_max_alloc_bytes
    BY DEF TypeInv, TypeOK, CallRec, ChargeInv
  <1>b. add \in Nat /\ sub \in Nat
    BY DEF BytesToAdd, BytesToSub, TypeInv, TypeOK
  <1>h. g_initial_brk # 0 /\ brk > g_initial_brk => brk - g_initial_brk <= heapPeak
    BY DEF MatchInv
  <1>d. ASSUME NEW ph \in Phases, NEW b \in Nat, Decide(Main, ph, b)
        PROVE  /\ pc'[Main] = ph /\ call'[Main].old = b
               /\ UNCHANGED <<g_alloc_bytes, mapped, brk, history>>
    BY <1>d, <1>t DEF Decide, kernel, history, CallRec
  <1>f. ASSUME Finish(Main)
        PROVE  pc'[Main] = "app" /\ UNCHANGED <<mapped, brk, history>>
    BY <1>f, <1>t DEF Finish, kernel, history
  <1>1. CASE alloc_budget_add(Main)
    <2>1. ToCharge(add, sub) /\ add > 0
      BY <1>1 DEF alloc_budget_add, MatchInv
    <2>2. ~(add > WrapSub(g_max_alloc_bytes, g_alloc_bytes)) /\ sub = 0
      BY <1>b, <1>t, <2>1 DEF WrapSub, ToCharge
    <2>3. PICK b \in Nat : b = add
      BY <1>b
    <2>4. Decide(Main, "store_add", b) /\ UNCHANGED g_initial_brk
      BY <1>1, <2>2, <2>3 DEF alloc_budget_add
    <2>5. /\ pc'[Main] = "store_add" /\ call'[Main].old = b
          /\ UNCHANGED <<g_alloc_bytes, mapped, brk, history>>
      BY <1>d, <2>4 DEF Phases, LockedStores
    <2> QED BY <1>h, <2>1, <2>2, <2>3, <2>4, <2>5 DEF MatchInv, ToCharge, Near, alloc_budget_enabled, history
  <1>2. CASE alloc_budget_sub(Main)
    <2>1. ToCharge(add, sub) /\ sub > 0
      BY <1>2 DEF alloc_budget_sub, MatchInv
    <2>2. add = 0
      BY <1>b, <2>1 DEF ToCharge
    <2>3. PICK b \in Nat : b = sub
      BY <1>b
    <2>4. CASE b <= g_alloc_bytes
      <3>1. Decide(Main, "store_sub", b) /\ UNCHANGED g_initial_brk
        BY <1>2, <1>t, <2>3, <2>4 DEF alloc_budget_sub
      <3>2. /\ pc'[Main] = "store_sub" /\ call'[Main].old = b
            /\ UNCHANGED <<g_alloc_bytes, mapped, brk, history>>
        BY <1>d, <3>1 DEF Phases, LockedStores
      <3> QED BY <1>h, <2>1, <2>2, <2>3, <3>1, <3>2 DEF MatchInv, ToCharge, alloc_budget_enabled, history
    <2>5. CASE g_alloc_bytes < b
      <3>1. Decide(Main, "store_zero", b) /\ UNCHANGED g_initial_brk
        BY <1>2, <1>t, <2>3, <2>5 DEF alloc_budget_sub
      <3>2. /\ pc'[Main] = "store_zero" /\ call'[Main].old = b
            /\ UNCHANGED <<g_alloc_bytes, mapped, brk, history>>
        BY <1>d, <3>1 DEF Phases, LockedStores
      <3> QED BY <1>h, <2>1, <2>2, <2>3, <2>5, <3>1, <3>2
              DEF MatchInv, ToCharge, alloc_budget_enabled, history
    <2> QED BY <1>t, <2>4, <2>5
  <1>3. CASE StoreLocked(Main)
    <2>1. pc'[Main] = "app" /\ UNCHANGED <<mapped, brk, history, g_initial_brk>>
      BY <1>3, <1>f DEF StoreLocked
    <2>2. pc[Main] \in {"store_add", "store_sub", "store_zero"}
      BY <1>3 DEF StoreLocked, LockedStores, MatchInv
    <2>3. CASE pc[Main] = "store_add"
      <3>1. ToCharge(c.old, 0)
        BY <2>3 DEF MatchInv
      <3>2. g_alloc_bytes' = WrapAdd(g_alloc_bytes, c.old)
        BY <1>3, <2>3 DEF StoreLocked
      <3>3. g_alloc_bytes' = g_alloc_bytes + c.old
        BY <1>t, <3>1, <3>2 DEF WrapAdd, ToCharge
      <3> QED BY <1>h, <1>t, <2>1, <3>1, <3>3 DEF MatchInv, ToCharge, Near, alloc_budget_enabled, history
    <2>4. CASE pc[Main] = "store_sub"
      <3>1. ToCharge(0, c.old)
        BY <2>4 DEF MatchInv
      <3>2. g_alloc_bytes' = WrapSub(g_alloc_bytes, c.old)
        BY <1>3, <2>4 DEF StoreLocked
      <3>3. g_alloc_bytes' = g_alloc_bytes - c.old
        <4>1. c.old <= g_alloc_bytes
          BY <2>4 DEF ChargeInv
        <4> QED BY <1>t, <3>2, <4>1 DEF WrapSub
      <3> QED BY <1>h, <1>t, <2>1, <3>1, <3>3 DEF MatchInv, ToCharge, Near, alloc_budget_enabled, history
    <2>5. CASE pc[Main] = "store_zero"
      <3>1. ToCharge(0, c.old) /\ g_alloc_bytes < c.old
        BY <2>5 DEF MatchInv
      <3>2. g_alloc_bytes' = 0
        BY <1>3, <2>5 DEF StoreLocked
      <3> QED BY <1>h, <1>t, <2>1, <3>1, <3>2 DEF MatchInv, ToCharge, Near, alloc_budget_enabled, history
    <2> QED BY <2>2, <2>3, <2>4, <2>5
  <1>4. CASE PostNothing(Main)
    <2>1. pc'[Main] = "app" /\ UNCHANGED <<mapped, brk, history, g_alloc_bytes, g_initial_brk>>
      BY <1>4, <1>f DEF PostNothing, client
    <2>2. ToCharge(add, sub) /\ add = 0 /\ sub = 0
      BY <1>4 DEF PostNothing, MatchInv
    <2>3. Near
      BY <1>t, <2>2 DEF ToCharge, Near
    <2> QED BY <1>h, <2>1, <2>3 DEF MatchInv, Near, alloc_budget_enabled, history
  <1>o. ASSUME pc[Main] = "post", c.op = "brk", LearnBrk(Main)
        PROVE  /\ Near /\ res[Main] = brk /\ g_initial_brk' \in Nat
               /\ brk > g_initial_brk' => brk - g_initial_brk' <= heapPeak
    <2>1. ToCharge(add, sub) /\ add = 0 /\ sub = 0 /\ res[Main] = brk
      BY <1>o DEF MatchInv, BytesToAdd, BytesToSub, Ours
    <2> QED BY <1>h, <1>o, <1>t, <2>1 DEF ToCharge, Near, LearnBrk
  <1>5. CASE PostBrk(Main)
    <2>1. pc'[Main] = "app" /\ UNCHANGED <<mapped, brk, history, g_alloc_bytes>>
      BY <1>5, <1>f DEF PostBrk
    <2> QED BY <1>5, <1>o, <2>1 DEF PostBrk, MatchInv, Near, alloc_budget_enabled, history
  <1>6. CASE PostBrkRaises(Main)
    <2>1. /\ Near /\ res[Main] = brk /\ g_initial_brk' \in Nat
          /\ brk > g_initial_brk' => brk - g_initial_brk' <= heapPeak
          /\ BrkRaises(Main)
      BY <1>6, <1>o DEF PostBrkRaises
    <2>2. PICK b \in Nat : b = res[Main] - g_initial_brk'
      BY <1>t, <2>1 DEF BrkRaises
    <2>3. Decide(Main, "store_heap", b) /\ g_alloc_bytes < b /\ b <= heapPeak
      BY <1>6, <1>t, <2>1, <2>2 DEF PostBrkRaises, BrkRaises
    <2>4. /\ pc'[Main] = "store_heap" /\ call'[Main].old = b
          /\ UNCHANGED <<g_alloc_bytes, mapped, brk, history>>
      BY <1>d, <2>3 DEF Phases
    <2> QED BY <2>1, <2>3, <2>4 DEF MatchInv, Near, alloc_budget_enabled, history
  <1>7. CASE StoreHeap(Main)
    <2>1. /\ pc'[Main] = "app" /\ UNCHANGED <<mapped, brk, history, g_initial_brk>>
          /\ g_alloc_bytes' = c.old
      BY <1>7, <1>f DEF StoreHeap
    <2>2. Near /\ g_alloc_bytes < c.old /\ c.old <= heapPeak
      BY <1>7 DEF StoreHeap, MatchInv
    <2> QED BY <1>h, <1>t, <2>1, <2>2 DEF MatchInv, Near, alloc_budget_enabled, history
  <1> QED BY <1>1, <1>2, <1>3, <1>4, <1>5, <1>6, <1>7 DEF Post

(* The invariant that relates the charge to the memory holds throughout.    *)
LEMMA MatchHolds ==
    ASSUME Solo PROVE Spec => [](TypeInv /\ ChargeInv /\ MatchInv)
  <1>0. Disciplined
    BY DEF Solo, Disciplined
  <1>1. Init => TypeInv /\ HeapInv /\ ChargeInv /\ MatchInv
    BY TypeInit, ThreadAssumption, SizeAssumption
    DEF Init, HeapInv, ChargeInv, LockedStores, NoCall, MatchInv, Near
  <1>2. TypeInv /\ ChargeInv /\ MatchInv /\ [Next]_vars => MatchInv'
    <2> SUFFICES ASSUME TypeInv, ChargeInv, MatchInv, [Next]_vars PROVE MatchInv'
      OBVIOUS
    <2>1. CASE ~alloc_budget_enabled
      BY <2>1 DEF MatchInv, alloc_budget_enabled
    <2>2. CASE alloc_budget_enabled /\ Next
      <3>1. Pre(Main) \/ Kernel(Main) \/ Post(Main)
        BY <2>2 DEF Next, Solo
      <3> QED BY <2>2, <3>1, MatchPre, MatchKernel, MatchPost
    <2>3. CASE UNCHANGED vars
      BY <2>3 DEF vars, client, last, kernel, history, MatchInv, Near, Described, ToCharge, BytesToAdd,
         BytesToSub, Ours, alloc_budget_enabled
    <2> QED BY <2>1, <2>2, <2>3
  <1>3. TypeInv /\ HeapInv /\ ChargeInv /\ MatchInv /\ [Next]_vars
            => (TypeInv /\ HeapInv /\ ChargeInv /\ MatchInv)'
    BY <1>0, <1>2, TypeStep, HeapStep, ChargeStep
  <1> QED BY <1>1, <1>3, PTL DEF Spec

(* For one thread, whatever lengths it passes and whatever it unmaps:       *)
(* between calls g_alloc_bytes differs from what is mapped only by the      *)
(* largest heap, the page tails of the calls so far and the lengths of the  *)
(* munmap calls that released nothing of the application's.                 *)
THEOREM ChargeFollowsMemory == ASSUME Solo PROVE Spec => []ChargeMatchesMemory
  <1>1. MatchInv => ChargeMatchesMemory
    BY ThreadAssumption DEF MatchInv, ChargeMatchesMemory, Quiescent, Near
  <1> QED BY <1>1, MatchHolds, PTL

(* Under the same condition mmap and mremap hold more than                  *)
(* DR_MAX_ALLOC_BYTES at most by what their lengths were rounded up by and  *)
(* by what such munmap calls took off, in the middle of a call either.      *)
THEOREM MapsAreLimited == ASSUME Solo PROVE Spec => []MapsWithinBudget
  <1>1. TypeInv /\ ChargeInv /\ MatchInv => MapsWithinBudget
    <2> SUFFICES ASSUME TypeInv, ChargeInv, MatchInv, alloc_budget_enabled
                 PROVE  mapped <= g_max_alloc_bytes + undercharged
      BY DEF MapsWithinBudget
    <2>1. /\ g_alloc_bytes \in Nat /\ g_max_alloc_bytes \in Nat /\ mapped \in Nat
          /\ undercharged \in Nat
          /\ pc[Main] \in Phases /\ call[Main].old \in Nat /\ g_alloc_bytes <= g_max_alloc_bytes
      BY SizeAssumption, ThreadAssumption DEF TypeInv, TypeOK, ChargeInv
    <2>2. BytesToAdd(Main) \in Nat /\ BytesToSub(Main) \in Nat
      BY DEF BytesToAdd, BytesToSub, TypeInv, TypeOK
    <2>3. \A add, sub \in Nat : ToCharge(add, sub) => mapped <= g_max_alloc_bytes + undercharged
      BY <2>1 DEF ToCharge
    <2>4. Near => mapped <= g_max_alloc_bytes + undercharged
      BY <2>1 DEF Near
    <2> QED BY <2>1, <2>2, <2>3, <2>4 DEF MatchInv, Phases, LockedStores
  <1> QED BY <1>1, MatchHolds, PTL
=============================================================================
