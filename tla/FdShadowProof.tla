--------------------------- MODULE FdShadowProof ---------------------------
(***************************************************************************)
(* Proofs about FdShadow: typing for every instance, and exactness of the  *)
(* table for a program whose calls do not overlap.                         *)
(***************************************************************************)
EXTENDS FdShadow, TLAPS

-----------------------------------------------------------------------------
(* What the operations of the table do, entry by entry.                     *)

(* memset of one slot: that descriptor becomes untracked, no other changes. *)
LEMMA ClearLemma ==
    ASSUME NEW s \in [Slots -> Entry], NEW fd \in Int
    PROVE  /\ fd_shadow_clear(s, fd) \in [Slots -> Entry]
           /\ fd_shadow_get(fd_shadow_clear(s, fd), fd) = NoEntry
           /\ \A g \in Int : g # fd =>
                 fd_shadow_get(fd_shadow_clear(s, fd), g) = fd_shadow_get(s, g)
  BY FdAssumption DEF fd_shadow_clear, fd_shadow_get, NoEntry, Entry, Slots

(* A store changes the entry of its own descriptor only, and only if the    *)
(* table has a slot for it.                                                 *)
LEMMA SetLemma ==
    ASSUME NEW s \in [Slots -> Entry], NEW fd \in Int, NEW b \in BOOLEAN,
           NEW p \in Paths \cup {ProcPath, NoPath}
    PROVE  /\ fd_shadow_set(s, fd, p, b) \in [Slots -> Entry]
           /\ fd \in Slots => fd_shadow_get(fd_shadow_set(s, fd, p, b), fd) = TrackedEntry(p, b)
           /\ \A g \in Int : g # fd =>
                 fd_shadow_get(fd_shadow_set(s, fd, p, b), g) = fd_shadow_get(s, g)
  BY FdAssumption DEF fd_shadow_set, fd_shadow_get, TrackedEntry, NoEntry, Entry, Slots

(* What fd_shadow_get returns is an entry, and an unused one is NoEntry.    *)
LEMMA GetLemma ==
    ASSUME NEW s \in [Slots -> Entry], NEW fd \in Int
    PROVE  /\ fd_shadow_get(s, fd) \in Entry
           /\ ~fd_shadow_get(s, fd).in_use => fd_shadow_get(s, fd) = NoEntry
           /\ fd_shadow_get(s, fd).in_use =>
                fd_shadow_get(s, fd) = TrackedEntry(fd_shadow_get(s, fd).path,
                                                    fd_shadow_get(s, fd).block_write)
  <1>1. NoEntry \in Entry /\ ~NoEntry.in_use
    BY DEF NoEntry, Entry
  <1>2. CASE fd >= 0 /\ fd < ShadowSize /\ s[fd].in_use
    <2>1. fd \in Slots
      BY <1>2, FdAssumption DEF Slots
    <2>2. s[fd] \in Entry /\ s[fd].in_use
      BY <1>2, <2>1
    <2>3. \A e \in Entry : e.in_use => e = TrackedEntry(e.path, e.block_write)
      BY DEF Entry, TrackedEntry
    <2>4. fd_shadow_get(s, fd) = s[fd]
      BY <1>2 DEF fd_shadow_get
    <2> QED BY <2>2, <2>3, <2>4
  <1>3. CASE ~(fd >= 0 /\ fd < ShadowSize /\ s[fd].in_use)
    BY <1>1, <1>3 DEF fd_shadow_get
  <1> QED BY <1>2, <1>3

(* After a copy the target's entry is the source's, used or not.            *)
LEMMA CopyLemma ==
    ASSUME NEW s \in [Slots -> Entry], NEW dst \in Int, NEW src \in Int
    PROVE  /\ fd_shadow_copy(s, dst, src) \in [Slots -> Entry]
           /\ dst \in Slots => fd_shadow_get(fd_shadow_copy(s, dst, src), dst) = fd_shadow_get(s, src)
           /\ \A g \in Int : g # dst =>
                 fd_shadow_get(fd_shadow_copy(s, dst, src), g) = fd_shadow_get(s, g)
  <1> DEFINE e == fd_shadow_get(s, src)
  <1>1. e \in Entry
    BY GetLemma
  <1>2. CASE e.in_use
    <2>1. e.path \in Paths \cup {ProcPath, NoPath} /\ e.block_write \in BOOLEAN
      BY <1>1 DEF Entry
    <2>2. fd_shadow_copy(s, dst, src) = fd_shadow_set(s, dst, e.path, e.block_write)
      BY <1>2 DEF fd_shadow_copy
    <2>3. e = TrackedEntry(e.path, e.block_write)
      BY <1>2, GetLemma
    <2> QED BY <2>1, <2>2, <2>3, SetLemma
  <1>3. CASE ~e.in_use
    <2>1. fd_shadow_copy(s, dst, src) = fd_shadow_clear(s, dst)
      BY <1>3 DEF fd_shadow_copy
    <2>2. e = NoEntry
      BY <1>3, GetLemma
    <2> QED BY <2>1, <2>2, ClearLemma
  <1> QED BY <1>2, <1>3

-----------------------------------------------------------------------------
(* Typing.                                                                  *)

(* Initially everything has its type.                                       *)
LEMMA TypeInit == Init => TypeOK
  <1> SUFFICES ASSUME Init PROVE TypeOK
    OBVIOUS
  <1>1. -1 \in FdArgs /\ 0 \in FdArgs /\ Inherited \subseteq Fds
    BY FdAssumption DEF FdArgs, Fds
  <1>2. NoEntry \in Entry
    BY DEF NoEntry, Entry
  <1>3. NoCall \in Call
    BY <1>1 DEF NoCall, MkCall, Call, Ops, Opens
  <1> QED BY <1>1, <1>2, <1>3 DEF Init, TypeOK, NoWrite, Write

(* Entering or refusing a call keeps the types of what it assigns.          *)
LEMMA TypePre ==
    ASSUME TypeOK, NEW t \in Threads, Pre(t)
    PROVE  TypeOK'
  <1> USE DEF TypeOK
  <1>0. /\ Fds \subseteq FdArgs /\ FdArgs \subseteq Int /\ -1 \in FdArgs /\ 0 \in FdArgs
        /\ NoWrite \in [fate : {"none", "passed", "refused"}, on : Paths \cup {Anon, Closed},
                         seen : BOOLEAN]
    BY FdAssumption DEF FdArgs, Fds, NoWrite, Write
  <1>c. ASSUME NEW op \in Ops, NEW p \in Paths \cup {ProcPath, NoPath},
               NEW src \in FdArgs, NEW dst \in FdArgs, op \in Opens => p # NoPath
        PROVE  MkCall(op, p, src, dst) \in Call
    <2>1. /\ MkCall(op, p, src, dst) \in
                 [op : Ops, path : Paths \cup {ProcPath, NoPath}, src : FdArgs, dst : FdArgs]
          /\ MkCall(op, p, src, dst).op = op /\ MkCall(op, p, src, dst).path = p
      BY DEF MkCall
    <2> QED BY <1>c, <2>1 DEF Call
  <1>f. ASSUME NEW fd \in FdArgs PROVE FileOf(fd) \in Paths \cup {Anon, Closed}
    BY DEF FileOf
  <1>1. CASE PreRefused(t)
    BY <1>0, <1>1 DEF PreRefused, Refuse, ForgetOpen, ForgetDup
  <1>2. ASSUME NEW path \in Paths, PreOpen(t, path) PROVE TypeOK'
    <2>1. MkCall("open", path, -1, -1) \in Call
      BY <1>0, <1>c, PathsAssumption DEF Ops, Opens
    <2>2. fd_write_policy_blocks(path) \in BOOLEAN
      BY DEF fd_write_policy_blocks
    <2> QED BY <1>0, <1>2, <2>1, <2>2 DEF PreOpen, Allow, RememberOpen, ForgetDup
  <1>3. ASSUME NEW path \in Paths, PreOpenRemapFails(t, path) PROVE TypeOK'
    <2>1. fd_write_policy_blocks(path) \in BOOLEAN
      BY DEF fd_write_policy_blocks
    <2> QED BY <1>0, <1>3, <2>1 DEF PreOpenRemapFails, Refuse, RememberOpen, ForgetDup
  <1>4. ASSUME NEW src \in Fds, PreOpenProc(t, src) PROVE TypeOK'
    <2> DEFINE e == fd_shadow_get(shadow, src)
    <2>1. e \in Entry
      BY <1>0, GetLemma
    <2>2. MkCall("open", ProcPath, src, -1) \in Call
      BY <1>0, <1>c DEF Ops, Opens, ProcPath, NoPath
    <2>3. (IF e.in_use THEN e.path ELSE ProcPath) \in Paths \cup {ProcPath, NoPath}
      BY <2>1 DEF Entry
    <2>4. (IF e.in_use THEN e.block_write ELSE fd_write_policy_blocks(ProcPath)) \in BOOLEAN
      <3>1. e.block_write \in BOOLEAN /\ fd_write_policy_blocks(ProcPath) \in BOOLEAN
        BY <2>1 DEF Entry, fd_write_policy_blocks
      <3>2. CASE e.in_use
        BY <3>1, <3>2
      <3>3. CASE ~e.in_use
        BY <3>1, <3>3
      <3> QED BY <3>2, <3>3
    <2> QED BY <1>0, <1>4, <2>2, <2>3, <2>4 DEF PreOpenProc, Allow, RememberOpen, ForgetDup
  <1>5. ASSUME NEW src \in FdArgs, NEW min \in Fds, PreDup(t, src, min) PROVE TypeOK'
    <2>1. MkCall("dup", NoPath, src, min) \in Call
      BY <1>0, <1>c, PathsAssumption DEF Ops, Opens
    <2> QED BY <1>0, <1>5, <2>1 DEF PreDup, Allow, RememberDup, ForgetOpen
  <1>6. ASSUME NEW op \in {"dup2", "dup3"}, NEW src \in FdArgs, NEW dst \in FdArgs,
               PreDupOnto(t, op, src, dst)
        PROVE  TypeOK'
    <2>1. MkCall(op, NoPath, src, dst) \in Call
      BY <1>0, <1>c, PathsAssumption DEF Ops, Opens
    <2>2. fd_shadow_clear(shadow, dst) \in [Slots -> Entry]
      BY <1>0, ClearLemma
    <2> QED BY <1>0, <1>6, <2>1, <2>2 DEF PreDupOnto, Allow, RememberDup, ForgetOpen
  <1>7. ASSUME NEW fd \in FdArgs, PreClose(t, fd) PROVE TypeOK'
    <2>1. MkCall("close", NoPath, fd, -1) \in Call
      BY <1>0, <1>c, PathsAssumption DEF Ops, Opens
    <2>2. fd_shadow_clear(shadow, fd) \in [Slots -> Entry]
      BY <1>0, ClearLemma
    <2> QED BY <1>0, <1>7, <2>1, <2>2 DEF PreClose, Allow, ForgetDup, ForgetOpen
  <1>8. ASSUME NEW fd \in FdArgs, PreWriteBlocked(t, fd) PROVE TypeOK'
    BY <1>0, <1>8, <1>f DEF PreWriteBlocked, Refuse, ForgetDup, ForgetOpen, Write
  <1>9. ASSUME NEW fd \in FdArgs, PreWriteNotStdio(t, fd) PROVE TypeOK'
    BY <1>0, <1>9 DEF PreWriteNotStdio, Refuse, ForgetDup, ForgetOpen
  <1>10. ASSUME NEW fd \in FdArgs, PreWrite(t, fd) PROVE TypeOK'
    <2>1. MkCall("write", NoPath, fd, -1) \in Call
      BY <1>0, <1>c, PathsAssumption DEF Ops, Opens
    <2> QED BY <1>0, <1>10, <2>1 DEF PreWrite, Allow, ForgetDup, ForgetOpen
  <1>11. ASSUME NEW op \in {"create", "close_range", "other"}, PreUntracked(t, op)
         PROVE  TypeOK'
    <2>1. MkCall(op, NoPath, -1, -1) \in Call
      BY <1>0, <1>c, PathsAssumption DEF Ops, Opens
    <2> QED BY <1>0, <1>11, <2>1 DEF PreUntracked, Allow, ForgetDup, ForgetOpen
  <1>12. ASSUME NEW path \in Paths \cup {ProcPath}, NEW src \in FdArgs,
                PreOpenOtherName(t, path, src)
         PROVE  TypeOK'
    <2>1. path # NoPath
      BY PathsAssumption DEF ProcPath, NoPath
    <2>2. MkCall("open_other", path, src, -1) \in Call
      BY <1>0, <1>c, <2>1 DEF Ops, Opens
    <2>3. fd_write_policy_blocks(ProcPath) \in BOOLEAN
      BY DEF fd_write_policy_blocks
    <2> QED BY <1>0, <1>12, <2>2, <2>3 DEF PreOpenOtherName, Allow, RememberOpen, ForgetDup
  <1>13. ASSUME NEW path \in Paths, PreOpenat2(t, path) PROVE TypeOK'
    <2>1. MkCall("openat2", path, -1, -1) \in Call
      BY <1>0, <1>c, PathsAssumption DEF Ops, Opens
    <2> QED BY <1>0, <1>13, <2>1 DEF PreOpenat2, Allow, ForgetDup, ForgetOpen
  <1> QED
    BY <1>0, <1>1, <1>2, <1>3, <1>4, <1>5, <1>6, <1>7, <1>8, <1>9, <1>10, <1>11, <1>12, <1>13
    DEF Pre

(* The kernel's steps keep the types.                                       *)
LEMMA TypeKernel ==
    ASSUME TypeOK, NEW t \in Threads, Kernel(t)
    PROVE  TypeOK'
  <1> USE DEF TypeOK
  <1>0. Fds \subseteq FdArgs /\ FdArgs \subseteq Int /\ -1 \in FdArgs /\ 0 \in FdArgs
    BY FdAssumption DEF FdArgs, Fds
  <1>f. ASSUME NEW fd PROVE FileOf(fd) \in Paths \cup {Anon, Closed}
    BY DEF FileOf
  <1>m. ASSUME NEW fd \in Fds, NEW b PROVE Mark(fd, b) \subseteq Fds
    BY DEF Mark
  <1>c. /\ call[t].src \in FdArgs /\ call[t].dst \in FdArgs
        /\ call[t].path \in Paths \cup {ProcPath, NoPath} /\ call[t].op \in Ops
        /\ call[t].op \in Opens => call[t].path # NoPath
    BY DEF Call
  <1>1. CASE KernelFails(t)
    BY <1>0, <1>1 DEF KernelFails, Return, pendingOpen, pendingDup
  <1>2. ASSUME NEW fd \in Fds, KernelOpen(t, fd) PROVE TypeOK'
    <2>1. OpenTarget(call[t]) \in Paths \cup {Anon, Closed}
      BY <1>2, <1>c, <1>f DEF KernelOpen, InKernel, OpenTarget
    <2> QED BY <1>0, <1>m, <1>2, <2>1 DEF KernelOpen, Return, pendingOpen, pendingDup
  <1>3. ASSUME NEW fd \in Fds, KernelCreate(t, fd) PROVE TypeOK'
    BY <1>0, <1>m, <1>3 DEF KernelCreate, Return, pendingOpen, pendingDup
  <1>4. ASSUME NEW fd \in Fds, KernelDup(t, fd) PROVE TypeOK'
    BY <1>0, <1>m, <1>4, <1>f DEF KernelDup, Return, pendingOpen, pendingDup
  <1>5. ASSUME NEW fd \in Fds, KernelCloseRange(t, fd) PROVE TypeOK'
    BY <1>0, <1>m, <1>5 DEF KernelCloseRange, Return, pendingOpen, pendingDup
  <1>6. ASSUME NEW fd \in Fds, KernelOther(t, fd) PROVE TypeOK'
    BY <1>0, <1>6 DEF KernelOther, Return, pendingOpen, pendingDup
  <1>7. CASE KernelDupOnto(t)
    <2>1. unseen' \subseteq Fds
      BY <1>7 DEF KernelDupOnto, DupOntoWorks, Mark
    <2> QED BY <1>0, <1>7, <1>f, <1>c, <2>1
            DEF KernelDupOnto, Return, DupOntoWorks, pendingOpen, pendingDup
  <1>8. CASE KernelClose(t)
    <2>1. unseen' \subseteq Fds
      BY <1>8 DEF KernelClose, Mark
    <2>2. /\ file' \in [Fds -> Paths \cup {Anon, Closed}] /\ UNCHANGED lastWrite
          /\ \E r \in {-1, 0} : Return(t, r)
      BY <1>8 DEF KernelClose
    <2> QED BY <1>0, <2>1, <2>2 DEF Return, pendingOpen, pendingDup
  <1>9. CASE KernelWrite(t)
    BY <1>0, <1>9, <1>f DEF KernelWrite, Return, Write, pendingOpen, pendingDup
  <1> QED
    BY <1>1, <1>2, <1>3, <1>4, <1>5, <1>6, <1>7, <1>8, <1>9 DEF Kernel

(* The post event only stores entries, in slots the table has.              *)
LEMMA TypePost ==
    ASSUME TypeOK, NEW t \in Threads, Post(t)
    PROVE  TypeOK'
  <1> USE DEF TypeOK
  <1>0. FdArgs \subseteq Int /\ -1 \in FdArgs /\ NoCall \in Call
    BY FdAssumption DEF FdArgs, NoCall, MkCall, Call, Ops, Opens
  <1>1. CASE PostOpen(t)
    <2>1. res[t] \in Int
      BY <1>0
    <2>2. shadow' \in [Slots -> Entry]
      BY <1>1, <2>1, SetLemma DEF PostOpen
    <2> QED BY <1>0, <1>1, <2>2 DEF PostOpen, Resume, pendingOpen, pendingDup
  <1>2. CASE PostDup(t)
    <2>1. shadow' \in [Slots -> Entry]
      BY <1>0, <1>2, CopyLemma DEF PostDup
    <2> QED BY <1>0, <1>2, <2>1 DEF PostDup, Resume, pendingOpen, pendingDup
  <1>3. CASE PostOther(t)
    BY <1>0, <1>3 DEF PostOther, Resume, pendingOpen, pendingDup
  <1> QED BY <1>1, <1>2, <1>3 DEF Post

(* Every reachable state of every instance, with any number of threads, has *)
(* its type: in particular no event ever stores outside g_fd_shadow.        *)
THEOREM TypeCorrect == Spec => []TypeOK
  <1>1. TypeOK /\ [Next]_vars => TypeOK'
    <2> SUFFICES ASSUME TypeOK, [Next]_vars PROVE TypeOK'
      OBVIOUS
    <2>1. CASE Next
      BY <2>1, TypePre, TypeKernel, TypePost DEF Next
    <2>2. CASE UNCHANGED vars
      BY <2>2 DEF vars, pendingOpen, pendingDup, TypeOK
    <2> QED BY <2>1, <2>2
  <1> QED BY <1>1, TypeInit, PTL DEF Spec

-----------------------------------------------------------------------------
(* Path and rule stay together, with any number of threads, any unusual     *)
(* call and descriptors beyond the table: every writer of an entry takes    *)
(* both from one place.                                                     *)

Consistent(s) == \A n \in Slots : s[n].block_write <=> s[n].path \in BlockedPaths

PendingConsistent == g_pending_open_block_write <=> g_pending_open_path \in BlockedPaths

(* What fd_shadow_get hands out of a consistent table is consistent.        *)
LEMMA GetConsistent ==
    ASSUME NEW s \in [Slots -> Entry], NEW fd \in Int, Consistent(s)
    PROVE  fd_shadow_get(s, fd).block_write <=> fd_shadow_get(s, fd).path \in BlockedPaths
  <1>1. CASE fd >= 0 /\ fd < ShadowSize /\ s[fd].in_use
    <2>1. fd \in Slots /\ fd_shadow_get(s, fd) = s[fd]
      BY <1>1, FdAssumption DEF Slots, fd_shadow_get
    <2> QED BY <2>1 DEF Consistent
  <1>2. CASE ~(fd >= 0 /\ fd < ShadowSize /\ s[fd].in_use)
    <2>1. fd_shadow_get(s, fd) = NoEntry
      BY <1>2 DEF fd_shadow_get
    <2> QED BY <2>1, PathsAssumption DEF NoEntry
  <1> QED BY <1>1, <1>2

(* The three operations that store keep a table consistent.                 *)
LEMMA SetConsistent ==
    ASSUME NEW s \in [Slots -> Entry], NEW fd \in Int, Consistent(s), NEW b \in BOOLEAN,
           NEW p \in Paths \cup {ProcPath, NoPath}, b <=> p \in BlockedPaths
    PROVE  Consistent(fd_shadow_set(s, fd, p, b))
  BY FdAssumption DEF Consistent, fd_shadow_set, TrackedEntry, Slots

(* fd_shadow_clear.                                                         *)
LEMMA ClearConsistent ==
    ASSUME NEW s \in [Slots -> Entry], NEW fd \in Int, Consistent(s)
    PROVE  Consistent(fd_shadow_clear(s, fd))
  BY FdAssumption, PathsAssumption DEF Consistent, fd_shadow_clear, NoEntry, Slots

(* fd_shadow_copy copies path and rule together.                            *)
LEMMA CopyConsistent ==
    ASSUME NEW s \in [Slots -> Entry], NEW dst \in Int, NEW src \in Int, Consistent(s)
    PROVE  Consistent(fd_shadow_copy(s, dst, src))
  <1> DEFINE e == fd_shadow_get(s, src)
  <1>1. e \in Entry /\ (e.block_write <=> e.path \in BlockedPaths)
    BY GetLemma, GetConsistent
  <1>2. CASE e.in_use
    <2>1. e.path \in Paths \cup {ProcPath, NoPath} /\ e.block_write \in BOOLEAN
      BY <1>1 DEF Entry
    <2>2. fd_shadow_copy(s, dst, src) = fd_shadow_set(s, dst, e.path, e.block_write)
      BY <1>2 DEF fd_shadow_copy
    <2> QED BY <1>1, <2>1, <2>2, SetConsistent
  <1>3. CASE ~e.in_use
    BY <1>3, ClearConsistent DEF fd_shadow_copy
  <1> QED BY <1>2, <1>3

(* The three events.                                                        *)
LEMMA ConsistentPre ==
    ASSUME TypeOK, Consistent(shadow), PendingConsistent, NEW t \in Threads, Pre(t)
    PROVE  Consistent(shadow)' /\ PendingConsistent'
  <1>0. FdArgs \subseteq Int /\ Fds \subseteq Int /\ shadow \in [Slots -> Entry]
    BY FdAssumption DEF FdArgs, Fds, TypeOK
  <1>f. ForgetOpen => PendingConsistent'
    BY PathsAssumption DEF ForgetOpen, PendingConsistent
  <1>u. UNCHANGED shadow => Consistent(shadow)'
    BY DEF Consistent
  <1>1. CASE PreRefused(t)
    BY <1>1, <1>f, <1>u DEF PreRefused
  <1>2. ASSUME NEW path \in Paths, PreOpen(t, path) \/ PreOpenRemapFails(t, path)
        PROVE  Consistent(shadow)' /\ PendingConsistent'
    BY <1>2, <1>u DEF PreOpen, PreOpenRemapFails, RememberOpen, PendingConsistent,
                      fd_write_policy_blocks
  <1>3. ASSUME NEW src \in Fds, PreOpenProc(t, src)
        PROVE  Consistent(shadow)' /\ PendingConsistent'
    <2> DEFINE e == fd_shadow_get(shadow, src)
    <2>1. e.block_write <=> e.path \in BlockedPaths
      BY <1>0, GetConsistent
    <2>2. UNCHANGED shadow
          /\ g_pending_open_path' = (IF e.in_use THEN e.path ELSE ProcPath)
          /\ g_pending_open_block_write' = (IF e.in_use THEN e.block_write
                                             ELSE ProcPath \in BlockedPaths)
      BY <1>3 DEF PreOpenProc, RememberOpen, fd_write_policy_blocks
    <2>3. PendingConsistent'
      <3>1. CASE e.in_use
        BY <2>1, <2>2, <3>1 DEF PendingConsistent
      <3>2. CASE ~e.in_use
        BY <2>2, <3>2 DEF PendingConsistent
      <3> QED BY <3>1, <3>2
    <2> QED BY <1>u, <2>2, <2>3
  <1>4. ASSUME NEW src \in FdArgs, NEW min \in Fds, PreDup(t, src, min)
        PROVE  Consistent(shadow)' /\ PendingConsistent'
    BY <1>4, <1>f, <1>u DEF PreDup
  <1>5. ASSUME NEW op \in {"dup2", "dup3"}, NEW src \in FdArgs, NEW dst \in FdArgs,
               PreDupOnto(t, op, src, dst)
        PROVE  Consistent(shadow)' /\ PendingConsistent'
    <2>1. Consistent(fd_shadow_clear(shadow, dst))
      BY <1>0, ClearConsistent
    <2>2. shadow' = fd_shadow_clear(shadow, dst) /\ ForgetOpen
      BY <1>5 DEF PreDupOnto
    <2> QED BY <1>f, <2>1, <2>2 DEF Consistent
  <1>6. ASSUME NEW fd \in FdArgs, PreClose(t, fd)
        PROVE  Consistent(shadow)' /\ PendingConsistent'
    <2>1. Consistent(fd_shadow_clear(shadow, fd))
      BY <1>0, ClearConsistent
    <2>2. shadow' = fd_shadow_clear(shadow, fd) /\ ForgetOpen
      BY <1>6 DEF PreClose
    <2> QED BY <1>f, <2>1, <2>2 DEF Consistent
  <1>7. ASSUME NEW fd \in FdArgs,
               PreWrite(t, fd) \/ PreWriteBlocked(t, fd) \/ PreWriteNotStdio(t, fd)
        PROVE  Consistent(shadow)' /\ PendingConsistent'
    BY <1>7, <1>f, <1>u DEF PreWrite, PreWriteBlocked, PreWriteNotStdio
  <1>8. ASSUME NEW op \in {"create", "close_range", "other"}, PreUntracked(t, op)
        PROVE  Consistent(shadow)' /\ PendingConsistent'
    BY <1>8, <1>f, <1>u DEF PreUntracked
  <1>9. ASSUME NEW path, NEW src, PreOpenOtherName(t, path, src)
        PROVE  Consistent(shadow)' /\ PendingConsistent'
    BY <1>9, <1>u DEF PreOpenOtherName, RememberOpen, PendingConsistent, fd_write_policy_blocks
  <1>10. ASSUME NEW path, PreOpenat2(t, path)
         PROVE  Consistent(shadow)' /\ PendingConsistent'
    BY <1>10, <1>f, <1>u DEF PreOpenat2
  <1> QED BY <1>1, <1>2, <1>3, <1>4, <1>5, <1>6, <1>7, <1>8, <1>9, <1>10 DEF Pre

(* The kernel leaves table and pending pair alone.                          *)
LEMMA ConsistentKernel ==
    ASSUME Consistent(shadow), PendingConsistent, NEW t \in Threads, Kernel(t)
    PROVE  Consistent(shadow)' /\ PendingConsistent'
  <1>1. UNCHANGED <<shadow, pendingOpen>>
    BY DEF Kernel, KernelFails, KernelOpen, KernelCreate, KernelDup, KernelCloseRange,
           KernelOther, KernelDupOnto, KernelClose, KernelWrite, Return
  <1> QED BY <1>1 DEF Consistent, PendingConsistent, pendingOpen

(* The post event stores the pending pair, or copies an entry.              *)
LEMMA ConsistentPost ==
    ASSUME TypeOK, Consistent(shadow), PendingConsistent, NEW t \in Threads, Post(t)
    PROVE  Consistent(shadow)' /\ PendingConsistent'
  <1>0. /\ shadow \in [Slots -> Entry] /\ res[t] \in Int
        /\ g_pending_dup_src \in Int /\ g_pending_dup_dst \in Int
        /\ g_pending_open_block_write \in BOOLEAN
        /\ g_pending_open_path \in Paths \cup {ProcPath, NoPath}
    BY FdAssumption DEF TypeOK, FdArgs
  <1>1. UNCHANGED pendingOpen
    BY DEF Post, PostOpen, PostDup, PostOther, Resume
  <1>2. PendingConsistent'
    BY <1>1 DEF PendingConsistent, pendingOpen
  <1>3. CASE PostOpen(t)
    <2>1. Consistent(fd_shadow_set(shadow, res[t], g_pending_open_path,
                                   g_pending_open_block_write))
      BY <1>0, SetConsistent DEF PendingConsistent
    <2> QED BY <1>2, <1>3, <2>1 DEF PostOpen, Consistent
  <1>4. CASE PostDup(t)
    <2>1. PICK dst \in Int : shadow' = fd_shadow_copy(shadow, dst, g_pending_dup_src)
      BY <1>0, <1>4 DEF PostDup
    <2>2. Consistent(fd_shadow_copy(shadow, dst, g_pending_dup_src))
      BY <1>0, CopyConsistent
    <2> QED BY <1>2, <2>1, <2>2 DEF Consistent
  <1>5. CASE PostOther(t)
    BY <1>2, <1>5 DEF PostOther, Consistent
  <1> QED BY <1>3, <1>4, <1>5 DEF Post

(* fd_shadow_set and fd_shadow_copy, and the pending pair between them: in  *)
(* every instance, with threads that overwrite each other's pending calls   *)
(* too, an entry's write rule is the rule of the path in the same entry.    *)
THEOREM EntriesConsistent == Spec => []EntryConsistent
  <1>1. Init => Consistent(shadow) /\ PendingConsistent
    BY PathsAssumption DEF Init, Consistent, PendingConsistent, NoEntry
  <1>2. TypeOK /\ Consistent(shadow) /\ PendingConsistent /\ [Next]_vars
            => Consistent(shadow)' /\ PendingConsistent'
    <2> SUFFICES ASSUME TypeOK, Consistent(shadow), PendingConsistent, [Next]_vars
                 PROVE  Consistent(shadow)' /\ PendingConsistent'
      OBVIOUS
    <2>1. CASE Next
      BY <2>1, ConsistentPre, ConsistentKernel, ConsistentPost DEF Next
    <2>2. CASE UNCHANGED vars
      BY <2>2 DEF vars, pendingOpen, Consistent, PendingConsistent
    <2> QED BY <2>1, <2>2
  <1>3. Consistent(shadow) => EntryConsistent
    BY DEF Consistent, EntryConsistent
  <1> QED BY <1>1, <1>2, <1>3, TypeCorrect, PTL DEF Spec

-----------------------------------------------------------------------------
(* Exactness of the table.  It holds for a program whose calls do not       *)
(* overlap, whose descriptors all have a slot, and that makes none of the   *)
(* three unusual calls; each of those conditions is necessary (run fd_race  *)
(* for the first, the README's limits of FdShadow for the others).          *)
Sequential ==
    /\ \A t, u \in Threads : t = u
    /\ MaxFd < ShadowSize
    /\ AppMay = {}

Exact       == \A fd \in Fds : ExactAt(fd)
ExactBut(x) == \A fd \in Fds : fd # x => ExactAt(fd)

(* The pair the filter has pending is the right entry for the file f.       *)
PendingFits(f) ==
    /\ f \in Paths => /\ g_pending_open_path = f
                      /\ g_pending_open_block_write = (f \in BlockedPaths)
    /\ f = Anon => g_pending_open_path = ProcPath /\ g_pending_open_block_write = FALSE

DupPending(src, has_dst) ==
    ~g_pending_open /\ g_pending_dup /\ g_pending_dup_src = src /\ g_pending_dup_has_dst = has_dst

Tracked == {"open", "open_other"}

(* What the filter can know of the file c is about to open.                 *)
SeenTarget(c) == IF OpensUnseen(c) THEN Anon ELSE OpenTarget(c)

(* While a call is in the kernel.  dup2, dup3 and close have already dropped*)
(* the entry of the one descriptor they are about to change.                *)
InKernelInv(c) ==
    /\ c.op \in Tracked => /\ Exact /\ g_pending_open /\ ~g_pending_dup
                           /\ OpenTarget(c) # Closed => PendingFits(SeenTarget(c))
    /\ c.op = "dup" => Exact /\ DupPending(c.src, FALSE)
    /\ c.op \in {"dup2", "dup3"} =>
           /\ ExactBut(c.dst) /\ fd_shadow_get(shadow, c.dst) = NoEntry
           /\ c.src # c.dst /\ FileOf(c.src) # Closed
           /\ DupPending(c.src, TRUE) /\ g_pending_dup_dst = c.dst
    /\ c.op = "close" => /\ ExactBut(c.src) /\ fd_shadow_get(shadow, c.src) = NoEntry
                         /\ ~g_pending_dup
    /\ c.op = "write" => /\ Exact /\ ~g_pending_dup
                         /\ FileOf(c.src) \in BlockedPaths => c.src \in unseen
    /\ c.op \in {"create", "other", "openat2"} => Exact /\ ~g_pending_dup
    /\ c.op \notin {"close_range", "none"}

(* Before the post event.  A successful open, dup, dup2 or dup3 has put a   *)
(* file behind r that the table does not know yet.                          *)
BeforePostInv(c, r) ==
    /\ c.op \in Tracked => /\ g_pending_open /\ ~g_pending_dup
                           /\ r < 0 => Exact
                           /\ r >= 0 => ExactBut(r) /\ file[r] # Closed /\ PendingFits(Seen(r))
    /\ c.op = "dup" => DupPending(c.src, FALSE)
    /\ c.op \in {"dup2", "dup3"} => DupPending(c.src, TRUE) /\ (r >= 0 => g_pending_dup_dst = r)
    /\ c.op \in {"dup", "dup2", "dup3"} =>
           /\ r < 0 => Exact
           /\ r >= 0 => /\ ExactBut(r) /\ c.src # r /\ c.src \in Fds
                        /\ Seen(r) = Seen(c.src)
    /\ c.op \notin Tracked \cup {"dup", "dup2", "dup3"} => Exact /\ ~g_pending_dup

PhaseInv(t) ==
    /\ pc[t] = "app" => Exact
    /\ pc[t] = "kernel" => InKernelInv(call[t])
    /\ pc[t] = "post" => BeforePostInv(call[t], res[t])

(* The inductive invariant.                                                 *)
FdInv ==
    /\ TypeOK
    /\ \A t \in Threads : PhaseInv(t)
    /\ NoBlockedWrite
    /\ NoFalseRefusal

(* The table and the descriptors are unchanged: so is exactness.            *)
LEMMA ExactStable ==
    ASSUME file' = file, unseen' = unseen, shadow' = shadow
    PROVE  /\ Exact => Exact'
           /\ \A x : ExactBut(x) => ExactBut(x)'
           /\ \A x : FileOf(x)' = FileOf(x)
  BY DEF Exact, ExactBut, ExactAt, FileOf, Seen

(* What a kernel step that gives fd the file f does to what the filter can  *)
(* know of the descriptors.                                                 *)
LEMMA MarkSeen ==
    ASSUME NEW fd \in Fds, NEW b \in BOOLEAN, NEW f, file \in [Fds -> Paths \cup {Anon, Closed}],
           file' = [file EXCEPT ![fd] = f], unseen' = Mark(fd, b)
    PROVE  /\ Seen(fd)' = (IF b /\ f # Closed THEN Anon ELSE f)
           /\ \A g \in Fds : g # fd => Seen(g)' = Seen(g)
  BY DEF Mark, Seen

(* Exactness at one descriptor depends on its file and its entry only.      *)
LEMMA ExactAtStable ==
    ASSUME NEW g, ExactAt(g), Seen(g)' = Seen(g),
           fd_shadow_get(shadow', g) = fd_shadow_get(shadow, g)
    PROVE  ExactAt(g)'
  BY DEF ExactAt

(* The fields of a tracked entry.                                           *)
LEMMA TrackedFields ==
    ASSUME NEW p, NEW S, NEW e, e = TrackedEntry(p, p \in S)
    PROVE  e.in_use /\ e.path = p /\ e.block_write = (p \in S)
  <1> DEFINE b == p \in S
  <1>1. b \in BOOLEAN
    OBVIOUS
  <1>2. e = TrackedEntry(p, b)
    OBVIOUS
  <1> HIDE DEF b
  <1>3. e.in_use /\ e.path = p /\ e.block_write = b
    BY <1>1, <1>2 DEF TrackedEntry
  <1> QED BY <1>3 DEF b

(* With one thread, the phase of that thread is all there is to show.       *)
LEMMA OnePhase ==
    ASSUME Sequential, NEW t \in Threads, TypeOK', PhaseInv(t)',
           NoBlockedWrite', NoFalseRefusal'
    PROVE  FdInv'
  BY DEF Sequential, FdInv

(* A refused call leaves the table exact and the thread in the application. *)
LEMMA RefuseStep ==
    ASSUME TypeOK, NEW t \in Threads, PhaseInv(t), Refuse(t), UNCHANGED shadow
    PROVE  PhaseInv(t)'
  <1>1. pc[t] = "app" /\ pc'[t] = "app" /\ Exact
    BY DEF Refuse, PhaseInv, TypeOK
  <1>2. Exact'
    BY <1>1, ExactStable DEF Refuse
  <1> QED BY <1>1, <1>2 DEF PhaseInv

(* The pre event of each call establishes what holds while it is in the     *)
(* kernel.                                                                  *)
LEMMA PreStep ==
    ASSUME Sequential, FdInv, NEW t \in Threads, Pre(t)
    PROVE  FdInv'
  <1>0. TypeOK /\ TypeOK' /\ PhaseInv(t)
    BY TypePre DEF FdInv
  <1>n. NoWrite.fate = "none"
    BY DEF NoWrite, Write
  <1>e. ASSUME pc[t] = "app" PROVE Exact
    BY <1>0, <1>e DEF PhaseInv
  <1>q. ASSUME lastWrite' = NoWrite PROVE NoBlockedWrite' /\ NoFalseRefusal'
    BY <1>n, <1>q DEF NoBlockedWrite, NoFalseRefusal
  <1>a. ASSUME NEW c, Allow(t, c), InKernelInv(c)' PROVE PhaseInv(t)'
    BY <1>0, <1>a DEF Allow, PhaseInv, TypeOK
  <1>i. FdArgs \subseteq Int /\ Fds \subseteq FdArgs /\ Fds \subseteq Slots
    BY FdAssumption DEF FdArgs, Fds, Slots, Sequential
  <1>1. CASE PreRefused(t)
    BY <1>0, <1>1, <1>q, RefuseStep, OnePhase DEF PreRefused
  <1>2. ASSUME NEW path \in Paths, PreOpen(t, path) PROVE FdInv'
    <2> DEFINE c == MkCall("open", path, -1, -1)
    <2>1. c.op = "open" /\ c.path = path
      BY DEF MkCall
    <2>2. Exact'
      BY <1>2, <1>e, ExactStable DEF PreOpen, Allow
    <2>3. g_pending_open' /\ ~g_pending_dup' /\ g_pending_open_path' = path
          /\ g_pending_open_block_write' = (path \in BlockedPaths)
      BY <1>2 DEF PreOpen, RememberOpen, ForgetDup, fd_write_policy_blocks
    <2>4. SeenTarget(c)' = path
      BY <2>1, PathsAssumption DEF SeenTarget, OpensUnseen, OpenTarget
    <2>5. PendingFits(path)'
      BY <2>3, PathsAssumption DEF PendingFits
    <2>6. InKernelInv(c)'
      BY <2>1, <2>2, <2>3, <2>4, <2>5 DEF InKernelInv, Tracked
    <2> QED BY <1>0, <1>2, <1>a, <1>q, <2>6, OnePhase DEF PreOpen
  <1>3. ASSUME NEW path \in Paths, PreOpenRemapFails(t, path) PROVE FdInv'
    BY <1>0, <1>3, <1>q, RefuseStep, OnePhase DEF PreOpenRemapFails
  <1>4. ASSUME NEW src \in Fds, PreOpenProc(t, src) PROVE FdInv'
    <2> DEFINE c == MkCall("open", ProcPath, src, -1)
               e == fd_shadow_get(shadow, src)
    <2>1. c.op = "open" /\ c.path = ProcPath /\ c.src = src
      BY DEF MkCall
    <2>2. Exact /\ Exact'
      BY <1>4, <1>e, ExactStable DEF PreOpenProc, Allow
    <2>3. g_pending_open' /\ ~g_pending_dup'
          /\ g_pending_open_path' = (IF e.in_use THEN e.path ELSE ProcPath)
          /\ g_pending_open_block_write' =
                (IF e.in_use THEN e.block_write ELSE fd_write_policy_blocks(ProcPath))
      BY <1>4 DEF PreOpenProc, RememberOpen, ForgetDup
    <2>4. file' = file /\ unseen' = unseen
      BY <1>4 DEF PreOpenProc, Allow
    <2>5. ASSUME Seen(src) \in Paths
          PROVE  /\ g_pending_open_path' = Seen(src)
                 /\ g_pending_open_block_write' = (Seen(src) \in BlockedPaths)
      <3>1. e = TrackedEntry(Seen(src), Seen(src) \in BlockedPaths)
        BY <2>2, <2>5 DEF Exact, ExactAt
      <3>2. e.in_use /\ e.path = Seen(src) /\ e.block_write = (Seen(src) \in BlockedPaths)
        BY <3>1, TrackedFields
      <3> QED BY <2>3, <3>2
    <2>6. ASSUME Seen(src) = Anon
          PROVE  g_pending_open_path' = ProcPath /\ g_pending_open_block_write' = FALSE
      <3>1. e \in {NoEntry, TrackedEntry(ProcPath, FALSE)}
        BY <2>2, <2>6 DEF Exact, ExactAt
      <3>2. ~fd_write_policy_blocks(ProcPath)
        BY PathsAssumption DEF fd_write_policy_blocks
      <3>3. CASE e = NoEntry
        BY <2>3, <3>2, <3>3 DEF NoEntry
      <3>4. CASE e = TrackedEntry(ProcPath, FALSE)
        BY <2>3, <3>4 DEF TrackedEntry
      <3> QED BY <3>1, <3>3, <3>4
    <2>7. PendingFits(Seen(src))'
      <3>1. Seen(src)' = Seen(src)
        BY <2>4 DEF Seen
      <3> QED BY <2>5, <2>6, <3>1 DEF PendingFits
    <2>8. OpenTarget(c)' # Closed => SeenTarget(c)' = Seen(src)'
      BY <2>1 DEF OpenTarget, FileOf, SeenTarget, OpensUnseen, Seen
    <2>9. InKernelInv(c)'
      BY <2>1, <2>2, <2>3, <2>7, <2>8 DEF InKernelInv, Tracked
    <2> QED BY <1>0, <1>4, <1>a, <1>q, <2>9, OnePhase DEF PreOpenProc
  <1>5. ASSUME NEW src \in FdArgs, NEW min \in Fds, PreDup(t, src, min) PROVE FdInv'
    <2> DEFINE c == MkCall("dup", NoPath, src, min)
    <2>1. c.op = "dup" /\ c.src = src
      BY DEF MkCall
    <2>2. Exact' /\ DupPending(src, FALSE)'
      BY <1>5, <1>e, ExactStable DEF PreDup, Allow, RememberDup, ForgetOpen, DupPending
    <2>3. InKernelInv(c)'
      BY <2>1, <2>2 DEF InKernelInv, Tracked
    <2> QED BY <1>0, <1>5, <1>a, <1>q, <2>3, OnePhase DEF PreDup
  <1>6. ASSUME NEW op \in {"dup2", "dup3"}, NEW src \in FdArgs, NEW dst \in FdArgs,
               PreDupOnto(t, op, src, dst)
        PROVE  FdInv'
    <2> DEFINE c == MkCall(op, NoPath, src, dst)
    <2>1. c.op = op /\ c.src = src /\ c.dst = dst
      BY DEF MkCall
    <2>2. src # dst /\ FileOf(src) # Closed /\ file' = file
      BY <1>6 DEF PreDupOnto, Sequential, Allow
    <2>3. shadow' = fd_shadow_clear(shadow, dst) /\ shadow \in [Slots -> Entry]
      BY <1>0, <1>6 DEF PreDupOnto, TypeOK
    <2>4. ExactBut(dst)'
      <3> SUFFICES ASSUME NEW g \in Fds, g # dst PROVE ExactAt(g)'
        BY DEF ExactBut
      <3>1. ExactAt(g)
        BY <1>6, <1>e DEF PreDupOnto, Allow, Exact
      <3>3. Seen(g)' = Seen(g)
        BY <1>6 DEF PreDupOnto, Allow, Seen
      <3>2. fd_shadow_get(shadow', g) = fd_shadow_get(shadow, g)
        BY <1>i, <2>3, ClearLemma
      <3> QED BY <3>1, <3>2, <3>3, ExactAtStable
    <2>5. fd_shadow_get(shadow', dst) = NoEntry
      BY <1>i, <2>3, ClearLemma
    <2>6. DupPending(src, TRUE)' /\ g_pending_dup_dst' = dst
      BY <1>6 DEF PreDupOnto, RememberDup, ForgetOpen, DupPending
    <2>7. FileOf(src)' # Closed
      BY <2>2 DEF FileOf
    <2>8. InKernelInv(c)'
      BY <2>1, <2>2, <2>4, <2>5, <2>6, <2>7 DEF InKernelInv, Tracked
    <2> QED BY <1>0, <1>6, <1>a, <1>q, <2>8, OnePhase DEF PreDupOnto
  <1>7. ASSUME NEW fd \in FdArgs, PreClose(t, fd) PROVE FdInv'
    <2> DEFINE c == MkCall("close", NoPath, fd, -1)
    <2>1. c.op = "close" /\ c.src = fd
      BY DEF MkCall
    <2>2. shadow' = fd_shadow_clear(shadow, fd) /\ shadow \in [Slots -> Entry] /\ file' = file
      BY <1>0, <1>7 DEF PreClose, TypeOK, Allow
    <2>3. ExactBut(fd)'
      <3> SUFFICES ASSUME NEW g \in Fds, g # fd PROVE ExactAt(g)'
        BY DEF ExactBut
      <3>1. ExactAt(g)
        BY <1>7, <1>e DEF PreClose, Allow, Exact
      <3>3. Seen(g)' = Seen(g)
        BY <1>7 DEF PreClose, Allow, Seen
      <3>2. fd_shadow_get(shadow', g) = fd_shadow_get(shadow, g)
        BY <1>i, <2>2, ClearLemma
      <3> QED BY <3>1, <3>2, <3>3, ExactAtStable
    <2>4. fd_shadow_get(shadow', fd) = NoEntry /\ ~g_pending_dup'
      BY <1>7, <1>i, <2>2, ClearLemma DEF PreClose, ForgetDup
    <2>5. InKernelInv(c)'
      BY <2>1, <2>3, <2>4 DEF InKernelInv, Tracked
    <2> QED BY <1>0, <1>7, <1>a, <1>q, <2>5, OnePhase DEF PreClose
  <1>8. ASSUME NEW fd \in FdArgs, PreWriteBlocked(t, fd) PROVE FdInv'
    <2>1. PhaseInv(t)' /\ Exact
      BY <1>0, <1>8, <1>e, RefuseStep DEF PreWriteBlocked, Refuse
    <2>2. fd \in Fds
      BY <1>8, FdAssumption DEF PreWriteBlocked, WriteBlocked, fd_shadow_get, NoEntry, FdArgs, Fds
    <2>3. file[fd] \in BlockedPaths
      <3>1. fd_shadow_get(shadow, fd).block_write /\ file[fd] \in Paths \cup {Anon, Closed}
        BY <1>0, <1>8, <2>2 DEF PreWriteBlocked, WriteBlocked, TypeOK
      <3>2. ~NoEntry.block_write /\ ~TrackedEntry(ProcPath, FALSE).block_write
        BY DEF NoEntry, TrackedEntry
      <3>3. Seen(fd) \in Paths
        BY <2>1, <2>2, <3>1, <3>2 DEF Exact, ExactAt, Seen
      <3>4. fd_shadow_get(shadow, fd) = TrackedEntry(Seen(fd), Seen(fd) \in BlockedPaths)
        BY <2>1, <2>2, <3>3 DEF Exact, ExactAt
      <3>5. fd_shadow_get(shadow, fd).block_write = (Seen(fd) \in BlockedPaths)
        BY <3>4, TrackedFields
      <3>6. Seen(fd) = file[fd]
        BY <3>3, PathsAssumption DEF Seen
      <3> QED BY <3>1, <3>5, <3>6
    <2>4. NoBlockedWrite' /\ NoFalseRefusal'
      BY <1>8, <2>2, <2>3 DEF PreWriteBlocked, Write, FileOf, NoBlockedWrite, NoFalseRefusal
    <2> QED BY <1>0, <2>1, <2>4, OnePhase
  <1>9. ASSUME NEW fd \in FdArgs, PreWriteNotStdio(t, fd) PROVE FdInv'
    BY <1>0, <1>9, <1>q, RefuseStep, OnePhase DEF PreWriteNotStdio
  <1>10. ASSUME NEW fd \in FdArgs, PreWrite(t, fd) PROVE FdInv'
    <2> DEFINE c == MkCall("write", NoPath, fd, -1)
    <2>1. c.op = "write" /\ c.src = fd
      BY DEF MkCall
    <2>2. Exact /\ Exact' /\ ~g_pending_dup' /\ file' = file /\ unseen' = unseen
      BY <1>10, <1>e, ExactStable DEF PreWrite, Allow, ForgetDup
    <2>3. FileOf(fd) \in BlockedPaths => fd \in unseen
      <3>1. CASE fd \notin Fds
        BY <3>1, PathsAssumption DEF FileOf
      <3>2. CASE fd \in Fds /\ file[fd] \in BlockedPaths /\ fd \notin unseen
        <4>0. Seen(fd) = file[fd] /\ file[fd] \in Paths
          BY <3>2, PathsAssumption DEF Seen
        <4>1. fd_shadow_get(shadow, fd) = TrackedEntry(file[fd], file[fd] \in BlockedPaths)
          BY <2>2, <3>2, <4>0 DEF Exact, ExactAt
        <4>2. fd_shadow_get(shadow, fd).block_write = (file[fd] \in BlockedPaths)
          BY <4>1, TrackedFields
        <4> QED BY <1>10, <3>2, <4>2 DEF PreWrite, WriteBlocked
      <3> QED BY <3>1, <3>2 DEF FileOf
    <2>4. FileOf(fd)' \in BlockedPaths => fd \in unseen'
      BY <2>2, <2>3 DEF FileOf
    <2>5. InKernelInv(c)'
      BY <2>1, <2>2, <2>4 DEF InKernelInv, Tracked
    <2> QED BY <1>0, <1>10, <1>a, <1>q, <2>5, OnePhase DEF PreWrite
  <1>11. ASSUME NEW op \in {"create", "close_range", "other"}, PreUntracked(t, op)
         PROVE  FdInv'
    <2> DEFINE c == MkCall(op, NoPath, -1, -1)
    <2>1. c.op = op /\ op \in {"create", "other"}
      BY <1>11 DEF MkCall, PreUntracked, Sequential
    <2>2. Exact' /\ ~g_pending_dup'
      BY <1>11, <1>e, ExactStable DEF PreUntracked, Allow, ForgetDup
    <2>3. InKernelInv(c)'
      BY <2>1, <2>2 DEF InKernelInv, Tracked
    <2> QED BY <1>0, <1>11, <1>a, <1>q, <2>3, OnePhase DEF PreUntracked
  <1>12. ASSUME NEW path, NEW src, PreOpenOtherName(t, path, src) PROVE FdInv'
    <2> DEFINE c == MkCall("open_other", path, src, -1)
    <2>1. c.op = "open_other"
      BY DEF MkCall
    <2>2. /\ Exact' /\ g_pending_open' /\ ~g_pending_dup'
          /\ g_pending_open_path' = ProcPath /\ g_pending_open_block_write' = FALSE
      <3>1. Exact'
        BY <1>12, <1>e, ExactStable DEF PreOpenOtherName, Allow
      <3>2. /\ g_pending_open' /\ ~g_pending_dup' /\ g_pending_open_path' = ProcPath
            /\ g_pending_open_block_write' = (ProcPath \in BlockedPaths)
        BY <1>12 DEF PreOpenOtherName, ForgetDup, RememberOpen, fd_write_policy_blocks
      <3>3. (ProcPath \in BlockedPaths) = FALSE
        BY PathsAssumption
      <3> QED BY <3>1, <3>2, <3>3
    <2>3. SeenTarget(c)' = Anon
      BY <2>1 DEF SeenTarget, OpensUnseen
    <2>4. PendingFits(Anon)'
      BY <2>2, PathsAssumption DEF PendingFits
    <2>5. InKernelInv(c)'
      BY <2>1, <2>2, <2>3, <2>4 DEF InKernelInv, Tracked
    <2> QED BY <1>0, <1>12, <1>a, <1>q, <2>5, OnePhase DEF PreOpenOtherName
  <1>13. ASSUME NEW path, PreOpenat2(t, path) PROVE FdInv'
    <2> DEFINE c == MkCall("openat2", path, -1, -1)
    <2>1. c.op = "openat2"
      BY DEF MkCall
    <2>2. Exact' /\ ~g_pending_dup'
      BY <1>13, <1>e, ExactStable DEF PreOpenat2, Allow, ForgetDup
    <2>3. InKernelInv(c)'
      BY <2>1, <2>2 DEF InKernelInv, Tracked
    <2> QED BY <1>0, <1>13, <1>a, <1>q, <2>3, OnePhase DEF PreOpenat2
  <1> QED
    BY <1>1, <1>2, <1>3, <1>4, <1>5, <1>6, <1>7, <1>8, <1>9, <1>10, <1>11, <1>12, <1>13 DEF Pre

(* An untracked descriptor fits a closed or a nameless file.                *)
LEMMA UntrackedFits ==
    ASSUME NEW g, fd_shadow_get(shadow', g) = NoEntry, Seen(g)' \in {Closed, Anon}
    PROVE  ExactAt(g)'
  BY PathsAssumption DEF ExactAt, Closed, Anon

(* What the kernel does, call by call.                                      *)
LEMMA KernelStep ==
    ASSUME Sequential, FdInv, NEW t \in Threads, Kernel(t)
    PROVE  FdInv'
  <1> DEFINE c == call[t]
  <1>0. TypeOK /\ TypeOK' /\ NoBlockedWrite /\ NoFalseRefusal /\ c.src \in FdArgs
        /\ c.dst \in FdArgs
    BY TypeKernel DEF FdInv, TypeOK, Call
  <1>i. FdArgs \subseteq Int /\ Fds \subseteq FdArgs /\ file \in [Fds -> Paths \cup {Anon, Closed}]
        /\ Fds = {n \in FdArgs : n >= 0}
    BY <1>0, FdAssumption DEF FdArgs, Fds, TypeOK
  <1>k. ASSUME pc[t] = "kernel" PROVE InKernelInv(c)
    BY <1>k DEF FdInv, PhaseInv
  <1>r. ASSUME NEW r, Return(t, r), BeforePostInv(c, r)' PROVE PhaseInv(t)'
    BY <1>0, <1>r DEF Return, PhaseInv, TypeOK
  <1>q. ASSUME UNCHANGED lastWrite PROVE NoBlockedWrite' /\ NoFalseRefusal'
    BY <1>0, <1>q DEF NoBlockedWrite, NoFalseRefusal
  <1>1. CASE KernelFails(t)
    <2>1. InKernelInv(c) /\ call' = call /\ file' = file /\ shadow' = shadow /\ unseen' = unseen
          /\ UNCHANGED <<pendingOpen, pendingDup>> /\ Return(t, -1)
          /\ c.op \in Tracked \cup {"openat2", "dup", "create", "other", "write", "close_range"}
      BY <1>1, <1>k DEF KernelFails, InKernel, Return, Opens, Tracked
    <2>2. Exact'
      BY <2>1, ExactStable DEF InKernelInv, Tracked
    <2>3. BeforePostInv(c, -1)'
      BY <2>1, <2>2 DEF InKernelInv, BeforePostInv, DupPending, pendingOpen, pendingDup, Tracked
    <2> QED BY <1>0, <1>1, <1>r, <1>q, <2>1, <2>3, OnePhase DEF KernelFails
  <1>2. ASSUME NEW fd \in Fds, KernelOpen(t, fd) PROVE FdInv'
    <2>1. /\ c.op \in Tracked \cup {"openat2"} /\ Exact /\ ~g_pending_dup
          /\ c.op \in Tracked => g_pending_open /\ PendingFits(SeenTarget(c))
          /\ OpenTarget(c) # Closed /\ file[fd] = Closed
          /\ call' = call /\ shadow' = shadow /\ Return(t, fd)
          /\ UNCHANGED <<pendingOpen, pendingDup>>
          /\ file' = [file EXCEPT ![fd] = OpenTarget(c)] /\ unseen' = Mark(fd, OpensUnseen(c))
      BY <1>2, <1>k DEF KernelOpen, InKernel, InKernelInv, Return, Opens, Tracked, LowestFree
    <2>2. Seen(fd)' = SeenTarget(c) /\ \A g \in Fds : g # fd => Seen(g)' = Seen(g)
      <3>1. OpensUnseen(c) \in BOOLEAN
        BY DEF OpensUnseen
      <3> QED BY <1>i, <2>1, <3>1, MarkSeen DEF SeenTarget
    <2>3. ExactBut(fd)'
      BY <2>1, <2>2, ExactAtStable DEF Exact, ExactBut
    <2>4. ~(fd < 0)
      BY <1>i
    <2>5. CASE c.op \in Tracked
      <3>1. PendingFits(Seen(fd))'
        BY <2>1, <2>2, <2>5 DEF PendingFits, pendingOpen
      <3>2. file'[fd] # Closed
        BY <1>i, <2>1
      <3>3. BeforePostInv(c, fd)'
        BY <2>1, <2>3, <2>4, <2>5, <3>1, <3>2
        DEF BeforePostInv, pendingOpen, pendingDup, Tracked
      <3> QED BY <1>0, <1>2, <1>r, <1>q, <2>1, <3>3, OnePhase DEF KernelOpen
    <2>6. CASE c.op = "openat2"
      <3>1. Seen(fd)' = Anon
        BY <2>2, <2>6 DEF SeenTarget, OpensUnseen
      <3>2. fd_shadow_get(shadow', fd) = NoEntry
        BY <2>1 DEF Exact, ExactAt, Seen
      <3>3. Exact'
        BY <2>3, <3>1, <3>2, UntrackedFits DEF Exact, ExactBut
      <3>4. BeforePostInv(c, fd)'
        BY <2>1, <2>6, <3>3 DEF BeforePostInv, pendingDup, Tracked
      <3> QED BY <1>0, <1>2, <1>r, <1>q, <2>1, <3>4, OnePhase DEF KernelOpen
    <2> QED BY <2>1, <2>5, <2>6
  <1>3. ASSUME NEW fd \in Fds, KernelCreate(t, fd) PROVE FdInv'
    <2>1. /\ c.op = "create" /\ Exact /\ ~g_pending_dup
          /\ call' = call /\ shadow' = shadow /\ Return(t, fd)
          /\ UNCHANGED <<pendingOpen, pendingDup>>
          /\ file[fd] = Closed /\ file' = [file EXCEPT ![fd] = Anon] /\ unseen' = Mark(fd, FALSE)
      BY <1>3, <1>k DEF KernelCreate, InKernel, InKernelInv, Return, LowestFree
    <2>2. Seen(fd)' = Anon /\ \A g \in Fds : g # fd => Seen(g)' = Seen(g)
      BY <1>i, <2>1, MarkSeen
    <2>3. fd_shadow_get(shadow', fd) = NoEntry
      BY <2>1 DEF Exact, ExactAt, Seen
    <2>4. Exact'
      BY <2>1, <2>2, <2>3, ExactAtStable, UntrackedFits DEF Exact
    <2>5. BeforePostInv(c, fd)'
      BY <2>1, <2>4 DEF BeforePostInv, pendingDup, Tracked
    <2> QED BY <1>0, <1>3, <1>r, <1>q, <2>1, <2>5, OnePhase DEF KernelCreate
  <1>4. ASSUME NEW fd \in Fds, KernelDup(t, fd) PROVE FdInv'
    <2>1. /\ c.op = "dup" /\ Exact /\ DupPending(c.src, FALSE)
          /\ call' = call /\ shadow' = shadow /\ Return(t, fd)
          /\ UNCHANGED <<pendingOpen, pendingDup>>
          /\ FileOf(c.src) # Closed /\ file[fd] = Closed
          /\ file' = [file EXCEPT ![fd] = FileOf(c.src)] /\ unseen' = Mark(fd, c.src \in unseen)
      BY <1>4, <1>k DEF KernelDup, InKernel, InKernelInv, Return, LowestFree
    <2>2. c.src \in Fds /\ c.src # fd /\ FileOf(c.src) = file[c.src]
      BY <2>1 DEF FileOf
    <2>3. Seen(fd)' = Seen(c.src) /\ \A g \in Fds : g # fd => Seen(g)' = Seen(g)
      BY <1>i, <2>1, <2>2 DEF Seen, Mark
    <2>4. ExactBut(fd)'
      BY <2>1, <2>3, ExactAtStable DEF Exact, ExactBut
    <2>5. ~(fd < 0)
      BY <1>i
    <2>6. DupPending(c.src, FALSE)'
      BY <2>1 DEF DupPending, pendingOpen, pendingDup
    <2>7. BeforePostInv(c, fd)'
      <3>1. Seen(fd)' = Seen(c.src)'
        <4>1. PICK n \in Fds : n = c.src
          BY <2>2
        <4>2. Seen(fd)' = Seen(n)' /\ (c.src)' = n
          BY <2>1, <2>2, <2>3, <4>1
        <4> QED BY <4>2 DEF Seen
      <3> QED BY <2>1, <2>2, <2>4, <2>5, <2>6, <3>1 DEF BeforePostInv, Tracked
    <2> QED BY <1>0, <1>4, <1>r, <1>q, <2>1, <2>7, OnePhase DEF KernelDup
  <1>5. ASSUME NEW fd \in Fds, KernelCloseRange(t, fd) PROVE FdInv'
    BY <1>5, <1>k DEF KernelCloseRange, InKernel, InKernelInv
  <1>6. ASSUME NEW fd \in Fds, KernelOther(t, fd) PROVE FdInv'
    <2>1. /\ c.op = "other" /\ Exact /\ ~g_pending_dup
          /\ call' = call /\ shadow' = shadow /\ Return(t, fd)
          /\ UNCHANGED <<pendingOpen, pendingDup>> /\ file' = file /\ unseen' = unseen
      BY <1>6, <1>k DEF KernelOther, InKernel, InKernelInv, Return
    <2>2. BeforePostInv(c, fd)'
      BY <2>1, ExactStable DEF BeforePostInv, pendingDup, Tracked
    <2> QED BY <1>0, <1>6, <1>r, <1>q, <2>1, <2>2, OnePhase DEF KernelOther
  <1>7. CASE KernelDupOnto(t)
    <2>1. /\ c.op \in {"dup2", "dup3"} /\ ExactBut(c.dst)
          /\ c.src # c.dst /\ FileOf(c.src) # Closed
          /\ DupPending(c.src, TRUE) /\ g_pending_dup_dst = c.dst
      BY <1>7, <1>k DEF KernelDupOnto, InKernel, InKernelInv
    <2>2. c.src \in Fds /\ FileOf(c.src) = file[c.src]
      BY <2>1 DEF FileOf
    <2>3. call' = call /\ shadow' = shadow /\ UNCHANGED <<pendingOpen, pendingDup>>
      BY <1>7 DEF KernelDupOnto, Return
    <2>4. DupPending(c.src, TRUE)' /\ g_pending_dup_dst' = c.dst
      BY <2>1, <2>3 DEF DupPending, pendingOpen, pendingDup
    <2>5. CASE c.dst \in Fds
      <3>0. PICK d \in Fds : d = c.dst
        BY <2>5
      <3>1. /\ Return(t, d) /\ file' = [file EXCEPT ![d] = file[c.src]]
            /\ unseen' = Mark(d, c.src \in unseen)
        BY <1>7, <2>1, <2>2, <3>0 DEF KernelDupOnto, DupOntoWorks
      <3>2. Seen(d)' = Seen(c.src) /\ \A g \in Fds : g # d => Seen(g)' = Seen(g)
        BY <1>i, <2>2, <3>1 DEF Seen, Mark
      <3>3. ExactBut(d)'
        <4> SUFFICES ASSUME NEW g \in Fds, g # d PROVE ExactAt(g)'
          BY DEF ExactBut
        <4> QED BY <2>1, <2>3, <3>0, <3>2, ExactAtStable DEF ExactBut
      <3>4. ~(d < 0)
        BY <1>i
      <3>5. Seen(d)' = Seen(c.src)'
        <4>1. PICK n \in Fds : n = c.src
          BY <2>2
        <4>2. Seen(d)' = Seen(n)' /\ (c.src)' = n
          BY <2>1, <2>3, <3>0, <3>2, <4>1
        <4> QED BY <4>2 DEF Seen
      <3>6. BeforePostInv(c, d)'
        BY <2>1, <2>2, <2>3, <2>4, <3>0, <3>3, <3>4, <3>5 DEF BeforePostInv, Tracked
      <3> QED BY <1>0, <1>7, <1>r, <1>q, <3>1, <3>6, OnePhase DEF KernelDupOnto
    <2>6. CASE c.dst \notin Fds
      <3>1. Return(t, -1) /\ file' = file /\ unseen' = unseen
        BY <1>7, <2>6 DEF KernelDupOnto, DupOntoWorks
      <3>2. Exact'
        BY <2>1, <2>3, <2>6, <3>1, ExactStable DEF ExactBut, Exact
      <3>3. BeforePostInv(c, -1)'
        <4>1. c' = c /\ c.op \notin Tracked \cup {"dup"} /\ -1 < 0 /\ ~(-1 >= 0)
          BY <2>1, <2>3 DEF Tracked
        <4> QED BY <2>1, <2>4, <3>2, <4>1 DEF BeforePostInv
      <3> QED BY <1>0, <1>7, <1>r, <1>q, <3>1, <3>3, OnePhase DEF KernelDupOnto
    <2> QED BY <2>5, <2>6
  <1>8. CASE KernelClose(t)
    <2>1. /\ c.op = "close" /\ ExactBut(c.src) /\ ~g_pending_dup
          /\ fd_shadow_get(shadow, c.src) = NoEntry
      BY <1>8, <1>k DEF KernelClose, InKernel, InKernelInv
    <2>2. /\ call' = call /\ shadow' = shadow /\ UNCHANGED <<pendingOpen, pendingDup>>
          /\ \E r \in {-1, 0} : Return(t, r)
      BY <1>8 DEF KernelClose, Return
    <2>3. ASSUME NEW g \in Fds
          PROVE  (g = c.src => Seen(g)' = Closed) /\ (g # c.src => Seen(g)' = Seen(g))
      <3>1. CASE FileOf(c.src) # Closed
        <4>1. c.src \in Fds
          BY <3>1 DEF FileOf
        <4>2. file' = [file EXCEPT ![c.src] = Closed] /\ unseen' = Mark(c.src, FALSE)
          BY <1>8, <3>1 DEF KernelClose
        <4> QED BY <1>i, <4>1, <4>2, MarkSeen
      <3>2. CASE FileOf(c.src) = Closed
        BY <1>8, <1>i, <3>2 DEF KernelClose, FileOf, Seen
      <3> QED BY <3>1, <3>2
    <2>4. Exact'
      <3> SUFFICES ASSUME NEW g \in Fds PROVE ExactAt(g)'
        BY DEF Exact
      <3>1. CASE g = c.src
        BY <2>1, <2>2, <2>3, <3>1, UntrackedFits
      <3>2. CASE g # c.src
        BY <2>1, <2>2, <2>3, <3>2, ExactAtStable DEF ExactBut
      <3> QED BY <3>1, <3>2
    <2>5. ASSUME NEW r PROVE BeforePostInv(c, r)'
      BY <2>1, <2>2, <2>4 DEF BeforePostInv, pendingDup, Tracked
    <2> QED BY <1>0, <1>8, <1>r, <1>q, <2>2, <2>5, OnePhase DEF KernelClose
  <1>9. CASE KernelWrite(t)
    <2>1. /\ c.op = "write" /\ Exact /\ ~g_pending_dup
          /\ FileOf(c.src) \in BlockedPaths => c.src \in unseen
          /\ call' = call /\ shadow' = shadow /\ Return(t, 0)
          /\ UNCHANGED <<pendingOpen, pendingDup>> /\ file' = file /\ unseen' = unseen
          /\ lastWrite' = Write("passed", FileOf(c.src), c.src \notin unseen)
      BY <1>9, <1>k DEF KernelWrite, InKernel, InKernelInv, Return
    <2>2. BeforePostInv(c, 0)'
      BY <2>1, ExactStable DEF BeforePostInv, pendingDup, Tracked
    <2>3. NoBlockedWrite' /\ NoFalseRefusal'
      BY <2>1 DEF Write, NoBlockedWrite, NoFalseRefusal
    <2> QED BY <1>0, <1>r, <2>1, <2>2, <2>3, OnePhase
  <1> QED
    BY <1>1, <1>2, <1>3, <1>4, <1>5, <1>6, <1>7, <1>8, <1>9 DEF Kernel

(* The post event closes the gap at the one descriptor the call changed.    *)
LEMMA PostStep ==
    ASSUME Sequential, FdInv, NEW t \in Threads, Post(t)
    PROVE  FdInv'
  <1> DEFINE c == call[t]
             r == res[t]
  <1>0. /\ TypeOK /\ TypeOK' /\ r \in FdArgs /\ c \in Call
        /\ shadow \in [Slots -> Entry] /\ file \in [Fds -> Paths \cup {Anon, Closed}]
    BY TypePost DEF FdInv, TypeOK
  <1>i. FdArgs \subseteq Int /\ Fds = {n \in FdArgs : n >= 0} /\ Fds \subseteq Slots
    BY FdAssumption DEF FdArgs, Fds, Slots, Sequential
  <1>b. Resume(t) /\ pc[t] = "post" /\ file' = file /\ unseen' = unseen /\ BeforePostInv(c, r)
    BY DEF Post, PostOpen, PostDup, PostOther, Resume, FdInv, PhaseInv
  <1>s. ASSUME NEW g PROVE Seen(g)' = Seen(g)
    BY <1>b DEF Seen
  <1>q. NoBlockedWrite' /\ NoFalseRefusal'
    BY <1>b DEF Resume, FdInv, NoBlockedWrite, NoFalseRefusal
  <1>e. ASSUME Exact' PROVE FdInv'
    <2>1. pc'[t] = "app"
      BY <1>0, <1>b DEF Resume, TypeOK
    <2>2. PhaseInv(t)'
      BY <1>e, <2>1 DEF PhaseInv
    <2> QED BY <1>0, <1>q, <2>2, OnePhase
  <1>1. CASE PostOpen(t)
    <2>1. c.op \in Tracked /\ r >= 0 /\ r \in Fds
      BY <1>0, <1>1, <1>i DEF PostOpen, PostIsOpen, Tracked
    <2>2. ExactBut(r) /\ file[r] # Closed /\ PendingFits(Seen(r))
      BY <1>b, <2>1 DEF BeforePostInv
    <2>3. /\ fd_shadow_get(shadow', r) = TrackedEntry(g_pending_open_path, g_pending_open_block_write)
          /\ \A g \in Fds : g # r => fd_shadow_get(shadow', g) = fd_shadow_get(shadow, g)
      <3>1. /\ r \in Int /\ r \in Slots
            /\ g_pending_open_path \in Paths \cup {ProcPath, NoPath}
            /\ g_pending_open_block_write \in BOOLEAN
        BY <1>0, <1>i, <2>1 DEF TypeOK
      <3>2. shadow' = fd_shadow_set(shadow, r, g_pending_open_path, g_pending_open_block_write)
        BY <1>1 DEF PostOpen
      <3> DEFINE s == fd_shadow_set(shadow, r, g_pending_open_path, g_pending_open_block_write)
      <3>3. shadow \in [Slots -> Entry]
        BY <1>0 DEF TypeOK
      <3>4. /\ r \in Slots => fd_shadow_get(s, r)
                                = TrackedEntry(g_pending_open_path, g_pending_open_block_write)
            /\ \A g \in Int : g # r => fd_shadow_get(s, g) = fd_shadow_get(shadow, g)
        BY <3>1, <3>3, SetLemma, Zenon
      <3>5. Fds \subseteq Int
        BY DEF Fds
      <3> HIDE DEF s
      <3> QED BY <3>1, <3>2, <3>4, <3>5 DEF s
    <2>4. ASSUME NEW g \in Fds, g = r PROVE ExactAt(g)'
      <3>0. Seen(g)' = Seen(r)
        BY <1>s, <2>4
      <3>1. CASE Seen(r) \in Paths
        <4>1. PICK f \in Paths : f = Seen(r) /\ f # Anon /\ f # Closed
          BY <3>1, PathsAssumption
        <4>2. g_pending_open_path = f /\ g_pending_open_block_write = (f \in BlockedPaths)
          BY <2>2, <4>1 DEF PendingFits
        <4>3. fd_shadow_get(shadow', g) = TrackedEntry(f, f \in BlockedPaths)
          BY <2>3, <2>4, <4>2
        <4> QED BY <3>0, <4>1, <4>3 DEF ExactAt
      <3>2. CASE Seen(r) = Anon
        <4>1. g_pending_open_path = ProcPath /\ g_pending_open_block_write = FALSE
          BY <2>2, <3>2 DEF PendingFits
        <4>2. fd_shadow_get(shadow', g) = TrackedEntry(ProcPath, FALSE)
          BY <2>3, <2>4, <4>1
        <4>3. Anon \notin Paths /\ Anon # Closed
          BY PathsAssumption DEF Anon, Closed
        <4> QED BY <3>0, <3>2, <4>2, <4>3 DEF ExactAt
      <3> QED BY <1>0, <2>1, <2>2, <3>1, <3>2 DEF Seen
    <2>5. ASSUME NEW g \in Fds, g # r PROVE ExactAt(g)'
      BY <1>s, <2>2, <2>3, <2>5, ExactAtStable DEF ExactBut
    <2> QED BY <1>e, <2>4, <2>5 DEF Exact
  <1>2. CASE PostDup(t)
    <2>1. g_pending_dup /\ r >= 0 /\ r \in Fds
      BY <1>0, <1>2, <1>i DEF PostDup, PostIsDup
    <2>2. c.op \in {"dup", "dup2", "dup3"}
      BY <1>b, <2>1 DEF BeforePostInv
    <2>3. /\ ExactBut(r) /\ c.src # r /\ c.src \in Fds /\ Seen(r) = Seen(c.src)
          /\ g_pending_dup_src = c.src /\ (g_pending_dup_has_dst => g_pending_dup_dst = r)
      BY <1>b, <2>1, <2>2 DEF BeforePostInv, DupPending
    <2>4. shadow' = fd_shadow_copy(shadow, r, c.src)
      BY <1>2, <2>3 DEF PostDup
    <2>5. /\ fd_shadow_get(shadow', r) = fd_shadow_get(shadow, c.src)
          /\ \A g \in Fds : g # r => fd_shadow_get(shadow', g) = fd_shadow_get(shadow, g)
      BY <1>0, <1>i, <2>1, <2>3, <2>4, CopyLemma
    <2>6. ASSUME NEW g \in Fds, g = r PROVE ExactAt(g)'
      <3>1. ExactAt(c.src)
        BY <2>3 DEF ExactBut
      <3>2. Seen(g)' = Seen(c.src) /\ fd_shadow_get(shadow', g) = fd_shadow_get(shadow, c.src)
        BY <1>s, <2>3, <2>5, <2>6
      <3> QED BY <3>1, <3>2 DEF ExactAt
    <2>7. ASSUME NEW g \in Fds, g # r PROVE ExactAt(g)'
      BY <1>s, <2>3, <2>5, <2>7, ExactAtStable DEF ExactBut
    <2> QED BY <1>e, <2>6, <2>7 DEF Exact
  <1>3. CASE PostOther(t)
    <2>1. ~(c.op \in Tracked /\ r >= 0)
      BY <1>3, <1>b DEF PostOther, PostIsOpen, BeforePostInv, Tracked
    <2>2. ~(c.op \in {"dup", "dup2", "dup3"} /\ r >= 0)
      BY <1>3, <1>b DEF PostOther, PostIsDup, BeforePostInv, DupPending
    <2>3. r < 0 \/ r >= 0
      <3>1. r \in Int
        BY <1>0, <1>i
      <3> HIDE DEF r
      <3> QED BY <3>1
    <2>4. Exact
      BY <1>b, <2>1, <2>2, <2>3 DEF BeforePostInv
    <2> QED BY <1>3, <1>b, <1>e, <2>4, ExactStable DEF PostOther
  <1> QED BY <1>1, <1>2, <1>3 DEF Post

(* Initially no descriptor is tracked and only nameless files are open.     *)
LEMMA FdInit == Init => FdInv
  <1> SUFFICES ASSUME Init PROVE FdInv
    OBVIOUS
  <1>1. ASSUME NEW g \in Fds PROVE ExactAt(g)
    <2>1. fd_shadow_get(shadow, g) = NoEntry
      <3>1. \A n \in Slots : ~shadow[n].in_use
        BY DEF Init, NoEntry
      <3>2. g < ShadowSize => g \in Slots
        BY FdAssumption DEF Slots, Fds
      <3> QED BY <3>1, <3>2 DEF fd_shadow_get
    <2>2. Seen(g) \in {Anon, Closed}
      BY DEF Init, Seen
    <2> QED BY <2>1, <2>2, PathsAssumption DEF ExactAt, Closed, Anon
  <1>2. \A t \in Threads : PhaseInv(t)
    BY <1>1 DEF Init, PhaseInv, Exact
  <1>3. NoBlockedWrite /\ NoFalseRefusal
    BY DEF Init, NoWrite, Write, NoBlockedWrite, NoFalseRefusal
  <1> QED BY <1>2, <1>3, TypeInit DEF FdInv

(* The invariant is inductive for a program whose calls do not overlap.     *)
THEOREM FdInvariant == ASSUME Sequential PROVE Spec => []FdInv
  <1>1. FdInv /\ [Next]_vars => FdInv'
    <2> SUFFICES ASSUME FdInv, [Next]_vars PROVE FdInv'
      OBVIOUS
    <2>1. CASE Next
      BY <2>1, PreStep, KernelStep, PostStep DEF Next
    <2>2. CASE UNCHANGED vars
      <3>1. FdInv
        OBVIOUS
      <3>2. TypeOK'
        BY <2>2, <3>1 DEF vars, pendingOpen, pendingDup, TypeOK, FdInv
      <3>3. ASSUME NEW t \in Threads PROVE PhaseInv(t)'
        <4>1. file' = file /\ unseen' = unseen /\ shadow' = shadow /\ pc' = pc /\ call' = call /\ res' = res
              /\ UNCHANGED <<pendingOpen, pendingDup>>
          BY <2>2 DEF vars
        <4>2. Exact => Exact'
          BY <4>1 DEF Exact, ExactAt, Seen
        <4>3. InKernelInv(call[t]) => InKernelInv(call[t])'
          BY <4>1, <4>2 DEF InKernelInv, ExactBut, ExactAt, PendingFits, DupPending, OpenTarget,
             SeenTarget, OpensUnseen, Seen, FileOf, pendingOpen, pendingDup
        <4>4. BeforePostInv(call[t], res[t]) => BeforePostInv(call[t], res[t])'
          BY <4>1, <4>2 DEF BeforePostInv, ExactBut, ExactAt, PendingFits, DupPending,
             Seen, pendingOpen, pendingDup
        <4> QED BY <3>1, <4>1, <4>2, <4>3, <4>4 DEF FdInv, PhaseInv
      <3>4. NoBlockedWrite' /\ NoFalseRefusal'
        BY <2>2, <3>1 DEF vars, FdInv, NoBlockedWrite, NoFalseRefusal
      <3> QED BY <3>2, <3>3, <3>4 DEF FdInv
    <2> QED BY <2>1, <2>2
  <1> QED BY <1>1, FdInit, PTL DEF Spec

(* For a program whose calls do not overlap, with as many descriptors as    *)
(* the table has slots and without the three unusual calls, g_fd_shadow     *)
(* agrees with what the filter can know of the kernel's descriptor table    *)
(* whenever no call is in progress.                                         *)
THEOREM TrackingIsExact ==
    ASSUME Sequential, NEW t \in Threads PROVE Spec => []TrackingExact
  <1>1. FdInv => TrackingExact
    BY DEF FdInv, PhaseInv, Exact, TrackingExact, Quiescent
  <1> QED BY <1>1, FdInvariant, PTL

(* Under the same conditions a write to a file of a blocked path reaches    *)
(* the kernel only through a descriptor that descends from an openat2 or    *)
(* from an open under a name the rule does not match: every chain of dup,   *)
(* fcntl, dup2, dup3 and /proc/self/fd from any other descriptor is guarded.*)
THEOREM BlockedFilesUnwritten == ASSUME Sequential PROVE Spec => []NoBlockedWrite
  <1>1. FdInv => NoBlockedWrite
    BY DEF FdInv
  <1> QED BY <1>1, FdInvariant, PTL

(* Under the same conditions a write is refused for its descriptor only if  *)
(* the file behind it is one the policy blocks.                             *)
THEOREM RefusalsJustified == ASSUME Sequential PROVE Spec => []NoFalseRefusal
  <1>1. FdInv => NoFalseRefusal
    BY DEF FdInv
  <1> QED BY <1>1, FdInvariant, PTL
=============================================================================
