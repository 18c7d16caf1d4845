------------------------------ MODULE FdShadow ------------------------------
(***************************************************************************)
(* The descriptor shadow table of src/syscall_filter.c.                    *)
(*                                                                         *)
(* DR_FD_WRITE_POLICY attaches "no write" to paths.  The filter sees paths *)
(* only when a file is opened; write() carries a descriptor.  So it keeps  *)
(* g_fd_shadow, its own copy of "which path is behind this descriptor", and*)
(* maintains it from the two events DynamoRIO delivers around every system *)
(* call: event_pre_syscall (what the application asks for) and             *)
(* event_post_syscall (what the kernel answered).  What the pre event      *)
(* learned is handed to the post event through global variables that all   *)
(* application threads share.                                              *)
(*                                                                         *)
(* A call of thread t is three steps: a Pre action, a Kernel action and a  *)
(* Post action.  A call the filter refuses never reaches the kernel, and no*)
(* post event is delivered for it.                                         *)
(***************************************************************************)
EXTENDS Integers

CONSTANTS
    Threads,              \* application threads
    Paths,                \* paths the application opens (strings)
    BlockedPaths,         \* the paths DR_FD_WRITE_POLICY blocks
    MaxFd,                \* descriptors are 0..MaxFd (RLIMIT_NOFILE - 1)
    ShadowSize,           \* entries of g_fd_shadow (1024 in the code)
    Inherited,            \* descriptors open when the program starts
    g_stdio_only_writes,  \* DR_STDIO_ONLY_WRITES
    AppMay                \* unusual calls this application makes, see AppCalls

(***************************************************************************)
(* Calls every program makes are always possible.  These three are switched*)
(* on per instance: dup2/dup3 of a descriptor onto itself, dup2/dup3 from a*)
(* descriptor that is not open, and close_range.                           *)
(***************************************************************************)
AppCalls == {"dup_self", "dup_bad_source", "close_range"}

Fds     == 0..MaxFd
FdArgs  == -1..MaxFd      \* -1: the error value a program may pass on
Slots   == 0..(ShadowSize - 1)

Closed   == "closed"      \* no file behind this descriptor
Anon     == "anon"        \* a file no path names: pipe, socket, inherited
ProcPath == "/proc/self/fd/"   \* also: any other name no rule matches
NoPath   == ""

ASSUME PathsAssumption ==
    /\ BlockedPaths \subseteq Paths
    /\ Closed \notin Paths /\ Anon \notin Paths
    /\ ProcPath \notin Paths /\ NoPath \notin Paths
ASSUME FdAssumption ==
    /\ MaxFd \in Nat
    /\ ShadowSize \in Nat \ {0}
    /\ Inherited \subseteq Fds
ASSUME FlagAssumption == g_stdio_only_writes \in BOOLEAN /\ AppMay \subseteq AppCalls

VARIABLES
    file,                                     \* kernel: file behind each fd
    shadow,                                   \* g_fd_shadow
    g_pending_open, g_pending_open_path, g_pending_open_block_write,
    g_pending_dup, g_pending_dup_src, g_pending_dup_dst, g_pending_dup_has_dst,
    pc, call, res,                            \* per thread: phase, call, result
    unseen,                                   \* history: fds opened past the filter
    lastWrite                                 \* history: fate of the last write()

pendingOpen == <<g_pending_open, g_pending_open_path, g_pending_open_block_write>>
pendingDup  == <<g_pending_dup, g_pending_dup_src, g_pending_dup_dst, g_pending_dup_has_dst>>
vars == <<file, shadow, pendingOpen, pendingDup, pc, call, res, unseen, lastWrite>>

Entry   == [in_use : BOOLEAN, block_write : BOOLEAN, path : Paths \cup {ProcPath, NoPath}]
NoEntry == [in_use |-> FALSE, block_write |-> FALSE, path |-> NoPath]

(* "open" under the name the policy rules use or /proc/self/fd/N itself,    *)
(* "open_other" under any other name of the same file, "openat2" under any. *)
Opens == {"open", "open_other", "openat2"}
Ops  == Opens \cup {"dup", "dup2", "dup3", "close", "write", "create",
                    "close_range", "other", "none"}
Call == {c \in [op : Ops, path : Paths \cup {ProcPath, NoPath}, src : FdArgs, dst : FdArgs] :
            c.op \in Opens => c.path # NoPath}
MkCall(op, path, src, dst) == [op |-> op, path |-> path, src |-> src, dst |-> dst]
NoCall == MkCall("none", NoPath, -1, -1)

Write(fate, on, seen) == [fate |-> fate, on |-> on, seen |-> seen]
NoWrite == Write("none", Closed, TRUE)

-----------------------------------------------------------------------------
(* The table's operations.  A table is a function on Slots.                 *)

TrackedEntry(path, block_write) ==
    [in_use |-> TRUE, block_write |-> block_write, path |-> path]

fd_shadow_clear(s, fd) ==
    IF fd >= 0 /\ fd < ShadowSize THEN [s EXCEPT ![fd] = NoEntry] ELSE s

(* Without the upper bound check a store behind the array adds an entry.    *)
fd_shadow_set_unbounded(s, fd, path, block_write) ==
    [n \in Slots \cup {fd} |->
        IF n = fd THEN TrackedEntry(path, block_write) ELSE s[n]]

fd_shadow_set(s, fd, path, block_write) ==
    IF fd < 0 \/ fd >= ShadowSize
    THEN s
    ELSE [s EXCEPT ![fd] = TrackedEntry(path, block_write)]

(* NULL is the entry that is not in use.                                    *)
fd_shadow_get(s, fd) ==
    IF fd >= 0 /\ fd < ShadowSize /\ s[fd].in_use THEN s[fd] ELSE NoEntry

(* A copy that drops the write rule of its source.                          *)
fd_shadow_copy_path_only(s, dst, src) ==
    LET e == fd_shadow_get(s, src)
    IN  IF e.in_use THEN fd_shadow_set(s, dst, e.path, FALSE)
                    ELSE fd_shadow_clear(s, dst)

fd_shadow_copy(s, dst, src) ==
    LET e == fd_shadow_get(s, src)
    IN  IF e.in_use THEN fd_shadow_set(s, dst, e.path, e.block_write)
                    ELSE fd_shadow_clear(s, dst)

(* fd_write_policy_for(path) == PATH_POLICY_BLOCK, abstracted to membership;*)
(* no rule matches ProcPath.                                                *)
fd_write_policy_blocks(path) == path \in BlockedPaths

-----------------------------------------------------------------------------
(* The kernel's descriptor table.                                           *)

FileOf(fd) == IF fd \in Fds THEN file[fd] ELSE Closed

(* The filter learns names from the text of open, openat and creat.  A file *)
(* opened by openat2, or under a name whose text no rule matches (a link, a *)
(* relative name, /proc/self/./fd/N, /dev/fd/N), is nameless to it.         *)
Seen(fd) == IF fd \in unseen /\ file[fd] # Closed THEN Anon ELSE file[fd]

(* fd is what a call that allocates a descriptor >= min returns.            *)
LowestFree(fd, min) ==
    /\ fd \in Fds /\ fd >= min /\ file[fd] = Closed
    /\ \A g \in Fds : g >= min /\ g < fd => file[g] # Closed

-----------------------------------------------------------------------------
Init ==
    /\ file = [fd \in Fds |-> IF fd \in Inherited THEN Anon ELSE Closed]
    /\ shadow = [n \in Slots |-> NoEntry]
    /\ g_pending_open = FALSE /\ g_pending_open_path = NoPath
    /\ g_pending_open_block_write = FALSE
    /\ g_pending_dup = FALSE /\ g_pending_dup_src = 0
    /\ g_pending_dup_dst = 0 /\ g_pending_dup_has_dst = FALSE
    /\ pc = [t \in Threads |-> "app"]
    /\ call = [t \in Threads |-> NoCall]
    /\ res = [t \in Threads |-> -1]
    /\ unseen = {}
    /\ lastWrite = NoWrite

-----------------------------------------------------------------------------
(* event_pre_syscall.  Whatever the call is, the event first forgets what   *)
(* any earlier call, of any thread, left pending.  The code clears only the *)
(* two flags; the other fields are read only under their flag and written   *)
(* with it, so the model returns them to their initial values.              *)

ForgetOpen ==
    /\ g_pending_open' = FALSE
    /\ g_pending_open_path' = NoPath /\ g_pending_open_block_write' = FALSE
ForgetDup ==
    /\ g_pending_dup' = FALSE
    /\ g_pending_dup_src' = 0 /\ g_pending_dup_dst' = 0
    /\ g_pending_dup_has_dst' = FALSE

RememberOpen(path, block_write) ==
    /\ g_pending_open' = TRUE
    /\ g_pending_open_path' = path
    /\ g_pending_open_block_write' = block_write
RememberDup(src, dst, has_dst) ==
    /\ g_pending_dup' = TRUE
    /\ g_pending_dup_src' = src
    /\ g_pending_dup_dst' = dst
    /\ g_pending_dup_has_dst' = has_dst

(* The pre event returns true: the kernel executes c.                       *)
Allow(t, c) ==
    /\ pc[t] = "app"
    /\ pc' = [pc EXCEPT ![t] = "kernel"]
    /\ call' = [call EXCEPT ![t] = c]
    /\ UNCHANGED <<file, unseen, res>>

(* The pre event returns false: the application sees an error.              *)
Refuse(t) ==
    /\ pc[t] = "app"
    /\ UNCHANGED <<file, unseen, pc, call, res>>

(* The call is refused before anything is remembered: the CPU budget, a     *)
(* blocked or read-only path, a system call the mode does not allow.        *)
PreRefused(t) ==
    /\ Refuse(t) /\ ForgetOpen /\ ForgetDup
    /\ UNCHANGED shadow /\ lastWrite' = NoWrite

PreOpen(t, path) ==
    /\ Allow(t, MkCall("open", path, -1, -1))
    /\ RememberOpen(path, fd_write_policy_blocks(path)) /\ ForgetDup
    /\ UNCHANGED shadow /\ lastWrite' = NoWrite

(* An open whose private path cannot be installed is refused after the      *)
(* filter has set g_pending_open.                                           *)
PreOpenRemapFails(t, path) ==
    /\ Refuse(t)
    /\ RememberOpen(path, fd_write_policy_blocks(path)) /\ ForgetDup
    /\ UNCHANGED shadow /\ lastWrite' = NoWrite

(* open("/proc/self/fd/<src>"): a tracked source hands its path and its     *)
(* write rule on, an untracked one leaves the /proc name.  The first form   *)
(* hands on the path only.                                                  *)
PreOpenProcFlagLost(t, src) ==
    LET e == fd_shadow_get(shadow, src)
    IN  /\ Allow(t, MkCall("open", ProcPath, src, -1))
        /\ RememberOpen(IF e.in_use THEN e.path ELSE ProcPath, FALSE)
        /\ ForgetDup
        /\ UNCHANGED shadow /\ lastWrite' = NoWrite

PreOpenProc(t, src) ==
    LET e == fd_shadow_get(shadow, src)
    IN  /\ Allow(t, MkCall("open", ProcPath, src, -1))
        /\ RememberOpen(IF e.in_use THEN e.path ELSE ProcPath,
                        IF e.in_use THEN e.block_write
                                    ELSE fd_write_policy_blocks(ProcPath))
        /\ ForgetDup
        /\ UNCHANGED shadow /\ lastWrite' = NoWrite

(* An open under another name of the file: the path is a file's, or ProcPath*)
(* for another spelling of /proc/self/fd/<src>, which proc_self_fd_target   *)
(* does not recognise.  The filter tracks the name it was given.            *)
PreOpenOtherName(t, path, src) ==
    /\ Allow(t, MkCall("open_other", path, src, -1))
    /\ RememberOpen(ProcPath, fd_write_policy_blocks(ProcPath)) /\ ForgetDup
    /\ UNCHANGED shadow /\ lastWrite' = NoWrite

(* openat2 is in no list of the filter: observe mode passes it, strict mode *)
(* refuses it (PreRefused).                                                 *)
PreOpenat2(t, path) ==
    /\ Allow(t, MkCall("openat2", path, -1, -1))
    /\ ForgetOpen /\ ForgetDup
    /\ UNCHANGED shadow /\ lastWrite' = NoWrite

(* dup(src), and fcntl(src, F_DUPFD or F_DUPFD_CLOEXEC, min).               *)
PreDup(t, src, min) ==
    /\ Allow(t, MkCall("dup", NoPath, src, min))
    /\ RememberDup(src, -1, FALSE) /\ ForgetOpen
    /\ UNCHANGED shadow /\ lastWrite' = NoWrite

(* dup2 and dup3: the target's entry is dropped before the kernel decides.  *)
PreDupOnto(t, op, src, dst) ==
    /\ src = dst => "dup_self" \in AppMay
    /\ FileOf(src) = Closed => "dup_bad_source" \in AppMay
    /\ Allow(t, MkCall(op, NoPath, src, dst))
    /\ RememberDup(src, dst, TRUE) /\ ForgetOpen
    /\ shadow' = fd_shadow_clear(shadow, dst)
    /\ lastWrite' = NoWrite

(* A close that leaves the entry for the descriptor's next owner.           *)
PreCloseKeepsEntry(t, fd) ==
    /\ Allow(t, MkCall("close", NoPath, fd, -1))
    /\ ForgetOpen /\ ForgetDup
    /\ UNCHANGED shadow /\ lastWrite' = NoWrite

PreClose(t, fd) ==
    /\ Allow(t, MkCall("close", NoPath, fd, -1))
    /\ ForgetOpen /\ ForgetDup
    /\ shadow' = fd_shadow_clear(shadow, fd)
    /\ lastWrite' = NoWrite

(* write, writev, pwrite64, after the output limit has let the call pass.   *)
WriteBlocked(fd) == fd_shadow_get(shadow, fd).block_write
NotStdio(fd)     == g_stdio_only_writes /\ fd \notin {1, 2}

PreWriteBlocked(t, fd) ==
    /\ WriteBlocked(fd)
    /\ Refuse(t) /\ ForgetOpen /\ ForgetDup
    /\ lastWrite' = Write("refused", FileOf(fd), fd \notin unseen)
    /\ UNCHANGED shadow

PreWriteNotStdio(t, fd) ==
    /\ ~WriteBlocked(fd) /\ NotStdio(fd)
    /\ Refuse(t) /\ ForgetOpen /\ ForgetDup
    /\ UNCHANGED shadow /\ lastWrite' = NoWrite

PreWrite(t, fd) ==
    /\ ~WriteBlocked(fd) /\ ~NotStdio(fd)
    /\ Allow(t, MkCall("write", NoPath, fd, -1))
    /\ ForgetOpen /\ ForgetDup
    /\ UNCHANGED shadow /\ lastWrite' = NoWrite

(* Calls the filter does not relate to the table: pipe2, socket and the     *)
(* like ("create"), close_range, and everything else ("other").             *)
PreUntracked(t, op) ==
    /\ op = "close_range" => op \in AppMay
    /\ Allow(t, MkCall(op, NoPath, -1, -1))
    /\ ForgetOpen /\ ForgetDup
    /\ UNCHANGED shadow /\ lastWrite' = NoWrite

-----------------------------------------------------------------------------
(* fd gets a new file, opened past the filter or not.                       *)
Mark(fd, b) == IF b THEN unseen \cup {fd} ELSE unseen \ {fd}

(* The kernel executes the call.  External: modelled from the results the   *)
(* post event relies on.                                                    *)

Return(t, r) ==
    /\ pc' = [pc EXCEPT ![t] = "post"]
    /\ res' = [res EXCEPT ![t] = r]
    /\ UNCHANGED <<shadow, pendingOpen, pendingDup, call>>

InKernel(t, ops) == pc[t] = "kernel" /\ call[t].op \in ops

(* Any call may fail without an effect, except those the kernel decides from*)
(* the descriptor table alone.                                              *)
KernelFails(t) ==
    /\ InKernel(t, Opens \cup {"dup", "create", "other", "write", "close_range"})
    /\ Return(t, -1)
    /\ UNCHANGED <<file, unseen, lastWrite>>

OpenTarget(c) == IF c.path = ProcPath THEN FileOf(c.src) ELSE c.path

(* /proc/self/fd/N of a descriptor opened past the filter stays past it.    *)
OpensUnseen(c) == c.op # "open" \/ (c.path = ProcPath /\ c.src \in unseen)

KernelOpen(t, fd) ==
    /\ InKernel(t, Opens)
    /\ LowestFree(fd, 0) /\ OpenTarget(call[t]) # Closed
    /\ file' = [file EXCEPT ![fd] = OpenTarget(call[t])]
    /\ unseen' = Mark(fd, OpensUnseen(call[t]))
    /\ Return(t, fd)
    /\ UNCHANGED lastWrite

KernelCreate(t, fd) ==
    /\ InKernel(t, {"create"})
    /\ LowestFree(fd, 0)
    /\ file' = [file EXCEPT ![fd] = Anon] /\ unseen' = Mark(fd, FALSE)
    /\ Return(t, fd)
    /\ UNCHANGED lastWrite

KernelDup(t, fd) ==
    /\ InKernel(t, {"dup"})
    /\ LowestFree(fd, call[t].dst) /\ FileOf(call[t].src) # Closed
    /\ file' = [file EXCEPT ![fd] = FileOf(call[t].src)]
    /\ unseen' = Mark(fd, call[t].src \in unseen)
    /\ Return(t, fd)
    /\ UNCHANGED lastWrite

DupOntoWorks(c) ==
    /\ FileOf(c.src) # Closed /\ c.dst \in Fds
    /\ c.op = "dup3" => c.src # c.dst

KernelDupOnto(t) ==
    /\ InKernel(t, {"dup2", "dup3"})
    /\ LET c == call[t]
       IN  IF DupOntoWorks(c)
           THEN /\ Return(t, c.dst)
                /\ file' = [file EXCEPT ![c.dst] = FileOf(c.src)]
                /\ unseen' = Mark(c.dst, c.src \in unseen)
           ELSE Return(t, -1) /\ UNCHANGED <<file, unseen>>
    /\ UNCHANGED lastWrite

KernelClose(t) ==
    /\ InKernel(t, {"close"})
    /\ LET fd == call[t].src
       IN  IF FileOf(fd) # Closed
           THEN /\ Return(t, 0)
                /\ file' = [file EXCEPT ![fd] = Closed] /\ unseen' = Mark(fd, FALSE)
           ELSE Return(t, -1) /\ UNCHANGED <<file, unseen>>
    /\ UNCHANGED lastWrite

KernelCloseRange(t, first) ==
    /\ InKernel(t, {"close_range"})
    /\ file' = [fd \in Fds |-> IF fd >= first THEN Closed ELSE file[fd]]
    /\ unseen' = {fd \in unseen : fd < first}
    /\ Return(t, 0)
    /\ UNCHANGED lastWrite

KernelWrite(t) ==
    /\ InKernel(t, {"write"}) /\ FileOf(call[t].src) # Closed
    /\ lastWrite' = Write("passed", FileOf(call[t].src), call[t].src \notin unseen)
    /\ Return(t, 0)
    /\ UNCHANGED <<file, unseen>>

KernelOther(t, r) ==
    /\ InKernel(t, {"other"})
    /\ Return(t, r)
    /\ UNCHANGED <<file, unseen, lastWrite>>

-----------------------------------------------------------------------------
(* event_post_syscall.  The open branch looks at the call's own number, the *)
(* dup branch only at the shared flag.                                      *)

Resume(t) ==
    /\ pc[t] = "post"
    /\ pc' = [pc EXCEPT ![t] = "app"]
    /\ call' = [call EXCEPT ![t] = NoCall]
    /\ res' = [res EXCEPT ![t] = -1]
    /\ UNCHANGED <<file, unseen, pendingOpen, pendingDup, lastWrite>>

PostIsOpen(t) == call[t].op \in {"open", "open_other"} /\ g_pending_open /\ res[t] >= 0
PostIsDup(t)  == ~PostIsOpen(t) /\ g_pending_dup /\ res[t] >= 0

PostOpen(t) ==
    /\ Resume(t) /\ PostIsOpen(t)
    /\ shadow' = fd_shadow_set(shadow, res[t], g_pending_open_path,
                               g_pending_open_block_write)

PostDup(t) ==
    /\ Resume(t) /\ PostIsDup(t)
    /\ LET dst == IF g_pending_dup_has_dst THEN g_pending_dup_dst ELSE res[t]
       IN  shadow' = fd_shadow_copy(shadow, dst, g_pending_dup_src)

PostOther(t) ==
    /\ Resume(t) /\ ~PostIsOpen(t) /\ ~PostIsDup(t)
    /\ UNCHANGED shadow

-----------------------------------------------------------------------------
Pre(t) ==
    \/ PreRefused(t)
    \/ \E path \in Paths : PreOpen(t, path) \/ PreOpenRemapFails(t, path)
    \/ \E path \in Paths : PreOpenOtherName(t, path, -1) \/ PreOpenat2(t, path)
    \/ \E fd \in FdArgs :
          \/ PreClose(t, fd) \/ PreWrite(t, fd)
          \/ PreWriteBlocked(t, fd) \/ PreWriteNotStdio(t, fd)
    \/ \E src \in Fds : PreOpenProc(t, src) \/ PreOpenOtherName(t, ProcPath, src)
    \/ \E src \in FdArgs, min \in Fds : PreDup(t, src, min)
    \/ \E op \in {"dup2", "dup3"}, src, dst \in FdArgs : PreDupOnto(t, op, src, dst)
    \/ \E op \in {"create", "close_range", "other"} : PreUntracked(t, op)

Kernel(t) ==
    \/ KernelFails(t)
    \/ \E fd \in Fds :
          \/ KernelOpen(t, fd) \/ KernelCreate(t, fd) \/ KernelDup(t, fd)
          \/ KernelCloseRange(t, fd) \/ KernelOther(t, fd)
    \/ KernelDupOnto(t) \/ KernelClose(t) \/ KernelWrite(t)

Post(t) == PostOpen(t) \/ PostDup(t) \/ PostOther(t)

Next == \E t \in Threads : Pre(t) \/ Kernel(t) \/ Post(t)

Spec == Init /\ [][Next]_vars

-----------------------------------------------------------------------------
(* Type invariant of the table, the pending globals and the kernel's table. *)
TypeOK ==
    /\ file \in [Fds -> Paths \cup {Anon, Closed}]
    /\ shadow \in [Slots -> Entry]
    /\ g_pending_open \in BOOLEAN
    /\ g_pending_open_path \in Paths \cup {ProcPath, NoPath}
    /\ g_pending_open_block_write \in BOOLEAN
    /\ g_pending_dup \in BOOLEAN /\ g_pending_dup_has_dst \in BOOLEAN
    /\ g_pending_dup_src \in FdArgs /\ g_pending_dup_dst \in FdArgs
    /\ pc \in [Threads -> {"app", "kernel", "post"}]
    /\ call \in [Threads -> Call]
    /\ res \in [Threads -> FdArgs]
    /\ unseen \subseteq Fds
    /\ lastWrite \in [fate : {"none", "passed", "refused"}, on : Paths \cup {Anon, Closed},
                      seen : BOOLEAN]

(* The entry of descriptor fd says exactly what the filter could learn of   *)
(* the file behind it.  A nameless one is not entered, or entered under a   *)
(* name that carries no rule.                                               *)
ExactAt(fd) ==
    LET e == fd_shadow_get(shadow, fd)
    IN  /\ Seen(fd) \in Paths  => e = TrackedEntry(Seen(fd), Seen(fd) \in BlockedPaths)
        /\ Seen(fd) = Anon     => e \in {NoEntry, TrackedEntry(ProcPath, FALSE)}
        /\ Seen(fd) = Closed   => e = NoEntry

Quiescent == \A t \in Threads : pc[t] = "app"

(* Whenever no call is in progress, g_fd_shadow agrees with the kernel's    *)
(* descriptor table on every descriptor whose file was opened by open,      *)
(* openat or creat under the name the rules use or under /proc/self/fd/N of *)
(* such a descriptor, whatever sequence of open, dup, fcntl, close and      *)
(* refused calls led there; every other descriptor carries no rule.         *)
TrackingExact == Quiescent => \A fd \in Fds : ExactAt(fd)

(* Whenever no call is in progress, a descriptor opened under a name the    *)
(* write policy blocks carries that rule in g_fd_shadow: the rule survives  *)
(* every descriptor transformation.                                         *)
PolicyAttached ==
    Quiescent => \A fd \in Fds :
        Seen(fd) \in BlockedPaths => fd_shadow_get(shadow, fd).block_write

(* A write() on a file of a blocked path reaches the kernel only through a  *)
(* descriptor that descends from an openat2 or from an open under a name the*)
(* rule does not match: the copies and /proc/self/fd reopenings of all other*)
(* descriptors stay guarded, though such writes happen beside them.         *)
NoBlockedWrite ==
    lastWrite.fate = "passed" /\ lastWrite.on \in BlockedPaths => ~lastWrite.seen

(* event_pre_syscall refuses a write for its fd only when the file behind   *)
(* the descriptor is one the policy blocks.                                 *)
NoFalseRefusal == lastWrite.fate = "refused" => lastWrite.on \in BlockedPaths

(* The write rule of an entry is the rule of the path in the same entry: a  *)
(* copy or a /proc reopening never mixes the path of one with the rule of   *)
(* another.                                                                 *)
EntryConsistent ==
    \A n \in Slots : shadow[n].block_write <=> shadow[n].path \in BlockedPaths
=============================================================================
