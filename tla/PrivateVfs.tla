---------------------------- MODULE PrivateVfs ----------------------------
(***************************************************************************)
(* The private scratch file system of src/syscall_filter.c: path calls on  *)
(* scratch names are redirected into /tmp/dr-sandbox/<session>/, a part of *)
(* the one kernel tree.                                                    *)
(*                                                                         *)
(* The application is one thread.  It makes a call; in the next step the   *)
(* pre event decides on the path as written (PathPolicy), rewrites it and  *)
(* may create directories, and the kernel executes the call.  chdir passes *)
(* unchanged.  exec starts the client anew in the same process.            *)
(***************************************************************************)
EXTENDS FileTree, FiniteSets

CONSTANTS
    MaxParts, MaxRules, DR_PATH_POLICY, g_redirect_tmp, g_mode, CacheLike,
    DR_SESSION_ID,  \* from the environment, or "" if it is not set
    FreshIds,       \* ids made of process id and time when it is not set
    AppNodes,       \* nodes an application can name
    AppPaths,       \* paths the application uses in the calls with paths
    ChdirPaths,     \* paths the application changes its directory to
    SharedTree,     \* the tree before the session, on AppNodes
    StartDir        \* the directory the application is started in

VARIABLES
    kernel,        \* the kernel's tree
    cwd,           \* the application's current directory
    call, reply,   \* its call in progress, or the answer to its last call
    g_session_id

vars == <<kernel, cwd, call, reply, g_session_id>>

AppCalls ==
    {[op |-> o, p |-> p] : o \in OnePath, p \in AppPaths}
        \cup {[op |-> "rename", p |-> p, q |-> q] : p \in AppPaths, q \in AppPaths}
        \cup {[op |-> "chdir", p |-> p] : p \in ChdirPaths}
        \cup {[op |-> "exec"]}

NoCall == [op |-> "none"]

Policy == INSTANCE PathPolicy WITH path <- StartDir, Components <- {}, MaxLen <- 0

SessionIds == IF DR_SESSION_ID = "" THEN FreshIds ELSE {DR_SESSION_ID}
SANDBOX_BASE == <<"tmp", "dr-sandbox">>
g_sandbox_root == Append(SANDBOX_BASE, g_session_id)

KernelNodes ==
    AppNodes \cup {SANDBOX_BASE}
        \cup {Append(SANDBOX_BASE, s) \o n : s \in SessionIds \cup FreshIds, n \in AppNodes}

-----------------------------------------------------------------------------
ensure_private_dirs(tree, root) ==
    MakeDirs(tree, <<>>,
             << Absolute(SANDBOX_BASE), Absolute(root), Absolute(root \o <<"tmp">>),
                Absolute(root \o <<"var">>), Absolute(root \o <<"var", "tmp">>) >>)

(* dr_client_main: the session's id, its root, its directories.             *)
Init ==
    /\ g_session_id \in SessionIds
    /\ kernel = ensure_private_dirs(
                    [n \in KernelNodes |-> IF n \in AppNodes THEN SharedTree[n] ELSE "none"],
                    g_sandbox_root)
    /\ cwd = StartDir
    /\ call = NoCall /\ reply = "ok"

Invoke(c) ==
    /\ call = NoCall /\ call' = c /\ reply' = "none"
    /\ UNCHANGED <<kernel, cwd, g_session_id>>

-----------------------------------------------------------------------------
(* The path is appended to the root as it was written: leading slashes go,  *)
(* dots stay, and a relative path is not joined to the current directory.   *)
remap_path(p) == Absolute(g_sandbox_root \o p.comps)


ensure_parent_dirs(p) == MakeParents(kernel, cwd, p, Len(g_sandbox_root))

(* What a call finds when the pre event has let it pass.                    *)
Rewritten(p, verdict) == IF verdict = "remap" THEN remap_path(p) ELSE p

Prepared(p, verdict, ensure) ==
    IF verdict = "remap" /\ ensure THEN ensure_parent_dirs(remap_path(p)) ELSE kernel

Answer(result) ==
    /\ kernel' = result.tree /\ reply' = result.reply
    /\ call' = NoCall /\ UNCHANGED <<cwd, g_session_id>>

(* One path argument.  The buffer for the rewritten path, or the kernel,    *)
(* may run out of space when the directories have been created.             *)
Respond(verdict, ensure) ==
    LET tree == Prepared(call.p, verdict, ensure)
    IN  IF verdict \in Policy!Errors THEN Answer(Failed(kernel))
        ELSE \/ Answer(Effect(call.op, tree, Walk(tree, cwd, Rewritten(call.p, verdict))))
             \/ Answer(OutOfSpace(tree))

-----------------------------------------------------------------------------
(* The verdicts depend on the configuration only.                           *)
OpenVerdict == [p \in AppPaths, write_intent \in BOOLEAN |-> Policy!OpenVerdict(p, write_intent)]
ArgumentVerdict ==
    [arg \in Policy!PathArguments, p \in AppPaths |-> Policy!ArgumentVerdict(arg, p)]

Open ==
    LET write_intent == call.op \in Writing
    IN  call.op \in Opens /\ Respond(OpenVerdict[call.p, write_intent], write_intent)

PathCall ==
    /\ call.op \in OnePath \ Opens
    /\ Respond(ArgumentVerdict[<<call.op, 1>>, call.p], Policy!PathCalls[call.op][1])


RenameTarget(verdict) == Rewritten(call.q, verdict)

RenameCall ==
    /\ call.op = "rename"
    /\ LET old == ArgumentVerdict[<<"rename", 1>>, call.p]
           new == ArgumentVerdict[<<"rename", 2>>, call.q]
           tree == Prepared(call.q, new, TRUE)
           n == Walk(tree, cwd, Rewritten(call.p, old))
           m == Walk(tree, cwd, RenameTarget(new))
       IN  \/ old = "remap" /\ Answer(OutOfSpace(kernel))
           \/ IF {old, new} \cap Policy!Errors # {} THEN Answer(Failed(kernel))
              ELSE \/ Fits(tree, n, m) /\ Answer(Rename(tree, n, m))
                   \/ Answer(OutOfSpace(tree))

(* chdir is none of the calls the filter rewrites; observe mode lets it     *)
(* pass.                                                                    *)
Chdir ==
    LET n == Walk(kernel, cwd, call.p)
        ok == g_mode = "observe" /\ Exists(kernel, n) /\ kernel[n] = "dir"
    IN  /\ call.op = "chdir" /\ call' = NoCall
        /\ cwd' = IF ok THEN n ELSE cwd
        /\ reply' = IF ok THEN "ok" ELSE "error"
        /\ UNCHANGED <<kernel, g_session_id>>

(* execve that DR_EXEC lets pass: dr_client_main runs again.                *)
Exec ==
    /\ call.op = "exec" /\ call' = NoCall /\ reply' = "ok"
    /\ g_session_id' \in SessionIds
    /\ kernel' = ensure_private_dirs(kernel, Append(SANDBOX_BASE, g_session_id'))
    /\ UNCHANGED cwd

Next ==
    \/ \E c \in AppCalls : Invoke(c)
    \/ Open \/ PathCall \/ RenameCall \/ Chdir \/ Exec

Spec == Init /\ [][Next]_vars

-----------------------------------------------------------------------------
PolicyOf == [n \in KernelNodes |-> Policy!effective_path_policy_for(Absolute(n))]
Scratch(n) == PolicyOf[n] = "private"

(* The file system the application sees.                                    *)
Seen == [n \in AppNodes |-> IF Scratch(n) THEN kernel[g_sandbox_root \o n] ELSE kernel[n]]

Fs == INSTANCE ScratchFs WITH
    fs <- Seen, Nodes <- AppNodes, Calls <- AppCalls,
    Rule <- PolicyOf,
    ScratchDirs <- << Absolute(<<"tmp">>), Absolute(<<"var", "tmp">>) >>

(* Names the filter and the kernel read alike: a redirected name is absolute*)
(* and never climbs above "/" on its way (its text is joined to the root as *)
(* it is), any other name leads to no scratch node (that of a chdir does so,*)
(* and then every relative name).                                           *)
Climbs(p) ==
    \E i \in 1..Len(p.comps) :
        LET Ups == {j \in 1..i : p.comps[j] = ".."}
            Downs == {j \in 1..i : p.comps[j] \notin {"", ".", ".."}}
        IN  Cardinality(Ups) > Cardinality(Downs)

Redirected == {p \in AppPaths : Policy!effective_path_policy_for(p) = "private"}
JoinedWell == {p \in Redirected : p.abs /\ ~Climbs(p)}

ReadAlike(p) ==
    IF call.op # "chdir" /\ p \in Redirected THEN p \in JoinedWell
    ELSE ~Scratch(NameOf(cwd, p))

PathsOf(c) == {c[f] : f \in {"p", "q"} \cap DOMAIN c}
CallReadAlike == \A p \in PathsOf(call) : ReadAlike(p)


Private(n) == IsPrefix(g_sandbox_root, n)


(* README.md on the action ro: it "blocks write-intent opens and mutating   *)
(* path ops".  So no call changes what a read-only name stands for.         *)
ReadOnlyKept ==
    [][\A n \in KernelNodes : PolicyOf[n] = "readonly" => kernel'[n] = kernel[n]]_vars
=============================================================================
