----------------------------- MODULE ScratchFs -----------------------------
(***************************************************************************)
(* What the private scratch areas promise an application: it sees one file *)
(* system.  Some names are scratch: they start out empty, and a call that  *)
(* creates something there creates the directories above it too.  A rule   *)
(* may refuse a name, or every call that changes it.                       *)
(*                                                                         *)
(* The application makes a call, then the call is answered.                *)
(***************************************************************************)
EXTENDS FileTree

CONSTANTS
    Nodes,        \* the nodes an application can name
    Rule,         \* Rule[n] is "block", "readonly", "private" or "pass"
    ScratchDirs,  \* scratch directories a session starts with, a sequence
    Calls         \* the calls the application makes: [op, p, q]

VARIABLES fs, cwd, call, reply

fsVars == <<fs, cwd, call, reply>>

NoCall == [op |-> "none"]

Init ==
    /\ fs \in [Nodes -> {"none", "dir", "empty", "text"}]
    /\ \A n \in Nodes : Rule[n] = "private" =>
          fs[n] = IF Contains(ScratchDirs, Absolute(n)) THEN "dir" ELSE "none"
    /\ fs[cwd] = "dir"
    /\ call = NoCall /\ reply = "ok"

Invoke(c) ==
    /\ call = NoCall /\ call' = c /\ reply' = "none"
    /\ UNCHANGED <<fs, cwd>>

Answer(result) ==
    /\ fs' = result.tree /\ reply' = result.reply
    /\ call' = NoCall /\ UNCHANGED cwd

-----------------------------------------------------------------------------
Refused(p, changes) ==
    \/ Rule[NameOf(cwd, p)] = "block"
    \/ Rule[NameOf(cwd, p)] = "readonly" /\ changes

(* The tree a call finds: with the directories above a scratch name it is   *)
(* to create.                                                               *)
Prepared(p, creates) ==
    IF creates /\ Rule[NameOf(cwd, p)] = "private" THEN MakeParents(fs, cwd, p, 0) ELSE fs

(* Space may run out after the directories have been created.               *)
AnswerCall ==
    LET creates == call.op \in Writing \cup {"mkdir"}
        tree == Prepared(call.p, creates)
    IN  /\ call.op \in OnePath
        /\ IF Refused(call.p, call.op \in Changing) THEN Answer(Failed(fs))
           ELSE \/ Answer(Effect(call.op, tree, Walk(tree, cwd, call.p)))
                \/ Answer(OutOfSpace(tree))

(* Space for the names may run out before.                                  *)
AnswerRename ==
    LET tree == Prepared(call.q, TRUE)
    IN  /\ call.op = "rename"
        /\ \/ ~Refused(call.p, TRUE) /\ Answer(OutOfSpace(fs))
           \/ IF Refused(call.p, TRUE) \/ Refused(call.q, TRUE) THEN Answer(Failed(fs))
              ELSE \/ Answer(Rename(tree, Walk(tree, cwd, call.p), Walk(tree, cwd, call.q)))
                   \/ Answer(OutOfSpace(tree))

AnswerChdir ==
    LET n == Walk(fs, cwd, call.p)
        ok == Exists(fs, n) /\ fs[n] = "dir"
    IN  /\ call.op = "chdir" /\ call' = NoCall
        /\ cwd' = IF ok THEN n ELSE cwd
        /\ reply' = IF ok THEN "ok" ELSE "error"
        /\ UNCHANGED fs

(* A new program in the session finds the scratch directories again.        *)
AnswerExec ==
    /\ call.op = "exec"
    /\ Answer(Done(MakeDirs(fs, <<>>, ScratchDirs)))

Next ==
    \/ \E c \in Calls : Invoke(c)
    \/ AnswerCall \/ AnswerRename \/ AnswerChdir \/ AnswerExec

Spec == Init /\ [][Next]_fsVars
=============================================================================
