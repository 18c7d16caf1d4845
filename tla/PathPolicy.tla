---------------------------- MODULE PathPolicy ----------------------------
(***************************************************************************)
(* How src/syscall_filter.c decides about a path: the canonical form, the  *)
(* DR_PATH_POLICY rules, the private scratch areas, the strict mode's      *)
(* blocked prefixes, and what open and the other path calls do with it.    *)
(*                                                                         *)
(* A path is a record of its components (strings between slashes: "", "."  *)
(* and ".." included) and whether it starts with a slash.  Its text fits   *)
(* the 511 bytes the filter reads of a path.  The variable path is the path*)
(* the application has built so far; Next adds a component, so that the    *)
(* properties are checked on every path up to MaxLen components.           *)
(***************************************************************************)
EXTENDS Naturals, FiniteSets, Sequences, SequencesExt

CONSTANTS
    MaxParts,        \* the component stack of canonicalize_path (128)
    MaxRules,        \* the rule table (32)
    DR_PATH_POLICY,  \* the configured entries, as written: <<[colon, action, path]>>;
                     \* colon: whether a ":" or "=" ends the action
    g_redirect_tmp,  \* DR_REDIRECT_TMP
    g_mode,          \* "observe" or "strict"
    CacheLike,       \* components starting with ".cache" or ".Wolfram"
    Components,      \* components paths are built of
    MaxLen           \* bound on the length of a path

VARIABLE path

ASSUME PolicyAssumption ==
    /\ MaxParts \in Nat \ {0} /\ MaxRules \in Nat \ {0} /\ MaxLen \in Nat
    /\ g_redirect_tmp \in BOOLEAN /\ g_mode \in {"observe", "strict"}

Path(abs, comps) == [abs |-> abs, comps |-> comps]
Abs(comps) == Path(TRUE, comps)

-----------------------------------------------------------------------------
(* canonicalize_path.  ".." drops the last component written; once more     *)
(* than MaxParts have been written, the stack no longer holds the place of  *)
(* the last one, and it drops down to the deepest place the stack holds.    *)

Lesser(a, b) == IF a <= b THEN a ELSE b

Up(out) == IF out = <<>> THEN out ELSE SubSeq(out, 1, Lesser(Len(out), MaxParts) - 1)

(* ".." at the root clears nothing but is kept as a component.              *)
ResolveKeepingRootUp(out, c) ==
    IF c \in {"", "."} THEN out
    ELSE IF c = ".." /\ out # <<>> THEN Up(out) ELSE Append(out, c)

Resolve(out, c) ==
    IF c \in {"", "."} THEN out ELSE IF c = ".." THEN Up(out) ELSE Append(out, c)

canonicalize_path(comps) ==
    LET out[i \in 0..Len(comps)] ==
            IF i = 0 THEN <<>> ELSE Resolve(out[i - 1], comps[i])
    IN  out[Len(comps)]

(* Relative paths are compared as they are.                                 *)
Canonical(p) == IF p.abs THEN Abs(canonicalize_path(p.comps)) ELSE p

(* A prefix that ends at a component boundary.  The prefix "/" ends with the*)
(* slash itself, so only "/" has it.                                        *)
path_has_prefix_component(p, prefix) ==
    /\ p.abs = prefix.abs
    /\ IsPrefix(prefix.comps, p.comps)
    /\ prefix.comps = <<>> => p.comps = <<>>

-----------------------------------------------------------------------------
(* DR_PATH_POLICY.                                                          *)

ActionWords ==
    [ro |-> "readonly", read |-> "readonly", readonly |-> "readonly",
     rw |-> "pass", pass |-> "pass", allow |-> "pass",
     private |-> "private", remap |-> "private",
     block |-> "block", deny |-> "block"]

parse_path_policy_action(word) == word \in DOMAIN ActionWords

(* An entry without a colon is read as part of the next one's action.       *)
(* Entries with an unknown action or no path are skipped, entries after the *)
(* MaxRules-th rule are not read.                                           *)
IsRule(spec, i) ==
    /\ spec[i].colon /\ (i > 1 => spec[i - 1].colon)
    /\ parse_path_policy_action(spec[i].action) /\ spec[i].path # Path(FALSE, <<>>)

parse_path_policy_rules(spec) ==
    LET known == SelectSeq([i \in 1..Len(spec) |-> i], LAMBDA i : IsRule(spec, i))
    IN  [n \in 1..Lesser(Len(known), MaxRules) |->
            [action |-> ActionWords[spec[known[n]].action],
             prefix |-> Canonical(spec[known[n]].path)]]

g_path_rules == parse_path_policy_rules(DR_PATH_POLICY)

(* The first rule whose prefix the path has.                                *)
FirstRule(p) ==
    LET matching == SelectSeq(g_path_rules,
                        LAMBDA r : path_has_prefix_component(p, r.prefix))
    IN  IF matching = <<>> THEN "default" ELSE matching[1].action

(* The rules are compared with the path as written.                         *)
configured_path_policy_for_raw(p) == FirstRule(p)

configured_path_policy_for(p) == FirstRule(Canonical(p))

(* strstr finds "/.cache" and "/.Wolfram" before any component, but before  *)
(* the first one only if the path is absolute.                              *)
path_is_private_write_candidate(p) ==
    LET c == Canonical(p)
        Under(comps) == path_has_prefix_component(c, Abs(comps))
    IN  /\ ~Under(<<"tmp", "MathLink">>) /\ ~Under(<<"dev", "shm">>)
        /\ \/ Under(<<"tmp">>) \/ Under(<<"var", "tmp">>)
           \/ \E i \in 1..Len(c.comps) : c.comps[i] \in CacheLike /\ (c.abs \/ i > 1)

effective_path_policy_for(p) ==
    LET configured == configured_path_policy_for(p)
    IN  IF configured # "default" THEN configured
        ELSE IF g_redirect_tmp /\ path_is_private_write_candidate(p) THEN "private" ELSE "pass"

-----------------------------------------------------------------------------
(* The strict mode's list.  Every path of BLOCKED_EXACT is below a prefix.  *)

BLOCKED_PREFIXES ==
    {"proc", "sys", "etc", "dev", "run", "boot", "root", "home", "var",
     "usr", "lib", "lib64", "bin", "sbin"}
BLOCKED_EXACT == {<<"etc", "shadow">>, <<"proc", "self", "maps">>, <<"proc", "self", "mem">>}

(* The prefixes are compared for equality.                                  *)
path_is_blocked_exactly(p) ==
    LET c == Canonical(p)
    IN  c.abs /\ (\/ c.comps \in BLOCKED_EXACT
                  \/ \E d \in BLOCKED_PREFIXES : c.comps = <<d>>)

path_is_blocked(p) ==
    LET c == Canonical(p)
    IN  c.abs /\ (\/ c.comps \in BLOCKED_EXACT
                  \/ \E d \in BLOCKED_PREFIXES : path_has_prefix_component(c, Abs(<<d>>)))

-----------------------------------------------------------------------------
(* What the pre event does with a path: it answers with an error, remaps it *)
(* or passes it.                                                            *)
Errors == {"EPERM", "ENOENT"}

(* open, openat, creat.  The error for /etc/shadow depends on the path as   *)
(* written.                                                                 *)
OpenVerdict(p, write_intent) ==
    LET policy == effective_path_policy_for(p)
        has_configured_policy == configured_path_policy_for(p) # "default"
    IN  IF policy = "block" \/ (policy = "readonly" /\ write_intent) THEN "EPERM"
        ELSE IF ~has_configured_policy /\ g_mode = "strict" /\ path_is_blocked(p)
             THEN IF path_has_prefix_component(p, Abs(<<"etc", "shadow">>)) THEN "ENOENT" ELSE "EPERM"
        ELSE IF policy = "private" THEN "remap" ELSE "pass"

(* remap_private_path_param, for one path argument of the other path calls. *)
ParamVerdict(p, ensure_parent) ==
    LET policy == effective_path_policy_for(p)
    IN  IF policy = "block" \/ (policy = "readonly" /\ ensure_parent) THEN "EPERM"
        ELSE IF policy = "private" THEN "remap" ELSE "pass"

(* The path calls and the ensure_parent flag of each of their path          *)
(* arguments.  The *at forms treat their arguments alike.                   *)
PathCalls ==
    LET looks == {"stat", "lstat", "access", "readlink", "statfs", "statx"}
        changes == {"rmdir", "unlink", "truncate", "utimensat"}
        creates == {"mkdir", "symlink"}
        moves   == {"rename", "link"}
    IN  [name \in looks \cup changes \cup creates \cup moves |->
            IF name \in moves THEN <<FALSE, TRUE>> ELSE <<name \in creates>>]

PathArguments == {arg \in (DOMAIN PathCalls) \X (1..2) : arg[2] <= Len(PathCalls[arg[1]])}

ArgumentVerdict(arg, p) == ParamVerdict(p, PathCalls[arg[1]][arg[2]])

-----------------------------------------------------------------------------
Init == path \in {Path(abs, <<>>) : abs \in BOOLEAN}

Next ==
    /\ Len(path.comps) < MaxLen
    /\ \E c \in Components :
          /\ ~(c = "" /\ path = Path(FALSE, <<>>))
          /\ path' = [path EXCEPT !.comps = Append(path.comps, c)]

Spec == Init /\ [][Next]_path

-----------------------------------------------------------------------------
IsName(c) == c \notin {"", ".", ".."}
CountIn(S, comps, from, to) == Cardinality({i \in from..to : comps[i] \in S})
Names(comps) == {comps[i] : i \in 1..Len(comps)} \ {"", ".", ".."}

(* The reference: a name survives if no later stretch of components right   *)
(* after it climbs above it.                                                *)
Survives(comps, i) ==
    /\ IsName(comps[i])
    /\ \A j \in (i + 1)..Len(comps) :
          CountIn({".."}, comps, i + 1, j) <= CountIn(Names(comps), comps, i + 1, j)

Surviving(comps) == {i \in 1..Len(comps) : Survives(comps, i)}

(* canonicalize_path returns exactly the components that no ".." cancels,   *)
(* in their order.                                                          *)
CanonicalResolves ==
    LET S == Surviving(path.comps)
        c == canonicalize_path(path.comps)
    IN  /\ Len(c) = Cardinality(S)
        /\ \A i \in S : c[Cardinality({k \in S : k <= i})] = path.comps[i]

(* Whether a call with an absolute path is refused, redirected or passed is *)
(* decided as for the path's canonical form: no spelling passes where the   *)
(* plain one is refused, or the other way round.  The error number may      *)
(* differ, and where a redirected path leads is PrivateVfs's matter.        *)
Fate(verdict) == IF verdict \in Errors THEN "refuse" ELSE verdict

SpellingIrrelevant ==
    LET canonical == Abs(canonicalize_path(path.comps))
    IN  path.abs =>
            /\ \A w \in BOOLEAN : Fate(OpenVerdict(path, w)) = Fate(OpenVerdict(canonical, w))
            /\ \A arg \in PathArguments :
                  ArgumentVerdict(arg, path) = ArgumentVerdict(arg, canonical)

(* In strict mode, what lies below a refused directory is refused too,      *)
(* unless a rule of DR_PATH_POLICY names it.                                *)
BlockedSubtree ==
    path.abs /\ path_is_blocked(path) =>
        \A c \in Components : IsName(c) =>
            LET below == Abs(Append(path.comps, c))
            IN  g_mode = "strict" /\ configured_path_policy_for(below) = "default" =>
                    OpenVerdict(below, FALSE) \in Errors
=============================================================================
