-------------------------- MODULE PathPolicyProof --------------------------
(***************************************************************************)
(* Proofs about PathPolicy: what canonicalize_path computes, and that the  *)
(* filter's verdicts do not depend on how a path is spelled.               *)
(***************************************************************************)
EXTENDS PathPolicy, Counting, SequenceTheorems, TLAPS

(* The loop of canonicalize_path: out before the first component and after  *)
(* each.                                                                    *)
IsRun(out, comps, n) ==
    /\ DOMAIN out = 0..n /\ out[0] = <<>>
    /\ \A i \in 1..n : out[i] = Resolve(out[i - 1], comps[i])

(* The loop runs, over any number of components.                            *)
LEMMA RunExists ==
    ASSUME NEW comps
    PROVE  \A n \in Nat : \E out : IsRun(out, comps, n)
  <1> DEFINE T == {n \in Nat : \E out : IsRun(out, comps, n)}
  <1>1. 0 \in T
    <2>1. IsRun([i \in 0..0 |-> <<>>], comps, 0)
      BY DEF IsRun
    <2> QED BY <2>1
  <1>2. ASSUME NEW n \in Nat, n \in T PROVE n + 1 \in T
    <2>1. PICK out : IsRun(out, comps, n)
      BY <1>2
    <2>2. PICK new : new = [i \in 0..(n + 1) |->
                      IF i = n + 1 THEN Resolve(out[n], comps[n + 1]) ELSE out[i]]
      OBVIOUS
    <2>3. /\ DOMAIN new = 0..(n + 1) /\ new[n + 1] = Resolve(out[n], comps[n + 1])
          /\ \A i \in 0..n : new[i] = out[i]
      BY <2>2
    <2>4. new[0] = <<>>
      BY <2>1, <2>3 DEF IsRun
    <2>5. ASSUME NEW i \in 1..(n + 1) PROVE new[i] = Resolve(new[i - 1], comps[i])
      <3>1. CASE i = n + 1
        BY <2>3, <3>1
      <3>2. CASE i \in 1..n
        <4>1. i \in 0..n /\ i - 1 \in 0..n
          BY <3>2
        <4>2. new[i] = out[i] /\ new[i - 1] = out[i - 1]
          BY <2>3, <4>1
        <4> QED BY <2>1, <3>2, <4>2 DEF IsRun
      <3> QED BY <3>1, <3>2
    <2>6. IsRun(new, comps, n + 1)
      BY <2>3, <2>4, <2>5 DEF IsRun
    <2> QED BY <2>6
  <1> HIDE DEF T
  <1>3. Nat \subseteq T
    BY <1>1, <1>2, AllNumbers
  <1> QED BY <1>3 DEF T

(* Two runs over the same components agree.                                 *)
LEMMA RunUnique ==
    ASSUME NEW comps, NEW other, NEW n \in Nat, NEW m \in Nat, n <= m,
           NEW f, IsRun(f, comps, n), NEW g, IsRun(g, other, m),
           \A i \in 1..n : comps[i] = other[i]
    PROVE  f[n] = g[n]
  <1> DEFINE T == {k \in Nat : k <= n => f[k] = g[k]}
  <1>1. 0 \in T
    BY DEF IsRun
  <1>2. ASSUME NEW k \in Nat, k \in T PROVE k + 1 \in T
    <2> SUFFICES ASSUME k + 1 <= n PROVE f[k + 1] = g[k + 1]
      OBVIOUS
    <2>1. k + 1 \in 1..n /\ k + 1 \in 1..m /\ (k + 1) - 1 = k /\ f[k] = g[k]
      BY <1>2
    <2>2. f[k + 1] = Resolve(f[k], comps[k + 1]) /\ g[k + 1] = Resolve(g[k], other[k + 1])
      BY <2>1 DEF IsRun
    <2> QED BY <2>1, <2>2
  <1> HIDE DEF T
  <1>3. Nat \subseteq T
    BY <1>1, <1>2, AllNumbers
  <1> QED BY <1>3 DEF T

(* canonicalize_path returns what the loop leaves.                          *)
LEMMA RunLemma ==
    ASSUME NEW comps, Len(comps) \in Nat
    PROVE  \E out : IsRun(out, comps, Len(comps)) /\ canonicalize_path(comps) = out[Len(comps)]
  <1> DEFINE P(f) == f = [i \in 0..Len(comps) |->
                            IF i = 0 THEN <<>> ELSE Resolve(f[i - 1], comps[i])]
             out == CHOOSE f : P(f)
  <1>1. PICK f : IsRun(f, comps, Len(comps))
    BY RunExists
  <1>1a. PICK g : g = [i \in 0..Len(comps) |-> f[i]]
    OBVIOUS
  <1>2. P(g)
    <2>1. ASSUME NEW i \in 0..Len(comps)
          PROVE  g[i] = IF i = 0 THEN <<>> ELSE Resolve(g[i - 1], comps[i])
      <3>1. CASE i = 0
        BY <1>1, <1>1a, <3>1 DEF IsRun
      <3>2. CASE i # 0
        <4>1. i \in 1..Len(comps) /\ i - 1 \in 0..Len(comps)
          BY <3>2
        <4>2. f[i] = Resolve(f[i - 1], comps[i]) /\ g[i] = f[i] /\ g[i - 1] = f[i - 1]
          BY <1>1, <1>1a, <4>1 DEF IsRun
        <4> QED BY <3>2, <4>2
      <3> QED BY <3>1, <3>2
    <2> QED BY <2>1, <1>1a
  <1>3. P(out)
    <2> HIDE DEF P
    <2> QED BY <1>2, Zenon
  <1>4. canonicalize_path(comps) = out[Len(comps)]
    BY DEF canonicalize_path
  <1>5. IsRun(out, comps, Len(comps))
    <2> HIDE DEF out
    <2>1. DOMAIN out = 0..Len(comps)
      BY <1>3
    <2>2. out[0] = <<>>
      BY <1>3
    <2>3. ASSUME NEW i \in 1..Len(comps) PROVE out[i] = Resolve(out[i - 1], comps[i])
      <3>1. i \in 0..Len(comps) /\ i # 0
        OBVIOUS
      <3> QED BY <1>3, <3>1
    <2> QED BY <2>1, <2>2, <2>3 DEF IsRun
  <1> QED BY <1>4, <1>5

(* One more component is one more step.                                     *)
LEMMA AppendLemma ==
    ASSUME NEW S, NEW comps \in Seq(S), NEW c \in S
    PROVE  canonicalize_path(Append(comps, c)) = Resolve(canonicalize_path(comps), c)
  <1>1. PICK n \in Nat : n = Len(comps)
    OBVIOUS
  <1>2. PICK longer : longer = Append(comps, c)
    OBVIOUS
  <1>3. Len(longer) = n + 1 /\ longer[n + 1] = c /\ \A i \in 1..n : comps[i] = longer[i]
    BY <1>1, <1>2, AppendProperties
  <1>4. PICK f : IsRun(f, comps, n) /\ canonicalize_path(comps) = f[n]
    BY <1>1, RunLemma
  <1>5. PICK g : IsRun(g, longer, n + 1) /\ canonicalize_path(longer) = g[n + 1]
    BY <1>3, RunLemma
  <1>6. f[n] = g[n]
    <2>1. n + 1 \in Nat /\ n <= n + 1
      OBVIOUS
    <2> QED BY <1>3, <1>4, <1>5, <2>1, RunUnique
  <1>7. g[n + 1] = Resolve(g[n], c)
    <2>1. n + 1 \in 1..(n + 1) /\ (n + 1) - 1 = n
      OBVIOUS
    <2>2. g[n + 1] = Resolve(g[(n + 1) - 1], longer[n + 1])
      BY <1>5, <2>1 DEF IsRun
    <2> QED BY <1>3, <2>1, <2>2
  <1> QED BY <1>2, <1>4, <1>5, <1>6, <1>7

-----------------------------------------------------------------------------
(* The canonical form consists of names, and is its own canonical form.     *)

NameSet  == {c \in Components : IsName(c)}
NameSeqs == Seq(NameSet)

(* Going up leaves a prefix.                                                *)
LEMMA UpLemma ==
    ASSUME NEW S, NEW out \in Seq(S)
    PROVE  Up(out) \in Seq(S)
  <1>1. CASE out = <<>>
    BY <1>1 DEF Up
  <1>2. CASE out # <<>>
    <2>1. Len(out) \in Nat /\ Len(out) >= 1
      BY <1>2
    <2>2. PICK k : k = Lesser(Len(out), MaxParts) - 1
      OBVIOUS
    <2>3. k \in Nat /\ k <= Len(out)
      BY <2>1, <2>2, PolicyAssumption DEF Lesser
    <2>4. \A i \in 1..k : out[i] \in S
      <3>1. \A i \in 1..k : i \in 1..Len(out)
        BY <2>1, <2>3
      <3> QED BY <3>1, ElementOfSeq
    <2>5. SubSeq(out, 1, k) \in Seq(S)
      <3>1. 1 \in Int /\ k \in Int
        BY <2>3
      <3> QED BY <2>4, <3>1, SubSeqProperties
    <2> QED BY <1>2, <2>2, <2>5 DEF Up
  <1> QED BY <1>1, <1>2

(* A step of the loop leaves names.                                         *)
LEMMA ResolveLemma ==
    ASSUME NEW out \in NameSeqs, NEW c \in Components
    PROVE  Resolve(out, c) \in NameSeqs
  <1>1. CASE c \in {"", "."}
    BY <1>1 DEF Resolve
  <1>2. CASE c = ".."
    <2>1. Resolve(out, c) = Up(out)
      BY <1>2 DEF Resolve
    <2> QED BY <2>1, UpLemma DEF NameSeqs
  <1>3. CASE c \notin {"", ".", ".."}
    <2>1. Resolve(out, c) = Append(out, c)
      BY <1>3 DEF Resolve
    <2>2. c \in NameSet
      BY <1>3 DEF NameSet, IsName
    <2> QED BY <2>1, <2>2, AppendProperties DEF NameSeqs
  <1> QED BY <1>1, <1>2, <1>3

(* So does the loop.                                                        *)
LEMMA CanonicalNames ==
    ASSUME NEW comps \in Seq(Components)
    PROVE  canonicalize_path(comps) \in NameSeqs
  <1>1. PICK n \in Nat : n = Len(comps)
    OBVIOUS
  <1>2. PICK f : IsRun(f, comps, n) /\ canonicalize_path(comps) = f[n]
    BY <1>1, RunLemma
  <1> DEFINE T == {k \in Nat : k <= n => f[k] \in NameSeqs}
  <1>3. 0 \in T
    <2>1. f[0] = <<>>
      BY <1>2 DEF IsRun
    <2>2. <<>> \in NameSeqs
      BY EmptySeq DEF NameSeqs
    <2> QED BY <2>1, <2>2
  <1>4. ASSUME NEW k \in Nat, k \in T PROVE k + 1 \in T
    <2> SUFFICES ASSUME k + 1 <= n PROVE f[k + 1] \in NameSeqs
      OBVIOUS
    <2>1. k + 1 \in 1..n /\ (k + 1) - 1 = k /\ f[k] \in NameSeqs
      BY <1>4
    <2>2. f[k + 1] = Resolve(f[k], comps[k + 1])
      BY <1>2, <2>1 DEF IsRun
    <2>3. comps[k + 1] \in Components
      BY <1>1, <2>1, ElementOfSeq
    <2> QED BY <2>1, <2>2, <2>3, ResolveLemma
  <1> HIDE DEF T
  <1>5. Nat \subseteq T
    BY <1>3, <1>4, AllNumbers
  <1> QED BY <1>2, <1>5 DEF T

(* Names alone are left as they are.                                        *)
LEMMA CanonicalFixed ==
    ASSUME NEW comps \in NameSeqs
    PROVE  canonicalize_path(comps) = comps
  <1> DEFINE N == NameSet
  <1>0. comps \in Seq(N)
    BY DEF NameSeqs
  <1>1. PICK n \in Nat : n = Len(comps)
    BY <1>0
  <1>2. PICK f : IsRun(f, comps, n) /\ canonicalize_path(comps) = f[n]
    BY <1>1, RunLemma
  <1> DEFINE T == {k \in Nat : k <= n => f[k] = SubSeq(comps, 1, k)}
  <1>3. 0 \in T
    <2>1. f[0] = <<>>
      BY <1>2 DEF IsRun
    <2>2. SubSeq(comps, 1, 0) = <<>>
      BY <1>0, SubSeqEmpty
    <2> QED BY <2>1, <2>2
  <1>4. ASSUME NEW k \in Nat, k \in T PROVE k + 1 \in T
    <2> SUFFICES ASSUME k + 1 <= n PROVE f[k + 1] = SubSeq(comps, 1, k + 1)
      OBVIOUS
    <2>1. k + 1 \in 1..n /\ (k + 1) - 1 = k /\ f[k] = SubSeq(comps, 1, k)
      BY <1>4
    <2>2. f[k + 1] = Resolve(f[k], comps[k + 1])
      BY <1>2, <2>1 DEF IsRun
    <2>3. comps[k + 1] \in N
      BY <1>0, <1>1, <2>1, ElementOfSeq
    <2>4. f[k + 1] = Append(f[k], comps[k + 1])
      BY <2>2, <2>3 DEF Resolve, NameSet, IsName
    <2>5. SubSeq(comps, 1, k + 1) = SubSeq(comps, 1, k) \o <<comps[k + 1]>>
      <3>1. 1 \in 1..Len(comps) /\ k + 1 \in 1..Len(comps)
        BY <1>1, <2>1
      <3> QED BY <1>0, <2>1, <3>1, SubSeqRecursiveSecond
    <2>6. SubSeq(comps, 1, k) \in Seq(N)
      <3>1. 1 \in Int /\ k \in Int /\ \A i \in 1..k : i \in 1..Len(comps)
        BY <1>1, <2>1
      <3>2. \A i \in 1..k : comps[i] \in N
        BY <1>0, <3>1, ElementOfSeq
      <3> QED BY <3>1, <3>2, SubSeqProperties
    <2>7. Append(SubSeq(comps, 1, k), comps[k + 1]) = SubSeq(comps, 1, k) \o <<comps[k + 1]>>
      BY <2>3, <2>6, AppendIsConcat
    <2> QED BY <2>1, <2>4, <2>5, <2>7
  <1> HIDE DEF T
  <1>5. Nat \subseteq T
    BY <1>3, <1>4, AllNumbers
  <1>6. f[n] = SubSeq(comps, 1, n)
    BY <1>5 DEF T
  <1> QED BY <1>0, <1>1, <1>2, <1>6, SubSeqFull

-----------------------------------------------------------------------------
(* The verdicts look at the canonical form only.                            *)
LEMMA VerdictLemma ==
    ASSUME NEW p, NEW q, Canonical(p) = Canonical(q), NEW flag
    PROVE  /\ Fate(OpenVerdict(p, flag)) = Fate(OpenVerdict(q, flag))
           /\ ParamVerdict(p, flag) = ParamVerdict(q, flag)
  <1>1. configured_path_policy_for(p) = configured_path_policy_for(q)
    BY DEF configured_path_policy_for
  <1>2. path_is_private_write_candidate(p) = path_is_private_write_candidate(q)
    BY DEF path_is_private_write_candidate
  <1>3. path_is_blocked(p) = path_is_blocked(q)
    BY DEF path_is_blocked
  <1>4. effective_path_policy_for(p) = effective_path_policy_for(q)
    BY <1>1, <1>2 DEF effective_path_policy_for
  <1>5. Fate(OpenVerdict(p, flag)) = Fate(OpenVerdict(q, flag))
    BY <1>1, <1>3, <1>4 DEF OpenVerdict, Fate, Errors
  <1> QED BY <1>4, <1>5 DEF ParamVerdict

PathInv == path \in [abs : BOOLEAN, comps : Seq(Components)]

(* A path is made of components.                                            *)
LEMMA PathInit == Init => PathInv
  <1>1. <<>> \in Seq(Components)
    BY EmptySeq
  <1>2. ASSUME NEW abs \in BOOLEAN
        PROVE  Path(abs, <<>>) \in [abs : BOOLEAN, comps : Seq(Components)]
    BY <1>1, Zenon DEF Path
  <1> QED BY <1>2, Zenon DEF Init, PathInv

(* It stays so when it is extended.                                         *)
LEMMA PathHolds == Spec => []PathInv
  <1>1. Init => PathInv
    BY PathInit
  <1>2. PathInv /\ [Next]_path => PathInv'
    <2> SUFFICES ASSUME PathInv, [Next]_path PROVE PathInv'
      OBVIOUS
    <2>1. CASE UNCHANGED path
      BY <2>1 DEF PathInv
    <2>2. CASE Next
      <3>1. PICK c \in Components : path' = [path EXCEPT !.comps = Append(path.comps, c)]
        BY <2>2 DEF Next
      <3> QED BY <3>1, AppendProperties DEF PathInv
    <2> QED BY <2>1, <2>2
  <1> QED BY <1>1, <1>2, PTL DEF Spec

(* Whether a call with an absolute path is refused, redirected or passed is *)
(* decided as for its canonical form, whatever the rules, the mode and the  *)
(* number of components of a path the filter has read as a whole, also when *)
(* the component stack of canonicalize_path overflows.                      *)
THEOREM SpellingDoesNotMatter == Spec => []SpellingIrrelevant
  <1>1. PathInv => SpellingIrrelevant
    <2> SUFFICES ASSUME PathInv, path.abs PROVE SpellingIrrelevant
      BY DEF SpellingIrrelevant
    <2>1. PICK k : k = canonicalize_path(path.comps)
      OBVIOUS
    <2>2. PICK p : p = path
      OBVIOUS
    <2>3. canonicalize_path(k) = k
      BY <2>1, CanonicalNames, CanonicalFixed DEF PathInv
    <2>4. Canonical(p) = Canonical(Abs(k))
      BY <2>1, <2>2, <2>3 DEF Canonical, Abs, Path
    <2>5. \A w \in BOOLEAN : Fate(OpenVerdict(p, w)) = Fate(OpenVerdict(Abs(k), w))
      BY <2>4, VerdictLemma
    <2>6. \A arg \in PathArguments : ArgumentVerdict(arg, p) = ArgumentVerdict(arg, Abs(k))
      BY <2>4, VerdictLemma DEF ArgumentVerdict
    <2> QED BY <2>1, <2>2, <2>5, <2>6 DEF SpellingIrrelevant
  <1> QED BY <1>1, PathHolds, PTL

(* A path has a prefix of one component if that is its first.               *)
LEMMA PrefixLemma ==
    ASSUME NEW S, NEW comps \in Seq(S), NEW d
    PROVE  path_has_prefix_component(Abs(comps), Abs(<<d>>)) <=> Len(comps) >= 1 /\ comps[1] = d
  <1>1. ASSUME NEW T, NEW s \in Seq(T), Len(s) >= 1 PROVE SubSeq(s, 1, 1) = <<s[1]>>
    <2>1. Len(s) \in Nat /\ 1 \in 1..Len(s) /\ 1 \in 1..1 /\ 1 - 1 = 0
      BY <1>1
    <2>2. SubSeq(s, 1, 1) = SubSeq(s, 1, 0) \o <<s[1]>>
      BY <2>1, SubSeqRecursiveSecond
    <2>3. SubSeq(s, 1, 0) = <<>>
      BY SubSeqEmpty
    <2>4. <<s[1]>> \in Seq(T)
      BY <2>1, ElementOfSeq
    <2> QED BY <2>2, <2>3, <2>4, ConcatEmptySeq
  <1>2. <<d>> \in Seq({d}) /\ Len(<<d>>) = 1 /\ <<d>> # <<>> /\ <<d>>[1] = d
    OBVIOUS
  <1>3. SubSeq(<<d>>, 1, 1) = <<d>>
    BY <1>2, SubSeqFull
  <1>4. Len(comps) >= 1 => SubSeq(comps, 1, 1) = <<comps[1]>>
    BY <1>1
  <1>5. IsPrefix(<<d>>, comps) <=> Len(comps) >= 1 /\ comps[1] = d
    BY <1>2, <1>3, <1>4 DEF IsPrefix
  <1> QED BY <1>2, <1>5 DEF path_has_prefix_component, Abs, Path

(* In strict mode what lies below a refused directory is refused, unless a  *)
(* rule names it: for all rules and all paths.                              *)
THEOREM SubtreeIsBlocked == Spec => []BlockedSubtree
  <1>1. PathInv => BlockedSubtree
    <2> SUFFICES ASSUME PathInv, path.abs, path_is_blocked(path), NEW c \in Components, IsName(c)
                 PROVE  LET below == Abs(Append(path.comps, c))
                        IN  g_mode = "strict" /\ configured_path_policy_for(below) = "default" =>
                                OpenVerdict(below, FALSE) \in Errors
      BY DEF BlockedSubtree
    <2>1. PICK k : k = canonicalize_path(path.comps)
      OBVIOUS
    <2>2. PICK below : below = Abs(Append(path.comps, c))
      OBVIOUS
    <2>3. k \in NameSeqs
      BY <2>1, CanonicalNames DEF PathInv
    <2>4. Canonical(path) = Abs(k)
      BY <2>1 DEF Canonical
    <2>5. Canonical(below) = Abs(Append(k, c))
      <3>1. canonicalize_path(Append(path.comps, c)) = Append(k, c)
        BY <2>1, AppendLemma DEF PathInv, Resolve, IsName
      <3> QED BY <2>2, <3>1 DEF Canonical, Abs, Path
    <2>6. Len(k) >= 1 /\ k[1] \in BLOCKED_PREFIXES
      <3>1. CASE k \in BLOCKED_EXACT
        BY <3>1 DEF BLOCKED_EXACT, BLOCKED_PREFIXES
      <3>2. CASE \E d \in BLOCKED_PREFIXES : path_has_prefix_component(Abs(k), Abs(<<d>>))
        BY <2>3, <3>2, PrefixLemma DEF NameSeqs
      <3>3. Abs(k).comps = k
        BY DEF Abs, Path
      <3>4. \/ Abs(k).comps \in BLOCKED_EXACT
            \/ \E d \in BLOCKED_PREFIXES : path_has_prefix_component(Abs(k), Abs(<<d>>))
        BY <2>4, Zenon DEF path_is_blocked
      <3> QED BY <3>1, <3>2, <3>3, <3>4
    <2>7. path_is_blocked(below)
      <3>1. /\ Append(k, c) \in NameSeqs /\ Len(Append(k, c)) >= 1
            /\ Append(k, c)[1] = k[1]
        <4>1. c \in NameSet
          BY DEF NameSet
        <4>2. 1 \in 1..Len(k)
          BY <2>3, <2>6 DEF NameSeqs
        <4> QED BY <2>3, <4>1, <4>2, AppendProperties DEF NameSeqs
      <3>2. path_has_prefix_component(Abs(Append(k, c)), Abs(<<k[1]>>))
        BY <3>1, PrefixLemma DEF NameSeqs
      <3>3. Abs(Append(k, c)).abs
        BY DEF Abs, Path
      <3> QED BY <2>5, <2>6, <3>2, <3>3 DEF path_is_blocked
    <2>8. ASSUME g_mode = "strict", configured_path_policy_for(below) = "default"
          PROVE  OpenVerdict(below, FALSE) \in Errors
      BY <2>7, <2>8 DEF OpenVerdict, Errors
    <2> QED BY <2>2, <2>8
  <1> QED BY <1>1, PathHolds, PTL

-----------------------------------------------------------------------------
(* canonicalize_path computes the reference: the names that survive.  The   *)
(* argument goes along the path; what makes it inductive is the balance: the*)
(* names minus the ".." after a survivor are the survivors after it, so the *)
(* next ".." takes away the last survivor and no other.                     *)

NamesAt(comps) == {j \in 1..Len(comps) : IsName(comps[j])}
UpsAt(comps) == {j \in 1..Len(comps) : comps[j] = ".."}
Count(X, a, b) == Cardinality({j \in a..b : j \in X})
Rank(S, i) == Cardinality({k \in S : k <= i})

Resolved(comps) ==
    LET S == Surviving(comps)
        k == canonicalize_path(comps)
        n == Len(comps)
    IN  /\ Len(k) = Cardinality(S)
        /\ \A i \in S : k[Rank(S, i)] = comps[i]
        /\ \A i \in S : Count(NamesAt(comps), i + 1, n) - Count(UpsAt(comps), i + 1, n)
                            = Cardinality(S) - Rank(S, i)

(* Counting one place more.                                                 *)
LEMMA CountLemma ==
    ASSUME NEW X, NEW a \in Int, NEW b \in Int, a <= b + 1
    PROVE  /\ Count(X, a, b) \in Nat
           /\ b + 1 \in X => Count(X, a, b + 1) = Count(X, a, b) + 1
           /\ b + 1 \notin X => Count(X, a, b + 1) = Count(X, a, b)
  <1> DEFINE C == {j \in a..b : j \in X}
             D == {j \in a..(b + 1) : j \in X}
  <1>1. IsFiniteSet(C) /\ Cardinality(C) \in Nat
    <2>1. IsFiniteSet(a..b) /\ C \in SUBSET (a..b)
      BY FS_Interval
    <2>2. IsFiniteSet(C)
      BY <2>1, FS_Subset
    <2> QED BY <2>2, FS_CardinalityType
  <1>2. CASE b + 1 \in X
    <2>1. D = C \cup {b + 1} /\ b + 1 \notin C
      BY <1>2
    <2> HIDE DEF C, D
    <2>2. Cardinality(D) = Cardinality(C) + 1
      BY <1>1, <2>1, FS_AddElement
    <2> QED BY <1>1, <1>2, <2>2 DEF Count, C, D
  <1>3. CASE b + 1 \notin X
    <2>1. D = C
      BY <1>3
    <2>2. Count(X, a, b + 1) = Count(X, a, b)
      BY <2>1, Zenon DEF Count
    <2>3. Count(X, a, b) \in Nat
      BY <1>1, Zenon DEF Count
    <2> QED BY <1>3, <2>2, <2>3
  <1> QED BY <1>2, <1>3

(* Counting depends on the places counted only.                             *)
LEMMA CountSame ==
    ASSUME NEW X, NEW Y, NEW a \in Int, NEW b \in Int, \A j \in a..b : j \in X <=> j \in Y
    PROVE  Count(X, a, b) = Count(Y, a, b)
  <1>1. {j \in a..b : j \in X} = {j \in a..b : j \in Y}
    OBVIOUS
  <1> QED BY <1>1 DEF Count

(* The reference in these terms.                                            *)
LEMMA SurvivesLemma ==
    ASSUME NEW comps, Len(comps) \in Nat, NEW i \in 1..Len(comps)
    PROVE  Survives(comps, i) <=>
             /\ IsName(comps[i])
             /\ \A j \in (i + 1)..Len(comps) :
                   Count(UpsAt(comps), i + 1, j) <= Count(NamesAt(comps), i + 1, j)
  <1>1. ASSUME NEW j \in (i + 1)..Len(comps)
        PROVE  /\ CountIn({".."}, comps, i + 1, j) = Count(UpsAt(comps), i + 1, j)
               /\ CountIn(Names(comps), comps, i + 1, j) = Count(NamesAt(comps), i + 1, j)
    <2>1. \A m \in (i + 1)..j : m \in 1..Len(comps)
      OBVIOUS
    <2>2. {m \in (i + 1)..j : comps[m] \in {".."}} = {m \in (i + 1)..j : m \in UpsAt(comps)}
      BY <2>1 DEF UpsAt
    <2>3. \A m \in (i + 1)..j : comps[m] \in Names(comps) <=> m \in NamesAt(comps)
      BY <2>1 DEF NamesAt, Names, IsName
    <2>4. {m \in (i + 1)..j : comps[m] \in Names(comps)} = {m \in (i + 1)..j : m \in NamesAt(comps)}
      BY <2>3
    <2> QED BY <2>2, <2>4 DEF CountIn, Count
  <1> QED BY <1>1 DEF Survives

(* Ranks: finite, from 1 to the number of elements.                         *)
LEMMA RankLemma ==
    ASSUME NEW n \in Nat, NEW S \in SUBSET (1..n)
    PROVE  /\ IsFiniteSet(S) /\ Cardinality(S) \in Nat /\ Cardinality(S) <= n
           /\ \A i \in S : Rank(S, i) \in 1..Cardinality(S)
  <1>1. IsFiniteSet(1..n) /\ Cardinality(1..n) = n
    <2>1. 1 \in Int /\ n \in Int /\ (IF 1 > n THEN 0 ELSE n - 1 + 1) = n
      OBVIOUS
    <2> QED BY <2>1, FS_Interval
  <1>2. IsFiniteSet(S) /\ Cardinality(S) \in Nat /\ Cardinality(S) <= n
    BY <1>1, FS_Subset, FS_CardinalityType
  <1>3. ASSUME NEW i \in S PROVE Rank(S, i) \in 1..Cardinality(S)
    <2>1. PICK B : B = {k \in S : k <= i}
      OBVIOUS
    <2>2. B \in SUBSET S /\ i \in B
      BY <2>1
    <2>3. IsFiniteSet(B) /\ Cardinality(B) \in Nat /\ Cardinality(B) <= Cardinality(S)
      BY <1>2, <2>2, FS_Subset, FS_CardinalityType
    <2>4. Cardinality(B) # 0
      BY <2>2, <2>3, FS_EmptySet
    <2> QED BY <1>2, <2>1, <2>3, <2>4 DEF Rank
  <1> QED BY <1>2, <1>3

(* The last element has the last rank, the others have a smaller one.       *)
LEMMA LastLemma ==
    ASSUME NEW n \in Nat, NEW S \in SUBSET (1..n), S # {}
    PROVE  \E z \in S : /\ \A i \in S : i <= z
                        /\ Rank(S, z) = Cardinality(S)
                        /\ \A i \in S \ {z} : Rank(S, i) <= Cardinality(S) - 1
                        /\ Cardinality(S \ {z}) = Cardinality(S) - 1
  <1>1. PICK T : T = {t \in Nat : n - t \in S}
    OBVIOUS
  <1>2. T \in SUBSET Nat /\ T # {}
    <2>1. PICK i \in S : TRUE
      OBVIOUS
    <2>2. n - i \in Nat /\ n - (n - i) = i
      OBVIOUS
    <2> QED BY <1>1, <2>1, <2>2
  <1>3. PICK t \in T : \A y \in T : t <= y
    BY <1>2, LeastNumber
  <1>4. PICK z : z = n - t
    OBVIOUS
  <1>5. z \in S
    BY <1>1, <1>3, <1>4
  <1>6. ASSUME NEW i \in S PROVE i <= z
    <2>1. n - i \in Nat /\ n - (n - i) = i
      OBVIOUS
    <2>2. n - i \in T
      BY <1>1, <2>1
    <2>3. t <= n - i /\ t \in Nat
      BY <1>2, <1>3, <2>2
    <2> QED BY <1>4, <2>3
  <1>7. Rank(S, z) = Cardinality(S)
    <2>1. {k \in S : k <= z} = S
      BY <1>6
    <2> QED BY <2>1 DEF Rank
  <1>8. IsFiniteSet(S) /\ Cardinality(S) \in Nat
    BY RankLemma
  <1>9. IsFiniteSet(S \ {z}) /\ Cardinality(S \ {z}) = Cardinality(S) - 1
    BY <1>5, <1>8, FS_RemoveElement
  <1>10. ASSUME NEW i \in S \ {z} PROVE Rank(S, i) <= Cardinality(S) - 1
    <2>1. {k \in S : k <= i} \in SUBSET (S \ {z})
      BY <1>5, <1>6
    <2>2. Cardinality({k \in S : k <= i}) <= Cardinality(S \ {z})
      BY <1>9, <2>1, FS_Subset
    <2> QED BY <1>9, <2>2 DEF Rank
  <1> QED BY <1>5, <1>6, <1>7, <1>9, <1>10

(* One more component: which names survive it.                              *)
IsStep(comps, longer, n, c) ==
    /\ Len(longer) = n + 1 /\ longer[n + 1] = c /\ \A i \in 1..n : longer[i] = comps[i]
    /\ Surviving(comps) \in SUBSET (1..n) /\ Surviving(longer) \in SUBSET (1..(n + 1))
    /\ n + 1 \in Surviving(longer) <=> IsName(c)
    /\ \A i \in 1..n :
         /\ i \in Surviving(longer) <=>
               /\ i \in Surviving(comps)
               /\ Count(UpsAt(longer), i + 1, n + 1) <= Count(NamesAt(longer), i + 1, n + 1)
         /\ Count(UpsAt(longer), i + 1, n + 1) =
               Count(UpsAt(comps), i + 1, n) + (IF c = ".." THEN 1 ELSE 0)
         /\ Count(NamesAt(longer), i + 1, n + 1) =
               Count(NamesAt(comps), i + 1, n) + (IF IsName(c) THEN 1 ELSE 0)

(* The reference takes that step.                                           *)
LEMMA SurvivingStep ==
    ASSUME NEW n \in Nat, NEW comps \in Seq(Components), n = Len(comps), NEW c \in Components,
           NEW longer, longer = Append(comps, c)
    PROVE  IsStep(comps, longer, n, c)
  <1>1. Len(longer) = n + 1 /\ longer[n + 1] = c /\ \A i \in 1..n : longer[i] = comps[i]
    BY AppendProperties
  <1>2. Surviving(comps) \in SUBSET (1..n) /\ Surviving(longer) \in SUBSET (1..(n + 1))
    BY <1>1 DEF Surviving
  <1>3. n + 1 \in Surviving(longer) <=> IsName(c)
    <2>1. n + 1 \in 1..Len(longer) /\ Len(longer) \in Nat
      BY <1>1
    <2>2. \A j \in ((n + 1) + 1)..Len(longer) : FALSE
      BY <1>1
    <2>3. Survives(longer, n + 1) <=> IsName(longer[n + 1])
      BY <2>1, <2>2, SurvivesLemma
    <2> QED BY <1>1, <2>1, <2>3 DEF Surviving
  <1>4. /\ \A j \in 1..n : j \in UpsAt(longer) <=> j \in UpsAt(comps)
        /\ \A j \in 1..n : j \in NamesAt(longer) <=> j \in NamesAt(comps)
        /\ n + 1 \in UpsAt(longer) <=> c = ".."
        /\ n + 1 \in NamesAt(longer) <=> IsName(c)
    BY <1>1 DEF UpsAt, NamesAt
  <1>5. ASSUME NEW i \in 1..n, NEW j \in i..n
        PROVE  /\ Count(UpsAt(longer), i + 1, j) = Count(UpsAt(comps), i + 1, j)
               /\ Count(NamesAt(longer), i + 1, j) = Count(NamesAt(comps), i + 1, j)
    <2>1. i + 1 \in Int /\ j \in Int /\ \A m \in (i + 1)..j : m \in 1..n
      OBVIOUS
    <2> QED BY <1>4, <2>1, CountSame
  <1>6. ASSUME NEW i \in 1..n
        PROVE  /\ Count(UpsAt(longer), i + 1, n + 1) =
                      Count(UpsAt(comps), i + 1, n) + (IF c = ".." THEN 1 ELSE 0)
               /\ Count(NamesAt(longer), i + 1, n + 1) =
                      Count(NamesAt(comps), i + 1, n) + (IF IsName(c) THEN 1 ELSE 0)
    <2>1. i + 1 \in Int /\ n \in Int /\ i + 1 <= n + 1 /\ n \in i..n
      OBVIOUS
    <2>2. /\ Count(UpsAt(longer), i + 1, n + 1) =
                Count(UpsAt(longer), i + 1, n) + (IF n + 1 \in UpsAt(longer) THEN 1 ELSE 0)
          /\ Count(NamesAt(longer), i + 1, n + 1) =
                Count(NamesAt(longer), i + 1, n) + (IF n + 1 \in NamesAt(longer) THEN 1 ELSE 0)
      <3>1. ASSUME NEW X
            PROVE  Count(X, i + 1, n + 1) = Count(X, i + 1, n) + (IF n + 1 \in X THEN 1 ELSE 0)
        <4>1. PICK a \in Int : a = i + 1
          BY <2>1
        <4>2. a <= n + 1 /\ n \in Int
          BY <2>1, <4>1
        <4>3. /\ Count(X, a, n) \in Nat
              /\ n + 1 \in X => Count(X, a, n + 1) = Count(X, a, n) + 1
              /\ n + 1 \notin X => Count(X, a, n + 1) = Count(X, a, n)
          BY <4>2, CountLemma
        <4>4. Count(X, a, n + 1) = Count(X, a, n) + (IF n + 1 \in X THEN 1 ELSE 0)
          BY <4>3
        <4> QED BY <4>1, <4>4, Zenon
      <3> QED BY <3>1
    <2> QED BY <1>4, <1>5, <2>1, <2>2
  <1>7. ASSUME NEW i \in 1..n
        PROVE  i \in Surviving(longer) <=>
                  /\ i \in Surviving(comps)
                  /\ Count(UpsAt(longer), i + 1, n + 1) <= Count(NamesAt(longer), i + 1, n + 1)
    <2> DEFINE Kept(j) == Count(UpsAt(longer), i + 1, j) <= Count(NamesAt(longer), i + 1, j)
               Was(j) == Count(UpsAt(comps), i + 1, j) <= Count(NamesAt(comps), i + 1, j)
    <2>1. i \in 1..Len(longer) /\ Len(longer) \in Nat
      BY <1>1
    <2>2. i \in Surviving(longer) <=> IsName(longer[i]) /\ \A j \in (i + 1)..(n + 1) : Kept(j)
      BY <1>1, <2>1, SurvivesLemma DEF Surviving
    <2>3. i \in Surviving(comps) <=> IsName(comps[i]) /\ \A j \in (i + 1)..n : Was(j)
      BY SurvivesLemma DEF Surviving
    <2>4. \A j \in (i + 1)..n : Kept(j) <=> Was(j)
      <3>1. \A j \in (i + 1)..n : j \in i..n
        OBVIOUS
      <3> QED BY <1>5, <3>1
    <2> HIDE DEF Kept, Was
    <2>5. \A j : j \in (i + 1)..(n + 1) <=> j \in (i + 1)..n \/ j = n + 1
      OBVIOUS
    <2>6. i \in Surviving(longer) <=> i \in Surviving(comps) /\ Kept(n + 1)
      BY <1>1, <2>2, <2>3, <2>4, <2>5
    <2> QED BY <2>6 DEF Kept
  <1> QED BY <1>1, <1>2, <1>3, <1>6, <1>7, Zenon DEF IsStep

(* The ranks of the survivors that stay.                                    *)
LEMMA RankSame ==
    ASSUME NEW S, NEW T, NEW i, \A k \in S \cup T : k <= i => (k \in S <=> k \in T)
    PROVE  Rank(S, i) = Rank(T, i)
  <1>1. {k \in S : k <= i} = {k \in T : k <= i}
    OBVIOUS
  <1> QED BY <1>1 DEF Rank

(* A step of canonicalize_path keeps the balance, if the stack has room.    *)
LEMMA ResolvedStep ==
    ASSUME NEW comps \in Seq(Components), NEW c \in Components,
           Len(comps) <= MaxParts, Resolved(comps)
    PROVE  Resolved(Append(comps, c))
  <1>0. PICK n \in Nat : n = Len(comps)
    OBVIOUS
  <1>1. PICK longer : longer = Append(comps, c)
    OBVIOUS
  <1>2. PICK S : S = Surviving(comps)
    OBVIOUS
  <1>3. PICK T : T = Surviving(longer)
    OBVIOUS
  <1>4. PICK k : k = canonicalize_path(comps)
    OBVIOUS
  <1>5. PICK l : l = canonicalize_path(longer)
    OBVIOUS
  <1>6. l = Resolve(k, c) /\ k \in NameSeqs
    BY <1>1, <1>4, <1>5, AppendLemma, CanonicalNames
  <1> DEFINE U(i) == Count(UpsAt(comps), i + 1, n)
             N(i) == Count(NamesAt(comps), i + 1, n)
             UU(i) == Count(UpsAt(longer), i + 1, n + 1)
             NN(i) == Count(NamesAt(longer), i + 1, n + 1)
             u == IF c = ".." THEN 1 ELSE 0
             v == IF IsName(c) THEN 1 ELSE 0
  <1>7. /\ Len(longer) = n + 1 /\ longer[n + 1] = c /\ \A i \in 1..n : longer[i] = comps[i]
        /\ S \in SUBSET (1..n) /\ T \in SUBSET (1..(n + 1))
        /\ n + 1 \in T <=> IsName(c)
        /\ \A i \in 1..n : /\ i \in T <=> i \in S /\ UU(i) <= NN(i)
                           /\ UU(i) = U(i) + u
                           /\ NN(i) = N(i) + v
    <2>1. /\ Len(longer) = n + 1 /\ longer[n + 1] = c /\ \A i \in 1..n : longer[i] = comps[i]
          /\ Surviving(comps) \in SUBSET (1..n) /\ Surviving(longer) \in SUBSET (1..(n + 1))
          /\ n + 1 \in Surviving(longer) <=> IsName(c)
          /\ \A i \in 1..n :
                /\ i \in Surviving(longer) <=> i \in Surviving(comps) /\ UU(i) <= NN(i)
                /\ UU(i) = U(i) + u
                /\ NN(i) = N(i) + v
      <3>1. IsStep(comps, longer, n, c)
        BY <1>0, <1>1, SurvivingStep
      <3> QED BY <3>1, Zenon DEF IsStep
    <2> HIDE DEF U, N, UU, NN, u, v
    <2> QED BY <1>2, <1>3, <2>1
  <1>8. \A i \in 1..n : U(i) \in Nat /\ N(i) \in Nat
    <2>1. ASSUME NEW i \in 1..n, NEW X PROVE Count(X, i + 1, n) \in Nat
      <3>1. i + 1 \in Int /\ n \in Int /\ i + 1 <= n + 1
        OBVIOUS
      <3> QED BY <3>1, CountLemma
    <2> QED BY <2>1
  <1>9. /\ Len(k) = Cardinality(S)
        /\ \A i \in S : k[Rank(S, i)] = comps[i]
        /\ \A i \in S : N(i) - U(i) = Cardinality(S) - Rank(S, i)
    BY <1>0, <1>2, <1>4 DEF Resolved
  <1>10. /\ IsFiniteSet(S) /\ Cardinality(S) \in Nat /\ Cardinality(S) <= n
         /\ \A i \in S : Rank(S, i) \in 1..Cardinality(S)
    BY <1>7, RankLemma
  <1>11. SUFFICES /\ Len(l) = Cardinality(T)
                  /\ \A i \in T : l[Rank(T, i)] = longer[i]
                  /\ \A i \in T : NN(i) - UU(i) = Cardinality(T) - Rank(T, i)
    BY <1>1, <1>3, <1>5, <1>7 DEF Resolved
  <1> HIDE DEF U, N, UU, NN
  <1>12. CASE c \in {"", "."}
    <2>1. u = 0 /\ v = 0 /\ ~IsName(c)
      BY <1>12 DEF IsName
    <2>2. T = S
      <3>1. \A i \in S : UU(i) <= NN(i)
        BY <1>7, <1>8, <1>9, <1>10, <2>1
      <3>2. \A i \in T : i \in 1..n
        BY <1>7, <2>1
      <3> QED BY <1>7, <3>1, <3>2
    <2>3. l = k
      BY <1>6, <1>12 DEF Resolve
    <2>4. \A i \in S : NN(i) - UU(i) = N(i) - U(i)
      BY <1>7, <1>8, <2>1
    <2> QED BY <1>7, <1>9, <2>2, <2>3, <2>4
  <1>13. CASE IsName(c)
    <2>1. u = 0 /\ v = 1
      BY <1>13 DEF IsName
    <2>2. T = S \cup {n + 1} /\ n + 1 \notin S
      <3>1. \A i \in S : UU(i) <= NN(i)
        BY <1>7, <1>8, <1>9, <1>10, <2>1
      <3>2. \A i \in T : i \in 1..n \/ i = n + 1
        BY <1>7
      <3>3. n + 1 \notin 1..n
        OBVIOUS
      <3> QED BY <1>7, <1>13, <3>1, <3>2, <3>3
    <2>3. Cardinality(T) = Cardinality(S) + 1
      BY <1>10, <2>2, FS_AddElement
    <2>4. l = Append(k, c)
      BY <1>6, <1>13 DEF Resolve, IsName
    <2>5. /\ Len(l) = Len(k) + 1 /\ l[Len(k) + 1] = c
          /\ \A m \in 1..Len(k) : l[m] = k[m]
      <3>1. c \in NameSet
        BY <1>13 DEF NameSet
      <3> QED BY <1>6, <2>4, <3>1, AppendProperties DEF NameSeqs
    <2>6. \A i \in S : Rank(T, i) = Rank(S, i)
      <3>1. ASSUME NEW i \in S PROVE Rank(S, i) = Rank(T, i)
        <4>1. ~(n + 1 <= i)
          BY <1>7
        <4> QED BY <2>2, <4>1, RankSame
      <3> QED BY <3>1
    <2>7. Rank(T, n + 1) = Cardinality(T)
      <3>0. \A m \in T : m \in 1..(n + 1)
        BY <1>7
      <3>1. {m \in T : m <= n + 1} = T
        BY <3>0
      <3> QED BY <3>1 DEF Rank
    <2>8. NN(n + 1) = 0 /\ UU(n + 1) = 0
      <3>1. ASSUME NEW X PROVE Count(X, (n + 1) + 1, n + 1) = 0
        <4>1. {j \in ((n + 1) + 1)..(n + 1) : j \in X} = {}
          OBVIOUS
        <4> QED BY <4>1, FS_EmptySet DEF Count
      <3> QED BY <3>1 DEF NN, UU
    <2>9. ASSUME NEW i \in S
          PROVE  l[Rank(T, i)] = longer[i] /\ NN(i) - UU(i) = Cardinality(T) - Rank(T, i)
      <3>1. i \in 1..n /\ Rank(S, i) \in 1..Len(k)
        BY <1>7, <1>9, <1>10
      <3>2. l[Rank(T, i)] = longer[i]
        BY <1>7, <1>9, <2>5, <2>6, <3>1
      <3>3. NN(i) - UU(i) = (N(i) - U(i)) + 1
        BY <1>7, <1>8, <2>1, <3>1
      <3> QED BY <1>9, <1>10, <2>3, <2>6, <3>1, <3>2, <3>3
    <2>10. l[Rank(T, n + 1)] = longer[n + 1]
             /\ NN(n + 1) - UU(n + 1) = Cardinality(T) - Rank(T, n + 1)
      BY <1>7, <1>9, <1>10, <2>3, <2>5, <2>7, <2>8
    <2> QED BY <1>9, <2>2, <2>3, <2>5, <2>9, <2>10
  <1>14. CASE c = ".."
    <2>1. u = 1 /\ v = 0 /\ ~IsName(c)
      BY <1>14 DEF IsName
    <2>2. l = Up(k)
      BY <1>6, <1>14 DEF Resolve
    <2>3. \A i \in T : i \in S
      BY <1>7, <2>1
    <2>4. CASE S = {}
      <3>1. T = {} /\ Cardinality(S) = 0
        BY <2>3, <2>4, FS_EmptySet
      <3>2. k = <<>>
        BY <1>6, <1>9, <3>1, EmptySeq DEF NameSeqs
      <3>3. l = <<>> /\ Len(l) = 0
        BY <2>2, <3>2 DEF Up
      <3> QED BY <2>4, <3>1, <3>3
    <2>5. CASE S # {}
      <3>1. PICK z \in S : /\ \A i \in S : i <= z
                           /\ Rank(S, z) = Cardinality(S)
                           /\ \A i \in S \ {z} : Rank(S, i) <= Cardinality(S) - 1
                           /\ Cardinality(S \ {z}) = Cardinality(S) - 1
        BY <1>7, <2>5, LastLemma
      <3>2. T = S \ {z}
        <4>1. \A i \in S : UU(i) <= NN(i) <=> Rank(S, i) + 1 <= Cardinality(S)
          <5>1. ASSUME NEW i \in S PROVE UU(i) <= NN(i) <=> Rank(S, i) + 1 <= Cardinality(S)
            <6>1. UU(i) = U(i) + 1 /\ NN(i) = N(i) /\ U(i) \in Nat /\ N(i) \in Nat
              BY <1>7, <1>8, <2>1
            <6>2. N(i) - U(i) = Cardinality(S) - Rank(S, i) /\ Rank(S, i) \in Int
              BY <1>9, <1>10
            <6> QED BY <1>10, <6>1, <6>2
          <5> QED BY <5>1
        <4>2. ~(Rank(S, z) + 1 <= Cardinality(S))
          BY <1>10, <3>1
        <4>3. \A i \in S \ {z} : Rank(S, i) + 1 <= Cardinality(S)
          BY <1>10, <3>1
        <4> QED BY <1>7, <2>3, <3>1, <4>1, <4>2, <4>3
      <3>3. Len(k) \in Nat /\ 1 <= Len(k) /\ Len(k) <= MaxParts
        BY <1>0, <1>9, <1>10, <3>1, PolicyAssumption
      <3>4. k # <<>> /\ l = SubSeq(k, 1, Len(k) - 1)
        <4>1. k # <<>>
          BY <3>3
        <4>2. Lesser(Len(k), MaxParts) = Len(k)
          BY <3>3 DEF Lesser
        <4> QED BY <2>2, <4>1, <4>2 DEF Up
      <3>5. Len(l) = Len(k) - 1 /\ \A m \in 1..(Len(k) - 1) : l[m] = k[m]
        <4>1. \A m \in 1..(Len(k) - 1) : k[m] \in NameSet
          <5>1. \A m \in 1..(Len(k) - 1) : m \in 1..Len(k)
            BY <3>3
          <5> QED BY <1>6, <5>1, ElementOfSeq DEF NameSeqs
        <4>2. PICK q \in Int : q = Len(k) - 1
          BY <3>3
        <4>3. /\ Len(SubSeq(k, 1, q)) = (IF 1 <= q THEN q - 1 + 1 ELSE 0)
              /\ \A m \in 1..(q - 1 + 1) : SubSeq(k, 1, q)[m] = k[1 + m - 1]
          BY <4>1, <4>2, SubSeqProperties
        <4>4. q - 1 + 1 = q /\ (1 <= q \/ q = 0) /\ \A m \in 1..q : 1 + m - 1 = m
          BY <3>3, <4>2
        <4> QED BY <3>4, <4>2, <4>3, <4>4
      <3>6. ASSUME NEW i \in T
            PROVE  l[Rank(T, i)] = longer[i] /\ NN(i) - UU(i) = Cardinality(T) - Rank(T, i)
        <4>1. i \in S /\ i # z /\ i \in 1..n /\ i <= z /\ z \in 1..n
          BY <1>7, <3>1, <3>2, <3>6
        <4>2. Rank(S, i) = Rank(T, i)
          <5>1. ~(z <= i)
            BY <4>1
          <5> QED BY <3>2, <5>1, RankSame
        <4>3. Rank(S, i) \in 1..(Len(k) - 1)
          BY <1>9, <1>10, <3>1, <4>1
        <4>4. l[Rank(T, i)] = longer[i]
          BY <1>7, <1>9, <3>5, <4>1, <4>2, <4>3
        <4>5. NN(i) - UU(i) = (N(i) - U(i)) - 1
          BY <1>7, <1>8, <2>1, <4>1
        <4> QED BY <1>9, <1>10, <3>1, <3>2, <4>1, <4>2, <4>3, <4>4, <4>5
      <3> QED BY <1>9, <3>1, <3>2, <3>5, <3>6
    <2> QED BY <2>4, <2>5
  <1> QED BY <1>12, <1>13, <1>14 DEF IsName

ResolvedInv == PathInv /\ Len(path.comps) <= MaxLen /\ Resolved(path.comps)

(* canonicalize_path leaves exactly the names no ".." cancels, in their     *)
(* order, on every path whose components fit on its stack.                  *)
THEOREM CanonicalFormIsRight ==
    ASSUME MaxLen <= MaxParts
    PROVE  Spec => []CanonicalResolves
  <1>1. Init => ResolvedInv
    <2> SUFFICES ASSUME Init PROVE ResolvedInv
      OBVIOUS
    <2>1. path.comps = <<>> /\ Len(<<>>) = 0 /\ <<>> \in Seq(Components)
      BY EmptySeq DEF Init, Path
    <2>2. PathInv
      BY PathInit
    <2>3. canonicalize_path(<<>>) = <<>>
      <3>1. PICK f : IsRun(f, <<>>, 0) /\ canonicalize_path(<<>>) = f[0]
        BY <2>1, RunLemma
      <3> QED BY <3>1 DEF IsRun
    <2>4. Surviving(<<>>) = {}
      BY <2>1 DEF Surviving
    <2>5. Resolved(<<>>)
      BY <2>1, <2>3, <2>4, FS_EmptySet DEF Resolved
    <2> QED BY <2>1, <2>2, <2>5, PolicyAssumption DEF ResolvedInv
  <1>2. ResolvedInv /\ [Next]_path => ResolvedInv'
    <2> SUFFICES ASSUME ResolvedInv, [Next]_path PROVE ResolvedInv'
      OBVIOUS
    <2>1. CASE UNCHANGED path
      BY <2>1 DEF ResolvedInv, PathInv
    <2>2. CASE Next
      <3>1. PICK c \in Components : path' = [path EXCEPT !.comps = Append(path.comps, c)]
        BY <2>2 DEF Next
      <3>2. PICK comps \in Seq(Components) : comps = path.comps
        BY DEF ResolvedInv, PathInv
      <3>3. path'.comps = Append(comps, c)
        BY <3>1, <3>2 DEF ResolvedInv, PathInv
      <3>4. PathInv'
        BY <3>1, <3>2, AppendProperties DEF ResolvedInv, PathInv
      <3>5. Len(comps) \in Nat /\ Len(comps) < MaxLen /\ Len(comps) <= MaxParts
        <4>1. Len(path.comps) < MaxLen
          BY <2>2 DEF Next
        <4> QED BY <3>2, <4>1, PolicyAssumption
      <3>6. Len(Append(comps, c)) <= MaxLen
        BY <3>5, AppendProperties, PolicyAssumption
      <3>7. Resolved(Append(comps, c))
        BY <3>2, <3>5, ResolvedStep DEF ResolvedInv
      <3> QED BY <3>3, <3>4, <3>6, <3>7 DEF ResolvedInv
    <2> QED BY <2>1, <2>2
  <1>3. ResolvedInv => CanonicalResolves
    BY DEF ResolvedInv, Resolved, CanonicalResolves, Rank
  <1> QED BY <1>1, <1>2, <1>3, PTL DEF Spec
=============================================================================
