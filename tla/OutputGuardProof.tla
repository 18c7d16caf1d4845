-------------------------- MODULE OutputGuardProof --------------------------
(***************************************************************************)
(* Proofs about OutputGuard: typing for any number of threads, and the cap *)
(* for a program whose writes do not overlap.                              *)
(***************************************************************************)
EXTENDS OutputGuard, TLAPS

Size == 0..(SizeMod - 1)

(* size_t arithmetic stays in its range, and is exact where it does not     *)
(* wrap round.                                                              *)
LEMMA WrapLemma ==
    ASSUME NEW a \in Size, NEW b \in Size
    PROVE  /\ WrapSub(a, b) \in Size /\ WrapAdd(a, b) \in Size
           /\ b <= a => WrapSub(a, b) = a - b
           /\ a + b < SizeMod => WrapAdd(a, b) = a + b
  BY GuardAssumption DEF WrapSub, WrapAdd, Size

(* Limits are size_t values.                                                *)
LEMMA LimitType == \A fd \in Guarded : limit[fd] \in Size
  BY GuardAssumption DEF limit, Guarded, Size

-----------------------------------------------------------------------------
(* Typing.  A thread that charges or stores is writing to a limited stream, *)
(* and what it passes on is never longer than what it has to write.         *)
TypeInv ==
    /\ TypeOK
    /\ \A t \in Threads :
          /\ pc[t] # "app" => Fd(t) \in {1, 2, 3}
          /\ pc[t] \in {"charge", "store"} => Limited(Fd(t))
          /\ pc[t] = "policy" => count[t] <= N(t)
          /\ pc[t] = "store" => count[t] <= N(t)

Todo == [fd : {0, 1, 2, 3}, n : Size]

(* What Goto leaves in the variables it sets.                               *)
LEMMA GotoLemma ==
    ASSUME TypeInv, NEW t \in Threads, NEW p \in {"app", "pre", "charge", "store", "policy"},
           NEW n \in Size, NEW b \in Size, Goto(t, p, n, b),
           used' \in [Guarded -> Size], written' \in [Guarded -> 0..WrittenCap],
           NEW td \in Todo, todo' = [todo EXCEPT ![t] = td],
           p # "app" => td.fd \in {1, 2, 3},
           p \in {"charge", "store"} => Limited(td.fd),
           p \in {"store", "policy"} => n <= td.n
    PROVE  TypeInv'
  <1>1. TypeOK'
    BY DEF TypeInv, TypeOK, Goto, Size, Todo
  <1>2. \A u \in Threads : /\ u # t => pc'[u] = pc[u] /\ todo'[u] = todo[u] /\ count'[u] = count[u]
                           /\ pc'[t] = p /\ todo'[t] = td /\ count'[t] = n
    BY DEF TypeInv, TypeOK, Goto
  <1> QED BY <1>1, <1>2 DEF TypeInv, Fd, N, Limited

(* The call returns: the thread is back in the program or tries again.      *)
LEMMA ReturnLemma ==
    ASSUME TypeInv, NEW t \in Threads, pc[t] # "app", NEW left \in Size, Return(t, left),
           used' \in [Guarded -> Size], written' \in [Guarded -> 0..WrittenCap]
    PROVE  TypeInv'
  <1>1. 0 \in Size
    BY GuardAssumption DEF Size
  <1>2. todo[t] \in Todo /\ Fd(t) \in {1, 2, 3}
    BY DEF TypeInv, TypeOK, Todo, Size
  <1>3. CASE left > 0
    <2>1. [todo[t] EXCEPT !.n = left] \in Todo /\ [todo[t] EXCEPT !.n = left].fd = Fd(t)
      BY <1>2 DEF Todo, Fd
    <2> QED BY <1>1, <1>2, <1>3, <2>1, GotoLemma DEF Return
  <1>4. CASE ~(left > 0)
    <2>1. Nothing \in Todo
      BY <1>1 DEF Nothing, Todo
    <2> QED BY <1>1, <1>4, <2>1, GotoLemma DEF Return
  <1> QED BY <1>3, <1>4

(* One step keeps the types, with any number of threads.                    *)
LEMMA TypeStep == TypeInv /\ [Next]_vars => TypeInv'
  <1> SUFFICES ASSUME TypeInv, [Next]_vars PROVE TypeInv'
    OBVIOUS
  <1>0. /\ 0 \in Size /\ SizeMod \in Nat
        /\ used \in [Guarded -> Size] /\ written \in [Guarded -> 0..WrittenCap]
    BY GuardAssumption DEF TypeInv, TypeOK, Size
  <1>f. ASSUME NEW t \in Threads, pc[t] # "app", Fail(t) PROVE TypeInv'
    BY <1>0, <1>f, ReturnLemma DEF Fail
  <1>g. ASSUME NEW t \in Threads, NEW p \in {"charge", "store", "policy"}, NEW n \in Size,
               NEW b \in Size, pc[t] # "app", Goto(t, p, n, b), UNCHANGED <<written, todo>>,
               used' \in [Guarded -> Size],
               p \in {"charge", "store"} => Limited(Fd(t)), p \in {"store", "policy"} => n <= N(t)
        PROVE  TypeInv'
    <2>1. PICK td \in Todo : td = todo[t] /\ todo' = [todo EXCEPT ![t] = td]
      BY <1>g DEF TypeInv, TypeOK, Todo, Size
    <2>2. /\ td.fd \in {1, 2, 3} /\ p \in {"app", "pre", "charge", "store", "policy"}
          /\ p \in {"charge", "store"} => Limited(td.fd)
          /\ p \in {"store", "policy"} => n <= td.n
      BY <1>g, <2>1 DEF TypeInv, Fd, N
    <2>3. written' \in [Guarded -> 0..WrittenCap]
      BY <1>0, <1>g
    <2>4. todo' = [todo EXCEPT ![t] = td] /\ Goto(t, p, n, b) /\ used' \in [Guarded -> Size]
      BY <1>g, <2>1
    <2> QED BY <2>2, <2>3, <2>4, GotoLemma, Zenon
  <1>1. CASE Expire
    BY <1>1 DEF Expire, TypeInv, TypeOK, Fd, N, Limited
  <1>2. ASSUME NEW t \in Threads, NEW fd \in Guarded \cup Copies, NEW n \in Lengths,
               Begin(t, fd, n)
        PROVE  TypeInv'
    <2>1. [fd |-> fd, n |-> n] \in Todo /\ [fd |-> fd, n |-> n].fd \in {1, 2, 3}
      BY GuardAssumption DEF Todo, Guarded, Copies, Size
    <2> QED BY <1>0, <1>2, <2>1, GotoLemma DEF Begin
  <1>3. ASSUME NEW t \in Threads, GiveUp(t) \/ PreTimedOut(t) \/ PreRefusedByRule(t) \/ KernelFails(t)
        PROVE  TypeInv'
    BY <1>3, <1>f DEF GiveUp, PreTimedOut, PreRefusedByRule, KernelFails
  <1>t. ASSUME NEW t \in Threads
        PROVE  /\ N(t) \in Size /\ count[t] \in Size /\ base[t] \in Size
               /\ Limited(Fd(t)) => used[Fd(t)] \in Size /\ limit[Fd(t)] \in Size
    BY LimitType DEF TypeInv, TypeOK, N, Fd, Limited, Size
  <1>4. ASSUME NEW t \in Threads, PreUncounted(t) PROVE TypeInv'
    BY <1>0, <1>4, <1>g, <1>t DEF PreUncounted, Size
  <1>5. ASSUME NEW t \in Threads, PreAtLimit(t) PROVE TypeInv'
    BY <1>0, <1>5, <1>t, ReturnLemma DEF PreAtLimit
  <1>6. ASSUME NEW t \in Threads, PreBelowLimit(t) PROVE TypeInv'
    BY <1>0, <1>6, <1>g, <1>t DEF PreBelowLimit
  <1>7. ASSUME NEW t \in Threads, pc[t] = "charge", NEW loaded \in Loads(t),
               PreTooLong(t, loaded)
        PROVE  TypeInv'
    BY <1>7, <1>f DEF PreTooLong
  <1>8. ASSUME NEW t \in Threads, pc[t] = "charge", NEW loaded \in Loads(t),
               NEW again \in {loaded, used[Fd(t)]}, PreCharge(t, loaded, again)
        PROVE  TypeInv'
    <2>1. Limited(Fd(t)) /\ loaded \in Size /\ again \in Size
      BY <1>8, <1>t DEF TypeInv, Loads
    <2>2. Remaining(t, loaded) \in Size
      BY <1>t, <2>1, WrapLemma DEF Remaining
    <2>3. Requested(t, loaded) \in Size /\ Requested(t, loaded) <= N(t)
      BY <1>t, <2>2 DEF Requested, Size
    <2>4. WrapAdd(again, Requested(t, loaded)) \in Size
      BY <2>1, <2>3, WrapLemma
    <2> QED BY <1>0, <1>8, <1>g, <2>1, <2>3, <2>4 DEF PreCharge
  <1>9. ASSUME NEW t \in Threads, PreStore(t) PROVE TypeInv'
    <2>1. used' \in [Guarded -> Size]
      BY <1>0, <1>9, <1>t DEF PreStore
    <2>2. count[t] <= N(t)
      BY <1>9 DEF PreStore, TypeInv
    <2> QED BY <1>0, <1>9, <1>g, <1>t, <2>1, <2>2 DEF PreStore
  <1>10. ASSUME NEW t \in Threads, NEW k \in 0..WrittenCap, KernelWrite(t, k) PROVE TypeInv'
    <2>1. Fd(t) \in {1, 2, 3} /\ StreamOf(Fd(t)) \in Guarded
      BY <1>10 DEF KernelWrite, TypeInv, StreamOf, Guarded
    <2>2. written[StreamOf(Fd(t))] + k \in 0..WrittenCap
      BY <1>0, <1>10, <2>1, GuardAssumption DEF KernelWrite
    <2>3. written' \in [Guarded -> 0..WrittenCap]
      BY <1>0, <1>10, <2>1, <2>2 DEF KernelWrite
    <2>4. N(t) - k \in Size
      BY <1>0, <1>10, <1>t DEF KernelWrite, TypeInv, Size
    <2> QED BY <1>0, <1>10, <2>3, <2>4, ReturnLemma DEF KernelWrite
  <1>11. CASE UNCHANGED vars
    BY <1>11 DEF vars, TypeInv, TypeOK, Fd, N, Limited
  <1> QED
    BY <1>1, <1>2, <1>3, <1>4, <1>5, <1>6, <1>7, <1>8, <1>9, <1>10, <1>11 DEF Next, Step

(* Initially everything has its type.                                       *)
LEMMA TypeInit == Init => TypeInv
  <1> SUFFICES ASSUME Init PROVE TypeInv
    OBVIOUS
  <1>1. 0 \in Size /\ 0 \in 0..WrittenCap /\ Nothing \in Todo
    BY GuardAssumption DEF Size, Nothing, Todo
  <1> QED BY <1>1 DEF Init, TypeInv, TypeOK, Todo, Size

(* Every counter and every length passed on is a size_t value in every      *)
(* reachable state, however many threads write through whichever call and   *)
(* descriptor.                                                              *)
THEOREM TypeCorrect == Spec => []TypeOK
  <1>1. TypeInv => TypeOK
    BY DEF TypeInv
  <1> QED BY <1>1, TypeInit, TypeStep, PTL DEF Spec

-----------------------------------------------------------------------------
(* The cap.  It holds for a program whose writes do not overlap, made with  *)
(* write or pwrite64 on the streams' own descriptors; each of those         *)
(* conditions is needed (README, limits of OutputGuard).                    *)
Sequential == (\A t, u \in Threads : t = u) /\ AppMay = {}

(* The charge lies between the output and the limit.  It is what the thread *)
(* has loaded until it stores it again; a charge that is stored covers the  *)
(* bytes the kernel is about to get as well.                                *)
Covered(fd) == written[fd] <= used[fd] /\ used[fd] <= limit[fd]

CapPhase(t) ==
    /\ pc[t] # "app" => Fd(t) \in Guarded
    /\ pc[t] = "charge" => base[t] = used[Fd(t)]
    /\ pc[t] = "store" => base[t] = used[Fd(t)] + count[t] /\ base[t] <= limit[Fd(t)]
    /\ pc[t] = "policy" /\ Limited(Fd(t)) => written[Fd(t)] + count[t] <= used[Fd(t)]

CapInv ==
    /\ \A fd \in Guarded : Limited(fd) => Covered(fd)
    /\ \A t \in Threads : CapPhase(t)

(* Back in the program or about to try again, nothing is on its way.        *)
LEMMA CapReturn ==
    ASSUME TypeInv, CapInv, Sequential, NEW t \in Threads, pc[t] # "app",
           NEW left \in Size, Return(t, left),
           \A fd \in Guarded : Limited(fd) => Covered(fd)'
    PROVE  CapInv'
  <1>1. todo[t] \in Todo /\ Fd(t) \in Guarded
    BY DEF TypeInv, TypeOK, Todo, Size, CapInv, CapPhase
  <1>2. pc'[t] \in {"app", "pre"}
    BY DEF Return, Goto, TypeInv, TypeOK
  <1>3. pc'[t] # "app" => todo'[t].fd = Fd(t)
    <2>1. CASE left > 0
      <3>1. todo' = [todo EXCEPT ![t] = [todo[t] EXCEPT !.n = left]]
        BY <2>1 DEF Return
      <3>2. todo'[t] = [todo[t] EXCEPT !.n = left]
        BY <3>1 DEF TypeInv, TypeOK
      <3>3. [todo[t] EXCEPT !.n = left].fd = todo[t].fd
        BY <1>1 DEF Todo
      <3> QED BY <3>2, <3>3 DEF Fd
    <2>2. CASE ~(left > 0)
      BY <2>2 DEF Return, Goto, TypeInv, TypeOK
    <2> QED BY <2>1, <2>2
  <1>4. CapPhase(t)'
    BY <1>1, <1>2, <1>3 DEF CapPhase, Fd
  <1> QED BY <1>4 DEF CapInv, Sequential, Limited

(* One step of such a program.                                              *)
LEMMA CapStep ==
    ASSUME Sequential, TypeInv, CapInv, [Next]_vars
    PROVE  CapInv'
  <1>0. 0 \in Size /\ SizeMod \in Nat /\ \A fd \in Guarded : limit[fd] \in Size /\ used[fd] \in Size
    BY GuardAssumption, LimitType DEF TypeInv, TypeOK, Size
  <1>s. ASSUME UNCHANGED <<used, written>>
        PROVE  \A fd \in Guarded : Limited(fd) => Covered(fd)'
    BY <1>s DEF CapInv, Covered
  <1>f. ASSUME NEW t \in Threads, pc[t] # "app", Fail(t) PROVE CapInv'
    BY <1>0, <1>f, <1>s, CapReturn DEF Fail
  <1>t. ASSUME NEW t \in Threads
        PROVE  /\ N(t) \in Size /\ count[t] \in Size /\ base[t] \in Size /\ todo[t] \in Todo
               /\ pc[t] # "app" => Fd(t) \in Guarded /\ limit[Fd(t)] \in Size
    BY <1>0 DEF TypeInv, TypeOK, N, Fd, CapInv, CapPhase, Size, Todo
  <1>g. ASSUME NEW t \in Threads, NEW p, NEW n, NEW b, Goto(t, p, n, b)
        PROVE  pc'[t] = p /\ count'[t] = n /\ base'[t] = b
    BY <1>g DEF Goto, TypeInv, TypeOK
  <1>p. ASSUME NEW t \in Threads, CapPhase(t)', \A fd \in Guarded : Limited(fd) => Covered(fd)'
        PROVE  CapInv'
    BY <1>p DEF CapInv, Sequential, Limited
  <1>1. CASE Expire
    BY <1>1 DEF Expire, CapInv, CapPhase, Covered, Fd, Limited
  <1>2. ASSUME NEW t \in Threads, NEW fd \in Guarded \cup Copies, NEW n \in Lengths,
               Begin(t, fd, n)
        PROVE  CapInv'
    <2>1. pc'[t] = "pre" /\ todo'[t].fd = fd /\ fd \in Guarded
      BY <1>2 DEF Begin, Goto, TypeInv, TypeOK, Copies, Sequential
    <2> QED BY <1>2, <1>p, <1>s, <2>1 DEF Begin, CapPhase, Fd
  <1>3. ASSUME NEW t \in Threads, GiveUp(t) \/ PreTimedOut(t) \/ PreRefusedByRule(t) \/ KernelFails(t)
        PROVE  CapInv'
    BY <1>3, <1>f DEF GiveUp, PreTimedOut, PreRefusedByRule, KernelFails
  <1>4. ASSUME NEW t \in Threads, PreUncounted(t) PROVE CapInv'
    <2>1. ~Limited(Fd(t)) /\ pc'[t] = "policy" /\ todo' = todo /\ UNCHANGED <<used, written>>
      BY <1>4, <1>g DEF PreUncounted, Sequential
    <2>2. CapPhase(t)'
      BY <1>4, <1>t, <2>1 DEF PreUncounted, CapPhase, Fd, Limited
    <2> QED BY <1>p, <1>s, <2>1, <2>2
  <1>5. ASSUME NEW t \in Threads, PreAtLimit(t) PROVE CapInv'
    BY <1>0, <1>5, <1>s, <1>t, CapReturn DEF PreAtLimit
  <1>6. ASSUME NEW t \in Threads, PreBelowLimit(t) PROVE CapInv'
    <2>1. /\ pc'[t] = "charge" /\ base'[t] = used[Fd(t)] /\ todo' = todo
          /\ UNCHANGED <<used, written>> /\ pc[t] # "app"
      BY <1>6, <1>g DEF PreBelowLimit
    <2>2. CapPhase(t)'
      BY <1>t, <2>1 DEF CapPhase, Fd
    <2> QED BY <1>p, <1>s, <2>1, <2>2
  <1>7. ASSUME NEW t \in Threads, pc[t] = "charge", NEW loaded \in Loads(t),
               PreTooLong(t, loaded)
        PROVE  CapInv'
    BY <1>7, <1>f DEF PreTooLong
  <1>8. ASSUME NEW t \in Threads, pc[t] = "charge", NEW loaded \in Loads(t),
               NEW again \in {loaded, used[Fd(t)]}, PreCharge(t, loaded, again)
        PROVE  CapInv'
    <2> DEFINE r == Requested(t, loaded)
               u == used[Fd(t)]
               l == limit[Fd(t)]
    <2>1. /\ Limited(Fd(t)) /\ Fd(t) \in Guarded /\ u \in Size /\ l \in Size /\ u <= l
          /\ loaded = u /\ again = u
      BY <1>0, <1>8 DEF TypeInv, Loads, CapInv, CapPhase, Covered, Limited
    <2>2. Remaining(t, loaded) = l - u
      BY <2>1, WrapLemma DEF Remaining
    <2>3. r \in Size /\ u + r <= l
      BY <1>0, <1>t, <2>1, <2>2 DEF Requested, Size
    <2>4. WrapAdd(again, r) = u + r
      BY <1>0, <2>1, <2>3, WrapLemma DEF Size
    <2>5. /\ pc'[t] = "store" /\ count'[t] = r /\ base'[t] = u + r
          /\ todo' = todo /\ UNCHANGED <<used, written>>
      BY <1>8, <1>g, <2>4 DEF PreCharge
    <2>6. CapPhase(t)'
      BY <2>1, <2>3, <2>5 DEF CapPhase, Fd
    <2> QED BY <1>p, <1>s, <2>5, <2>6
  <1>9. ASSUME NEW t \in Threads, PreStore(t) PROVE CapInv'
    <2>1. /\ Limited(Fd(t)) /\ Fd(t) \in Guarded /\ Covered(Fd(t))
          /\ base[t] = used[Fd(t)] + count[t] /\ base[t] <= limit[Fd(t)]
      BY <1>9 DEF PreStore, TypeInv, CapInv, CapPhase, Limited
    <2>2. /\ pc'[t] = "policy" /\ count'[t] = count[t] /\ todo' = todo /\ written' = written
          /\ used' = [used EXCEPT ![Fd(t)] = base[t]]
      BY <1>9, <1>g DEF PreStore
    <2>3. used'[Fd(t)] = base[t] /\ \A fd \in Guarded : fd # Fd(t) => used'[fd] = used[fd]
      BY <2>1, <2>2 DEF TypeInv, TypeOK
    <2>4. /\ count[t] \in Nat /\ used[Fd(t)] \in Nat /\ written[Fd(t)] \in Nat
      BY <1>0, <1>t, <2>1, GuardAssumption DEF TypeInv, TypeOK, Size
    <2>5. Covered(Fd(t))' /\ written'[Fd(t)] + count'[t] <= used'[Fd(t)]
      BY <2>1, <2>2, <2>3, <2>4 DEF Covered, Fd
    <2>6. CapPhase(t)'
      BY <2>1, <2>2, <2>5 DEF CapPhase, Fd
    <2>7. \A fd \in Guarded : Limited(fd) => Covered(fd)'
      BY <2>2, <2>3, <2>5 DEF CapInv, Covered, Fd
    <2> QED BY <1>p, <2>6, <2>7
  <1>10. ASSUME NEW t \in Threads, NEW k \in 0..WrittenCap, KernelWrite(t, k) PROVE CapInv'
    <2>1. /\ pc[t] = "policy" /\ Fd(t) \in Guarded /\ StreamOf(Fd(t)) = Fd(t) /\ k <= count[t]
          /\ used' = used /\ written' = [written EXCEPT ![Fd(t)] = @ + k]
          /\ Return(t, N(t) - k)
      BY <1>10, <1>t DEF KernelWrite, StreamOf
    <2>2. N(t) - k \in Size
      BY <1>0, <1>t, <2>1, GuardAssumption DEF TypeInv, Size
    <2>3. /\ written'[Fd(t)] = written[Fd(t)] + k
          /\ \A fd \in Guarded : fd # Fd(t) => written'[fd] = written[fd]
      BY <2>1 DEF TypeInv, TypeOK
    <2>4. Limited(Fd(t)) => Covered(Fd(t)) /\ written[Fd(t)] + count[t] <= used[Fd(t)]
      BY <2>1 DEF CapInv, CapPhase
    <2>5. /\ count[t] \in Nat /\ used[Fd(t)] \in Nat /\ written[Fd(t)] \in Nat
      BY <1>0, <1>t, <2>1, GuardAssumption DEF TypeInv, TypeOK, Size
    <2>6. Limited(Fd(t)) => written'[Fd(t)] <= used'[Fd(t)] /\ used'[Fd(t)] <= limit[Fd(t)]
      BY <2>1, <2>3, <2>4, <2>5, GuardAssumption DEF Covered
    <2>7. \A fd \in Guarded : Limited(fd) => Covered(fd)'
      BY <2>1, <2>3, <2>6 DEF CapInv, Covered
    <2> QED BY <2>1, <2>2, <2>7, CapReturn
  <1>11. CASE UNCHANGED vars
    BY <1>11 DEF vars, CapInv, CapPhase, Covered, Fd, Limited
  <1> QED
    BY <1>1, <1>2, <1>3, <1>4, <1>5, <1>6, <1>7, <1>8, <1>9, <1>10, <1>11 DEF Next, Step

(* The inductive invariant holds throughout.                                *)
LEMMA CapHolds == ASSUME Sequential PROVE Spec => [](TypeInv /\ CapInv)
  <1>1. Init => TypeInv /\ CapInv
    <2> SUFFICES ASSUME Init PROVE CapInv
      BY TypeInit
    <2>1. \A fd \in Guarded : limit[fd] \in Nat
      BY LimitType, GuardAssumption DEF Size
    <2> QED BY <2>1 DEF Init, CapInv, CapPhase, Covered
  <1>2. TypeInv /\ CapInv /\ [Next]_vars => (TypeInv /\ CapInv)'
    BY TypeStep, CapStep
  <1> QED BY <1>1, <1>2, PTL DEF Spec

(* For one thread that writes with write or pwrite64 to the streams' own    *)
(* descriptors: a limited stream never gets more bytes than its cap,        *)
(* whatever lengths are asked for, whichever limit action is configured and *)
(* whatever part of a write the kernel accepts.                             *)
THEOREM OutputIsLimited == ASSUME Sequential PROVE Spec => []OutputWithinLimit
  <1>1. TypeInv /\ CapInv => OutputWithinLimit
    <2> SUFFICES ASSUME TypeInv, CapInv, NEW fd \in Guarded, Limited(fd) PROVE written[fd] <= limit[fd]
      BY DEF OutputWithinLimit
    <2>1. written[fd] \in Nat /\ used[fd] \in Nat /\ limit[fd] \in Nat
      BY LimitType, GuardAssumption DEF TypeInv, TypeOK, Size
    <2> QED BY <2>1 DEF CapInv, Covered
  <1> QED BY <1>1, CapHolds, PTL

(* Under the same conditions the counter covers what was written and never  *)
(* passes the limit, so that limit - used in enforce_output_limit does not  *)
(* wrap round.                                                              *)
THEOREM ChargeIsSound == ASSUME Sequential PROVE Spec => []ChargeCoversOutput
  <1>1. TypeInv /\ CapInv => ChargeCoversOutput
    BY DEF CapInv, Covered, ChargeCoversOutput
  <1> QED BY <1>1, CapHolds, PTL
=============================================================================
