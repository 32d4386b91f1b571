-------------------------- MODULE HostEventProofs --------------------------
(***************************************************************************)
(* Proofs about HostEvent for every set of threads and every bound: the     *)
(* type invariant, the two safety invariants, and the refinement of the     *)
(* counting event of EventSpec (its safety part).                           *)
(***************************************************************************)
EXTENDS HostEvent, TLAPS

(* A thread has a wake target exactly while it is about to call FUTEX_WAKE, *)
(* and never wakes itself.                                                  *)
TargetMeaning ==
    \A t \in Threads : pc[t] = "futexWake" <=> target[t] \in Threads \ {t}

(* The inductive invariant.  NoLostWake alone is not inductive: a waker     *)
(* must be known to aim at a real thread other than itself.                 *)
IInv == TypeOK /\ CounterMeaning /\ TargetMeaning /\ NoLostWake

LEMMA InitIInv == Init => IInv
  BY NoThreadAssumption, MaxTokensAssumption
  DEF Init, IInv, TypeOK, CounterMeaning, TargetMeaning, NoLostWake, WaitLocs

LEMMA NextIInv == IInv /\ [Next]_vars => IInv'
<1> SUFFICES ASSUME IInv, [Next]_vars PROVE IInv'
  OBVIOUS
<1> USE NoThreadAssumption, MaxTokensAssumption
    DEF IInv, TypeOK, CounterMeaning, TargetMeaning, NoLostWake, WaitLocs, Goto
<1>1. ASSUME NEW t \in Threads, CallWait(t) PROVE IInv'
  BY <1>1 DEF CallWait
<1>2. ASSUME NEW t \in Threads, WaitDecrement(t) PROVE IInv'
  BY <1>2 DEF WaitDecrement
<1>3. ASSUME NEW t \in Threads, FutexWait(t) PROVE IInv'
  BY <1>3 DEF FutexWait
<1>4. ASSUME NEW t \in Threads, SpuriousWake(t) PROVE IInv'
  BY <1>4 DEF SpuriousWake
<1>5. ASSUME NEW t \in Threads, Recheck(t) PROVE IInv'
  BY <1>5 DEF Recheck
<1>6. ASSUME NEW t \in Threads, WaitReturn(t) PROVE IInv'
  BY <1>6 DEF WaitReturn
<1>7. ASSUME NEW t \in Threads, NEW u \in Threads, NEW w \in BOOLEAN,
             WakeIncrement(t, u, w)
      PROVE  IInv'
  <2>1. CASE value[u] # 0
    BY <1>7, <2>1 DEF WakeIncrement
  <2>2. CASE value[u] = 0
    BY <1>7, <2>2 DEF WakeIncrement
  <2> QED BY <2>1, <2>2
<1>8. ASSUME NEW t \in Threads, FutexWake(t) PROVE IInv'
  BY <1>8 DEF FutexWake, FutexWakes
<1>9. CASE UNCHANGED vars
  BY <1>9 DEF vars
<1> QED
  BY <1>1, <1>2, <1>3, <1>4, <1>5, <1>6, <1>7, <1>8, <1>9 DEF Next, WaitStep

(* The state of every event and of every host request keeps its type; in    *)
(* particular a counter stays in -1 .. MaxTokens.                           *)
THEOREM TypeCorrect == Spec => []TypeOK
  BY InitIInv, NextIInv, PTL DEF Spec, IInv

(* HandleThreadWait and HandleThreadWake never lose a wake-up.              *)
THEOREM NoWakeIsLost == Spec => []NoLostWake
  BY InitIInv, NextIInv, PTL DEF Spec, IInv

(* Every step of the futex protocol is a step of the counting event, or     *)
(* changes neither its tokens nor its waiters.                              *)
LEMMA StepSimulation ==
    IInv /\ [Next]_vars => [Abstract!EventNext]_(Abstract!eventVars)
<1> SUFFICES ASSUME IInv, [Next]_vars
             PROVE  [Abstract!EventNext]_(Abstract!eventVars)
  OBVIOUS
<1> USE DEF IInv, TypeOK, CounterMeaning, WaitLocs, Goto, Tokens, Waiting
<1>1. ASSUME NEW t \in Threads, CallWait(t) PROVE Abstract!EventNext
  <2>1. Waiting' = Waiting \cup {t} /\ t \notin Waiting
    BY <1>1 DEF CallWait
  <2>2. Tokens' = Tokens
    BY <1>1 DEF CallWait
  <2> QED BY <2>1, <2>2 DEF Abstract!EventNext, Abstract!BeginWait
<1>2. ASSUME NEW t \in Threads, WaitDecrement(t)
      PROVE  UNCHANGED <<Tokens, Waiting>>
  BY <1>2 DEF WaitDecrement
<1>3. ASSUME NEW t \in Threads, FutexWait(t)
      PROVE  UNCHANGED <<Tokens, Waiting>>
  BY <1>3 DEF FutexWait
<1>4. ASSUME NEW t \in Threads, SpuriousWake(t)
      PROVE  UNCHANGED <<Tokens, Waiting>>
  BY <1>4 DEF SpuriousWake
<1>5. ASSUME NEW t \in Threads, Recheck(t)
      PROVE  UNCHANGED <<Tokens, Waiting>>
  BY <1>5 DEF Recheck
<1>6. ASSUME NEW t \in Threads, WaitReturn(t) PROVE Abstract!EventNext
  <2>1. Waiting' = Waiting \ {t} /\ t \in Waiting
    BY <1>6 DEF WaitReturn
  <2>2. Tokens[t] > 0
    BY <1>6 DEF WaitReturn
  <2>3. \A x \in Threads :
          Tokens'[x] = IF x = t THEN Tokens[x] - 1 ELSE Tokens[x]
    BY <1>6 DEF WaitReturn
  <2>4. Tokens' = [Tokens EXCEPT ![t] = @ - 1]
    BY <2>3
  <2> QED BY <2>1, <2>2, <2>4 DEF Abstract!EventNext, Abstract!EndWait
<1>7. ASSUME NEW t \in Threads, NEW u \in Threads, NEW w \in BOOLEAN,
             WakeIncrement(t, u, w)
      PROVE  Abstract!EventNext
  <2>1. Waiting' = Waiting
    BY <1>7 DEF WakeIncrement
  <2>2. \A x \in Threads :
          /\ value'[x] = IF x = u THEN value[x] + 1 ELSE value[x]
          /\ pc'[x] \in WaitLocs <=> pc[x] \in WaitLocs
    BY <1>7 DEF WakeIncrement
  <2>3. \A x \in Threads :
          Tokens'[x] = IF x = u THEN Tokens[x] + 1 ELSE Tokens[x]
    BY <2>2
  <2>4. Tokens' = [Tokens EXCEPT ![u] = @ + 1]
    BY <2>3
  <2> QED BY <2>1, <2>4 DEF Abstract!EventNext, Abstract!Deposit
<1>8. ASSUME NEW t \in Threads, FutexWake(t)
      PROVE  UNCHANGED <<Tokens, Waiting>>
  BY <1>8, NoThreadAssumption DEF FutexWake, FutexWakes, TargetMeaning
<1>9. CASE UNCHANGED vars
  BY <1>9 DEF vars, Abstract!eventVars
<1> QED
  BY <1>1, <1>2, <1>3, <1>4, <1>5, <1>6, <1>7, <1>8, <1>9
  DEF Next, WaitStep, Abstract!eventVars

(* The futex protocol of HandleThreadWait / HandleThreadWake implements the  *)
(* counting event that thread.c is written against: no token is invented,   *)
(* lost or consumed twice.                                                  *)
THEOREM RefinesEvent == Spec => Abstract!EventSafety
<1>1. Init => Abstract!EventInit
  BY DEF Init, Abstract!EventInit, Tokens, Waiting, WaitLocs
<1> QED
  BY <1>1, InitIInv, NextIInv, StepSimulation, PTL
  DEF Spec, Abstract!EventSafety
=============================================================================
