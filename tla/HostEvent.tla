----------------------------- MODULE HostEvent -----------------------------
(***************************************************************************)
(* The host's implementation of thread events: HandleThreadWait and         *)
(* HandleThreadWake of host/sgx/ocalls/ocalls.c (the Linux branch), the     *)
(* combined request of host/sgx/ocalls/thread.c, and the part of the Linux  *)
(* futex they rely on.  Each action is one atomic instruction or one futex  *)
(* system call, so every interleaving of waiters and wakers is explored.    *)
(***************************************************************************)
EXTENDS Integers, FiniteSets

CONSTANTS
    Threads,    \* enclave threads; a thread waits on the event of its own TCS
    MaxTokens,  \* bound: unconsumed wakes that may pile up in one event
    NoThread    \* the absence of a thread

ASSUME NoThreadAssumption == NoThread \notin Threads
ASSUME MaxTokensAssumption == MaxTokens \in Nat \ {0}

VARIABLES
    value,  \* value[t]: EnclaveEvent.value of t's binding, -1 for (uint32_t)-1
    pc,     \* pc[t]: where t is in HandleThreadWait / HandleThreadWake
    target, \* target[t]: whom t is waking, while t is in HandleThreadWake
    thenWait \* thenWait[t]: t's wake is the first half of wake_wait_ocall

vars == <<value, pc, target, thenWait>>

(* In HandleThreadWait, after the decrement. *)
WaitLocs == {"futexWait", "asleep", "recheck", "waitReturn"}

TypeOK ==
    /\ value \in [Threads -> -1 .. MaxTokens]
    /\ pc \in [Threads -> {"run", "waitCall", "waitStart", "futexWake"}
                            \cup WaitLocs]
    /\ target \in [Threads -> Threads \cup {NoThread}]
    /\ thenWait \in [Threads -> BOOLEAN]

Init ==
    /\ value = [t \in Threads |-> 0]
    /\ pc = [t \in Threads |-> "run"]
    /\ target = [t \in Threads |-> NoThread]
    /\ thenWait = [t \in Threads |-> FALSE]

Goto(t, l) == pc' = [pc EXCEPT ![t] = l]

(* The kernel would make t, sleeping on its event, runnable again. *)
FutexWakes(t) == pc[t] = "asleep"

-----------------------------------------------------------------------------
(* Faulty variants of the actions below, each the way a plausible slip in    *)
(* ocalls.c would change it: a wake skipped for a sleeper, no test for       *)
(* spurious wake-ups.                                                        *)
WakeIncrementSkipsSleeper(t, u, w) ==
    /\ pc[t] = "run"
    /\ u # t
    /\ value[u] < MaxTokens
    /\ value' = [value EXCEPT ![u] = @ + 1]
    /\ IF value[u] > 0
       THEN /\ Goto(t, "futexWake")
            /\ target' = [target EXCEPT ![t] = u]
            /\ thenWait' = [thenWait EXCEPT ![t] = w]
       ELSE /\ Goto(t, IF w THEN "waitCall" ELSE "run")
            /\ UNCHANGED <<target, thenWait>>

RecheckNoLoop(t) ==
    /\ pc[t] = "recheck"
    /\ Goto(t, "waitReturn")
    /\ UNCHANGED <<value, target, thenWait>>

-----------------------------------------------------------------------------
(* HandleThreadWait is entered: from the dispatcher of OE_OCALL_THREAD_WAIT  *)
(* or as the second half of oe_sgx_thread_wake_wait_ocall.                   *)
CallWait(t) ==
    /\ pc[t] \in {"run", "waitCall"}
    /\ Goto(t, "waitStart")
    /\ UNCHANGED <<value, target, thenWait>>

(* __sync_fetch_and_add(&event->value, -1): only an old value of 0 sleeps. *)
WaitDecrement(t) ==
    /\ pc[t] = "waitStart"
    /\ value' = [value EXCEPT ![t] = @ - 1]
    /\ Goto(t, IF value[t] = 0 THEN "futexWait" ELSE "waitReturn")
    /\ UNCHANGED <<target, thenWait>>

(* FUTEX_WAIT(-1): the kernel compares and sleeps in one step. *)
FutexWait(t) ==
    /\ pc[t] = "futexWait"
    /\ Goto(t, IF value[t] = -1 THEN "asleep" ELSE "recheck")
    /\ UNCHANGED <<value, target, thenWait>>

(* A signal, or a wake meant for an earlier sleep, ends the sleep. *)
SpuriousWake(t) ==
    /\ pc[t] = "asleep"
    /\ Goto(t, "recheck")
    /\ UNCHANGED <<value, target, thenWait>>

(* while (event->value == -1): a spurious wake sleeps again. *)
Recheck(t) ==
    /\ pc[t] = "recheck"
    /\ Goto(t, IF value[t] = -1 THEN "futexWait" ELSE "waitReturn")
    /\ UNCHANGED <<value, target, thenWait>>

(* The request returns to the enclave. *)
WaitReturn(t) ==
    /\ pc[t] = "waitReturn"
    /\ Goto(t, "run")
    /\ UNCHANGED <<value, target, thenWait>>

(* HandleThreadWake(u) up to the atomic increment; with w = TRUE it is the  *)
(* first half of oe_sgx_thread_wake_wait_ocall.                              *)
WakeIncrement(t, u, w) ==
    /\ pc[t] = "run"
    /\ u # t
    /\ value[u] < MaxTokens
    /\ value' = [value EXCEPT ![u] = @ + 1]
    /\ IF value[u] # 0
       THEN /\ Goto(t, "futexWake")
            /\ target' = [target EXCEPT ![t] = u]
            /\ thenWait' = [thenWait EXCEPT ![t] = w]
       ELSE /\ Goto(t, IF w THEN "waitCall" ELSE "run")
            /\ UNCHANGED <<target, thenWait>>

(* FUTEX_WAKE of at most one sleeper on the target's event. *)
FutexWake(t) ==
    LET u == target[t] IN
    /\ pc[t] = "futexWake"
    /\ pc' = [pc EXCEPT ![t] = IF thenWait[t] THEN "waitCall" ELSE "run",
                        ![u] = IF FutexWakes(u) THEN "recheck" ELSE @]
    /\ target' = [target EXCEPT ![t] = NoThread]
    /\ thenWait' = [thenWait EXCEPT ![t] = FALSE]
    /\ UNCHANGED value

WaitStep(t) ==
    \/ pc[t] = "waitCall" /\ CallWait(t)
    \/ WaitDecrement(t)
    \/ FutexWait(t)
    \/ Recheck(t)
    \/ WaitReturn(t)

Next ==
    \E t \in Threads :
        \/ CallWait(t)
        \/ WaitStep(t)
        \/ SpuriousWake(t)
        \/ \E u \in Threads, w \in BOOLEAN : WakeIncrement(t, u, w)
        \/ FutexWake(t)

(* The kernel schedules a thread that is inside a host request. *)
Fairness == \A t \in Threads : WF_vars(WaitStep(t)) /\ WF_vars(FutexWake(t))

Spec == Init /\ [][Next]_vars /\ Fairness

-----------------------------------------------------------------------------
(* The counter is -1 only while its owner is held inside HandleThreadWait:   *)
(* no thread gets back into the enclave on a wake that never came.           *)
CounterMeaning ==
    \A t \in Threads :
        value[t] = -1 => pc[t] \in {"futexWait", "asleep", "recheck"}

(* No lost wake-up: a thread asleep in FUTEX_WAIT although its event was    *)
(* woken has a waker that has not made its FUTEX_WAKE call yet.             *)
NoLostWake ==
    \A t \in Threads :
        pc[t] = "asleep" /\ value[t] # -1
            => \E w \in Threads : pc[w] = "futexWake" /\ target[w] = t

(* The refinement mapping: a waiter that has done its decrement has not yet  *)
(* consumed the token it is going to take.                                   *)
Tokens == [t \in Threads |-> value[t] + IF pc[t] \in WaitLocs THEN 1 ELSE 0]
Waiting == {t \in Threads : pc[t] \in {"waitStart"} \cup WaitLocs}

Abstract == INSTANCE EventSpec WITH tokens <- Tokens, waiting <- Waiting

(* The futex protocol implements the counting event of EventSpec, waits     *)
(* that can return included.                                                *)
ImplementsEvent == Abstract!EventSpecification
=============================================================================
