----------------------------- MODULE EventSpec -----------------------------
(***************************************************************************)
(* What the pair of host requests OE_OCALL_THREAD_WAIT / THREAD_WAKE        *)
(* promises to enclave/core/sgx/thread.c: every enclave thread owns one     *)
(* counting event.  A wake deposits a token in the event of the thread it   *)
(* names, whether or not that thread waits already; a wait returns after    *)
(* taking exactly one token.  HostEvent.tla implements this with a futex;   *)
(* MutexCond.tla and RWLock.tla are built on it.                            *)
(***************************************************************************)
EXTENDS Integers

CONSTANT Threads            \* enclave threads, each bound to its own TCS

VARIABLES
    tokens,     \* tokens[t]: wakes of t that no wait has consumed yet
    waiting     \* the threads inside OE_OCALL_THREAD_WAIT

eventVars == <<tokens, waiting>>

EventInit ==
    /\ tokens = [t \in Threads |-> 0]
    /\ waiting = {}

(* A thread leaves the enclave to wait on its own event. *)
BeginWait(t) ==
    /\ t \notin waiting
    /\ waiting' = waiting \cup {t}

(* The host request returns: one token is consumed. *)
EndWait(t) ==
    /\ t \in waiting
    /\ tokens[t] > 0
    /\ tokens' = [tokens EXCEPT ![t] = @ - 1]
    /\ waiting' = waiting \ {t}

(* Some other thread wakes t. *)
Deposit(t) == tokens' = [tokens EXCEPT ![t] = @ + 1]

EventNext ==
    \E t \in Threads :
        \/ BeginWait(t) /\ UNCHANGED tokens
        \/ EndWait(t)
        \/ Deposit(t) /\ UNCHANGED waiting

(* A wait that has a token to take returns. *)
EventFairness == \A t \in Threads : WF_eventVars(EndWait(t))

EventSafety == EventInit /\ [][EventNext]_eventVars

EventSpecification == EventSafety /\ EventFairness
=============================================================================
