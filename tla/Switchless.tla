----------------------------- MODULE Switchless -----------------------------
(***************************************************************************)
(* Context-switchless calls: the slot protocol between callers and a pool   *)
(* of worker threads (host/sgx/switchless.c, host/sgx/linux/switchless.c,   *)
(* enclave/core/sgx/switchlesscalls.c and oe_call_host_function_internal of *)
(* enclave/core/sgx/calls.c), and the shutdown of the pool.                 *)
(*                                                                         *)
(* dir = "ocall": enclave threads post to host workers and wait for         *)
(* args->result.  dir = "ecall": host threads post to enclave workers and   *)
(* wait for the slot to change.  The rest of the protocol is the same code  *)
(* twice.  Each action is one atomic access to shared memory or one    *)
(* futex system call; a caller's args are named by the caller, whose next   *)
(* call reuses the same memory.                                             *)
(***************************************************************************)
EXTENDS Integers

CONSTANTS
    Callers,
    NumWorkers,     \* workers are numbered 1 .. NumWorkers
    NoCaller,       \* an empty slot
    Directions,     \* the directions looked at: of {"ocall", "ecall"}
    BadDispatch     \* TRUE: a call may name a function that does not exist

ASSUME CallerAssumption == NoCaller \notin Callers
ASSUME WorkerAssumption == NumWorkers \in Nat \ {0}
ASSUME ModeAssumption ==
    Directions \subseteq {"ocall", "ecall"} /\ BadDispatch \in BOOLEAN

Workers == 1 .. NumWorkers

VARIABLES
    callArg, event, stopping,   \* the worker contexts, shared
    wpc, local,                 \* where each worker is, and its local_call_arg
    cpc, idx,                   \* where each caller is, and the slot it looks at
    result,                     \* args->result; "max" is __OE_RESULT_MAX
    bad,                        \* the call's function cannot be dispatched
    ran,                        \* how often the call's function was run
    mgr, midx,                  \* the stop of the manager, and its loop index
    dir                         \* the direction of the calls, never changed

ctxVars == <<callArg, event, stopping>>
workerVars == <<wpc, local>>
callerVars == <<cpc, idx, result, bad, ran>>
mgrVars == <<mgr, midx, dir>>
vars == <<ctxVars, workerVars, callerVars, mgrVars>>

(* A caller that owns a slot and has not been answered. *)
PostedLocs == {"event", "store", "futexWake", "await"}

TypeOK ==
    /\ callArg \in [Workers -> Callers \cup {NoCaller}]
    /\ event \in [Workers -> 0 .. 1]
    /\ stopping \in [Workers -> BOOLEAN]
    /\ wpc \in [Workers -> {"top", "read", "handle", "clear", "wait",
                            "futexWait", "asleep", "recheck", "exit"}]
    /\ local \in [Workers -> Callers \cup {NoCaller}]
    /\ cpc \in [Callers -> {"run", "scan", "fallback"} \cup PostedLocs]
    /\ idx \in [Callers -> 0 .. NumWorkers]
    /\ result \in [Callers -> {"max", "ok", "error"}]
    /\ bad \in [Callers -> BOOLEAN]
    /\ ran \in [Callers -> 0 .. 1]
    /\ mgr \in {"up", "flag", "store", "futexWake", "join", "down"}
    /\ midx \in Workers
    /\ dir \in {"ocall", "ecall"}

(* The state oe_start_switchless_manager leaves behind. *)
Init ==
    /\ callArg = [w \in Workers |-> NoCaller]
    /\ event = [w \in Workers |-> 0]
    /\ stopping = [w \in Workers |-> FALSE]
    /\ wpc = [w \in Workers |-> "top"]
    /\ local = [w \in Workers |-> NoCaller]
    /\ cpc = [c \in Callers |-> "run"]
    /\ idx = [c \in Callers |-> 0]
    /\ result = [c \in Callers |-> "ok"]
    /\ bad = [c \in Callers |-> FALSE]
    /\ ran = [c \in Callers |-> 1]
    /\ mgr = "up" /\ midx = 1
    /\ dir \in Directions

GotoW(w, l) == wpc' = [wpc EXCEPT ![w] = l]
GotoC(c, l) == cpc' = [cpc EXCEPT ![c] = l]

(* The kernel makes the worker asleep on slot w runnable, if it is asleep. *)
FutexWakeWorker(w) ==
    wpc' = [wpc EXCEPT ![w] = IF @ = "asleep" THEN "recheck" ELSE @]

(* What the caller waits for after it has posted. *)
Answered(c) ==
    IF dir = "ocall" THEN result[c] # "max" ELSE callArg[idx[c]] # c

-----------------------------------------------------------------------------
(* Callers: oe_post_switchless_ocall and                                     *)
(* _switchless_call_enclave_function_impl.                                   *)

(* A call is made: args->result = __OE_RESULT_MAX, scan from the last slot.  *)
(* The host makes no call once it terminates the enclave.                    *)
Begin(c) ==
    /\ cpc[c] = "run"
    /\ mgr = "up"
    /\ GotoC(c, "scan")
    /\ idx' = [idx EXCEPT ![c] = NumWorkers]
    /\ result' = [result EXCEPT ![c] = "max"]
    /\ \E b \in {FALSE, BadDispatch} : bad' = [bad EXCEPT ![c] = b]
    /\ ran' = [ran EXCEPT ![c] = 0]
    /\ UNCHANGED <<ctxVars, workerVars, mgrVars>>

(* Faulty variant: the slot is taken without compare-and-swap. *)
GrabAlways(c) ==
    /\ cpc[c] = "scan"
    /\ idx[c] > 0
    /\ callArg' = [callArg EXCEPT ![idx[c]] = c]
    /\ GotoC(c, "event")
    /\ UNCHANGED <<event, stopping, workerVars, idx, result, bad, ran, mgrVars>>

(* The compare-and-swap of call_arg from NULL. *)
Grab(c) ==
    /\ cpc[c] = "scan"
    /\ idx[c] > 0
    /\ IF callArg[idx[c]] = NoCaller
       THEN /\ callArg' = [callArg EXCEPT ![idx[c]] = c]
            /\ GotoC(c, "event")
            /\ UNCHANGED idx
       ELSE /\ idx' = [idx EXCEPT ![c] = @ - 1]
            /\ UNCHANGED <<callArg, cpc>>
    /\ UNCHANGED <<event, stopping, workerVars, result, bad, ran, mgrVars>>

(* No free worker: OE_CONTEXT_SWITCHLESS_OCALL_MISSED, or tries exhausted. *)
Missed(c) ==
    /\ cpc[c] = "scan"
    /\ idx[c] = 0
    /\ GotoC(c, "fallback")
    /\ UNCHANGED <<ctxVars, workerVars, idx, result, bad, ran, mgrVars>>

(* The regular call, run to its end on the caller's own thread.  An ocall    *)
(* that could not be dispatched returns the error; oe_ecall's output, where  *)
(* that of an ecall is, is not looked at.                                    *)
Fallback(c) ==
    /\ cpc[c] = "fallback"
    /\ result' = [result EXCEPT ![c] = IF ~bad[c] THEN "ok"
                                       ELSE IF dir = "ocall" THEN "error"
                                       ELSE @]
    /\ ran' = [ran EXCEPT ![c] = IF bad[c] THEN @ ELSE @ + 1]
    /\ GotoC(c, "run")
    /\ UNCHANGED <<ctxVars, workerVars, idx, bad, mgrVars>>

(* Faulty variant: a plain read decides whether the worker sleeps; the event *)
(* is set only by the wake.                                                  *)
NotifyByRead(c) ==
    /\ cpc[c] = "event"
    /\ GotoC(c, IF wpc[idx[c]] = "asleep" THEN "store" ELSE "await")
    /\ UNCHANGED <<ctxVars, workerVars, idx, result, bad, ran, mgrVars>>

(* Compare-and-swap of the event from 0 to 1: was the worker asleep? *)
Notify(c) ==
    /\ cpc[c] = "event"
    /\ event' = [event EXCEPT ![idx[c]] = 1]
    /\ GotoC(c, IF event[idx[c]] = 0 THEN "store" ELSE "await")
    /\ UNCHANGED <<callArg, stopping, workerVars, idx, result, bad, ran, mgrVars>>

(* _worker_wake: the event is set ... *)
WakeStore(c) ==
    /\ cpc[c] = "store"
    /\ event' = [event EXCEPT ![idx[c]] = 1]
    /\ GotoC(c, "futexWake")
    /\ UNCHANGED <<callArg, stopping, workerVars, idx, result, bad, ran, mgrVars>>

(* ... and FUTEX_WAKE. *)
WakeFutex(c) ==
    /\ cpc[c] = "futexWake"
    /\ FutexWakeWorker(idx[c])
    /\ GotoC(c, "await")
    /\ UNCHANGED <<ctxVars, local, idx, result, bad, ran, mgrVars>>

(* The caller sees its answer and returns args->result. *)
Return(c) ==
    /\ cpc[c] = "await"
    /\ Answered(c)
    /\ GotoC(c, "run")
    /\ UNCHANGED <<ctxVars, workerVars, idx, result, bad, ran, mgrVars>>

-----------------------------------------------------------------------------
(* Workers: _switchless_ocall_worker and                                     *)
(* oe_sgx_switchless_enclave_worker_thread_ecall.                            *)

(* while (!context->is_stopping) *)
TestStopping(w) ==
    /\ wpc[w] = "top"
    /\ GotoW(w, IF stopping[w] THEN "exit" ELSE "read")
    /\ UNCHANGED <<ctxVars, local, callerVars, mgrVars>>

(* Read the slot.  With no call in it the worker spins, or, its spin count   *)
(* at the threshold (any count, here), goes to sleep.                        *)
ReadSlot(w) ==
    /\ wpc[w] = "read"
    /\ local' = [local EXCEPT ![w] = callArg[w]]
    /\ IF callArg[w] # NoCaller
       THEN GotoW(w, "handle")
       ELSE \E l \in {"top", "wait"} : GotoW(w, l)
    /\ UNCHANGED <<ctxVars, callerVars, mgrVars>>

(* The function table, buffer and allocation checks of                       *)
(* oe_handle_call_enclave_function (and of its host counterpart) let c's     *)
(* call through.                                                             *)
Dispatchable(c) == ~bad[c]

(* oe_handle_call_host_function / oe_handle_call_enclave_function: only a    *)
(* call that could be dispatched gets a result.                              *)
Handle(w) ==
    LET c == local[w] IN
    /\ wpc[w] = "handle"
    /\ IF Dispatchable(c)
       THEN /\ result' = [result EXCEPT ![c] = "ok"]
            /\ ran' = [ran EXCEPT ![c] = @ + 1]
       ELSE UNCHANGED <<result, ran>>
    /\ GotoW(w, "clear")
    /\ UNCHANGED <<ctxVars, local, cpc, idx, bad, mgrVars>>

(* Faulty variant: the slot is never freed. *)
ClearForgotten(w) ==
    /\ wpc[w] = "clear"
    /\ GotoW(w, "top")
    /\ UNCHANGED <<ctxVars, local, callerVars, mgrVars>>

(* context->call_arg = NULL *)
Clear(w) ==
    /\ wpc[w] = "clear"
    /\ callArg' = [callArg EXCEPT ![w] = NoCaller]
    /\ local' = [local EXCEPT ![w] = NoCaller]
    /\ GotoW(w, "top")
    /\ UNCHANGED <<event, stopping, callerVars, mgrVars>>

(* _worker_wait: consume a pending notification, or wait for one. *)
WaitSwap(w) ==
    /\ wpc[w] = "wait"
    /\ event' = [event EXCEPT ![w] = 0]
    /\ GotoW(w, IF event[w] = 1 THEN "top" ELSE "futexWait")
    /\ UNCHANGED <<callArg, stopping, local, callerVars, mgrVars>>

(* FUTEX_WAIT(0): compare and sleep in one step. *)
WaitFutex(w) ==
    /\ wpc[w] = "futexWait"
    /\ GotoW(w, IF event[w] = 0 THEN "asleep" ELSE "recheck")
    /\ UNCHANGED <<ctxVars, local, callerVars, mgrVars>>

(* The sleep ends without a wake. *)
SpuriousWake(w) ==
    /\ wpc[w] = "asleep"
    /\ GotoW(w, "recheck")
    /\ UNCHANGED <<ctxVars, local, callerVars, mgrVars>>

(* Loop while the event is still 0; it is left at 1. *)
WaitRecheck(w) ==
    /\ wpc[w] = "recheck"
    /\ GotoW(w, IF event[w] = 0 THEN "futexWait" ELSE "top")
    /\ UNCHANGED <<ctxVars, local, callerVars, mgrVars>>

-----------------------------------------------------------------------------
(* oe_stop_switchless_manager, from oe_terminate_enclave: no call is in      *)
(* progress any more.                                                        *)
Stop ==
    /\ mgr = "up"
    /\ \A c \in Callers : cpc[c] = "run"
    /\ mgr' = "flag"
    /\ UNCHANGED <<ctxVars, workerVars, callerVars, midx, dir>>

(* oe_stop_worker_threads, first loops: flag ... *)
StopFlag ==
    /\ mgr = "flag"
    /\ stopping' = [stopping EXCEPT ![midx] = TRUE]
    /\ mgr' = "store"
    /\ UNCHANGED <<callArg, event, workerVars, callerVars, midx, dir>>

(* Faulty variant: the event is not set before the futex is woken. *)
StopNoStore ==
    /\ mgr = "store"
    /\ mgr' = "futexWake"
    /\ UNCHANGED <<ctxVars, workerVars, callerVars, midx, dir>>

(* ... and wake every worker. *)
StopStore ==
    /\ mgr = "store"
    /\ event' = [event EXCEPT ![midx] = 1]
    /\ mgr' = "futexWake"
    /\ UNCHANGED <<callArg, stopping, workerVars, callerVars, midx, dir>>

StopFutex ==
    /\ mgr = "futexWake"
    /\ FutexWakeWorker(midx)
    /\ IF midx = NumWorkers
       THEN mgr' = "join" /\ UNCHANGED midx
       ELSE mgr' = "flag" /\ midx' = midx + 1
    /\ UNCHANGED <<ctxVars, local, callerVars, dir>>

(* Faulty variant: the contexts are freed while a worker still runs. *)
JoinFirstOnly ==
    /\ mgr = "join"
    /\ wpc[1] = "exit"
    /\ mgr' = "down"
    /\ UNCHANGED <<ctxVars, workerVars, callerVars, midx, dir>>

(* Second loops: join every worker; then the contexts are freed. *)
JoinAll ==
    /\ mgr = "join"
    /\ \A w \in Workers : wpc[w] = "exit"
    /\ mgr' = "down"
    /\ UNCHANGED <<ctxVars, workerVars, callerVars, midx, dir>>

-----------------------------------------------------------------------------
CallerStep(c) ==
    \/ Grab(c)
    \/ Missed(c)
    \/ Fallback(c)
    \/ Notify(c)
    \/ WakeStore(c)
    \/ WakeFutex(c)
    \/ Return(c)

WorkerStep(w) ==
    \/ TestStopping(w)
    \/ ReadSlot(w)
    \/ Handle(w)
    \/ Clear(w)
    \/ WaitSwap(w)
    \/ WaitFutex(w)
    \/ WaitRecheck(w)

StopStep == StopFlag \/ StopStore \/ StopFutex \/ JoinAll

(* The enclave is gone. *)
Terminated == mgr = "down" /\ UNCHANGED vars

Next ==
    \/ \E c \in Callers : Begin(c) \/ CallerStep(c)
    \/ \E w \in Workers : WorkerStep(w) \/ SpuriousWake(w)
    \/ Stop
    \/ StopStep
    \/ Terminated

(* The operating system schedules callers, workers and the stopping thread.  *)
Fairness ==
    /\ \A c \in Callers : WF_vars(CallerStep(c))
    /\ \A w \in Workers : WF_vars(WorkerStep(w))
    /\ WF_vars(StopStep)

Spec == Init /\ [][Next]_vars /\ Fairness

-----------------------------------------------------------------------------
(* No call is stranded: a worker asleep with a call in its slot will be      *)
(* woken.  Either the poster has not looked at the event yet, or the event   *)
(* is set and someone has still to make the futex call, not always the       *)
(* poster: it may rely on an earlier caller that is on its way to wake the   *)
(* same worker.                                                              *)
NoStrandedCall ==
    \A w \in Workers :
        wpc[w] = "asleep" /\ callArg[w] # NoCaller
            => \/ cpc[callArg[w]] = "event" /\ idx[callArg[w]] = w
               \/ \E c \in Callers :
                     cpc[c] \in {"store", "futexWake"} /\ idx[c] = w

(* A worker touches a caller's args only while that caller waits for them,   *)
(* on that slot: the memory has not been reused for another call.            *)
NoStaleArgs ==
    \A w \in Workers :
        wpc[w] = "handle"
            => /\ cpc[local[w]] \in PostedLocs
               /\ idx[local[w]] = w
               /\ ran[local[w]] = 0

(* A call that returns OE_OK ran exactly once, one that fails not at all.    *)
ExactlyOnce ==
    \A c \in Callers :
        cpc[c] = "run" => ran[c] = IF result[c] = "ok" THEN 1 ELSE 0

(* The worker contexts are freed only when nobody uses them any more.        *)
FreedUnused ==
    mgr = "down" => /\ \A w \in Workers : wpc[w] = "exit"
                    /\ \A c \in Callers : cpc[c] = "run"
                    /\ \A w \in Workers : callArg[w] = NoCaller

(* Every call returns.                                                       *)
CallReturns == \A c \in Callers : cpc[c] # "run" ~> cpc[c] = "run"

(* Shutting the pool down ends: no worker sleeps through it.                 *)
StopCompletes == mgr = "flag" ~> mgr = "down"
=============================================================================
