---------------------------- MODULE EnclaveCalls ----------------------------
(***************************************************************************)
(* How host threads enter and leave enclaves (host/sgx/calls.c,             *)
(* host/sgx/exception.c, enclave/core/sgx/calls.c and td*.c): the binding   *)
(* of host threads to TCSs, nested ecalls and ocalls, hardware exceptions,  *)
(* and the enclave's status after oe_abort.                                 *)
(*                                                                         *)
(* stack[t] is host thread t's stack of oe_ecall activations.  Only the     *)
(* last frame runs; the one below it is in an ocall, or in the signal       *)
(* handler of a hardware exception.  A frame is at                          *)
(*   "enter"  bound to a TCS, before EENTER                                 *)
(*   "seal"   a destructor that read OE_ENCLAVE_ABORTING and writes ABORTED *)
(*   "handle" past the status check of __oe_handle_main                     *)
(*   "run"    in the enclave function, constructors, destructors or the     *)
(*            first-pass exception handler                                  *)
(*   "abort"  in oe_abort, past its check, before its store                 *)
(*   "host"   in the ocall's host function                                  *)
(*   "oret"   on the way back from it, before EENTER                        *)
(*   "fault"  interrupted by a hardware exception                           *)
(*   "ret"    back on the host, before _release_tcs                         *)
(* oe_thread_self() is the thread; binding i of an enclave is that of its   *)
(* i-th TCS; the thread's TSD holds a pair <<e, i>>.                        *)
(***************************************************************************)
EXTENDS Integers, Sequences, FiniteSets

CONSTANTS
    Enclaves, Threads,
    NumTcs,         \* TCSs of each enclave
    NoThread, NoBinding,
    MaxDepth        \* bound: nested ecalls of one thread

ASSUME NullAssumption == NoThread \notin Threads
ASSUME BoundAssumption ==
    NumTcs \in Nat \ {0} /\ MaxDepth \in Nat \ {0}

VARIABLES
    alive,      \* the host process has not been killed
    life,       \* of each enclave, as its users see it
    status,     \* __oe_enclave_status
    inited,     \* __oe_initialized
    bindings,   \* enclave->bindings: thread, count, HANDLING_EXCEPTION
    callsites,  \* td->callsites of each TCS: the frames that pushed one
    tsd,        \* each thread's current binding
    stack       \* each thread's activations

vars == <<alive, life, status, inited, bindings, callsites, tsd, stack>>

Tcs == 1 .. NumTcs
Bindings == Enclaves \X Tcs
Funcs == {"init", "call", "destructor", "exception"}
Frames ==
    [e : Enclaves, i : Tcs, func : Funcs, late : BOOLEAN,
     at : {"enter", "seal", "handle", "run", "abort", "host", "oret", "fault",
           "ret"},
     saved : Bindings \cup {NoBinding},
     out : {"none", "ok", "failed", "reentrant", "aborting", "aborted"}]

Free == [thread |-> NoThread, count |-> 0, handling |-> FALSE]

TypeOK ==
    /\ alive \in BOOLEAN
    /\ life \in [Enclaves -> {"none", "creating", "up", "terminating", "gone"}]
    /\ status \in [Enclaves -> {"OK", "ABORTING", "ABORTED"}]
    /\ inited \in [Enclaves -> BOOLEAN]
    /\ bindings \in [Bindings -> [thread : Threads \cup {NoThread},
                                  count : 0 .. MaxDepth, handling : BOOLEAN]]
    /\ callsites \in [Bindings -> Seq(1 .. MaxDepth)]
    /\ tsd \in [Threads -> Bindings \cup {NoBinding}]
    /\ stack \in [Threads -> Seq(Frames)]

Init ==
    /\ alive = TRUE
    /\ life = [e \in Enclaves |-> "none"]
    /\ status = [e \in Enclaves |-> "OK"]
    /\ inited = [e \in Enclaves |-> FALSE]
    /\ bindings = [b \in Bindings |-> Free]
    /\ callsites = [b \in Bindings |-> <<>>]
    /\ tsd = [t \in Threads |-> NoBinding]
    /\ stack = [t \in Threads |-> <<>>]

Level(t) == Len(stack[t])
Top(t) == stack[t][Level(t)]
Bound(t) == <<Top(t).e, Top(t).i>>

(* The process is alive and the last frame of t is at l. *)
At(t, l) == alive /\ stack[t] # <<>> /\ Top(t).at = l

(* The last frame of t changes to at = l, or leaves the enclave with r. *)
Goto(t, l) == stack' = [stack EXCEPT ![t][Level(t)].at = l]
Leave(t, r) ==
    stack' = [stack EXCEPT ![t][Level(t)].at = "ret", ![t][Level(t)].out = r]

(* Thread t is somewhere in enclave e. *)
Inside(t, e) == \E l \in 1 .. Level(t) : stack[t][l].e = e

-----------------------------------------------------------------------------
(* _assign_tcs for (t, e), with the enclave's lock: the TCS t has already,   *)
(* or the first free one.  There is none: OE_OUT_OF_THREADS.                 *)
Own(t, e) == {i \in Tcs : bindings[<<e, i>>].thread = t}
Available(e) == {i \in Tcs : bindings[<<e, i>>].thread = NoThread}

AssignTcs(t, e, i) ==
    LET found == IF Own(t, e) # {} THEN Own(t, e) ELSE Available(e)
    IN /\ i \in found /\ \A j \in found : i <= j
       /\ bindings' = [bindings EXCEPT ![<<e, i>>].thread = t,
                                       ![<<e, i>>].count = @ + 1]
       /\ tsd' = IF Own(t, e) # {} THEN tsd ELSE [tsd EXCEPT ![t] = <<e, i>>]

Frame(e, i, func) ==
    [e |-> e, i |-> i, func |-> func, late |-> status[e] # "OK",
     at |-> "enter", saved |-> NoBinding, out |-> "none"]

(* oe_ecall up to EENTER, from application code or an ocall's host function. *)
BeginEcall(t, e, func) ==
    /\ alive
    /\ stack[t] = <<>> \/ At(t, "host")
    /\ Level(t) < MaxDepth
    /\ \E i \in Tcs :
          /\ AssignTcs(t, e, i)
          /\ stack' = [stack EXCEPT ![t] = Append(@, Frame(e, i, func))]

(* oe_create_enclave: OE_ECALL_INIT_ENCLAVE is the first call. *)
Create(t, e) ==
    /\ life[e] = "none"
    /\ life' = [life EXCEPT ![e] = "creating"]
    /\ BeginEcall(t, e, "init")
    /\ UNCHANGED <<alive, status, inited, callsites>>

(* oe_call_enclave_function.  Before the enclave is created only an ocall of *)
(* its constructors knows it.                                                *)
Call(t, e) ==
    /\ life[e] = "up" \/ (life[e] = "creating" /\ Inside(t, e))
    /\ BeginEcall(t, e, "call")
    /\ UNCHANGED <<alive, life, status, inited, callsites>>

(* oe_terminate_enclave, by a thread that is not in the enclave, when no     *)
(* other thread is or when the enclave has started to crash.                 *)
Terminate(t, e) ==
    /\ life[e] = "up"
    /\ ~Inside(t, e)
    /\ \/ \A s \in Threads : ~Inside(s, e)
       \/ status[e] # "OK"
    /\ life' = [life EXCEPT ![e] = "terminating"]
    /\ BeginEcall(t, e, "destructor")
    /\ UNCHANGED <<alive, status, inited, callsites>>

-----------------------------------------------------------------------------
(* Faulty variant: a call is let in while the enclave aborts. *)
EnterAborting(t) ==
    /\ At(t, "enter")
    /\ IF status[Top(t).e] = "ABORTED" THEN Leave(t, "aborted")
       ELSE Goto(t, "handle")
    /\ UNCHANGED <<alive, life, status, inited, bindings, callsites, tsd>>

(* __oe_handle_main, OE_CODE_ECALL: the switch on __oe_enclave_status. *)
Enter(t) ==
    /\ At(t, "enter")
    /\ CASE status[Top(t).e] = "OK" -> Goto(t, "handle")
         [] status[Top(t).e] = "ABORTING" ->
               IF Top(t).func = "destructor" THEN Goto(t, "seal")
               ELSE Leave(t, "aborting")
         [] status[Top(t).e] = "ABORTED" -> Leave(t, "aborted")
    /\ UNCHANGED <<alive, life, status, inited, bindings, callsites, tsd>>

(* The first destructor call while aborting. *)
Seal(t) ==
    /\ At(t, "seal")
    /\ status' = [status EXCEPT ![Top(t).e] = "ABORTED"]
    /\ Goto(t, "handle")
    /\ UNCHANGED <<alive, life, inited, bindings, callsites, tsd>>

(* td_push_callsite *)
PushCallsite(c, t) == Append(c, Level(t))

(* _handle_ecall: the callsite is pushed; a call that is not dispatched pops *)
(* it again and leaves.                                                      *)
Dispatched(t) ==
    /\ IF inited[Top(t).e] THEN Top(t).func # "init"
       ELSE Top(t).func \in {"init", "exception"}
    /\ callsites[Bound(t)] # <<>> => Top(t).func \in {"exception", "destructor"}

Dispatch(t) ==
    /\ At(t, "handle")
    /\ IF Dispatched(t)
       THEN /\ callsites' = [callsites EXCEPT ![Bound(t)] = PushCallsite(@, t)]
            /\ Goto(t, "run")
       ELSE /\ Leave(t, IF inited[Top(t).e] /\ Top(t).func # "init"
                        THEN "reentrant" ELSE "ok")
            /\ UNCHANGED callsites
    /\ UNCHANGED <<alive, life, status, inited, bindings, tsd>>

(* td_pop_callsite; the outermost call leaves the thread data cleared. *)
PopCallsite(c) == SubSeq(c, 1, Len(c) - 1)

(* How a dispatched function can end.  _handle_init_enclave can fail before  *)
(* it sets __oe_initialized, the destructor when memory has leaked; what     *)
(* other functions return does not matter here.                              *)
Outcomes(func) ==
    IF func \in {"init", "destructor"} THEN {"ok", "failed"} ELSE {"ok"}

(* The dispatched function returns. *)
Finish(t) ==
    /\ At(t, "run")
    /\ callsites' = [callsites EXCEPT ![Bound(t)] = PopCallsite(@)]
    /\ \E r \in Outcomes(Top(t).func) :
          /\ Leave(t, r)
          /\ inited' = [inited EXCEPT ![Top(t).e] =
                           @ \/ (Top(t).func = "init" /\ r = "ok")]
    /\ UNCHANGED <<alive, life, status, bindings, tsd>>

(* oe_ocall exits to __oe_dispatch_ocall, which keeps the thread's binding.  *)
(* In an enclave that crashes the ocall fails and nothing changes.           *)
Ocall(t) ==
    /\ At(t, "run")
    /\ Top(t).func # "exception"
    /\ status[Top(t).e] = "OK"
    /\ stack' = [stack EXCEPT ![t][Level(t)].at = "host",
                              ![t][Level(t)].saved = tsd[t]]
    /\ UNCHANGED <<alive, life, status, inited, bindings, callsites, tsd>>

(* Faulty variant: the binding is not restored. *)
HostReturnNoRestore(t) ==
    /\ At(t, "host")
    /\ Goto(t, "oret")
    /\ UNCHANGED <<alive, life, status, inited, bindings, callsites, tsd>>

(* The ocall's host function returns; the binding is restored. *)
HostReturn(t) ==
    /\ At(t, "host")
    /\ tsd' = [tsd EXCEPT ![t] = Top(t).saved]
    /\ Goto(t, "oret")
    /\ UNCHANGED <<alive, life, status, inited, bindings, callsites>>

(* __oe_handle_main, OE_CODE_ORET: resume at the last callsite. *)
Oret(t) ==
    /\ At(t, "oret")
    /\ IF status[Top(t).e] = "ABORTED" THEN Leave(t, "aborted")
       ELSE Goto(t, "run")
    /\ UNCHANGED <<alive, life, status, inited, bindings, callsites, tsd>>

(* oe_abort, called by the enclave's own code or for an exception that its   *)
(* second pass leaves unhandled.  The first pass does not call it.           *)
Abort(t) ==
    /\ At(t, "run") /\ Top(t).func # "exception"
    /\ CASE status[Top(t).e] = "OK" -> Goto(t, "abort")
         [] status[Top(t).e] = "ABORTING" -> Leave(t, "aborting")
         [] status[Top(t).e] = "ABORTED" -> Leave(t, "aborted")
    /\ UNCHANGED <<alive, life, status, inited, bindings, callsites, tsd>>

(* Its store and its exit to the host; the callsite stays. *)
AbortStore(t) ==
    /\ At(t, "abort")
    /\ status' = [status EXCEPT ![Top(t).e] = "ABORTING"]
    /\ Leave(t, "aborting")
    /\ UNCHANGED <<alive, life, inited, bindings, callsites, tsd>>

-----------------------------------------------------------------------------
(* A hardware exception.  oe_host_handle_exception reads the thread's        *)
(* binding from TSD, finds the enclave by its TCS, and calls the first-pass  *)
(* handler; an exception inside that handler ends the process.               *)
Fault(t) ==
    LET b == tsd[t] IN
    /\ At(t, "run")
    /\ IF b = NoBinding \/ bindings[b].handling
       THEN alive' = FALSE /\ UNCHANGED <<bindings, tsd, stack>>
       ELSE /\ Level(t) < MaxDepth
            /\ bindings' = [bindings EXCEPT ![b].handling = TRUE,
                                            ![Bound(t)].count = @ + 1]
            /\ stack' = [stack EXCEPT ![t] =
                  Append([@ EXCEPT ![Level(t)].at = "fault"],
                         Frame(Top(t).e, Top(t).i, "exception"))]
            /\ UNCHANGED <<alive, tsd>>
    /\ UNCHANGED <<life, status, inited, callsites>>

(* Faulty variant: a TCS with a nested call is released by the inner one. *)
ReleasedAtOnce(b) == Free

(* What _release_tcs makes of the binding b. *)
Released(b) == IF b.count = 1 THEN Free ELSE [b EXCEPT !.count = @ - 1]

(* What oe_create_enclave or oe_terminate_enclave makes of the result.  A    *)
(* destructor that fails leaves the enclave as it is.                        *)
Concluded(t) ==
    LET f == Top(t) IN
    CASE f.func = "init" -> IF f.out = "ok" THEN "up" ELSE "gone"
      [] f.func = "destructor" -> IF f.out = "failed" THEN "up" ELSE "gone"
      [] OTHER -> life[f.e]

(* Faulty variant: the flag of a handled exception stays set. *)
ReturnKeepsFlag(t) ==
    LET f == Top(t) IN
    /\ At(t, "ret") /\ f.func = "exception" /\ f.out = "ok"
    /\ bindings' = [bindings EXCEPT ![Bound(t)] = Released(@)]
    /\ stack' = [stack EXCEPT ![t] =
          [SubSeq(@, 1, Level(t) - 1) EXCEPT ![Level(t) - 1].at = "run"]]
    /\ UNCHANGED <<alive, life, status, inited, callsites, tsd>>

(* The end of the first pass.  Handled: ERESUME.  Otherwise the search for a *)
(* handler ends with the default action of the signal.                       *)
ExceptionReturn(t) ==
    LET f == Top(t) IN
    /\ At(t, "ret") /\ f.func = "exception"
    /\ bindings' = [bindings EXCEPT ![Bound(t)] = Released(@),
                                    ![tsd[t]].handling = FALSE]
    /\ stack' = [stack EXCEPT ![t] =
          [SubSeq(@, 1, Level(t) - 1) EXCEPT ![Level(t) - 1].at = "run"]]
    /\ alive' = (f.out = "ok")
    /\ UNCHANGED <<life, status, inited, callsites, tsd>>

(* The end of any other oe_ecall.  A terminated enclave's memory is unmapped, *)
(* under whoever still uses it.                                              *)
Return(t) ==
    LET f == Top(t) IN
    /\ At(t, "ret") /\ f.func # "exception"
    /\ bindings' = [bindings EXCEPT ![Bound(t)] = Released(@)]
    /\ tsd' = [tsd EXCEPT ![t] = IF bindings[Bound(t)].count = 1
                                 THEN NoBinding ELSE @]
    /\ stack' = [stack EXCEPT ![t] = SubSeq(@, 1, Level(t) - 1)]
    /\ life' = [life EXCEPT ![f.e] = Concluded(t)]
    /\ alive' = (life'[f.e] = "gone"
                    => \A s \in Threads \ {t} : ~Inside(s, f.e))
    /\ UNCHANGED <<status, inited, callsites>>

-----------------------------------------------------------------------------
HostStep(t) ==
    \/ \E e \in Enclaves : Create(t, e) \/ Call(t, e) \/ Terminate(t, e)
    \/ HostReturn(t)
    \/ ExceptionReturn(t)
    \/ Return(t)

EnclaveStep(t) ==
    \/ Enter(t)
    \/ Seal(t)
    \/ Dispatch(t)
    \/ Finish(t)
    \/ Ocall(t)
    \/ Oret(t)
    \/ Abort(t)
    \/ AbortStore(t)
    \/ Fault(t)

Next == \E t \in Threads : HostStep(t) \/ EnclaveStep(t)

Spec == Init /\ [][Next]_vars

-----------------------------------------------------------------------------
Activations(e, i) ==
    {x \in Threads \X (1 .. MaxDepth) :
        /\ x[2] <= Level(x[1])
        /\ stack[x[1]][x[2]].e = e
        /\ stack[x[1]][x[2]].i = i}

(* A TCS serves one host thread at a time, for as long as that thread has an *)
(* activation on it: the count of _assign_tcs and _release_tcs is the number *)
(* of activations, and a thread has one TCS per enclave.                     *)
TcsExclusive ==
    \A e \in Enclaves, i \in Tcs :
        LET b == bindings[<<e, i>>] IN
        /\ b.count = Cardinality(Activations(e, i))
        /\ b.thread = NoThread <=> b.count = 0
        /\ \A x \in Activations(e, i) : x[1] = b.thread
        /\ \A j \in Tcs \ {i} :
              b.thread # NoThread => bindings[<<e, j>>].thread # b.thread

(* The state has its types, and HANDLING_EXCEPTION is set exactly on the     *)
(* binding whose first-pass handler is active.                               *)
HandlingMatches ==
    /\ TypeOK
    /\ \A e \in Enclaves, i \in Tcs :
        bindings[<<e, i>>].handling
            <=> \E x \in Activations(e, i) :
                   stack[x[1]][x[2]].func = "exception"

(* The last callsite of the TCS is that of the running activation, so an     *)
(* ocall made now returns here; an enclave function starts on a TCS that     *)
(* holds no other callsite, not even one an abort left behind.               *)
CallsiteOwned ==
    \A t \in Threads :
        At(t, "run") \/ At(t, "oret")
            => LET c == callsites[Bound(t)] IN
               /\ c # <<>> /\ c[Len(c)] = Level(t)
               /\ Top(t).func = "call" => Len(c) = 1

(* Code of an enclave runs with the thread's TSD naming its own binding, so  *)
(* that the signal handler finds it, and with its own callsite last, so that *)
(* an ocall returns to it: nested calls into other enclaves replace the one  *)
(* and the ocall's return restores it, and an abort may leave the other.     *)
BindingCurrent ==
    /\ \A t \in Threads : At(t, "run") => tsd[t] = Bound(t)
    /\ CallsiteOwned

(* No enclave function runs in an enclave that is not initialized, nor one   *)
(* that was called after the enclave started to crash.                       *)
NoRunWhenDown ==
    \A t \in Threads :
        At(t, "run") /\ Top(t).func = "call"
            => inited[Top(t).e] /\ ~Top(t).late
=============================================================================
