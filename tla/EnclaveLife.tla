---------------------------- MODULE EnclaveLife ----------------------------
(***************************************************************************)
(* The life of enclaves on the host: oe_create_enclave and                  *)
(* oe_terminate_enclave (host/sgx/create.c), the global list of enclaves    *)
(* that exception handling searches (host/sgx/enclavemanager.c), the start  *)
(* of the switchless manager (host/sgx/switchless.c) and the list kept for  *)
(* debuggers (debugger/debugrt/host/host.c).  Several threads create,       *)
(* terminate and look up enclaves at once.                                  *)
(*                                                                         *)
(* A step is one critical section, one ecall, one thread creation or one    *)
(* access to the debugger's list.  Enclave structures are numbered in the   *)
(* order of their allocation, and never reused, so that a pointer to a      *)
(* freed one stays recognisable.                                            *)
(***************************************************************************)
EXTENDS Integers, Sequences, FiniteSets, SequencesExt

CONSTANTS
    Threads,
    NoThread,
    MaxEnclaves,    \* bound: enclave structures allocated in a behaviour
    Settings,       \* requested workers: a set of [host : Nat, enclave : Nat]
    EdlResults,     \* what the switchless ecalls return: OE_OK, or
                    \* OE_UNSUPPORTED if the EDL is not imported
    InitResults     \* what the ecall OE_ECALL_INIT_ENCLAVE returns

ASSUME ThreadAssumption == NoThread \notin Threads
ASSUME BoundAssumption == MaxEnclaves \in Nat
ASSUME SettingAssumption == Settings \subseteq [host : Nat, enclave : Nat]
ASSUME ResultAssumption ==
    EdlResults \cup InitResults \subseteq {"OE_OK", "OE_UNSUPPORTED", "OE_FAILURE"}

Enclaves == 1 .. MaxEnclaves
NULL == 0

VARIABLES
    obj,        \* the oe_enclave_t structures: none, alive or freed
    epc,        \* enclaves whose memory is mapped
    list,       \* oe_enclave_list_head, first entry first
    listLock,   \* holder of oe_enclave_list_lock
    want,       \* the switchless setting an enclave was created with
    manager,    \* enclaves with a switchless_manager
    running,    \* running[e]: its worker threads, as [host, enclave]
    dbgHead,    \* oe_debug_enclaves_list
    dbgNext,    \* oe_debug_enclave_t::next
    op,         \* the call each thread is in
    mine        \* the enclaves oe_create_enclave has returned

vars == <<obj, epc, list, listLock, want, manager, running, dbgHead, dbgNext, op, mine>>
memVars == <<obj, epc>>
listVars == <<list, listLock>>
workerVars == <<want, manager, running>>
dbgVars == <<dbgHead, dbgNext>>

(* .e is the enclave the call is about, .i an index into the list. *)
Idle == [pc |-> "idle", e |-> NULL, i |-> 0]
NoWorkers == [host |-> 0, enclave |-> 0]

Creating == {"build", "push", "dbgRead", "dbgWrite", "init", "hostWorkers",
             "initSwitchless", "enclaveWorkers", "spin", "started", "fail"}
Terminating == {"stop", "destructor", "dbgRemove", "remove", "delete"}

TypeOK ==
    /\ obj \in [Enclaves -> {"none", "alive", "freed"}]
    /\ epc \subseteq Enclaves
    /\ list \in Seq(Enclaves) /\ listLock \in Threads \cup {NoThread}
    /\ want \in [Enclaves -> [host : Nat, enclave : Nat]]
    /\ running \in [Enclaves -> [host : Nat, enclave : Nat]]
    /\ manager \subseteq Enclaves
    /\ dbgHead \in 0 .. MaxEnclaves /\ dbgNext \in [Enclaves -> 0 .. MaxEnclaves]
    /\ op \in [Threads -> [pc : {"idle", "query"} \cup Creating \cup Terminating,
                           e : 0 .. MaxEnclaves, i : Nat]]
    /\ mine \subseteq Enclaves

Init ==
    /\ obj = [e \in Enclaves |-> "none"]
    /\ epc = {} /\ list = <<>> /\ listLock = NoThread
    /\ want = [e \in Enclaves |-> NoWorkers]
    /\ running = [e \in Enclaves |-> NoWorkers]
    /\ manager = {}
    /\ dbgHead = NULL /\ dbgNext = [e \in Enclaves |-> NULL]
    /\ op = [t \in Threads |-> Idle]
    /\ mine = {}

Goto(t, pc) == op' = [op EXCEPT ![t].pc = pc]
Return(t) == op' = [op EXCEPT ![t] = Idle]

-----------------------------------------------------------------------------
(* oe_create_enclave. *)

(* The structure is allocated and the load context initialized. *)
Create(t) ==
    /\ op[t] = Idle
    /\ \E e \in Enclaves, s \in Settings :
        /\ obj[e] = "none" /\ \A d \in 1 .. e - 1 : obj[d] # "none"
        /\ obj' = [obj EXCEPT ![e] = "alive"]
        /\ want' = [want EXCEPT ![e] = s]
        /\ op' = [op EXCEPT ![t] = [Idle EXCEPT !.pc = "build", !.e = e]]
    /\ UNCHANGED <<epc, listVars, manager, running, dbgVars, mine>>

(* oe_sgx_build_enclave maps the enclave's memory and fills it. *)
Build(t) ==
    /\ op[t].pc = "build"
    /\ epc' = epc \cup {op[t].e}
    /\ Goto(t, "push")
    /\ UNCHANGED <<obj, listVars, workerVars, dbgVars, mine>>

(* It may fail before or after the memory is mapped, and does not unmap it. *)
BuildFails(t) ==
    /\ op[t].pc = "build"
    /\ \E mapped \in {{}, {op[t].e}} : epc' = epc \cup mapped
    /\ Goto(t, "fail")
    /\ UNCHANGED <<obj, listVars, workerVars, dbgVars, mine>>

(* oe_push_enclave_instance, which refuses an enclave that is in the list. *)
Push(t) ==
    /\ op[t].pc = "push" /\ listLock = NoThread
    /\ op[t].e \notin ToSet(list)
    /\ list' = <<op[t].e>> \o list
    /\ Goto(t, "dbgRead")
    /\ UNCHANGED <<memVars, listLock, workerVars, dbgVars, mine>>

(* It was refused, or its entry cannot be allocated. *)
PushFails(t) ==
    /\ op[t].pc = "push" /\ listLock = NoThread
    /\ Goto(t, "fail")
    /\ UNCHANGED <<memVars, listVars, workerVars, dbgVars, mine>>

(* oe_debug_notify_enclave_created: enclave->next = oe_debug_enclaves_list.  *)
(* spin_lock() loops while __atomic_test_and_set returns that the flag was   *)
(* clear, so it returns at once when another thread has set the flag: the    *)
(* two accesses to the list are not protected from another thread's.         *)
DebugRead(t) ==
    /\ op[t].pc = "dbgRead"
    /\ dbgNext' = [dbgNext EXCEPT ![op[t].e] = dbgHead]
    /\ Goto(t, "dbgWrite")
    /\ UNCHANGED <<memVars, listVars, workerVars, dbgHead, mine>>

(* oe_debug_enclaves_list = enclave *)
DebugWrite(t) ==
    /\ op[t].pc = "dbgWrite"
    /\ dbgHead' = op[t].e
    /\ Goto(t, "init")
    /\ UNCHANGED <<memVars, listVars, workerVars, dbgNext, mine>>

(* _initialize_enclave, the first ecall; then the settings are applied:      *)
(* oe_start_switchless_manager, if workers are asked for.                    *)
Initialize(t) ==
    /\ op[t].pc = "init"
    /\ \E r \in InitResults :
        Goto(t, IF r # "OE_OK" THEN "fail"
                ELSE IF want[op[t].e] = NoWorkers THEN "started" ELSE "hostWorkers")
    /\ UNCHANGED <<memVars, listVars, workerVars, dbgVars, mine>>

(* The host workers are started one by one ... *)
StartHostWorker(t) ==
    LET e == op[t].e IN
    /\ op[t].pc = "hostWorkers"
    /\ IF running[e].host < want[e].host
       THEN running' = [running EXCEPT ![e].host = @ + 1] /\ UNCHANGED op
       ELSE Goto(t, "initSwitchless") /\ UNCHANGED running
    /\ UNCHANGED <<memVars, listVars, want, manager, dbgVars, mine>>

(* ... the enclave is told of them, if there are any ... *)
InitSwitchless(t) ==
    /\ op[t].pc = "initSwitchless"
    /\ \E r \in EdlResults :
        Goto(t, IF want[op[t].e].host > 0 /\ r # "OE_OK" THEN "fail" ELSE "enclaveWorkers")
    /\ UNCHANGED <<memVars, listVars, workerVars, dbgVars, mine>>

(* ... and the enclave workers are started, each when the one before has     *)
(* counted its first spin inside the enclave.  A worker whose ecall fails    *)
(* ends without counting, and the loop that waits for it never does.         *)
StartEnclaveWorker(t) ==
    LET e == op[t].e IN
    /\ op[t].pc = "enclaveWorkers"
    /\ running[e].enclave < want[e].enclave
    /\ \E r \in EdlResults :
        IF r = "OE_OK"
        THEN running' = [running EXCEPT ![e].enclave = @ + 1] /\ UNCHANGED op
        ELSE Goto(t, "spin") /\ UNCHANGED running
    /\ UNCHANGED <<memVars, listVars, want, manager, dbgVars, mine>>

(* enclave->switchless_manager = manager *)
StartDone(t) ==
    /\ op[t].pc = "enclaveWorkers" /\ running[op[t].e] = want[op[t].e]
    /\ manager' = manager \cup {op[t].e}
    /\ Goto(t, "started")
    /\ UNCHANGED <<memVars, listVars, want, running, dbgVars, mine>>

(* *enclave_out = enclave *)
CreateReturns(t) ==
    /\ op[t].pc = "started"
    /\ mine' = mine \cup {op[t].e}
    /\ Return(t)
    /\ UNCHANGED <<memVars, listVars, workerVars, dbgVars>>

(* The label done of a creation that failed: free(enclave), and no more.  A  *)
(* failed oe_start_switchless_manager asks oe_stop_switchless_manager to     *)
(* stop the workers, which finds enclave->switchless_manager still NULL.     *)
CreateFails(t) ==
    /\ op[t].pc = "fail"
    /\ obj' = [obj EXCEPT ![op[t].e] = "freed"]
    /\ Return(t)
    /\ UNCHANGED <<epc, listVars, workerVars, dbgVars, mine>>

-----------------------------------------------------------------------------
(* oe_terminate_enclave, by the thread that takes the enclave over. *)
Terminate(t) ==
    /\ op[t] = Idle
    /\ \E e \in mine :
        /\ op' = [op EXCEPT ![t] = [Idle EXCEPT !.pc = "stop", !.e = e]]
        /\ mine' = mine \ {e}
    /\ UNCHANGED <<memVars, listVars, workerVars, dbgVars>>

(* Faulty variant: the manager is freed without stopping its workers. *)
StopNothing(t) ==
    /\ op[t].pc = "stop"
    /\ manager' = manager \ {op[t].e}
    /\ Goto(t, "destructor")
    /\ UNCHANGED <<memVars, listVars, want, running, dbgVars, mine>>

(* oe_stop_switchless_manager: every worker is flagged, woken and joined     *)
(* (module Switchless has the steps).                                        *)
Stop(t) ==
    LET e == op[t].e IN
    /\ op[t].pc = "stop"
    /\ running' = IF e \in manager THEN [running EXCEPT ![e] = NoWorkers] ELSE running
    /\ manager' = manager \ {e}
    /\ Goto(t, "destructor")
    /\ UNCHANGED <<memVars, listVars, want, dbgVars, mine>>

Destructor(t) ==
    /\ op[t].pc = "destructor"
    /\ Goto(t, "dbgRemove")
    /\ UNCHANGED <<memVars, listVars, workerVars, dbgVars, mine>>

(* The ecall fails: oe_terminate_enclave returns, and may be called again. *)
DestructorFails(t) ==
    /\ op[t].pc = "destructor"
    /\ mine' = mine \cup {op[t].e}
    /\ Return(t)
    /\ UNCHANGED <<memVars, listVars, workerVars, dbgVars>>

(* The enclaves a debugger finds, in the order of its list. *)
DebugChain ==
    LET f[n \in 0 .. MaxEnclaves] ==
            IF n = 0 THEN <<>>
            ELSE LET last == IF f[n - 1] = <<>> THEN dbgHead ELSE dbgNext[Last(f[n - 1])]
                 IN  IF last = NULL \/ last \in ToSet(f[n - 1]) THEN f[n - 1]
                     ELSE Append(f[n - 1], last)
    IN  f[MaxEnclaves]

(* oe_debug_notify_enclave_terminated; an entry it cannot find is OE_NOT_FOUND. *)
DebugRemove(t) ==
    LET e == op[t].e
        c == DebugChain
    IN
    /\ op[t].pc = "dbgRemove"
    /\ IF e \notin ToSet(c) THEN UNCHANGED dbgVars
       ELSE LET k == CHOOSE i \in DOMAIN c : c[i] = e IN
            IF k = 1 THEN dbgHead' = dbgNext[e] /\ dbgNext' = [dbgNext EXCEPT ![e] = NULL]
            ELSE /\ dbgNext' = [dbgNext EXCEPT ![c[k - 1]] = dbgNext[e], ![e] = NULL]
                 /\ UNCHANGED dbgHead
    /\ Goto(t, "remove")
    /\ UNCHANGED <<memVars, listVars, workerVars, mine>>

(* Faulty variant: the list is changed without its lock. *)
RemoveInstanceUnlocked(t) ==
    /\ op[t].pc = "remove"
    /\ list' = RemoveFirst(list, op[t].e)
    /\ Goto(t, "delete")
    /\ UNCHANGED <<memVars, listLock, workerVars, dbgVars, mine>>

(* oe_remove_enclave_instance *)
RemoveInstance(t) ==
    /\ op[t].pc = "remove" /\ listLock = NoThread
    /\ list' = RemoveFirst(list, op[t].e)
    /\ Goto(t, "delete")
    /\ UNCHANGED <<memVars, listLock, workerVars, dbgVars, mine>>

(* Under the enclave's lock, oe_sgx_delete_enclave; then the structure goes. *)
Delete(t) ==
    /\ op[t].pc = "delete"
    /\ epc' = epc \ {op[t].e}
    /\ obj' = [obj EXCEPT ![op[t].e] = "freed"]
    /\ Return(t)
    /\ UNCHANGED <<listVars, workerVars, dbgVars, mine>>

-----------------------------------------------------------------------------
(* oe_query_enclave_instance, made by the exception handler of a thread.     *)

Query(t) ==
    /\ op[t] = Idle /\ listLock = NoThread /\ list # <<>>
    /\ listLock' = t
    /\ op' = [op EXCEPT ![t] = [Idle EXCEPT !.pc = "query", !.i = 1]]
    /\ UNCHANGED <<memVars, list, workerVars, dbgVars, mine>>

(* One entry: its enclave's lock is taken, its bindings are searched.  The   *)
(* walk does not stop at the owner.                                          *)
Visit(t) ==
    /\ op[t].pc = "query" /\ op[t].i < Len(list)
    /\ op' = [op EXCEPT ![t].i = @ + 1]
    /\ UNCHANGED <<memVars, listVars, workerVars, dbgVars, mine>>

(* Faulty variant: the lock of the list is not released. *)
QueryKeepsLock(t) ==
    /\ op[t].pc = "query" /\ op[t].i >= Len(list)
    /\ Return(t)
    /\ UNCHANGED <<memVars, listVars, workerVars, dbgVars, mine>>

QueryReturns(t) ==
    /\ op[t].pc = "query" /\ op[t].i >= Len(list)
    /\ listLock' = NoThread
    /\ Return(t)
    /\ UNCHANGED <<memVars, list, workerVars, dbgVars, mine>>

-----------------------------------------------------------------------------
CreateStep(t) ==
    \/ Build(t) \/ BuildFails(t) \/ Push(t) \/ PushFails(t)
    \/ DebugRead(t) \/ DebugWrite(t) \/ Initialize(t)
    \/ StartHostWorker(t) \/ InitSwitchless(t) \/ StartEnclaveWorker(t) \/ StartDone(t)
    \/ CreateReturns(t) \/ CreateFails(t)

TerminateStep(t) ==
    \/ Stop(t) \/ Destructor(t) \/ DestructorFails(t) \/ DebugRemove(t)
    \/ RemoveInstance(t) \/ Delete(t)

QueryStep(t) == Visit(t) \/ QueryReturns(t)

Next ==
    \E t \in Threads :
        \/ Create(t) \/ CreateStep(t)
        \/ Terminate(t) \/ TerminateStep(t)
        \/ Query(t) \/ QueryStep(t)

(* The operating system schedules a thread inside a call, and its mutexes    *)
(* are granted: threads may take the list's lock again and again.            *)
Fairness ==
    \A t \in Threads : SF_vars(CreateStep(t) \/ TerminateStep(t) \/ QueryStep(t))

Spec == Init /\ [][Next]_vars /\ Fairness

-----------------------------------------------------------------------------
(* oe_query_enclave_instance reaches live enclaves only: a thread in an       *)
(* exception handler never locks or reads an enclave structure that another   *)
(* thread has freed, however creations and terminations interleave with it.   *)
QueryReachesLive ==
    \A t \in Threads : op[t].pc = "query" =>
        /\ op[t].i \in DOMAIN list
        /\ obj[list[op[t].i]] = "alive"
        /\ list[op[t].i] \in epc

(* An enclave is complete or gone. One the application holds is in the list   *)
(* once, mapped, with exactly the worker threads it asked for, under a        *)
(* manager that will stop them, unless a failed termination has already       *)
(* stopped them; a freed one leaves nothing behind that refers to it: no list *)
(* entry, no manager and no worker that would handle its calls or enter it.   *)
InstancesAccounted ==
    /\ TypeOK
    /\ \A e \in mine :
        /\ obj[e] = "alive" /\ e \in epc
        /\ Cardinality({i \in DOMAIN list : list[i] = e}) = 1
        /\ e \in manager => running[e] = want[e]
        /\ e \notin manager => running[e] = NoWorkers
    /\ \A e \in Enclaves : obj[e] = "freed" =>
        /\ e \notin ToSet(list) /\ e \notin manager
        /\ running[e] = NoWorkers

(* Every oe_create_enclave, oe_terminate_enclave and                          *)
(* oe_query_enclave_instance returns.                                         *)
CallReturns == \A t \in Threads : op[t].pc # "idle" ~> op[t].pc = "idle"

(* A debugger that walks oe_debug_enclaves_list finds every enclave that      *)
(* oe_debug_notify_enclave_created has prepended to it.                       *)
DebuggerFinds == mine \subseteq ToSet(DebugChain)
=============================================================================
