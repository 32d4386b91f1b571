------------------------------- MODULE Runtime -------------------------------
(* Services of the enclave core that all enclave threads share:              *)
(*   "handlers"  the vectored exception handlers, enclave/core/sgx/exception.c*)
(*   "keys"      thread-specific data,            enclave/core/sgx/thread.c  *)
(*   "once"      one-time initialization,         enclave/core/once.c        *)
(*   "exit"      exit functions,                  enclave/core/atexit.c      *)
(* They share no state with each other, so a behaviour is about one of them, *)
(* chosen in Init by "service".                                              *)
(*                                                                           *)
(* Handlers are added and removed under g_exception_lock, but the second pass*)
(* of an exception walks the array without it, so each store of the shifting *)
(* loops is a step. Stores are taken in program order, which is what the     *)
(* x86-64 builds do between the calls of oe_spin_lock and oe_spin_unlock.    *)
EXTENDS Integers, FiniteSets, Sequences, SequencesExt

CONSTANTS
  Threads,       \* enclave threads
  NoThread,      \* the owner of a free spinlock
  Handlers,      \* exception handler functions
  NoHandler,     \* an array slot never written
  MaxHandlers,   \* MAX_EXCEPTION_HANDLER_COUNT
  Keys,          \* MIN_THREAD_KEY_INDEX .. MAX_THREAD_KEY_INDEX - 1, from 0
  Functions,     \* functions given to oe_atexit
  MaxOps         \* bound: service calls in one behaviour

ASSUME ThreadAssumption == NoThread \notin Threads
ASSUME SizeAssumption == MaxHandlers \in Nat
ASSUME KeyAssumption == IsFiniteSet(Keys) /\ Keys = 0 .. Cardinality(Keys) - 1

Services == {"handlers", "keys", "once", "exit"}

NoValue == [gen |-> 0, ses |-> 0]   \* a NULL thread-specific value

VARIABLES
  service, ops,
  pc, arg, idx,               \* per thread: program counter, argument, index
  arr, count, hlock,          \* g_exception_handler_arr, its count and its lock
  registered, walk,           \* history: calls that returned OE_OK; each thread's walk
  used, dtor, klock,          \* the key slots and their lock
  page, ses, gen,             \* TSD pages, ecalls finished, keys created per slot
  once, runs, finished,       \* oe_once_t and what func has done
  entries, called,            \* _entries and the exit functions already called
  due                         \* history: entries registered when the calls began

callVars == <<pc, arg, idx>>
handlerVars == <<arr, count, hlock, registered, walk>>
keyVars == <<used, dtor, klock, page, ses, gen>>
onceVars == <<once, runs, finished>>
exitVars == <<entries, called, due>>
vars == <<service, ops, callVars, handlerVars, keyVars, onceVars, exitVars>>

NoWalk == [steady |-> {}, seen |-> {}, shifted |-> FALSE, called |-> {}]

Init ==
  /\ service \in Services
  /\ ops = 0
  /\ pc = [t \in Threads |-> "idle"]
  /\ arg = [t \in Threads |-> NoHandler]
  /\ idx = [t \in Threads |-> 0]
  /\ arr = [i \in 0 .. MaxHandlers - 1 |-> NoHandler]
  /\ count = 0
  /\ hlock = NoThread
  /\ registered = {}
  /\ walk = [t \in Threads |-> NoWalk]
  /\ used = [k \in Keys |-> FALSE]
  /\ dtor = [k \in Keys |-> FALSE]
  /\ klock = NoThread
  /\ page = [t \in Threads |-> [k \in Keys |-> NoValue]]
  /\ ses = [t \in Threads |-> 1]
  /\ gen = [k \in Keys |-> 0]
  /\ once = "FUNC_NOT_INVOKED"
  /\ runs = 0
  /\ finished = FALSE
  /\ entries = <<>>
  /\ called = <<>>
  /\ due = 0

Goto(t, place) == pc' = [pc EXCEPT ![t] = place]

\* Thread t, in no call of the service, makes one.
Call(t, s) ==
  /\ service = s
  /\ pc[t] = "idle"
  /\ ops < MaxOps
  /\ ops' = ops + 1

-----------------------------------------------------------------------------
(* Vectored exception handlers.                                              *)

InArray(h) == \E i \in 0 .. count - 1 : arr[i] = h

IndexOf(h) == CHOOSE i \in 0 .. count - 1 : arr[i] = h

Walking(t) == pc[t] \in {"check", "invoke"}

\* Every walk in progress notes that handler h has reached the array.
SeenByWalks(h) ==
  [t \in Threads |->
     IF Walking(t) THEN [walk[t] EXCEPT !.seen = @ \cup {h}] ELSE walk[t]]

\* Every walk in progress notes that handlers move under it.
ShiftSeenByWalks ==
  [t \in Threads |->
     IF Walking(t) THEN [walk[t] EXCEPT !.shifted = TRUE] ELSE walk[t]]

AddRefused(h) == InArray(h) \/ count >= MaxHandlers

\* oe_add_vectored_exception_handler: under the lock, a handler already
\* registered and a full array are refused.
AddHandler(t, h, isFirst) ==
  /\ Call(t, "handlers")
  /\ hlock = NoThread
  /\ IF AddRefused(h) THEN UNCHANGED <<callVars, handlerVars>>
     ELSE /\ hlock' = t
          /\ arg' = [arg EXCEPT ![t] = h]
          /\ idx' = [idx EXCEPT ![t] = count]
          /\ Goto(t, IF isFirst THEN "move" ELSE "store")
          /\ walk' = IF isFirst THEN ShiftSeenByWalks ELSE walk
          /\ UNCHANGED <<arr, count, registered>>
  /\ UNCHANGED <<service, keyVars, onceVars, exitVars>>

\* The same loop written from the front: every slot becomes the first handler.
AddMoveForward(t) ==
  /\ pc[t] = "move"
  /\ arr' = [i \in DOMAIN arr |-> IF i \in 1 .. idx[t] THEN arr[0] ELSE arr[i]]
  /\ idx' = [idx EXCEPT ![t] = 0]
  /\ Goto(t, "store")
  /\ UNCHANGED <<service, ops, arg, count, hlock, registered, walk, keyVars, onceVars, exitVars>>

\* The loop that moves the existing handlers backward by one.
AddMove(t) ==
  /\ pc[t] = "move"
  /\ IF idx[t] > 0
     THEN /\ arr' = [arr EXCEPT ![idx[t]] = arr[idx[t] - 1]]
          /\ idx' = [idx EXCEPT ![t] = @ - 1]
          /\ UNCHANGED pc
     ELSE /\ Goto(t, "store")
          /\ UNCHANGED <<arr, idx>>
  /\ UNCHANGED <<service, ops, arg, count, hlock, registered, walk, keyVars, onceVars, exitVars>>

AddStore(t) ==
  /\ pc[t] = "store"
  /\ arr' = [arr EXCEPT ![idx[t]] = arg[t]]
  /\ walk' = SeenByWalks(arg[t])
  /\ Goto(t, "count")
  /\ UNCHANGED <<service, ops, arg, idx, count, hlock, registered, keyVars, onceVars, exitVars>>

\* The count is raised after the stores, and the lock is released.
AddCount(t) ==
  /\ pc[t] = "count"
  /\ count' = count + 1
  /\ registered' = registered \cup {arg[t]}
  /\ hlock' = NoThread
  /\ Goto(t, "idle")
  /\ UNCHANGED <<service, ops, arg, idx, arr, walk, keyVars, onceVars, exitVars>>

\* oe_remove_vectored_exception_handler: OE_FAILURE when h is not registered.
RemoveHandler(t, h) ==
  /\ Call(t, "handlers")
  /\ hlock = NoThread
  /\ IF InArray(h)
     THEN /\ hlock' = t
          /\ idx' = [idx EXCEPT ![t] = IndexOf(h)]
          /\ walk' = ShiftSeenByWalks
          /\ registered' = registered \ {h}
          /\ Goto(t, "shift")
          /\ UNCHANGED <<arg, arr, count>>
     ELSE UNCHANGED <<callVars, handlerVars>>
  /\ UNCHANGED <<service, keyVars, onceVars, exitVars>>

\* The loop that moves the following handlers forward by one; then the count.
RemoveShift(t) ==
  /\ pc[t] = "shift"
  /\ IF idx[t] < count - 1
     THEN /\ arr' = [arr EXCEPT ![idx[t]] = arr[idx[t] + 1]]
          /\ idx' = [idx EXCEPT ![t] = @ + 1]
          /\ UNCHANGED <<pc, count, hlock>>
     ELSE /\ count' = count - 1
          /\ hlock' = NoThread
          /\ Goto(t, "idle")
          /\ UNCHANGED <<arr, idx>>
  /\ UNCHANGED <<service, ops, arg, registered, walk, keyVars, onceVars, exitVars>>

Shifting ==
  \E u \in Threads :
    \/ pc[u] \in {"shift", "move"}
    \/ pc[u] \in {"store", "count"} /\ idx[u] < count

\* A handler being added, or moved by it, is past the count.
Spilled ==
  \E u \in Threads :
    pc[u] = "count" \/ (pc[u] \in {"move", "store"} /\ idx[u] < count)

\* The handlers in the array.
Stored == {arr[i] : i \in 0 .. (IF Spilled THEN count ELSE count - 1)}

\* oe_real_exception_dispatcher: thread t took an exception; it walks the array
\* without the lock.
WalkStart(t) ==
  /\ Call(t, "handlers")
  /\ idx' = [idx EXCEPT ![t] = 0]
  /\ walk' = [walk EXCEPT ![t] = [steady |-> registered, seen |-> Stored,
                                  shifted |-> Shifting, called |-> {}]]
  /\ Goto(t, "check")
  /\ UNCHANGED <<service, arg, arr, count, hlock, registered, keyVars, onceVars, exitVars>>

\* The loop's condition; past the last handler nobody handled the exception
\* and the enclave aborts.
WalkCheck(t) ==
  /\ pc[t] = "check"
  /\ Goto(t, IF idx[t] < count THEN "invoke" ELSE "aborted")
  /\ UNCHANGED <<service, ops, arg, idx, handlerVars, keyVars, onceVars, exitVars>>

\* The handler now at this index runs. OE_EXCEPTION_CONTINUE_EXECUTION ends the
\* walk, OE_EXCEPTION_CONTINUE_SEARCH goes on to the next index.
WalkInvoke(t) ==
  /\ pc[t] = "invoke"
  /\ walk' = [walk EXCEPT ![t].called = @ \cup {arr[idx[t]]}]
  /\ idx' = [idx EXCEPT ![t] = @ + 1]
  /\ \E handled \in BOOLEAN : Goto(t, IF handled THEN "idle" ELSE "check")
  /\ UNCHANGED <<service, ops, arg, arr, count, hlock, registered, keyVars, onceVars, exitVars>>

-----------------------------------------------------------------------------
(* Thread-specific data. A value remembers the key (by its creation number)  *)
(* and the ecall (by its session number) it was set under. Destructors are   *)
(* user code taken not to call the key functions: they run under the lock.   *)

\* oe_thread_key_create: the first unused slot, or OE_OUT_OF_MEMORY.
KeyCreate(t) ==
  /\ Call(t, "keys")
  /\ klock = NoThread
  /\ LET free == {k \in Keys : ~used[k]} IN
       IF free = {} THEN UNCHANGED <<used, dtor, gen>>
       ELSE LET k == CHOOSE i \in free : \A j \in free : i <= j IN
              /\ used' = [used EXCEPT ![k] = TRUE]
              /\ \E d \in BOOLEAN : dtor' = [dtor EXCEPT ![k] = d]
              /\ gen' = [gen EXCEPT ![k] = @ + 1]
  /\ UNCHANGED <<service, callVars, klock, page, ses, handlerVars, onceVars, exitVars>>

\* oe_thread_key_delete: the slot is cleared, the threads' values are not.
KeyDelete(t, k) ==
  /\ Call(t, "keys")
  /\ klock = NoThread
  /\ used' = [used EXCEPT ![k] = FALSE]
  /\ dtor' = [dtor EXCEPT ![k] = FALSE]
  /\ UNCHANGED <<service, callVars, klock, page, ses, gen, handlerVars, onceVars, exitVars>>

\* oe_thread_setspecific: neither the lock nor the slot's "used" is looked at.
SetSpecific(t, k) ==
  /\ Call(t, "keys")
  /\ page' = [page EXCEPT ![t][k] = [gen |-> gen[k], ses |-> ses[t]]]
  /\ UNCHANGED <<service, callVars, used, dtor, klock, ses, gen, handlerVars, onceVars, exitVars>>

\* oe_thread_destruct_specific, called by td_clear when the outermost ecall
\* returns: it takes the lock ...
DestructLock(t) ==
  /\ Call(t, "keys")
  /\ klock = NoThread
  /\ klock' = t
  /\ idx' = [idx EXCEPT ![t] = 0]
  /\ Goto(t, "destruct")
  /\ UNCHANGED <<service, arg, used, dtor, page, ses, gen, handlerVars, onceVars, exitVars>>

\* A value without a destructor is left in place.
ClearedIfDestroyed(t, k) == IF dtor[k] THEN NoValue ELSE page[t][k]

\* What a used key's value becomes once its destructor, if any, has run.
Cleared(t, k) == NoValue

\* ... and goes through all keys; the ecall is then over.
DestructKey(t) ==
  /\ pc[t] = "destruct"
  /\ IF idx[t] \in Keys
     THEN /\ page' = IF used[idx[t]]
                     THEN [page EXCEPT ![t][idx[t]] = Cleared(t, idx[t])] ELSE page
          /\ idx' = [idx EXCEPT ![t] = @ + 1]
          /\ UNCHANGED <<pc, klock, ses>>
     ELSE /\ klock' = NoThread
          /\ ses' = [ses EXCEPT ![t] = @ + 1]
          /\ Goto(t, "idle")
          /\ UNCHANGED <<page, idx>>
  /\ UNCHANGED <<service, ops, arg, used, dtor, gen, handlerVars, onceVars, exitVars>>

-----------------------------------------------------------------------------
(* One-time initialization.                                                  *)

\* oe_once: the acquire load.
OnceLoad(t) ==
  /\ Call(t, "once")
  /\ Goto(t, IF once = "FUNC_INVOKED" THEN "returned" ELSE "cas")
  /\ UNCHANGED <<service, arg, idx, handlerVars, keyVars, onceVars, exitVars>>

\* The compare-exchange decides who invokes func.
OnceExchange(t) ==
  /\ pc[t] = "cas"
  /\ IF once = "FUNC_NOT_INVOKED"
     THEN once' = "FUNC_BEING_INVOKED" /\ Goto(t, "func")
     ELSE UNCHANGED once /\ Goto(t, "spin")
  /\ UNCHANGED <<service, ops, arg, idx, runs, finished, handlerVars, keyVars, exitVars>>

\* func starts, and returns in a later step.
OnceInvoke(t) ==
  /\ pc[t] = "func"
  /\ runs' = runs + 1
  /\ Goto(t, "infunc")
  /\ UNCHANGED <<service, ops, arg, idx, once, finished, handlerVars, keyVars, exitVars>>

OnceStore(t) ==
  /\ pc[t] = "infunc"
  /\ finished' = TRUE
  /\ once' = "FUNC_INVOKED"
  /\ Goto(t, "returned")
  /\ UNCHANGED <<service, ops, arg, idx, runs, handlerVars, keyVars, exitVars>>

\* A loser leaves as soon as somebody has begun.
OnceSpinShort(t) ==
  /\ pc[t] = "spin"
  /\ once # "FUNC_NOT_INVOKED"
  /\ Goto(t, "returned")
  /\ UNCHANGED <<service, ops, arg, idx, handlerVars, keyVars, onceVars, exitVars>>

\* A loser waits for a value the variable never takes again.
OnceSpinForever(t) ==
  /\ pc[t] = "spin"
  /\ once = "FUNC_NOT_INVOKED"
  /\ Goto(t, "returned")
  /\ UNCHANGED <<service, ops, arg, idx, handlerVars, keyVars, onceVars, exitVars>>

\* The losers of the exchange spin until func has completed.
OnceSpin(t) ==
  /\ pc[t] = "spin"
  /\ once = "FUNC_INVOKED"
  /\ Goto(t, "returned")
  /\ UNCHANGED <<service, ops, arg, idx, handlerVars, keyVars, onceVars, exitVars>>

-----------------------------------------------------------------------------
(* Exit functions.                                                           *)

\* oe_cxa_atexit: the entry becomes the head of the list.
AtExit(t, f) ==
  /\ Call(t, "exit")
  /\ entries' = <<f>> \o entries
  /\ UNCHANGED <<service, callVars, called, due, handlerVars, keyVars, onceVars>>

\* oe_call_atexit_functions, from OE_ECALL_DESTRUCTOR (once per enclave): the
\* walk takes the head without the lock; idx counts the entries left below it.
ExitStart(t) ==
  /\ service = "exit"
  /\ pc[t] = "idle"
  /\ \A u \in Threads : pc[u] \notin {"exiting", "exited"}
  /\ idx' = [idx EXCEPT ![t] = Len(entries)]
  /\ due' = Len(entries)
  /\ Goto(t, "exiting")
  /\ UNCHANGED <<service, ops, arg, entries, called, handlerVars, keyVars, onceVars>>

\* The function of the entry p is called, and p becomes p->next.
ExitCall(t) ==
  /\ pc[t] = "exiting"
  /\ IF idx[t] > 0
     THEN /\ called' = Append(called, entries[Len(entries) - idx[t] + 1])
          /\ idx' = [idx EXCEPT ![t] = @ - 1]
          /\ UNCHANGED pc
     ELSE /\ Goto(t, "exited")
          /\ UNCHANGED <<called, idx>>
  /\ UNCHANGED <<service, ops, arg, entries, due, handlerVars, keyVars, onceVars>>

-----------------------------------------------------------------------------
Steps(t) ==
  \/ AddMove(t) \/ AddStore(t) \/ AddCount(t) \/ RemoveShift(t)
  \/ WalkCheck(t) \/ WalkInvoke(t)
  \/ DestructKey(t)
  \/ OnceExchange(t) \/ OnceInvoke(t) \/ OnceStore(t) \/ OnceSpin(t)
  \/ ExitCall(t)

Next ==
  \E t \in Threads :
    \/ \E h \in Handlers :
         \/ \E isFirst \in BOOLEAN : AddHandler(t, h, isFirst)
         \/ RemoveHandler(t, h)
    \/ WalkStart(t)
    \/ KeyCreate(t)
    \/ \E k \in Keys : KeyDelete(t, k) \/ SetSpecific(t, k)
    \/ DestructLock(t)
    \/ OnceLoad(t)
    \/ \E f \in Functions : AtExit(t, f)
    \/ ExitStart(t)
    \/ Steps(t)

\* A thread inside a call runs on: no step waits but for another thread's step.
Spec == Init /\ [][Next]_vars /\ \A t \in Threads : WF_vars(Steps(t))

-----------------------------------------------------------------------------
TypeOK ==
  /\ count \in 0 .. MaxHandlers
  /\ \A i \in 0 .. count - 1 : arr[i] \in Handlers
  /\ {hlock, klock} \subseteq Threads \cup {NoThread}
  /\ runs \in 0 .. 1

(* The second pass of an exception (oe_real_exception_dispatcher) races with  *)
(* registrations: it only ever calls handlers that were in the array at some  *)
(* time of its walk, and when it gives up - and the enclave aborts - it has   *)
(* called every handler registered when it began, unless the array was being  *)
(* shifted meanwhile. (A removal moves a later handler below the walk's index,*)
(* and an insertion at the front moves the last one past the count: the walk  *)
(* can then pass over a registered handler and the enclave aborts.)           *)
HandlersReached ==
  \A t \in Threads :
    /\ walk[t].called \subseteq walk[t].seen
    /\ pc[t] = "aborted" /\ ~walk[t].shifted => walk[t].steady \subseteq walk[t].called

(* No ecall reads the thread-specific value of an earlier ecall of the same   *)
(* TCS under a key that has lived on: oe_thread_destruct_specific cleared it. *)
(* (A slot deleted and created anew does show such a value.)                  *)
ThreadDataFresh ==
  \A t \in Threads, k \in Keys :
    used[k] /\ page[t][k] # NoValue /\ page[t][k].gen = gen[k] =>
      \/ page[t][k].ses = ses[t]
      \/ pc[t] = "destruct"

(* oe_once runs its function once and no caller returns before it completed;  *)
(* oe_call_atexit_functions calls what was registered before it, each entry   *)
(* once, the latest first, whatever other threads register meanwhile.         *)
RunsOnce ==
  /\ TypeOK
  /\ \A t \in Threads : pc[t] = "returned" => runs = 1 /\ finished
  /\ \A t \in Threads :
       /\ pc[t] = "exiting" => /\ Len(called) + idx[t] = due
                               /\ IsSuffix(called, SubSeq(entries, 1, Len(entries) - idx[t]))
       /\ pc[t] = "exited" => Len(called) = due /\ IsSuffix(called, entries)

(* Every call of a service returns: the spinning callers of oe_once are       *)
(* released by the one that runs the function, and no step leaves a spinlock  *)
(* behind it.                                                                 *)
CallReturns ==
  \A t \in Threads :
    pc[t] # "idle" ~> pc[t] \in {"idle", "aborted", "returned", "exited"}

=============================================================================
