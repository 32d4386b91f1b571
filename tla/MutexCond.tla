----------------------------- MODULE MutexCond -----------------------------
(***************************************************************************)
(* The enclave's recursive mutexes and condition variables                  *)
(* (enclave/core/sgx/thread.c) on top of the thread events of EventSpec.    *)
(*                                                                         *)
(* A section that runs under the object's spinlock is one action: nothing   *)
(* reads or writes the object outside it.  oe_cond_wait holds the condition *)
(* variable's spinlock around the mutex's; its first section is one action  *)
(* too, because the queue it changes before it takes the mutex's spinlock   *)
(* is invisible to the others until it releases its own.                    *)
(*                                                                         *)
(* Queues are linked through oe_sgx_td_t.next, of which a thread has one.   *)
(* They are modelled as sequences; LinkedOnce is what makes that right.     *)
(***************************************************************************)
EXTENDS EventSpec, Sequences, FiniteSets

CONSTANTS
    Mutexes, Conds,
    NoThread, NoMutex, NoCond,
    MaxRefs,        \* bound: recursive acquisitions of one mutex
    CondWaitRefs    \* with how many acquisitions of the mutex the application
                    \* calls oe_cond_wait: {1} is the documented use, 0 is a
                    \* caller that does not own it, 2 a nested acquisition

ASSUME NullAssumption ==
    NoThread \notin Threads /\ NoMutex \notin Mutexes /\ NoCond \notin Conds
ASSUME RefsAssumption == MaxRefs \in Nat \ {0} /\ CondWaitRefs \subseteq Nat

VARIABLES
    owner, refs, queue, \* oe_mutex_impl_t of each mutex
    cqueue,             \* oe_cond_impl_t.queue of each condition variable
    pc,                 \* where each thread is
    mtx, cnd,           \* the mutex and condition variable of the call it is in
    wake                \* the threads its call still has to wake, in order

objVars == <<owner, refs, queue, cqueue>>
callVars == <<pc, mtx, cnd, wake>>
vars == <<objVars, callVars, eventVars>>

(* "run" is application code; "lock" is before the spinlock of a mutex;      *)
(* "wake" and "wakeAll" are the wakes that end unlock, signal, broadcast;    *)
(* "condWake" is the wake half of _thread_wake_wait.                         *)
WaitLocs == {"lockWait", "condWait"}
WakeLocs == {"wake", "wakeAll", "condWake"}
Locs == {"run", "lock", "condCheck"} \cup WaitLocs \cup WakeLocs

TypeOK ==
    /\ owner \in [Mutexes -> Threads \cup {NoThread}]
    /\ refs \in [Mutexes -> 0 .. MaxRefs]
    /\ queue \in [Mutexes -> Seq(Threads)]
    /\ cqueue \in [Conds -> Seq(Threads)]
    /\ pc \in [Threads -> Locs]
    /\ mtx \in [Threads -> Mutexes \cup {NoMutex}]
    /\ cnd \in [Threads -> Conds \cup {NoCond}]
    /\ wake \in [Threads -> Seq(Threads)]
    /\ tokens \in [Threads -> 0 .. 1]
    /\ waiting = {t \in Threads : pc[t] \in WaitLocs}

(* oe_mutex_init and oe_cond_init, or the static initializers. *)
Init ==
    /\ owner = [m \in Mutexes |-> NoThread]
    /\ refs = [m \in Mutexes |-> 0]
    /\ queue = [m \in Mutexes |-> <<>>]
    /\ cqueue = [c \in Conds |-> <<>>]
    /\ pc = [t \in Threads |-> "run"]
    /\ mtx = [t \in Threads |-> NoMutex]
    /\ cnd = [t \in Threads |-> NoCond]
    /\ wake = [t \in Threads |-> <<>>]
    /\ EventInit

Goto(t, l) == pc' = [pc EXCEPT ![t] = l]

(* _queue_contains *)
Contains(q, t) == \E i \in 1 .. Len(q) : q[i] = t

(* _mutex_lock would return 0 for t. *)
CanLock(t, m) ==
    \/ owner[m] = t
    \/ owner[m] = NoThread /\ (queue[m] # <<>> => Head(queue[m]) = t)

(* The updates of a successful _mutex_lock. *)
Acquire(t, m) ==
    /\ owner' = [owner EXCEPT ![m] = t]
    /\ refs' = [refs EXCEPT ![m] = IF owner[m] = t THEN @ + 1 ELSE 1]
    /\ queue' = [queue EXCEPT ![m] = IF owner[m] = t \/ @ = <<>>
                                     THEN @ ELSE Tail(@)]

(* The updates of a successful _mutex_unlock, and the waiter it reports.     *)
Release(m) ==
    /\ refs' = [refs EXCEPT ![m] = @ - 1]
    /\ owner' = [owner EXCEPT ![m] = IF refs[m] = 1 THEN NoThread ELSE @]

(* Faulty variants: the last waiter instead of the first; a waiter although  *)
(* the owner still has a reference.                                          *)
ReleasedWaiterBack(m) ==
    IF refs[m] = 1 /\ queue[m] # <<>>
    THEN <<queue[m][Len(queue[m])]>> ELSE <<>>

ReleasedWaiterNested(m) ==
    IF queue[m] # <<>> THEN <<Head(queue[m])>> ELSE <<>>

ReleasedWaiter(m) ==
    IF refs[m] = 1 /\ queue[m] # <<>> THEN <<Head(queue[m])>> ELSE <<>>

(* Return to the application, or first wake the threads in ws. *)
ReturnWaking(t, ws, loc) ==
    /\ wake' = [wake EXCEPT ![t] = ws]
    /\ Goto(t, IF ws = <<>> THEN "run" ELSE loc)

(* How often t has m locked. *)
HeldRefs(t, m) == IF owner[m] = t THEN refs[m] ELSE 0

-----------------------------------------------------------------------------
(* oe_mutex_lock is called.  The bound on recursion is in the guard. *)
MutexLock(t, m) ==
    /\ pc[t] = "run"
    /\ HeldRefs(t, m) < MaxRefs
    /\ Goto(t, "lock")
    /\ mtx' = [mtx EXCEPT ![t] = m]
    /\ UNCHANGED <<objVars, cnd, wake, eventVars>>

(* One pass through the loop of oe_mutex_lock under the spinlock. *)
LockAttempt(t) ==
    LET m == mtx[t] IN
    /\ pc[t] = "lock"
    /\ \/ /\ CanLock(t, m)
          /\ Acquire(t, m)
          /\ Goto(t, "run")
          /\ mtx' = [mtx EXCEPT ![t] = NoMutex]
          /\ UNCHANGED eventVars
       \/ /\ ~CanLock(t, m)
          /\ queue' = [queue EXCEPT ![m] = IF Contains(@, t) THEN @
                                           ELSE Append(@, t)]
          /\ Goto(t, "lockWait")
          /\ BeginWait(t)
          /\ UNCHANGED <<owner, refs, mtx, tokens>>
    /\ UNCHANGED <<cqueue, cnd, wake>>

(* _thread_wait returns inside oe_mutex_lock. *)
LockWoken(t) ==
    /\ pc[t] = "lockWait"
    /\ EndWait(t)
    /\ Goto(t, "lock")
    /\ UNCHANGED <<objVars, mtx, cnd, wake>>

(* oe_mutex_trylock; the OE_BUSY outcome changes nothing. *)
MutexTryLock(t, m) ==
    /\ pc[t] = "run"
    /\ HeldRefs(t, m) < MaxRefs
    /\ CanLock(t, m)
    /\ Acquire(t, m)
    /\ UNCHANGED <<cqueue, callVars, eventVars>>

(* oe_mutex_unlock; the OE_NOT_OWNER outcome changes nothing. *)
MutexUnlock(t, m) ==
    /\ pc[t] = "run"
    /\ owner[m] = t
    /\ Release(m)
    /\ ReturnWaking(t, ReleasedWaiter(m), "wake")
    /\ UNCHANGED <<queue, cqueue, mtx, cnd, eventVars>>

(* oe_mutex_destroy: refused (OE_BUSY) only while the queue is not empty. *)
MutexDestroy(t, m) ==
    /\ pc[t] = "run"
    /\ queue[m] = <<>>
    /\ owner' = [owner EXCEPT ![m] = NoThread]
    /\ refs' = [refs EXCEPT ![m] = 0]
    /\ UNCHANGED <<queue, cqueue, callVars, eventVars>>

(* oe_cond_wait up to its first wait.  The caller is queued before the mutex *)
(* is found not to be its own, and then stays queued: the OE_BUSY return.    *)
CondWait(t, c, m) ==
    /\ pc[t] = "run"
    /\ HeldRefs(t, m) \in CondWaitRefs
    /\ cqueue' = [cqueue EXCEPT ![c] = Append(@, t)]
    /\ IF owner[m] # t
       THEN UNCHANGED <<owner, refs, callVars, eventVars>>
       ELSE /\ Release(m)
            /\ mtx' = [mtx EXCEPT ![t] = m]
            /\ cnd' = [cnd EXCEPT ![t] = c]
            /\ wake' = [wake EXCEPT ![t] = ReleasedWaiter(m)]
            /\ IF ReleasedWaiter(m) = <<>>
               THEN Goto(t, "condWait") /\ BeginWait(t)
               ELSE Goto(t, "condWake") /\ UNCHANGED waiting
            /\ UNCHANGED tokens
    /\ UNCHANGED queue

(* oe_sgx_thread_wake_wait_ocall: wake the mutex's next owner, then wait. *)
CondWakeWait(t) ==
    /\ pc[t] = "condWake"
    /\ Deposit(Head(wake[t]))
    /\ wake' = [wake EXCEPT ![t] = <<>>]
    /\ Goto(t, "condWait")
    /\ BeginWait(t)
    /\ UNCHANGED <<objVars, mtx, cnd>>

(* The wait returns inside oe_cond_wait. *)
CondWoken(t) ==
    /\ pc[t] = "condWait"
    /\ EndWait(t)
    /\ Goto(t, "condCheck")
    /\ UNCHANGED <<objVars, mtx, cnd, wake>>

(* Still queued: wait again.  Selected: go on to oe_mutex_lock. *)
CondCheck(t) ==
    /\ pc[t] = "condCheck"
    /\ IF Contains(cqueue[cnd[t]], t)
       THEN /\ Goto(t, "condWait")
            /\ BeginWait(t)
            /\ UNCHANGED cnd
       ELSE /\ Goto(t, "lock")
            /\ cnd' = [cnd EXCEPT ![t] = NoCond]
            /\ UNCHANGED waiting
    /\ UNCHANGED <<objVars, mtx, wake, tokens>>

(* Faulty variants: a signal that wakes nobody, a broadcast that leaves the  *)
(* queue as it was.                                                          *)
CondSignalNoWake(t, c) ==
    /\ pc[t] = "run"
    /\ cqueue[c] # <<>>
    /\ cqueue' = [cqueue EXCEPT ![c] = Tail(@)]
    /\ UNCHANGED <<owner, refs, queue, callVars, eventVars>>

CondBroadcastKeepsQueue(t, c) ==
    /\ pc[t] = "run"
    /\ cqueue[c] # <<>>
    /\ ReturnWaking(t, cqueue[c], "wakeAll")
    /\ UNCHANGED <<objVars, mtx, cnd, eventVars>>

(* oe_cond_signal *)
CondSignal(t, c) ==
    /\ pc[t] = "run"
    /\ cqueue[c] # <<>>
    /\ cqueue' = [cqueue EXCEPT ![c] = Tail(@)]
    /\ ReturnWaking(t, <<Head(cqueue[c])>>, "wake")
    /\ UNCHANGED <<owner, refs, queue, mtx, cnd, eventVars>>

(* oe_cond_broadcast: the whole queue moves to the local list `waiters'. *)
CondBroadcast(t, c) ==
    /\ pc[t] = "run"
    /\ cqueue[c] # <<>>
    /\ cqueue' = [cqueue EXCEPT ![c] = <<>>]
    /\ ReturnWaking(t, cqueue[c], "wakeAll")
    /\ UNCHANGED <<owner, refs, queue, mtx, cnd, eventVars>>

(* _thread_wake of the next thread; broadcast reads p->next before it. *)
WakeNext(t) ==
    /\ pc[t] \in {"wake", "wakeAll"}
    /\ Deposit(Head(wake[t]))
    /\ ReturnWaking(t, Tail(wake[t]), pc[t])
    /\ UNCHANGED <<objVars, mtx, cnd, waiting>>

(* What oe_cond_destroy returns; it changes nothing. *)
CondDestroyResult(c) == IF cqueue[c] # <<>> THEN "OE_BUSY" ELSE "OE_OK"

-----------------------------------------------------------------------------
(* Steps of a call in progress. *)
CallStep(t) ==
    \/ LockAttempt(t)
    \/ LockWoken(t)
    \/ CondWakeWait(t)
    \/ CondWoken(t)
    \/ CondCheck(t)
    \/ WakeNext(t)

(* Calls an application makes. *)
Call(t) ==
    \/ \E m \in Mutexes :
          \/ MutexLock(t, m)
          \/ MutexTryLock(t, m)
          \/ MutexUnlock(t, m)
          \/ MutexDestroy(t, m)
          \/ \E c \in Conds : CondWait(t, c, m)
    \/ \E c \in Conds : CondSignal(t, c) \/ CondBroadcast(t, c)

Next == \E t \in Threads : CallStep(t) \/ Call(t)

(* The host schedules every enclave thread, and the short spinlock sections  *)
(* do not starve one; an application does not keep a mutex for ever.         *)
Fairness ==
    \A t \in Threads :
        /\ WF_vars(CallStep(t))
        /\ \A m \in Mutexes : /\ WF_vars(MutexUnlock(t, m))
                             /\ SF_vars(refs[m] = 1 /\ MutexUnlock(t, m))

Spec == Init /\ [][Next]_vars /\ Fairness

-----------------------------------------------------------------------------
(* Some thread has still to make the host call that wakes t. *)
Pending(t) == \E s \in Threads : Contains(wake[s], t)

(* t has been woken, or is about to be, and has not noticed yet. *)
Awakened(t) == tokens[t] > 0 \/ Pending(t)

(* Where t's one `next' field is in use: a mutex queue, a condition          *)
(* variable's queue, or the local list of a broadcast.                       *)
Links(t) ==
    LET At(o, q) == {<<o, i>> : i \in {j \in 1 .. Len(q) : q[j] = t}} IN
    (UNION {At(m, queue[m]) : m \in Mutexes})
    \cup (UNION {At(c, cqueue[c]) : c \in Conds})
    \cup (UNION {At(s, wake[s]) : s \in {r \in Threads : pc[r] = "wakeAll"}})

(* A thread is linked into at most one queue at a time, and there once:      *)
(* _queue_push_back never overwrites a `next' that some list still needs,    *)
(* the list a broadcast walks without any lock included.                     *)
LinkedOnce == \A t \in Threads : Cardinality(Links(t)) <= 1

(* While a mutex is free and threads queue for it, the first of them runs,   *)
(* or has been or is about to be woken.                                      *)
NoLostHandoff ==
    \A m \in Mutexes :
        owner[m] = NoThread /\ queue[m] # <<>>
            => LET t == Head(queue[m]) IN pc[t] = "lock" \/ Awakened(t)

(* A thread in oe_cond_wait that a signal or broadcast has taken off the     *)
(* queue is woken, whatever it was doing at the time: once oe_cond_destroy   *)
(* succeeds every waiter has its wake.                                       *)
NoLostSignal ==
    \A t \in Threads :
        pc[t] \in {"condWake", "condWait"} =>
            /\ Contains(cqueue[cnd[t]], t) \/ Awakened(t)
            /\ CondDestroyResult(cnd[t]) = "OE_OK" => Awakened(t)

(* No wake-up is lost: neither the hand-over of a free mutex to the first of *)
(* its queue, nor a signal or broadcast sent while its receiver was still    *)
(* between releasing the mutex and going to sleep.                           *)
NoLostWake == NoLostHandoff /\ NoLostSignal

(* Wakes and waits are paired one to one: nobody is woken twice for one      *)
(* wait, or while it is not waiting for that wake.  A stray token would      *)
(* make a later wait of the same thread return for nothing.                  *)
WakePaired ==
    \A t \in Threads :
        /\ Awakened(t) => pc[t] \in {"lockWait", "condWake", "condWait"}
        /\ Awakened(t) => \A c \in Conds : ~Contains(cqueue[c], t)
        /\ tokens[t] > 0 => ~Pending(t)
        /\ \A s1, s2 \in Threads :
              Contains(wake[s1], t) /\ Contains(wake[s2], t) => s1 = s2

(* The state has its types.  The waiter lists share each thread's one `next' *)
(* field and its one event: a thread is in one list at a time, the list a    *)
(* broadcast walks without a lock included, and is woken once for one wait.  *)
QueuesSound == TypeOK /\ LinkedOnce /\ WakePaired

(* A waiter that wakes up finds the mutex free and itself in front: nobody   *)
(* can slip in between the unlock and the waiter's second attempt.           *)
WokenWaiterOwnsNext ==
    \A t \in Threads :
        pc[t] = "lock" /\ Contains(queue[mtx[t]], t) => CanLock(t, mtx[t])

(* Every oe_mutex_lock, and the one that ends oe_cond_wait, gets the mutex.  *)
LockGranted ==
    \A t \in Threads, m \in Mutexes :
        (pc[t] \in {"lock", "lockWait"} /\ mtx[t] = m) ~> owner[m] = t

(* A signalled thread returns from oe_cond_wait.                             *)
SignalledReturns ==
    \A t \in Threads, c \in Conds :
        (cnd[t] = c /\ ~Contains(cqueue[c], t)) ~> pc[t] = "run"
=============================================================================
