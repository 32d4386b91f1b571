------------------------------- MODULE RWLock -------------------------------
(***************************************************************************)
(* The enclave's readers-writer lock (enclave/core/sgx/thread.c) on top of  *)
(* the thread events of EventSpec.  As in MutexCond, a section under the    *)
(* lock's spinlock is one action.  `held' is not in the code: it records    *)
(* how many read locks each thread has been granted, which the code folds   *)
(* into one count.                                                          *)
(***************************************************************************)
EXTENDS EventSpec, Sequences, FiniteSets

CONSTANTS
    NoThread,
    MaxReads        \* bound: read locks one thread holds at a time

ASSUME NullAssumption == NoThread \notin Threads
ASSUME BoundAssumption == MaxReads \in Nat \ {0}

VARIABLES
    readers, writer, queue, \* oe_rwlock_impl_t
    pc,     \* where each thread is
    wake,   \* local list `waiters' of _wake_waiters
    held    \* read locks granted to each thread and not yet returned

lockVars == <<readers, writer, queue>>
vars == <<lockVars, pc, wake, held, eventVars>>

WaitLocs == {"rdWait", "wrWait"}
Locs == {"run", "rdlock", "wrlock", "rdunlock", "wrunlock", "wakeAll"}
            \cup WaitLocs

TypeOK ==
    /\ readers \in Nat
    /\ writer \in Threads \cup {NoThread}
    /\ queue \in Seq(Threads)
    /\ pc \in [Threads -> Locs]
    /\ wake \in [Threads -> Seq(Threads)]
    /\ held \in [Threads -> 0 .. MaxReads]
    /\ tokens \in [Threads -> 0 .. 1]
    /\ waiting = {t \in Threads : pc[t] \in WaitLocs}

Init ==
    /\ readers = 0
    /\ writer = NoThread
    /\ queue = <<>>
    /\ pc = [t \in Threads |-> "run"]
    /\ wake = [t \in Threads |-> <<>>]
    /\ held = [t \in Threads |-> 0]
    /\ EventInit

Goto(t, l) == pc' = [pc EXCEPT ![t] = l]

(* _queue_contains *)
Contains(q, t) == \E i \in 1 .. Len(q) : q[i] = t

(* Queue t unless it is queued already, release the spinlock and wait. *)
QueueAndWait(t, loc) ==
    /\ queue' = IF Contains(queue, t) THEN queue ELSE Append(queue, t)
    /\ Goto(t, loc)
    /\ BeginWait(t)
    /\ UNCHANGED <<readers, writer, wake, held, tokens>>

(* _wake_waiters up to the release of the spinlock. *)
WakeWaiters(t) ==
    /\ wake' = [wake EXCEPT ![t] = queue]
    /\ queue' = <<>>
    /\ Goto(t, IF queue = <<>> THEN "run" ELSE "wakeAll")

-----------------------------------------------------------------------------
(* oe_rwlock_rdlock is called.  By the writer, and wrlock by a reader, too:  *)
(* the header says that these deadlock, but the code does not refuse them.   *)
RdLock(t) ==
    /\ pc[t] = "run"
    /\ held[t] < MaxReads
    /\ Goto(t, "rdlock")
    /\ UNCHANGED <<lockVars, wake, held, eventVars>>

(* A thread that gets the read lock. *)
GrantRead(t) ==
    /\ writer = NoThread
    /\ readers' = readers + 1
    /\ held' = [held EXCEPT ![t] = @ + 1]
    /\ Goto(t, "run")
    /\ UNCHANGED <<writer, queue, wake, eventVars>>

(* One pass through the loop of oe_rwlock_rdlock. *)
RdLockAttempt(t) ==
    /\ pc[t] = "rdlock"
    /\ \/ GrantRead(t)
       \/ writer # NoThread /\ QueueAndWait(t, "rdWait")

(* oe_rwlock_tryrdlock; the OE_BUSY outcome changes nothing. *)
TryRdLock(t) ==
    /\ pc[t] = "run"
    /\ held[t] < MaxReads
    /\ GrantRead(t)

(* oe_rwlock_wrlock is called; by the writer itself it returns OE_BUSY. *)
WrLock(t) ==
    /\ pc[t] = "run"
    /\ writer # t
    /\ Goto(t, "wrlock")
    /\ UNCHANGED <<lockVars, wake, held, eventVars>>

(* Faulty variant: a writer does not wait for the readers. *)
GrantWriteOverReaders(t) ==
    /\ writer = NoThread
    /\ writer' = t
    /\ Goto(t, "run")
    /\ UNCHANGED <<readers, queue, wake, held, eventVars>>

(* A thread that gets the write lock. *)
GrantWrite(t) ==
    /\ readers = 0
    /\ writer = NoThread
    /\ writer' = t
    /\ Goto(t, "run")
    /\ UNCHANGED <<readers, queue, wake, held, eventVars>>

(* One pass through the loop of oe_rwlock_wrlock. *)
WrLockAttempt(t) ==
    /\ pc[t] = "wrlock"
    /\ \/ GrantWrite(t)
       \/ /\ readers > 0 \/ writer # NoThread
          /\ QueueAndWait(t, "wrWait")

(* oe_rwlock_trywrlock; the OE_BUSY outcome changes nothing. *)
TryWrLock(t) ==
    /\ pc[t] = "run"
    /\ GrantWrite(t)

(* _thread_wait returns inside rdlock or wrlock. *)
Woken(t) ==
    /\ pc[t] \in WaitLocs
    /\ EndWait(t)
    /\ Goto(t, IF pc[t] = "rdWait" THEN "rdlock" ELSE "wrlock")
    /\ UNCHANGED <<lockVars, wake, held>>

(* oe_rwlock_unlock reads `writer' without the spinlock to choose the way.   *)
(* The application calls it only with the lock held.                         *)
Unlock(t) ==
    /\ pc[t] = "run"
    /\ writer = t \/ held[t] > 0
    /\ Goto(t, IF writer = t THEN "wrunlock" ELSE "rdunlock")
    /\ UNCHANGED <<lockVars, wake, held, eventVars>>

(* Faulty variant: only a reader that leaves others behind wakes anyone.     *)
RdUnlockWakesEarly(t) ==
    /\ pc[t] = "rdunlock"
    /\ readers >= 1 /\ writer = NoThread
    /\ readers' = readers - 1
    /\ held' = [held EXCEPT ![t] = @ - 1]
    /\ IF readers = 2
       THEN WakeWaiters(t)
       ELSE Goto(t, "run") /\ UNCHANGED <<queue, wake>>
    /\ UNCHANGED <<writer, eventVars>>

(* _rwlock_rdunlock: the last reader wakes everybody. *)
RdUnlock(t) ==
    /\ pc[t] = "rdunlock"
    /\ IF readers < 1 \/ writer # NoThread
       THEN Goto(t, "run") /\ UNCHANGED <<readers, held, queue, wake>>
       ELSE /\ readers' = readers - 1
            /\ held' = [held EXCEPT ![t] = @ - 1]
            /\ IF readers = 1
               THEN WakeWaiters(t)
               ELSE Goto(t, "run") /\ UNCHANGED <<queue, wake>>
    /\ UNCHANGED <<writer, eventVars>>

(* _rwlock_wrunlock: the writer wakes everybody. *)
WrUnlock(t) ==
    /\ pc[t] = "wrunlock"
    /\ IF writer # t \/ readers > 0
       THEN Goto(t, "run") /\ UNCHANGED <<writer, queue, wake>>
       ELSE writer' = NoThread /\ WakeWaiters(t)
    /\ UNCHANGED <<readers, held, eventVars>>

(* Faulty variant: the list ends after its first thread. *)
WakeNextOnlyFirst(t) ==
    /\ pc[t] = "wakeAll"
    /\ Deposit(Head(wake[t]))
    /\ wake' = [wake EXCEPT ![t] = <<>>]
    /\ Goto(t, "run")
    /\ UNCHANGED <<lockVars, held, waiting>>

(* The second loop of _wake_waiters, without the spinlock. *)
WakeNext(t) ==
    /\ pc[t] = "wakeAll"
    /\ Deposit(Head(wake[t]))
    /\ wake' = [wake EXCEPT ![t] = Tail(@)]
    /\ Goto(t, IF Len(wake[t]) = 1 THEN "run" ELSE "wakeAll")
    /\ UNCHANGED <<lockVars, held, waiting>>

(* What oe_rwlock_destroy returns; it changes nothing. *)
DestroyResult == IF readers # 0 \/ writer # NoThread THEN "OE_BUSY" ELSE "OE_OK"

-----------------------------------------------------------------------------
CallStep(t) ==
    \/ RdLockAttempt(t)
    \/ WrLockAttempt(t)
    \/ Woken(t)
    \/ RdUnlock(t)
    \/ WrUnlock(t)
    \/ WakeNext(t)

Call(t) ==
    \/ RdLock(t)
    \/ TryRdLock(t)
    \/ WrLock(t)
    \/ TryWrLock(t)
    \/ Unlock(t)

Next == \E t \in Threads : CallStep(t) \/ Call(t)

(* The host schedules every enclave thread; a writer releases the lock in    *)
(* the end.                                                                  *)
Fairness ==
    \A t \in Threads :
        /\ WF_vars(CallStep(t))
        /\ SF_vars(writer = t /\ Unlock(t))

Spec == Init /\ [][Next]_vars /\ Fairness

-----------------------------------------------------------------------------
Pending(t) == \E s \in Threads : Contains(wake[s], t)
Awakened(t) == tokens[t] > 0 \/ Pending(t)

(* The positions of t in the lock's queue and in the local lists that        *)
(* _wake_waiters empties without the spinlock.                               *)
Links(t) ==
    {<<NoThread, i>> : i \in {j \in 1 .. Len(queue) : queue[j] = t}}
    \cup
    UNION {{<<s, i>> : i \in {j \in 1 .. Len(wake[s]) : wake[s][j] = t}} :
              s \in Threads}

(* A writer excludes every reader and every other writer, as the threads     *)
(* that were granted the lock see it.                                        *)
Exclusion ==
    /\ writer # NoThread => \A t \in Threads : held[t] = 0
    /\ readers = 0 <=> \A t \in Threads : held[t] = 0

(* A thread is linked into one list at a time: a woken waiter that queues    *)
(* itself again never touches a list another thread is still walking.        *)
LinkedOnce == \A t \in Threads : Cardinality(Links(t)) <= 1

(* Wakes and waits are paired one to one.                                    *)
WakePaired ==
    \A t \in Threads :
        /\ Awakened(t) => pc[t] \in WaitLocs /\ ~Contains(queue, t)
        /\ tokens[t] > 0 => ~Pending(t)

(* The state has its types, and nobody sleeps on a free lock: while a thread *)
(* is queued there is a holder who will wake it, so that oe_rwlock_destroy,  *)
(* which looks at the holders only, is refused; any other waiter has been,   *)
(* or is about to be, woken, once, and is in no list while _wake_waiters     *)
(* walks its own without the spinlock.                                       *)
NoSleepOnFreeLock ==
    /\ TypeOK /\ LinkedOnce /\ WakePaired
    /\ queue # <<>> => DestroyResult = "OE_BUSY"
    /\ \A t \in Threads : pc[t] \in WaitLocs => Contains(queue, t) \/ Awakened(t)

(* No writer asks for a read lock on top, which can only block for ever. *)
WriterRuns == writer # NoThread => pc[writer] \notin WaitLocs

(* A blocked reader always gets another try: writers finish, and the one it  *)
(* waits for wakes it, unless that writer blocks itself.  (Which of the      *)
(* woken threads wins is left open.)                                         *)
ReaderRetries ==
    []WriterRuns => \A t \in Threads : pc[t] = "rdWait" ~> pc[t] = "rdlock"
=============================================================================
