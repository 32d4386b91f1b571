-------------------------- MODULE MutexCondProofs --------------------------
(***************************************************************************)
(* Proofs about MutexCond for every set of threads, mutexes and condition   *)
(* variables, when oe_cond_wait is called as documented, by a thread that   *)
(* owns the mutex with one acquisition: no hand-over and no signal is lost, *)
(* the waiter lists and the wakes are sound, and the first waiter owns the  *)
(* mutex next.                                                              *)
(***************************************************************************)
EXTENDS MutexCond, FiniteSetTheorems, SequenceTheorems, TLAPS

CondLocs == {"condWake", "condWait"}
SleepLocs == {"lockWait"} \cup CondLocs

(* No thread is twice in the list. *)
Simple(q) == \A i, j \in 1 .. Len(q) : q[i] = q[j] => i = j

(* A mutex has references exactly while it has an owner.  A thread that is   *)
(* about to lock one it owns has a reference left; one that sleeps for it,   *)
(* or has given it up in oe_cond_wait, does not own it.                      *)
OwnerMeaning ==
    /\ \A m \in Mutexes : owner[m] = NoThread <=> refs[m] = 0
    /\ \A t \in Threads :
        /\ pc[t] \in {"lock", "lockWait", "condCheck"} \cup CondLocs => mtx[t] \in Mutexes
        /\ pc[t] = "lock" /\ owner[mtx[t]] = t => refs[mtx[t]] < MaxRefs
        /\ pc[t] \in {"lockWait", "condCheck"} \cup CondLocs => owner[mtx[t]] # t

(* A mutex's queue holds the threads that sleep for it, once each, and its   *)
(* first one while that is on its way back to the lock: then the mutex is    *)
(* free, and stays so.                                                       *)
QueueMeaning ==
    /\ \A m \in Mutexes :
        /\ Simple(queue[m])
        /\ \A t \in Threads : Contains(queue[m], t) =>
              /\ pc[t] \in {"lock", "lockWait"} /\ mtx[t] = m
              /\ pc[t] = "lock" \/ Awakened(t) => owner[m] = NoThread /\ Head(queue[m]) = t
    /\ \A t \in Threads : pc[t] = "lockWait" => Contains(queue[mtx[t]], t)

(* A condition variable's queue holds threads that are in oe_cond_wait on it *)
(* and have not been selected, once each.                                    *)
CondMeaning ==
    /\ \A c \in Conds :
        /\ Simple(cqueue[c])
        /\ \A t \in Threads : Contains(cqueue[c], t) =>
              pc[t] \in CondLocs /\ cnd[t] = c /\ ~Awakened(t)
    /\ \A t \in Threads :
        /\ pc[t] \in CondLocs \cup {"condCheck"} => cnd[t] \in Conds
        /\ pc[t] \in CondLocs => Contains(cqueue[cnd[t]], t) \/ Awakened(t)

(* Who is to be woken: a thread that waits, or will, for that wake, by one   *)
(* thread, once.                                                             *)
WakeMeaning ==
    \A s \in Threads :
        /\ Simple(wake[s])
        /\ wake[s] # <<>> <=> pc[s] \in WakeLocs
        /\ pc[s] = "condWake" => Len(wake[s]) = 1 /\ wake[s][1] # s
        /\ tokens[s] > 0 => pc[s] \in SleepLocs
        /\ \A t \in Threads : Contains(wake[s], t) =>
              /\ pc[t] \in SleepLocs /\ tokens[t] = 0
              /\ pc[s] = "wakeAll" => pc[t] \in CondLocs
              /\ \A r \in Threads : Contains(wake[r], t) => r = s

(* NoLostHandoff, with the first of the queue as a bound variable. *)
HandoffMeaning ==
    \A m \in Mutexes, h \in Threads :
        owner[m] = NoThread /\ queue[m] # <<>> /\ Head(queue[m]) = h
            => pc[h] = "lock" \/ Awakened(h)

(* The inductive invariant. *)
IInv ==
    /\ TypeOK /\ OwnerMeaning /\ QueueMeaning /\ CondMeaning /\ WakeMeaning
    /\ HandoffMeaning

-----------------------------------------------------------------------------
(* Lists of threads.                                                         *)

(* The empty list has no members. *)
LEMMA EmptyList ==
  /\ Simple(<<>>)
  /\ \A u : ~Contains(<<>>, u)
  BY DEF Simple, Contains

(* _queue_push_back adds one member. *)
LEMMA PushBack ==
  ASSUME NEW q \in Seq(Threads), NEW t \in Threads
  PROVE  /\ Append(q, t) \in Seq(Threads)
         /\ Append(q, t) # <<>>
         /\ Head(Append(q, t)) = IF q = <<>> THEN t ELSE Head(q)
         /\ \A u : Contains(Append(q, t), u) <=> Contains(q, u) \/ u = t
         /\ Simple(q) /\ ~Contains(q, t) => Simple(Append(q, t))
<1>1. /\ Append(q, t) \in Seq(Threads)
      /\ Len(Append(q, t)) = Len(q) + 1
      /\ \A i \in 1 .. Len(q) : Append(q, t)[i] = q[i]
      /\ Append(q, t)[Len(q) + 1] = t
  BY AppendProperties
<1>2. Len(q) \in Nat /\ (q # <<>> => Len(q) > 0 /\ Head(q) = q[1])
  BY LenProperties, EmptySeq, HeadTailProperties
<1>3. Head(Append(q, t)) = IF q = <<>> THEN t ELSE Head(q)
  <2>1. Head(Append(q, t)) = Append(q, t)[1]
    BY <1>1, <1>2, HeadTailProperties
  <2>2. CASE q = <<>>
    BY <1>1, <2>1, <2>2
  <2>3. CASE q # <<>>
    BY <1>1, <1>2, <2>1, <2>3
  <2> QED BY <2>2, <2>3
<1> QED BY <1>1, <1>2, <1>3 DEF Contains, Simple

(* A list of one. *)
LEMMA OneList ==
  ASSUME NEW t \in Threads
  PROVE  /\ <<t>> \in Seq(Threads) /\ <<t>> # <<>>
         /\ Simple(<<t>>)
         /\ \A u : Contains(<<t>>, u) <=> u = t
  BY DEF Simple, Contains

(* Taking the first member off the list. *)
LEMMA PopFront ==
  ASSUME NEW q \in Seq(Threads), q # <<>>
  PROVE  /\ Head(q) \in Threads
         /\ Tail(q) \in Seq(Threads)
         /\ Len(q) = 1 <=> Tail(q) = <<>>
         /\ Contains(q, Head(q))
         /\ \A u : Contains(q, u) <=> u = Head(q) \/ Contains(Tail(q), u)
         /\ Simple(q) => Simple(Tail(q)) /\ ~Contains(Tail(q), Head(q))
<1>1. /\ Len(q) \in Nat /\ Len(q) > 0
      /\ Head(q) = q[1] /\ Head(q) \in Threads
      /\ Tail(q) \in Seq(Threads)
      /\ Len(Tail(q)) = Len(q) - 1
      /\ \A i \in 1 .. Len(q) - 1 : Tail(q)[i] = q[i + 1]
  BY HeadTailProperties, LenProperties, EmptySeq
<1>2. Len(q) = 1 <=> Tail(q) = <<>>
  <2>1. Tail(q) = <<>> <=> Len(Tail(q)) = 0
    BY <1>1, EmptySeq
  <2> QED BY <1>1, <2>1
<1>3. Contains(q, Head(q))
  BY <1>1 DEF Contains
<1>4. ASSUME NEW u, Contains(Tail(q), u) PROVE Contains(q, u)
  <2>1. PICK i \in 1 .. Len(q) - 1 : Tail(q)[i] = u
    BY <1>1, <1>4 DEF Contains
  <2> QED BY <1>1, <2>1 DEF Contains
<1>5. ASSUME NEW u, Contains(q, u), u # Head(q) PROVE Contains(Tail(q), u)
  <2>1. PICK i \in 1 .. Len(q) : q[i] = u
    BY <1>5 DEF Contains
  <2>2. i - 1 \in 1 .. Len(q) - 1 /\ Tail(q)[i - 1] = u
    BY <1>1, <1>5, <2>1
  <2> QED BY <1>1, <2>2 DEF Contains
<1>6. ASSUME Simple(q) PROVE Simple(Tail(q)) /\ ~Contains(Tail(q), Head(q))
  <2>1. Simple(Tail(q))
    BY <1>1, <1>6 DEF Simple
  <2>2. ~Contains(Tail(q), Head(q))
    BY <1>1, <1>6 DEF Simple, Contains
  <2> QED BY <2>1, <2>2
<1> QED BY <1>1, <1>2, <1>3, <1>4, <1>5, <1>6

-----------------------------------------------------------------------------
LEMMA InitIInv == Init => IInv
<1> SUFFICES ASSUME Init PROVE IInv
  OBVIOUS
<1>1. TypeOK
  BY RefsAssumption, EmptySeq DEF Init, EventInit, TypeOK, Locs, WaitLocs, WakeLocs
<1>2. OwnerMeaning
  BY DEF Init, OwnerMeaning, CondLocs
<1>3. QueueMeaning /\ CondMeaning /\ WakeMeaning
  BY EmptyList
  DEF Init, EventInit, QueueMeaning, CondMeaning, WakeMeaning, CondLocs, SleepLocs, WakeLocs
<1>4. HandoffMeaning
  BY DEF Init, HandoffMeaning
<1> QED BY <1>1, <1>2, <1>3, <1>4 DEF IInv

(* In application code a thread is in no list and has no wake to come; on    *)
(* its way to the lock it can be first in that mutex's queue.                *)
LEMMA Elsewhere ==
  ASSUME IInv, NEW t \in Threads
  PROVE  /\ pc[t] \notin SleepLocs => ~Awakened(t) /\ tokens[t] = 0
         /\ pc[t] \notin CondLocs => \A c \in Conds : ~Contains(cqueue[c], t)
         /\ pc[t] \notin {"lock", "lockWait"} => \A m \in Mutexes : ~Contains(queue[m], t)
<1>1. tokens[t] > 0 => pc[t] \in SleepLocs
  BY DEF IInv, WakeMeaning
<1>2. Pending(t) => pc[t] \in SleepLocs
  BY DEF IInv, WakeMeaning, Pending
<1>3. tokens[t] \in 0 .. 1
  BY DEF IInv, TypeOK
<1> QED BY <1>1, <1>2, <1>3 DEF IInv, QueueMeaning, CondMeaning, Awakened

(* Steps that wake nobody. *)
LEMMA SameWakes ==
  ASSUME UNCHANGED <<wake, tokens>>
  PROVE  \A u \in Threads : Awakened(u)' <=> Awakened(u)
  BY DEF Awakened, Pending

(* oe_mutex_lock is called. *)
LEMMA MutexLockStep ==
  ASSUME IInv, NEW t \in Threads, NEW m \in Mutexes, MutexLock(t, m) PROVE IInv'
<1> USE DEF MutexLock, Goto, objVars, eventVars
<1>1. /\ pc[t] = "run" /\ pc'[t] = "lock" /\ mtx'[t] = m
      /\ \A u \in Threads \ {t} : pc'[u] = pc[u] /\ mtx'[u] = mtx[u]
  BY DEF IInv, TypeOK
<1>2. \A u \in Threads : Awakened(u)' <=> Awakened(u)
  BY SameWakes
<1>3. /\ \A k \in Mutexes : ~Contains(queue[k], t)
      /\ \A c \in Conds : ~Contains(cqueue[c], t)
      /\ ~Awakened(t)
  BY <1>1, Elsewhere DEF SleepLocs, CondLocs
<1>4. TypeOK'
  BY <1>1 DEF IInv, TypeOK, Locs, WaitLocs, WakeLocs
<1>5. OwnerMeaning'
  BY <1>1 DEF IInv, OwnerMeaning, HeldRefs, CondLocs
<1>6. QueueMeaning'
  BY <1>1, <1>2, <1>3 DEF IInv, QueueMeaning
<1>7. CondMeaning'
  BY <1>1, <1>2, <1>3 DEF IInv, CondMeaning, CondLocs
<1>8. WakeMeaning'
  BY <1>1 DEF IInv, WakeMeaning, SleepLocs, CondLocs, WakeLocs
<1>9. HandoffMeaning'
  BY <1>1, <1>2 DEF IInv, HandoffMeaning
<1> QED BY <1>4, <1>5, <1>6, <1>7, <1>8, <1>9 DEF IInv

(* A thread that gets the mutex: at its first try or its second, or with     *)
(* oe_mutex_trylock.                                                         *)
LEMMA AcquireStep ==
  ASSUME IInv, NEW t \in Threads, NEW m \in Mutexes,
         (pc[t] = "lock" /\ mtx[t] = m) \/ (pc[t] = "run" /\ HeldRefs(t, m) < MaxRefs),
         CanLock(t, m), Acquire(t, m),
         pc' = [pc EXCEPT ![t] = "run"], mtx' \in [Threads -> Mutexes \cup {NoMutex}],
         \A u \in Threads \ {t} : mtx'[u] = mtx[u],
         UNCHANGED <<cqueue, cnd, wake, eventVars>>
  PROVE  IInv'
<1> USE DEF Acquire, eventVars
<1>1. /\ pc'[t] = "run" /\ owner'[m] = t
      /\ \A u \in Threads \ {t} : pc'[u] = pc[u]
      /\ \A k \in Mutexes \ {m} : owner'[k] = owner[k] /\ refs'[k] = refs[k] /\ queue'[k] = queue[k]
      /\ refs'[m] = IF owner[m] = t THEN refs[m] + 1 ELSE 1
      /\ queue'[m] = IF owner[m] = t \/ queue[m] = <<>> THEN queue[m] ELSE Tail(queue[m])
  BY DEF IInv, TypeOK
<1>2. \A u \in Threads : Awakened(u)' <=> Awakened(u)
  BY SameWakes
<1>3. ~Awakened(t) /\ \A c \in Conds : ~Contains(cqueue[c], t)
  BY Elsewhere DEF SleepLocs, CondLocs
<1>4. refs'[m] \in 1 .. MaxRefs
  BY <1>1, RefsAssumption DEF IInv, TypeOK, OwnerMeaning, HeldRefs
<1>5. queue[m] \in Seq(Threads) /\ Simple(queue[m])
  BY DEF IInv, TypeOK, QueueMeaning
<1>6. queue'[m] \in Seq(Threads) /\ Simple(queue'[m])
  BY <1>1, <1>5, PopFront
<1>7. TypeOK'
  <2>1. owner' \in [Mutexes -> Threads \cup {NoThread}]
    BY DEF IInv, TypeOK
  <2>2. refs' \in [Mutexes -> 0 .. MaxRefs]
    BY <1>1, <1>4 DEF IInv, TypeOK
  <2>3. queue' \in [Mutexes -> Seq(Threads)]
    BY <1>1, <1>6 DEF IInv, TypeOK
  <2>4. pc' \in [Threads -> Locs] /\ waiting' = {u \in Threads : pc'[u] \in WaitLocs}
    BY <1>1 DEF IInv, TypeOK, Locs, WaitLocs, WakeLocs
  <2> QED BY <2>1, <2>2, <2>3, <2>4 DEF IInv, TypeOK
<1>8. OwnerMeaning'
  BY <1>1, <1>4, NullAssumption DEF IInv, OwnerMeaning, CondLocs
<1>9. \A u \in Threads : Contains(queue'[m], u) =>
        /\ u # t /\ Contains(queue[m], u)
        /\ ~(pc[u] = "lock" \/ Awakened(u))
  <2>1. CASE owner[m] = t
    BY <1>1, <2>1, NullAssumption, Elsewhere DEF IInv, QueueMeaning, SleepLocs, CondLocs
  <2>2. CASE owner[m] # t /\ queue[m] = <<>>
    BY <1>1, <2>2, EmptyList
  <2>3. CASE owner[m] # t /\ queue[m] # <<>>
    <3>1. Head(queue[m]) = t
      BY <2>3 DEF CanLock
    <3>2. \A u \in Threads : Contains(queue'[m], u) => u # t /\ Contains(queue[m], u)
      BY <1>1, <1>5, <2>3, <3>1, PopFront
    <3> QED BY <3>1, <3>2 DEF IInv, QueueMeaning
  <2> QED BY <2>1, <2>2, <2>3
<1>10. \A k \in Mutexes : ~Contains(queue'[k], t)
  BY <1>1, <1>9 DEF IInv, QueueMeaning
<1>11. QueueMeaning'
  <2>1. ASSUME NEW u \in Threads, pc'[u] = "lockWait" PROVE Contains(queue'[mtx'[u]], u)
    <3>1. u # t /\ pc[u] = "lockWait" /\ mtx'[u] = mtx[u] /\ mtx[u] \in Mutexes
      BY <1>1, <2>1 DEF IInv, OwnerMeaning
    <3>2. Contains(queue[mtx[u]], u)
      BY <3>1 DEF IInv, QueueMeaning
    <3>3. CASE mtx[u] = m /\ owner[m] # t /\ queue[m] # <<>>
      <4>1. Head(queue[m]) = t
        BY <3>3 DEF CanLock
      <4> QED BY <1>1, <1>5, <3>1, <3>2, <3>3, <4>1, PopFront
    <3> QED BY <1>1, <3>1, <3>2, <3>3
  <2>2. ASSUME NEW k \in Mutexes, NEW u \in Threads, Contains(queue'[k], u)
        PROVE  /\ pc'[u] \in {"lock", "lockWait"} /\ mtx'[u] = k
               /\ pc'[u] = "lock" \/ Awakened(u)' => owner'[k] = NoThread /\ Head(queue'[k]) = u
    <3>1. u # t
      BY <1>10, <2>2
    <3>2. CASE k = m
      BY <1>1, <1>2, <1>9, <2>2, <3>1, <3>2 DEF IInv, QueueMeaning
    <3>3. CASE k # m
      BY <1>1, <1>2, <2>2, <3>1, <3>3 DEF IInv, QueueMeaning
    <3> QED BY <3>2, <3>3
  <2>3. \A k \in Mutexes : Simple(queue'[k])
    BY <1>1, <1>6 DEF IInv, QueueMeaning
  <2> QED BY <2>1, <2>2, <2>3 DEF QueueMeaning
<1>12. CondMeaning'
  BY <1>1, <1>2, <1>3 DEF IInv, CondMeaning, CondLocs
<1>13. WakeMeaning'
  BY <1>1 DEF IInv, WakeMeaning, SleepLocs, CondLocs, WakeLocs
<1>14. HandoffMeaning'
  <2>1. ASSUME NEW k \in Mutexes, NEW h \in Threads,
               owner'[k] = NoThread, queue'[k] # <<>>, Head(queue'[k]) = h
        PROVE  pc'[h] = "lock" \/ Awakened(h)'
    <3>1. k # m /\ queue'[k] = queue[k] /\ queue[k] \in Seq(Threads)
      BY <1>1, <2>1, NullAssumption DEF IInv, TypeOK
    <3>2. Contains(queue[k], h)
      BY <2>1, <3>1, PopFront
    <3>3. h # t
      BY <1>10, <3>1, <3>2
    <3> QED BY <1>1, <1>2, <2>1, <3>1, <3>3 DEF IInv, HandoffMeaning
  <2> QED BY <2>1 DEF HandoffMeaning
<1> QED BY <1>7, <1>8, <1>11, <1>12, <1>13, <1>14 DEF IInv

(* A thread that does not get the mutex: it is not in the queue yet, and     *)
(* goes to its end.                                                          *)
LEMMA QueueStep ==
  ASSUME IInv, NEW t \in Threads, pc[t] = "lock", NEW m \in Mutexes, m = mtx[t],
         ~CanLock(t, m),
         queue' = [queue EXCEPT ![m] = IF Contains(@, t) THEN @ ELSE Append(@, t)],
         Goto(t, "lockWait"), BeginWait(t),
         UNCHANGED <<owner, refs, mtx, tokens, cqueue, cnd, wake>>
  PROVE  IInv'
<1> USE DEF Goto, BeginWait
<1>1. ~Contains(queue[m], t) /\ ~Awakened(t) /\ \A c \in Conds : ~Contains(cqueue[c], t)
  <2>1. ~Contains(queue[m], t)
    BY PopFront, EmptyList DEF IInv, QueueMeaning, CanLock, TypeOK
  <2> QED BY <2>1, Elsewhere DEF SleepLocs, CondLocs
<1>2. /\ pc'[t] = "lockWait" /\ queue'[m] = Append(queue[m], t) /\ queue[m] \in Seq(Threads)
      /\ \A u \in Threads \ {t} : pc'[u] = pc[u]
      /\ \A k \in Mutexes \ {m} : queue'[k] = queue[k]
  BY <1>1 DEF IInv, TypeOK
<1>3. \A u \in Threads : Awakened(u)' <=> Awakened(u)
  BY SameWakes
<1>4. /\ queue'[m] \in Seq(Threads) /\ queue'[m] # <<>> /\ Simple(queue'[m])
      /\ \A u : Contains(queue'[m], u) <=> Contains(queue[m], u) \/ u = t
      /\ Head(queue'[m]) = IF queue[m] = <<>> THEN t ELSE Head(queue[m])
  BY <1>1, <1>2, PushBack DEF IInv, QueueMeaning
<1>5. queue[m] = <<>> => owner[m] # NoThread
  BY DEF CanLock
<1>6. TypeOK'
  BY <1>2, <1>4 DEF IInv, TypeOK, Locs, WaitLocs, WakeLocs
<1>7. OwnerMeaning'
  BY <1>2 DEF IInv, OwnerMeaning, CondLocs, CanLock
<1>8. QueueMeaning'
  <2>1. ASSUME NEW u \in Threads, pc'[u] = "lockWait" PROVE Contains(queue'[mtx'[u]], u)
    BY <1>2, <1>4, <2>1 DEF IInv, OwnerMeaning, QueueMeaning
  <2>2. ASSUME NEW k \in Mutexes, NEW u \in Threads, Contains(queue'[k], u)
        PROVE  /\ pc'[u] \in {"lock", "lockWait"} /\ mtx'[u] = k
               /\ pc'[u] = "lock" \/ Awakened(u)' => owner'[k] = NoThread /\ Head(queue'[k]) = u
    <3>1. CASE u = t
      BY <1>1, <1>2, <1>3, <1>4, <2>2, <3>1 DEF IInv, QueueMeaning
    <3>2. CASE u # t
      <4>1. Contains(queue[k], u)
        BY <1>2, <1>4, <2>2, <3>2
      <4>2. queue[k] # <<>>
        BY <4>1, EmptyList
      <4> QED BY <1>2, <1>3, <1>4, <3>2, <4>1, <4>2 DEF IInv, QueueMeaning
    <3> QED BY <3>1, <3>2
  <2>3. \A k \in Mutexes : Simple(queue'[k])
    BY <1>2, <1>4 DEF IInv, QueueMeaning
  <2> QED BY <2>1, <2>2, <2>3 DEF QueueMeaning
<1>9. CondMeaning'
  BY <1>1, <1>2, <1>3 DEF IInv, CondMeaning, CondLocs
<1>10. WakeMeaning'
  BY <1>2 DEF IInv, WakeMeaning, SleepLocs, CondLocs, WakeLocs
<1>11. HandoffMeaning'
  <2>1. ASSUME NEW k \in Mutexes, NEW h \in Threads,
               owner'[k] = NoThread, queue'[k] # <<>>, Head(queue'[k]) = h
        PROVE  pc'[h] = "lock" \/ Awakened(h)'
    <3>1. queue[k] # <<>> /\ Head(queue[k]) = h /\ queue[k] \in Seq(Threads)
      BY <1>2, <1>4, <1>5, <2>1 DEF IInv, TypeOK
    <3>2. Contains(queue[k], h)
      BY <3>1, PopFront
    <3>3. h # t
      BY <1>1, <3>2 DEF IInv, QueueMeaning
    <3> QED BY <1>2, <1>3, <2>1, <3>1, <3>3 DEF IInv, HandoffMeaning
  <2> QED BY <2>1 DEF HandoffMeaning
<1> QED BY <1>6, <1>7, <1>8, <1>9, <1>10, <1>11 DEF IInv

-----------------------------------------------------------------------------
(* A wait returns: the thread has taken its wake, and no other is under way. *)
LEMMA EndWaitStep ==
  ASSUME IInv, NEW t \in Threads, EndWait(t), UNCHANGED wake
  PROVE  /\ Awakened(t) /\ ~Awakened(t)'
         /\ tokens' \in [Threads -> 0 .. 1] /\ tokens'[t] = 0
         /\ \A u \in Threads \ {t} : tokens'[u] = tokens[u] /\ (Awakened(u)' <=> Awakened(u))
<1> USE DEF EndWait
<1>1. tokens[t] = 1 /\ tokens' \in [Threads -> 0 .. 1] /\ tokens'[t] = 0
  BY DEF IInv, TypeOK
<1>2. \A u \in Threads \ {t} : tokens'[u] = tokens[u]
  BY DEF IInv, TypeOK
<1>3. \A u \in Threads : Pending(u)' <=> Pending(u)
  BY DEF Pending
<1>4. ~Pending(t)
  BY <1>1 DEF IInv, WakeMeaning, Pending
<1> QED BY <1>1, <1>2, <1>3, <1>4 DEF Awakened

(* The wait of oe_mutex_lock returns, and the thread tries again. *)
LEMMA LockWokenStep ==
  ASSUME IInv, NEW t \in Threads, LockWoken(t) PROVE IInv'
<1> USE DEF LockWoken, Goto, objVars
<1>1. /\ pc[t] = "lockWait" /\ pc'[t] = "lock"
      /\ \A u \in Threads \ {t} : pc'[u] = pc[u]
  BY DEF IInv, TypeOK
<1>2. /\ Awakened(t) /\ ~Awakened(t)'
      /\ tokens' \in [Threads -> 0 .. 1] /\ tokens'[t] = 0
      /\ \A u \in Threads \ {t} : tokens'[u] = tokens[u] /\ (Awakened(u)' <=> Awakened(u))
  BY EndWaitStep
<1>3. \A c \in Conds : ~Contains(cqueue[c], t)
  BY <1>1, Elsewhere DEF CondLocs
<1>4. TypeOK'
  BY <1>1, <1>2 DEF IInv, TypeOK, Locs, WaitLocs, WakeLocs, EndWait
<1>5. OwnerMeaning'
  BY <1>1 DEF IInv, OwnerMeaning, CondLocs
<1>6. QueueMeaning'
  BY <1>1, <1>2 DEF IInv, QueueMeaning
<1>7. CondMeaning'
  BY <1>1, <1>2, <1>3 DEF IInv, CondMeaning, CondLocs
<1>8. WakeMeaning'
  <2>1. \A s \in Threads : ~Contains(wake[s], t)
    BY <1>2 DEF Awakened, Pending
  <2> QED BY <1>1, <1>2, <2>1 DEF IInv, WakeMeaning, SleepLocs, CondLocs, WakeLocs
<1>9. HandoffMeaning'
  BY <1>1, <1>2 DEF IInv, HandoffMeaning
<1> QED BY <1>4, <1>5, <1>6, <1>7, <1>8, <1>9 DEF IInv

(* The wait of oe_cond_wait returns. *)
LEMMA CondWokenStep ==
  ASSUME IInv, NEW t \in Threads, CondWoken(t) PROVE IInv'
<1> USE DEF CondWoken, Goto, objVars
<1>1. /\ pc[t] = "condWait" /\ pc'[t] = "condCheck"
      /\ \A u \in Threads \ {t} : pc'[u] = pc[u]
  BY DEF IInv, TypeOK
<1>2. /\ Awakened(t) /\ ~Awakened(t)'
      /\ tokens' \in [Threads -> 0 .. 1] /\ tokens'[t] = 0
      /\ \A u \in Threads \ {t} : tokens'[u] = tokens[u] /\ (Awakened(u)' <=> Awakened(u))
  BY EndWaitStep
<1>3. \A m \in Mutexes : ~Contains(queue[m], t)
  BY <1>1, Elsewhere
<1>4. TypeOK'
  BY <1>1, <1>2 DEF IInv, TypeOK, Locs, WaitLocs, WakeLocs, EndWait
<1>5. OwnerMeaning'
  BY <1>1 DEF IInv, OwnerMeaning, CondLocs
<1>6. QueueMeaning'
  BY <1>1, <1>2, <1>3 DEF IInv, QueueMeaning
<1>7. CondMeaning'
  BY <1>1, <1>2 DEF IInv, CondMeaning, CondLocs
<1>8. WakeMeaning'
  <2>1. \A s \in Threads : ~Contains(wake[s], t)
    BY <1>2 DEF Awakened, Pending
  <2> QED BY <1>1, <1>2, <2>1 DEF IInv, WakeMeaning, SleepLocs, CondLocs, WakeLocs
<1>9. HandoffMeaning'
  <2>1. ASSUME NEW m \in Mutexes, queue[m] # <<>> PROVE Head(queue[m]) # t
    BY <1>3, <2>1, PopFront DEF IInv, TypeOK
  <2> QED BY <1>1, <1>2, <2>1 DEF IInv, HandoffMeaning
<1> QED BY <1>4, <1>5, <1>6, <1>7, <1>8, <1>9 DEF IInv

(* The woken thread is in no queue: it goes on to oe_mutex_lock. *)
LEMMA CondCheckStep ==
  ASSUME IInv, NEW t \in Threads, CondCheck(t) PROVE IInv'
<1> USE DEF CondCheck, Goto, objVars
<1>1. /\ \A m \in Mutexes : ~Contains(queue[m], t)
      /\ \A c \in Conds : ~Contains(cqueue[c], t)
      /\ ~Awakened(t) /\ tokens[t] = 0
  BY Elsewhere DEF SleepLocs, CondLocs
<1>2. /\ pc[t] = "condCheck" /\ pc'[t] = "lock" /\ cnd' = [cnd EXCEPT ![t] = NoCond]
      /\ UNCHANGED waiting
      /\ \A u \in Threads \ {t} : pc'[u] = pc[u] /\ cnd'[u] = cnd[u]
  BY <1>1 DEF IInv, TypeOK, CondMeaning
<1>3. \A u \in Threads : Awakened(u)' <=> Awakened(u)
  BY SameWakes
<1>4. TypeOK'
  BY <1>2 DEF IInv, TypeOK, Locs, WaitLocs, WakeLocs
<1>5. OwnerMeaning'
  BY <1>2 DEF IInv, OwnerMeaning, CondLocs
<1>6. QueueMeaning'
  BY <1>1, <1>2, <1>3 DEF IInv, QueueMeaning
<1>7. CondMeaning'
  BY <1>1, <1>2, <1>3 DEF IInv, CondMeaning, CondLocs
<1>8. WakeMeaning'
  BY <1>2 DEF IInv, WakeMeaning, SleepLocs, CondLocs, WakeLocs
<1>9. HandoffMeaning'
  BY <1>2, <1>3 DEF IInv, HandoffMeaning
<1> QED BY <1>4, <1>5, <1>6, <1>7, <1>8, <1>9 DEF IInv

(* A call in application code takes the threads ws off their queues, to wake *)
(* them next: each of them sleeps, or will, and no other wake of it is under *)
(* way.                                                                      *)
LEMMA NewWakes ==
  ASSUME IInv, NEW t \in Threads, pc[t] = "run",
         NEW ws \in Seq(Threads), Simple(ws),
         NEW l, l \in Locs, ws # <<>> <=> l \in WakeLocs,
         l = "condWake" => Len(ws) = 1 /\ ws[1] # t,
         \A u \in Threads : Contains(ws, u) =>
            /\ pc[u] \in SleepLocs /\ ~Awakened(u)
            /\ l = "wakeAll" => pc[u] \in CondLocs,
         wake' = [wake EXCEPT ![t] = ws], pc' = [pc EXCEPT ![t] = l], UNCHANGED tokens
  PROVE  /\ WakeMeaning'
         /\ pc' \in [Threads -> Locs] /\ pc'[t] = l
         /\ \A u \in Threads \ {t} : pc'[u] = pc[u]
         /\ wake' \in [Threads -> Seq(Threads)]
         /\ \A u \in Threads : Awakened(u)' <=> Awakened(u) \/ Contains(ws, u)
<1>1. /\ pc' \in [Threads -> Locs] /\ pc'[t] = l
      /\ \A u \in Threads \ {t} : pc'[u] = pc[u] /\ wake'[u] = wake[u]
      /\ wake' \in [Threads -> Seq(Threads)] /\ wake'[t] = ws
  BY DEF IInv, TypeOK
<1>2. wake[t] = <<>>
  BY DEF IInv, WakeMeaning, WakeLocs
<1>3. ASSUME NEW u \in Threads PROVE Pending(u)' <=> Pending(u) \/ Contains(ws, u)
  <2>1. Contains(wake[t], u) <=> FALSE
    BY <1>2, EmptyList
  <2> QED BY <1>1, <2>1 DEF Pending
<1>4. tokens[t] = 0 /\ ~Awakened(t)
  BY Elsewhere DEF SleepLocs, CondLocs
<1>5. \A s \in Threads : ~Contains(wake[s], t)
  BY <1>4 DEF Awakened, Pending
<1>6. ASSUME NEW s \in Threads, NEW u \in Threads, Contains(wake'[s], u)
      PROVE  /\ pc'[u] \in SleepLocs /\ tokens'[u] = 0
             /\ pc'[s] = "wakeAll" => pc'[u] \in CondLocs
             /\ \A r \in Threads : Contains(wake'[r], u) => r = s
  <2>1. tokens[u] \in 0 .. 1
    BY DEF IInv, TypeOK
  <2>2. CASE s = t
    <3>1. Contains(ws, u) /\ u # t /\ ~Awakened(u)
      BY <1>1, <1>6, <2>2 DEF SleepLocs, CondLocs
    <3>2. tokens[u] = 0 /\ \A r \in Threads : ~Contains(wake[r], u)
      BY <2>1, <3>1 DEF Awakened, Pending
    <3> QED BY <1>1, <2>2, <3>1, <3>2
  <2>3. CASE s # t
    <3>1. Contains(wake[s], u) /\ u # t
      BY <1>1, <1>5, <1>6, <2>3
    <3>2. ~Contains(ws, u)
      BY <3>1 DEF Awakened, Pending
    <3> QED BY <1>1, <2>3, <3>1, <3>2 DEF IInv, WakeMeaning
  <2> QED BY <2>2, <2>3
<1>7. ASSUME NEW s \in Threads
      PROVE  /\ Simple(wake'[s])
             /\ wake'[s] # <<>> <=> pc'[s] \in WakeLocs
             /\ pc'[s] = "condWake" => Len(wake'[s]) = 1 /\ wake'[s][1] # s
             /\ tokens'[s] > 0 => pc'[s] \in SleepLocs
  <2>1. CASE s = t
    BY <1>1, <1>4, <2>1
  <2>2. CASE s # t
    BY <1>1, <2>2 DEF IInv, WakeMeaning
  <2> QED BY <2>1, <2>2
<1> QED BY <1>1, <1>3, <1>6, <1>7 DEF WakeMeaning, Awakened

(* While a mutex is owned, the first of its queue sleeps and has no wake     *)
(* under way: it is safe for an unlock to name it.                           *)
LEMMA FirstWaiter ==
  ASSUME IInv, NEW m \in Mutexes, owner[m] \in Threads
  PROVE  LET ws == ReleasedWaiter(m) IN
         /\ ws \in Seq(Threads) /\ Simple(ws)
         /\ ws # <<>> => ws = <<Head(queue[m])>> /\ Len(ws) = 1 /\ ws[1] = Head(queue[m])
         /\ \A u \in Threads : Contains(ws, u) =>
              pc[u] = "lockWait" /\ mtx[u] = m /\ ~Awakened(u) /\ u = Head(queue[m])
         /\ refs[m] = 1 /\ queue[m] # <<>> => Contains(ws, Head(queue[m]))
<1> DEFINE ws == ReleasedWaiter(m)
<1>1. CASE refs[m] = 1 /\ queue[m] # <<>>
  <2>1. Head(queue[m]) \in Threads /\ Contains(queue[m], Head(queue[m]))
    BY <1>1, PopFront DEF IInv, TypeOK
  <2>2. ws = <<Head(queue[m])>>
    BY <1>1 DEF ReleasedWaiter
  <2>3. /\ ws \in Seq(Threads) /\ Simple(ws) /\ Len(ws) = 1 /\ ws[1] = Head(queue[m])
        /\ \A u : Contains(ws, u) <=> u = Head(queue[m])
    BY <2>1, <2>2, OneList
  <2>4. pc[Head(queue[m])] = "lockWait" /\ mtx[Head(queue[m])] = m /\ ~Awakened(Head(queue[m]))
    BY <2>1, NullAssumption DEF IInv, QueueMeaning
  <2> QED BY <2>2, <2>3, <2>4
<1>2. CASE ~(refs[m] = 1 /\ queue[m] # <<>>)
  <2>1. ws = <<>> /\ ws \in Seq(Threads)
    BY <1>2 DEF ReleasedWaiter
  <2> QED BY <1>2, <2>1, EmptyList
<1> QED BY <1>1, <1>2

(* What _mutex_unlock does to the owner and the references. *)
LEMMA ReleaseStep ==
  ASSUME IInv, NEW t \in Threads, NEW m \in Mutexes, owner[m] = t, Release(m)
  PROVE  /\ owner' \in [Mutexes -> Threads \cup {NoThread}]
         /\ refs' \in [Mutexes -> 0 .. MaxRefs]
         /\ \A k \in Mutexes \ {m} : owner'[k] = owner[k] /\ refs'[k] = refs[k]
         /\ owner'[m] = IF refs[m] = 1 THEN NoThread ELSE t
         /\ \A k \in Mutexes : owner'[k] = NoThread <=> refs'[k] = 0
         /\ refs[m] \in 1 .. MaxRefs /\ refs'[m] = refs[m] - 1
<1>1. refs[m] \in 1 .. MaxRefs
  BY NullAssumption DEF IInv, TypeOK, OwnerMeaning
<1>2. /\ owner' \in [Mutexes -> Threads \cup {NoThread}]
      /\ \A k \in Mutexes \ {m} : owner'[k] = owner[k] /\ refs'[k] = refs[k]
      /\ owner'[m] = IF refs[m] = 1 THEN NoThread ELSE t
      /\ refs'[m] = refs[m] - 1
  BY DEF IInv, TypeOK, Release
<1>3. refs' \in [Mutexes -> 0 .. MaxRefs]
  BY <1>1, RefsAssumption DEF IInv, TypeOK, Release
<1>4. \A k \in Mutexes : owner'[k] = NoThread <=> refs'[k] = 0
  BY <1>1, <1>2, NullAssumption DEF IInv, OwnerMeaning
<1> QED BY <1>1, <1>2, <1>3, <1>4

(* The mutex m is released, and l is where its owner goes on. *)
LEMMA ReleasedMeaning ==
  ASSUME IInv, NEW t \in Threads, pc[t] = "run", NEW m \in Mutexes, owner[m] = t, Release(m),
         UNCHANGED queue,
         NEW l, l \in {"run", "wake"} \cup CondLocs,
         mtx' \in [Threads -> Mutexes \cup {NoMutex}],
         l \in CondLocs => refs[m] = 1 /\ mtx'[t] = m,
         \A u \in Threads \ {t} : mtx'[u] = mtx[u],
         pc'[t] = l, \A u \in Threads \ {t} : pc'[u] = pc[u],
         \A u \in Threads : Awakened(u)' <=> Awakened(u) \/ Contains(ReleasedWaiter(m), u)
  PROVE  OwnerMeaning' /\ QueueMeaning' /\ HandoffMeaning'
<1>1. /\ \A k \in Mutexes \ {m} : owner'[k] = owner[k] /\ refs'[k] = refs[k]
      /\ owner'[m] = IF refs[m] = 1 THEN NoThread ELSE t
      /\ \A k \in Mutexes : owner'[k] = NoThread <=> refs'[k] = 0
      /\ refs[m] \in 1 .. MaxRefs /\ refs'[m] = refs[m] - 1
  BY ReleaseStep
<1>2. /\ \A u \in Threads : Contains(ReleasedWaiter(m), u) =>
              pc[u] = "lockWait" /\ mtx[u] = m /\ ~Awakened(u) /\ u = Head(queue[m])
      /\ refs[m] = 1 /\ queue[m] # <<>> => Contains(ReleasedWaiter(m), Head(queue[m]))
      /\ ReleasedWaiter(m) # <<>> => refs[m] = 1
  BY FirstWaiter DEF ReleasedWaiter
<1>3. \A k \in Mutexes : ~Contains(queue[k], t)
  BY Elsewhere
<1>4. OwnerMeaning'
  BY <1>1, NullAssumption DEF IInv, OwnerMeaning, CondLocs
<1>5. QueueMeaning'
  <2>1. ASSUME NEW k \in Mutexes, NEW u \in Threads, Contains(queue[k], u)
        PROVE  /\ pc'[u] \in {"lock", "lockWait"} /\ mtx'[u] = k
               /\ pc'[u] = "lock" \/ Awakened(u)' => owner'[k] = NoThread /\ Head(queue[k]) = u
    <3>1. u # t /\ pc[u] \in {"lock", "lockWait"} /\ mtx[u] = k
      BY <1>3, <2>1 DEF IInv, QueueMeaning
    <3>2. CASE Contains(ReleasedWaiter(m), u)
      <4>1. k = m /\ Head(queue[m]) = u /\ refs[m] = 1
        BY <1>2, <3>1, <3>2, EmptyList
      <4> QED BY <1>1, <3>1, <4>1
    <3>3. CASE ~Contains(ReleasedWaiter(m), u)
      <4>1. pc[u] = "lock" \/ Awakened(u) => owner[k] = NoThread /\ Head(queue[k]) = u
        BY <2>1 DEF IInv, QueueMeaning
      <4> QED BY <1>1, <3>1, <3>3, <4>1, NullAssumption
    <3> QED BY <3>2, <3>3
  <2>2. \A u \in Threads : pc'[u] = "lockWait" => Contains(queue[mtx'[u]], u)
    BY DEF IInv, QueueMeaning, CondLocs
  <2> QED BY <2>1, <2>2 DEF IInv, QueueMeaning
<1>6. HandoffMeaning'
  <2>1. ASSUME NEW k \in Mutexes, NEW h \in Threads,
               owner'[k] = NoThread, queue[k] # <<>>, Head(queue[k]) = h
        PROVE  pc'[h] = "lock" \/ Awakened(h)'
    <3>1. h # t
      BY <1>3, <2>1, PopFront DEF IInv, TypeOK
    <3>2. CASE k = m
      BY <1>1, <1>2, <2>1, <3>2, NullAssumption
    <3>3. CASE k # m
      BY <1>1, <2>1, <3>1, <3>3 DEF IInv, HandoffMeaning
    <3> QED BY <3>2, <3>3
  <2> QED BY <2>1 DEF HandoffMeaning
<1> QED BY <1>4, <1>5, <1>6

(* oe_mutex_unlock *)
LEMMA MutexUnlockStep ==
  ASSUME IInv, NEW t \in Threads, NEW m \in Mutexes, MutexUnlock(t, m) PROVE IInv'
<1> DEFINE ws == ReleasedWaiter(m)
           l == IF ws = <<>> THEN "run" ELSE "wake"
<1> USE DEF MutexUnlock, eventVars
<1>1. /\ ws \in Seq(Threads) /\ Simple(ws)
      /\ \A u \in Threads : Contains(ws, u) => pc[u] \in SleepLocs /\ ~Awakened(u)
                                               /\ pc[u] \notin CondLocs
  BY FirstWaiter DEF SleepLocs, CondLocs
<1>2. /\ wake' = [wake EXCEPT ![t] = ws] /\ pc' = [pc EXCEPT ![t] = l]
      /\ l \in Locs /\ l \in {"run", "wake"} /\ (ws # <<>> <=> l \in WakeLocs)
  BY DEF ReturnWaking, Goto, Locs, WakeLocs
<1> HIDE DEF ws, l
<1>3. /\ WakeMeaning'
      /\ pc' \in [Threads -> Locs] /\ pc'[t] = l
      /\ \A u \in Threads \ {t} : pc'[u] = pc[u]
      /\ wake' \in [Threads -> Seq(Threads)]
      /\ \A u \in Threads : Awakened(u)' <=> Awakened(u) \/ Contains(ws, u)
  BY <1>1, <1>2, NewWakes
<1>4. OwnerMeaning' /\ QueueMeaning' /\ HandoffMeaning'
  <2>1. mtx \in [Threads -> Mutexes \cup {NoMutex}]
    BY DEF IInv, TypeOK
  <2> QED BY <1>2, <1>3, <2>1, ReleasedMeaning DEF ws, CondLocs
<1>5. TypeOK'
  BY <1>2, <1>3, ReleaseStep DEF IInv, TypeOK, WaitLocs
<1>6. CondMeaning'
  <2>1. \A u \in Threads : pc[u] \in CondLocs => (Awakened(u)' <=> Awakened(u))
    BY <1>1, <1>3
  <2> QED BY <1>2, <1>3, <2>1 DEF IInv, CondMeaning, CondLocs
<1> QED BY <1>3, <1>4, <1>5, <1>6 DEF IInv

(* oe_mutex_destroy, of a mutex nobody queues for. *)
LEMMA MutexDestroyStep ==
  ASSUME IInv, NEW t \in Threads, NEW m \in Mutexes, MutexDestroy(t, m) PROVE IInv'
<1> USE DEF MutexDestroy, callVars, eventVars
<1>1. /\ queue[m] = <<>> /\ owner'[m] = NoThread /\ refs'[m] = 0
      /\ \A k \in Mutexes \ {m} : owner'[k] = owner[k] /\ refs'[k] = refs[k]
  BY DEF IInv, TypeOK
<1>2. \A u \in Threads : Awakened(u)' <=> Awakened(u)
  BY SameWakes
<1>3. TypeOK'
  BY RefsAssumption DEF IInv, TypeOK
<1>4. OwnerMeaning'
  BY <1>1, NullAssumption DEF IInv, OwnerMeaning, CondLocs
<1>5. QueueMeaning'
  BY <1>1, <1>2, EmptyList DEF IInv, QueueMeaning
<1>6. CondMeaning' /\ WakeMeaning'
  BY <1>2 DEF IInv, CondMeaning, WakeMeaning
<1>7. HandoffMeaning'
  BY <1>1, <1>2 DEF IInv, HandoffMeaning
<1> QED BY <1>3, <1>4, <1>5, <1>6, <1>7 DEF IInv

(* oe_cond_wait by a thread that has the mutex locked once. *)
LEMMA CondWaitStep ==
  ASSUME IInv, NEW t \in Threads, NEW c \in Conds, NEW m \in Mutexes,
         CondWait(t, c, m), HeldRefs(t, m) = 1
  PROVE  IInv'
<1> DEFINE ws == ReleasedWaiter(m)
           l == IF ws = <<>> THEN "condWait" ELSE "condWake"
<1>1. owner[m] = t /\ refs[m] = 1 /\ pc[t] = "run"
  BY DEF HeldRefs, CondWait
<1>2. /\ ws \in Seq(Threads) /\ Simple(ws)
      /\ \A u \in Threads : Contains(ws, u) => pc[u] = "lockWait" /\ ~Awakened(u)
      /\ ws # <<>> => Len(ws) = 1 /\ Contains(ws, ws[1]) /\ ws[1] \in Threads
  BY <1>1, FirstWaiter DEF Contains
<1>3. /\ wake' = [wake EXCEPT ![t] = ws] /\ pc' = [pc EXCEPT ![t] = l]
      /\ l \in Locs /\ l \in CondLocs /\ (ws # <<>> <=> l \in WakeLocs)
      /\ l = "condWake" => ws # <<>>
      /\ waiting' = IF l = "condWait" THEN waiting \cup {t} ELSE waiting
      /\ Release(m) /\ UNCHANGED <<tokens, queue>>
      /\ cqueue' = [cqueue EXCEPT ![c] = Append(@, t)]
      /\ mtx' = [mtx EXCEPT ![t] = m] /\ cnd' = [cnd EXCEPT ![t] = c]
  BY <1>1 DEF CondWait, Goto, BeginWait, Locs, WakeLocs, WaitLocs, CondLocs
<1> HIDE DEF ws, l
<1>4. l = "condWake" => Len(ws) = 1 /\ ws[1] # t
  BY <1>1, <1>2, <1>3
<1>5. /\ WakeMeaning'
      /\ pc' \in [Threads -> Locs] /\ pc'[t] = l
      /\ \A u \in Threads \ {t} : pc'[u] = pc[u]
      /\ wake' \in [Threads -> Seq(Threads)]
      /\ \A u \in Threads : Awakened(u)' <=> Awakened(u) \/ Contains(ws, u)
  <2>1. \A u \in Threads : Contains(ws, u) =>
            /\ pc[u] \in SleepLocs /\ ~Awakened(u)
            /\ l = "wakeAll" => pc[u] \in CondLocs
    BY <1>2, <1>3 DEF SleepLocs, CondLocs
  <2>2. /\ ws \in Seq(Threads) /\ Simple(ws) /\ l \in Locs /\ (ws # <<>> <=> l \in WakeLocs)
        /\ wake' = [wake EXCEPT ![t] = ws] /\ pc' = [pc EXCEPT ![t] = l] /\ UNCHANGED tokens
    BY <1>2, <1>3
  <2> QED BY ONLY IInv, t \in Threads, <1>1, <1>4, <2>1, <2>2, NewWakes
<1>6. /\ mtx' \in [Threads -> Mutexes \cup {NoMutex}] /\ mtx'[t] = m
      /\ cnd' \in [Threads -> Conds \cup {NoCond}] /\ cnd'[t] = c
      /\ \A u \in Threads \ {t} : mtx'[u] = mtx[u] /\ cnd'[u] = cnd[u]
      /\ cqueue[c] \in Seq(Threads) /\ cqueue'[c] = Append(cqueue[c], t)
      /\ \A d \in Conds \ {c} : cqueue'[d] = cqueue[d]
  BY <1>3 DEF IInv, TypeOK
<1>7. OwnerMeaning' /\ QueueMeaning' /\ HandoffMeaning'
  BY <1>1, <1>3, <1>5, <1>6, ReleasedMeaning DEF ws
<1>8. /\ ~Awakened(t) /\ \A d \in Conds : ~Contains(cqueue[d], t)
  BY <1>1, Elsewhere DEF SleepLocs, CondLocs
<1>9. /\ cqueue'[c] \in Seq(Threads) /\ Simple(cqueue'[c])
      /\ \A u : Contains(cqueue'[c], u) <=> Contains(cqueue[c], u) \/ u = t
  BY <1>6, <1>8, PushBack DEF IInv, CondMeaning
<1>10. TypeOK'
  <2>1. waiting' = {u \in Threads : pc'[u] \in WaitLocs}
    BY <1>1, <1>3, <1>5 DEF IInv, TypeOK, WaitLocs, CondLocs
  <2>2. cqueue' \in [Conds -> Seq(Threads)]
    BY <1>3, <1>9, <1>6 DEF IInv, TypeOK
  <2>3. /\ owner' \in [Mutexes -> Threads \cup {NoThread}]
        /\ refs' \in [Mutexes -> 0 .. MaxRefs]
    BY <1>1, <1>3, ReleaseStep
  <2> QED BY <1>3, <1>5, <1>6, <2>1, <2>2, <2>3 DEF IInv, TypeOK
<1>11. CondMeaning'
  <2>1. \A u \in Threads : pc[u] # "lockWait" => (Awakened(u)' <=> Awakened(u))
    BY <1>2, <1>5
  <2>2. \A d \in Conds : Simple(cqueue'[d])
    BY <1>6, <1>9 DEF IInv, CondMeaning
  <2>3. ASSUME NEW d \in Conds, NEW u \in Threads, Contains(cqueue'[d], u)
        PROVE  pc'[u] \in CondLocs /\ cnd'[u] = d /\ ~Awakened(u)'
    <3>1. CASE u = t
      BY <1>1, <1>3, <1>5, <1>6, <1>8, <1>9, <2>1, <2>3, <3>1
    <3>2. CASE u # t
      BY <1>5, <1>6, <1>9, <2>1, <2>3, <3>2 DEF IInv, CondMeaning, CondLocs
    <3> QED BY <3>1, <3>2
  <2>4. ASSUME NEW u \in Threads
        PROVE  /\ pc'[u] \in CondLocs \cup {"condCheck"} => cnd'[u] \in Conds
               /\ pc'[u] \in CondLocs => Contains(cqueue'[cnd'[u]], u) \/ Awakened(u)'
    <3>1. CASE u = t
      BY <1>6, <1>9, <3>1
    <3>2. CASE u # t
      BY <1>5, <1>6, <1>9, <3>2 DEF IInv, CondMeaning
    <3> QED BY <3>1, <3>2
  <2> QED BY <2>2, <2>3, <2>4 DEF CondMeaning
<1> QED BY <1>5, <1>7, <1>10, <1>11 DEF IInv

(* The threads ws leave the condition variable's queue, and l is where the   *)
(* signal or the broadcast goes on to wake them.                             *)
LEMMA SelectStep ==
  ASSUME IInv, NEW t \in Threads, pc[t] = "run", NEW c \in Conds,
         NEW ws \in Seq(Threads), Simple(ws), ws # <<>>,
         NEW l, l \in {"wake", "wakeAll"},
         NEW q \in Seq(Threads), Simple(q),
         \A u \in Threads : Contains(cqueue[c], u) <=> Contains(ws, u) \/ Contains(q, u),
         \A u \in Threads : ~(Contains(ws, u) /\ Contains(q, u)),
         cqueue' = [cqueue EXCEPT ![c] = q], ReturnWaking(t, ws, l),
         UNCHANGED <<owner, refs, queue, mtx, cnd, eventVars>>
  PROVE  IInv'
<1> USE DEF eventVars
<1>1. /\ l \in Locs /\ (ws # <<>> <=> l \in WakeLocs)
      /\ wake' = [wake EXCEPT ![t] = ws] /\ pc' = [pc EXCEPT ![t] = l]
  BY DEF ReturnWaking, Goto, Locs, WakeLocs
<1>2. \A u \in Threads : Contains(ws, u) =>
            pc[u] \in SleepLocs /\ ~Awakened(u) /\ pc[u] \in CondLocs
  BY DEF IInv, CondMeaning, SleepLocs
<1>3. /\ WakeMeaning'
      /\ pc' \in [Threads -> Locs] /\ pc'[t] = l
      /\ \A u \in Threads \ {t} : pc'[u] = pc[u]
      /\ wake' \in [Threads -> Seq(Threads)]
      /\ \A u \in Threads : Awakened(u)' <=> Awakened(u) \/ Contains(ws, u)
  BY <1>1, <1>2, NewWakes
<1>4. /\ cqueue'[c] = q /\ \A d \in Conds \ {c} : cqueue'[d] = cqueue[d]
      /\ cqueue' \in [Conds -> Seq(Threads)]
  BY DEF IInv, TypeOK
<1>5. /\ \A k \in Mutexes : ~Contains(queue[k], t)
      /\ \A d \in Conds : ~Contains(cqueue[d], t)
  BY Elsewhere DEF CondLocs
<1>6. TypeOK'
  BY <1>3, <1>4 DEF IInv, TypeOK, WaitLocs
<1>7. OwnerMeaning'
  BY <1>3 DEF IInv, OwnerMeaning, CondLocs
<1>8. QueueMeaning'
  <2>1. ASSUME NEW k \in Mutexes, NEW u \in Threads, Contains(queue[k], u)
        PROVE  u # t /\ (Awakened(u)' <=> Awakened(u))
    BY <1>2, <1>3, <1>5, <2>1 DEF IInv, QueueMeaning, CondLocs
  <2>2. ASSUME NEW k \in Mutexes, NEW u \in Threads, Contains(queue[k], u)
        PROVE  /\ pc'[u] \in {"lock", "lockWait"} /\ mtx'[u] = k
               /\ pc'[u] = "lock" \/ Awakened(u)' => owner'[k] = NoThread /\ Head(queue[k]) = u
    BY <1>3, <2>1, <2>2 DEF IInv, QueueMeaning
  <2>3. ASSUME NEW u \in Threads, pc'[u] = "lockWait" PROVE Contains(queue[mtx'[u]], u)
    <3>1. u # t /\ pc[u] = "lockWait" /\ mtx'[u] = mtx[u]
      BY <1>3, <2>3
    <3> QED BY <3>1 DEF IInv, QueueMeaning
  <2> QED BY <2>2, <2>3 DEF IInv, QueueMeaning
<1>9. HandoffMeaning'
  <2>1. ASSUME NEW k \in Mutexes, queue[k] # <<>> PROVE Head(queue[k]) # t
    BY <1>5, <2>1, PopFront DEF IInv, TypeOK
  <2> QED BY <1>3, <2>1 DEF IInv, HandoffMeaning
<1>10. CondMeaning'
  <2>1. \A d \in Conds : Simple(cqueue'[d])
    BY <1>4 DEF IInv, CondMeaning
  <2>2. ASSUME NEW d \in Conds, NEW u \in Threads, Contains(cqueue'[d], u)
        PROVE  pc'[u] \in CondLocs /\ cnd'[u] = d /\ ~Awakened(u)'
    <3>1. Contains(cqueue[d], u) /\ ~Contains(ws, u)
      BY <1>4, <2>2 DEF IInv, CondMeaning
    <3>2. u # t /\ pc[u] \in CondLocs /\ cnd[u] = d /\ ~Awakened(u)
      BY <1>5, <3>1 DEF IInv, CondMeaning
    <3> QED BY <1>3, <3>1, <3>2
  <2>3. ASSUME NEW u \in Threads
        PROVE  /\ pc'[u] \in CondLocs \cup {"condCheck"} => cnd'[u] \in Conds
               /\ pc'[u] \in CondLocs => Contains(cqueue'[cnd'[u]], u) \/ Awakened(u)'
    <3>1. CASE u = t
      BY <1>3, <3>1 DEF CondLocs
    <3>2. CASE u # t
      BY <1>3, <1>4, <3>2 DEF IInv, CondMeaning
    <3> QED BY <3>1, <3>2
  <2> QED BY <2>1, <2>2, <2>3 DEF CondMeaning
<1> QED BY <1>3, <1>6, <1>7, <1>8, <1>9, <1>10 DEF IInv

(* oe_cond_signal *)
LEMMA CondSignalStep ==
  ASSUME IInv, NEW t \in Threads, NEW c \in Conds, CondSignal(t, c) PROVE IInv'
<1> DEFINE q == cqueue[c]
<1> USE DEF CondSignal
<1>1. q \in Seq(Threads) /\ q # <<>> /\ Simple(q)
  BY DEF IInv, TypeOK, CondMeaning
<1> HIDE DEF q
<1>2. /\ Head(q) \in Threads /\ Tail(q) \in Seq(Threads) /\ Simple(Tail(q))
      /\ \A u : Contains(q, u) <=> u = Head(q) \/ Contains(Tail(q), u)
      /\ ~Contains(Tail(q), Head(q))
  BY <1>1, PopFront
<1>3. /\ <<Head(q)>> \in Seq(Threads) /\ <<Head(q)>> # <<>> /\ Simple(<<Head(q)>>)
      /\ \A u : Contains(<<Head(q)>>, u) <=> u = Head(q)
  BY <1>2, OneList
<1> DEFINE ws == <<Head(q)>>
           r == Tail(q)
<1>4. /\ ws \in Seq(Threads) /\ Simple(ws) /\ ws # <<>> /\ r \in Seq(Threads) /\ Simple(r)
      /\ \A u \in Threads : Contains(cqueue[c], u) <=> Contains(ws, u) \/ Contains(r, u)
      /\ \A u \in Threads : ~(Contains(ws, u) /\ Contains(r, u))
  BY <1>2, <1>3 DEF q
<1>5. /\ cqueue' = [cqueue EXCEPT ![c] = r] /\ ReturnWaking(t, ws, "wake") /\ pc[t] = "run"
      /\ UNCHANGED <<owner, refs, queue, mtx, cnd, eventVars>>
  BY DEF q
<1> HIDE DEF ws, r
<1> QED BY <1>4, <1>5, SelectStep

(* oe_cond_broadcast *)
LEMMA CondBroadcastStep ==
  ASSUME IInv, NEW t \in Threads, NEW c \in Conds, CondBroadcast(t, c) PROVE IInv'
<1> USE DEF CondBroadcast
<1>1. cqueue[c] \in Seq(Threads) /\ cqueue[c] # <<>> /\ Simple(cqueue[c])
  BY DEF IInv, TypeOK, CondMeaning
<1>2. <<>> \in Seq(Threads) /\ Simple(<<>>) /\ \A u : ~Contains(<<>>, u)
  BY EmptyList
<1> QED BY <1>1, <1>2, SelectStep

(* The host wakes the first thread of t's list, which had no wake yet.       *)
LEMMA Deliver ==
  ASSUME IInv, NEW t \in Threads, pc[t] \in WakeLocs, Deposit(Head(wake[t])),
         wake' = [wake EXCEPT ![t] = Tail(@)],
         NEW l, pc' = [pc EXCEPT ![t] = l], l \in Locs,
         pc[t] = "condWake" => l = "condWait",
         pc[t] # "condWake" => l = IF Tail(wake[t]) = <<>> THEN "run" ELSE pc[t]
  PROVE  /\ WakeMeaning'
         /\ tokens' \in [Threads -> 0 .. 1]
         /\ wake' \in [Threads -> Seq(Threads)]
         /\ pc' \in [Threads -> Locs] /\ pc'[t] = l
         /\ \A u \in Threads \ {t} : pc'[u] = pc[u]
         /\ \A u \in Threads : Awakened(u)' <=> Awakened(u)
<1> DEFINE h == Head(wake[t])
           r == Tail(wake[t])
<1>1. /\ wake[t] \in Seq(Threads) /\ wake[t] # <<>> /\ Simple(wake[t])
  BY DEF IInv, TypeOK, WakeMeaning
<1>2. /\ h \in Threads /\ r \in Seq(Threads) /\ Simple(r)
      /\ \A u : Contains(wake[t], u) <=> u = h \/ Contains(r, u)
      /\ ~Contains(r, h)
      /\ Len(wake[t]) = 1 <=> r = <<>>
  BY <1>1, PopFront
<1>3. /\ wake' \in [Threads -> Seq(Threads)] /\ wake'[t] = r
      /\ \A s \in Threads \ {t} : wake'[s] = wake[s]
      /\ pc' \in [Threads -> Locs] /\ pc'[t] = l
      /\ \A u \in Threads \ {t} : pc'[u] = pc[u]
  BY <1>2 DEF IInv, TypeOK
<1>4. /\ Contains(wake[t], h) /\ pc[h] \in SleepLocs /\ tokens[h] = 0
      /\ \A s \in Threads : Contains(wake[s], h) => s = t
      /\ pc[t] = "condWake" => h # t
  BY <1>2, <1>1, HeadTailProperties DEF IInv, WakeMeaning
<1>5. /\ tokens' \in [Threads -> 0 .. 1] /\ tokens'[h] = 1
      /\ \A u \in Threads \ {h} : tokens'[u] = tokens[u]
  BY <1>2, <1>4 DEF IInv, TypeOK, Deposit
<1> HIDE DEF h, r
<1>6. \A s, u \in Threads : Contains(wake'[s], u) <=> Contains(wake[s], u) /\ u # h
  <2> TAKE s \in Threads, u \in Threads
  <2>1. CASE s = t
    BY <1>2, <1>3, <2>1
  <2>2. CASE s # t
    BY <1>3, <1>4, <2>2
  <2> QED BY <2>1, <2>2
<1>7. ASSUME NEW u \in Threads PROVE Awakened(u)' <=> Awakened(u)
  <2>1. CASE u = h
    <3>1. Pending(u)
      BY <1>4, <2>1 DEF Pending
    <3> QED BY <1>5, <2>1, <3>1 DEF Awakened
  <2>2. CASE u # h
    BY <1>5, <1>6, <2>2 DEF Awakened, Pending
  <2> QED BY <2>1, <2>2
<1>8. l = "condWake" => FALSE
  BY <1>2 DEF WakeLocs
<1>9. r # <<>> <=> l \in WakeLocs
  <2>1. pc[t] = "condWake" => r = <<>>
    BY <1>2 DEF IInv, WakeMeaning
  <2> QED BY <2>1 DEF WakeLocs, r
<1>10. ASSUME NEW s \in Threads
       PROVE  /\ Simple(wake'[s])
              /\ wake'[s] # <<>> <=> pc'[s] \in WakeLocs
              /\ pc'[s] = "condWake" => Len(wake'[s]) = 1 /\ wake'[s][1] # s
  <2>1. CASE s = t
    BY <1>2, <1>3, <1>8, <1>9, <2>1
  <2>2. CASE s # t
    BY <1>3, <2>2 DEF IInv, WakeMeaning
  <2> QED BY <2>1, <2>2
<1>11. /\ \A u \in Threads : pc[u] \in SleepLocs => pc'[u] \in SleepLocs
       /\ \A u \in Threads : pc[u] \in CondLocs => pc'[u] \in CondLocs
       /\ pc'[t] = "wakeAll" => pc[t] = "wakeAll"
  <2>1. pc[t] \in SleepLocs => pc[t] = "condWake" /\ l = "condWait"
    BY DEF SleepLocs, CondLocs, WakeLocs
  <2> QED BY <1>3, <2>1 DEF SleepLocs, CondLocs
<1>12. \A s \in Threads : tokens'[s] > 0 => pc'[s] \in SleepLocs
  BY <1>4, <1>5, <1>11 DEF IInv, WakeMeaning
<1>13. ASSUME NEW s \in Threads, NEW u \in Threads, Contains(wake'[s], u)
       PROVE  /\ pc'[u] \in SleepLocs /\ tokens'[u] = 0
              /\ pc'[s] = "wakeAll" => pc'[u] \in CondLocs
              /\ \A r1 \in Threads : Contains(wake'[r1], u) => r1 = s
  <2>1. Contains(wake[s], u) /\ u # h
    BY <1>6, <1>13
  <2>2. /\ pc[u] \in SleepLocs /\ tokens[u] = 0
        /\ pc[s] = "wakeAll" => pc[u] \in CondLocs
        /\ \A r1 \in Threads : Contains(wake[r1], u) => r1 = s
    BY <2>1 DEF IInv, WakeMeaning
  <2>3. pc'[s] = "wakeAll" => pc[s] = "wakeAll"
    BY <1>3, <1>11
  <2> QED BY <1>5, <1>6, <1>11, <2>1, <2>2, <2>3
<1>14. WakeMeaning'
  BY <1>10, <1>12, <1>13 DEF WakeMeaning
<1> QED BY <1>3, <1>5, <1>7, <1>14

(* A delivered wake leaves the objects and everybody's calls as they were.   *)
LEMMA DeliveredMeaning ==
  ASSUME IInv, NEW t \in Threads, NEW l,
         UNCHANGED <<objVars, mtx, cnd>>, pc'[t] = l,
         \A u \in Threads \ {t} : pc'[u] = pc[u],
         \A u \in Threads : Awakened(u)' <=> Awakened(u),
         \/ pc[t] = "condWake" /\ l = "condWait"
         \/ pc[t] \in {"wake", "wakeAll"} /\ l \in {"run", "wake", "wakeAll"}
  PROVE  OwnerMeaning' /\ QueueMeaning' /\ CondMeaning' /\ HandoffMeaning'
<1> USE DEF objVars
<1>1. \A m \in Mutexes : ~Contains(queue[m], t)
  BY Elsewhere
<1>2. OwnerMeaning'
  BY DEF IInv, OwnerMeaning, CondLocs
<1>3. QueueMeaning'
  <2>1. ASSUME NEW u \in Threads, pc'[u] = "lockWait" PROVE Contains(queue[mtx[u]], u)
    <3>1. pc[u] = "lockWait"
      BY <2>1
    <3> QED BY <3>1 DEF IInv, QueueMeaning
  <2>2. ASSUME NEW m \in Mutexes, NEW u \in Threads, Contains(queue[m], u)
        PROVE  /\ pc'[u] \in {"lock", "lockWait"} /\ mtx[u] = m
               /\ pc'[u] = "lock" \/ Awakened(u)' => owner[m] = NoThread /\ Head(queue[m]) = u
    <3>1. u # t
      BY <1>1, <2>2
    <3> QED BY <2>2, <3>1 DEF IInv, QueueMeaning
  <2> QED BY <2>1, <2>2 DEF IInv, QueueMeaning
<1>4. CondMeaning'
  BY DEF IInv, CondMeaning, CondLocs
<1>5. HandoffMeaning'
  <2>1. ASSUME NEW m \in Mutexes, queue[m] # <<>> PROVE Head(queue[m]) # t
    BY <1>1, <2>1, PopFront DEF IInv, TypeOK
  <2> QED BY <2>1 DEF IInv, HandoffMeaning
<1> QED BY <1>2, <1>3, <1>4, <1>5

(* The wake at the end of unlock, signal and broadcast. *)
LEMMA WakeNextStep ==
  ASSUME IInv, NEW t \in Threads, WakeNext(t) PROVE IInv'
<1> DEFINE l == IF Tail(wake[t]) = <<>> THEN "run" ELSE pc[t]
<1> USE DEF WakeNext
<1>1. /\ pc[t] \in WakeLocs /\ pc[t] # "condWake"
      /\ wake' = [wake EXCEPT ![t] = Tail(@)] /\ pc' = [pc EXCEPT ![t] = l]
      /\ l \in Locs /\ l \in {"run", "wake", "wakeAll"}
  BY DEF ReturnWaking, Goto, WakeLocs, Locs
<1>2. l = IF Tail(wake[t]) = <<>> THEN "run" ELSE pc[t]
  OBVIOUS
<1> HIDE DEF l
<1>3. /\ WakeMeaning'
      /\ tokens' \in [Threads -> 0 .. 1]
      /\ wake' \in [Threads -> Seq(Threads)]
      /\ pc' \in [Threads -> Locs] /\ pc'[t] = l
      /\ \A u \in Threads \ {t} : pc'[u] = pc[u]
      /\ \A u \in Threads : Awakened(u)' <=> Awakened(u)
  BY <1>1, <1>2, Deliver
<1>4. OwnerMeaning' /\ QueueMeaning' /\ CondMeaning' /\ HandoffMeaning'
  BY <1>1, <1>3, DeliveredMeaning
<1>5. TypeOK'
  BY <1>1, <1>3 DEF IInv, TypeOK, WaitLocs, objVars
<1> QED BY <1>3, <1>4, <1>5 DEF IInv

(* _thread_wake_wait in oe_cond_wait. *)
LEMMA CondWakeWaitStep ==
  ASSUME IInv, NEW t \in Threads, CondWakeWait(t) PROVE IInv'
<1> USE DEF CondWakeWait
<1>1. /\ pc[t] = "condWake" /\ pc[t] \in WakeLocs /\ "condWait" \in Locs
      /\ pc' = [pc EXCEPT ![t] = "condWait"] /\ waiting' = waiting \cup {t}
  BY DEF Goto, BeginWait, WakeLocs, WaitLocs, Locs
<1>2. wake' = [wake EXCEPT ![t] = Tail(@)]
  <2>1. wake[t] \in Seq(Threads) /\ Len(wake[t]) = 1 /\ wake[t] # <<>>
    BY <1>1 DEF IInv, TypeOK, WakeMeaning
  <2>2. Tail(wake[t]) = <<>>
    BY <2>1, PopFront
  <2> QED BY <2>2
<1>3. /\ WakeMeaning'
      /\ tokens' \in [Threads -> 0 .. 1]
      /\ wake' \in [Threads -> Seq(Threads)]
      /\ pc' \in [Threads -> Locs] /\ pc'[t] = "condWait"
      /\ \A u \in Threads \ {t} : pc'[u] = pc[u]
      /\ \A u \in Threads : Awakened(u)' <=> Awakened(u)
  BY <1>1, <1>2, Deliver
<1>4. OwnerMeaning' /\ QueueMeaning' /\ CondMeaning' /\ HandoffMeaning'
  BY <1>1, <1>3, DeliveredMeaning
<1>5. TypeOK'
  BY <1>1, <1>3 DEF IInv, TypeOK, WaitLocs, objVars
<1> QED BY <1>3, <1>4, <1>5 DEF IInv

(* Every step keeps the invariant. *)
LEMMA NextIInv ==
  ASSUME CondWaitRefs \subseteq {1} PROVE IInv /\ [Next]_vars => IInv'
<1> SUFFICES ASSUME IInv, [Next]_vars PROVE IInv'
  OBVIOUS
<1>1. ASSUME NEW t \in Threads, LockAttempt(t) PROVE IInv'
  <2> DEFINE m == mtx[t]
  <2> USE DEF LockAttempt
  <2>1. m \in Mutexes /\ pc[t] = "lock" /\ mtx[t] = m
    BY <1>1 DEF IInv, OwnerMeaning
  <2>2. CASE CanLock(t, m)
    <3>1. /\ Acquire(t, m) /\ pc' = [pc EXCEPT ![t] = "run"]
          /\ mtx' \in [Threads -> Mutexes \cup {NoMutex}]
          /\ \A u \in Threads \ {t} : mtx'[u] = mtx[u]
          /\ UNCHANGED <<cqueue, cnd, wake, eventVars>>
      BY <1>1, <2>2 DEF Goto, IInv, TypeOK
    <3> HIDE DEF m
    <3>2. (pc[t] = "lock" /\ mtx[t] = m) \/ (pc[t] = "run" /\ HeldRefs(t, m) < MaxRefs)
      BY <2>1
    <3> QED BY ONLY IInv, t \in Threads, <2>1, <2>2, <3>1, <3>2, AcquireStep
  <2>3. CASE ~CanLock(t, m)
    <3>1. /\ queue' = [queue EXCEPT ![m] = IF Contains(@, t) THEN @ ELSE Append(@, t)]
          /\ Goto(t, "lockWait") /\ BeginWait(t)
          /\ UNCHANGED <<owner, refs, mtx, tokens, cqueue, cnd, wake>>
      BY <1>1, <2>3
    <3> HIDE DEF m
    <3> QED BY <2>1, <2>3, <3>1, QueueStep
  <2> QED BY <2>2, <2>3
<1>2. ASSUME NEW t \in Threads, NEW m \in Mutexes, MutexTryLock(t, m) PROVE IInv'
  <2>1. pc' = [pc EXCEPT ![t] = "run"] /\ mtx' \in [Threads -> Mutexes \cup {NoMutex}]
    BY <1>2 DEF MutexTryLock, callVars, IInv, TypeOK
  <2>2. /\ pc[t] = "run" /\ HeldRefs(t, m) < MaxRefs /\ CanLock(t, m) /\ Acquire(t, m)
        /\ UNCHANGED <<cqueue, cnd, wake, eventVars>> /\ mtx' = mtx
    BY <1>2 DEF MutexTryLock, callVars
  <2> QED BY <2>1, <2>2, AcquireStep
<1>3. ASSUME NEW t \in Threads, NEW m \in Mutexes, NEW c \in Conds, CondWait(t, c, m) PROVE IInv'
  <2>1. HeldRefs(t, m) = 1
    BY <1>3 DEF CondWait
  <2> QED BY <1>3, <2>1, CondWaitStep
<1>4. ASSUME NEW t \in Threads, CallStep(t) PROVE IInv'
  BY <1>1, <1>4, LockWokenStep, CondWakeWaitStep, CondWokenStep, CondCheckStep, WakeNextStep
  DEF CallStep
<1>5. ASSUME NEW t \in Threads, Call(t) PROVE IInv'
  BY <1>2, <1>3, <1>5, MutexLockStep, MutexUnlockStep, MutexDestroyStep,
     CondSignalStep, CondBroadcastStep
  DEF Call
<1>6. CASE UNCHANGED vars
  <2> USE <1>6 DEF vars, objVars, callVars, eventVars
  <2>1. \A u \in Threads : Awakened(u)' <=> Awakened(u)
    BY SameWakes
  <2>2. TypeOK' /\ OwnerMeaning'
    BY DEF IInv, TypeOK, OwnerMeaning
  <2>3. QueueMeaning' /\ CondMeaning' /\ WakeMeaning' /\ HandoffMeaning'
    BY <2>1 DEF IInv, QueueMeaning, CondMeaning, WakeMeaning, HandoffMeaning
  <2> QED BY <2>2, <2>3 DEF IInv
<1> QED BY <1>4, <1>5, <1>6 DEF Next

(* No wake-up is lost by the mutexes and the condition variables. *)
LEMMA WakesKept == IInv => NoLostWake
<1> SUFFICES ASSUME IInv PROVE NoLostWake
  OBVIOUS
<1>1. ASSUME NEW m \in Mutexes, owner[m] = NoThread, queue[m] # <<>>
      PROVE  pc[Head(queue[m])] = "lock" \/ Awakened(Head(queue[m]))
  <2>1. Head(queue[m]) \in Threads
    BY <1>1, PopFront DEF IInv, TypeOK
  <2> QED BY <1>1, <2>1 DEF IInv, HandoffMeaning
<1>2. ASSUME NEW t \in Threads, pc[t] \in {"condWake", "condWait"}
      PROVE  /\ Contains(cqueue[cnd[t]], t) \/ Awakened(t)
             /\ CondDestroyResult(cnd[t]) = "OE_OK" => Awakened(t)
  <2>1. Contains(cqueue[cnd[t]], t) \/ Awakened(t)
    BY <1>2 DEF IInv, CondMeaning, CondLocs
  <2>2. CASE cqueue[cnd[t]] = <<>>
    BY <2>1, <2>2, EmptyList
  <2>3. CASE cqueue[cnd[t]] # <<>>
    BY <2>1, <2>3 DEF CondDestroyResult
  <2> QED BY <2>2, <2>3
<1> QED BY <1>1, <1>2 DEF NoLostWake, NoLostHandoff, NoLostSignal

(* A thread's one `next' field is in one list at most: a mutex's queue, a    *)
(* condition variable's, or the list a broadcast walks.                      *)
LEMMA LinkedOnceHolds == IInv => LinkedOnce
<1> SUFFICES ASSUME IInv, NEW t \in Threads PROVE Cardinality(Links(t)) <= 1
  BY DEF LinkedOnce
<1>1. ASSUME NEW x \in Links(t), NEW y \in Links(t) PROVE x = y
  <2> DEFINE InM(z, m) == \E i \in 1 .. Len(queue[m]) : z = <<m, i>> /\ queue[m][i] = t
             InC(z, c) == \E i \in 1 .. Len(cqueue[c]) : z = <<c, i>> /\ cqueue[c][i] = t
             InW(z, s) == pc[s] = "wakeAll"
                          /\ \E i \in 1 .. Len(wake[s]) : z = <<s, i>> /\ wake[s][i] = t
  <2>1. ASSUME NEW z \in Links(t)
        PROVE  \/ \E m \in Mutexes : InM(z, m)
               \/ \E c \in Conds : InC(z, c)
               \/ \E s \in Threads : InW(z, s)
    <3> DEFINE M(m) == {<<m, i>> : i \in {j \in 1 .. Len(queue[m]) : queue[m][j] = t}}
               C(c) == {<<c, i>> : i \in {j \in 1 .. Len(cqueue[c]) : cqueue[c][j] = t}}
               W(s) == {<<s, i>> : i \in {j \in 1 .. Len(wake[s]) : wake[s][j] = t}}
    <3> DEFINE Ms == UNION {M(m) : m \in Mutexes}
               Cs == UNION {C(c) : c \in Conds}
               Ws == UNION {W(s) : s \in {r \in Threads : pc[r] = "wakeAll"}}
    <3>1. Links(t) = Ms \cup Cs \cup Ws
      BY DEF Links
    <3>2. /\ \A m : z \in M(m) => InM(z, m)
          /\ \A c : z \in C(c) => InC(z, c)
          /\ \A s : pc[s] = "wakeAll" /\ z \in W(s) => InW(z, s)
      OBVIOUS
    <3> HIDE DEF M, C, W, InM, InC, InW
    <3>3. z \in Ms \/ z \in Cs \/ z \in Ws
      <4> HIDE DEF Ms, Cs, Ws
      <4> QED BY <2>1, <3>1
    <3>4. CASE z \in Ms
      BY <3>2, <3>4
    <3>5. CASE z \in Cs
      BY <3>2, <3>5
    <3>6. CASE z \in Ws
      BY <3>2, <3>6
    <3> QED BY <3>3, <3>4, <3>5, <3>6
  <2>2. ASSUME NEW z, NEW m \in Mutexes, InM(z, m)
        PROVE  Contains(queue[m], t) /\ mtx[t] = m /\ pc[t] \in {"lock", "lockWait"}
    <3>1. Contains(queue[m], t)
      BY <2>2 DEF Contains
    <3> QED BY <3>1 DEF IInv, QueueMeaning
  <2>3. ASSUME NEW z, NEW c \in Conds, InC(z, c)
        PROVE  Contains(cqueue[c], t) /\ cnd[t] = c /\ pc[t] \in CondLocs /\ ~Awakened(t)
    <3>1. Contains(cqueue[c], t)
      BY <2>3 DEF Contains
    <3> QED BY <3>1 DEF IInv, CondMeaning
  <2>4. ASSUME NEW z, NEW s \in Threads, InW(z, s)
        PROVE  Contains(wake[s], t) /\ Awakened(t) /\ pc[t] \in CondLocs
    <3>1. Contains(wake[s], t)
      BY <2>4 DEF Contains
    <3> QED BY <2>4, <3>1 DEF IInv, WakeMeaning, Awakened, Pending
  <2>5. ASSUME NEW m \in Mutexes, NEW k \in Mutexes, InM(x, m), InM(y, k) PROVE x = y
    <3>1. m = k
      BY <2>2, <2>5
    <3> QED BY <2>5, <3>1 DEF IInv, QueueMeaning, Simple
  <2>6. ASSUME NEW c \in Conds, NEW d \in Conds, InC(x, c), InC(y, d) PROVE x = y
    <3>1. c = d
      BY <2>3, <2>6
    <3> QED BY <2>6, <3>1 DEF IInv, CondMeaning, Simple
  <2>7. ASSUME NEW r \in Threads, NEW s \in Threads, InW(x, r), InW(y, s) PROVE x = y
    <3>1. r = s
      BY <2>4, <2>7 DEF IInv, WakeMeaning
    <3> QED BY <2>7, <3>1 DEF IInv, WakeMeaning, Simple
  <2> HIDE DEF InM, InC, InW
  <2>8. ASSUME NEW z1, NEW z2, NEW m \in Mutexes, NEW c \in Conds, InM(z1, m), InC(z2, c) PROVE FALSE
    BY <2>2, <2>3, <2>8 DEF CondLocs
  <2>9. ASSUME NEW z1, NEW z2, NEW m \in Mutexes, NEW s \in Threads, InM(z1, m), InW(z2, s) PROVE FALSE
    BY <2>2, <2>4, <2>9 DEF CondLocs
  <2>10. ASSUME NEW z1, NEW z2, NEW c \in Conds, NEW s \in Threads, InC(z1, c), InW(z2, s) PROVE FALSE
    BY <2>3, <2>4, <2>10
  <2> QED BY <1>1, <2>1, <2>5, <2>6, <2>7, <2>8, <2>9, <2>10
<1>2. Links(t) = {} \/ \E x : Links(t) = {x}
  BY <1>1
<1>3. Cardinality({}) = 0 /\ \A x : Cardinality({x}) = 1
  BY FS_EmptySet, FS_Singleton
<1>4. CASE Links(t) = {}
  BY <1>3, <1>4
<1>5. ASSUME NEW x, Links(t) = {x} PROVE Cardinality(Links(t)) <= 1
  BY <1>3, <1>5
<1> QED BY <1>2, <1>4, <1>5

LEMMA WakePairedHolds == IInv => WakePaired
<1> SUFFICES ASSUME IInv, NEW t \in Threads
             PROVE  /\ Awakened(t) => pc[t] \in {"lockWait", "condWake", "condWait"}
                    /\ Awakened(t) => \A c \in Conds : ~Contains(cqueue[c], t)
                    /\ tokens[t] > 0 => ~Pending(t)
                    /\ \A s1, s2 \in Threads :
                         Contains(wake[s1], t) /\ Contains(wake[s2], t) => s1 = s2
  BY DEF WakePaired
<1>1. Awakened(t) => pc[t] \in {"lockWait", "condWake", "condWait"}
  BY Elsewhere DEF SleepLocs, CondLocs
<1>2. Awakened(t) => \A c \in Conds : ~Contains(cqueue[c], t)
  BY DEF IInv, CondMeaning
<1>3. tokens[t] > 0 => ~Pending(t)
  BY DEF IInv, WakeMeaning, Pending
<1>4. \A s1, s2 \in Threads : Contains(wake[s1], t) /\ Contains(wake[s2], t) => s1 = s2
  BY DEF IInv, WakeMeaning
<1> QED BY <1>1, <1>2, <1>3, <1>4

-----------------------------------------------------------------------------
(* However many threads, mutexes and condition variables there are, no       *)
(* hand-over of a mutex by oe_mutex_unlock and no oe_cond_signal or          *)
(* oe_cond_broadcast is lost, the waiter that has released its mutex in      *)
(* oe_cond_wait and does not sleep yet included.                             *)
THEOREM NoWakeIsLost == ASSUME CondWaitRefs \subseteq {1} PROVE Spec => []NoLostWake
<1>1. IInv /\ [Next]_vars => IInv'
  BY NextIInv
<1> QED BY InitIInv, <1>1, WakesKept, PTL DEF Spec

(* The lists of waiters never share a thread, although a thread has only one *)
(* link field, and every wake has its own wait.                              *)
THEOREM WaiterListsSound == ASSUME CondWaitRefs \subseteq {1} PROVE Spec => []QueuesSound
<1>1. IInv /\ [Next]_vars => IInv'
  BY NextIInv
<1>2. IInv => QueuesSound
  BY LinkedOnceHolds, WakePairedHolds DEF IInv, QueuesSound
<1> QED BY InitIInv, <1>1, <1>2, PTL DEF Spec

(* A waiter that oe_mutex_unlock has woken gets the mutex at its next try:   *)
(* neither oe_mutex_lock nor oe_mutex_trylock of another thread slips in.    *)
THEOREM WokenWaiterGetsMutex == ASSUME CondWaitRefs \subseteq {1} PROVE Spec => []WokenWaiterOwnsNext
<1>1. IInv /\ [Next]_vars => IInv'
  BY NextIInv
<1>2. IInv => WokenWaiterOwnsNext
  <2> SUFFICES ASSUME IInv, NEW t \in Threads, pc[t] = "lock", Contains(queue[mtx[t]], t)
               PROVE  CanLock(t, mtx[t])
    BY DEF WokenWaiterOwnsNext
  <2>1. mtx[t] \in Mutexes
    BY DEF IInv, OwnerMeaning
  <2> QED BY <2>1 DEF IInv, QueueMeaning, CanLock
<1> QED BY InitIInv, <1>1, <1>2, PTL DEF Spec
=============================================================================
