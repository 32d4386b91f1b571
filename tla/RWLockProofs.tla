---------------------------- MODULE RWLockProofs ----------------------------
(***************************************************************************)
(* Proofs about RWLock for every set of threads and every bound on read     *)
(* locks: a writer excludes everybody else, and nobody sleeps on a free     *)
(* lock.                                                                    *)
(***************************************************************************)
EXTENDS RWLock, FiniteSetTheorems, SequenceTheorems, TLAPS

(* No thread is twice in the list. *)
Simple(q) == \A i, j \in 1 .. Len(q) : q[i] = q[j] => i = j

(* One element for every read lock that has been granted. *)
Grants == {g \in Threads \X (1 .. MaxReads) : g[2] <= held[g[1]]}

(* The code's one count is the number of read locks granted. *)
ReadersMeaning == IsFiniteSet(Grants) /\ readers = Cardinality(Grants)

(* Read locks are granted and returned only while nobody writes, and what a *)
(* thread is doing agrees with what it holds.                               *)
HoldMeaning ==
    /\ writer # NoThread => \A t \in Threads : held[t] = 0
    /\ \A t \in Threads :
        /\ pc[t] \in {"rdlock", "rdWait"} => held[t] < MaxReads
        /\ pc[t] = "rdunlock" => held[t] > 0
        /\ pc[t] = "wrunlock" => writer = t

(* The lists: each thread is in one of them at most, and there once; it is   *)
(* in one only while it sleeps.                                             *)
ListMeaning ==
    /\ Simple(queue)
    /\ \A t \in Threads : Contains(queue, t) => pc[t] \in WaitLocs
    /\ \A s \in Threads :
        /\ Simple(wake[s])
        /\ wake[s] # <<>> <=> pc[s] = "wakeAll"
        /\ \A t \in Threads : Contains(wake[s], t) =>
              /\ pc[t] \in WaitLocs /\ ~Contains(queue, t) /\ tokens[t] = 0
              /\ \A r \in Threads : Contains(wake[r], t) => r = s
    /\ \A t \in Threads : tokens[t] > 0 => pc[t] \in WaitLocs /\ ~Contains(queue, t)

(* Who sleeps is queued or awakened, and who is queued waits for a holder.  *)
SleepMeaning ==
    /\ queue # <<>> => readers # 0 \/ writer # NoThread
    /\ \A t \in Threads : pc[t] \in WaitLocs => Contains(queue, t) \/ Awakened(t)

(* The inductive invariant. *)
IInv == TypeOK /\ ReadersMeaning /\ HoldMeaning /\ ListMeaning /\ SleepMeaning

-----------------------------------------------------------------------------
(* Lists of threads.                                                         *)

(* The empty list has no members. *)
LEMMA EmptyList ==
  /\ Simple(<<>>)
  /\ \A u : ~Contains(<<>>, u)
  BY DEF Simple, Contains

(* _queue_push_back adds one member. *)
LEMMA PushBack ==
  ASSUME NEW q \in Seq(Threads), NEW t \in Threads
  PROVE  /\ Append(q, t) \in Seq(Threads)
         /\ Append(q, t) # <<>>
         /\ \A u : Contains(Append(q, t), u) <=> Contains(q, u) \/ u = t
         /\ Simple(q) /\ ~Contains(q, t) => Simple(Append(q, t))
<1>1. /\ Append(q, t) \in Seq(Threads)
      /\ Len(Append(q, t)) = Len(q) + 1
      /\ \A i \in 1 .. Len(q) : Append(q, t)[i] = q[i]
      /\ Append(q, t)[Len(q) + 1] = t
  BY AppendProperties
<1>2. Len(q) \in Nat
  BY LenProperties
<1> QED BY <1>1, <1>2 DEF Contains, Simple

(* Taking the first member off the list. *)
LEMMA PopFront ==
  ASSUME NEW q \in Seq(Threads), q # <<>>
  PROVE  /\ Head(q) \in Threads
         /\ Tail(q) \in Seq(Threads)
         /\ Len(q) = 1 <=> Tail(q) = <<>>
         /\ Contains(q, Head(q))
         /\ \A u : Contains(q, u) <=> u = Head(q) \/ Contains(Tail(q), u)
         /\ Simple(q) => Simple(Tail(q)) /\ ~Contains(Tail(q), Head(q))
<1>1. /\ Len(q) \in Nat /\ Len(q) > 0
      /\ Head(q) = q[1] /\ Head(q) \in Threads
      /\ Tail(q) \in Seq(Threads)
      /\ Len(Tail(q)) = Len(q) - 1
      /\ \A i \in 1 .. Len(q) - 1 : Tail(q)[i] = q[i + 1]
  BY HeadTailProperties, LenProperties, EmptySeq
<1>2. Len(q) = 1 <=> Tail(q) = <<>>
  <2>1. Tail(q) = <<>> <=> Len(Tail(q)) = 0
    BY <1>1, EmptySeq
  <2> QED BY <1>1, <2>1
<1>3. Contains(q, Head(q))
  BY <1>1 DEF Contains
<1>4. ASSUME NEW u, Contains(Tail(q), u) PROVE Contains(q, u)
  <2>1. PICK i \in 1 .. Len(q) - 1 : Tail(q)[i] = u
    BY <1>1, <1>4 DEF Contains
  <2> QED BY <1>1, <2>1 DEF Contains
<1>5. ASSUME NEW u, Contains(q, u), u # Head(q) PROVE Contains(Tail(q), u)
  <2>1. PICK i \in 1 .. Len(q) : q[i] = u
    BY <1>5 DEF Contains
  <2>2. i - 1 \in 1 .. Len(q) - 1 /\ Tail(q)[i - 1] = u
    BY <1>1, <1>5, <2>1
  <2> QED BY <1>1, <2>2 DEF Contains
<1>6. ASSUME Simple(q) PROVE Simple(Tail(q)) /\ ~Contains(Tail(q), Head(q))
  <2>1. Simple(Tail(q))
    BY <1>1, <1>6 DEF Simple
  <2>2. ~Contains(Tail(q), Head(q))
    BY <1>1, <1>6 DEF Simple, Contains
  <2> QED BY <2>1, <2>2
<1> QED BY <1>1, <1>2, <1>3, <1>4, <1>5, <1>6

-----------------------------------------------------------------------------
(* The count of readers.                                                     *)

LEMMA GrantAdded ==
  ASSUME TypeOK, ReadersMeaning, NEW t \in Threads, held[t] < MaxReads,
         held' = [held EXCEPT ![t] = @ + 1], readers' = readers + 1
  PROVE  ReadersMeaning'
<1>1. Grants' = Grants \cup {<<t, held[t] + 1>>}
  BY BoundAssumption DEF Grants, TypeOK
<1>2. <<t, held[t] + 1>> \notin Grants
  BY BoundAssumption DEF Grants, TypeOK
<1> QED BY <1>1, <1>2, FS_AddElement DEF ReadersMeaning

LEMMA GrantReturned ==
  ASSUME TypeOK, ReadersMeaning, NEW t \in Threads, held[t] > 0,
         held' = [held EXCEPT ![t] = @ - 1], readers' = readers - 1
  PROVE  ReadersMeaning'
<1>1. Grants' = Grants \ {<<t, held[t]>>}
  BY BoundAssumption DEF Grants, TypeOK
<1>2. <<t, held[t]>> \in Grants
  BY BoundAssumption DEF Grants, TypeOK
<1> QED BY <1>1, <1>2, FS_RemoveElement DEF ReadersMeaning

LEMMA ReadersCount ==
  ASSUME TypeOK, ReadersMeaning
  PROVE  readers = 0 <=> \A t \in Threads : held[t] = 0
<1>1. Grants = {} <=> \A t \in Threads : held[t] = 0
  <2>1. ASSUME NEW t \in Threads, held[t] # 0 PROVE <<t, 1>> \in Grants
    BY <2>1, BoundAssumption DEF Grants, TypeOK
  <2>2. ASSUME NEW g \in Grants PROVE g[1] \in Threads /\ held[g[1]] # 0
    BY <2>2, BoundAssumption DEF Grants, TypeOK
  <2> QED BY <2>1, <2>2
<1> QED BY <1>1, FS_EmptySet DEF ReadersMeaning

-----------------------------------------------------------------------------
LEMMA InitIInv == Init => IInv
<1> SUFFICES ASSUME Init PROVE IInv
  OBVIOUS
<1>1. TypeOK
  BY BoundAssumption, EmptySeq DEF Init, EventInit, TypeOK, Locs, WaitLocs
<1>2. ReadersMeaning
  <2>1. Grants = {}
    BY DEF Init, Grants
  <2> QED BY <2>1, FS_EmptySet DEF ReadersMeaning, Init
<1>3. HoldMeaning
  BY DEF Init, HoldMeaning
<1>4. ListMeaning /\ SleepMeaning
  BY EmptyList DEF Init, EventInit, ListMeaning, SleepMeaning, WaitLocs
<1> QED BY <1>1, <1>2, <1>3, <1>4 DEF IInv

(* A thread that joins the queue and sleeps. *)
LEMMA QueueAndWaitStep ==
  ASSUME IInv, NEW t \in Threads, NEW loc \in WaitLocs, pc[t] \in {"rdlock", "wrlock"},
         loc = "rdWait" => pc[t] = "rdlock",
         readers > 0 \/ writer # NoThread, QueueAndWait(t, loc)
  PROVE  IInv'
<1> USE DEF IInv, QueueAndWait, Goto, BeginWait
<1>1. ~Contains(queue, t)
  BY DEF ListMeaning, WaitLocs
<1>2. queue' = Append(queue, t) /\ queue \in Seq(Threads)
  BY <1>1 DEF TypeOK
<1>3. TypeOK'
  BY <1>2, PushBack DEF TypeOK, Locs, WaitLocs
<1>4. ReadersMeaning'
  BY DEF ReadersMeaning, Grants
<1>5. HoldMeaning'
  BY DEF HoldMeaning, TypeOK, WaitLocs
<1>6. ListMeaning'
  BY <1>1, <1>2, PushBack DEF ListMeaning, TypeOK, WaitLocs
<1>7. SleepMeaning'
  BY <1>2, PushBack DEF SleepMeaning, TypeOK, WaitLocs, Awakened, Pending
<1> QED BY <1>3, <1>4, <1>5, <1>6, <1>7

(* A step that moves t between places where it does not sleep, and may       *)
(* change who holds the lock, but touches no list.                           *)
LEMMA NoListStep ==
  ASSUME IInv, NEW t \in Threads, pc[t] \notin WaitLocs \cup {"wakeAll"},
         NEW loc \in Locs \ (WaitLocs \cup {"wakeAll"}), Goto(t, loc),
         UNCHANGED <<queue, wake, eventVars>>
  PROVE  ListMeaning'
  BY DEF IInv, ListMeaning, TypeOK, Goto, eventVars

(* _wake_waiters takes the whole queue. *)
LEMMA WakeWaitersStep ==
  ASSUME IInv, NEW t \in Threads, pc[t] \in {"rdunlock", "wrunlock"}, WakeWaiters(t),
         UNCHANGED eventVars
  PROVE  /\ ListMeaning'
         /\ \A u \in Threads : pc'[u] \in WaitLocs => Awakened(u)'
         /\ queue' = <<>>
         /\ wake' \in [Threads -> Seq(Threads)]
         /\ pc' \in [Threads -> Locs]
         /\ waiting' = {u \in Threads : pc'[u] \in WaitLocs}
<1> USE DEF IInv, WakeWaiters, Goto, eventVars
<1>1. /\ queue' = <<>> /\ wake'[t] = queue
      /\ \A s \in Threads \ {t} : wake'[s] = wake[s]
      /\ wake[t] = <<>>
  BY DEF TypeOK, ListMeaning
<1>2. /\ wake' \in [Threads -> Seq(Threads)]
      /\ pc' \in [Threads -> Locs]
      /\ \A u \in Threads \ {t} : pc'[u] = pc[u]
      /\ pc'[t] = IF queue = <<>> THEN "run" ELSE "wakeAll"
  BY DEF TypeOK, Locs
<1>3. waiting' = {u \in Threads : pc'[u] \in WaitLocs}
  BY <1>2 DEF TypeOK, WaitLocs
<1>4. ListMeaning'
  <2>1. \A s \in Threads : Simple(wake'[s]) /\ (wake'[s] # <<>> <=> pc'[s] = "wakeAll")
    BY <1>1, <1>2 DEF ListMeaning
  <2>2. ASSUME NEW s \in Threads, NEW u \in Threads, Contains(wake'[s], u)
        PROVE  /\ pc'[u] \in WaitLocs /\ tokens[u] = 0
               /\ \A r \in Threads : Contains(wake'[r], u) => r = s
    <3>1. CASE s = t
      BY <1>1, <1>2, <2>2, <3>1 DEF ListMeaning, TypeOK, WaitLocs
    <3>2. CASE s # t
      BY <1>1, <1>2, <2>2, <3>2 DEF ListMeaning, TypeOK, WaitLocs
    <3> QED BY <3>1, <3>2
  <2>3. \A u \in Threads : tokens[u] > 0 => pc'[u] \in WaitLocs
    BY <1>2 DEF ListMeaning, WaitLocs
  <2> QED BY <1>1, <2>1, <2>2, <2>3, EmptyList DEF ListMeaning
<1>5. ASSUME NEW u \in Threads, pc'[u] \in WaitLocs PROVE Awakened(u)'
  <2>1. Contains(queue, u) \/ tokens[u] > 0 \/ Pending(u)
    BY <1>2, <1>5 DEF SleepMeaning, Awakened, WaitLocs
  <2>2. CASE Contains(queue, u)
    BY <1>1, <2>2 DEF Awakened, Pending
  <2>3. CASE tokens[u] > 0
    BY <2>3 DEF Awakened
  <2>4. CASE Pending(u)
    <3>1. PICK s \in Threads : Contains(wake[s], u)
      BY <2>4 DEF Pending
    <3>2. s # t
      BY <1>1, <3>1, EmptyList
    <3> QED BY <1>1, <3>1, <3>2 DEF Awakened, Pending
  <2> QED BY <2>1, <2>2, <2>3, <2>4
<1> QED BY <1>1, <1>2, <1>3, <1>4, <1>5

LEMMA NextIInv == IInv /\ [Next]_vars => IInv'
<1> SUFFICES ASSUME IInv, [Next]_vars PROVE IInv'
  OBVIOUS
<1> USE DEF IInv
<1>1. ASSUME NEW t \in Threads, RdLock(t) PROVE IInv'
  <2> USE <1>1 DEF RdLock, Goto, lockVars, eventVars
  <2>1. TypeOK' /\ HoldMeaning'
    BY DEF TypeOK, HoldMeaning, Locs, WaitLocs
  <2>2. ReadersMeaning'
    BY DEF ReadersMeaning, Grants
  <2>3. ListMeaning'
    BY NoListStep DEF Locs, WaitLocs
  <2>4. SleepMeaning'
    BY DEF SleepMeaning, TypeOK, WaitLocs, Awakened, Pending
  <2> QED BY <2>1, <2>2, <2>3, <2>4
<1>2. ASSUME NEW t \in Threads, pc[t] \in {"run", "rdlock"}, held[t] < MaxReads, GrantRead(t)
      PROVE  IInv'
  <2> USE <1>2 DEF GrantRead, Goto, eventVars
  <2>1. TypeOK' /\ HoldMeaning'
    BY NullAssumption, BoundAssumption DEF TypeOK, HoldMeaning, Locs, WaitLocs
  <2>2. ReadersMeaning'
    BY GrantAdded
  <2>3. ListMeaning'
    BY NoListStep DEF Locs, WaitLocs
  <2>4. SleepMeaning'
    BY DEF SleepMeaning, TypeOK, WaitLocs, Awakened, Pending
  <2> QED BY <2>1, <2>2, <2>3, <2>4
<1>3. ASSUME NEW t \in Threads, RdLockAttempt(t) PROVE IInv'
  <2>1. CASE GrantRead(t)
    BY <1>2, <1>3, <2>1 DEF RdLockAttempt, HoldMeaning
  <2>2. CASE writer # NoThread /\ QueueAndWait(t, "rdWait")
    BY <1>3, <2>2, QueueAndWaitStep DEF RdLockAttempt, WaitLocs
  <2> QED BY <1>3, <2>1, <2>2 DEF RdLockAttempt
<1>4. ASSUME NEW t \in Threads, TryRdLock(t) PROVE IInv'
  BY <1>2, <1>4 DEF TryRdLock
<1>5. ASSUME NEW t \in Threads, WrLock(t) PROVE IInv'
  <2> USE <1>5 DEF WrLock, Goto, lockVars, eventVars
  <2>1. TypeOK' /\ HoldMeaning'
    BY DEF TypeOK, HoldMeaning, Locs, WaitLocs
  <2>2. ReadersMeaning'
    BY DEF ReadersMeaning, Grants
  <2>3. ListMeaning'
    BY NoListStep DEF Locs, WaitLocs
  <2>4. SleepMeaning'
    BY DEF SleepMeaning, TypeOK, WaitLocs, Awakened, Pending
  <2> QED BY <2>1, <2>2, <2>3, <2>4
<1>6. ASSUME NEW t \in Threads, pc[t] \in {"run", "wrlock"}, GrantWrite(t) PROVE IInv'
  <2> USE <1>6 DEF GrantWrite, Goto, eventVars
  <2>1. TypeOK'
    BY DEF TypeOK, Locs, WaitLocs
  <2>2. HoldMeaning'
    BY ReadersCount, NullAssumption DEF TypeOK, HoldMeaning
  <2>3. ReadersMeaning'
    BY DEF ReadersMeaning, Grants
  <2>4. ListMeaning'
    BY NoListStep DEF Locs, WaitLocs
  <2>5. SleepMeaning'
    BY NullAssumption DEF SleepMeaning, TypeOK, WaitLocs, Awakened, Pending
  <2> QED BY <2>1, <2>2, <2>3, <2>4, <2>5
<1>7. ASSUME NEW t \in Threads, WrLockAttempt(t) PROVE IInv'
  <2>1. CASE GrantWrite(t)
    BY <1>6, <1>7, <2>1 DEF WrLockAttempt
  <2>2. CASE (readers > 0 \/ writer # NoThread) /\ QueueAndWait(t, "wrWait")
    BY <1>7, <2>2, QueueAndWaitStep DEF WrLockAttempt, WaitLocs
  <2> QED BY <1>7, <2>1, <2>2 DEF WrLockAttempt
<1>8. ASSUME NEW t \in Threads, TryWrLock(t) PROVE IInv'
  BY <1>6, <1>8 DEF TryWrLock
<1>9. ASSUME NEW t \in Threads, Woken(t) PROVE IInv'
  <2> USE <1>9 DEF Woken, Goto, EndWait, lockVars
  <2>1. TypeOK'
    BY DEF TypeOK, Locs, WaitLocs
  <2>2. HoldMeaning'
    BY DEF TypeOK, HoldMeaning, WaitLocs
  <2>3. ReadersMeaning'
    BY DEF ReadersMeaning, Grants
  <2>4. \A s \in Threads : ~Contains(wake[s], t)
    BY DEF ListMeaning, TypeOK
  <2>5. ListMeaning'
    BY <2>4 DEF ListMeaning, TypeOK, WaitLocs
  <2>6. SleepMeaning'
    BY DEF SleepMeaning, TypeOK, WaitLocs, Awakened, Pending
  <2> QED BY <2>1, <2>2, <2>3, <2>5, <2>6
<1>10. ASSUME NEW t \in Threads, Unlock(t) PROVE IInv'
  <2> USE <1>10 DEF Unlock, Goto, lockVars, eventVars
  <2>1. TypeOK' /\ HoldMeaning'
    BY DEF TypeOK, HoldMeaning, Locs, WaitLocs
  <2>2. ReadersMeaning'
    BY DEF ReadersMeaning, Grants
  <2>3. ListMeaning'
    BY NoListStep DEF Locs, WaitLocs
  <2>4. SleepMeaning'
    BY DEF SleepMeaning, TypeOK, WaitLocs, Awakened, Pending
  <2> QED BY <2>1, <2>2, <2>3, <2>4
<1>11. ASSUME NEW t \in Threads, RdUnlock(t) PROVE IInv'
  <2> USE <1>11 DEF RdUnlock
  <2>1. pc[t] = "rdunlock" /\ held[t] > 0 /\ readers > 0 /\ writer = NoThread
    BY ReadersCount DEF HoldMeaning, TypeOK
  <2>2. /\ readers' = readers - 1 /\ held' = [held EXCEPT ![t] = @ - 1]
        /\ UNCHANGED <<writer, eventVars>>
    BY <2>1 DEF TypeOK
  <2>3. ReadersMeaning'
    BY <2>1, <2>2, GrantReturned
  <2>4. CASE readers = 1
    <3>1. WakeWaiters(t)
      BY <2>1, <2>4
    <3>2. TypeOK'
      <4>1. readers' \in Nat /\ held' \in [Threads -> 0 .. MaxReads]
        BY <2>1, <2>2, BoundAssumption DEF TypeOK
      <4>2. /\ queue' \in Seq(Threads) /\ wake' \in [Threads -> Seq(Threads)]
            /\ pc' \in [Threads -> Locs]
            /\ waiting' = {u \in Threads : pc'[u] \in WaitLocs}
        BY <2>1, <2>2, <3>1, WakeWaitersStep, EmptySeq
      <4> QED BY <2>2, <4>1, <4>2 DEF TypeOK, eventVars
    <3>3. HoldMeaning'
      BY <2>1, <2>2, <3>1 DEF HoldMeaning, TypeOK, WakeWaiters, Goto
    <3>4. ListMeaning' /\ SleepMeaning'
      BY <2>1, <2>2, <3>1, WakeWaitersStep DEF SleepMeaning
    <3> QED BY <2>3, <3>2, <3>3, <3>4
  <2>5. CASE readers # 1
    <3>1. Goto(t, "run") /\ UNCHANGED <<queue, wake>>
      BY <2>1, <2>5 DEF TypeOK
    <3>2. TypeOK'
      BY <2>1, <2>2, <3>1, BoundAssumption DEF TypeOK, Goto, eventVars, Locs, WaitLocs
    <3>5. HoldMeaning'
      BY <2>1, <2>2, <3>1, BoundAssumption DEF TypeOK, HoldMeaning, Goto
    <3>3. ListMeaning'
      BY <2>1, <2>2, <3>1, NoListStep DEF Locs, WaitLocs
    <3>4. SleepMeaning'
      BY <2>1, <2>2, <2>5, <3>1
      DEF SleepMeaning, TypeOK, Goto, eventVars, WaitLocs, Awakened, Pending
    <3> QED BY <2>3, <3>2, <3>3, <3>4, <3>5
  <2> QED BY <2>4, <2>5
<1>12. ASSUME NEW t \in Threads, WrUnlock(t) PROVE IInv'
  <2> USE <1>12 DEF WrUnlock
  <2>1. pc[t] = "wrunlock" /\ writer = t /\ readers = 0
    BY ReadersCount, NullAssumption DEF HoldMeaning, TypeOK
  <2>2. writer' = NoThread /\ WakeWaiters(t) /\ UNCHANGED <<readers, held, eventVars>>
    BY <2>1
  <2>3. TypeOK'
    BY <2>1, <2>2, WakeWaitersStep, EmptySeq DEF TypeOK, eventVars
  <2>4. HoldMeaning'
    BY <2>1, <2>2, NullAssumption DEF HoldMeaning, TypeOK, WakeWaiters, Goto
  <2>5. ReadersMeaning'
    BY <2>2 DEF ReadersMeaning, Grants
  <2>6. ListMeaning' /\ SleepMeaning'
    BY <2>1, <2>2, WakeWaitersStep DEF SleepMeaning
  <2> QED BY <2>3, <2>4, <2>5, <2>6
<1>13. ASSUME NEW t \in Threads, WakeNext(t) PROVE IInv'
  <2> USE <1>13 DEF WakeNext, Goto, Deposit, lockVars
  <2> DEFINE u == Head(wake[t])
  <2>1. wake[t] \in Seq(Threads) /\ wake[t] # <<>> /\ Simple(wake[t])
    BY DEF TypeOK, ListMeaning
  <2>2. u \in Threads /\ Contains(wake[t], u) /\ ~Contains(Tail(wake[t]), u)
    BY <2>1, PopFront
  <2>3. pc[u] \in WaitLocs /\ ~Contains(queue, u) /\ tokens[u] = 0 /\ u # t
    BY <2>2 DEF ListMeaning, WaitLocs
  <2>4. TypeOK'
    BY <2>1, <2>2, <2>3, PopFront DEF TypeOK, Locs, WaitLocs
  <2>5. HoldMeaning' /\ ReadersMeaning'
    BY DEF HoldMeaning, ReadersMeaning, Grants, TypeOK
  <2>6. /\ wake'[t] = Tail(wake[t]) /\ \A s \in Threads \ {t} : wake'[s] = wake[s]
        /\ pc'[t] = IF Tail(wake[t]) = <<>> THEN "run" ELSE "wakeAll"
        /\ \A s \in Threads \ {t} : pc'[s] = pc[s]
        /\ tokens'[u] = 1 /\ \A s \in Threads \ {u} : tokens'[s] = tokens[s]
    <3>1. Len(wake[t]) = 1 <=> Tail(wake[t]) = <<>>
      BY <2>1, PopFront
    <3>2. wake'[t] = Tail(wake[t]) /\ \A s \in Threads \ {t} : wake'[s] = wake[s]
      BY DEF TypeOK
    <3>3. /\ pc'[t] = IF Len(wake[t]) = 1 THEN "run" ELSE "wakeAll"
          /\ \A s \in Threads \ {t} : pc'[s] = pc[s]
      BY DEF TypeOK
    <3>4. tokens'[u] = 1 /\ \A s \in Threads \ {u} : tokens'[s] = tokens[s]
      BY <2>2, <2>3 DEF TypeOK
    <3> QED BY <3>1, <3>2, <3>3, <3>4
  <2>7. ListMeaning'
    <3>1. \A s \in Threads : Simple(wake'[s]) /\ (wake'[s] # <<>> <=> pc'[s] = "wakeAll")
      BY <2>1, <2>6, PopFront DEF ListMeaning
    <3>2. \A s \in Threads, v \in Threads : Contains(wake'[s], v) => Contains(wake[s], v) /\ v # u
      BY <2>1, <2>2, <2>6, PopFront DEF ListMeaning
    <3>3. \A v \in Threads : pc[v] \in WaitLocs => pc'[v] \in WaitLocs
      BY <2>6 DEF WaitLocs
    <3> QED BY <2>3, <2>6, <3>1, <3>2, <3>3 DEF ListMeaning
  <2>8. SleepMeaning'
    <3>1. ASSUME NEW v \in Threads, pc'[v] \in WaitLocs
          PROVE  Contains(queue, v) \/ Awakened(v)'
      <4>1. Contains(queue, v) \/ tokens[v] > 0 \/ Pending(v)
        BY <2>6, <3>1 DEF SleepMeaning, Awakened, WaitLocs
      <4>2. CASE v = u
        BY <2>6, <4>2 DEF Awakened
      <4>3. CASE v # u
        <5>1. Pending(v) => Pending(v)'
          BY <2>1, <2>6, <4>3, PopFront DEF Pending
        <5> QED BY <2>6, <4>1, <4>3, <5>1 DEF Awakened
      <4> QED BY <4>2, <4>3
    <3> QED BY <3>1 DEF SleepMeaning
  <2> QED BY <2>4, <2>5, <2>7, <2>8
<1>14. CASE UNCHANGED vars
  BY <1>14 DEF vars, lockVars, eventVars, TypeOK, ReadersMeaning, Grants, HoldMeaning,
               ListMeaning, SleepMeaning, Awakened, Pending
<1> QED
  BY <1>1, <1>3, <1>4, <1>5, <1>7, <1>8, <1>9, <1>10, <1>11, <1>12, <1>13, <1>14
  DEF Next, CallStep, Call

(* A writer excludes every reader and every other writer, and the lock's one *)
(* count of readers is zero exactly when no thread has a read lock left.     *)
THEOREM ReadersWriterExclusion == Spec => []Exclusion
<1>1. IInv => Exclusion
  BY ReadersCount DEF IInv, HoldMeaning, Exclusion
<1> QED BY <1>1, InitIInv, NextIInv, PTL DEF Spec

LEMMA LinkedOnceHolds == IInv => LinkedOnce
<1> SUFFICES ASSUME IInv, NEW t \in Threads PROVE Cardinality(Links(t)) <= 1
  BY DEF LinkedOnce
<1>1. ASSUME NEW x \in Links(t), NEW y \in Links(t) PROVE x = y
  <2> DEFINE Queued(z) == \E i \in 1 .. Len(queue) : z = <<NoThread, i>> /\ queue[i] = t
             Listed(z, s) == \E i \in 1 .. Len(wake[s]) : z = <<s, i>> /\ wake[s][i] = t
  <2>1. ASSUME NEW z \in Links(t) PROVE Queued(z) \/ \E s \in Threads : Listed(z, s)
    BY <2>1 DEF Links
  <2>2. ASSUME NEW z, Queued(z) PROVE Contains(queue, t)
    BY <2>2 DEF Contains
  <2>3. ASSUME NEW z, NEW s \in Threads, Listed(z, s) PROVE Contains(wake[s], t)
    BY <2>3 DEF Contains
  <2>4. CASE Queued(x) /\ Queued(y)
    BY <2>4 DEF IInv, ListMeaning, Simple
  <2>5. ASSUME NEW r \in Threads, NEW s \in Threads, Listed(x, r), Listed(y, s) PROVE x = y
    <3>1. r = s
      BY <2>3, <2>5 DEF IInv, ListMeaning
    <3> QED BY <2>5, <3>1 DEF IInv, ListMeaning, Simple
  <2>6. ASSUME NEW s \in Threads, NEW z1, NEW z2, Queued(z1), Listed(z2, s) PROVE FALSE
    BY <2>2, <2>3, <2>6 DEF IInv, ListMeaning
  <2> HIDE DEF Queued, Listed
  <2> QED BY <1>1, <2>1, <2>4, <2>5, <2>6
<1>2. Links(t) = {} \/ \E x : Links(t) = {x}
  BY <1>1
<1>3. Cardinality({}) = 0 /\ \A x : Cardinality({x}) = 1
  BY FS_EmptySet, FS_Singleton
<1>4. CASE Links(t) = {}
  BY <1>3, <1>4
<1>5. ASSUME NEW x, Links(t) = {x} PROVE Cardinality(Links(t)) <= 1
  BY <1>3, <1>5
<1> QED BY <1>2, <1>4, <1>5

(* Nobody sleeps on a free lock: every queued thread has a holder to wait    *)
(* for, every other sleeper gets exactly one wake, and no thread is in two   *)
(* waiter lists.                                                             *)
THEOREM NobodySleepsOnFreeLock == Spec => []NoSleepOnFreeLock
<1>1. IInv => WakePaired
  <2> SUFFICES ASSUME IInv, NEW t \in Threads
               PROVE  /\ Awakened(t) => pc[t] \in WaitLocs /\ ~Contains(queue, t)
                      /\ tokens[t] > 0 => ~Pending(t)
    BY DEF WakePaired
  <2>1. Pending(t) => pc[t] \in WaitLocs /\ ~Contains(queue, t) /\ tokens[t] = 0
    BY DEF IInv, ListMeaning, Pending
  <2>2. tokens[t] > 0 => pc[t] \in WaitLocs /\ ~Contains(queue, t)
    BY DEF IInv, ListMeaning
  <2> QED BY <2>1, <2>2 DEF Awakened
<1>2. IInv => NoSleepOnFreeLock
  BY <1>1, LinkedOnceHolds DEF IInv, NoSleepOnFreeLock, SleepMeaning, DestroyResult
<1> QED BY <1>2, InitIInv, NextIInv, PTL DEF Spec
=============================================================================
