------------------------- MODULE HostServiceProofs -------------------------
(***************************************************************************)
(* Proofs about the two services an enclave calls the host for.             *)
(*                                                                          *)
(* Switchless, for every set of callers, every number of workers, both      *)
(* directions, and calls that cannot be dispatched included: no call is     *)
(* stranded, runs on reused arguments or runs twice, and the worker         *)
(* contexts are freed only when nobody uses them.                           *)
(*                                                                          *)
(* HostFiles, for every host tree, all paths, mount points and sources, and *)
(* every number of threads, mounts and open files: nothing changes through  *)
(* a read-only mount, paths stay below their mount's source, and the host's *)
(* handles are those of the enclave's file objects.                         *)
(***************************************************************************)
EXTENDS Switchless, HostFiles, FiniteSetTheorems, SequenceTheorems, WellFoundedInduction, TLAPS

(***************************************************************************)
(*                            Switchless calls                             *)
(***************************************************************************)

(* Between the decision to sleep and the return to the loop. *)
SleepLocs == {"wait", "futexWait", "asleep", "recheck"}

(* A worker that has taken a call up holds the one its slot names. *)
LocalMeaning ==
    \A w \in Workers :
        wpc[w] \in {"handle", "clear"} => callArg[w] # NoCaller
                                          /\ local[w] = callArg[w]

(* A slot whose call has not been handled belongs to a caller that waits on  *)
(* that very slot, with no result yet.  (Once handled, an ocall's caller may *)
(* be gone, and even have posted to another slot, before this one is         *)
(* cleared.)                                                                 *)
SlotMeaning ==
    \A w \in Workers :
        callArg[w] # NoCaller /\ wpc[w] # "clear"
            => /\ cpc[callArg[w]] \in PostedLocs
               /\ idx[callArg[w]] = w
               /\ result[callArg[w]] = "max"

(* The function of a call has run exactly if the call's result says so, and  *)
(* a caller that still looks for a worker has no result.                     *)
ResultMeaning ==
    \A c \in Callers :
        /\ ran[c] = IF result[c] = "ok" THEN 1 ELSE 0
        /\ cpc[c] \in {"scan", "fallback"} => result[c] = "max"
        /\ cpc[c] \in PostedLocs => idx[c] \in Workers

(* While a worker sleeps or is about to, a clear event means that the        *)
(* caller in its slot has not notified it yet.                               *)
EventClear ==
    \A w \in Workers :
        wpc[w] \in SleepLocs /\ callArg[w] # NoCaller /\ event[w] = 0
            => cpc[callArg[w]] = "event"

(* An event that is set under a sleeping worker has someone on the way to    *)
(* FUTEX_WAKE: a caller, not always the one in the slot, or the manager.     *)
EventSet ==
    \A w \in Workers :
        wpc[w] = "asleep" /\ event[w] = 1
            => \/ mgr = "futexWake" /\ midx = w
               \/ \E c \in Callers :
                     cpc[c] \in {"store", "futexWake"} /\ idx[c] = w

(* The shutdown starts when no call is in progress. *)
StopMeaning ==
    /\ mgr # "up" => \A c \in Callers : cpc[c] = "run"
    /\ mgr = "down" => \A w \in Workers : wpc[w] = "exit"

IInv ==
    /\ TypeOK
    /\ LocalMeaning
    /\ SlotMeaning
    /\ ResultMeaning
    /\ EventClear
    /\ EventSet
    /\ StopMeaning

-----------------------------------------------------------------------------
(* The invariant holds at the start. *)
LEMMA InitIInv == Init => IInv
<1>1. Init => dir \in {"ocall", "ecall"}
  BY ModeAssumption, Zenon DEF Init
<1> QED
  BY <1>1, CallerAssumption, WorkerAssumption
  DEF Init, IInv, TypeOK, LocalMeaning, SlotMeaning, ResultMeaning, EventClear,
      EventSet, StopMeaning, Workers, PostedLocs, SleepLocs

(* The steps of a caller. *)
LEMMA CallerIInv ==
    ASSUME IInv, NEW c \in Callers, Begin(c) \/ CallerStep(c) PROVE IInv'
<1> USE CallerAssumption, WorkerAssumption
    DEF IInv, TypeOK, LocalMeaning, SlotMeaning, ResultMeaning, EventClear,
        EventSet, StopMeaning, Workers, PostedLocs, SleepLocs, GotoC,
        ctxVars, workerVars, mgrVars
<1>1. CASE Begin(c)
  <2>1. TypeOK'
    <3>1. PICK b \in {FALSE, BadDispatch} : bad' = [bad EXCEPT ![c] = b]
      BY <1>1 DEF Begin
    <3>2. b \in BOOLEAN
      BY <3>1, ModeAssumption, Zenon
    <3> QED BY <1>1, <3>1, <3>2 DEF Begin
  <2>2. LocalMeaning'
    BY <1>1 DEF Begin
  <2>3. SlotMeaning'
    BY <1>1 DEF Begin
  <2>4. ResultMeaning'
    BY <1>1 DEF Begin
  <2>5. EventClear'
    BY <1>1 DEF Begin
  <2>6. EventSet'
    BY <1>1 DEF Begin
  <2>7. StopMeaning'
    BY <1>1 DEF Begin
  <2> QED BY <2>1, <2>2, <2>3, <2>4, <2>5, <2>6, <2>7
<1>2. CASE Grab(c)
  <2> DEFINE i == idx[c]
  <2>1. i \in Workers /\ cpc[c] = "scan"
    BY <1>2 DEF Grab
  <2>2. CASE callArg[i] = NoCaller
    <3>1. /\ callArg' = [callArg EXCEPT ![i] = c]
          /\ cpc' = [cpc EXCEPT ![c] = "event"]
          /\ UNCHANGED <<event, stopping, wpc, local, idx, result, bad, ran,
                         mgr, midx, dir>>
      BY <1>2, <2>2 DEF Grab
    <3>2. TypeOK'
      BY <2>1, <3>1
    <3>3. LocalMeaning' /\ ResultMeaning' /\ StopMeaning'
      BY <2>1, <2>2, <3>1
    <3>4. SlotMeaning' /\ EventClear'
      BY <2>1, <2>2, <3>1
    <3>5. EventSet'
      <4>1. \A d \in Callers :
              cpc[d] \in {"store", "futexWake"} => cpc'[d] = cpc[d]
        BY <2>1, <3>1
      <4> QED BY <3>1, <4>1
    <3> QED BY <3>2, <3>3, <3>4, <3>5
  <2>3. CASE callArg[i] # NoCaller
    <3>1. /\ idx' = [idx EXCEPT ![c] = @ - 1]
          /\ UNCHANGED <<callArg, cpc, event, stopping, wpc, local, result, bad,
                         ran, mgr, midx, dir>>
      BY <1>2, <2>1, <2>3 DEF Grab
    <3>2. TypeOK'
      BY <2>1, <3>1
    <3>3. LocalMeaning' /\ SlotMeaning' /\ ResultMeaning' /\ EventClear' /\ StopMeaning'
      BY <2>1, <3>1
    <3>4. EventSet'
      BY <2>1, <3>1
    <3> QED BY <3>2, <3>3, <3>4
  <2> QED BY <2>2, <2>3
<1>3. CASE Missed(c)
  BY <1>3 DEF Missed
<1>4. CASE Fallback(c)
  BY <1>4 DEF Fallback
<1>5. CASE Notify(c)
  <2>1. TypeOK'
    BY <1>5 DEF Notify
  <2>2. LocalMeaning'
    BY <1>5 DEF Notify
  <2>3. SlotMeaning'
    BY <1>5 DEF Notify
  <2>4. ResultMeaning'
    BY <1>5 DEF Notify
  <2>5. EventClear'
    BY <1>5 DEF Notify
  <2>6. EventSet'
    <3> SUFFICES ASSUME NEW w \in Workers, wpc[w] = "asleep", event'[w] = 1
                 PROVE  \/ mgr = "futexWake" /\ midx = w
                        \/ \E d \in Callers :
                              cpc'[d] \in {"store", "futexWake"} /\ idx[d] = w
      BY <1>5 DEF Notify
    <3>1. CASE event[w] = 1
      BY <1>5, <3>1 DEF Notify
    <3>2. CASE event[w] = 0
      BY <1>5, <3>2 DEF Notify
    <3> QED BY <3>1, <3>2
  <2>7. StopMeaning'
    BY <1>5 DEF Notify
  <2> QED BY <2>1, <2>2, <2>3, <2>4, <2>5, <2>6, <2>7
<1>6. CASE WakeStore(c)
  BY <1>6 DEF WakeStore
<1>7. CASE WakeFutex(c)
  BY <1>7 DEF WakeFutex, FutexWakeWorker
<1>8. CASE Return(c)
  <2>1. TypeOK'
    BY <1>8 DEF Return, Answered
  <2>2. LocalMeaning'
    BY <1>8 DEF Return, Answered
  <2>3. SlotMeaning'
    BY <1>8 DEF Return, Answered
  <2>4. ResultMeaning'
    BY <1>8 DEF Return, Answered
  <2>5. EventClear'
    BY <1>8 DEF Return, Answered
  <2>6. EventSet'
    <3>1. \A d \in Callers : cpc[d] \in {"store", "futexWake"} => cpc'[d] = cpc[d]
      BY <1>8 DEF Return
    <3> QED BY <1>8, <3>1 DEF Return
  <2>7. StopMeaning'
    BY <1>8 DEF Return, Answered
  <2> QED BY <2>1, <2>2, <2>3, <2>4, <2>5, <2>6, <2>7
<1> QED
  BY <1>1, <1>2, <1>3, <1>4, <1>5, <1>6, <1>7, <1>8 DEF CallerStep

(* The steps of a worker. *)
LEMMA WorkerIInv ==
    ASSUME IInv, NEW w \in Workers, WorkerStep(w) \/ SpuriousWake(w) PROVE IInv'
<1> USE CallerAssumption, WorkerAssumption
    DEF IInv, TypeOK, LocalMeaning, SlotMeaning, ResultMeaning, EventClear,
        EventSet, StopMeaning, PostedLocs, SleepLocs, GotoW,
        ctxVars, callerVars, mgrVars
<1>1. CASE TestStopping(w)
  BY <1>1 DEF TestStopping
<1>2. CASE ReadSlot(w)
  BY <1>2 DEF ReadSlot
<1>3. CASE Handle(w)
  BY <1>3 DEF Handle, Dispatchable
<1>4. CASE Clear(w)
  BY <1>4 DEF Clear
<1>5. CASE WaitSwap(w)
  BY <1>5 DEF WaitSwap
<1>6. CASE WaitFutex(w)
  BY <1>6 DEF WaitFutex
<1>7. CASE WaitRecheck(w)
  BY <1>7 DEF WaitRecheck
<1>8. CASE SpuriousWake(w)
  BY <1>8 DEF SpuriousWake
<1> QED
  BY <1>1, <1>2, <1>3, <1>4, <1>5, <1>6, <1>7, <1>8 DEF WorkerStep

(* The steps of the shutdown. *)
LEMMA StopIInv == ASSUME IInv, Stop \/ StopStep PROVE IInv'
<1> USE CallerAssumption, WorkerAssumption
    DEF IInv, TypeOK, LocalMeaning, SlotMeaning, ResultMeaning, EventClear,
        EventSet, StopMeaning, Workers, PostedLocs, SleepLocs,
        ctxVars, workerVars, callerVars
<1>1. CASE Stop
  BY <1>1 DEF Stop
<1>2. CASE StopFlag
  BY <1>2 DEF StopFlag
<1>3. CASE StopStore
  BY <1>3 DEF StopStore
<1>4. CASE StopFutex
  BY <1>4 DEF StopFutex, FutexWakeWorker
<1>5. CASE JoinAll
  BY <1>5 DEF JoinAll
<1> QED
  BY <1>1, <1>2, <1>3, <1>4, <1>5 DEF StopStep

(* Every step keeps it. *)
LEMMA NextIInv == IInv /\ [Next]_vars => IInv'
<1> SUFFICES ASSUME IInv, [Next]_vars PROVE IInv'
  OBVIOUS
<1>1. CASE UNCHANGED vars
  BY <1>1 DEF vars, ctxVars, workerVars, callerVars, mgrVars, IInv, TypeOK,
      LocalMeaning, SlotMeaning, ResultMeaning, EventClear, EventSet, StopMeaning
<1>2. CASE Terminated
  BY <1>1, <1>2 DEF Terminated
<1> QED
  BY <1>1, <1>2, CallerIInv, WorkerIInv, StopIInv DEF Next

(* A worker asleep with a call in its slot will be woken. *)
LEMMA IInvNoStrandedCall == IInv => NoStrandedCall
  BY DEF IInv, TypeOK, SlotMeaning, EventClear, EventSet, StopMeaning,
      NoStrandedCall, PostedLocs, SleepLocs

(* A worker never runs on arguments that are not those of its call. *)
LEMMA IInvNoStaleArgs == IInv => NoStaleArgs
  BY DEF IInv, TypeOK, LocalMeaning, SlotMeaning, ResultMeaning, NoStaleArgs

(* The contexts are freed when nobody uses them. *)
LEMMA IInvFreedUnused == IInv => FreedUnused
  BY DEF IInv, TypeOK, SlotMeaning, StopMeaning, FreedUnused, PostedLocs

-----------------------------------------------------------------------------
(* The worker contexts, the callers and the manager keep their types; no     *)
(* function is run twice for one call.                                       *)
THEOREM TypeCorrect == Spec => []TypeOK
  BY InitIInv, NextIInv, PTL DEF Spec, IInv

(* A worker that went to sleep while a call was posted to it is always       *)
(* about to be woken, by the poster or by another caller.                    *)
THEOREM NoCallIsStranded == Spec => []NoStrandedCall
  BY InitIInv, NextIInv, IInvNoStrandedCall, PTL DEF Spec

(* A worker handles a call only while its caller still waits for it.         *)
THEOREM ArgsAreLive == Spec => []NoStaleArgs
  BY InitIInv, NextIInv, IInvNoStaleArgs, PTL DEF Spec

(* A switchless call that succeeds has run exactly once, a failed one never. *)
THEOREM RunsExactlyOnce == Spec => []ExactlyOnce
<1>1. IInv => ExactlyOnce
  BY DEF IInv, ResultMeaning, ExactlyOnce
<1> QED
  BY <1>1, InitIInv, NextIInv, PTL DEF Spec

(* oe_stop_switchless_manager frees contexts nobody uses any more.           *)
THEOREM FreesUnused == Spec => []FreedUnused
  BY InitIInv, NextIInv, IInvFreedUnused, PTL DEF Spec

(***************************************************************************)
(*                         Files and directories                           *)
(***************************************************************************)

Paths == Seq(STRING)

(* A set of numbers has a least one. *)
LEMMA MinExists ==
  ASSUME NEW S, S \subseteq Nat, S # {}
  PROVE  Min(S) \in S /\ \A y \in S : Min(S) <= y
<1>1. PICK R : R = OpToRel(<, Nat) /\ IsWellFoundedOn(R, Nat)
  BY NatLessThanWellFounded
<1>2. R = {ss \in Nat \X Nat : ss[1] < ss[2]}
  BY <1>1 DEF OpToRel
<1>3. PICK x \in S : \A y \in S : ~ (<<y, x>> \in R)
  BY <1>1, WFMin
<1>4. ASSUME NEW y \in S PROVE x <= y
  <2>1. x \in Nat /\ y \in Nat
    OBVIOUS
  <2>2. y < x => <<y, x>> \in R
    BY <1>2, <2>1
  <2> QED BY <1>3, <2>1, <2>2
<1> QED BY <1>4 DEF Min

(* Front drops the last element. *)
LEMMA FrontFacts ==
  ASSUME NEW S, NEW s \in Seq(S), s # <<>>
  PROVE  /\ Front(s) \in Seq(S) /\ Len(s) \in Nat \ {0} /\ Len(Front(s)) = Len(s) - 1
         /\ \A i \in 1 .. Len(s) - 1 : Front(s)[i] = s[i]
<1>1. Len(s) \in Nat \ {0}
  BY EmptySeq, LenProperties
<1>2. \A i \in 1 .. Len(s) - 1 : s[i] \in S
  BY <1>1, ElementOfSeq
<1>3. 1 \in Int /\ Len(s) - 1 \in Int
  BY <1>1
<1>4. /\ SubSeq(s, 1, Len(s) - 1) \in Seq(S)
      /\ Len(SubSeq(s, 1, Len(s) - 1)) = IF 1 <= Len(s) - 1 THEN Len(s) - 1 - 1 + 1 ELSE 0
      /\ \A i \in 1 .. Len(s) - 1 - 1 + 1 : SubSeq(s, 1, Len(s) - 1)[i] = s[1 + i - 1]
  BY <1>2, <1>3, SubSeqProperties
<1>5. Len(SubSeq(s, 1, Len(s) - 1)) = Len(s) - 1
  <2>1. PICK l : l = Len(s) /\ l \in Nat \ {0}
    BY <1>1
  <2>2. Len(SubSeq(s, 1, Len(s) - 1)) = IF 1 <= l - 1 THEN l - 1 - 1 + 1 ELSE 0
    BY <1>4, <2>1
  <2> QED BY <2>1, <2>2
<1>6. \A i \in 1 .. Len(s) - 1 : SubSeq(s, 1, Len(s) - 1)[i] = s[i]
  BY <1>1, <1>4
<1> QED BY <1>1, <1>4, <1>5, <1>6 DEF Front

(* A prefix, element by element. *)
LEMMA PrefixFacts ==
  ASSUME NEW S, NEW p \in Seq(S), NEW q \in Seq(S)
  PROVE  IsPrefix(p, q) <=> Len(p) <= Len(q) /\ \A i \in 1 .. Len(p) : p[i] = q[i]
<1>1. Len(p) \in Nat /\ Len(q) \in Nat
  BY LenProperties
<1>2. SubSeq(p, 1, Len(p)) = p
  BY SubSeqFull
<1>3. ASSUME Len(p) <= Len(q)
      PROVE  /\ SubSeq(q, 1, Len(p)) \in Seq(S) /\ Len(SubSeq(q, 1, Len(p))) = Len(p)
             /\ \A i \in 1 .. Len(p) : SubSeq(q, 1, Len(p))[i] = q[i]
  <2>1. \A i \in 1 .. Len(p) : q[i] \in S
    BY <1>1, <1>3, ElementOfSeq
  <2> QED BY <1>1, <1>3, <2>1, SubSeqProperties
<1>4. ASSUME Len(p) <= Len(q), \A i \in 1 .. Len(p) : p[i] = q[i]
      PROVE  p = SubSeq(q, 1, Len(p))
  BY <1>1, <1>3, <1>4, SeqEqual
<1> QED BY <1>2, <1>3, <1>4 DEF IsPrefix

(* The rest of a path below a prefix of it. *)
LEMMA RestFacts ==
  ASSUME NEW S, NEW s \in Seq(S), NEW n \in 0 .. Len(s)
  PROVE  /\ SubSeq(s, n + 1, Len(s)) \in Seq(S)
         /\ Len(SubSeq(s, n + 1, Len(s))) = Len(s) - n
         /\ \A i \in 1 .. Len(s) - n : SubSeq(s, n + 1, Len(s))[i] = s[n + i]
<1>1. Len(s) \in Nat
  BY LenProperties
<1>2. \A i \in n + 1 .. Len(s) : s[i] \in S
  BY <1>1, ElementOfSeq
<1>3. n + 1 \in Int /\ Len(s) \in Int
  BY <1>1
<1>4. /\ SubSeq(s, n + 1, Len(s)) \in Seq(S)
      /\ Len(SubSeq(s, n + 1, Len(s))) = IF n + 1 <= Len(s) THEN Len(s) - (n + 1) + 1 ELSE 0
      /\ \A i \in 1 .. Len(s) - (n + 1) + 1 : SubSeq(s, n + 1, Len(s))[i] = s[n + 1 + i - 1]
  BY <1>2, <1>3, SubSeqProperties
<1>5. Len(SubSeq(s, n + 1, Len(s))) = Len(s) - n
  BY <1>1, <1>4
<1>6. \A i \in 1 .. Len(s) - n : SubSeq(s, n + 1, Len(s))[i] = s[n + i]
  BY <1>1, <1>4
<1> QED BY <1>4, <1>5, <1>6

(* In a tree in which every path but the root is in a directory, whatever a   *)
(* path of the tree goes through is a directory of the tree.                  *)
LEMMA AboveIsDir ==
  ASSUME DOMAIN tree \subseteq Paths,
         \A p \in DOMAIN tree : p # <<>> => IsDir(Front(p)),
         NEW q \in Paths, NEW r \in DOMAIN tree, IsPrefix(q, r), q # r
  PROVE  IsDir(q)
<1>0. r \in Paths
  OBVIOUS
<1>1. /\ Len(q) \in Nat /\ Len(r) \in Nat /\ Len(q) <= Len(r)
      /\ \A i \in 1 .. Len(q) : q[i] = r[i]
  BY <1>0, PrefixFacts, LenProperties DEF Paths
<1>2. Len(q) < Len(r)
  <2>1. Len(q) # Len(r)
    BY <1>0, <1>1, SeqEqual DEF Paths
  <2> QED BY <1>1, <2>1
<1> DEFINE Cut(k) == SubSeq(r, 1, k)
<1>3. ASSUME NEW k \in 0 .. Len(r)
      PROVE  Cut(k) \in Paths /\ Len(Cut(k)) = k /\ \A i \in 1 .. k : Cut(k)[i] = r[i]
  <2>1. \A i \in 1 .. k : r[i] \in STRING
    BY <1>0, <1>1, <1>3, ElementOfSeq DEF Paths
  <2>2. 1 \in Int /\ k \in Int
    BY <1>1
  <2>3. /\ SubSeq(r, 1, k) \in Seq(STRING)
        /\ Len(SubSeq(r, 1, k)) = IF 1 <= k THEN k - 1 + 1 ELSE 0
        /\ \A i \in 1 .. k - 1 + 1 : SubSeq(r, 1, k)[i] = r[1 + i - 1]
    BY <2>1, <2>2, SubSeqProperties
  <2> QED BY <1>1, <2>3 DEF Paths
<1> HIDE DEF Cut
<1> DEFINE Good == {k \in Nat : Len(q) < k /\ k <= Len(r) /\ Cut(k) \in DOMAIN tree}
<1>4. Len(r) \in Good
  <2>1. Cut(Len(r)) = r
    BY <1>0, SubSeqFull DEF Cut, Paths
  <2> QED BY <1>1, <1>2, <2>1
<1>5. PICK k : k = Min(Good)
  OBVIOUS
<1>6. k \in Good /\ \A y \in Good : k <= y
  BY <1>4, <1>5, MinExists
<1> HIDE DEF Good
<1>7. k \in Nat /\ Len(q) < k /\ k <= Len(r) /\ Cut(k) \in DOMAIN tree
  BY <1>6 DEF Good
<1>8. k - 1 \in 0 .. Len(r) /\ k \in 0 .. Len(r)
  BY <1>1, <1>7
<1>9. Cut(k) # <<>>
  BY <1>3, <1>7, <1>8, EmptySeq DEF Paths
<1>10. Front(Cut(k)) = Cut(k - 1)
  <2>1. /\ Front(Cut(k)) \in Paths /\ Len(Front(Cut(k))) = k - 1
        /\ \A i \in 1 .. k - 1 : Front(Cut(k))[i] = Cut(k)[i]
    BY <1>3, <1>8, <1>9, FrontFacts DEF Paths
  <2>2. /\ Cut(k - 1) \in Paths /\ Len(Cut(k - 1)) = k - 1
        /\ \A i \in 1 .. k - 1 : Cut(k - 1)[i] = r[i]
    BY <1>3, <1>8
  <2>3. \A i \in 1 .. k - 1 : Cut(k)[i] = r[i]
    BY <1>3, <1>7, <1>8
  <2> QED BY <2>1, <2>2, <2>3, SeqEqual DEF Paths
<1>11. IsDir(Cut(k - 1))
  BY <1>7, <1>9, <1>10
<1>12. Len(q) = k - 1
  <2>1. Cut(k - 1) \in DOMAIN tree
    BY <1>11 DEF IsDir, Exists
  <2>2. k - 1 \notin Good
    BY <1>6, <1>7
  <2> QED BY <1>1, <1>7, <2>1, <2>2 DEF Good
<1>13. Cut(k - 1) = q
  <2>1. /\ Cut(k - 1) \in Paths /\ Len(Cut(k - 1)) = Len(q)
        /\ \A i \in 1 .. Len(q) : Cut(k - 1)[i] = q[i]
    BY <1>1, <1>3, <1>8, <1>12
  <2> QED BY <2>1, SeqEqual DEF Paths
<1> QED BY <1>11, <1>13

(* The names a path is made of once it has been normalized. *)
Names == STRING \ {".", ".."}

(* One turn of the loop of oe_realpath appends a name or takes one away. *)
LEMMA NormalizeFacts ==
  ASSUME NEW out \in Seq(Names), NEW e \in STRING
  PROVE  Normalize(out, e) \in Seq(Names)
<1>1. CASE e = "."
  BY <1>1 DEF Normalize
<1>2. CASE e = ".." /\ out = <<>>
  BY <1>2 DEF Normalize
<1>3. CASE e = ".." /\ out # <<>>
  <2>1. Front(out) \in Seq(Names)
    BY <1>3, FrontFacts
  <2> QED BY <1>3, <2>1 DEF Normalize
<1>4. CASE e \notin {".", ".."}
  <2>1. Append(out, e) \in Seq(Names)
    BY <1>4, AppendProperties DEF Names
  <2> QED BY <1>4, <2>1 DEF Normalize
<1> QED BY <1>1, <1>2, <1>3, <1>4

(* The loop of oe_realpath over the elements e, after n turns. *)
Walks(e, out, n) == out = [k \in 0 .. n |-> IF k = 0 THEN <<>> ELSE Normalize(out[k - 1], e[k])]

(* There is such a function for every number of turns: if not, take the least *)
(* number for which there is none.                                            *)
LEMMA WalksExist ==
  ASSUME NEW e, NEW n \in Nat
  PROVE  \E out : Walks(e, out, n)
<1> DEFINE Bad == {m \in Nat : ~ \E f : Walks(e, f, m)}
<1>1. SUFFICES ASSUME Bad # {} PROVE FALSE
  OBVIOUS
<1>2. PICK m : m = Min(Bad)
  OBVIOUS
<1>3. m \in Bad /\ \A y \in Bad : m <= y
  BY <1>1, <1>2, MinExists
<1> HIDE DEF Bad
<1>4. m \in Nat /\ ~ \E f : Walks(e, f, m)
  BY <1>3 DEF Bad
<1>5. m # 0
  <2>1. PICK f : f = [k \in 0 .. 0 |-> <<>>]
    OBVIOUS
  <2>2. Walks(e, f, 0)
    <3>1. \A k \in 0 .. 0 : k = 0
      OBVIOUS
    <3>2. [k \in 0 .. 0 |-> <<>>] = [k \in 0 .. 0 |-> IF k = 0 THEN <<>> ELSE Normalize(f[k - 1], e[k])]
      BY <3>1, Zenon
    <3> QED BY <2>1, <3>2, Zenon DEF Walks
  <2> QED BY <1>4, <2>2
<1>6. m - 1 \in Nat /\ m - 1 \notin Bad
  BY <1>3, <1>4, <1>5
<1>7. PICK f : Walks(e, f, m - 1)
  BY <1>6 DEF Bad
<1>8. PICK g : g = [k \in 0 .. m |-> IF k = m THEN Normalize(f[m - 1], e[m]) ELSE f[k]]
  OBVIOUS
<1>9. Walks(e, g, m)
  <2>1. ASSUME NEW k \in 0 .. m
        PROVE  g[k] = IF k = 0 THEN <<>> ELSE Normalize(g[k - 1], e[k])
    <3>1. CASE k = m
      BY <1>4, <1>5, <1>6, <1>8, <3>1
    <3>2. CASE k # m
      <4>1. k \in 0 .. m - 1 /\ (k # 0 => k - 1 \in 0 .. m /\ k - 1 # m)
        BY <1>4, <3>2
      <4>2. f[k] = IF k = 0 THEN <<>> ELSE Normalize(f[k - 1], e[k])
        <5> DEFINE F == [j \in 0 .. m - 1 |-> IF j = 0 THEN <<>> ELSE Normalize(f[j - 1], e[j])]
        <5>1. f = F
          BY <1>7, Zenon DEF Walks
        <5>2. F[k] = IF k = 0 THEN <<>> ELSE Normalize(f[k - 1], e[k])
          BY <4>1, Zenon
        <5> HIDE DEF F
        <5> QED BY <5>1, <5>2, Zenon
      <4>3. g[k] = f[k] /\ (k # 0 => g[k - 1] = f[k - 1])
        BY <1>8, <3>2, <4>1
      <4>4. CASE k = 0
        BY <4>2, <4>3, <4>4
      <4>5. CASE k # 0
        BY <4>2, <4>3, <4>5, Zenon
      <4> QED BY <4>4, <4>5
    <3> QED BY <3>1, <3>2
  <2>2. g = [k \in 0 .. m |-> g[k]]
    BY <1>8
  <2>3. [k \in 0 .. m |-> g[k]] = [k \in 0 .. m |-> IF k = 0 THEN <<>> ELSE Normalize(g[k - 1], e[k])]
    BY <2>1, Zenon
  <2> QED BY <2>2, <2>3, Zenon DEF Walks
<1> QED BY <1>4, <1>9

(* One turn of the loop. *)
LEMMA WalkStep ==
  ASSUME NEW e, NEW n \in Nat, NEW f, Walks(e, f, n), NEW k \in 0 .. n
  PROVE  f[k] = IF k = 0 THEN <<>> ELSE Normalize(f[k - 1], e[k])
<1> DEFINE F == [j \in 0 .. n |-> IF j = 0 THEN <<>> ELSE Normalize(f[j - 1], e[j])]
<1>1. f = F
  BY Zenon DEF Walks
<1>2. F[k] = IF k = 0 THEN <<>> ELSE Normalize(f[k - 1], e[k])
  BY Zenon
<1> HIDE DEF F
<1> QED BY <1>1, <1>2, Zenon

(* What the loop has made of the elements it has gone through. *)
LEMMA WalkNames ==
  ASSUME NEW e \in Paths, NEW f, Walks(e, f, Len(e)), NEW n \in 0 .. Len(e)
  PROVE  f[n] \in Seq(Names)
<1> DEFINE Bad == {m \in Nat : m <= Len(e) /\ f[m] \notin Seq(Names)}
<1>0. Len(e) \in Nat
  BY LenProperties DEF Paths
<1>1. SUFFICES ASSUME Bad # {} PROVE FALSE
  BY <1>0
<1>2. PICK m : m = Min(Bad)
  OBVIOUS
<1>3. m \in Bad /\ \A y \in Bad : m <= y
  BY <1>1, <1>2, MinExists
<1> HIDE DEF Bad
<1>4. m \in 0 .. Len(e) /\ f[m] \notin Seq(Names)
  BY <1>0, <1>3 DEF Bad
<1>5. f[m] = IF m = 0 THEN <<>> ELSE Normalize(f[m - 1], e[m])
  BY <1>0, <1>4, WalkStep
<1>6. CASE m = 0
  BY <1>4, <1>5, <1>6, EmptySeq
<1>7. CASE m # 0
  <2>1. m - 1 \in Nat /\ m - 1 <= Len(e) /\ m \in 1 .. Len(e) /\ ~ (m <= m - 1)
    BY <1>0, <1>4, <1>7
  <2>2. f[m - 1] \in Seq(Names)
    BY <1>3, <2>1 DEF Bad
  <2>3. e[m] \in STRING
    BY <2>1, ElementOfSeq DEF Paths
  <2> QED BY <1>4, <1>5, <1>7, <2>2, <2>3, NormalizeFacts
<1> QED BY <1>6, <1>7

(* What oe_realpath returns is made of names alone, however often the path    *)
(* goes up.                                                                   *)
LEMMA RealPathFacts ==
  ASSUME NEW from \in Paths, NEW p \in [abs : BOOLEAN, elems : Paths]
  PROVE  oe_realpath(from, p) \in Seq(Names)
<1>1. PICK e : e = IF p.abs THEN p.elems ELSE from \o p.elems
  OBVIOUS
<1>2. e \in Paths /\ Len(e) \in Nat
  BY <1>1, ConcatProperties, LenProperties DEF Paths
<1>3. PICK f : f = CHOOSE g : Walks(e, g, Len(e))
  OBVIOUS
<1>4. Walks(e, f, Len(e))
  BY <1>2, <1>3, WalksExist, Zenon
<1>5. oe_realpath(from, p) = f[Len(e)]
  BY <1>1, <1>3, Zenon DEF oe_realpath, Walks
<1>6. Len(e) \in 0 .. Len(e)
  BY <1>2
<1> QED BY <1>2, <1>4, <1>5, <1>6, WalkNames

(* A sequence of names is a path. *)
LEMMA NamesArePaths ==
  ASSUME NEW s \in Seq(Names)
  PROVE  s \in Paths
BY SeqMonotonic DEF Names, Paths

Mount == [path : Paths, source : Paths, ro : BOOLEAN]
Flags == [write : BOOLEAN, creat : BOOLEAN, trunc : BOOLEAN]
Object == [h : 1 .. MaxFiles + 1, ino : 1 .. MaxNodes, write : BOOLEAN, dir : BOOLEAN, ro : BOOLEAN]

(* A tree and its inodes: every path but the root is in a directory. *)
GoodTree(tr, nd) ==
    /\ DOMAIN tr \subseteq Paths /\ tr \in [DOMAIN tr -> 1 .. MaxNodes]
    /\ nd \in [1 .. MaxNodes -> {"dir", "file", "data"}]
    /\ \A p \in DOMAIN tr : p # <<>> => Front(p) \in DOMAIN tr /\ nd[tr[Front(p)]] = "dir"

MountsGood ==
    /\ mounts \in Seq(Mount) /\ Len(mounts) <= MaxMounts
    /\ \A i, j \in 1 .. Len(mounts) : mounts[i].path = mounts[j].path => i = j

(* A call knows the mount it resolved by value; the paths it will hand to the *)
(* host are below that mount's source.                                        *)
ResolvedOne(o) ==
    \E k \in PathKinds \cup PairKinds, m \in Mount, fl \in Flags, path \in Paths, host \in Paths :
        /\ BelowSource(m, host)
        /\ o = [kind |-> k, m |-> m, flags |-> fl, path |-> path, host |-> host]
ResolvedTwo(o) ==
    \E k \in {"rename2", "link2"}, m \in Mount, host \in Paths, new \in Paths :
        /\ BelowSource(m, host) /\ BelowSource(m, new)
        /\ o = [kind |-> k, m |-> m, host |-> host, new |-> new]
CallGood(o) ==
    \/ o = Idle
    \/ \E m \in Mount : o = [kind |-> "mount", m |-> m]
    \/ ResolvedOne(o)
    \/ ResolvedTwo(o)
CallsGood == op \in [Threads -> {op[t] : t \in Threads}] /\ \A t \in Threads : CallGood(op[t])

(* A file that is not a directory has an inode that is none, and one open for *)
(* writing did not come from a read-only mount.                               *)
ObjectsGood ==
    /\ files \subseteq Object /\ IsFiniteSet(files) /\ Cardinality(files) <= MaxFiles
    /\ \A f \in files : (~f.dir => nodes[f.ino] # "dir") /\ (f.write => ~f.ro)
    /\ \A f, g \in files : f.h = g.h => f = g
    /\ handles = {f.h : f \in files}

(* The inductive invariant. *)
FilesInv ==
    /\ MountsGood /\ cwd \in Paths /\ CallsGood
    /\ GoodTree(tree, nodes) /\ ObjectsGood
    /\ roChanged = FALSE

(* It implies the property. *)
LEMMA FilesInvSound == FilesInv => FilesSound
<1> SUFFICES ASSUME FilesInv PROVE FilesSound
  OBVIOUS
<1>1. DOMAIN mounts = 1 .. Len(mounts)
  BY LenProperties DEF FilesInv, MountsGood
<1>2. FilesTypeOK
  BY <1>1 DEF FilesInv, MountsGood, GoodTree, ObjectsGood, FilesTypeOK, IsDir, Exists
<1>3. ASSUME NEW t \in Threads
      PROVE  /\ op[t].kind \in PathKinds \cup PairKinds \cup {"rename2", "link2"} =>
                  BelowSource(op[t].m, op[t].host)
             /\ op[t].kind \in {"rename2", "link2"} => BelowSource(op[t].m, op[t].new)
  <2>1. CallGood(op[t])
    BY DEF FilesInv, CallsGood
  <2>2. CASE op[t] = Idle
    BY <2>2 DEF Idle, PathKinds, PairKinds
  <2>3. CASE \E m \in Mount : op[t] = [kind |-> "mount", m |-> m]
    <3>1. op[t].kind = "mount"
      BY <2>3
    <3> QED BY <3>1 DEF PathKinds, PairKinds
  <2>4. CASE ResolvedOne(op[t])
    <3>1. PICK k \in PathKinds \cup PairKinds, m \in Mount, fl \in Flags, path \in Paths, host \in Paths :
             /\ BelowSource(m, host)
             /\ op[t] = [kind |-> k, m |-> m, flags |-> fl, path |-> path, host |-> host]
      BY <2>4 DEF ResolvedOne
    <3>2. op[t].kind = k /\ op[t].m = m /\ op[t].host = host
      BY <3>1
    <3> QED BY <3>1, <3>2 DEF PathKinds, PairKinds
  <2>5. CASE ResolvedTwo(op[t])
    <3>1. PICK k \in {"rename2", "link2"}, m \in Mount, host \in Paths, new \in Paths :
             /\ BelowSource(m, host) /\ BelowSource(m, new)
             /\ op[t] = [kind |-> k, m |-> m, host |-> host, new |-> new]
      BY <2>5 DEF ResolvedTwo
    <3>2. op[t].m = m /\ op[t].host = host /\ op[t].new = new
      BY <3>1
    <3> QED BY <3>1, <3>2
  <2> QED BY <2>1, <2>2, <2>3, <2>4, <2>5 DEF CallGood
<1>4. PathsBelowSource
  BY <1>3 DEF PathsBelowSource
<1> QED BY <1>2, <1>4 DEF FilesInv, ObjectsGood, FilesSound

-----------------------------------------------------------------------------
(* The tree.                                                                 *)

(* A free inode, when not all are in use. *)
LEMMA FreeNodeFacts ==
  ASSUME FilesInv, InUse # 1 .. MaxNodes
  PROVE  FreeNode \in 1 .. MaxNodes /\ FreeNode \notin InUse
<1>1. InUse \subseteq 1 .. MaxNodes
  BY DEF FilesInv, GoodTree, ObjectsGood, Object, InUse
<1>2. \E n \in 1 .. MaxNodes : n \notin InUse
  BY <1>1
<1> QED BY <1>2 DEF FreeNode

(* Inodes change, but no directory of the tree. *)
LEMMA NodesChanged ==
  ASSUME NEW tr, NEW nd, GoodTree(tr, nd), NEW n \in 1 .. MaxNodes, NEW k \in {"dir", "file", "data"},
         (\E p \in DOMAIN tr : tr[p] = n) => nd[n] # "dir"
  PROVE  GoodTree(tr, [nd EXCEPT ![n] = k])
BY DEF GoodTree

(* A new path in an existing directory. *)
LEMMA TreeExtended ==
  ASSUME GoodTree(tree, nodes), NEW p \in Paths, p # <<>>, Parent(p), ~Exists(p), NEW n \in 1 .. MaxNodes
  PROVE  GoodTree(Extended(p, n), nodes)
<1>1. PICK tr : tr = Extended(p, n)
  OBVIOUS
<1>2. DOMAIN tr = DOMAIN tree \cup {p} /\ tr[p] = n /\ \A q \in DOMAIN tree : q # p => tr[q] = tree[q]
  BY <1>1 DEF Extended
<1>3. tr \in [DOMAIN tr -> 1 .. MaxNodes]
  BY <1>1 DEF Extended, GoodTree
<1>4. ASSUME NEW q \in DOMAIN tr, q # <<>>
      PROVE  Front(q) \in DOMAIN tr /\ nodes[tr[Front(q)]] = "dir"
  <2>1. Front(q) \in DOMAIN tree /\ nodes[tree[Front(q)]] = "dir"
    BY <1>2, <1>4 DEF GoodTree, Parent, IsDir, Exists
  <2>2. Front(q) # p
    BY <2>1 DEF Exists
  <2> QED BY <1>2, <2>1, <2>2
<1>5. GoodTree(tr, nodes)
  BY <1>2, <1>3, <1>4 DEF GoodTree
<1> QED BY <1>1, <1>5

(* A path that nothing is below goes. *)
LEMMA TreeRemoved ==
  ASSUME GoodTree(tree, nodes), NEW p \in DOMAIN tree, Below(p) = {}
  PROVE  GoodTree(Removed({p}), nodes)
<1>1. PICK tr : tr = Removed({p})
  OBVIOUS
<1>2. DOMAIN tr = DOMAIN tree \ {p} /\ \A q \in DOMAIN tr : tr[q] = tree[q]
  BY <1>1 DEF Removed
<1>3. tr \in [DOMAIN tr -> 1 .. MaxNodes]
  BY <1>1 DEF Removed, GoodTree
<1>4. ASSUME NEW q \in DOMAIN tr, q # <<>>
      PROVE  Front(q) \in DOMAIN tr /\ nodes[tr[Front(q)]] = "dir"
  <2>1. Front(q) \in DOMAIN tree /\ nodes[tree[Front(q)]] = "dir"
    BY <1>2, <1>4 DEF GoodTree
  <2>2. Front(q) # p
    <3>1. SUFFICES ASSUME Front(q) = p PROVE FALSE
      OBVIOUS
    <3>2. q \in Paths /\ p \in Paths
      BY <1>2 DEF GoodTree
    <3>3. /\ Len(q) \in Nat \ {0} /\ Len(p) = Len(q) - 1
          /\ \A i \in 1 .. Len(q) - 1 : p[i] = q[i]
      BY <1>4, <3>1, <3>2, FrontFacts DEF Paths
    <3>4. IsPrefix(p, q)
      BY <3>2, <3>3, PrefixFacts DEF Paths
    <3> QED BY <1>2, <3>4 DEF Below
  <2> QED BY <1>2, <2>1, <2>2
<1>5. GoodTree(tr, nodes)
  BY <1>2, <1>3, <1>4 DEF GoodTree
<1> QED BY <1>1, <1>5

(* A file has nothing below it. *)
LEMMA FileIsLeaf ==
  ASSUME GoodTree(tree, nodes), NEW p \in Paths, ~IsDir(p)
  PROVE  Below(p) = {}
<1>1. \A q \in DOMAIN tree : q # <<>> => IsDir(Front(q))
  BY DEF GoodTree, IsDir, Exists
<1>2. \A q \in DOMAIN tree : IsPrefix(p, q) /\ p # q => IsDir(p)
  BY <1>1, AboveIsDir DEF GoodTree
<1> QED BY <1>2 DEF Below

(* Where rename(p, q) puts r. *)
Moved(p, q, r) == q \o SubSeq(r, Len(p) + 1, Len(r))

(* m is r with its first a elements replaced by q, which has b. *)
Replaced(q, r, m, a, b, c) ==
    /\ m \in Paths /\ Len(q) = b /\ Len(r) = c /\ a <= c /\ Len(m) = b + (c - a)
    /\ \A i \in 1 .. b : m[i] = q[i]
    /\ \A k, i \in Nat : a < i /\ i <= c /\ k + a = i + b => m[k] = r[i]

(* The path under which rename leaves what it found at r, element by element. *)
LEMMA MovedFacts ==
  ASSUME NEW p \in Paths, NEW q \in Paths, NEW r \in Paths, IsPrefix(p, r)
  PROVE  \E a, b, c \in Nat : /\ Len(p) = a /\ \A i \in 1 .. a : p[i] = r[i]
                              /\ Replaced(q, r, Moved(p, q, r), a, b, c)
<1>1. PICK a, b, c \in Nat : a = Len(p) /\ b = Len(q) /\ c = Len(r)
  BY LenProperties DEF Paths
<1>2. a <= c /\ \A i \in 1 .. a : p[i] = r[i]
  BY <1>1, PrefixFacts DEF Paths
<1>3. PICK s : s = SubSeq(r, a + 1, c)
  OBVIOUS
<1>4. /\ s \in Seq(STRING) /\ Len(s) = c - a
      /\ \A i \in 1 .. c - a : s[i] = r[a + i]
  BY <1>1, <1>2, <1>3, RestFacts DEF Paths
<1>5. PICK m : m = q \o s
  OBVIOUS
<1>6. /\ m \in Paths /\ Len(m) = b + (c - a)
      /\ \A i \in 1 .. b + (c - a) : m[i] = IF i <= b THEN q[i] ELSE s[i - b]
  <2>1. /\ q \o s \in Seq(STRING) /\ Len(q \o s) = Len(q) + Len(s)
        /\ \A i \in 1 .. Len(q) + Len(s) : (q \o s)[i] = IF i <= Len(q) THEN q[i] ELSE s[i - Len(q)]
    BY <1>4, ConcatProperties DEF Paths
  <2> QED BY <1>1, <1>4, <1>5, <2>1, Zenon DEF Paths
<1>7. \A i \in 1 .. b : m[i] = q[i]
  BY <1>2, <1>6
<1>8. ASSUME NEW k \in Nat, NEW i \in Nat, a < i, i <= c, k + a = i + b
      PROVE  m[k] = r[i]
  <2>1. PICK j \in Nat : j = i - a
    BY <1>8
  <2>2. k \in 1 .. b + (c - a) /\ ~ (k <= b) /\ k - b = j /\ j \in 1 .. c - a /\ a + j = i
    BY <1>8, <2>1
  <2>3. m[k] = s[j]
    BY <1>6, <2>2
  <2>4. s[j] = r[a + j]
    BY <1>4, <2>2
  <2> QED BY <2>2, <2>3, <2>4
<1>9. Moved(p, q, r) = m
  BY <1>1, <1>3, <1>5 DEF Moved
<1>10. Replaced(q, r, m, a, b, c)
  BY <1>1, <1>2, <1>6, <1>7, <1>8 DEF Replaced
<1> QED BY <1>1, <1>2, <1>9, <1>10

(* No two paths are put at the same place. *)
LEMMA MovedApart ==
  ASSUME NEW p \in Paths, NEW q \in Paths, NEW r \in Paths, NEW s \in Paths,
         IsPrefix(p, r), IsPrefix(p, s), Moved(p, q, r) = Moved(p, q, s)
  PROVE  r = s
<1>1. PICK m : m = Moved(p, q, r)
  OBVIOUS
<1>2. PICK a, b, c \in Nat : /\ Len(p) = a /\ \A i \in 1 .. a : p[i] = r[i]
                             /\ Replaced(q, r, m, a, b, c)
  BY <1>1, MovedFacts
<1>3. PICK a2, b2, d \in Nat : /\ Len(p) = a2 /\ \A i \in 1 .. a2 : p[i] = s[i]
                               /\ Replaced(q, s, m, a2, b2, d)
  BY <1>1, MovedFacts
<1>4. a2 = a /\ b2 = b /\ d = c
  BY <1>2, <1>3 DEF Replaced
<1>5. Replaced(q, s, m, a, b, c)
  BY <1>3, <1>4
<1>6. ASSUME NEW i \in 1 .. c PROVE r[i] = s[i]
  <2>1. CASE i <= a
    BY <1>2, <1>3, <1>4, <2>1
  <2>2. CASE ~ (i <= a)
    <3>1. PICK k \in Nat : k + a = i + b
      BY <2>2
    <3>. i \in Nat /\ a < i /\ i <= c
      BY <2>2
    <3>2. m[k] = r[i]
      BY <1>2, <2>2, <3>1 DEF Replaced
    <3>3. m[k] = s[i]
      BY <1>5, <2>2, <3>1 DEF Replaced
    <3> QED BY <3>2, <3>3
  <2> QED BY <2>1, <2>2
<1>7. Len(r) = c /\ Len(s) = c
  BY <1>2, <1>5 DEF Replaced
<1> QED BY <1>6, <1>7, SeqEqual DEF Paths

(* What is in a directory below p is put into that directory's new place. *)
LEMMA MovedFront ==
  ASSUME NEW p \in Paths, NEW q \in Paths, NEW r \in Paths, IsPrefix(p, r), r # p
  PROVE  /\ r # <<>> /\ Front(r) \in Paths /\ IsPrefix(p, Front(r)) /\ Moved(p, q, r) # <<>>
         /\ Front(Moved(p, q, r)) = Moved(p, q, Front(r))
<1>1. PICK m : m = Moved(p, q, r)
  OBVIOUS
<1>2. PICK a, b, c \in Nat : /\ Len(p) = a /\ \A i \in 1 .. a : p[i] = r[i]
                             /\ Replaced(q, r, m, a, b, c)
  BY <1>1, MovedFacts
<1>3. m \in Paths /\ Len(q) = b /\ Len(r) = c /\ a < c /\ Len(m) = b + (c - a)
  <2>1. Len(r) = c /\ a <= c
    BY <1>2 DEF Replaced
  <2>2. a # c
    BY <1>2, <2>1, SeqEqual DEF Paths
  <2> QED BY <1>2, <2>1, <2>2 DEF Replaced
<1>4. r # <<>> /\ m # <<>>
  BY <1>3, EmptySeq
<1>5. PICK f : f = Front(r)
  OBVIOUS
<1>6. f \in Paths /\ Len(f) = c - 1 /\ \A i \in 1 .. c - 1 : f[i] = r[i]
  BY <1>3, <1>4, <1>5, FrontFacts DEF Paths
<1>7. PICK g : g = Front(m)
  OBVIOUS
<1>8. g \in Paths /\ Len(g) = b + (c - a) - 1 /\ \A i \in 1 .. b + (c - a) - 1 : g[i] = m[i]
  <2>1. g \in Paths /\ Len(g) = Len(m) - 1 /\ \A i \in 1 .. Len(m) - 1 : g[i] = m[i]
    BY <1>3, <1>4, <1>7, FrontFacts DEF Paths
  <2> QED BY <1>3, <2>1
<1>9. IsPrefix(p, f)
  <2>1. Len(p) <= Len(f) /\ \A i \in 1 .. Len(p) : p[i] = f[i]
    BY <1>2, <1>3, <1>6
  <2> QED BY <1>6, <2>1, PrefixFacts DEF Paths
<1>10. PICK n : n = Moved(p, q, f)
  OBVIOUS
<1>11. Replaced(q, f, n, a, b, c - 1)
  <2>1. PICK a2, b2, d \in Nat : Len(p) = a2 /\ Replaced(q, f, n, a2, b2, d)
    BY <1>6, <1>9, <1>10, MovedFacts
  <2>2. a2 = a /\ b2 = b /\ d = c - 1
    BY <1>2, <1>3, <1>6, <2>1 DEF Replaced
  <2> QED BY <2>1, <2>2
<1>12. n \in Paths /\ Len(n) = b + (c - a) - 1
  BY <1>3, <1>11 DEF Replaced
<1>13. ASSUME NEW i \in 1 .. b + (c - a) - 1 PROVE g[i] = n[i]
  <2>1. g[i] = m[i]
    BY <1>8
  <2>2. CASE i <= b
    BY <1>2, <1>11, <2>1, <2>2 DEF Replaced
  <2>3. CASE ~ (i <= b)
    <3>1. PICK j \in Nat : i + a = j + b
      BY <2>3
    <3>2. a < j /\ j <= c - 1 /\ j <= c /\ i \in Nat /\ j \in 1 .. c - 1
      BY <1>3, <2>3, <3>1
    <3>3. m[i] = r[j]
      BY <1>2, <3>1, <3>2 DEF Replaced
    <3>4. n[i] = f[j]
      BY <1>11, <3>1, <3>2 DEF Replaced
    <3> QED BY <1>6, <2>1, <3>2, <3>3, <3>4
  <2> QED BY <2>2, <2>3
<1>14. g = n
  BY <1>8, <1>12, <1>13, SeqEqual DEF Paths
<1> QED BY <1>1, <1>4, <1>5, <1>6, <1>7, <1>9, <1>10, <1>14

(* What is moved is below the new place; p itself is put at q. *)
LEMMA MovedBelow ==
  ASSUME NEW p \in Paths, NEW q \in Paths, NEW r \in Paths, IsPrefix(p, r)
  PROVE  /\ Moved(p, q, r) \in Paths /\ IsPrefix(q, Moved(p, q, r))
         /\ Moved(p, q, r) = q <=> r = p
<1>1. PICK m : m = Moved(p, q, r)
  OBVIOUS
<1>2. PICK a, b, c \in Nat : /\ Len(p) = a /\ \A i \in 1 .. a : p[i] = r[i]
                             /\ Replaced(q, r, m, a, b, c)
  BY <1>1, MovedFacts
<1>3. /\ m \in Paths /\ Len(q) = b /\ Len(r) = c /\ a <= c /\ Len(m) = b + (c - a)
      /\ \A i \in 1 .. b : m[i] = q[i]
  BY <1>2 DEF Replaced
<1>4. IsPrefix(q, m)
  <2>1. Len(q) <= Len(m) /\ \A i \in 1 .. Len(q) : q[i] = m[i]
    BY <1>3
  <2> QED BY <1>3, <2>1, PrefixFacts DEF Paths
<1>5. ASSUME r = p PROVE m = q
  <2>1. Len(m) = Len(q) /\ \A i \in 1 .. Len(m) : m[i] = q[i]
    BY <1>2, <1>3, <1>5
  <2> QED BY <1>3, <2>1, SeqEqual DEF Paths
<1>6. ASSUME m = q PROVE r = p
  <2>1. Len(r) = Len(p) /\ \A i \in 1 .. Len(r) : r[i] = p[i]
    BY <1>2, <1>3, <1>6
  <2> QED BY <2>1, SeqEqual DEF Paths
<1> QED BY <1>1, <1>3, <1>4, <1>5, <1>6

(* rename moves a path with everything below it. *)
LEMMA TreeRenamed ==
  ASSUME GoodTree(tree, nodes), NEW p \in Paths, NEW q \in Paths, CanRename(p, q)
  PROVE  GoodTree(Renamed(p, q), nodes)
<1> DEFINE moved == {p} \cup Below(p)
           kept == DOMAIN tree \ (moved \cup {q})
<1>1. /\ p # <<>> /\ q # <<>> /\ p \in DOMAIN tree /\ IsDir(Front(q)) /\ ~IsPrefix(p, q)
      /\ q \in DOMAIN tree => ~IsDir(q)
  BY DEF CanRename, Exists, Parent
<1>2. PICK tr : tr = Renamed(p, q)
  OBVIOUS
<1>3. tr = [r \in kept \cup {Moved(p, q, m) : m \in moved} |->
              IF r \in kept THEN tree[r] ELSE tree[CHOOSE m \in moved : Moved(p, q, m) = r]]
  BY <1>2 DEF Renamed, Moved
<1>4. /\ DOMAIN tree \subseteq Paths
      /\ \A r \in DOMAIN tree : r # <<>> => IsDir(Front(r))
  BY DEF GoodTree, IsDir, Exists
<1>5. /\ moved \subseteq DOMAIN tree /\ \A m \in moved : m \in Paths /\ IsPrefix(p, m)
      /\ \A r \in DOMAIN tree : IsPrefix(p, r) => r \in moved
  <2>1. IsPrefix(p, p)
    BY PrefixFacts, LenProperties DEF Paths
  <2> QED BY <1>1, <1>4, <2>1 DEF Below
<1>6. ASSUME NEW m \in moved
      PROVE  /\ Moved(p, q, m) \in Paths /\ Moved(p, q, m) \notin kept
             /\ Moved(p, q, m) \in DOMAIN tr /\ tr[Moved(p, q, m)] = tree[m]
  <2>1. Moved(p, q, m) \in Paths /\ IsPrefix(q, Moved(p, q, m))
    BY <1>5, <1>6, MovedBelow
  <2>2. Moved(p, q, m) \notin kept
    <3>1. SUFFICES ASSUME Moved(p, q, m) \in kept PROVE FALSE
      OBVIOUS
    <3>2. Moved(p, q, m) \in DOMAIN tree /\ Moved(p, q, m) # q
      BY <3>1
    <3>3. IsDir(q)
      BY <1>4, <2>1, <3>2, AboveIsDir
    <3> QED BY <1>1, <3>3 DEF IsDir, Exists
  <2>3. PICK x : x = CHOOSE m2 \in moved : Moved(p, q, m2) = Moved(p, q, m)
    OBVIOUS
  <2>4. x \in moved /\ Moved(p, q, x) = Moved(p, q, m)
    BY <1>6, <2>3, Zenon
  <2>5. x = m
    BY <1>5, <1>6, <2>4, MovedApart
  <2>6. Moved(p, q, m) \in DOMAIN tr
    BY <1>3, <1>6
  <2>7. tr[Moved(p, q, m)] = tree[CHOOSE m2 \in moved : Moved(p, q, m2) = Moved(p, q, m)]
    BY <1>3, <1>6, <2>2, Zenon
  <2> QED BY <2>1, <2>2, <2>3, <2>5, <2>6, <2>7
<1>7. ASSUME NEW r \in kept PROVE r \in Paths /\ r \in DOMAIN tr /\ tr[r] = tree[r]
  BY <1>3, <1>4, <1>7
<1>8. DOMAIN tr = kept \cup {Moved(p, q, m) : m \in moved}
  BY <1>3
<1>9. DOMAIN tr \subseteq Paths /\ tr \in [DOMAIN tr -> 1 .. MaxNodes]
  <2>1. \A r \in DOMAIN tr : r \in Paths /\ tr[r] \in 1 .. MaxNodes
    BY <1>5, <1>6, <1>7, <1>8 DEF GoodTree
  <2>2. tr = [r \in DOMAIN tr |-> tr[r]]
    BY <1>3
  <2> QED BY <2>1, <2>2
<1>10. ASSUME NEW r \in Paths, r # <<>>, IsDir(Front(r)), ~IsPrefix(p, r)
       PROVE  Front(r) \in kept
  <2>1. Front(r) \in DOMAIN tree /\ Front(r) \in Paths
    BY <1>4, <1>10 DEF IsDir, Exists
  <2>2. ~IsPrefix(p, Front(r))
    <3>1. SUFFICES ASSUME IsPrefix(p, Front(r)) PROVE FALSE
      OBVIOUS
    <3>2. /\ Len(r) \in Nat \ {0} /\ Len(Front(r)) = Len(r) - 1
          /\ \A i \in 1 .. Len(r) - 1 : Front(r)[i] = r[i]
      BY <1>10, FrontFacts DEF Paths
    <3>3. Len(p) \in Nat /\ Len(p) <= Len(Front(r)) /\ \A i \in 1 .. Len(p) : p[i] = Front(r)[i]
      BY <2>1, <3>1, PrefixFacts, LenProperties DEF Paths
    <3>4. Len(p) <= Len(r) /\ \A i \in 1 .. Len(p) : p[i] = r[i]
      BY <3>2, <3>3
    <3>5. IsPrefix(p, r)
      BY <3>4, PrefixFacts DEF Paths
    <3> QED BY <1>10, <3>5
  <2>3. Front(r) # q
    BY <1>1, <1>10, <2>1
  <2> QED BY <1>5, <2>1, <2>2, <2>3
<1>11. ASSUME NEW r \in DOMAIN tr, r # <<>>
       PROVE  Front(r) \in DOMAIN tr /\ nodes[tr[Front(r)]] = "dir"
  <2>1. CASE r \in kept
    <3>1. r \in DOMAIN tree /\ r \in Paths /\ IsDir(Front(r)) /\ ~IsPrefix(p, r)
      BY <1>4, <1>5, <1>11, <2>1
    <3>2. Front(r) \in kept
      BY <1>10, <1>11, <3>1
    <3> QED BY <1>7, <3>1, <3>2 DEF IsDir
  <2>2. CASE r = q
    <3>1. Front(q) \in kept
      BY <1>1, <1>10
    <3> QED BY <1>1, <1>7, <2>2, <3>1 DEF IsDir
  <2>3. CASE r \notin kept /\ r # q
    <3>1. PICK m \in moved : r = Moved(p, q, m)
      BY <1>8, <2>3
    <3>2. m \in Paths /\ IsPrefix(p, m) /\ m \in DOMAIN tree
      BY <1>5, <3>1
    <3>3. m # p
      BY <2>3, <3>1, <3>2, MovedBelow
    <3>4. /\ m # <<>> /\ Front(m) \in Paths /\ IsPrefix(p, Front(m))
          /\ Front(Moved(p, q, m)) = Moved(p, q, Front(m))
      BY <3>2, <3>3, MovedFront
    <3>5. IsDir(Front(m)) /\ Front(m) \in DOMAIN tree
      BY <1>4, <3>2, <3>4 DEF IsDir, Exists
    <3>6. Front(m) \in moved
      BY <1>5, <3>4, <3>5
    <3>7. Moved(p, q, Front(m)) \in DOMAIN tr /\ tr[Moved(p, q, Front(m))] = tree[Front(m)]
      BY <1>6, <3>6
    <3> QED BY <3>1, <3>4, <3>5, <3>7 DEF IsDir
  <2> QED BY <2>1, <2>2, <2>3
<1>12. GoodTree(tr, nodes)
  BY <1>9, <1>11 DEF GoodTree
<1> QED BY <1>2, <1>12

(* The mount a path resolves to contains it, and the path made for the host   *)
(* is the mount's source and the rest of the path, which is made of names.    *)
LEMMA ResolveFacts ==
  ASSUME FilesInv, NEW path \in Seq(Names), Containing(mounts, path) # {}
  PROVE  \E m \in Mount : /\ m = mounts[oe_mount_resolve(mounts, path)]
                          /\ _make_host_path(m, Suffix(m, path)) \in Paths
                          /\ BelowSource(m, _make_host_path(m, Suffix(m, path)))
<1> DEFINE C == Containing(mounts, path)
           L == {Len(path) - Len(mounts[i].path) : i \in C}
<1>1. path \in Paths /\ Len(path) \in Nat
  BY NamesArePaths, LenProperties
<1>2. ASSUME NEW i \in C
      PROVE  /\ mounts[i] \in Mount /\ mounts[i].path \in Paths /\ IsPrefix(mounts[i].path, path)
             /\ Len(mounts[i].path) \in Nat /\ Len(mounts[i].path) <= Len(path)
  <2>1. i \in DOMAIN mounts /\ IsPrefix(mounts[i].path, path)
    BY <1>2 DEF Containing
  <2>2. mounts[i] \in Mount
    BY <2>1, LenProperties, ElementOfSeq DEF FilesInv, MountsGood
  <2>3. mounts[i].path \in Paths
    BY <2>2 DEF Mount
  <2>4. Len(mounts[i].path) \in Nat /\ Len(mounts[i].path) <= Len(path)
    BY <1>1, <2>1, <2>3, LenProperties, PrefixFacts DEF Paths
  <2> QED BY <2>1, <2>2, <2>3, <2>4
<1>3. L \subseteq Nat /\ L # {}
  BY <1>1, <1>2
<1>4. PICK l : l = Min(L)
  OBVIOUS
<1>5. l \in L /\ \A y \in L : l <= y
  BY <1>3, <1>4, MinExists
<1>6. PICK far \in C : l = Len(path) - Len(mounts[far].path)
  BY <1>5
<1>7. \A j \in C : Len(mounts[j].path) <= Len(mounts[far].path)
  <2>1. TAKE j \in C
  <2>2. l <= Len(path) - Len(mounts[j].path)
    BY <1>5
  <2>3. Len(mounts[j].path) \in Nat /\ Len(mounts[far].path) \in Nat
    BY <1>2
  <2> QED BY <1>1, <1>6, <2>2, <2>3
<1>8. oe_mount_resolve(mounts, path) \in C
  BY <1>7 DEF oe_mount_resolve
<1> HIDE DEF C, L
<1>9. PICK m : m = mounts[oe_mount_resolve(mounts, path)]
  OBVIOUS
<1>10. /\ m \in Mount /\ m.path \in Paths /\ m.source \in Paths
       /\ Len(m.path) \in Nat /\ Len(m.path) <= Len(path)
  BY <1>2, <1>8, <1>9 DEF Mount
<1>11. PICK s : s = Suffix(m, path)
  OBVIOUS
<1>12. s \in Seq(Names)
  BY <1>1, <1>10, <1>11, RestFacts DEF Suffix
<1>13. s \in Paths
  BY <1>12, NamesArePaths
<1>14. PICK h : h = _make_host_path(m, s)
  OBVIOUS
<1>15. /\ h \in Paths /\ Len(h) = Len(m.source) + Len(s)
       /\ \A i \in 1 .. Len(m.source) + Len(s) :
            h[i] = IF i <= Len(m.source) THEN m.source[i] ELSE s[i - Len(m.source)]
  BY <1>10, <1>13, <1>14, ConcatProperties DEF _make_host_path, Paths
<1>16. PICK a, b \in Nat : a = Len(m.source) /\ b = Len(s)
  BY <1>10, <1>13, LenProperties DEF Paths
<1>17. /\ Len(h) = a + b
       /\ \A i \in 1 .. a + b : h[i] = IF i <= a THEN m.source[i] ELSE s[i - a]
  BY <1>15, <1>16
<1>18. IsPrefix(m.source, h)
  <2>0. a <= a + b /\ \A i \in 1 .. a : i \in 1 .. a + b /\ i <= a
    OBVIOUS
  <2>1. Len(m.source) <= Len(h) /\ \A i \in 1 .. Len(m.source) : m.source[i] = h[i]
    BY <1>16, <1>17, <2>0
  <2> QED BY <1>10, <1>15, <2>1, PrefixFacts DEF Paths
<1>19. \A i \in a + 1 .. a + b : h[i] \notin {".", ".."}
  <2>1. TAKE i \in a + 1 .. a + b
  <2>2. h[i] = s[i - a] /\ i - a \in 1 .. b
    BY <1>17
  <2>3. s[i - a] \in Names
    BY <1>12, <1>16, <2>2, ElementOfSeq
  <2> QED BY <2>2, <2>3 DEF Names
<1>20. BelowSource(m, h)
  BY <1>16, <1>17, <1>18, <1>19 DEF BelowSource
<1>21. h = _make_host_path(m, Suffix(m, path))
  BY <1>11, <1>14
<1> QED BY <1>9, <1>10, <1>15, <1>20, <1>21

(* One thread's call changes. *)
LEMMA CallChanged ==
  ASSUME FilesInv, NEW t \in Threads, NEW o, CallGood(o), op' = [op EXCEPT ![t] = o]
  PROVE  CallsGood'
<1>1. DOMAIN op = Threads
  BY DEF FilesInv, CallsGood
<1>2. op' \in [Threads -> {op'[u] : u \in Threads}]
  BY <1>1
<1>3. \A u \in Threads : CallGood(op'[u])
  BY <1>1 DEF FilesInv, CallsGood
<1> QED BY <1>2, <1>3 DEF CallsGood

(* A call that returns leaves its thread idle. *)
LEMMA CallFinished ==
  ASSUME FilesInv, NEW t \in Threads, Finish(t)
  PROVE  CallsGood'
<1>1. CallGood(Idle)
  BY DEF CallGood
<1> QED BY <1>1, CallChanged DEF Finish

(* While fewer files than the bound are open, a handle is free. *)
LEMMA FreeHandleFacts ==
  ASSUME FilesInv, Cardinality(files) < MaxFiles
  PROVE  FreeHandle \in 1 .. MaxFiles + 1 /\ FreeHandle \notin handles
<1> DEFINE H == 1 .. MaxFiles + 1
<1>0. MaxFiles \in Nat
  BY FilesAssumption
<1>1. IsFiniteSet(handles) /\ Cardinality(handles) <= Cardinality(files)
  <2>1. handles = {f.h : f \in files} /\ IsFiniteSet(files)
    BY DEF FilesInv, ObjectsGood
  <2> DEFINE g == [f \in files |-> f.h]
  <2>2. g \in Surjection(files, handles)
    BY <2>1 DEF Surjection
  <2> HIDE DEF g
  <2> QED BY <2>1, <2>2, FS_Surjection
<1>2. IsFiniteSet(H) /\ Cardinality(H) = MaxFiles + 1
  BY <1>0, FS_Interval
<1>3. Cardinality(files) \in Nat /\ Cardinality(handles) \in Nat
  BY <1>1, FS_CardinalityType DEF FilesInv, ObjectsGood
<1>4. ~(H \subseteq handles)
  <2>1. H \subseteq handles => Cardinality(H) <= Cardinality(handles)
    BY <1>1, FS_Subset
  <2> HIDE DEF H
  <2> QED BY <1>0, <1>1, <1>2, <1>3, <2>1
<1> QED BY <1>4 DEF FreeHandle

(* The initial state. *)
LEMMA FilesStart == FilesInit(0) => FilesInv
<1> SUFFICES ASSUME FilesInit(0) PROVE FilesInv
  OBVIOUS
<1> DEFINE D == DOMAIN HostTree
           c == Cardinality(D)
           One(f) == \A p, q \in D : f[p] = f[q] => p = q
<1>1. /\ D \subseteq Paths /\ HostTree \in [D -> {"dir", "file"}] /\ IsFiniteSet(D) /\ c <= MaxNodes
      /\ MaxNodes \in Nat /\ MaxMounts \in Nat /\ MaxFiles \in Nat
      /\ \A p \in D : p # <<>> => Front(p) \in D /\ HostTree[Front(p)] = "dir"
  BY FilesAssumption DEF Paths
<1>2. c \in Nat
  BY <1>1, FS_CardinalityType
<1>3. \E f \in [D -> 1 .. c] : One(f)
  <2>1. IsFiniteSet(1 .. c) /\ Cardinality(1 .. c) = c
    BY <1>2, FS_Interval
  <2>2. ExistsBijection(D, 1 .. c)
    BY <1>1, <2>1, FS_SameCardinalityBij
  <2>3. PICK f : f \in Bijection(D, 1 .. c)
    BY <2>2 DEF ExistsBijection
  <2>4. f \in [D -> 1 .. c] /\ One(f)
    BY <2>3 DEF Bijection, Injection, IsInjective
  <2> QED BY <2>4
<1>4. PICK num : num = CHOOSE f \in [D -> 1 .. c] : One(f)
  OBVIOUS
<1>5. num \in [D -> 1 .. c] /\ One(num)
  BY <1>3, <1>4
<1>6. /\ tree = num
      /\ nodes = [n \in 1 .. MaxNodes |->
                    IF \E p \in D : num[p] = n THEN HostTree[CHOOSE p \in D : num[p] = n] ELSE "file"]
  BY <1>4 DEF FilesInit
<1> HIDE DEF c
<1>7. \A p \in D : num[p] \in 1 .. MaxNodes
  BY <1>1, <1>2, <1>5
<1>8. ASSUME NEW p \in D PROVE nodes[num[p]] = HostTree[p]
  <2>1. num[p] \in 1 .. MaxNodes
    BY <1>7
  <2>2. (CHOOSE q \in D : num[q] = num[p]) = p
    BY <1>5
  <2> QED BY <1>6, <2>1, <2>2
<1>9. GoodTree(tree, nodes)
  <2>1. DOMAIN tree = D /\ tree \in [D -> 1 .. MaxNodes]
    BY <1>5, <1>6, <1>7
  <2>2. nodes \in [1 .. MaxNodes -> {"dir", "file", "data"}]
    <3>1. ASSUME NEW n \in 1 .. MaxNodes, \E p \in D : num[p] = n
          PROVE  HostTree[CHOOSE p \in D : num[p] = n] \in {"dir", "file"}
      <4>1. (CHOOSE p \in D : num[p] = n) \in D
        BY <3>1
      <4> QED BY <1>1, <4>1
    <3> QED BY <1>6, <3>1
  <2>3. ASSUME NEW p \in D, p # <<>> PROVE nodes[tree[Front(p)]] = "dir"
    <3>1. Front(p) \in D /\ HostTree[Front(p)] = "dir"
      BY <1>1, <2>3
    <3>2. nodes[num[Front(p)]] = HostTree[Front(p)]
      BY <1>8, <3>1
    <3> QED BY <1>6, <3>1, <3>2
  <2> QED BY <1>1, <2>1, <2>2, <2>3 DEF GoodTree
<1>10. MountsGood
  <2>1. mounts = <<>>
    BY DEF FilesInit
  <2> QED BY <1>1, <2>1, EmptySeq DEF MountsGood
<1>11. CallsGood
  BY DEF FilesInit, CallsGood, CallGood
<1>12. ObjectsGood
  BY <1>1, FS_EmptySet DEF FilesInit, ObjectsGood
<1>13. cwd \in Paths
  BY EmptySeq DEF FilesInit, Paths
<1> QED BY <1>9, <1>10, <1>11, <1>12, <1>13 DEF FilesInv, FilesInit

(* What a call in progress holds, by its kind. *)
LEMMA CallFields ==
  ASSUME FilesInv, NEW t \in Threads
  PROVE  /\ op[t].kind = "mount" => op[t].m \in Mount
         /\ op[t].kind \in PathKinds \cup PairKinds =>
              /\ op[t].m \in Mount /\ op[t].host \in Paths /\ op[t].path \in Paths
              /\ op[t].flags \in Flags /\ BelowSource(op[t].m, op[t].host)
         /\ op[t].kind \in {"rename2", "link2"} =>
              op[t].m \in Mount /\ op[t].host \in Paths /\ op[t].new \in Paths
<1>1. CallGood(op[t])
  BY DEF FilesInv, CallsGood
<1>2. CASE op[t] = Idle
  <2>1. op[t].kind = "idle"
    BY <1>2 DEF Idle
  <2> QED BY <2>1 DEF PathKinds, PairKinds
<1>3. CASE \E m \in Mount : op[t] = [kind |-> "mount", m |-> m]
  <2>1. PICK m \in Mount : op[t] = [kind |-> "mount", m |-> m]
    BY <1>3
  <2>2. op[t].kind = "mount" /\ op[t].m = m
    BY <2>1
  <2> QED BY <2>2 DEF PathKinds, PairKinds
<1>4. CASE ResolvedOne(op[t])
  <2>1. PICK k \in PathKinds \cup PairKinds, m \in Mount, fl \in Flags, path \in Paths, host \in Paths :
           /\ BelowSource(m, host)
           /\ op[t] = [kind |-> k, m |-> m, flags |-> fl, path |-> path, host |-> host]
    BY <1>4 DEF ResolvedOne
  <2>2. op[t].kind = k /\ op[t].m = m /\ op[t].host = host /\ op[t].flags = fl /\ op[t].path = path
    BY <2>1
  <2>3. k \notin {"mount", "rename2", "link2"}
    BY <2>1 DEF PathKinds, PairKinds
  <2> QED BY <2>1, <2>2, <2>3
<1>5. CASE ResolvedTwo(op[t])
  <2>1. PICK k \in {"rename2", "link2"}, m \in Mount, host \in Paths, new \in Paths :
           /\ BelowSource(m, host) /\ BelowSource(m, new)
           /\ op[t] = [kind |-> k, m |-> m, host |-> host, new |-> new]
    BY <1>5 DEF ResolvedTwo
  <2>2. op[t].kind = k /\ op[t].m = m /\ op[t].host = host /\ op[t].new = new
    BY <2>1
  <2>3. k \notin PathKinds \cup PairKinds \cup {"mount"}
    BY <2>1 DEF PathKinds, PairKinds
  <2> QED BY <2>1, <2>2, <2>3
<1> QED BY <1>1, <1>2, <1>3, <1>4, <1>5 DEF CallGood

(* Steps that touch neither the host's files nor the open ones. *)
LEMMA HostUntouched ==
  ASSUME FilesInv, NoChange, UNCHANGED <<files, handles>>, MountsGood', cwd' \in Paths, CallsGood'
  PROVE  FilesInv'
<1>1. GoodTree(tree, nodes)'
  BY DEF FilesInv, NoChange, GoodTree
<1>2. ObjectsGood'
  BY DEF FilesInv, NoChange, ObjectsGood
<1> QED BY <1>1, <1>2 DEF FilesInv, NoChange

(* A step that leaves the mount table alone. *)
LEMMA MountsUnchanged ==
  ASSUME FilesInv, UNCHANGED mounts
  PROVE  MountsGood'
BY DEF FilesInv, MountsGood

(* A step in which no call begins, goes on or returns. *)
LEMMA CallsUnchanged ==
  ASSUME FilesInv, UNCHANGED op
  PROVE  CallsGood'
BY DEF FilesInv, CallsGood

(* oe_mount before it takes the lock: the entry it has prepared is a mount. *)
LEMMA MountStatGood ==
  ASSUME FilesInv, NEW t \in Threads, NEW p \in Targets, NEW s \in Sources, NEW ro \in BOOLEAN,
         MountStat(t, p, s, ro)
  PROVE  FilesInv'
<1>1. MountsGood' /\ cwd' \in Paths
  BY MountsUnchanged DEF MountStat, FilesInv
<1>2. CallsGood'
  <2>1. PICK target : target = oe_realpath(cwd, p)
    OBVIOUS
  <2>2. p \in [abs : BOOLEAN, elems : Paths] /\ s \in Paths /\ cwd \in Paths
    BY FilesAssumption DEF Paths, FilesInv
  <2>3. target \in Paths
    BY <2>1, <2>2, RealPathFacts, NamesArePaths
  <2>4. Mounted(target, s, ro) \in Mount
    BY <2>2, <2>3 DEF Mounted, Mount
  <2>5. CASE op' = op
    BY <2>5, CallsUnchanged
  <2>6. CASE op' = [op EXCEPT ![t] = [kind |-> "mount", m |-> Mounted(target, s, ro)]]
    <3>1. CallGood([kind |-> "mount", m |-> Mounted(target, s, ro)])
      BY <2>4 DEF CallGood
    <3> QED BY <2>6, <3>1, CallChanged
  <2> QED BY <2>1, <2>5, <2>6 DEF MountStat
<1> QED BY <1>1, <1>2, HostUntouched DEF MountStat

(* oe_mount under the lock: an entry is appended for a mount point that is    *)
(* not in the table.                                                          *)
LEMMA MountTableGood ==
  ASSUME FilesInv, NEW t \in Threads, MountTable(t)
  PROVE  FilesInv'
<1>1. op[t].m \in Mount
  BY CallFields DEF MountTable
<1>2. MountsGood'
  <2>1. CASE MountRefused(op[t].m)
    BY <2>1, MountsUnchanged DEF MountTable
  <2>2. CASE ~MountRefused(op[t].m)
    <3>1. PICK m \in Mount : m = op[t].m
      BY <1>1
    <3>2. PICK l \in Nat : l = Len(mounts) /\ l <= MaxMounts /\ l # MaxMounts
      BY <2>2, LenProperties DEF MountRefused, FilesInv, MountsGood
    <3>3. mounts \in Seq(Mount) /\ DOMAIN mounts = 1 .. l
      BY <3>2, LenProperties DEF FilesInv, MountsGood
    <3>4. \A i \in 1 .. l : mounts[i].path # m.path
      BY <2>2, <3>1, <3>3 DEF MountRefused
    <3>5. mounts' = Append(mounts, m)
      BY <2>2, <3>1 DEF MountTable
    <3>6. /\ mounts' \in Seq(Mount) /\ Len(mounts') = l + 1
          /\ \A i \in 1 .. l : mounts'[i] = mounts[i] /\ mounts'[l + 1] = m
      BY <3>2, <3>3, <3>5, AppendProperties
    <3>7. mounts'[l + 1] = m
      BY <3>2, <3>3, <3>5, AppendProperties
    <3>8. l + 1 <= MaxMounts
      BY <3>2, FilesAssumption
    <3>9. \A i, j \in 1 .. l : mounts[i].path = mounts[j].path => i = j
      BY <3>2 DEF FilesInv, MountsGood
    <3>10. \A i, j \in 1 .. l + 1 : mounts'[i].path = mounts'[j].path => i = j
      <4>1. TAKE i, j \in 1 .. l + 1
      <4>2. CASE i \in 1 .. l /\ j \in 1 .. l
        BY <3>6, <3>9, <4>2
      <4>3. CASE i = l + 1 /\ j \in 1 .. l
        BY <3>4, <3>6, <3>7, <4>3
      <4>4. CASE j = l + 1 /\ i \in 1 .. l
        BY <3>4, <3>6, <3>7, <4>4
      <4> QED BY <4>2, <4>3, <4>4
    <3> QED BY <3>6, <3>8, <3>10 DEF MountsGood
  <2> QED BY <2>1, <2>2
<1>3. CallsGood' /\ cwd' \in Paths
  BY CallFinished DEF MountTable, FilesInv
<1> QED BY <1>2, <1>3, HostUntouched DEF MountTable

(* The entry that goes is replaced by the last one: the others keep their     *)
(* places, and no mount point is there twice.                                 *)
LEMMA UmountGood ==
  ASSUME FilesInv, NEW t \in Threads, NEW p \in Targets, Umount(t, p)
  PROVE  FilesInv'
<1>1. CallsGood' /\ cwd' \in Paths
  BY CallsUnchanged DEF Umount, FilesInv
<1>2. MountsGood'
  <2> DEFINE hit == {i \in DOMAIN mounts : mounts[i].path = oe_realpath(cwd, p)}
  <2>1. CASE hit = {}
    BY <2>1, MountsUnchanged DEF Umount
  <2>2. CASE hit # {}
    <3>1. PICK i \in hit : mounts' = Front([mounts EXCEPT ![i] = Last(mounts)])
      BY <2>2 DEF Umount
    <3>2. PICK l \in Nat : l = Len(mounts)
      BY LenProperties DEF FilesInv, MountsGood
    <3>3. mounts \in Seq(Mount) /\ DOMAIN mounts = 1 .. l /\ l <= MaxMounts /\ MaxMounts \in Nat
      BY <3>2, LenProperties, FilesAssumption DEF FilesInv, MountsGood
    <3>4. i \in 1 .. l
      BY <3>3
    <3> HIDE DEF hit
    <3>5. PICK last : last = mounts[l] /\ last \in Mount /\ last = Last(mounts)
      BY <3>2, <3>3, <3>4, ElementOfSeq DEF Last
    <3>6. PICK s : s = [mounts EXCEPT ![i] = last]
      OBVIOUS
    <3>7. s \in Seq(Mount) /\ Len(s) = l
      BY <3>2, <3>3, <3>4, <3>5, <3>6, ExceptSeq
    <3>8. \A j \in 1 .. l : s[j] = IF j = i THEN mounts[l] ELSE mounts[j]
      BY <3>3, <3>5, <3>6
    <3>9. s # <<>> /\ mounts' = Front(s)
      BY <3>1, <3>4, <3>5, <3>6, <3>7, EmptySeq
    <3>10. mounts' \in Seq(Mount) /\ Len(mounts') = l - 1 /\ \A j \in 1 .. l - 1 : mounts'[j] = s[j]
      BY <3>7, <3>9, FrontFacts
    <3>11. \A j, k \in 1 .. l : mounts[j].path = mounts[k].path => j = k
      BY <3>2 DEF FilesInv, MountsGood
    <3>12. \A j, k \in 1 .. l - 1 : mounts'[j].path = mounts'[k].path => j = k
      <4>1. TAKE j, k \in 1 .. l - 1
      <4>2. j \in 1 .. l /\ k \in 1 .. l /\ l \in 1 .. l /\ j # l /\ k # l
        BY <3>4
      <4>3. mounts'[j] = (IF j = i THEN mounts[l] ELSE mounts[j]) /\ mounts'[k] = IF k = i THEN mounts[l] ELSE mounts[k]
        BY <3>8, <3>10, <4>2
      <4> QED BY <3>11, <4>2, <4>3
    <3> QED BY <3>3, <3>10, <3>12 DEF MountsGood
  <2> QED BY <2>1, <2>2
<1> QED BY <1>1, <1>2, HostUntouched DEF Umount

(* A path function resolves its path. *)
LEMMA ResolveGood ==
  ASSUME FilesInv, NEW t \in Threads, NEW k \in PathKinds \cup PairKinds, NEW p \in PathArgs,
         NEW fl \in Flags, Resolve(t, k, p, fl)
  PROVE  FilesInv'
<1>1. MountsGood' /\ cwd' \in Paths
  BY MountsUnchanged DEF Resolve, FilesInv
<1>2. CallsGood'
  <2>1. PICK path : path = oe_realpath(cwd, p)
    OBVIOUS
  <2>2. p \in [abs : BOOLEAN, elems : Paths] /\ cwd \in Paths
    BY FilesAssumption DEF Paths, FilesInv
  <2>3. path \in Seq(Names) /\ path \in Paths
    BY <2>1, <2>2, RealPathFacts, NamesArePaths
  <2>4. CASE Containing(mounts, path) = {}
    <3>1. op' = op
      BY <2>1, <2>4 DEF Resolve
    <3> QED BY <3>1, CallsUnchanged
  <2>5. CASE Containing(mounts, path) # {}
    <3>1. PICK m \in Mount : /\ m = mounts[oe_mount_resolve(mounts, path)]
                             /\ _make_host_path(m, Suffix(m, path)) \in Paths
                             /\ BelowSource(m, _make_host_path(m, Suffix(m, path)))
      BY <2>3, <2>5, ResolveFacts
    <3>2. PICK host \in Paths : host = _make_host_path(m, Suffix(m, path)) /\ BelowSource(m, host)
      BY <3>1
    <3>3. op' = [op EXCEPT ![t] = [kind |-> k, m |-> m, flags |-> fl, path |-> path, host |-> host]]
      BY <2>1, <2>5, <3>1, <3>2 DEF Resolve
    <3>4. CallGood([kind |-> k, m |-> m, flags |-> fl, path |-> path, host |-> host])
      BY <2>3, <3>2 DEF CallGood, ResolvedOne
    <3> QED BY <3>3, <3>4, CallChanged
  <2> QED BY <2>4, <2>5
<1> QED BY <1>1, <1>2, HostUntouched DEF Resolve

(* oe_rename and oe_link resolve their second path on the device of the       *)
(* first.                                                                     *)
LEMMA Resolve2Good ==
  ASSUME FilesInv, NEW t \in Threads, NEW p \in PathArgs, Resolve2(t, p)
  PROVE  FilesInv'
<1>1. MountsGood' /\ cwd' \in Paths
  BY MountsUnchanged DEF Resolve2, FilesInv
<1>2. CallsGood'
  <2>1. PICK path : path = oe_realpath(cwd, p)
    OBVIOUS
  <2>2. p \in [abs : BOOLEAN, elems : Paths] /\ cwd \in Paths
    BY FilesAssumption DEF Paths, FilesInv
  <2>3. path \in Seq(Names)
    BY <2>1, <2>2, RealPathFacts
  <2>4. CASE Finish(t)
    BY <2>4, CallFinished
  <2>5. CASE ~Finish(t)
    <3>0. Containing(mounts, path) # {}
      BY <2>1, <2>5 DEF Resolve2
    <3>1. PICK m \in Mount : /\ m = mounts[oe_mount_resolve(mounts, path)]
                             /\ _make_host_path(m, Suffix(m, path)) \in Paths
                             /\ BelowSource(m, _make_host_path(m, Suffix(m, path)))
      BY <2>3, <3>0, ResolveFacts
    <3>2. PICK new \in Paths : new = _make_host_path(m, Suffix(m, path)) /\ BelowSource(m, new)
      BY <3>1
    <3>3. m = op[t].m
      BY <2>1, <2>5, <3>0, <3>1 DEF Resolve2
    <3>4. op[t].host \in Paths /\ BelowSource(op[t].m, op[t].host)
      BY CallFields DEF Resolve2
    <3>5. PICK host \in Paths : host = op[t].host /\ BelowSource(m, host)
      BY <3>3, <3>4
    <3>6. PICK k \in {"rename2", "link2"} : k = IF op[t].kind = "rename" THEN "rename2" ELSE "link2"
      OBVIOUS
    <3>7. op' = [op EXCEPT ![t] = [kind |-> k, m |-> m, host |-> host, new |-> new]]
      BY <2>1, <2>5, <3>0, <3>1, <3>2, <3>3, <3>5, <3>6 DEF Resolve2
    <3>8. CallGood([kind |-> k, m |-> m, host |-> host, new |-> new])
      BY <3>2, <3>5 DEF CallGood, ResolvedTwo
    <3> QED BY <3>7, <3>8, CallChanged
  <2> QED BY <2>4, <2>5
<1> QED BY <1>1, <1>2, HostUntouched DEF Resolve2

(* oe_chdir sets the current directory to the path it has resolved. *)
LEMMA ChdirGood ==
  ASSUME FilesInv, NEW t \in Threads, Chdir(t)
  PROVE  FilesInv'
<1>1. op[t].path \in Paths
  BY CallFields DEF Chdir, PathKinds
<1>2. CallsGood' /\ MountsGood' /\ cwd' \in Paths
  BY <1>1, CallFinished, MountsUnchanged DEF Chdir, FilesInv
<1> QED BY <1>2, HostUntouched DEF Chdir

(* The host's files change, not through a read-only mount; the open files     *)
(* stay.                                                                      *)
LEMMA HostChanged ==
  ASSUME FilesInv, NEW m, NEW tr, NEW nd, Change(m, tr, nd), m.ro = FALSE \/ (tr = tree /\ nd = nodes),
         UNCHANGED <<mounts, cwd, files, handles>>, CallsGood',
         GoodTree(tr, nd), \A f \in files : ~f.dir => nd[f.ino] # "dir"
  PROVE  FilesInv'
<1>1. tree' = tr /\ nodes' = nd /\ roChanged' = FALSE
  BY DEF Change, FilesInv
<1>2. GoodTree(tree, nodes)'
  BY <1>1 DEF GoodTree
<1>3. ObjectsGood'
  BY <1>1 DEF FilesInv, ObjectsGood
<1>4. MountsGood' /\ cwd' \in Paths
  BY MountsUnchanged DEF FilesInv
<1> QED BY <1>1, <1>2, <1>3, <1>4 DEF FilesInv

(* The functions refused on a read-only mount. *)
LEMMA EffectGood ==
  ASSUME FilesInv, NEW t \in Threads, NEW can \in BOOLEAN, NEW tr, NEW nd, Effect(t, can, tr, nd),
         op[t].m \in Mount, can => GoodTree(tr, nd) /\ \A f \in files : ~f.dir => nd[f.ino] # "dir"
  PROVE  FilesInv'
<1>1. CallsGood'
  BY CallFinished DEF Effect
<1>2. CASE can /\ ~_is_read_only(op[t].m)
  <2>1. op[t].m.ro = FALSE /\ Change(op[t].m, tr, nd)
    BY <1>2 DEF _is_read_only, Effect, Mount
  <2> QED BY <1>1, <1>2, <2>1, HostChanged DEF Effect
<1>3. CASE ~(can /\ ~_is_read_only(op[t].m))
  <2>1. NoChange /\ UNCHANGED <<mounts, cwd, files, handles>>
    BY <1>3 DEF Effect
  <2>2. MountsGood' /\ cwd' \in Paths
    BY <2>1, MountsUnchanged DEF FilesInv
  <2> QED BY <1>1, <2>1, <2>2, HostUntouched
<1> QED BY <1>2, <1>3

(* An inode in use by an open file or by the tree is not the free one. *)
LEMMA CreateGood ==
  ASSUME FilesInv, NEW p \in Paths, CanCreate(p), NEW k \in {"dir", "file"}
  PROVE  /\ FreeNode \in 1 .. MaxNodes
         /\ GoodTree(Extended(p, FreeNode), [nodes EXCEPT ![FreeNode] = k])
         /\ \A f \in files : f.ino # FreeNode
<1>1. PICK n : n = FreeNode
  OBVIOUS
<1>2. n \in 1 .. MaxNodes /\ n \notin InUse
  BY <1>1, FreeNodeFacts DEF CanCreate
<1>3. GoodTree(tree, nodes)
  BY DEF FilesInv
<1>4. GoodTree(tree, [nodes EXCEPT ![n] = k])
  BY <1>2, <1>3, NodesChanged DEF InUse
<1>5. PICK tr : tr = Extended(p, n)
  OBVIOUS
<1>6. GoodTree(tr, nodes)
  BY <1>2, <1>3, <1>5, TreeExtended DEF CanCreate
<1>7. ASSUME NEW q \in DOMAIN tr, q # <<>>
      PROVE  [nodes EXCEPT ![n] = k][tr[Front(q)]] = "dir"
  <2>1. Front(q) \in DOMAIN tr /\ nodes[tr[Front(q)]] = "dir" /\ tr[Front(q)] \in 1 .. MaxNodes
    BY <1>6, <1>7 DEF GoodTree
  <2>2. Front(q) # p
    <3>1. CASE q = p
      <4>1. p \notin DOMAIN tree /\ Front(p) \in DOMAIN tree
        BY DEF CanCreate, Parent, IsDir, Exists
      <4> QED BY <3>1, <4>1
    <3>2. CASE q # p
      <4>1. q \in DOMAIN tree
        BY <1>5, <3>2 DEF Extended
      <4>2. Front(q) \in DOMAIN tree /\ p \notin DOMAIN tree
        BY <1>3, <1>7, <4>1 DEF GoodTree, CanCreate, Exists
      <4> QED BY <4>2
    <3> QED BY <3>1, <3>2
  <2>3. Front(q) \in DOMAIN tree /\ tr[Front(q)] = tree[Front(q)]
    BY <1>5, <2>1, <2>2 DEF Extended
  <2>4. tr[Front(q)] # n
    BY <1>2, <2>3 DEF InUse
  <2> QED BY <1>3, <2>1, <2>4 DEF GoodTree
<1>8. GoodTree(tr, [nodes EXCEPT ![n] = k])
  BY <1>4, <1>6, <1>7 DEF GoodTree
<1>9. \A f \in files : f.ino # n
  BY <1>2 DEF InUse
<1> QED BY <1>1, <1>2, <1>5, <1>8, <1>9

(* mkdir: the new directory gets an inode that no open file has, so no file   *)
(* object becomes one of a directory.                                         *)
LEMMA MkdirGood ==
  ASSUME FilesInv, NEW t \in Threads, _hostfs_mkdir(t)
  PROVE  FilesInv'
<1>1. op[t].m \in Mount /\ op[t].host \in Paths
  BY CallFields DEF _hostfs_mkdir, Writes, PathKinds
<1>2. PICK p \in Paths : p = op[t].host
  BY <1>1
<1>3. PICK n : n = IF CanCreate(p) THEN FreeNode ELSE 1
  OBVIOUS
<1>4. Effect(t, CanCreate(p), Extended(p, n), [nodes EXCEPT ![n] = "dir"])
  BY <1>2, <1>3 DEF _hostfs_mkdir
<1>5. ASSUME CanCreate(p)
      PROVE  /\ GoodTree(Extended(p, n), [nodes EXCEPT ![n] = "dir"])
             /\ \A f \in files : ~f.dir => [nodes EXCEPT ![n] = "dir"][f.ino] # "dir"
  <2>1. n = FreeNode
    BY <1>3, <1>5
  <2>2. GoodTree(Extended(p, n), [nodes EXCEPT ![n] = "dir"]) /\ \A f \in files : f.ino # n
    BY <1>5, <2>1, CreateGood
  <2>3. \A f \in files : f.ino \in 1 .. MaxNodes /\ (~f.dir => nodes[f.ino] # "dir")
    BY DEF FilesInv, ObjectsGood, Object
  <2>4. nodes \in [1 .. MaxNodes -> {"dir", "file", "data"}]
    BY DEF FilesInv, GoodTree
  <2> QED BY <2>2, <2>3, <2>4
<1>6. CanCreate(p) \in BOOLEAN
  BY DEF CanCreate
<1> QED BY <1>1, <1>4, <1>5, <1>6, EffectGood

(* The inodes stay as they are. *)
LEMMA NodesKept ==
  ASSUME FilesInv
  PROVE  GoodTree(tree, nodes) /\ \A f \in files : ~f.dir => nodes[f.ino] # "dir"
BY DEF FilesInv, ObjectsGood

(* rmdir: only a directory with nothing below it goes. *)
LEMMA RmdirGood ==
  ASSUME FilesInv, NEW t \in Threads, _hostfs_rmdir(t)
  PROVE  FilesInv'
<1>1. op[t].m \in Mount /\ op[t].host \in Paths
  BY CallFields DEF _hostfs_rmdir, Writes, PathKinds
<1>2. PICK p \in Paths : p = op[t].host
  BY <1>1
<1>3. PICK can \in BOOLEAN : can = (p # <<>> /\ IsDir(p) /\ Below(p) = {})
  OBVIOUS
<1>4. Effect(t, can, Removed({p}), nodes)
  BY <1>2, <1>3 DEF _hostfs_rmdir
<1>5. can => GoodTree(Removed({p}), nodes) /\ \A f \in files : ~f.dir => nodes[f.ino] # "dir"
  BY <1>3, NodesKept, TreeRemoved DEF IsDir, Exists
<1> QED BY <1>1, <1>4, <1>5, EffectGood

(* unlink: only a file goes, and nothing is below a file. *)
LEMMA UnlinkGood ==
  ASSUME FilesInv, NEW t \in Threads, _hostfs_unlink(t)
  PROVE  FilesInv'
<1>1. op[t].m \in Mount /\ op[t].host \in Paths
  BY CallFields DEF _hostfs_unlink, Writes, PathKinds
<1>2. PICK p \in Paths : p = op[t].host
  BY <1>1
<1>3. PICK can \in BOOLEAN : can = (Exists(p) /\ ~IsDir(p))
  OBVIOUS
<1>4. Effect(t, can, Removed({p}), nodes)
  BY <1>2, <1>3 DEF _hostfs_unlink
<1>5. can => GoodTree(Removed({p}), nodes) /\ \A f \in files : ~f.dir => nodes[f.ino] # "dir"
  BY <1>3, NodesKept, FileIsLeaf, TreeRemoved DEF Exists
<1> QED BY <1>1, <1>4, <1>5, EffectGood

(* truncate: the inode of a file stays that of a file. *)
LEMMA TruncateGood ==
  ASSUME FilesInv, NEW t \in Threads, _hostfs_truncate(t)
  PROVE  FilesInv'
<1>1. op[t].m \in Mount /\ op[t].host \in Paths
  BY CallFields DEF _hostfs_truncate, Writes, PathKinds
<1>2. PICK p \in Paths : p = op[t].host
  BY <1>1
<1>3. PICK can \in BOOLEAN : can = (Exists(p) /\ ~IsDir(p))
  OBVIOUS
<1>4. PICK nd : nd = IF Exists(p) THEN [nodes EXCEPT ![tree[p]] = "file"] ELSE nodes
  OBVIOUS
<1>5. Effect(t, can, tree, nd)
  BY <1>2, <1>3, <1>4 DEF _hostfs_truncate
<1>6. ASSUME can
      PROVE  GoodTree(tree, nd) /\ \A f \in files : ~f.dir => nd[f.ino] # "dir"
  <2>1. PICK n \in 1 .. MaxNodes : n = tree[p] /\ nodes[n] # "dir"
    BY <1>3, <1>6 DEF Exists, IsDir, FilesInv, GoodTree
  <2>2. nd = [nodes EXCEPT ![n] = "file"]
    BY <1>3, <1>4, <1>6, <2>1
  <2>3. GoodTree(tree, nd)
    BY <2>1, <2>2, NodesKept, NodesChanged
  <2>4. nodes \in [1 .. MaxNodes -> {"dir", "file", "data"}]
    BY DEF FilesInv, GoodTree
  <2>5. \A f \in files : f.ino \in 1 .. MaxNodes
    BY DEF FilesInv, ObjectsGood, Object
  <2> QED BY <2>2, <2>3, <2>4, <2>5, NodesKept
<1> QED BY <1>1, <1>5, <1>6, EffectGood

(* rename: what was below the old path is below the new one. *)
LEMMA RenameGood ==
  ASSUME FilesInv, NEW t \in Threads, _hostfs_rename(t)
  PROVE  FilesInv'
<1>1. op[t].m \in Mount /\ op[t].host \in Paths /\ op[t].new \in Paths
  BY CallFields DEF _hostfs_rename, Writes
<1>2. PICK p \in Paths, q \in Paths : p = op[t].host /\ q = op[t].new
  BY <1>1
<1>3. PICK can \in BOOLEAN : can = CanRename(p, q)
  BY DEF CanRename
<1>4. PICK tr : tr = IF can THEN Renamed(p, q) ELSE tree
  OBVIOUS
<1>5. Effect(t, can, tr, nodes)
  BY <1>2, <1>3, <1>4 DEF _hostfs_rename
<1>6. can => GoodTree(tr, nodes) /\ \A f \in files : ~f.dir => nodes[f.ino] # "dir"
  BY <1>3, <1>4, NodesKept, TreeRenamed
<1> QED BY <1>1, <1>5, <1>6, EffectGood

(* link: a second path to the same inode. *)
LEMMA LinkGood ==
  ASSUME FilesInv, NEW t \in Threads, _hostfs_link(t)
  PROVE  FilesInv'
<1>1. op[t].m \in Mount /\ op[t].host \in Paths /\ op[t].new \in Paths
  BY CallFields DEF _hostfs_link, Writes
<1>2. PICK p \in Paths, q \in Paths : p = op[t].host /\ q = op[t].new
  BY <1>1
<1>3. PICK can \in BOOLEAN : can = (Exists(p) /\ ~IsDir(p) /\ q # <<>> /\ Parent(q) /\ ~Exists(q))
  OBVIOUS
<1>4. PICK tr : tr = IF can THEN Extended(q, tree[p]) ELSE tree
  OBVIOUS
<1>5. Effect(t, can, tr, nodes)
  BY <1>2, <1>3, <1>4 DEF _hostfs_link
<1>6. ASSUME can PROVE GoodTree(tr, nodes)
  <2>1. PICK n \in 1 .. MaxNodes : n = tree[p]
    BY <1>3, <1>6 DEF Exists, FilesInv, GoodTree
  <2>2. GoodTree(Extended(q, n), nodes)
    BY <1>3, <1>6, NodesKept, TreeExtended
  <2> QED BY <1>4, <1>6, <2>1, <2>2
<1> QED BY <1>1, <1>5, <1>6, NodesKept, EffectGood

(* A file object comes: it takes a handle nobody has. *)
LEMMA ObjectAdded ==
  ASSUME FilesInv, Cardinality(files) < MaxFiles, NEW f \in Object, f.h = FreeHandle,
         files' = files \cup {f}, handles' = handles \cup {FreeHandle},
         \A g \in files : ~g.dir => nodes'[g.ino] # "dir",
         ~f.dir => nodes'[f.ino] # "dir", f.write => ~f.ro
  PROVE  ObjectsGood'
<1>1. /\ files \subseteq Object /\ IsFiniteSet(files)
      /\ \A g \in files : g.write => ~g.ro
      /\ \A g, k \in files : g.h = k.h => g = k
      /\ handles = {g.h : g \in files}
  BY DEF FilesInv, ObjectsGood
<1>2. FreeHandle \notin handles
  BY FreeHandleFacts
<1>3. files' \subseteq Object /\ IsFiniteSet(files') /\ Cardinality(files') <= MaxFiles
  <2>1. Cardinality(files) \in Nat /\ MaxFiles \in Nat
    BY <1>1, FS_CardinalityType, FilesAssumption
  <2>2. /\ IsFiniteSet(files \cup {f})
        /\ Cardinality(files \cup {f}) = IF f \in files THEN Cardinality(files) ELSE Cardinality(files) + 1
    BY <1>1, FS_AddElement
  <2>3. Cardinality(files \cup {f}) \in Nat
    BY <2>2, FS_CardinalityType
  <2> QED BY <1>1, <2>1, <2>2, <2>3
<1>4. \A g \in files' : (~g.dir => nodes'[g.ino] # "dir") /\ (g.write => ~g.ro)
  BY <1>1
<1>5. \A g, k \in files' : g.h = k.h => g = k
  <2>1. \A g \in files : g.h # f.h
    BY <1>1, <1>2
  <2> QED BY <1>1, <2>1
<1>6. handles' = {g.h : g \in files'}
  BY <1>1
<1> QED BY <1>3, <1>4, <1>5, <1>6 DEF ObjectsGood

(* open: a file object gets a handle nobody has, and can be written only when *)
(* its mount is not read-only.                                                *)
LEMMA OpenFileGood ==
  ASSUME FilesInv, NEW t \in Threads, OpenFile(t)
  PROVE  FilesInv'
<1>1. PICK m \in Mount, p \in Paths, fl \in Flags : m = op[t].m /\ p = op[t].host /\ fl = op[t].flags
  BY CallFields DEF OpenFile, PathKinds
<1>2. PICK create \in BOOLEAN : create = (fl.creat /\ CanCreate(p))
  BY DEF Flags
<1>3. PICK opens \in BOOLEAN : opens = /\ ~OpenRefused(m, fl)
                                       /\ Cardinality(files) < MaxFiles
                                       /\ create \/ (Exists(p) /\ ~IsDir(p))
  OBVIOUS
<1>4. PICK n : n = IF create THEN FreeNode ELSE tree[p]
  OBVIOUS
<1>5. CallsGood' /\ MountsGood' /\ cwd' \in Paths
  BY CallFinished, MountsUnchanged DEF OpenFile, FilesInv
<1>6. CASE ~opens
  <2>1. NoChange /\ UNCHANGED <<files, handles>>
    BY <1>1, <1>2, <1>3, <1>6 DEF OpenFile
  <2> QED BY <1>5, <2>1, HostUntouched
<1>7. CASE opens
  <2>1. PICK tr, nd : /\ tr = IF create THEN Extended(p, n) ELSE tree
                      /\ nd = IF create \/ fl.trunc THEN [nodes EXCEPT ![n] = "file"] ELSE nodes
    OBVIOUS
  <2>2. PICK f : f = [h |-> FreeHandle, ino |-> n, write |-> fl.write, dir |-> FALSE, ro |-> m.ro]
    OBVIOUS
  <2>3. /\ Change([ro |-> m.ro /\ fl.write], tr, nd)
        /\ files' = files \cup {f} /\ handles' = handles \cup {FreeHandle}
    BY <1>1, <1>2, <1>3, <1>4, <1>7, <2>1, <2>2 DEF OpenFile
  <2>4. ~(m.ro /\ fl.write) /\ Cardinality(files) < MaxFiles
    BY <1>3, <1>7 DEF OpenRefused, _is_read_only
  <2>5. tree' = tr /\ nodes' = nd /\ roChanged' = FALSE
    BY <2>3, <2>4 DEF Change, FilesInv
  <2>6. nodes \in [1 .. MaxNodes -> {"dir", "file", "data"}] /\ \A g \in files : g.ino \in 1 .. MaxNodes
    BY DEF FilesInv, GoodTree, ObjectsGood, Object
  <2>7. n \in 1 .. MaxNodes /\ GoodTree(tr, nd) /\ nd[n] # "dir" /\ \A g \in files : ~g.dir => nd[g.ino] # "dir"
    <3>1. CASE create
      <4>1. n = FreeNode /\ tr = Extended(p, n) /\ nd = [nodes EXCEPT ![n] = "file"] /\ CanCreate(p)
        BY <1>2, <1>4, <2>1, <3>1
      <4>2. n \in 1 .. MaxNodes /\ GoodTree(tr, nd)
        BY <4>1, CreateGood
      <4> QED BY <2>6, <4>1, <4>2, NodesKept
    <3>2. CASE ~create
      <4>1. n = tree[p] /\ tr = tree /\ Exists(p) /\ ~IsDir(p)
        BY <1>3, <1>4, <1>7, <2>1, <3>2
      <4>2. n \in 1 .. MaxNodes /\ nodes[n] # "dir"
        BY <4>1, NodesKept DEF GoodTree, Exists, IsDir
      <4>3. CASE fl.trunc
        <5>1. nd = [nodes EXCEPT ![n] = "file"]
          BY <2>1, <4>3
        <5>2. GoodTree(tr, nd)
          BY <4>1, <4>2, <5>1, NodesKept, NodesChanged
        <5> QED BY <2>6, <4>2, <5>1, <5>2, NodesKept
      <4>4. CASE ~fl.trunc
        <5>1. nd = nodes
          BY <2>1, <3>2, <4>4
        <5> QED BY <4>1, <4>2, <5>1, NodesKept
      <4> QED BY <4>3, <4>4
    <3> QED BY <3>1, <3>2
  <2>8. f \in Object /\ f.h = FreeHandle /\ f.ino = n /\ f.dir = FALSE /\ (f.write => ~f.ro)
    <3>1. FreeHandle \in 1 .. MaxFiles + 1
      BY <2>4, FreeHandleFacts
    <3>2. fl.write \in BOOLEAN /\ m.ro \in BOOLEAN
      BY DEF Flags, Mount
    <3> QED BY <2>2, <2>4, <2>7, <3>1, <3>2 DEF Object
  <2>9. ObjectsGood'
    BY <2>3, <2>4, <2>5, <2>7, <2>8, ObjectAdded
  <2>10. GoodTree(tree, nodes)'
    BY <2>5, <2>7 DEF GoodTree
  <2> QED BY <1>5, <2>5, <2>9, <2>10 DEF FilesInv
<1> QED BY <1>6, <1>7

(* opendir: the object gets a handle nobody has; without memory nothing is    *)
(* left.                                                                      *)
LEMMA OpenDirectoryGood ==
  ASSUME FilesInv, NEW t \in Threads, OpenDirectory(t)
  PROVE  FilesInv'
<1>1. PICK m \in Mount, p \in Paths : m = op[t].m /\ p = op[t].host
  BY CallFields DEF OpenDirectory, PathKinds
<1>2. CallsGood' /\ MountsGood' /\ cwd' \in Paths /\ NoChange
  BY CallFinished, MountsUnchanged DEF OpenDirectory, FilesInv
<1>3. PICK memory \in BOOLEAN :
        IF IsDir(p) /\ memory /\ Cardinality(files) < MaxFiles
        THEN /\ files' = files \cup {[h |-> FreeHandle, ino |-> tree[p], write |-> FALSE,
                                       dir |-> TRUE, ro |-> m.ro]}
             /\ handles' = handles \cup {FreeHandle}
        ELSE UNCHANGED <<files, handles>>
  BY <1>1 DEF OpenDirectory
<1>4. CASE ~(IsDir(p) /\ memory /\ Cardinality(files) < MaxFiles)
  BY <1>2, <1>3, <1>4, HostUntouched
<1>5. CASE IsDir(p) /\ memory /\ Cardinality(files) < MaxFiles
  <2>1. PICK f : f = [h |-> FreeHandle, ino |-> tree[p], write |-> FALSE, dir |-> TRUE, ro |-> m.ro]
    OBVIOUS
  <2>2. files' = files \cup {f} /\ handles' = handles \cup {FreeHandle}
    BY <1>3, <1>5, <2>1
  <2>3. tree[p] \in 1 .. MaxNodes
    BY <1>5, NodesKept DEF GoodTree, IsDir, Exists
  <2>4. FreeHandle \in 1 .. MaxFiles + 1 /\ m.ro \in BOOLEAN
    BY <1>5, FreeHandleFacts DEF Mount
  <2>5. f \in Object /\ f.h = FreeHandle /\ f.dir = TRUE /\ f.write = FALSE
    BY <2>1, <2>3, <2>4 DEF Object
  <2>6. \A g \in files : ~g.dir => nodes'[g.ino] # "dir"
    BY <1>2, NodesKept DEF NoChange
  <2>7. ObjectsGood'
    BY <1>5, <2>2, <2>5, <2>6, ObjectAdded
  <2>8. GoodTree(tree, nodes)' /\ roChanged' = FALSE
    BY <1>2 DEF FilesInv, NoChange, GoodTree
  <2> QED BY <1>2, <2>7, <2>8 DEF FilesInv
<1> QED BY <1>4, <1>5

(* A file that can be written did not come from a read-only mount, and is no  *)
(* directory.                                                                 *)
LEMMA WriteFileGood ==
  ASSUME FilesInv, NEW t \in Threads, NEW f \in files, WriteFile(t, f)
  PROVE  FilesInv'
<1>1. CallsGood'
  BY CallsUnchanged DEF WriteFile
<1>2. f.ino \in 1 .. MaxNodes /\ nodes[f.ino] # "dir" /\ f.ro = FALSE
  BY DEF WriteFile, FilesInv, ObjectsGood, Object
<1>3. PICK kind \in {"file", "data"} : Change([ro |-> f.ro], tree, [nodes EXCEPT ![f.ino] = kind])
  BY DEF WriteFile
<1>4. GoodTree(tree, [nodes EXCEPT ![f.ino] = kind])
  BY <1>2, NodesKept, NodesChanged
<1>5. \A g \in files : ~g.dir => [nodes EXCEPT ![f.ino] = kind][g.ino] # "dir"
  <2>1. nodes \in [1 .. MaxNodes -> {"dir", "file", "data"}] /\ \A g \in files : g.ino \in 1 .. MaxNodes
    BY DEF FilesInv, GoodTree, ObjectsGood, Object
  <2> QED BY <2>1, NodesKept
<1>6. PICK m : m = [ro |-> f.ro]
  OBVIOUS
<1>7. m.ro = FALSE
  BY <1>2, <1>6
<1>8. UNCHANGED <<mounts, cwd, files, handles>>
  BY DEF WriteFile
<1>9. Change(m, tree, [nodes EXCEPT ![f.ino] = kind])
  BY <1>3, <1>6
<1> QED BY <1>1, <1>4, <1>5, <1>7, <1>8, <1>9, HostChanged

(* close: no other object has the handle that is closed. *)
LEMMA CloseFileGood ==
  ASSUME FilesInv, NEW t \in Threads, NEW f \in files, CloseFile(t, f)
  PROVE  FilesInv'
<1>1. CallsGood' /\ MountsGood' /\ cwd' \in Paths
  BY CallsUnchanged, MountsUnchanged DEF CloseFile, FilesInv
<1>2. GoodTree(tree, nodes)' /\ roChanged' = FALSE /\ nodes' = nodes
  BY DEF CloseFile, NoChange, FilesInv, GoodTree
<1>3. files' = files \ {f} /\ handles' = handles \ {f.h}
  BY DEF CloseFile
<1>4. /\ files \subseteq Object /\ IsFiniteSet(files) /\ Cardinality(files) <= MaxFiles
      /\ \A g \in files : (~g.dir => nodes[g.ino] # "dir") /\ (g.write => ~g.ro)
      /\ \A g, k \in files : g.h = k.h => g = k
      /\ handles = {g.h : g \in files}
  BY DEF FilesInv, ObjectsGood
<1>5. IsFiniteSet(files') /\ Cardinality(files') <= MaxFiles
  <2>1. Cardinality(files) \in Nat /\ MaxFiles \in Nat
    BY <1>4, FS_CardinalityType, FilesAssumption
  <2>2. IsFiniteSet(files \ {f}) /\ Cardinality(files \ {f}) = Cardinality(files) - 1
    BY <1>4, FS_RemoveElement
  <2> QED BY <1>3, <1>4, <2>1, <2>2
<1>6. handles' = {g.h : g \in files'}
  BY <1>3, <1>4
<1>7. ObjectsGood'
  BY <1>2, <1>3, <1>4, <1>5, <1>6 DEF ObjectsGood
<1> QED BY <1>1, <1>2, <1>7 DEF FilesInv

(* Every step of every thread. *)
LEMMA FileStepGood ==
  ASSUME FilesInv, NEW t \in Threads, FileStep(t)
  PROVE  FilesInv'
<1>1. NoFlags \in Flags /\ OpenFlags \subseteq Flags
  BY FilesAssumption DEF NoFlags, Flags
<1>2. ASSUME NEW p \in PathArgs, NEW k \in (PathKinds \cup PairKinds) \ {"open"}, Resolve(t, k, p, NoFlags)
      PROVE  FilesInv'
  BY <1>1, <1>2, ResolveGood
<1>3. ASSUME NEW p \in PathArgs, NEW fl \in OpenFlags, Resolve(t, "open", p, fl)
      PROVE  FilesInv'
  <2>1. "open" \in PathKinds \cup PairKinds /\ fl \in Flags
    BY <1>1 DEF PathKinds
  <2> QED BY <1>3, <2>1, ResolveGood
<1> QED BY <1>2, <1>3, MountStatGood, MountTableGood, UmountGood, Resolve2Good, OpenFileGood,
        OpenDirectoryGood, MkdirGood, RmdirGood, UnlinkGood, TruncateGood, RenameGood, LinkGood,
        ChdirGood, WriteFileGood, CloseFileGood DEF FileStep

(* Nothing happens. *)
LEMMA FilesStutter ==
  ASSUME FilesInv, UNCHANGED fileVars
  PROVE  FilesInv'
<1>1. NoChange /\ UNCHANGED <<files, handles, mounts, op, cwd>>
  BY DEF fileVars, NoChange
<1>2. MountsGood' /\ CallsGood' /\ cwd' \in Paths
  BY <1>1, MountsUnchanged, CallsUnchanged DEF FilesInv
<1> QED BY <1>1, <1>2, HostUntouched

(* FilesSound for every host tree, every set of paths, mount points and       *)
(* sources, and any number of threads, mounts, inodes and open files: the     *)
(* path functions of syscall/ and the device of hostfs.c change nothing       *)
(* through a read-only mount, give the host only paths below their mount's    *)
(* source, and keep one host handle for each file object.                     *)
THEOREM FilesStaySound == FilesSpec => []FilesSound
<1>1. FilesInit(0) => FilesInv
  BY FilesStart
<1>2. FilesInv /\ [\E t \in Threads : FileStep(t)]_fileVars => FilesInv'
  BY FileStepGood, FilesStutter
<1>3. FilesInv => FilesSound
  BY FilesInvSound
<1> QED BY <1>1, <1>2, <1>3, PTL DEF FilesSpec

============================================================================
